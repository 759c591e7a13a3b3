------------------------------ MODULE EventSpool ------------------------------
(***************************************************************************)
(* How one session's terminal Events survive in the Bridge: the producer's *)
(* POST is reserved in the encrypted spool, accepted in the state file,    *)
(* promoted to a pending source, uploaded, and completed or dead-lettered; *)
(* or it is cancelled.  Spool and state are two files, each replaced       *)
(* atomically.  A handler of the Agent Adapter runs to its end without     *)
(* being interleaved (it is synchronous), but any of its writes may fail   *)
(* and the process may end before any of them: `job' holds the writes that *)
(* the running handler has still to make.                                  *)
(*                                                                         *)
(* An Event is <<s, i>>: the i-th id created for the producer's source s,  *)
(* whose number is its order.  Sources have distinct fingerprints.  Which  *)
(* Event a session shows (lastEventId, recentEvents) is not tracked.       *)
(***************************************************************************)
EXTENDS Naturals, Sequences, FiniteSets, SequencesExt

CONSTANTS
    NumSources,   \* sources the producer sends: 1 .. NumSources
    NeedHuman,    \* those among them that ask for the user
    MaxIds,       \* ids created for one source
    MaxEvents,    \* ids created in all
    MaxFaults,    \* writes that fail
    MaxMishaps    \* writes that fail and ends of the process, together

ASSUME BoundsAssumption ==
    /\ NumSources \in Nat \ {0} /\ MaxIds \in Nat \ {0}
    /\ MaxEvents \in Nat /\ MaxFaults \in Nat /\ MaxMishaps \in Nat
    /\ NeedHuman \subseteq 1..NumSources

VARIABLES
    disk,      \* the state file
    mem,       \* the state in memory; a failed write may leave it ahead
    spool,     \* the spool: its file and its memory always agree
    status,    \* "down", "boot" (initializeEncryptedSpool runs) or "up"
    job,       \* the writes the running handler has still to make
    reply,     \* the Event the running handler will answer its producer
    owner,     \* the session has a live owner in the registry
    delayed,   \* delayedTerminalEvents of the session
    retry,     \* a terminal retry timer is set
    busy,      \* hasPendingCommandWork of the session
    sending,   \* the Event whose upload awaits the Relay's answer
    relay,     \* Events the Relay has stored
    acked,     \* Events a producer was answered
    gone,      \* Events whose cancellation became durable
    made,      \* ids created for each source
    crashes, faults

vars == <<disk, mem, spool, status, job, reply, owner, delayed, retry,
          busy, sending, relay, acked, gone, made, crashes, faults>>
files == <<disk, mem, spool>>
registry == <<owner, delayed, retry, busy>>
history == <<relay, acked, gone, made>>
bounds == <<crashes, faults>>

Sources == 1..NumSources
Events == Sources \X (1..MaxIds)
NoEvent == <<0, 0>>
MaybeEvent == Events \cup {NoEvent}
Stages == <<"none", "begun", "unsent", "unsourced">>

-------------------------------------------------------------------------------
(* The two files. *)

\* PersistedBridgeState, as far as Events go.
States ==
    [reserved : [Sources -> 0..MaxIds],        \* producerEventReservations
     check : MaybeEvent,                       \* producerEventCheckpoints
     session : BOOLEAN,                        \* sessions
     driven : BOOLEAN,                         \* sessionDrivers is agent-adapter
     cancels : [Events -> {"no", "keep", "remove"}],   \* terminalCancellations
     completions : [Events -> {Stages[i] : i \in 1..4}]]

EmptyState ==
    [reserved |-> [s \in Sources |-> 0], check |-> NoEvent, session |-> FALSE,
     driven |-> FALSE,
     cancels |-> [e \in Events |-> "no"],
     completions |-> [e \in Events |-> "none"]]

\* The items of the spool, by payload kind.
Spools ==
    [tuple : [Events -> {"none", "reservation", "source"}],
     intent : [Events -> {"no", "keep", "remove"}],
     upload : SUBSET Events,
     dead : SUBSET Events]

EmptySpool ==
    [tuple |-> [e \in Events |-> "none"], intent |-> [e \in Events |-> "no"],
     upload |-> {}, dead |-> {}]

Reserved(state, e) == e # NoEvent /\ state.reserved[e[1]] = e[2]
HasTuple(e) == spool.tuple[e] # "none"

\* A reservation whose tuple has not been promoted, which ending the session cancels.
Cancellable == {e \in Events : Reserved(mem, e) /\ spool.tuple[e] = "reservation"}

\* A pending Event the upload processor may take.
Pending == {e \in Events : spool.tuple[e] = "source" /\ mem.cancels[e] = "no"}

-------------------------------------------------------------------------------
(* Handlers as sequences of steps. *)

Step(op, e, how) == [op |-> op, ev |-> e, how |-> how]

\* commitPendingTerminal: the tuple becomes a pending source, then the state follows.
PromoteSteps(e) == <<Step("promote", e, ""), Step("queue", e, "")>>

\* finishTerminalCancellation: source and intent leave the spool, then the state follows.
FinishSteps(e) == <<Step("drop", e, ""), Step("clear", e, "")>>

\* Mutant: the source is removed before the cancellation is durable.
CancelDropsFirst(e, how) ==
    (IF Reserved(mem, e) \/ spool.tuple[e] = "reservation"
     THEN <<Step("drop", e, how), Step("cancel", e, how), Step("clear", e, how)>>
     ELSE <<>>)
    \o <<Step("forget", e, how)>>

\* cancelTerminalRetry around cancelTerminalEvent, which returns at once when
\* neither file knows the Event as reserved.
CancelSteps(e, how) ==
    (IF Reserved(mem, e) \/ spool.tuple[e] = "reservation"
     THEN <<Step("intent", e, how), Step("cancel", e, how)>> \o FinishSteps(e)
     ELSE <<>>)
    \o <<Step("forget", e, how)>>

\* Mutant: the journal runs ahead of the spool.
CompleteMarksFirst(e, stage) ==
    <<Step("mark", e, "unsent"), Step("unsend", e, ""), Step("mark", e, "unsourced"),
      Step("unsource", e, ""), Step("mark", e, "none")>>

\* completeEventUpload, from the stage the journal has reached.
CompleteSteps(e, stage) ==
    (CASE stage = "begun" -> <<Step("unsend", e, ""), Step("mark", e, "unsent"),
                               Step("unsource", e, ""), Step("mark", e, "unsourced")>>
       [] stage = "unsent" -> <<Step("unsource", e, ""), Step("mark", e, "unsourced")>>
       [] OTHER -> <<>>)
    \o <<Step("mark", e, "none")>>

Idle == status = "up" /\ job = <<>>
Begin(steps, answer) == job' = steps /\ reply' = answer
Answer(e) == acked' = acked \cup {e} /\ UNCHANGED <<job, reply>>

-------------------------------------------------------------------------------
(* pushEventSource. *)

\* The source is the one of the checkpoint: its reservation must still have a tuple.
ReplayAccepted(s) ==
    LET e == mem.check IN
    /\ e[1] = s
    /\ \/ /\ mem.reserved[s] = 0
          /\ Answer(e)
          /\ UNCHANGED delayed
       \/ /\ Reserved(mem, e) /\ HasTuple(e)
          /\ delayed' = e
          /\ IF busy THEN Answer(e) ELSE Begin(PromoteSteps(e), e) /\ UNCHANGED acked
    /\ UNCHANGED made

\* A live duplicate of the delayed Event; the checkpoint is not written.
ReplayDelayed(s) ==
    /\ delayed[1] = s
    /\ IF busy THEN Answer(delayed)
               ELSE Begin(PromoteSteps(delayed), delayed) /\ UNCHANGED acked
    /\ UNCHANGED <<delayed, made>>

\* A reservation of an earlier process, with its tuple or without.
ReplayReserved(s) ==
    LET e == <<s, mem.reserved[s]>> IN
    /\ mem.reserved[s] # 0
    /\ delayed[1] # s
    /\ \/ ~HasTuple(e) /\ Answer(e) /\ UNCHANGED delayed
       \/ /\ HasTuple(e)
          /\ delayed' = e
          /\ Begin(<<Step("accept", e, "")>>
                     \o (IF busy THEN <<>> ELSE PromoteSteps(e)), e)
          /\ UNCHANGED acked
    /\ UNCHANGED made

\* A new Event, after the cancellation of an older one that is still delayed.
Reserve(s) ==
    LET e == <<s, made[s] + 1>> IN
    /\ mem.reserved[s] = 0
    /\ delayed[1] # s
    /\ made[s] < MaxIds /\ FoldFunction(+, 0, made) < MaxEvents
    /\ made' = [made EXCEPT ![s] = @ + 1]
    /\ Begin((IF delayed = NoEvent THEN <<>> ELSE CancelSteps(delayed, "keep"))
               \o <<Step("reserve", e, ""), Step("accept", e, "")>>
               \o (IF busy THEN <<>> ELSE PromoteSteps(e)), e)
    /\ UNCHANGED <<delayed, acked>>

Push(s) ==
    /\ Idle
    /\ owner
    /\ \/ ReplayAccepted(s)
       \/ /\ s > mem.check[1]
          /\ ReplayDelayed(s) \/ ReplayReserved(s) \/ Reserve(s)
    /\ UNCHANGED <<files, status, owner, retry, busy, sending, relay, gone, bounds>>

-------------------------------------------------------------------------------
(* The other handlers of the registry, and the sync pass. *)

\* restorePersistedTerminalForRegistration: the Event that a need_human
\* registration finds among the reservations, with its tuple.
Restorable == {e \in Events : Reserved(mem, e) /\ HasTuple(e) /\ e[1] \in NeedHuman}

\* register: the session is bound; a need_human one after a restart may first
\* restore its Event; in a context that has moved, a reserved tuple is cancelled,
\* and the session is bound in that write.  A registration that finds the lease
\* expired first loses it: LoseOwnership.
RegisterSteps(restores, moved) ==
    CASE restores -> {PromoteSteps(e) \o <<Step("bind", e, "")>> : e \in Restorable}
      [] moved /\ Cancellable # {} ->
           {CancelSteps(IF delayed # NoEvent THEN delayed ELSE e, "own") : e \in Cancellable}
      [] OTHER -> {<<Step("bind", NoEvent, "")>>}

Register(restores, moved) ==
    /\ Idle
    /\ restores => ~owner /\ ~moved
    /\ moved => owner \/ mem.session
    /\ \E steps \in RegisterSteps(restores, moved) : Begin(steps, NoEvent)
    /\ UNCHANGED <<files, status, registry, sending, history, bounds>>

\* heartbeat with a new context, which cancels a delayed Event.
Heartbeat ==
    /\ Idle
    /\ owner
    /\ delayed # NoEvent
    /\ Begin(CancelSteps(delayed, "keep"), NoEvent)
    /\ UNCHANGED <<files, status, registry, sending, history, bounds>>

\* loseOwnership: a delayed or reserved Event is cancelled with the session.
LoseOwnership ==
    /\ Idle
    /\ owner
    /\ LET victims == IF delayed # NoEvent THEN {delayed} ELSE Cancellable IN
       IF victims = {} THEN Begin(<<Step("remove", NoEvent, "")>>, NoEvent)
       ELSE \E e \in victims : Begin(CancelSteps(e, "remove"), NoEvent)
    /\ UNCHANGED <<files, status, registry, sending, history, bounds>>

\* flushDelayedTerminalEvent, when command work ends and when the retry timer fires.
FlushSteps ==
    IF delayed = NoEvent \/ busy' THEN <<>>
    ELSE IF owner THEN PromoteSteps(delayed) ELSE CancelSteps(delayed, "keep")

CommandWork ==
    /\ Idle
    /\ owner
    /\ busy' = ~busy
    /\ Begin(FlushSteps, NoEvent)
    /\ UNCHANGED <<files, status, owner, delayed, retry, sending, history, bounds>>

RetryTimer ==
    /\ Idle
    /\ retry
    /\ retry' = FALSE
    /\ UNCHANGED busy
    /\ Begin(FlushSteps, NoEvent)
    /\ UNCHANGED <<files, status, owner, delayed, sending, history, bounds>>

\* replaceDriverSessions of a sync pass: the live session, or none once the
\* recovery deadline has passed without a registration.
SyncSessions ==
    /\ Idle
    /\ owner # (mem.session /\ mem.driven)
    /\ Begin(<<Step("replace", NoEvent, "")>>, NoEvent)
    /\ UNCHANGED <<files, status, registry, sending, history, bounds>>

-------------------------------------------------------------------------------
(* The upload of pending Events.  The processor takes them in the order of   *)
(* the spool; here it may take any.                                          *)

\* processPendingEventDescriptor: a journaled completion goes first.
ResumeCompletion(e) ==
    /\ Idle
    /\ sending = NoEvent
    /\ e \in Pending
    /\ mem.completions[e] # "none"
    /\ Begin(CompleteSteps(e, mem.completions[e]), NoEvent)
    /\ UNCHANGED <<files, status, registry, sending, history, bounds>>

\* An upload that is kept is sent again, otherwise it is built and kept first.
StartUpload(e) ==
    /\ Idle
    /\ sending = NoEvent
    /\ e \in Pending
    /\ mem.completions[e] = "none"
    /\ spool' = [spool EXCEPT !.upload = @ \cup {e}]
    /\ sending' = e
    /\ UNCHANGED <<disk, mem, status, job, reply, registry, history, bounds>>

\* The Relay stores the Event and its answer, or the one of the reconciliation, arrives.
UploadAccepted ==
    /\ Idle
    /\ sending # NoEvent
    /\ relay' = relay \cup {sending}
    /\ sending' = NoEvent
    /\ Begin(<<Step("mark", sending, "begun")>> \o CompleteSteps(sending, "begun"), NoEvent)
    /\ UNCHANGED <<files, status, registry, acked, gone, made, bounds>>

\* No answer: the Relay may have stored the Event, and the upload is kept.
UploadDeferred(stored) ==
    /\ Idle
    /\ sending # NoEvent
    /\ relay' = IF stored THEN relay \cup {sending} ELSE relay
    /\ sending' = NoEvent
    /\ UNCHANGED <<files, status, job, reply, registry, acked, gone, made, bounds>>

\* quarantinePermanentlyConflictingEvent: proven not stored, so one replacement of
\* the spool makes source and upload a dead letter.
UploadRefused ==
    /\ Idle
    /\ sending # NoEvent
    /\ sending \notin relay
    /\ sending' = NoEvent
    /\ spool' = IF HasTuple(sending)
                THEN [spool EXCEPT !.tuple[sending] = "none", !.upload = @ \ {sending},
                                   !.dead = @ \cup {sending}]
                ELSE spool
    /\ UNCHANGED <<disk, mem, status, job, reply, registry, history, bounds>>

-------------------------------------------------------------------------------
(* The writes.  A state write that reports failure may have taken place; a   *)
(* spool write that fails is read back, so that its outcome is certain.      *)

Removed(state) == [state EXCEPT !.session = FALSE, !.driven = FALSE]
Shown(state, driver) == [state EXCEPT !.session = TRUE, !.driven = driver]

\* cancelTerminalEvent, and its counterpart at startup, which keeps the checkpoint.
Cancelled(e, how) ==
    LET freed == [mem EXCEPT !.reserved[e[1]] = IF @ = e[2] THEN 0 ELSE @,
                             !.cancels[e] = IF how = "remove" THEN "remove" ELSE "keep"] IN
    CASE how = "remove" -> [Removed(freed) EXCEPT !.check = IF status = "boot" THEN @ ELSE NoEvent]
      [] how = "own" -> Shown(freed, FALSE)
      [] OTHER -> freed

\* The reservations that the tuples of one kind give back to the state.
Adopted(kind) ==
    [mem EXCEPT !.reserved = [s \in Sources |->
        LET ids == {i \in 1..MaxIds : spool.tuple[<<s, i>>] = kind} IN
        IF mem.reserved[s] = 0 /\ ids # {} THEN CHOOSE i \in ids : TRUE ELSE mem.reserved[s]]]

\* The state each step of a handler writes.
Written(step) ==
    LET e == step.ev IN
    CASE step.op = "accept" -> [mem EXCEPT !.reserved[e[1]] = e[2], !.check = e]
      [] step.op = "queue" -> Shown([mem EXCEPT !.reserved[e[1]] = e[2]], FALSE)
      [] step.op = "cancel" -> Cancelled(e, step.how)
      [] step.op = "clear" -> [mem EXCEPT !.cancels[e] = "no"]
      [] step.op = "bind" -> Shown(mem, TRUE)
      [] step.op = "remove" -> [Removed(mem) EXCEPT !.check = NoEvent]
      [] step.op = "replace" -> IF owner THEN Shown(mem, TRUE) ELSE Removed(mem)
      [] step.op = "mark" -> [mem EXCEPT !.completions[e] = step.how]
      [] step.op = "adopt" -> Adopted("reservation")
      [] step.op = "forward" ->
           IF Pending = {} \/ (mem.session /\ step.how = "kept") THEN Adopted("source")
           ELSE Shown(Adopted("source"), FALSE)

\* The spool each step writes.
Spooled(step) ==
    LET e == step.ev IN
    CASE step.op = "reserve" -> [spool EXCEPT !.tuple[e] = "reservation"]
      [] step.op = "promote" -> [spool EXCEPT !.tuple[e] = "source"]
      [] step.op = "intent" ->
           [spool EXCEPT !.intent[e] = IF step.how = "remove" THEN "remove" ELSE "keep"]
      [] step.op = "drop" -> [spool EXCEPT !.tuple[e] = "none", !.intent[e] = "no"]
      [] step.op = "unsend" -> [spool EXCEPT !.upload = @ \ {e}]
      [] step.op = "unsource" -> [spool EXCEPT !.tuple[e] = "none"]

StateSteps == {"accept", "queue", "cancel", "clear", "bind", "remove", "replace",
               "mark", "adopt", "forward"}
SpoolSteps == {"reserve", "promote", "intent", "drop", "unsend", "unsource"}

\* An existing intent for the other kind of cancellation is a conflict.
Conflicting(step) ==
    step.op = "intent" /\ spool.intent[step.ev] \notin {"no", Spooled(step).intent[step.ev]}

\* What the registry remembers once the step is done.
Remember(step) ==
    LET e == step.ev
        over == step.op = "forget" \/ step.op = "queue"
        lost == step.op = "remove" \/ (step.op = "forget" /\ step.how = "remove")
        owned == step.op = "bind" \/ (step.op = "forget" /\ step.how = "own") IN
    /\ delayed' = IF over THEN NoEvent ELSE IF step.op = "reserve" THEN e ELSE delayed
    /\ retry' = (retry /\ ~over)
    /\ owner' = ((owner \/ owned) /\ ~lost)
    /\ busy' = (busy /\ ~lost)

\* The handler goes on; after the last step its producer is answered.
Continue(rest) ==
    /\ job' = rest
    /\ reply' = IF rest = <<>> THEN NoEvent ELSE reply
    /\ acked' = IF rest = <<>> /\ reply # NoEvent THEN acked \cup {reply} ELSE acked
    /\ status' = IF rest = <<>> THEN "up" ELSE status

Done ==
    /\ job # <<>>
    /\ LET step == Head(job) IN
       /\ ~Conflicting(step)
       /\ mem' = IF step.op \in StateSteps THEN Written(step) ELSE mem
       /\ disk' = IF step.op \in StateSteps THEN mem' ELSE disk
       /\ spool' = IF step.op \in SpoolSteps THEN Spooled(step) ELSE spool
       /\ gone' = IF step.op = "cancel" THEN gone \cup {step.ev} ELSE gone
       /\ Remember(step)
       /\ Continue(Tail(job))
    /\ UNCHANGED <<sending, relay, made, bounds>>

\* An exception ends the handler without an answer; one during startup ends the process.
Abort(step) ==
    /\ job' = <<>>
    /\ reply' = NoEvent
    /\ retry' = (retry \/ (step.op \in {"promote", "queue"} /\ delayed # NoEvent))
    /\ status' = IF status = "boot" THEN "down" ELSE status
    /\ UNCHANGED <<acked, owner, delayed, busy>>

Refuse ==
    /\ job # <<>>
    /\ Conflicting(Head(job))
    /\ Abort(Head(job))
    /\ UNCHANGED <<files, sending, relay, gone, made, bounds>>

\* A write fails.  finishTerminalCancellation swallows its own failures and
\* cancelTerminalEvent adopts a state that is on disk after all; the completion
\* journal is changed in memory before it is written.
Fail(installed) ==
    /\ job # <<>>
    /\ faults < MaxFaults /\ faults + crashes < MaxMishaps
    /\ faults' = faults + 1
    /\ LET step == Head(job)
           settled == status = "up" /\ step.op = "cancel" /\ installed
           swallowed == status = "up" /\ step.op \in {"drop", "clear"} IN
       /\ ~Conflicting(step)
       /\ step.op \in StateSteps \cup SpoolSteps
       /\ installed => step.op \in StateSteps
       /\ disk' = IF installed THEN Written(step) ELSE disk
       /\ mem' = IF settled \/ step.op = "mark" THEN Written(step) ELSE mem
       /\ gone' = IF step.op = "cancel" /\ installed THEN gone \cup {step.ev} ELSE gone
       /\ \/ settled /\ Continue(Tail(job)) /\ UNCHANGED registry
          \/ swallowed /\ Continue(SelectSeq(Tail(job), LAMBDA next : next.op # "clear"))
                       /\ UNCHANGED registry
          \/ ~settled /\ ~swallowed /\ Abort(step)
    /\ UNCHANGED <<spool, sending, relay, made, crashes>>

-------------------------------------------------------------------------------
(* The end of the process and its start. *)

\* dispose, or a crash: a timer, a delayed Event and an upload are forgotten.
Crash ==
    /\ status # "down"
    /\ faults + crashes < MaxMishaps
    /\ crashes' = crashes + 1
    /\ status' = "down"
    /\ job' = <<>> /\ reply' = NoEvent
    /\ owner' = FALSE /\ busy' = FALSE
    /\ delayed' = NoEvent /\ retry' = FALSE
    /\ sending' = NoEvent
    /\ mem' = disk
    /\ UNCHANGED <<disk, spool, history, faults>>

\* assertCurrentStateRelationships.  Its other relations, of keys to the values under
\* them and of Events to their session, are how the states here are built.
CheckpointHasSession == disk.check # NoEvent => disk.session
CancellationHasSession == \A e \in Events : disk.cancels[e] = "keep" => disk.session

\* assertCurrentRuntimeRelationships: an intent is in the state too, or can be carried
\* out.  That an item is stored under the id of its Event is how spools are built.
IntentHasEvidence ==
    \A e \in Events : spool.intent[e] # "no" =>
        disk.cancels[e] # "no" \/ (Reserved(disk, e) /\ spool.tuple[e] = "reservation")
CompletionMatchesSpool ==
    \A e \in Events :
        /\ disk.completions[e] # "none" => spool.tuple[e] # "reservation"
        /\ disk.completions[e] \in {"unsent", "unsourced"} => e \notin spool.upload
        /\ disk.completions[e] = "unsourced" => spool.tuple[e] # "source"

\* reconcileTerminalCancellations and the reconciliation of reservations: what they
\* find must agree with the state.
CancellationMatchesSource ==
    \A e \in Events : disk.cancels[e] # "no" =>
        /\ spool.tuple[e] # "source"
        /\ spool.intent[e] \in {"no", disk.cancels[e]}
TupleMatchesReservation ==
    LET kept == {e \in Events : HasTuple(e) /\ disk.cancels[e] = "no"} IN
    \A e \in kept, f \in Events :
        e[1] = f[1] /\ (f \in kept \/ Reserved(disk, f)) => e = f

\* preflightRuntime and the checks of the recovery: otherwise the start is refused.
Accepts ==
    /\ CheckpointHasSession /\ CancellationHasSession
    /\ IntentHasEvidence /\ CompletionMatchesSpool
    /\ CancellationMatchesSource /\ TupleMatchesReservation

\* Mutant: the completion journal is not resumed.
StartupWithoutResume(how) ==
    <<Step("adopt", NoEvent, ""), Step("forward", NoEvent, how)>>

\* initializeEncryptedSpool.  The forwarded sources bring their session back; one that
\* already shows the newest of them is kept as it is.
StartupSteps(how) ==
    LET each(set, steps(_)) == FoldSet(LAMBDA e, acc : acc \o steps(e), <<>>, set)
        finish(e) == FinishSteps(e)
        carryOut(e) == <<Step("cancel", e, spool.intent[e])>> \o FinishSteps(e)
        resume(e) == CompleteSteps(e, disk.completions[e]) IN
    each({e \in Events : disk.cancels[e] # "no"}, finish)
      \o each({e \in Events : disk.cancels[e] = "no" /\ spool.intent[e] # "no"}, carryOut)
      \o <<Step("adopt", NoEvent, ""), Step("forward", NoEvent, how)>>
      \o each({e \in Events : disk.completions[e] # "none"}, resume)

Start ==
    /\ status = "down"
    /\ Accepts
    /\ status' = "boot"
    /\ mem' = disk
    /\ \E how \in {"shown", "kept"} : job' = StartupSteps(how)
    /\ UNCHANGED <<disk, spool, reply, registry, sending, history, bounds>>

Init ==
    /\ disk = EmptyState /\ mem = EmptyState /\ spool = EmptySpool
    /\ status = "up" /\ job = <<>> /\ reply = NoEvent
    /\ owner = FALSE /\ delayed = NoEvent /\ retry = FALSE
    /\ busy = FALSE /\ sending = NoEvent
    /\ relay = {} /\ acked = {} /\ gone = {}
    /\ made = [s \in Sources |-> 0]
    /\ crashes = 0 /\ faults = 0

Upload ==
    \/ \E e \in Events : ResumeCompletion(e) \/ StartUpload(e)
    \/ UploadAccepted
    \/ \E stored \in BOOLEAN : UploadDeferred(stored)
    \/ UploadRefused

Next ==
    \/ \E s \in Sources : Push(s)
    \/ \E restores, moved \in BOOLEAN : Register(restores, moved)
    \/ Heartbeat \/ LoseOwnership \/ CommandWork \/ RetryTimer \/ SyncSessions
    \/ Upload
    \/ Done \/ Refuse
    \/ \E installed \in BOOLEAN : Fail(installed)
    \/ Crash \/ Start

Spec == Init /\ [][Next]_vars

-------------------------------------------------------------------------------
(* Properties.                                                               *)

\* Every variable has its shape.
TypeOK ==
    /\ disk \in States /\ mem \in States /\ spool \in Spools
    /\ status \in {"down", "boot", "up"}
    /\ reply \in MaybeEvent
    /\ delayed \in MaybeEvent /\ sending \in MaybeEvent
    /\ owner \in BOOLEAN /\ retry \in BOOLEAN /\ busy \in BOOLEAN
    /\ relay \in SUBSET Events /\ acked \in SUBSET Events /\ gone \in SUBSET Events
    /\ made \in [Sources -> 0..MaxIds]
    /\ crashes \in 0..MaxMishaps /\ faults \in 0..MaxFaults

\* An Event whose producer got an answer is in the spool until the Relay has it, it is
\* dead-lettered or its cancellation is durable, wherever writes fail or the process
\* ends (pushEventSource, completeEventUpload, cancelTerminalEvent).
AcknowledgedIsKept ==
    \A e \in acked : HasTuple(e) \/ e \in relay \cup gone \cup spool.dead

\* However often a producer sends a source again, the Relay gets a second Event for it
\* only if the first was cancelled (reservations outlive the upload for that reason).
\* After two failed writes it may: an Event whose acceptance and whose promotion both
\* failed is a pending source without a reservation, and its cancellation does nothing
\* (registry.ts:516-520, spool-transactions.ts:103; README, finding 11).
RepeatedWasCancelled ==
    faults < 2 => \A e, f \in relay : e[1] = f[1] /\ e # f => gone \cap {e, f} # {}

\* An upload is kept only for an Event that is pending, being completed or cancelled:
\* no completed or dead-lettered Event leaves its ciphertext behind.
UploadsHaveSources ==
    \A e \in spool.upload :
        spool.tuple[e] = "source" \/ mem.completions[e] # "none" \/ e \in gone

\* The spool holds what it still owes, nothing that is done with, and gives nothing twice.
SpoolIsExact == AcknowledgedIsKept /\ UploadsHaveSources /\ RepeatedWasCancelled

\* As long as no write fails, the startup checks refuse the two files only for a
\* checkpoint whose session was dropped by a sync pass, or for an Event that was
\* cancelled after it had become a pending source.
RefusalsAreKnown ==
    faults = 0 /\ ~Accepts =>
        \/ ~CheckpointHasSession
        \/ \E e \in Events : spool.intent[e] # "no" /\ spool.tuple[e] # "reservation"

\* Startup ends with nothing half done: no intent, no cancellation and no completion
\* is left, and each tuple of the spool has its reservation in the state.
Whole ==
    /\ \A e \in Events : /\ spool.intent[e] = "no" /\ disk.cancels[e] = "no"
                         /\ disk.completions[e] = "none"
                         /\ HasTuple(e) => Reserved(disk, e)
    /\ disk = mem

\* A start that is accepted has completed whatever was interrupted (recoverStartup,
\* state-store.ts).
RecoveryIsComplete == [][status = "boot" /\ status' = "up" => Whole']_vars
===============================================================================
