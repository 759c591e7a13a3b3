------------------------------ MODULE RuntimeLock ------------------------------
(***************************************************************************)
(* The lock file that lets one process at a time coordinate the Bridge's   *)
(* state and spool, and the takeover mutex under which a lock that a dead  *)
(* process left behind is replaced.                                        *)
(*                                                                         *)
(*   apps/bridge/src/runtime-lock.ts                                       *)
(*                                                                         *)
(* A file is named by the process whose record it holds.  Records are      *)
(* created by link(2), so they appear whole or not at all.  The inode and  *)
(* the token of a record add nothing to its process here: a live process   *)
(* is sequential and a dead one writes nothing more.  `pc' stands before   *)
(* the next file operation of a process.                                   *)
(***************************************************************************)
EXTENDS Naturals, FiniteSets, Processes

CONSTANTS
    MaxGeneration,  \* bound: successor generations of the takeover mutex
    MaxFaults       \* bound: operations that fail, inspections that prove nothing

ASSUME LimitsAssumption == /\ MaxGeneration \in Nat
                           /\ MaxFaults \in Nat

VARIABLES
    main,     \* the lock file: the process of its record, or NoProc
    mutex,    \* the takeover mutex, by generation
    alive,    \* processes that run
    pc,       \* where each process stands
    gen,      \* the generation it claims or owns
    seen,     \* the record it read last
    holding,  \* processes that acquireRuntimeLock told that they own the lock
    faults    \* failed operations so far (bound)

vars == <<main, mutex, alive, pc, gen, seen, holding, faults>>

Generations == 0..MaxGeneration
Files       == Procs \union {NoProc}

\* Steps under the takeover mutex.
InMutex == {"check", "validate", "remove", "make", "verify", "assert", "unlink", "cleanup"}
Steps   == InMutex \union {"idle", "create", "refused", "claim", "look", "inspect", "owned", "dead"}

To(p, step) == pc' = [pc EXCEPT ![p] = step]

\* An error ends an acquisition, or a release that may be tried again.
Outside(p) == IF p \in holding THEN "owned" ELSE "idle"

\* Mutant: any record is taken to be stale.
Presumed(q) == TRUE

\* isDemonstrablyDead; an inspection that proves nothing is a fault.
DemonstrablyDead(q) == q \notin alive

-----------------------------------------------------------------------------
(* acquireRuntimeLock, without the mutex *)

\* pathHasFilesystemEvidence(mutexPath) decides between the two ways.
Start(p) == /\ pc[p] = "idle"
            /\ IF mutex[0] = NoProc
               THEN To(p, "create") /\ UNCHANGED gen
               ELSE To(p, "claim") /\ gen' = [gen EXCEPT ![p] = 0]
            /\ UNCHANGED <<main, mutex, alive, seen, holding, faults>>

\* The exclusive write of the lock itself.
Create(p) == /\ pc[p] = "create"
             /\ IF main = NoProc
                THEN /\ main' = p
                     /\ holding' = holding \union {p}
                     /\ To(p, "owned")
                ELSE To(p, "refused") /\ UNCHANGED <<main, holding>>
             /\ UNCHANGED <<mutex, alive, gen, seen, faults>>

\* The write failed: without evidence of another process that is an error.
Refused(p) == /\ pc[p] = "refused"
              /\ IF main = NoProc /\ mutex[0] = NoProc
                 THEN To(p, "idle") /\ UNCHANGED gen
                 ELSE To(p, "claim") /\ gen' = [gen EXCEPT ![p] = 0]
              /\ UNCHANGED <<main, mutex, alive, seen, holding, faults>>

-----------------------------------------------------------------------------
(* acquireTakeoverMutex, for an acquisition or a release *)

\* The exclusive write of the generation's record.
Claim(p) == /\ pc[p] = "claim"
            /\ IF mutex[gen[p]] = NoProc
               THEN /\ mutex' = [mutex EXCEPT ![gen[p]] = p]
                    /\ To(p, IF p \in holding THEN "assert" ELSE "check")
               ELSE To(p, "look") /\ UNCHANGED mutex
            /\ UNCHANGED <<main, alive, gen, seen, holding, faults>>

\* The write failed: the record that is there is read, if one is there still.
Look(p) == /\ pc[p] = "look"
           /\ IF mutex[gen[p]] = NoProc
              THEN To(p, Outside(p)) /\ UNCHANGED seen
              ELSE To(p, "inspect") /\ seen' = [seen EXCEPT ![p] = mutex[gen[p]]]
           /\ UNCHANGED <<main, mutex, alive, gen, holding, faults>>

\* Mutant: a mutex that a dead process left behind refuses for ever.
ClimbNever(p) == FALSE

\* The record is its file's still, and its process dead: the next generation.
Climb(p) == /\ DemonstrablyDead(seen[p])
            /\ mutex[gen[p]] = seen[p]
            /\ gen[p] < MaxGeneration

Inspect(p) == /\ pc[p] = "inspect"
              /\ \/ /\ Climb(p)
                    /\ gen' = [gen EXCEPT ![p] = @ + 1]
                    /\ To(p, "claim")
                 \/ /\ ~Climb(p)
                    /\ To(p, Outside(p))
                    /\ UNCHANGED gen
              /\ UNCHANGED <<main, mutex, alive, seen, holding, faults>>

\* cleanupTakeoverMutex: only the owned generation is removed.
CleanOwned(p) ==
    mutex' = [mutex EXCEPT ![gen[p]] = IF @ = p THEN NoProc ELSE @]

Cleanup(p) == /\ pc[p] = "cleanup"
              /\ CleanOwned(p)
              /\ To(p, Outside(p))
              /\ UNCHANGED <<main, alive, gen, seen, holding, faults>>

-----------------------------------------------------------------------------
(* The takeover *)

Check(p) == /\ pc[p] = "check"
            /\ IF main = NoProc
               THEN To(p, "make") /\ UNCHANGED seen
               ELSE To(p, "validate") /\ seen' = [seen EXCEPT ![p] = main]
            /\ UNCHANGED <<main, mutex, alive, gen, holding, faults>>

OwnsMutex(p) == mutex[gen[p]] = p

Validate(p) == /\ pc[p] = "validate"
               /\ \/ /\ DemonstrablyDead(seen[p])
                     /\ main = seen[p]
                     /\ OwnsMutex(p)
                     /\ To(p, "remove")
                  \/ /\ \/ ~DemonstrablyDead(seen[p])
                        \/ main # seen[p]
                        \/ ~OwnsMutex(p)
                     /\ To(p, "cleanup")
               /\ UNCHANGED <<main, mutex, alive, gen, seen, holding, faults>>

\* removeSecureFile takes whatever is at the path.
Remove(p) == /\ pc[p] = "remove"
             /\ main' = NoProc
             /\ To(p, IF main = NoProc THEN "cleanup" ELSE "make")
             /\ UNCHANGED <<mutex, alive, gen, seen, holding, faults>>

\* Mutant: the write is not exclusive.
MakeOverwrites(p) == /\ pc[p] = "make"
                     /\ main' = p
                     /\ To(p, "verify")
                     /\ UNCHANGED <<mutex, alive, gen, seen, holding, faults>>

\* The exclusive write: a process that takes no mutex may have come first.
Make(p) == /\ pc[p] = "make"
           /\ IF main = NoProc /\ OwnsMutex(p)
              THEN main' = p /\ To(p, "verify")
              ELSE To(p, "cleanup") /\ UNCHANGED main
           /\ UNCHANGED <<mutex, alive, gen, seen, holding, faults>>

Verify(p) == /\ pc[p] = "verify"
             /\ holding' = IF main = p /\ OwnsMutex(p) THEN holding \union {p} ELSE holding
             /\ To(p, "cleanup")
             /\ UNCHANGED <<main, mutex, alive, gen, seen, faults>>

-----------------------------------------------------------------------------
(* release *)

Release(p) == /\ pc[p] = "owned"
              /\ gen' = [gen EXCEPT ![p] = 0]
              /\ To(p, "claim")
              /\ UNCHANGED <<main, mutex, alive, seen, holding, faults>>

AssertOwned(p) == /\ pc[p] = "assert"
                  /\ To(p, IF main = p /\ OwnsMutex(p) THEN "unlink" ELSE "cleanup")
                  /\ UNCHANGED <<main, mutex, alive, gen, seen, holding, faults>>

Unlink(p) == /\ pc[p] = "unlink"
             /\ main' = NoProc
             /\ holding' = holding \ {p}
             /\ To(p, "cleanup")
             /\ UNCHANGED <<mutex, alive, gen, seen, faults>>

-----------------------------------------------------------------------------
\* The process ends, wherever it stands, and leaves its files.
Die(p) == /\ p \in alive
          /\ alive' = alive \ {p}
          /\ holding' = holding \ {p}
          /\ To(p, "dead")
          /\ UNCHANGED <<main, mutex, gen, seen, faults>>

\* A file operation fails, or an inspection proves nothing.  A record whose
\* first reading fails stays: the lock file is then found like another's, the
\* mutex blocks until the process ends.
Fault(p) == /\ faults < MaxFaults
            /\ faults' = faults + 1
            /\ \/ /\ pc[p] = "create" /\ main = NoProc
                  /\ main' = p
                  /\ To(p, "refused")
                  /\ UNCHANGED mutex
               \/ /\ pc[p] = "claim" /\ mutex[gen[p]] = NoProc
                  /\ mutex' = [mutex EXCEPT ![gen[p]] = p]
                  /\ To(p, Outside(p))
                  /\ UNCHANGED main
               \/ /\ pc[p] \in InMutex \ {"cleanup"}
                  /\ To(p, "cleanup")
                  /\ UNCHANGED <<main, mutex>>
               \/ /\ pc[p] \in {"inspect", "cleanup"}
                  /\ To(p, Outside(p))
                  /\ UNCHANGED <<main, mutex>>
            /\ UNCHANGED <<alive, gen, seen, holding>>

Init == /\ main = NoProc
        /\ mutex = [g \in Generations |-> NoProc]
        /\ alive = Procs
        /\ pc = [p \in Procs |-> "idle"]
        /\ gen = [p \in Procs |-> 0]
        /\ seen = [p \in Procs |-> NoProc]
        /\ holding = {}
        /\ faults = 0

Acquire(p) == \/ Start(p) \/ Create(p) \/ Refused(p)
              \/ Claim(p) \/ Look(p) \/ Inspect(p) \/ Cleanup(p)
              \/ Check(p) \/ Validate(p) \/ Remove(p) \/ Make(p) \/ Verify(p)
              \/ AssertOwned(p) \/ Unlink(p)

Next == \E p \in Procs : Acquire(p) \/ Release(p) \/ Die(p) \/ Fault(p)

Spec == Init /\ [][Next]_vars

\* A process that lives goes on: the calls are synchronous, and the service
\* manager starts the Bridge again when it was refused.  Nothing is promised
\* about a release, or about a process ending.
Fairness == \A p \in Procs : WF_vars(Acquire(p))

FairSpec == Spec /\ Fairness

-----------------------------------------------------------------------------
(* Properties *)

\* Types; and a process under the takeover mutex finds its record there, so the
\* assertSnapshot of the mutex never fails (acquireTakeoverMutex).
TypeOK ==
    /\ main \in Files
    /\ mutex \in [Generations -> Files]
    /\ alive \subseteq Procs
    /\ pc \in [Procs -> Steps]
    /\ gen \in [Procs -> Generations]
    /\ seen \in [Procs -> Files]
    /\ holding \subseteq alive
    /\ \A p \in Procs : pc[p] \in InMutex => p \in alive /\ OwnsMutex(p)
    /\ faults \in 0..MaxFaults

\* At most one live process has been told that it owns the lock, whatever
\* crashed where, and its record is in the file, so that assertOwned does not
\* fail for it (runtime-lock.ts: acquireRuntimeLock, assertOwned).
OneCoordinator == \A p \in holding : main = p /\ \A q \in holding : q = p

\* "Recovered stale ancestors are immutable serialization sentinels"
\* (runtime-lock.ts, cleanupTakeoverMutex): the mutex of a dead process stays.
SentinelsStay ==
    [][\A g \in Generations :
          mutex[g] \in Procs \ alive => mutex'[g] = mutex[g]]_vars

\* A lock file disappears only when its process is dead or is releasing it,
\* never under a live process that acquired it (the takeover removes the path,
\* whatever it holds by then).
OnlyStaleIsRemoved ==
    [][main # NoProc /\ main' # main =>
          main \notin alive \/ pc[main] = "unlink"]_vars

\* While processes live that want the lock and no operation fails, one owns it
\* again and again: no crash leaves files that block it for good ("recovers
\* deterministically after claimant crash", test/runtime-lock.test.ts:131).
LockIsRecovered == []<>(holding # {} \/ alive = {} \/ faults > 0)
================================================================================
