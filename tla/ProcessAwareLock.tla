--------------------------- MODULE ProcessAwareLock ---------------------------
(***************************************************************************)
(* The lock file that serialises onboarding, changes of the Host identity  *)
(* and changes of the link keyring between processes.                      *)
(*                                                                         *)
(*   apps/bridge/src/host-manager/process-aware-lock.ts                    *)
(*                                                                         *)
(* As in RuntimeLock a file is named by the process of its record, and     *)
(* `stage' stands before the next file operation.  There is no mutex here: *)
(* a stale file is read twice and then removed by its path.                *)
(***************************************************************************)
EXTENDS Processes

VARIABLES
    file,      \* the lock file: the process of its record, or NoProc
    old,       \* processes whose record is older than staleAgeMs
    running,   \* processes that run
    stage,     \* where each process stands
    found,     \* the record it read
    orphaned   \* some process died while the file was its own (history)

lockVars == <<file, old, running, stage, found, orphaned>>

Stages == {"idle", "refused", "judge", "recheck", "remove", "recreate", "owned",
           "unlink", "dead"}

\* Processes whose operation runs under the lock.
Holding == {p \in Procs : stage[p] = "owned"}

Go(p, step) == stage' = [stage EXCEPT ![p] = step]

\* The exclusive write succeeds: the record is young.
Written(p) == /\ file' = p
              /\ old' = old \ {p}
              /\ Go(p, "owned")

\* acquireProcessAwareLock: deps.create
CreateLock(p) == /\ stage[p] = "idle"
                 /\ IF file = NoProc
                    THEN Written(p)
                    ELSE Go(p, "refused") /\ UNCHANGED <<file, old>>
                 /\ UNCHANGED <<running, found, orphaned>>

\* The write failed: an error if the file is gone, otherwise it is read.
LockRefused(p) == /\ stage[p] = "refused"
                  /\ IF file = NoProc
                     THEN Go(p, "idle") /\ UNCHANGED found
                     ELSE Go(p, "judge") /\ found' = [found EXCEPT ![p] = file]
                  /\ UNCHANGED <<file, old, running, orphaned>>

\* Mutant: a process that is absent proves nothing.
RecoverNever(q) == FALSE

\* canRecover, by an inspection that proves something
CanRecover(q) == q \in old /\ q \notin running

Judge(p) == /\ stage[p] = "judge"
            /\ Go(p, IF CanRecover(found[p]) THEN "recheck" ELSE "idle")
            /\ UNCHANGED <<file, old, running, found, orphaned>>

\* canRecover, by an inspection that proves nothing
Unproved(p) == /\ stage[p] = "judge"
               /\ Go(p, "idle")
               /\ UNCHANGED <<file, old, running, found, orphaned>>

\* Mutant: the second reading is not compared with the first.
Trusted(p) == TRUE

\* The second reading equals the first.
SameRecord(p) == file = found[p]

Recheck(p) == /\ stage[p] = "recheck"
              /\ Go(p, IF SameRecord(p) THEN "remove" ELSE "idle")
              /\ UNCHANGED <<file, old, running, found, orphaned>>

\* deps.remove takes whatever is at the path, and fails if nothing is.
RemoveStale(p) == /\ stage[p] = "remove"
                  /\ file' = NoProc
                  /\ Go(p, IF file = NoProc THEN "idle" ELSE "recreate")
                  /\ UNCHANGED <<old, running, found, orphaned>>

Recreate(p) == /\ stage[p] = "recreate"
               /\ IF file = NoProc
                  THEN Written(p)
                  ELSE Go(p, "idle") /\ UNCHANGED <<file, old>>
               /\ UNCHANGED <<running, found, orphaned>>

\* release, after the operation: the file is read, and removed if it is ours.
ReleaseLock(p) == /\ stage[p] = "owned"
                  /\ Go(p, IF file = p THEN "unlink" ELSE "idle")
                  /\ UNCHANGED <<file, old, running, found, orphaned>>

UnlinkLock(p) == /\ stage[p] = "unlink"
                 /\ file' = NoProc
                 /\ Go(p, "idle")
                 /\ UNCHANGED <<old, running, found, orphaned>>

\* The record in the file gets older than staleAgeMs.
Age == /\ file # NoProc
       /\ file \notin old
       /\ old' = old \union {file}
       /\ UNCHANGED <<file, running, stage, found, orphaned>>

\* The process ends, wherever it stands, and leaves its file.
End(p) == /\ p \in running
          /\ running' = running \ {p}
          /\ orphaned' = (orphaned \/ file = p)
          /\ Go(p, "dead")
          /\ UNCHANGED <<file, old, found>>

LockInit == /\ file = NoProc
            /\ old = {}
            /\ running = Procs
            /\ stage = [p \in Procs |-> "idle"]
            /\ found = [p \in Procs |-> NoProc]
            /\ orphaned = FALSE

AcquireLock(p) == \/ CreateLock(p) \/ LockRefused(p) \/ Judge(p) \/ Recheck(p) \/ RemoveStale(p)
                  \/ Recreate(p) \/ UnlinkLock(p)

LockNext == Age \/ \E p \in Procs : AcquireLock(p) \/ Unproved(p) \/ ReleaseLock(p) \/ End(p)

LockSpec == LockInit /\ [][LockNext]_lockVars

\* The clock runs, a live process goes on and tries again when refused, and of the
\* inspections one proves something again and again.  Nothing is promised about the
\* end of an operation or of a process.
LockFairness == /\ WF_lockVars(Age)
                /\ \A p \in Procs : WF_lockVars(AcquireLock(p))
                /\ SF_lockVars(\E p \in Procs : Judge(p))

-----------------------------------------------------------------------------
(* Properties *)

\* Every variable has its type, and who judges or removes a stale lock has read
\* a record (acquireProcessAwareLock, readValidatedRecord).
LockTypeOK == /\ file \in Procs \union {NoProc}
              /\ old \subseteq Procs
              /\ running \subseteq Procs
              /\ stage \in [Procs -> Stages]
              /\ found \in [Procs -> Procs \union {NoProc}]
              /\ \A p \in Procs : stage[p] \in {"judge", "recheck", "remove"} => found[p] \in Procs
              /\ orphaned \in BOOLEAN

\* "second concurrent acquisition fails closed while the first lease is held"
\* (test/host-domain-reset-operation-lock.test.ts:127).  Does not hold once a
\* process has died with its lock: README, finding 5.
OneOwner == \A p, q \in Holding : p = q

\* As long as no process dies with its lock in place, one operation runs at a
\* time, also when a record is read of a process that releases and dies before
\* it is judged (the second reading in acquireProcessAwareLock).
OneOwnerUnlessOrphaned == ~orphaned => OneOwner

\* A lock left by a dead process does not refuse the others for ever ("recovers
\* only old proven-dead or PID-reused locks", test/onboarding-lock.test.ts:103).
StaleLockIsRecovered == []<>(Holding # {} \/ running = {})
================================================================================
