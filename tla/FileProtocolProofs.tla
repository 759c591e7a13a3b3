--------------------------- MODULE FileProtocolProofs ---------------------------
(***************************************************************************)
(* What holds of the three protocols over files.                           *)
(*                                                                         *)
(* The runtime lock excludes, for any number of processes, generations and *)
(* failed operations, and wherever processes die.                          *)
(*                                                                         *)
(* The operation lock excludes, for any number of processes, as long as no *)
(* process dies with the lock file in place.                               *)
(*                                                                         *)
(* Files survive, for any number of writers, writes and failures: until it *)
(* is promoted a file belongs to its writer alone and was never at the     *)
(* path, so that whoever promotes a file names one no earlier task knows;  *)
(* and it is promoted only after it was synced.                            *)
(***************************************************************************)
EXTENDS RuntimeLock, ProcessAwareLock, SecureFiles, TLAPS

(* The runtime lock *)

\* Below the generation a process claims, only dead processes left records.
Climbing == InMutex \union {"claim", "look", "inspect"}

\* Where a process that holds the lock can stand.
HolderSteps == {"owned", "claim", "look", "inspect", "assert", "unlink", "cleanup"}

TypesInv == /\ main \in Files
            /\ mutex \in [Generations -> Files]
            /\ alive \subseteq Procs
            /\ pc \in [Procs -> Steps]
            /\ gen \in [Procs -> Generations]
            /\ seen \in [Procs -> Files]
            /\ holding \subseteq alive
            /\ faults \in 0..MaxFaults

\* The takeover mutex: who is inside owns its generation, and everything below
\* a generation that was climbed to is a sentinel.
MutexInv == \A p \in Procs :
    /\ p \in alive <=> pc[p] # "dead"
    /\ pc[p] \in InMutex => mutex[gen[p]] = p
    /\ pc[p] \in {"inspect", "validate"} => seen[p] \in Procs
    /\ pc[p] \in Climbing =>
          \A g \in Generations : g < gen[p] => mutex[g] \in Procs \ alive

\* The lock file: whoever holds the lock, or has just written it, is its
\* record; what is about to be removed is stale.
MainInv == \A p \in Procs :
    /\ p \in holding => main = p /\ pc[p] \in HolderSteps
    /\ pc[p] \in {"owned", "assert", "unlink"} => p \in holding
    /\ pc[p] = "verify" => main = p
    /\ pc[p] = "remove" => main \in Procs \ alive

IInv == TypesInv /\ MutexInv /\ MainInv

\* Two processes under the mutex would own the same generation, or one of them
\* a sentinel of the other.
LEMMA MutexExcludes ==
    ASSUME TypesInv, MutexInv, NEW p \in Procs, NEW q \in Procs,
           pc[p] \in InMutex, pc[q] \in InMutex
    PROVE  p = q
<1>1. /\ gen[p] \in Generations /\ gen[q] \in Generations
      /\ gen[p] \in Nat /\ gen[q] \in Nat
  BY LimitsAssumption DEF TypesInv, Generations
<1>2. /\ mutex[gen[p]] = p /\ mutex[gen[q]] = q
      /\ p \in alive /\ q \in alive
  BY DEF MutexInv, InMutex
<1>3. ~(gen[p] < gen[q]) /\ ~(gen[q] < gen[p])
  BY <1>1, <1>2 DEF MutexInv, Climbing
<1> QED
  BY <1>1, <1>2, <1>3

\* The initial state satisfies the invariant.
LEMMA InitIInv == Init => IInv
BY NoProcAssumption, LimitsAssumption
   DEF Init, IInv, TypesInv, MutexInv, MainInv, Files, Generations, Steps, InMutex,
       Climbing, HolderSteps

\* Every step keeps the types.
LEMMA TypesStep == TypesInv /\ MutexInv /\ [Next]_vars => TypesInv'
<1> SUFFICES ASSUME TypesInv, MutexInv, [Next]_vars PROVE TypesInv'
  OBVIOUS
<1> USE NoProcAssumption, LimitsAssumption DEF TypesInv, Files
<1> DEFINE Step(p) == \E s \in Steps : To(p, s)
<1>0. ASSUME NEW p \in Procs, Step(p) PROVE pc' \in [Procs -> Steps]
  BY <1>0 DEF To
<1>1. CASE UNCHANGED vars
  BY <1>1 DEF vars
<1>2. ASSUME NEW p \in Procs PROVE Outside(p) \in Steps
  BY DEF Outside, Steps
<1>3. 0 \in Generations
  BY DEF Generations
<1>4. ASSUME NEW p \in Procs, Acquire(p) PROVE TypesInv'
  <2>0. pc[p] # "dead" <=> p \in alive
    BY DEF MutexInv
  <2>1. CASE Start(p)
    <3>1. Step(p) BY <2>1 DEF Start, Steps
    <3> QED BY <1>0, <1>3, <2>1, <3>1 DEF Start
  <2>2. CASE Create(p)
    <3>1. Step(p) BY <2>2 DEF Create, Steps
    <3> QED BY <1>0, <2>0, <2>2, <3>1 DEF Create
  <2>3. CASE Refused(p)
    <3>1. Step(p) BY <2>3 DEF Refused, Steps
    <3> QED BY <1>0, <1>3, <2>3, <3>1 DEF Refused
  <2>4. CASE Claim(p)
    <3>1. Step(p) BY <2>4 DEF Claim, Steps, InMutex
    <3>2. mutex' \in [Generations -> Files] BY <2>4 DEF Claim
    <3> QED BY <1>0, <2>4, <3>1, <3>2 DEF Claim
  <2>5. CASE Look(p)
    <3>1. Step(p) BY <1>2, <2>5 DEF Look, Steps
    <3>2. mutex[gen[p]] \in Files OBVIOUS
    <3> QED BY <1>0, <2>5, <3>1, <3>2 DEF Look
  <2>6. CASE Inspect(p)
    <3>1. Step(p) BY <1>2, <2>6 DEF Inspect, Steps
    <3>2. gen[p] < MaxGeneration => gen[p] + 1 \in Generations BY DEF Generations
    <3> QED BY <1>0, <2>6, <3>1, <3>2 DEF Inspect, Climb
  <2>7. CASE Cleanup(p)
    <3>1. Step(p) BY <1>2, <2>7 DEF Cleanup
    <3>2. mutex' \in [Generations -> Files] BY <2>7 DEF Cleanup, CleanOwned
    <3> QED BY <1>0, <2>7, <3>1, <3>2 DEF Cleanup
  <2>8. CASE Check(p)
    <3>1. Step(p) BY <2>8 DEF Check, Steps, InMutex
    <3> QED BY <1>0, <2>8, <3>1 DEF Check
  <2>9. CASE Validate(p)
    <3>1. Step(p) BY <2>9 DEF Validate, Steps, InMutex
    <3> QED BY <1>0, <2>9, <3>1 DEF Validate
  <2>10. CASE Remove(p)
    <3>1. Step(p) BY <2>10 DEF Remove, Steps, InMutex
    <3> QED BY <1>0, <2>10, <3>1 DEF Remove
  <2>11. CASE Make(p)
    <3>1. Step(p) BY <2>11 DEF Make, Steps, InMutex
    <3> QED BY <1>0, <2>11, <3>1 DEF Make
  <2>12. CASE Verify(p)
    <3>1. Step(p) BY <2>12 DEF Verify, Steps, InMutex
    <3> QED BY <1>0, <2>0, <2>12, <3>1 DEF Verify
  <2>13. CASE AssertOwned(p)
    <3>1. Step(p) BY <2>13 DEF AssertOwned, Steps, InMutex
    <3> QED BY <1>0, <2>13, <3>1 DEF AssertOwned
  <2>14. CASE Unlink(p)
    <3>1. Step(p) BY <2>14 DEF Unlink, Steps, InMutex
    <3> QED BY <1>0, <2>14, <3>1 DEF Unlink
  <2> QED
    BY <1>4, <2>1, <2>2, <2>3, <2>4, <2>5, <2>6, <2>7, <2>8, <2>9, <2>10, <2>11, <2>12,
       <2>13, <2>14 DEF Acquire
<1>5. ASSUME NEW p \in Procs, Release(p) PROVE TypesInv'
  <2>1. Step(p) BY <1>5 DEF Release, Steps
  <2> QED BY <1>0, <1>3, <1>5, <2>1 DEF Release
<1>6. ASSUME NEW p \in Procs, Die(p) PROVE TypesInv'
  <2>1. Step(p) BY <1>6 DEF Die, Steps
  <2> QED BY <1>0, <1>6, <2>1 DEF Die
<1>7. ASSUME NEW p \in Procs, Fault(p) PROVE TypesInv'
  <2>1. Step(p) BY <1>2, <1>7 DEF Fault, Steps, InMutex
  <2>2. main' \in Files /\ mutex' \in [Generations -> Files] BY <1>7 DEF Fault
  <2>3. faults' \in 0..MaxFaults BY <1>7 DEF Fault
  <2> QED BY <1>0, <1>7, <2>1, <2>2, <2>3 DEF Fault
<1> QED
  BY <1>1, <1>4, <1>5, <1>6, <1>7 DEF Next

\* Every step keeps the takeover mutex's part: only cleanup removes a record, its own.
LEMMA MutexStep == TypesInv /\ MutexInv /\ MainInv /\ [Next]_vars => MutexInv'
<1> SUFFICES ASSUME TypesInv, MutexInv, MainInv, [Next]_vars PROVE MutexInv'
  OBVIOUS
<1> USE NoProcAssumption, LimitsAssumption
    DEF TypesInv, MutexInv, Files, Generations, InMutex, Climbing, To, Outside
<1>1. CASE UNCHANGED vars
  BY <1>1 DEF vars
<1>2. ASSUME NEW p \in Procs, Acquire(p) PROVE MutexInv'
  <2>1. CASE Start(p) BY <2>1 DEF Start
  <2>2. CASE Create(p) BY <2>2 DEF Create
  <2>3. CASE Refused(p) BY <2>3 DEF Refused
  <2>4. CASE Claim(p)
    <3>1. CASE mutex[gen[p]] # NoProc BY <2>4, <3>1 DEF Claim
    <3>2. CASE mutex[gen[p]] = NoProc
      <4>1. /\ mutex' = [mutex EXCEPT ![gen[p]] = p]
            /\ pc'[p] \in InMutex /\ pc'[p] # "validate"
            /\ \A q \in Procs : q # p => pc'[q] = pc[q]
            /\ UNCHANGED <<alive, gen, seen>>
        BY <2>4, <3>2 DEF Claim
      <4>2. \A g \in Generations : mutex[g] # NoProc => mutex'[g] = mutex[g]
        BY <3>2, <4>1
      <4>3. mutex'[gen'[p]] = p /\ pc[p] = "claim"
        BY <2>4, <4>1 DEF Claim
      <4> HIDE DEF Generations, Files
      <4> QED
        BY <4>1, <4>2, <4>3
    <3> QED BY <3>1, <3>2
  <2>14. CASE Look(p) BY <2>14 DEF Look
  <2>5. CASE Inspect(p) BY <2>5 DEF Inspect, Climb, DemonstrablyDead
  <2>6. CASE Cleanup(p) BY <2>6 DEF Cleanup, CleanOwned
  <2>7. CASE Check(p) BY <2>7 DEF Check
  <2>8. CASE Validate(p) BY <2>8 DEF Validate
  <2>9. CASE Remove(p) BY <2>9 DEF Remove
  <2>10. CASE Make(p) BY <2>10 DEF Make
  <2>11. CASE Verify(p) BY <2>11 DEF Verify
  <2>12. CASE AssertOwned(p) BY <2>12 DEF AssertOwned
  <2>13. CASE Unlink(p) BY <2>13 DEF Unlink
  <2> QED
    BY <1>2, <2>1, <2>2, <2>3, <2>4, <2>5, <2>6, <2>7, <2>8, <2>9, <2>10, <2>11, <2>12,
       <2>13, <2>14 DEF Acquire
<1>3. ASSUME NEW p \in Procs, Release(p) PROVE MutexInv'
  BY <1>3 DEF Release
<1>4. ASSUME NEW p \in Procs, Die(p) PROVE MutexInv'
  BY <1>4 DEF Die
<1>5. ASSUME NEW p \in Procs, Fault(p) PROVE MutexInv'
  <2>1. CASE UNCHANGED mutex BY <1>5, <2>1 DEF Fault
  <2>2. CASE mutex' # mutex
    <3>1. /\ mutex[gen[p]] = NoProc
          /\ mutex' = [mutex EXCEPT ![gen[p]] = p]
          /\ pc[p] = "claim" /\ pc'[p] \in {"idle", "owned"}
          /\ \A q \in Procs : q # p => pc'[q] = pc[q]
          /\ UNCHANGED <<alive, gen, seen>>
      BY <1>5, <2>2 DEF Fault
    <3>2. \A g \in Generations : mutex[g] # NoProc => mutex'[g] = mutex[g]
      BY <3>1
    <3> HIDE DEF Generations, Files
    <3> QED
      BY <3>1, <3>2
  <2> QED BY <2>1, <2>2
<1> QED
  BY <1>1, <1>2, <1>3, <1>4, <1>5 DEF Next

\* Every step keeps the lock file's part: who removes it is alone under the mutex.
LEMMA MainStep == TypesInv /\ MutexInv /\ MainInv /\ [Next]_vars => MainInv'
<1> SUFFICES ASSUME TypesInv, MutexInv, MainInv, [Next]_vars PROVE MainInv'
  OBVIOUS
<1> USE NoProcAssumption DEF TypesInv, MainInv, Files, HolderSteps, To, Outside
<1>1. CASE UNCHANGED vars
  BY <1>1 DEF vars
<1>2. ASSUME NEW p \in Procs, Acquire(p) PROVE MainInv'
  <2>1. CASE Start(p) BY <2>1 DEF Start
  <2>2. CASE Create(p) BY <2>2 DEF Create
  <2>3. CASE Refused(p) BY <2>3 DEF Refused
  <2>4. CASE Claim(p) BY <2>4 DEF Claim
  <2>14. CASE Look(p) BY <2>14 DEF Look
  <2>5. CASE Inspect(p) BY <2>5 DEF Inspect
  <2>6. CASE Cleanup(p) BY <2>6 DEF Cleanup
  <2>7. CASE Check(p) BY <2>7 DEF Check
  <2>8. CASE Validate(p)
    <3>1. seen[p] \in Procs
      BY <2>8 DEF Validate, MutexInv
    <3> QED
      BY <2>8, <3>1 DEF Validate, DemonstrablyDead
  <2>9. CASE Remove(p)
    <3>1. \A q \in Procs : q # p => pc[q] \notin InMutex
      BY <2>9, MutexExcludes DEF Remove, InMutex
    <3>2. \A q \in Procs : q \notin holding
      BY <2>9 DEF Remove
    <3> QED
      BY <2>9, <3>1, <3>2 DEF Remove, InMutex
  <2>10. CASE Make(p) BY <2>10 DEF Make
  <2>11. CASE Verify(p) BY <2>11 DEF Verify
  <2>12. CASE AssertOwned(p) BY <2>12 DEF AssertOwned
  <2>13. CASE Unlink(p)
    <3>1. \A q \in Procs : q # p => pc[q] \notin InMutex
      BY <2>13, MutexExcludes DEF Unlink, InMutex
    <3>2. main = p
      BY <2>13 DEF Unlink
    <3> QED
      BY <2>13, <3>1, <3>2 DEF Unlink, InMutex
  <2> QED
    BY <1>2, <2>1, <2>2, <2>3, <2>4, <2>5, <2>6, <2>7, <2>8, <2>9, <2>10, <2>11, <2>12,
       <2>13, <2>14 DEF Acquire
<1>3. ASSUME NEW p \in Procs, Release(p) PROVE MainInv'
  BY <1>3 DEF Release
<1>4. ASSUME NEW p \in Procs, Die(p) PROVE MainInv'
  BY <1>4 DEF Die
<1>5. ASSUME NEW p \in Procs, Fault(p) PROVE MainInv'
  BY <1>5 DEF Fault, InMutex
<1> QED
  BY <1>1, <1>2, <1>3, <1>4, <1>5 DEF Next

\* The inductive invariant of the runtime lock, from the three step lemmas.
THEOREM Invariance == Spec => []IInv
<1>1. IInv /\ [Next]_vars => IInv'
  BY TypesStep, MutexStep, MainStep DEF IInv
<1> QED
  BY InitIInv, <1>1, PTL DEF Spec

\* Types, and that a process under the takeover mutex owns it.
THEOREM TypeCorrect == Spec => []TypeOK
<1>1. IInv => TypeOK
  BY DEF IInv, TypesInv, MutexInv, TypeOK, OwnsMutex, InMutex
<1> QED
  BY Invariance, <1>1, PTL

\* At most one live process owns the lock, and the file records it
\* (acquireRuntimeLock, ownedRuntimeLock), for any number of processes.
THEOREM MutualExclusion == Spec => []OneCoordinator
<1>1. IInv => OneCoordinator
  BY DEF IInv, TypesInv, MainInv, OneCoordinator
<1> QED
  BY Invariance, <1>1, PTL

\* No step removes the takeover mutex of a dead process (cleanupTakeoverMutex).
THEOREM SentinelsAreImmutable == Spec => SentinelsStay
<1>1. IInv /\ [Next]_vars =>
         [\A g \in Generations : mutex[g] \in Procs \ alive => mutex'[g] = mutex[g]]_vars
  <2> SUFFICES ASSUME IInv, Next, NEW g \in Generations, mutex[g] \in Procs \ alive
               PROVE  mutex'[g] = mutex[g]
    BY DEF vars
  <2> USE NoProcAssumption DEF IInv, TypesInv
  <2>1. PICK p \in Procs : Acquire(p) \/ Release(p) \/ Die(p) \/ Fault(p)
    BY DEF Next
  <2>2. CASE Claim(p) BY <2>2 DEF Claim
  <2>3. CASE Cleanup(p)
    <3>1. p \in alive
      BY <2>3 DEF Cleanup, MutexInv
    <3> QED
      BY <2>3, <3>1 DEF Cleanup, CleanOwned
  <2>4. CASE Fault(p) BY <2>4 DEF Fault
  <2>5. CASE UNCHANGED mutex BY <2>5
  <2> QED
    BY <2>1, <2>2, <2>3, <2>4, <2>5
       DEF Acquire, Start, Create, Refused, Look, Inspect, Check, Validate, Remove, Make,
           Verify, AssertOwned, Unlink, Release, Die
<1> QED
  BY Invariance, <1>1, PTL DEF Spec, SentinelsStay

\* A lock file is removed only after its process died, or by its own process
\* in release; the takeover never removes a lock acquired in the meantime.
THEOREM LiveLocksStay == Spec => OnlyStaleIsRemoved
<1>1. IInv /\ [Next]_vars =>
         [main # NoProc /\ main' # main => main \notin alive \/ pc[main] = "unlink"]_vars
  <2> SUFFICES ASSUME IInv, Next, main # NoProc, main' # main
               PROVE  main \notin alive \/ pc[main] = "unlink"
    BY DEF vars
  <2> USE DEF IInv, MainInv
  <2>1. PICK p \in Procs : Acquire(p) \/ Release(p) \/ Die(p) \/ Fault(p)
    BY DEF Next
  <2>2. CASE Remove(p) BY <2>2 DEF Remove
  <2>3. CASE Unlink(p) BY <2>3 DEF Unlink
  <2> QED
    BY <2>1, <2>2, <2>3
       DEF Acquire, Start, Create, Refused, Claim, Look, Inspect, Cleanup, Check, Validate,
           Make, Verify, AssertOwned, Release, Die, Fault
<1> QED
  BY Invariance, <1>1, PTL DEF Spec, OnlyStaleIsRemoved

-----------------------------------------------------------------------------
(* The operation lock *)

\* A process that has ended takes no more steps.
DeadAreDead == \A p \in Procs : stage[p] = "dead" <=> p \notin running

\* No process died with its lock in place: then the file is a running process's, an
\* owner's file is its own, and who read the record of a process that has ended since
\* finds another record the second time, so that nobody gets to remove a file.
NothingIsStale == ~orphaned => \A p \in Procs :
    /\ file = p => p \in running
    /\ stage[p] \in {"owned", "unlink"} => file = p
    /\ stage[p] = "recheck" => found[p] \in Procs \ running
    /\ stage[p] \notin {"remove", "recreate"}

LockInv == LockTypeOK /\ DeadAreDead /\ NothingIsStale

\* The initial state satisfies the invariant.
LEMMA InitLockInv == LockInit => LockInv
BY NoProcAssumption
   DEF LockInit, LockInv, LockTypeOK, DeadAreDead, NothingIsStale, Stages

\* Every step keeps the invariant.
LEMMA LockStep == LockInv /\ [LockNext]_lockVars => LockInv'
<1> SUFFICES ASSUME LockInv, [LockNext]_lockVars PROVE LockInv'
  OBVIOUS
<1> USE NoProcAssumption DEF LockInv, LockTypeOK, DeadAreDead, NothingIsStale, Go, Stages
<1>1. CASE UNCHANGED lockVars
  BY <1>1 DEF lockVars
<1>2. CASE Age
  BY <1>2 DEF Age
<1>3. ASSUME NEW p \in Procs, CreateLock(p) PROVE LockInv'
  BY <1>3 DEF CreateLock, Written
<1>4. ASSUME NEW p \in Procs, LockRefused(p) PROVE LockInv'
  BY <1>4 DEF LockRefused
<1>5. ASSUME NEW p \in Procs, Judge(p) PROVE LockInv'
  BY <1>5 DEF Judge, CanRecover
<1>6. ASSUME NEW p \in Procs, Recheck(p) PROVE LockInv'
  BY <1>6 DEF Recheck, SameRecord
<1>7. ASSUME NEW p \in Procs, RemoveStale(p) PROVE LockInv'
  BY <1>7 DEF RemoveStale
<1>8. ASSUME NEW p \in Procs, Recreate(p) PROVE LockInv'
  BY <1>8 DEF Recreate, Written
<1>9. ASSUME NEW p \in Procs, UnlinkLock(p) PROVE LockInv'
  BY <1>9 DEF UnlinkLock
<1>10. ASSUME NEW p \in Procs, Unproved(p) PROVE LockInv'
  BY <1>10 DEF Unproved
<1>11. ASSUME NEW p \in Procs, ReleaseLock(p) PROVE LockInv'
  BY <1>11 DEF ReleaseLock
<1>12. ASSUME NEW p \in Procs, End(p) PROVE LockInv'
  <2>1. /\ running' = running \ {p} /\ stage' = [stage EXCEPT ![p] = "dead"]
        /\ UNCHANGED <<file, old, found>>
    BY <1>12 DEF End
  <2>2. LockTypeOK'
    <3>1. orphaned' \in BOOLEAN
      BY <1>12 DEF End
    <3> QED
      BY <2>1, <3>1
  <2>3. DeadAreDead'
    BY <2>1
  <2>4. NothingIsStale'
    <3> SUFFICES ASSUME ~orphaned' PROVE NothingIsStale'
      OBVIOUS
    <3>1. ~orphaned /\ file # p
      BY <1>12 DEF End
    <3> QED
      BY <2>1, <3>1
  <2> QED
    BY <2>2, <2>3, <2>4
<1> QED
  BY <1>1, <1>2, <1>3, <1>4, <1>5, <1>6, <1>7, <1>8, <1>9, <1>10, <1>11, <1>12
     DEF LockNext, AcquireLock

\* The inductive invariant of the lock file.
THEOREM LockInvariance == LockSpec => []LockInv
BY InitLockInv, LockStep, PTL DEF LockSpec

\* Every variable has its type, and who judges or removes a lock has read a record
\* (acquireProcessAwareLock, readValidatedRecord).
THEOREM LockTypeCorrect == LockSpec => []LockTypeOK
<1>1. LockInv => LockTypeOK
  BY DEF LockInv
<1> QED
  BY LockInvariance, <1>1, PTL

\* One operation runs at a time as long as no process dies with its lock in place
\* (acquireProcessAwareLock's two readings, and release), whatever the clock does.
THEOREM LockExcludes == LockSpec => []OneOwnerUnlessOrphaned
<1>1. LockInv => OneOwnerUnlessOrphaned
  BY DEF LockInv, NothingIsStale, OneOwnerUnlessOrphaned, OneOwner, Holding
<1> QED
  BY LockInvariance, <1>1, PTL

-----------------------------------------------------------------------------
(* Secure files *)

Unpromoted == {"open", "sync", "promote"}

\* A file that was not promoted yet belongs to its writer alone and was never at the path.
Unnamed ==
    \A p \in Writers : task[p].step \in Unpromoted =>
        /\ task[p].file # NoFile /\ task[p].file \notin kept
        /\ \A q \in Writers \ {p} : task[q].file # task[p].file

\* Files are numbered in the order of their writes.
Numbered == kept \subseteq 0..begun /\ \A p \in Writers : task[p].file \in 0..begun

Promoted == \A p \in Writers : task[p].step = "promote" => task[p].file \in whole

\* Only a write has a temporary to promote.
WritersWrite == \A p \in Writers : task[p].step \in Unpromoted \union {"tidy"} => task[p].kind \in Writes

\* A removal that has still to sync the directory has removed its file.
Removed ==
    \A p \in Writers : task[p].kind \notin Writes /\ task[p].step = "syncDir" =>
        task[p].file # NoFile /\ task[p].file # entry

WithFile == {"sync", "promote", "tidy", "undo"}

\* A temporary has a writer that will promote or remove it, or was left behind.
Held ==
    \A f \in temps : f \in orphans \/ \E p \in Writers :
        /\ task[p].file = f /\ task[p].kind \in Writes
        /\ task[p].step \in WithFile

FilesInv == /\ FilesTypeOK /\ Numbered /\ Unnamed /\ Promoted /\ WritersWrite /\ Removed
            /\ Held /\ NeverTorn /\ ReturnedIsDurable

Tasks == [kind : Kinds, step : TaskSteps, file : Inodes \union {NoFile}, linked : BOOLEAN]

-----------------------------------------------------------------------------
(* What a step does to the tasks *)

\* A process goes on to another step of what it is doing.
Moves(p, s) == /\ task' \in [Writers -> Tasks]
               /\ task'[p].step = s /\ s \in TaskSteps
               /\ task'[p].kind = task[p].kind /\ task'[p].file = task[p].file
               /\ \A q \in Writers \ {p} : task'[q] = task[q]

\* To go on is to change the step of one task.
LEMMA AtMoves ==
    ASSUME FilesTypeOK, NEW p \in Writers, NEW s \in TaskSteps,
           At(p, s) \/ task' = [task EXCEPT ![p].step = s, ![p].linked = TRUE]
    PROVE  Moves(p, s)
<1>1. task \in [Writers -> Tasks] /\ task[p] \in Tasks
  BY DEF FilesTypeOK, Tasks
<1>2. PICK b \in BOOLEAN : task' = [task EXCEPT ![p] = [task[p] EXCEPT !.step = s, !.linked = b]]
  <2>1. CASE At(p, s)
    <3>1. [task[p] EXCEPT !.step = s] = [task[p] EXCEPT !.step = s, !.linked = task[p].linked]
      BY <1>1 DEF Tasks
    <3> QED BY <1>1, <2>1, <3>1 DEF At, Tasks
  <2>2. CASE task' = [task EXCEPT ![p].step = s, ![p].linked = TRUE]
    BY <1>1, <2>2
  <2> QED BY <2>1, <2>2
<1> DEFINE t == [task[p] EXCEPT !.step = s, !.linked = b]
<1>3. t \in Tasks /\ t.step = s /\ t.kind = task[p].kind /\ t.file = task[p].file
  BY <1>1 DEF Tasks
<1>4. task' \in [Writers -> Tasks] /\ task'[p] = t /\ \A q \in Writers \ {p} : task'[q] = task[q]
  BY <1>1, <1>2, <1>3
<1> QED BY <1>3, <1>4 DEF Moves

\* It turns to something else, or to a file it found.
LEMMA Turns ==
    ASSUME FilesTypeOK, NEW p \in Writers, NEW t \in Tasks, task' = [task EXCEPT ![p] = t]
    PROVE  /\ task' \in [Writers -> Tasks]
           /\ task'[p] = t
           /\ \A q \in Writers \ {p} : task'[q] = task[q]
  BY DEF FilesTypeOK, Tasks

\* The names of the steps and kinds are what the types say.
LEMMA StepNames ==
    /\ MaxWrites \in Nat /\ MaxFailures \in Nat /\ NoFile \notin Inodes
    /\ Writing \union Undoing \union Removing \union Ended \union {"dead"} \subseteq TaskSteps
    /\ {"exclusive", "replace", "remove", "removeIfPresent"} \subseteq Kinds
  BY FileBoundsAssumption DEF FileBoundsAssumption, NoFile, Inodes, TaskSteps, Kinds, Writes

-----------------------------------------------------------------------------
(* What keeps each part of the invariant while one process moves *)

\* The path and the directory change as a promotion or a removal does, or not at all.
Promotes(p) ==
    \/ UNCHANGED <<entry, kept>>
    \/ Names(NoFile)
    \/ Names(task[p].file) /\ task[p].step = "promote" /\ task'[p].step \notin Unpromoted

\* A task that goes on names no file that was not begun.
LEMMA MoveNumbered ==
    ASSUME FilesInv, NEW p \in Writers, NEW s, Moves(p, s), Promotes(p), UNCHANGED begun
    PROVE  Numbered'
<1>1. 0 \in 0..begun /\ NoFile = 0
  BY StepNames DEF FilesInv, FilesTypeOK, NoFile
<1>2. \A q \in Writers : task'[q].file = task[q].file
  BY DEF Moves
<1> QED BY <1>1, <1>2 DEF FilesInv, Numbered, Promotes, Names

\* An unpromoted file still belongs to its writer alone.
LEMMA MoveUnnamed ==
    ASSUME FilesInv, NEW p \in Writers, NEW s, Moves(p, s), Promotes(p),
           s \in Unpromoted => task[p].step \in Unpromoted
    PROVE  Unnamed'
<1>1. ASSUME NEW q \in Writers, task'[q].step \in Unpromoted
      PROVE  /\ task'[q].file # NoFile /\ task'[q].file \notin kept'
             /\ \A r \in Writers \ {q} : task'[r].file # task'[q].file
  <2>1. \A r \in Writers : task'[r].file = task[r].file
    BY DEF Moves
  <2>2. task[q].step \in Unpromoted
    BY <1>1 DEF Moves
  <2>3. /\ task[q].file # NoFile /\ task[q].file \notin kept
        /\ \A r \in Writers \ {q} : task[r].file # task[q].file
    BY <2>2 DEF FilesInv, Unnamed
  <2>4. task[q].file \notin kept'
    <3>1. CASE q = p
      BY <1>1, <2>3, <3>1 DEF Promotes, Names
    <3>2. CASE q # p
      BY <2>3, <3>2 DEF Promotes, Names
    <3> QED BY <3>1, <3>2
  <2> QED BY <2>1, <2>3, <2>4
<1> QED BY <1>1 DEF Unnamed

\* What is about to be promoted was synced.
LEMMA MovePromoted ==
    ASSUME FilesInv, NEW p \in Writers, NEW s, Moves(p, s), whole \subseteq whole',
           s = "promote" => task[p].file \in whole'
    PROVE  Promoted'
  BY DEF FilesInv, Promoted, Moves

\* Who has a file to promote or a temporary to remove is writing.
LEMMA MoveWrites ==
    ASSUME FilesInv, NEW p \in Writers, NEW s, Moves(p, s),
           s \in Unpromoted \union {"tidy"} => task[p].step \in Unpromoted
    PROVE  WritersWrite'
  BY DEF FilesInv, WritersWrite, Moves

\* A removal that syncs has taken its file from the path.
LEMMA MoveRemoved ==
    ASSUME FilesInv, NEW p \in Writers, NEW s, Moves(p, s), Promotes(p),
           s = "syncDir" => task[p].kind \in Writes
    PROVE  Removed'
<1>1. ASSUME NEW q \in Writers, task'[q].kind \notin Writes, task'[q].step = "syncDir"
      PROVE  task'[q].file # NoFile /\ task'[q].file # entry'
  <2>1. q # p /\ task'[q] = task[q]
    BY <1>1 DEF Moves
  <2>2. task[q].file # NoFile /\ task[q].file # entry
    BY <1>1, <2>1 DEF FilesInv, Removed
  <2>3. task[p].step = "promote" => task[q].file # task[p].file
    BY <2>1 DEF FilesInv, Unnamed, Unpromoted
  <2> QED BY <2>1, <2>2, <2>3 DEF Promotes, Names
<1> QED BY <1>1 DEF Removed

\* Whoever gives a temporary up has removed it or left it behind.
LEMMA MoveHeld ==
    ASSUME FilesInv, NEW p \in Writers, NEW s, Moves(p, s),
           temps' \subseteq temps \union {task[p].file}, orphans \subseteq orphans',
           task[p].file \in temps' =>
              \/ s \in WithFile /\ task[p].kind \in Writes
              \/ task[p].file \in orphans'
              \/ (temps' \subseteq temps) /\ (task[p].step \notin WithFile \/ task[p].kind \notin Writes)
    PROVE  Held'
<1>1. ASSUME NEW f \in temps', f \notin orphans'
      PROVE  \E q \in Writers : /\ task'[q].file = f /\ task'[q].kind \in Writes
                               /\ task'[q].step \in WithFile
  <2>1. CASE f = task[p].file /\ s \in WithFile /\ task[p].kind \in Writes
    BY <2>1 DEF Moves
  <2>2. CASE ~(f = task[p].file /\ s \in WithFile /\ task[p].kind \in Writes)
    <3>1. f \in temps /\ f \notin orphans
      BY <1>1, <2>2
    <3>2. PICK q \in Writers : task[q].file = f /\ task[q].kind \in Writes /\ task[q].step \in WithFile
      BY <3>1 DEF FilesInv, Held
    <3>3. q # p
      BY <1>1, <2>2, <3>2
    <3>4. task'[q] = task[q]
      BY <3>3 DEF Moves
    <3> QED BY <3>2, <3>4
  <2> QED BY <2>1, <2>2
<1> QED BY <1>1 DEF Held

\* What may be at the path is whole.
LEMMA MoveTorn ==
    ASSUME FilesInv, NEW p \in Writers, Promotes(p), whole \subseteq whole'
    PROVE  NeverTorn'
  BY DEF FilesInv, NeverTorn, Promotes, Names, Promoted

\* What other tasks have reported stays so.
LEMMA MoveDurable ==
    ASSUME FilesInv, NEW p \in Writers, NEW s, Moves(p, s), Promotes(p), s # "returned"
    PROVE  ReturnedIsDurable'
<1>1. ASSUME NEW q \in Writers, task'[q].step = "returned", task'[q].file # NoFile
      PROVE  IF task'[q].kind \in Writes THEN entry' = task'[q].file => kept' = {entry'}
                                         ELSE task'[q].file \notin kept'
  <2>1. q # p /\ task'[q] = task[q]
    BY <1>1 DEF Moves
  <2>2. IF task[q].kind \in Writes THEN entry = task[q].file => kept = {entry}
                                    ELSE task[q].file \notin kept
    BY <1>1, <2>1 DEF FilesInv, ReturnedIsDurable
  <2>3. task[p].step = "promote" => task[q].file # task[p].file
    BY <2>1 DEF FilesInv, Unnamed, Unpromoted
  <2> QED BY <1>1, <2>1, <2>2, <2>3 DEF Promotes, Names
<1> QED BY <1>1 DEF ReturnedIsDurable

\* A process that only goes on keeps the invariant.
LEMMA MoveInv ==
    ASSUME FilesInv, NEW p \in Writers, NEW s, Moves(p, s), Promotes(p), UNCHANGED begun,
           s # "returned",
           s \in Unpromoted \union {"tidy"} => task[p].step \in Unpromoted,
           s = "syncDir" => task[p].kind \in Writes,
           s = "promote" => task[p].file \in whole',
           whole \subseteq whole', whole' \subseteq whole \union {task[p].file},
           temps' \subseteq temps \union {task[p].file}, orphans \subseteq orphans',
           orphans' \subseteq orphans \union temps,
           temps' \subseteq temps \/ task[p].file # NoFile,
           whole' = whole \/ task[p].file # NoFile,
           task[p].file \in temps' =>
              \/ s \in WithFile /\ task[p].kind \in Writes
              \/ task[p].file \in orphans'
              \/ (temps' \subseteq temps) /\ (task[p].step \notin WithFile \/ task[p].kind \notin Writes),
           failures' \in 0..MaxFailures
    PROVE  FilesInv'
<1>1. FilesTypeOK'
  <2>1. task[p].file \in Inodes \union {NoFile} /\ task' \in [Writers -> Tasks]
    BY DEF FilesInv, FilesTypeOK, Moves
  <2>2. entry' \in Inodes \union {NoFile} /\ kept' \subseteq Inodes \union {NoFile}
    BY <2>1 DEF FilesInv, FilesTypeOK, Promotes, Names
  <2>3. whole' \subseteq Inodes /\ temps' \subseteq Inodes /\ orphans' \subseteq Inodes
    BY <2>1 DEF FilesInv, FilesTypeOK
  <2> QED BY <2>1, <2>2, <2>3 DEF FilesInv, FilesTypeOK, Tasks
<1>2. Numbered' /\ Unnamed' /\ Promoted' /\ WritersWrite'
  BY MoveNumbered, MoveUnnamed, MovePromoted, MoveWrites
<1>3. Removed' /\ Held'
  BY MoveRemoved, MoveHeld
<1>4. NeverTorn' /\ ReturnedIsDurable'
  BY MoveTorn, MoveDurable
<1> QED BY <1>1, <1>2, <1>3, <1>4 DEF FilesInv

\* The steps of a write and of a removal in which a process only goes on.
LEMMA GoingOn ==
    ASSUME FilesInv, NEW p \in Writers,
           \/ OpenTemporary(p) \/ SyncTemporary(p) \/ Link(p) \/ Tidy(p) \/ Rename(p)
           \/ CallFails(p) \/ Undo(p) \/ Revalidate(p) \/ Untarget(p) \/ Retain(p) \/ KillProcess(p)
    PROVE  FilesInv'
<1>t. /\ FilesTypeOK /\ failures \in 0..MaxFailures /\ MaxFailures \in Nat
      /\ task[p].step \in Unpromoted => task[p].file # NoFile
      /\ task[p].step \in Unpromoted \union {"tidy"} => task[p].kind \in Writes
      /\ task[p].step = "promote" => task[p].file \in whole
  BY StepNames DEF FilesInv, FilesTypeOK, Unnamed, WritersWrite, Promoted
<1>f. Failure \/ Success => failures' \in 0..MaxFailures
  BY <1>t DEF Failure, Success
<1>s. {"open", "sync", "promote", "tidy", "syncDir", "undo", "revalidate", "untarget", "retain",
       "unlink", "returned", "threw", "dead"} \subseteq TaskSteps
  BY DEF TaskSteps, Writing, Undoing, Removing, Ended
<1>1. CASE OpenTemporary(p)
  <2>1. Moves(p, "sync")
    BY <1>1, <1>t, <1>s, AtMoves DEF OpenTemporary
  <2> QED BY <1>1, <1>t, <1>f, <2>1, MoveInv DEF OpenTemporary, Unpromoted, WithFile, Promotes
<1>2. CASE SyncTemporary(p)
  <2>1. Moves(p, "promote")
    BY <1>2, <1>t, <1>s, AtMoves DEF SyncTemporary
  <2> QED BY <1>2, <1>t, <1>f, <2>1, MoveInv DEF SyncTemporary, Unpromoted, WithFile, Promotes
<1>3. CASE Link(p)
  <2>1. CASE entry = NoFile
    <3>1. Moves(p, "tidy")
      BY <1>3, <1>t, <1>s, <2>1, AtMoves DEF Link
    <3>2. Promotes(p)
      BY <1>3, <2>1, <3>1 DEF Link, Promotes, Moves, Unpromoted
    <3> QED BY <1>3, <1>t, <1>f, <3>1, <3>2, MoveInv DEF Link, Unpromoted, WithFile
  <2>2. CASE entry # NoFile
    <3>1. Moves(p, "undo")
      BY <1>3, <1>t, <1>s, <2>2, AtMoves DEF Link
    <3> QED BY <1>3, <1>t, <1>f, <2>2, <3>1, MoveInv DEF Link, Unpromoted, WithFile, Promotes
  <2> QED BY <2>1, <2>2
<1>4. CASE Tidy(p)
  <2>1. Moves(p, "syncDir")
    BY <1>4, <1>t, <1>s, AtMoves DEF Tidy
  <2> QED BY <1>4, <1>t, <1>f, <2>1, MoveInv DEF Tidy, Unpromoted, WithFile, Promotes
<1>5. CASE Rename(p)
  <2>1. Moves(p, "syncDir")
    BY <1>5, <1>t, <1>s, AtMoves DEF Rename
  <2>2. Promotes(p)
    BY <1>5, <2>1 DEF Rename, Promotes, Moves, Unpromoted
  <2> QED BY <1>5, <1>t, <1>f, <2>1, <2>2, MoveInv DEF Rename, Unpromoted, WithFile
<1>6. CASE CallFails(p)
  <2>1. CASE task[p].kind \in Writes /\ task[p].step \notin Undoing
    <3>1. Moves(p, "undo")
      BY <1>6, <1>t, <1>s, <2>1, AtMoves DEF CallFails
    <3> QED BY <1>6, <1>t, <1>f, <2>1, <3>1, MoveInv DEF CallFails, Unpromoted, WithFile, Promotes
  <2>2. CASE ~(task[p].kind \in Writes /\ task[p].step \notin Undoing)
    <3>1. Moves(p, "threw")
      BY <1>6, <1>t, <1>s, <2>2, AtMoves DEF CallFails
    <3>2. task[p].step \notin WithFile \/ task[p].kind \notin Writes
      BY <2>2, <1>6 DEF CallFails, WithFile, Undoing
    <3> QED BY <1>6, <1>t, <1>f, <3>1, <3>2, MoveInv DEF CallFails, Unpromoted, Promotes
  <2> QED BY <2>1, <2>2
<1>7. CASE Undo(p)
  <2>1. PICK s \in {"revalidate", "threw"} : At(p, s)
    BY <1>7 DEF Undo
  <2>2. Moves(p, s)
    BY <1>t, <1>s, <2>1, AtMoves
  <2>3. /\ temps' \subseteq temps /\ orphans \subseteq orphans' /\ orphans' \subseteq orphans \union temps
        /\ task[p].file \in temps' => task[p].file \in orphans'
        /\ failures' \in 0..MaxFailures
    BY <1>7, <1>f DEF Undo, Stranded
  <2> QED BY <1>7, <1>t, <2>1, <2>2, <2>3, MoveInv DEF Undo, Unpromoted, WithFile, Promotes
<1>8. CASE Revalidate(p) \/ Retain(p)
  <2>1. PICK s \in {"untarget", "unlink", "threw"} : At(p, s)
    BY <1>8 DEF Revalidate, Retain
  <2>2. Moves(p, s)
    BY <1>t, <1>s, <2>1, AtMoves
  <2> QED BY <1>8, <1>t, <1>f, <2>1, <2>2, MoveInv DEF Revalidate, Retain, Unpromoted, WithFile, Promotes
<1>9. CASE Untarget(p)
  <2>1. Moves(p, "threw")
    BY <1>9, <1>t, <1>s, AtMoves DEF Untarget
  <2> QED BY <1>9, <1>t, <1>f, <2>1, MoveInv DEF Untarget, Unpromoted, WithFile, Promotes
<1>10. CASE KillProcess(p)
  <2>1. Moves(p, "dead")
    BY <1>10, <1>t, <1>s, AtMoves DEF KillProcess
  <2>2. orphans \subseteq orphans' /\ orphans' \subseteq orphans \union temps
        /\ (task[p].file \in temps => task[p].file \in orphans')
    BY <1>10 DEF KillProcess, Stranded
  <2> QED BY <1>10, <1>t, <1>f, <2>1, <2>2, MoveInv DEF KillProcess, Unpromoted, Promotes
<1> QED BY <1>1, <1>2, <1>3, <1>4, <1>5, <1>6, <1>7, <1>8, <1>9, <1>10
-----------------------------------------------------------------------------
(* The steps that do more *)

\* The directory is on disk: what returns now is what the path names, and no longer
\* what was removed.
LEMMA SyncingDirectory ==
    ASSUME FilesInv, NEW p \in Writers, SyncDirectory(p)
    PROVE  FilesInv'
<1>1. Moves(p, "returned")
  BY AtMoves, StepNames DEF SyncDirectory, FilesInv, Ended
<1>2. /\ kept' = {entry} /\ task[p].step = "syncDir"
      /\ UNCHANGED <<entry, whole, temps, orphans, begun, failures>>
  BY DEF SyncDirectory, Success
<1>3. entry \in kept
  BY DEF FilesInv, NeverTorn
<1>4. FilesTypeOK'
  BY <1>1, <1>2 DEF Moves, FilesInv, FilesTypeOK, Tasks
<1>5. Numbered' /\ Unnamed'
  <2>1. \A q \in Writers : /\ task'[q].file = task[q].file
                           /\ task'[q].step \in Unpromoted => task[q].step \in Unpromoted
    BY <1>1 DEF Moves, Unpromoted
  <2>2. kept' \subseteq kept /\ begun' = begun
    BY <1>2, <1>3
  <2>3. Numbered'
    <3>1. kept \subseteq 0..begun /\ \A q \in Writers : task[q].file \in 0..begun
      BY DEF FilesInv, Numbered
    <3>2. kept' \subseteq 0..begun' /\ \A q \in Writers : task'[q].file \in 0..begun'
      BY <2>1, <2>2, <3>1
    <3> QED BY <3>2 DEF Numbered
  <2>4. Unnamed'
    <3>1. ASSUME NEW q \in Writers, task'[q].step \in Unpromoted
          PROVE  /\ task'[q].file # NoFile /\ task'[q].file \notin kept'
                 /\ \A r \in Writers \ {q} : task'[r].file # task'[q].file
      <4>1. /\ task[q].file # NoFile /\ task[q].file \notin kept
            /\ \A r \in Writers \ {q} : task[r].file # task[q].file
        BY <2>1, <3>1 DEF FilesInv, Unnamed
      <4> QED BY <2>1, <2>2, <4>1
    <3> QED BY <3>1 DEF Unnamed
  <2> QED BY <2>3, <2>4
<1>6. Promoted' /\ WritersWrite'
  BY <1>1, <1>2 DEF Moves, FilesInv, Promoted, WritersWrite, Unpromoted
<1>7. Removed'
  BY <1>1, <1>2 DEF Moves, FilesInv, Removed
<1>8. Held'
  BY <1>1, <1>2, MoveHeld DEF WithFile
<1>9. NeverTorn'
  BY <1>2, <1>3 DEF FilesInv, NeverTorn
<1>10. ReturnedIsDurable'
  <2>1. ASSUME NEW q \in Writers, task'[q].step = "returned", task'[q].file # NoFile
        PROVE  IF task'[q].kind \in Writes THEN entry' = task'[q].file => kept' = {entry'}
                                           ELSE task'[q].file \notin kept'
    <3>1. CASE q = p
      BY <1>1, <1>2, <2>1, <3>1 DEF Moves, FilesInv, Removed
    <3>2. CASE q # p
      BY <1>1, <1>2, <1>3, <2>1, <3>2 DEF Moves, FilesInv, ReturnedIsDurable
    <3> QED BY <3>1, <3>2
  <2> QED BY <2>1 DEF ReturnedIsDurable
<1> QED BY <1>4, <1>5, <1>6, <1>7, <1>8, <1>9, <1>10 DEF FilesInv

\* A process takes up a task that names no file, a new one, or the one at the path.
TakesUp(p, t) ==
    /\ t \in Tasks /\ task' = [task EXCEPT ![p] = t]
    /\ UNCHANGED <<whole, temps, orphans, failures>>
    /\ t.step \in {"threw", "returned", "open", "retain", "unlink", "syncDir"}
    /\ begun' \in {begun, begun + 1} /\ begun' \in 0..MaxWrites
    /\ IF t.step = "open" THEN t.file = begun + 1 /\ begun' = begun + 1 /\ t.kind \in Writes
                          ELSE t.file \in {NoFile, entry}
    /\ IF t.step = "syncDir" THEN Names(NoFile) /\ t.file # NoFile ELSE UNCHANGED <<entry, kept>>
    /\ t.step = "returned" => t.file = NoFile
    /\ task[p].step \in Ended \union {"unlink"}

\* A task that begins keeps the invariant.
LEMMA TakingUp ==
    ASSUME FilesInv, NEW p \in Writers, NEW t, TakesUp(p, t)
    PROVE  FilesInv'
<1>t. /\ FilesTypeOK /\ begun \in Nat /\ MaxWrites \in Nat /\ NoFile = 0
  BY StepNames DEF FilesInv, FilesTypeOK, NoFile
<1>v. /\ task' \in [Writers -> Tasks] /\ task'[p] = t
      /\ \A q \in Writers \ {p} : task'[q] = task[q]
  BY <1>t, Turns DEF TakesUp
<1>n. /\ entry \in kept /\ kept \subseteq 0..begun /\ kept \subseteq whole \union {NoFile}
      /\ \A q \in Writers : task[q].file \in 0..begun
  BY DEF FilesInv, NeverTorn, Numbered
<1>k. /\ kept \subseteq kept' /\ kept' \subseteq kept \union {NoFile} /\ entry' \in {entry, NoFile}
      /\ entry' \in kept'
  BY <1>n DEF TakesUp, Names
<1>1. FilesTypeOK'
  BY <1>t, <1>v, <1>k DEF TakesUp, FilesTypeOK, Tasks
<1>2. Numbered'
  <2>1. begun' \in Nat /\ begun <= begun' /\ t.file \in 0..begun'
    BY <1>t, <1>n DEF TakesUp
  <2>2. kept' \subseteq 0..begun'
    <3>1. \A n \in 0..begun : n \in 0..begun'
      BY <1>t, <2>1
    <3>2. NoFile \in 0..begun
      BY <1>t
    <3> QED BY <1>n, <1>k, <3>1, <3>2
  <2>3. \A q \in Writers : task'[q].file \in 0..begun'
    BY <1>t, <1>v, <1>n, <2>1
  <2> QED BY <2>2, <2>3 DEF Numbered
<1>3. Unnamed'
  <2>1. ASSUME NEW q \in Writers, task'[q].step \in Unpromoted
        PROVE  /\ task'[q].file # NoFile /\ task'[q].file \notin kept'
               /\ \A r \in Writers \ {q} : task'[r].file # task'[q].file
    <3>1. CASE q = p
      <4>1. t.step = "open" /\ t.file = begun + 1
        BY <1>v, <2>1, <3>1 DEF TakesUp, Unpromoted
      <4>2. t.file \notin kept' /\ t.file # NoFile
        BY <1>t, <1>n, <1>k, <4>1
      <4>3. \A r \in Writers \ {p} : task'[r].file # t.file
        BY <1>t, <1>v, <1>n, <4>1
      <4> QED BY <1>v, <3>1, <4>2, <4>3
    <3>2. CASE q # p
      <4>1. task'[q] = task[q]
        BY <1>v, <3>2
      <4>2. /\ task[q].file # NoFile /\ task[q].file \notin kept
            /\ \A r \in Writers \ {q} : task[r].file # task[q].file
        BY <2>1, <4>1 DEF FilesInv, Unnamed
      <4>3. t.file # task[q].file
        <5>1. t.file \in {NoFile, entry, begun + 1}
          BY DEF TakesUp
        <5>2. task[q].file # begun + 1
          BY <1>t, <1>n
        <5> QED BY <1>n, <4>2, <5>1, <5>2
      <4>4. ASSUME NEW r \in Writers \ {q} PROVE task'[r].file # task[q].file
        BY <1>v, <4>2, <4>3
      <4> QED BY <1>k, <4>1, <4>2, <4>4
    <3> QED BY <3>1, <3>2
  <2> QED BY <2>1 DEF Unnamed
<1>4. Promoted' /\ WritersWrite'
  BY <1>v DEF TakesUp, FilesInv, Promoted, WritersWrite, Unpromoted
<1>5. Removed'
  <2>1. ASSUME NEW q \in Writers, task'[q].kind \notin Writes, task'[q].step = "syncDir"
        PROVE  task'[q].file # NoFile /\ task'[q].file # entry'
    <3>1. CASE q = p
      BY <1>v, <2>1, <3>1 DEF TakesUp, Names
    <3>2. CASE q # p
      BY <1>v, <1>k, <2>1, <3>2 DEF FilesInv, Removed
    <3> QED BY <3>1, <3>2
  <2> QED BY <2>1 DEF Removed
<1>6. Held'
  <2>1. ASSUME NEW f \in temps', f \notin orphans'
        PROVE  \E q \in Writers : /\ task'[q].file = f /\ task'[q].kind \in Writes
                                 /\ task'[q].step \in WithFile
    <3>1. f \in temps /\ f \notin orphans
      BY <2>1 DEF TakesUp
    <3>2. PICK q \in Writers : task[q].file = f /\ task[q].kind \in Writes /\ task[q].step \in WithFile
      BY <3>1 DEF FilesInv, Held
    <3>3. q # p
      BY <3>2 DEF TakesUp, Ended, WithFile
    <3> QED BY <1>v, <3>2, <3>3
  <2> QED BY <2>1 DEF Held
<1>7. NeverTorn'
  BY <1>n, <1>k DEF TakesUp, NeverTorn
<1>8. ReturnedIsDurable'
  <2>1. ASSUME NEW q \in Writers, task'[q].step = "returned", task'[q].file # NoFile
        PROVE  IF task'[q].kind \in Writes THEN entry' = task'[q].file => kept' = {entry'}
                                           ELSE task'[q].file \notin kept'
    <3>1. q # p /\ task'[q] = task[q]
      BY <1>v, <2>1 DEF TakesUp
    <3>2. IF task[q].kind \in Writes THEN entry = task[q].file => kept = {entry}
                                      ELSE task[q].file \notin kept
      BY <2>1, <3>1 DEF FilesInv, ReturnedIsDurable
    <3> QED BY <2>1, <3>1, <3>2, <1>k DEF TakesUp, Names
  <2> QED BY <2>1 DEF ReturnedIsDurable
<1> QED BY <1>1, <1>2, <1>3, <1>4, <1>5, <1>6, <1>7, <1>8 DEF FilesInv
\* The beginnings, and a removal by the path.
LEMMA Beginnings ==
    ASSUME FilesInv, NEW p \in Writers,
           \/ \E kind \in Writes : BeginWrite(p, kind)
           \/ BeginRemove(p) \/ UnlinkFile(p)
           \/ \E next \in {"retain", "unlink"} : BeginRemoveIfPresent(p, next)
    PROVE  FilesInv'
<1>t. /\ FilesTypeOK /\ begun \in 0..MaxWrites /\ MaxWrites \in Nat /\ NoFile = 0
      /\ entry \in Inodes \union {NoFile} /\ task \in [Writers -> Tasks] /\ task[p] \in Tasks
  BY StepNames DEF FilesInv, FilesTypeOK, NoFile, Tasks
<1>s. /\ {"open", "threw", "returned", "retain", "unlink", "syncDir"} \subseteq TaskSteps
      /\ {"exclusive", "replace", "remove", "removeIfPresent"} \subseteq Kinds
      /\ Writes = {"exclusive", "replace"} /\ Ended = {"returned", "threw"}
  BY DEF TaskSteps, Writing, Undoing, Removing, Ended, Kinds, Writes
<1>1. ASSUME NEW kind \in Writes, BeginWrite(p, kind) PROVE FilesInv'
  <2>1. CASE kind = "exclusive" /\ entry # NoFile
    <3> DEFINE t == [kind |-> kind, step |-> "threw", file |-> NoFile, linked |-> FALSE]
    <3>1. t \in Tasks
      BY <1>s DEF Tasks
    <3>2. TakesUp(p, t)
      BY <1>1, <1>t, <1>s, <2>1, <3>1 DEF BeginWrite, TakesUp, Success
    <3> QED BY <3>2, TakingUp
  <2>2. CASE ~(kind = "exclusive" /\ entry # NoFile)
    <3> DEFINE t == [kind |-> kind, step |-> "open", file |-> begun + 1, linked |-> FALSE]
    <3>1. begun < MaxWrites /\ begun' = begun + 1 /\ task' = [task EXCEPT ![p] = t]
      BY <1>1, <2>2 DEF BeginWrite
    <3>2. t \in Tasks
      <4>1. begun + 1 \in Inodes
        BY <1>t, <3>1 DEF Inodes
      <4> QED BY <1>s, <4>1 DEF Tasks
    <3>3. begun' \in 0..MaxWrites
      BY <1>t, <3>1
    <3>4. TakesUp(p, t)
      BY <1>1, <1>s, <3>1, <3>2, <3>3 DEF BeginWrite, TakesUp, Success
    <3> QED BY <3>4, TakingUp
  <2> QED BY <2>1, <2>2
<1>2. CASE BeginRemove(p)
  <2> DEFINE t == [kind |-> "remove", step |-> IF entry = NoFile THEN "threw" ELSE "unlink",
                   file |-> entry, linked |-> FALSE]
  <2>1. t \in Tasks
    BY <1>t, <1>s DEF Tasks
  <2>2. TakesUp(p, t)
    BY <1>2, <1>t, <1>s, <2>1 DEF BeginRemove, TakesUp, Success
  <2> QED BY <2>2, TakingUp
<1>3. ASSUME NEW next \in {"retain", "unlink"}, BeginRemoveIfPresent(p, next) PROVE FilesInv'
  <2> DEFINE t == [kind |-> "removeIfPresent",
                   step |-> IF entry = NoFile THEN "returned" ELSE next,
                   file |-> entry, linked |-> FALSE]
  <2>1. t \in Tasks
    BY <1>t, <1>s DEF Tasks
  <2>2. TakesUp(p, t)
    BY <1>3, <1>t, <1>s, <2>1 DEF BeginRemoveIfPresent, TakesUp, Success
  <2> QED BY <2>2, TakingUp
<1>4. CASE UnlinkFile(p)
  <2>1. CASE entry = NoFile
    <3>1. Moves(p, "threw")
      BY <1>4, <1>t, <1>s, <2>1, AtMoves DEF UnlinkFile
    <3>2. failures' \in 0..MaxFailures
      BY <1>4, <1>t DEF UnlinkFile, Success, FilesTypeOK
    <3> QED BY <1>4, <2>1, <3>1, <3>2, MoveInv DEF UnlinkFile, Unpromoted, WithFile, Promotes
  <2>2. CASE entry # NoFile
    <3> DEFINE t == [task[p] EXCEPT !.step = "syncDir", !.file = entry]
    <3>1. t \in Tasks /\ t.step = "syncDir" /\ t.file = entry
      BY <1>t, <1>s DEF Tasks
    <3>2. task' = [task EXCEPT ![p] = t]
      BY <1>4, <2>2 DEF UnlinkFile
    <3>3. TakesUp(p, t)
      BY <1>4, <1>t, <2>2, <3>1, <3>2 DEF UnlinkFile, TakesUp, Success
    <3> QED BY <3>3, TakingUp
  <2> QED BY <2>1, <2>2
<1> QED BY <1>1, <1>2, <1>3, <1>4

\* After a power failure the path names what the directory had since its last sync,
\* and no process knows of it.
LEMMA PowerFailing == ASSUME FilesInv, PowerFails PROVE FilesInv'
<1> DEFINE t == [kind |-> "replace", step |-> "threw", file |-> NoFile, linked |-> FALSE]
<1>1. /\ entry' \in kept /\ kept' = {entry'} /\ task' = [p \in Writers |-> t]
      /\ UNCHANGED <<whole, temps, begun>>
  BY DEF PowerFails
<1>2. t \in Tasks
  BY DEF Tasks, Kinds, Writes, TaskSteps, Ended
<1>3. \A p \in Writers : task'[p].step = "threw" /\ task'[p].file = NoFile
  BY <1>1
<1>4. FilesTypeOK'
  <2>1. task' \in [Writers -> Tasks]
    BY <1>1, <1>2
  <2>2. orphans' \subseteq Inodes /\ failures' \in 0..MaxFailures
    BY StepNames DEF PowerFails, Stranded, Failure, FilesInv, FilesTypeOK
  <2> QED BY <1>1, <2>1, <2>2 DEF FilesInv, FilesTypeOK, Tasks
<1>5. Numbered'
  <2>1. NoFile \in 0..begun
    BY DEF FilesInv, FilesTypeOK, NoFile
  <2>2. kept' \subseteq 0..begun'
    BY <1>1 DEF FilesInv, Numbered
  <2> QED BY <1>1, <1>3, <2>1, <2>2 DEF Numbered
<1>6. Unnamed' /\ Promoted' /\ WritersWrite' /\ Removed' /\ ReturnedIsDurable'
  BY <1>3 DEF Unnamed, Promoted, WritersWrite, Removed, ReturnedIsDurable, Unpromoted
<1>7. Held'
  <2>1. ASSUME NEW f \in temps' PROVE f \in orphans'
    <3>1. f \in temps
      BY <1>1, <2>1
    <3>2. f \in orphans \/ \E p \in Writers : task[p].file = f
      BY <3>1 DEF FilesInv, Held
    <3> QED BY <3>1, <3>2 DEF PowerFails, Stranded
  <2> QED BY <2>1 DEF Held
<1>8. NeverTorn'
  BY <1>1 DEF FilesInv, NeverTorn
<1> QED BY <1>4, <1>5, <1>6, <1>7, <1>8 DEF FilesInv

-----------------------------------------------------------------------------
(* Theorems *)

\* The invariant holds at first.
LEMMA FilesInitInv == ASSUME FilesInit PROVE FilesInv
<1>1. \A p \in Writers : task[p].step = "threw" /\ task[p].file = NoFile
  BY DEF FilesInit
<1>2. FilesTypeOK
  BY StepNames DEF FilesInit, FilesTypeOK, Kinds, Writes, TaskSteps, Ended
<1>3. Numbered
  <2>1. NoFile \in 0..begun
    BY DEF FilesInit, NoFile
  <2> QED BY <1>1, <2>1 DEF FilesInit, Numbered
<1>4. Unnamed /\ Promoted /\ WritersWrite /\ Removed /\ Held /\ ReturnedIsDurable
  BY <1>1 DEF FilesInit, Unnamed, Promoted, WritersWrite, Removed, Held, ReturnedIsDurable, Unpromoted
<1>5. NeverTorn
  BY DEF FilesInit, NeverTorn
<1> QED BY <1>2, <1>3, <1>4, <1>5 DEF FilesInv

\* Every step keeps the invariant.
LEMMA FilesStep == ASSUME FilesInv, [FilesNext]_fileVars PROVE FilesInv'
<1>1. CASE PowerFails
  BY <1>1, PowerFailing
<1>2. ASSUME NEW p \in Writers, WriteSteps(p) \/ RemoveSteps(p) \/ KillProcess(p) PROVE FilesInv'
  BY <1>2, SyncingDirectory, GoingOn, Beginnings DEF WriteSteps, RemoveSteps
<1>3. CASE UNCHANGED fileVars
  BY <1>3 DEF fileVars, FilesInv, FilesTypeOK, Numbered, Unnamed, Promoted, WritersWrite, Removed,
     Held, NeverTorn, ReturnedIsDurable
<1> QED BY <1>1, <1>2, <1>3 DEF FilesNext

\* The invariants of a path hold together, for any number of writers, writes and failures.
THEOREM FilesInvariance == FilesSpec => []FilesInv
<1> QED BY FilesInitInv, FilesStep, PTL DEF FilesSpec

\* Every variable keeps its shape.
THEOREM FilesTypeCorrect == FilesSpec => []FilesTypeOK
<1>1. FilesInv => FilesTypeOK
  BY DEF FilesInv
<1> QED BY <1>1, FilesInvariance, PTL

\* Files are whole, what an operation reported is on disk, and only a temporary whose
\* process was killed or whose removal failed stays behind.
THEOREM FilesSurviveFailures == FilesSpec => []FilesSurvive
<1>1. FilesInv => TemporariesGo
  BY DEF FilesInv, Held, WithFile, TemporariesGo, Writing
<1>2. FilesInv => FilesSurvive
  BY <1>1 DEF FilesInv, FilesSurvive
<1> QED BY <1>2, FilesInvariance, PTL
=============================================================================
