---------------------------- MODULE MCFileProtocols ----------------------------
(***************************************************************************)
(* The three protocols over files for TLC.  They share no file: a behaviour *)
(* runs one of them, and the processes of the other two never started.     *)
(***************************************************************************)
EXTENDS RuntimeLock, ProcessAwareLock, SecureFiles

allVars == <<vars, lockVars, fileVars>>

\* No process of the protocol runs.
RuntimeLockRests == /\ main = NoProc
                    /\ mutex = [g \in Generations |-> NoProc]
                    /\ alive = {}
                    /\ pc = [p \in Procs |-> "dead"]
                    /\ gen = [p \in Procs |-> 0]
                    /\ seen = [p \in Procs |-> NoProc]
                    /\ holding = {}
                    /\ faults = 0

LockRests == /\ file = NoProc
             /\ old = {}
             /\ running = {}
             /\ stage = [p \in Procs |-> "dead"]
             /\ found = [p \in Procs |-> NoProc]
             /\ orphaned = FALSE

FilesRest == /\ entry = NoFile /\ kept = {NoFile}
             /\ whole = {} /\ temps = {} /\ orphans = {}
             /\ begun = 0 /\ failures = 0
             /\ task = [p \in Writers |-> [kind |-> "replace", step |-> "dead", file |-> NoFile,
                                           linked |-> FALSE]]

MCInit == \/ Init /\ LockRests /\ FilesRest
          \/ RuntimeLockRests /\ LockInit /\ FilesRest
          \/ RuntimeLockRests /\ LockRests /\ FilesInit

MCNext == \/ Next /\ UNCHANGED <<lockVars, fileVars>>
          \/ LockNext /\ UNCHANGED <<vars, fileVars>>
          \/ FilesNext /\ UNCHANGED <<vars, lockVars>>

MCSpec == MCInit /\ [][MCNext]_allVars /\ Fairness /\ LockFairness
================================================================================
