------------------------------ MODULE SecureFiles ------------------------------
(***************************************************************************)
(* How a file of the Bridge is written and removed, operation by operation *)
(* of the file system: a temporary that is written and synced, a rename or *)
(* an exclusive link, and the sync of the directory.  Every other module   *)
(* takes the whole of it for one step.                                     *)
(*                                                                         *)
(*   apps/bridge/src/host-manager/secure-files/secret-files.ts             *)
(*   apps/bridge/src/host-manager/secure-files/owner-controlled-files.ts   *)
(*                                                                         *)
(* One path is written and removed by several processes.  A file, that is  *)
(* its inode, is named by the number of its write.  After a power failure  *)
(* the directory is as it was at its last sync or at any moment since, and *)
(* a file that was not synced may be torn.                                 *)
(***************************************************************************)
EXTENDS Naturals

CONSTANTS
    Writers,     \* the processes that write the path, started again when the power returns
    MaxWrites,   \* bound: writes that are begun
    MaxFailures  \* bound: failed operations, dying processes and power failures

ASSUME FileBoundsAssumption == MaxWrites \in Nat /\ MaxFailures \in Nat

VARIABLES
    entry,     \* the file at the path, or NoFile
    kept,      \* what a power failure may leave there
    whole,     \* files whose contents are on disk
    temps,     \* temporaries in the directory
    orphans,   \* those left behind: the process ended, or their removal failed (history)
    begun,     \* writes so far
    task,      \* what each process is doing
    failures   \* so far (bound)

fileVars == <<entry, kept, whole, temps, orphans, begun, task, failures>>

NoFile == 0
Inodes == 1..MaxWrites
Writes == {"exclusive", "replace"}
Kinds == Writes \union {"remove", "removeIfPresent"}

\* Where an operation stands before its next call, and how it ended.
Writing == {"open", "sync", "promote", "tidy", "syncDir"}
Undoing == {"undo", "revalidate", "untarget"}
Removing == {"retain", "unlink", "syncDir"}
Ended == {"returned", "threw"}
TaskSteps == Writing \union Undoing \union Removing \union Ended \union {"dead"}

At(p, step) == task' = [task EXCEPT ![p].step = step]

Failure == failures < MaxFailures /\ failures' = failures + 1
Success == UNCHANGED failures

-----------------------------------------------------------------------------
(* writeSecureFile and writeOwnerControlledFile *)

\* An exclusive write begins only if nothing is at the path.
BeginWrite(p, kind) ==
    /\ task[p].step \in Ended
    /\ IF kind = "exclusive" /\ entry # NoFile
       THEN /\ task' = [task EXCEPT ![p] = [kind |-> kind, step |-> "threw", file |-> NoFile,
                                            linked |-> FALSE]]
            /\ UNCHANGED begun
       ELSE /\ begun < MaxWrites
            /\ begun' = begun + 1
            /\ task' = [task EXCEPT ![p] = [kind |-> kind, step |-> "open", file |-> begun + 1,
                                            linked |-> FALSE]]
    /\ Success /\ UNCHANGED <<entry, kept, whole, temps, orphans>>

\* The temporary is created and written.
OpenTemporary(p) ==
    /\ task[p].step = "open"
    /\ temps' = temps \union {task[p].file}
    /\ At(p, "sync")
    /\ Success /\ UNCHANGED <<entry, kept, whole, orphans, begun>>

SyncTemporary(p) ==
    /\ task[p].step = "sync"
    /\ whole' = whole \union {task[p].file}
    /\ At(p, "promote")
    /\ Success /\ UNCHANGED <<entry, kept, temps, orphans, begun>>

\* The path names another file, or none; only a sync of the directory makes it last.
Names(file) == entry' = file /\ kept' = kept \union {file}

\* link(2) fails when the path is taken.
Link(p) ==
    /\ task[p].step = "promote" /\ task[p].kind = "exclusive"
    /\ IF entry = NoFile
       THEN Names(task[p].file) /\ task' = [task EXCEPT ![p].step = "tidy", ![p].linked = TRUE]
       ELSE At(p, "undo") /\ UNCHANGED <<entry, kept>>
    /\ Success /\ UNCHANGED <<whole, temps, orphans, begun>>

Tidy(p) ==
    /\ task[p].step = "tidy"
    /\ temps' = temps \ {task[p].file}
    /\ At(p, "syncDir")
    /\ Success /\ UNCHANGED <<entry, kept, whole, orphans, begun>>

\* rename(2) replaces what is there.
Rename(p) ==
    /\ task[p].step = "promote" /\ task[p].kind = "replace"
    /\ Names(task[p].file)
    /\ temps' = temps \ {task[p].file}
    /\ At(p, "syncDir")
    /\ Success /\ UNCHANGED <<whole, orphans, begun>>

\* Mutant: the operation returns before the directory is on disk.
SyncNothing(p) ==
    /\ task[p].step = "syncDir"
    /\ At(p, "returned")
    /\ Success /\ UNCHANGED <<entry, kept, whole, temps, orphans, begun>>

SyncDirectory(p) ==
    /\ task[p].step = "syncDir"
    /\ kept' = {entry}
    /\ At(p, "returned")
    /\ Success /\ UNCHANGED <<entry, whole, temps, orphans, begun>>

\* A call fails, or one of the checks before it.
CallFails(p) ==
    /\ task[p].step \in (Writing \union Undoing \union Removing) \ {"undo"}
    /\ At(p, IF task[p].kind \in Writes /\ task[p].step \notin Undoing THEN "undo" ELSE "threw")
    /\ Failure /\ UNCHANGED <<entry, kept, whole, temps, orphans, begun>>

\* What processes leave behind.
Stranded(ps) == {f \in temps : \E p \in ps : task[p].file = f}

\* The temporary goes, and the target too if it was linked and is still this file.
Undo(p) ==
    /\ task[p].step = "undo"
    /\ \/ Success /\ temps' = temps \ {task[p].file} /\ UNCHANGED orphans
       \/ Failure /\ orphans' = orphans \union Stranded({p}) /\ UNCHANGED temps
    /\ At(p, IF task[p].linked THEN "revalidate" ELSE "threw")
    /\ UNCHANGED <<entry, kept, whole, begun>>

Revalidate(p) ==
    /\ task[p].step = "revalidate"
    /\ At(p, IF entry = task[p].file THEN "untarget" ELSE "threw")
    /\ Success /\ UNCHANGED <<entry, kept, whole, temps, orphans, begun>>

\* By its path: another file may be there by now.
Untarget(p) ==
    /\ task[p].step = "untarget"
    /\ Names(NoFile)
    /\ At(p, "threw")
    /\ Success /\ UNCHANGED <<whole, temps, orphans, begun>>

-----------------------------------------------------------------------------
(* removeSecureFile, removeSecureFileIfPresent and removeOwnerControlledFile *)

BeginRemove(p) ==
    /\ task[p].step \in Ended
    /\ task' = [task EXCEPT ![p] =
         [kind |-> "remove", step |-> IF entry = NoFile THEN "threw" ELSE "unlink",
          file |-> entry, linked |-> FALSE]]
    /\ Success /\ UNCHANGED <<entry, kept, whole, temps, orphans, begun>>

\* Nothing at the path is no error.  removeSecureFileIfPresent looks again before it removes.
BeginRemoveIfPresent(p, next) ==
    /\ task[p].step \in Ended
    /\ task' = [task EXCEPT ![p] =
         [kind |-> "removeIfPresent", step |-> IF entry = NoFile THEN "returned" ELSE next,
          file |-> entry, linked |-> FALSE]]
    /\ Success /\ UNCHANGED <<entry, kept, whole, temps, orphans, begun>>

\* The target is the one that was found.
Retain(p) ==
    /\ task[p].step = "retain"
    /\ At(p, IF entry = task[p].file THEN "unlink" ELSE "threw")
    /\ Success /\ UNCHANGED <<entry, kept, whole, temps, orphans, begun>>

\* unlink(2), again by the path.
UnlinkFile(p) ==
    /\ task[p].step = "unlink"
    /\ IF entry = NoFile
       THEN At(p, "threw") /\ UNCHANGED <<entry, kept>>
       ELSE Names(NoFile) /\ task' = [task EXCEPT ![p].step = "syncDir", ![p].file = entry]
    /\ Success /\ UNCHANGED <<whole, temps, orphans, begun>>

-----------------------------------------------------------------------------
(* The environment *)

KillProcess(p) ==
    /\ task[p].step # "dead"
    /\ At(p, "dead")
    /\ orphans' = orphans \union Stranded({p})
    /\ Failure /\ UNCHANGED <<entry, kept, whole, temps, begun>>

\* All processes end, and are started again over what is on disk.
PowerFails ==
    /\ \E p \in Writers : task[p].step # "dead"
    /\ entry' \in kept
    /\ kept' = {entry'}
    /\ task' = [p \in Writers |-> [kind |-> "replace", step |-> "threw", file |-> NoFile,
                                 linked |-> FALSE]]
    /\ orphans' = orphans \union Stranded(Writers)
    /\ Failure /\ UNCHANGED <<whole, temps, begun>>

FilesInit ==
    /\ entry = NoFile /\ kept = {NoFile} /\ whole = {} /\ temps = {} /\ orphans = {}
    /\ begun = 0 /\ failures = 0
    /\ task = [p \in Writers |-> [kind |-> "replace", step |-> "threw", file |-> NoFile,
                                linked |-> FALSE]]

WriteSteps(p) == \/ \E kind \in Writes : BeginWrite(p, kind)
                 \/ OpenTemporary(p) \/ SyncTemporary(p) \/ Link(p) \/ Tidy(p) \/ Rename(p)
                 \/ SyncDirectory(p) \/ CallFails(p) \/ Undo(p) \/ Revalidate(p) \/ Untarget(p)

RemoveSteps(p) == \/ BeginRemove(p)
                  \/ \E next \in {"retain", "unlink"} : BeginRemoveIfPresent(p, next)
                  \/ Retain(p) \/ UnlinkFile(p)

FilesNext == PowerFails \/ \E p \in Writers : WriteSteps(p) \/ RemoveSteps(p) \/ KillProcess(p)

FilesSpec == FilesInit /\ [][FilesNext]_fileVars

-----------------------------------------------------------------------------
(* Properties *)

\* Type invariant: every variable has its shape.
FilesTypeOK ==
    /\ entry \in Inodes \union {NoFile} /\ kept \subseteq Inodes \union {NoFile}
    /\ whole \subseteq Inodes /\ temps \subseteq Inodes /\ orphans \subseteq Inodes
    /\ begun \in 0..MaxWrites /\ failures \in 0..MaxFailures
    /\ task \in [Writers -> [kind : Kinds, step : TaskSteps, file : Inodes \union {NoFile},
                           linked : BOOLEAN]]

\* Whatever a power failure leaves at the path is the whole of some write, never a part.
NeverTorn == entry \in kept /\ kept \subseteq whole \union {NoFile}

\* A write that has returned is on disk for as long as the path names it, and a file whose
\* removal has returned does not come back (a removal that finds nothing syncs nothing).
ReturnedIsDurable ==
    \A p \in Writers : task[p].step = "returned" /\ task[p].file # NoFile =>
        IF task[p].kind \in Writes THEN entry = task[p].file => kept = {entry}
                                   ELSE task[p].file \notin kept

\* A temporary stays behind only if its process was killed or its removal failed.
TemporariesGo ==
    \A f \in temps : f \in orphans \/ \E p \in Writers : task[p].file = f
                                                  /\ task[p].step \in Writing \union {"undo"}

\* Whatever fails, whoever is killed and whenever the power goes, files are whole, what
\* was reported is so, and nothing is left over (secret-files.ts:149-224).
FilesSurvive == NeverTorn /\ ReturnedIsDurable /\ TemporariesGo
================================================================================
