------------------------------- MODULE Processes -------------------------------
(* The processes of one machine, as the file protocols see them.             *)

CONSTANTS
    Procs,  \* processes, each a pid and its start; never started twice
    NoProc

ASSUME NoProcAssumption == NoProc \notin Procs
================================================================================
