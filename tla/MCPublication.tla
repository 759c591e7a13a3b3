--------------------------- MODULE MCPublication ---------------------------
(* Instances of Publication for TLC.                                       *)
EXTENDS Publication

\* Two sessions with one mishap; one session with more of them, or with more
\* changes of its recipients.
MCScenarios ==
    {[present |-> {1, 2}, changes |-> 1, events |-> 1, pairings |-> 1, mishaps |-> 1],
     [present |-> {1, 2}, changes |-> 2, events |-> 0, pairings |-> 0, mishaps |-> 1],
     [present |-> {1},    changes |-> 0, events |-> 1, pairings |-> 1, mishaps |-> 2],
     [present |-> {1},    changes |-> 1, events |-> 1, pairings |-> 0, mishaps |-> 2],
     [present |-> {1},    changes |-> 0, events |-> 1, pairings |-> 2, mishaps |-> 1],
     [present |-> {1},    changes |-> 0, events |-> 0, pairings |-> 0, mishaps |-> 3]}
=============================================================================
