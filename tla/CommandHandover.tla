--------------------------- MODULE CommandHandover ---------------------------
(***************************************************************************)
(* What the Agent Adapter promises to the Bridge's driver, without queues, *)
(* leases or polls: a released command is taken by at most one agent, an   *)
(* agent handles it at most once, and the driver gets one verdict, a       *)
(* result only of a command that an agent handled.                         *)
(*                                                                         *)
(*   drivers/pi.ts: releaseCommandDispatch, executeCommand                 *)
(***************************************************************************)
CONSTANT Commands

VARIABLES
    place,     \* where each command is
    verdict    \* what the driver was told

Places   == {"new", "offered", "taken", "handled", "dropped"}
Verdicts == {"none", "waiting", "answered", "unknown"}

Init == /\ place = [c \in Commands |-> "new"]
        /\ verdict = [c \in Commands |-> "none"]

\* The driver releases a command; an agent that waits already may take it at once.
Release(c) == /\ verdict[c] = "none"
              /\ place[c] = "new"
              /\ \E to \in {"offered", "taken"} : place' = [place EXCEPT ![c] = to]
              /\ verdict' = [verdict EXCEPT ![c] = "waiting"]

Take(c) == /\ place[c] = "offered"
           /\ place' = [place EXCEPT ![c] = "taken"]
           /\ UNCHANGED verdict

Handle(c) == /\ place[c] = "taken"
             /\ place' = [place EXCEPT ![c] = "handled"]
             /\ UNCHANGED verdict

Answer(c) == /\ place[c] = "handled"
             /\ verdict[c] = "waiting"
             /\ verdict' = [verdict EXCEPT ![c] = "answered"]
             /\ UNCHANGED place

\* Commands on their way are lost, and the driver gives up some that it waits
\* for; what was handled stays handled.
Lose(lost, given) ==
    /\ \A c \in lost : place[c] \in {"offered", "taken"}
    /\ \A c \in given : verdict[c] = "waiting"
    /\ place' = [c \in Commands |-> IF c \in lost THEN "dropped" ELSE place[c]]
    /\ verdict' = [c \in Commands |-> IF c \in given THEN "unknown" ELSE verdict[c]]

Next == \/ \E c \in Commands : Release(c) \/ Take(c) \/ Handle(c) \/ Answer(c)
        \/ \E lost, given \in SUBSET Commands : Lose(lost, given)

Spec == Init /\ [][Next]_<<place, verdict>>
==============================================================================
