---------------------------- MODULE MCAgentAdapter ----------------------------
(* Small instances of one adapter session. *)
EXTENDS AgentAdapter, TLC

\* Commands are interchangeable, and so are Events and the agents that have done nothing yet.
CommandSymmetry == Permutations(Commands) \union Permutations(Agents) \union Permutations(Events)
===============================================================================
