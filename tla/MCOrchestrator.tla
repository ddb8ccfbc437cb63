---------------------------- MODULE MCOrchestrator ----------------------------
(* Scripts for model checking the Orchestrator. *)
EXTENDS Orchestrator

Range(first, last) == [type |-> "RANGE", first |-> first, last |-> last]

\* CREATE, an action on everybody, and one across the border of two shards that
\* covers neither.
MCActions ==
    <<[type |-> "CREATE", first |-> 0, last |-> NumSessions],
      Range(0, NumSessions), Range(1, 3)>>
===============================================================================
