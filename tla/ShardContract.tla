----------------------------- MODULE ShardContract -----------------------------
(***************************************************************************)
(* What a shard promises the Orchestrator: its thread runs until it is     *)
(* told to stop and then ends, reporting it once through on_shard_closed_; *)
(* only an exception ends it before.  Shard implements this and            *)
(* Orchestrator is built on it.                                            *)
(***************************************************************************)
EXTENDS Naturals

CONSTANT MayThrow

VARIABLES
    stage,      \* "none", "running", "stopping", "exited"
    reported    \* calls of on_shard_closed_

vars == <<stage, reported>>

Init == stage = "none" /\ reported = 0

Start ==
    /\ stage = "none"
    /\ stage' = "running"
    /\ UNCHANGED reported

Stop ==
    /\ stage = "running"
    /\ stage' = "stopping"
    /\ UNCHANGED reported

Exit ==
    /\ stage = "stopping" \/ (stage = "running" /\ MayThrow)
    /\ stage' = "exited"
    /\ reported' = reported + 1

Next == Start \/ Stop \/ Exit

Spec == Init /\ [][Next]_vars /\ WF_vars(stage = "stopping" /\ Exit)
===============================================================================
