---------------------------- MODULE SessionContract ----------------------------
(***************************************************************************)
(* What a session promises its SessionPool, whatever the transport: it is  *)
(* idle until it is started, it closes at most once and tells the pool     *)
(* through on_disconnect_ in the same step, and a stop() that was posted   *)
(* is carried out.  TcpSession and UdpSession implement this; Shard is     *)
(* built on it.                                                            *)
(***************************************************************************)
EXTENDS Naturals

VARIABLES
    state,      \* "idle", "live", "closed"
    notified,   \* calls of on_disconnect_
    stopping    \* a stop() is posted and has not run

vars == <<state, notified, stopping>>

Init ==
    /\ state = "idle"
    /\ notified = 0
    /\ stopping = FALSE

Start ==
    /\ state = "idle"
    /\ state' = "live"
    /\ UNCHANGED <<notified, stopping>>

\* A UDP socket that cannot be opened: live and closed within one handler.
FailStart ==
    /\ state = "idle"
    /\ state' = "closed"
    /\ notified' = notified + 1
    /\ UNCHANGED stopping

AskStop ==
    /\ ~stopping
    /\ stopping' = TRUE
    /\ UNCHANGED <<state, notified>>

\* Connection failure, stream error, end of a drain.
Close ==
    /\ state = "live"
    /\ state' = "closed"
    /\ notified' = notified + 1
    /\ UNCHANGED stopping

\* stop() on a session that is not live does nothing.
RunStop ==
    /\ stopping
    /\ stopping' = FALSE
    /\ state' = IF state = "live" THEN "closed" ELSE state
    /\ notified' = IF state = "live" THEN notified + 1 ELSE notified

Next == Start \/ FailStart \/ AskStop \/ Close \/ RunStop

Spec == Init /\ [][Next]_vars /\ WF_vars(RunStop)
================================================================================
