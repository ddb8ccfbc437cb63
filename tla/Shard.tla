-------------------------------- MODULE Shard --------------------------------
(***************************************************************************)
(* One Shard (orchestrator/shard.h) with its SessionPool                   *)
(* (orchestrator/session-pool.h).                                          *)
(*                                                                         *)
(* The orchestrator's thread calls start, submit_work,                     *)
(* schedule_metrics_pull and stop; everything else runs on the shard's one *)
(* thread, inside cntx_.run().  A session is seen through its contract     *)
(* (module SessionContract): it runs the commands posted to its strand in  *)
(* order, a start makes it live, and it may close by itself at any moment, *)
(* calling on_disconnect_.                                                 *)
(***************************************************************************)
EXTENDS Integers, Sequences, FiniteSets

CONSTANTS
    NumSessions,    \* sessions of this shard's slice of the pool
    ActionTypes,    \* the action types the script uses after CREATE
    MaxStarts,      \* bound: CONNECTs per session
    MaxActions,     \* bound: actions submitted after CREATE
    MaxPulls,       \* bound: metrics pulls scheduled
    MayThrow        \* whether handler_factory_() or a handler may throw

ASSUME ConstantsAssumption ==
    /\ NumSessions \in Nat \ {0}
    /\ ActionTypes \subseteq {"CONNECT", "SEND", "FLOOD", "DRAIN", "DISCONNECT"}
    /\ MaxStarts \in Nat
    /\ MaxActions \in Nat
    /\ MaxPulls \in Nat
    /\ MayThrow \in BOOLEAN

VARIABLES
    running_,   \* the atomic flag start() and stop() exchange
    thread,     \* "none", "running", "exited"
    queue,      \* handlers posted to cntx_, oldest first
    ctx,        \* work guard, force-stop timer and stopped() of cntx_
    pool,       \* members of session_pool_
    sessions,   \* per session: commands posted to its strand, and live_
    script,     \* what verify_script() remembers, and the bounded inputs used
    hist        \* counts of callbacks, for the properties

vars == <<running_, thread, queue, ctx, pool, sessions, script, hist>>

owned == <<running_, thread, script>>

Sessions == 0 .. NumSessions - 1

SessionOp == {"start", "send", "flood", "drain", "stop"}

Action == [type : {"CREATE", "CONNECT", "SEND", "FLOOD", "DRAIN", "DISCONNECT"},
           sessions_start : Nat, sessions_end : Nat]

Handler == [kind : {"action"}, action : Action] \cup [kind : {"metrics", "shutdown"}]

TypeOK ==
    /\ running_ \in BOOLEAN
    /\ thread \in {"none", "running", "exited"}
    /\ queue \in Seq(Handler)
    /\ ctx \in [work_guard_ : BOOLEAN, stopped : BOOLEAN,
                stop_timer_ : {"off", "armed", "expired", "cancelled"}]
    /\ pool \in [sessions_ : Nat, active_sessions_ : Nat, closed_ : BOOLEAN]
    /\ sessions \in [Sessions -> [posted : Seq(SessionOp), live_ : BOOLEAN]]
    /\ script \in [created : BOOLEAN, active : [Sessions -> BOOLEAN],
                   stopped : [Sessions -> BOOLEAN], connects : [Sessions -> Nat],
                   submitted : Nat, pulls : Nat]
    /\ hist \in [notified : Nat, overlaps : Nat, exits : Nat, threw : BOOLEAN]

Init ==
    /\ running_ = FALSE
    /\ thread = "none"
    /\ queue = <<>>
    /\ ctx = [work_guard_ |-> TRUE, stopped |-> FALSE, stop_timer_ |-> "off"]
    /\ pool = [sessions_ |-> 0, active_sessions_ |-> 0, closed_ |-> FALSE]
    /\ sessions = [i \in Sessions |-> [posted |-> <<>>, live_ |-> FALSE]]
    /\ script = [created |-> FALSE, active |-> [i \in Sessions |-> FALSE],
                 stopped |-> [i \in Sessions |-> FALSE],
                 connects |-> [i \in Sessions |-> 0], submitted |-> 0, pulls |-> 0]
    /\ hist = [notified |-> 0, overlaps |-> 0, exits |-> 0, threw |-> FALSE]

-----------------------------------------------------------------------------
(* Called on the orchestrator's thread. *)

start ==
    /\ ~running_ /\ thread = "none"
    /\ running_' = TRUE
    /\ thread' = "running"
    /\ UNCHANGED <<queue, ctx, pool, sessions, script, hist>>

submit_work(action) ==
    /\ running_
    /\ queue' = Append(queue, [kind |-> "action", action |-> action])
    /\ UNCHANGED <<running_, thread, ctx, pool, sessions, hist>>

schedule_metrics_pull ==
    /\ thread # "none"
    /\ script.pulls < MaxPulls
    /\ script' = [script EXCEPT !.pulls = @ + 1]
    /\ queue' = Append(queue, [kind |-> "metrics"])
    /\ UNCHANGED <<running_, thread, ctx, pool, sessions, hist>>

stop ==
    /\ running_
    /\ running_' = FALSE
    /\ queue' = Append(queue, [kind |-> "shutdown"])
    /\ UNCHANGED <<thread, ctx, pool, sessions, script, hist>>

\* Actions arrive in the order of a script verify_script() accepts: CREATE
\* once and first, CONNECT on inactive sessions, SEND, FLOOD and DRAIN on
\* active ones, DISCONNECT once per session; DRAIN makes a session inactive.
SubmitCreate ==
    /\ ~script.created
    /\ submit_work([type |-> "CREATE", sessions_start |-> 0, sessions_end |-> NumSessions])
    /\ script' = [script EXCEPT !.created = TRUE]

Covered(action) == action.sessions_start .. action.sessions_end - 1

Accepted(action) ==
    \A i \in Covered(action) :
        CASE action.type = "CONNECT" -> ~script.active[i] /\ script.connects[i] < MaxStarts
          [] action.type = "DISCONNECT" -> ~script.stopped[i]
          [] OTHER -> script.active[i]

Remember(action) ==
    LET hit(i, t) == action.type = t /\ i \in Covered(action)
    IN  script' =
          [script EXCEPT
             !.active = [i \in Sessions |->
                           (@[i] \/ hit(i, "CONNECT")) /\ ~hit(i, "DRAIN")],
             !.connects = [i \in Sessions |-> IF hit(i, "CONNECT") THEN @[i] + 1 ELSE @[i]],
             !.stopped = [i \in Sessions |-> @[i] \/ hit(i, "DISCONNECT")],
             !.submitted = @ + 1]

SubmitAction ==
    \E type \in ActionTypes, first \in Sessions, last \in 1 .. NumSessions :
        LET action == [type |-> type, sessions_start |-> first, sessions_end |-> last]
        IN  /\ script.created
            /\ script.submitted < MaxActions
            /\ first < last
            /\ Accepted(action)
            /\ submit_work(action)
            /\ Remember(action)

-----------------------------------------------------------------------------
(* SessionPool *)

\* The loop of start_, send_, flood_, drain_ and stop_sessions_range().
PostRange(p, ss, first, last, op) ==
    IF p.closed_
    THEN ss
    ELSE [i \in Sessions |->
            IF first <= i /\ i < last
            THEN [ss[i] EXCEPT !.posted = Append(@, op)]
            ELSE ss[i]]

create_sessions(p, count) == IF p.sessions_ > 0 THEN p ELSE [p EXCEPT !.sessions_ = count]

\* Fault: the exclusive end is counted as well.
CountStarts_Inclusive(p, first, last) ==
    IF p.closed_ THEN p ELSE [p EXCEPT !.active_sessions_ = @ + (last - first) + 1]

\* Only start_sessions_range() touches the pool itself.
CountStarts(p, first, last) ==
    IF p.closed_ THEN p ELSE [p EXCEPT !.active_sessions_ = @ + (last - first)]

stop_all_sessions(p, ss) == PostRange(p, ss, 0, p.sessions_, "stop")

\* notify_closed_ is Shard::on_pool_closed().
on_pool_closed(c) ==
    [c EXCEPT !.stop_timer_ = IF @ = "armed" THEN "cancelled" ELSE @,
              !.work_guard_ = FALSE]

NotifyIf(cond, c, h) ==
    /\ ctx' = IF cond THEN on_pool_closed(c) ELSE c
    /\ hist' = [h EXCEPT !.notified = IF cond THEN @ + 1 ELSE @]

\* Fault: the first session to go after shutdown() closes the pool.
disconnect_callback_First(h) ==
    /\ pool' = [pool EXCEPT !.active_sessions_ = @ - 1]
    /\ NotifyIf(pool.closed_, ctx, h)

disconnect_callback(h) ==
    /\ pool' = [pool EXCEPT !.active_sessions_ = @ - 1]
    /\ NotifyIf(pool.active_sessions_ - 1 = 0 /\ pool.closed_, ctx, h)

-----------------------------------------------------------------------------
(* Handlers, on the shard's thread. *)

InRun == thread = "running" /\ ~ctx.stopped

RunNext(kind) ==
    /\ InRun
    /\ queue # <<>>
    /\ Head(queue).kind = kind
    /\ queue' = Tail(queue)

OpOf(type) ==
    CASE type = "CONNECT" -> "start"
      [] type = "SEND" -> "send"
      [] type = "FLOOD" -> "flood"
      [] type = "DRAIN" -> "drain"
      [] type = "DISCONNECT" -> "stop"

handle_action ==
    /\ RunNext("action")
    /\ LET a == Head(queue).action
       IN  /\ pool' = CASE a.type = "CREATE" ->
                             create_sessions(pool, a.sessions_end - a.sessions_start)
                        [] a.type = "CONNECT" ->
                             CountStarts(pool, a.sessions_start, a.sessions_end)
                        [] OTHER -> pool
           /\ sessions' = IF a.type = "CREATE"
                          THEN sessions
                          ELSE PostRange(pool, sessions, a.sessions_start,
                                         a.sessions_end, OpOf(a.type))
    /\ UNCHANGED <<owned, ctx, hist>>

\* record_metrics() reads the pool and calls back; the orchestrator's side of
\* it is in module Orchestrator.
RunMetricsPull ==
    /\ RunNext("metrics")
    /\ UNCHANGED <<owned, ctx, pool, sessions, hist>>

\* Fault: the timer is not armed.
start_force_stop_timer_Missing(c) == c

start_force_stop_timer(c) == [c EXCEPT !.stop_timer_ = "armed"]

\* Fault: shutdown() leaves the notification to the sessions.
shutdown_NeverNotifies ==
    /\ RunNext("shutdown")
    /\ ctx' = start_force_stop_timer(ctx)
    /\ pool' = [pool EXCEPT !.closed_ = TRUE]
    /\ UNCHANGED <<owned, sessions, hist>>

\* The handler posted by stop(): arm the timer, then SessionPool::shutdown(),
\* which sets closed_ before it calls stop_all_sessions().
shutdown ==
    /\ RunNext("shutdown")
    /\ LET armed == start_force_stop_timer(ctx)
           p == [pool EXCEPT !.closed_ = TRUE]
       IN  IF pool.closed_
           THEN /\ ctx' = armed
                /\ UNCHANGED <<pool, sessions, hist>>
           ELSE /\ pool' = p
                /\ sessions' = stop_all_sessions(p, sessions)
                /\ NotifyIf(p.active_sessions_ = 0, armed, hist)
    /\ UNCHANGED owned

\* A session runs the oldest command of its strand.  A start() succeeds or
\* fails at once; on a session that is still live it counts as an overlap.
RunSessionCommand(i) ==
    /\ InRun
    /\ sessions[i].posted # <<>>
    /\ LET op == Head(sessions[i].posted)
           s == [sessions[i] EXCEPT !.posted = Tail(@)]
           started == [hist EXCEPT !.overlaps = IF s.live_ THEN @ + 1 ELSE @]
       IN  \/ /\ op = "start"
              /\ sessions' = [sessions EXCEPT ![i] = [s EXCEPT !.live_ = TRUE]]
              /\ hist' = started
              /\ UNCHANGED <<pool, ctx>>
           \/ /\ op = "start"
              /\ sessions' = [sessions EXCEPT ![i] = [s EXCEPT !.live_ = FALSE]]
              /\ disconnect_callback(started)
           \/ /\ op \in {"drain", "stop"} /\ s.live_
              /\ sessions' = [sessions EXCEPT ![i] = [s EXCEPT !.live_ = FALSE]]
              /\ disconnect_callback(hist)
           \/ /\ op \in {"send", "flood", "drain"} \/ (op = "stop" /\ ~s.live_)
              /\ sessions' = [sessions EXCEPT ![i] = s]
              /\ UNCHANGED <<pool, ctx, hist>>
    /\ UNCHANGED <<owned, queue>>

\* Connection failure, stream error, or the last write of a drain.
SessionCloses(i) ==
    /\ InRun
    /\ sessions[i].live_
    /\ sessions' = [sessions EXCEPT ![i].live_ = FALSE]
    /\ disconnect_callback(hist)
    /\ UNCHANGED <<owned, queue>>

StopTimerExpires ==
    /\ ctx.stop_timer_ = "armed"
    /\ thread = "running"
    /\ ctx' = [ctx EXCEPT !.stop_timer_ = "expired"]
    /\ UNCHANGED <<owned, queue, pool, sessions, hist>>

StopTimerHandler ==
    /\ InRun
    /\ ctx.stop_timer_ \in {"expired", "cancelled"}
    /\ ctx' = [ctx EXCEPT !.stop_timer_ = "off",
                          !.stopped = ctx.stop_timer_ = "expired"]
    /\ UNCHANGED <<owned, queue, pool, sessions, hist>>

\* cntx_.run() returns when it is stopped or out of work.
RunReturns ==
    /\ thread = "running"
    /\ \/ ctx.stopped
       \/ /\ ~ctx.work_guard_
          /\ queue = <<>>
          /\ ctx.stop_timer_ = "off"
          /\ \A i \in Sessions : sessions[i].posted = <<>>
    /\ thread' = "exited"
    /\ hist' = [hist EXCEPT !.exits = @ + 1]
    /\ UNCHANGED <<running_, queue, ctx, pool, sessions, script>>

\* An exception leaves cntx_.run(), or comes from handler_factory_().
ThreadThrows ==
    /\ MayThrow
    /\ InRun
    /\ ctx' = [ctx EXCEPT !.work_guard_ = FALSE, !.stopped = TRUE]
    /\ thread' = "exited"
    /\ hist' = [hist EXCEPT !.exits = @ + 1, !.threw = TRUE]
    /\ UNCHANGED <<running_, queue, pool, sessions, script>>

-----------------------------------------------------------------------------
Owner == start \/ SubmitCreate \/ SubmitAction \/ schedule_metrics_pull \/ stop

Handlers ==
    \/ handle_action
    \/ RunMetricsPull
    \/ shutdown
    \/ StopTimerHandler

Next ==
    \/ Owner
    \/ Handlers
    \/ \E i \in Sessions : RunSessionCommand(i) \/ SessionCloses(i)
    \/ StopTimerExpires
    \/ RunReturns
    \/ ThreadThrows

\* The thread runs what is queued and leaves run() when it may; 30 seconds
\* pass.  Nothing makes a session close, or the orchestrator call stop().
Fairness ==
    /\ WF_vars(handle_action \/ RunMetricsPull \/ shutdown)
    /\ WF_vars(StopTimerHandler)
    /\ \A i \in Sessions : WF_vars(RunSessionCommand(i))
    /\ WF_vars(StopTimerExpires)
    /\ WF_vars(RunReturns)

Spec == Init /\ [][Next]_vars /\ Fairness

-----------------------------------------------------------------------------
(* Properties *)

PendingStarts ==
    UNION {{<<i, j>> : j \in {k \in DOMAIN sessions[i].posted :
                                 sessions[i].posted[k] = "start"}} : i \in Sessions}

Live == {i \in Sessions : sessions[i].live_}

\* active_sessions_ is what its name says: the starts posted but not yet run
\* plus the live sessions, plus one for every start() that hit a live session.
\* Without such an overlap it reaches 0 exactly when the last session is gone,
\* and never wraps below 0.
ActiveSessionsExact ==
    pool.active_sessions_ = Cardinality(PendingStarts) + Cardinality(Live) + hist.overlaps

\* The pool reports being closed at most once, only after shutdown(), and
\* never while a session is live or about to be; and a closed pool with no
\* active session has let go of the context, the work guard gone and the
\* force-stop timer not left running: no notification is lost between
\* shutdown() and the last disconnect_callback().
ClosedReportedOnceAndLast ==
    /\ hist.notified <= 1
    /\ hist.notified = 1 =>
          pool.closed_ /\ Live = {} /\ PendingStarts = {}
    /\ pool.closed_ /\ pool.active_sessions_ = 0 =>
          ~ctx.work_guard_ /\ ctx.stop_timer_ # "armed"

\* run() returns by itself only when every session has closed; it leaves live
\* sessions behind only if it was stopped by the timer or by an exception.
ExitLeavesNoSession ==
    thread = "exited" /\ ~ctx.stopped => Live = {} /\ PendingStarts = {}

\* Once the pool is shut down every live session has been told to stop
\* (README, Execution Model: "issue closing commands").
ShutdownStopsSessions ==
    pool.closed_ /\ InRun =>
        \A i \in Live : \E k \in DOMAIN sessions[i].posted : sessions[i].posted[k] = "stop"

Contract == INSTANCE ShardContract
    WITH stage <- IF thread = "running" /\ ~running_ THEN "stopping" ELSE thread,
         reported <- hist.exits

\* A shard with its pool and sessions implements the contract the orchestrator
\* relies on: it never ends by itself without stop() or an exception, ends
\* after stop() whatever its sessions do, and reports that once.
ImplementsContract == Contract!Spec
=============================================================================
