----------------------------- MODULE Orchestrator -----------------------------
(***************************************************************************)
(* The Orchestrator (orchestrator/orchestrator.h) and its shards.          *)
(*                                                                         *)
(* The orchestrator's thread runs one handler of its io_context at a time; *)
(* each shard runs its own queue on its own thread and calls back from     *)
(* there (shard_metrics_callback, shard_exit_callback).  A shard is seen   *)
(* through its contract (module ShardContract): it runs posted handlers in *)
(* order and its thread ends some time after it was told to stop, or early *)
(* through an exception.                                                   *)
(***************************************************************************)
EXTENDS Integers, Sequences, FiniteSets

CONSTANTS
    NumShards,      \* config_.shard_count
    NumSessions,    \* count of the CREATE action
    Actions,        \* actions_: CREATE first, then ranges of sessions
    EarlyStops,     \* bound: how often the user asks for early_stop()
    MayThrow        \* the shards whose thread may end through an exception

ASSUME ConstantsAssumption ==
    /\ NumShards \in Nat \ {0}
    /\ NumSessions \in Nat /\ NumSessions >= NumShards
    /\ Actions \in Seq([type : {"CREATE", "RANGE"}, first : Nat, last : Nat])
    /\ Actions # <<>>
    /\ Actions[1] = [type |-> "CREATE", first |-> 0, last |-> NumSessions]
    /\ \A j \in 2 .. Len(Actions) :
          Actions[j].type = "RANGE" /\ Actions[j].last <= NumSessions
    /\ EarlyStops \in Nat
    /\ MayThrow \subseteq 0 .. NumShards - 1

VARIABLES
    phase,                  \* "new", "starting", "running", "returned", "joined"
    octx,                   \* the orchestrator's io_context
    current_action_indx_,
    shutdown_,
    shard_ranges_,          \* [start, end) of each shard, as a sequence
    active_shards_,
    pending_metric_pulls_,
    handler,                \* the loop the running handler is in, or "none"
    pulling,                \* do_request_metrics(): shards it has posted to so far
    shards,                 \* shards_
    hist                    \* what was sent, recorded and asked for

vars == <<phase, handler, octx, current_action_indx_, shutdown_, shard_ranges_,
          active_shards_, pending_metric_pulls_, pulling, shards, hist>>

dispatchVars == <<current_action_indx_, shard_ranges_>>
metricsVars == <<pending_metric_pulls_, pulling>>

Shards == 0 .. NumShards - 1

Item == [kind : {"action"}, index : Nat, first : Nat, last : Nat]
            \cup [kind : {"metrics", "stop"}]

TypeOK ==
    /\ phase \in {"new", "starting", "running", "returned", "joined"}
    /\ handler \in {"none", "dispatch", "metrics"}
    /\ octx \in [queue : Seq({"dispatch", "metrics", "round", "shutdown", "last_shard"}),
                 work_guard_ : BOOLEAN, dispatch_timer_ : BOOLEAN, metrics_timer_ : BOOLEAN]
    /\ current_action_indx_ \in Nat
    /\ shutdown_ \in BOOLEAN
    /\ shard_ranges_ \in Seq([first : Nat, last : Nat])
    /\ active_shards_ \in Nat
    /\ pending_metric_pulls_ \in Nat
    /\ pulling \in 0 .. NumShards
    /\ shards \in [Shards -> [running_ : BOOLEAN, thread : {"none", "running", "exited"},
                              queue : Seq(Item), stopping : BOOLEAN]]
    /\ hist \in [sent : [Shards -> SUBSET Item], recorded : [Shards -> Nat], asked : Nat]

Init ==
    /\ phase = "new"
    /\ handler = "none"
    /\ octx = [queue |-> <<>>, work_guard_ |-> TRUE,
               dispatch_timer_ |-> FALSE, metrics_timer_ |-> FALSE]
    /\ current_action_indx_ = 0
    /\ shutdown_ = FALSE
    /\ shard_ranges_ = <<>>
    /\ active_shards_ = NumShards
    /\ pending_metric_pulls_ = 0
    /\ pulling = NumShards
    /\ shards = [k \in Shards |-> [running_ |-> FALSE, thread |-> "none",
                                   queue |-> <<>>, stopping |-> FALSE]]
    /\ hist = [sent |-> [k \in Shards |-> {}], recorded |-> [k \in Shards |-> 0], asked |-> 0]

-----------------------------------------------------------------------------
(* start() and early_stop() *)

\* Shards run, and may end, before the orchestrator enters its own loop.
StartShards ==
    /\ phase = "new"
    /\ phase' = "starting"
    /\ shards' = [k \in Shards |-> [shards[k] EXCEPT !.running_ = TRUE, !.thread = "running"]]
    /\ UNCHANGED <<handler, octx, dispatchVars, shutdown_, active_shards_, metricsVars, hist>>

EnterRun ==
    /\ phase = "starting"
    /\ phase' = "running"
    /\ octx' = [octx EXCEPT !.queue = Append(@, "dispatch"), !.metrics_timer_ = TRUE]
    /\ UNCHANGED <<handler, dispatchVars, shutdown_, active_shards_, metricsVars, shards, hist>>

\* From another thread, at any moment of the run.
early_stop ==
    /\ phase \in {"starting", "running"}
    /\ hist.asked < EarlyStops
    /\ hist' = [hist EXCEPT !.asked = @ + 1]
    /\ octx' = [octx EXCEPT !.queue = Append(@, "shutdown")]
    /\ UNCHANGED <<phase, handler, dispatchVars, shutdown_, active_shards_, metricsVars, shards>>

\* run() returns when nothing is left to do; then every shard is joined.
RunReturns ==
    /\ phase = "running"
    /\ ~octx.work_guard_ /\ octx.queue = <<>>
    /\ ~octx.dispatch_timer_ /\ ~octx.metrics_timer_
    /\ handler = "none"
    /\ phase' = "returned"
    /\ UNCHANGED <<handler, octx, dispatchVars, shutdown_, active_shards_, metricsVars, shards, hist>>

JoinShards ==
    /\ phase = "returned"
    /\ \A k \in Shards : shards[k].thread = "exited"
    /\ phase' = "joined"
    /\ UNCHANGED <<handler, octx, dispatchVars, shutdown_, active_shards_, metricsVars, shards, hist>>

-----------------------------------------------------------------------------
(* Distribution of an action over the shards *)

\* The loop of the CREATE branch: `start` before shard k gets its range.
RangeStart[k \in Nat] ==
    IF k = 0
    THEN 0
    ELSE RangeStart[k - 1] + NumSessions \div NumShards
            + (IF k - 1 < NumSessions % NumShards THEN 1 ELSE 0)

\* Fault: the remainder of the division is not given to any shard.
CreateRanges_NoRemainder ==
    [i \in 1 .. NumShards |->
        [first |-> (i - 1) * (NumSessions \div NumShards),
         last |-> i * (NumSessions \div NumShards)]]

CreateRanges == [i \in 1 .. NumShards |-> [first |-> RangeStart[i - 1], last |-> RangeStart[i]]]

Larger(a, b) == IF a >= b THEN a ELSE b
Smaller(a, b) == IF a <= b THEN a ELSE b

\* The part of action j that falls to shard k, in k's own indices.
ShardAction(j, k, ranges) ==
    LET lower == Larger(Actions[j].first, ranges[k + 1].first)
        upper == Smaller(Actions[j].last, ranges[k + 1].last)
        local == lower - ranges[k + 1].first
    IN  IF lower >= upper
        THEN {}
        ELSE {[kind |-> "action", index |-> j, first |-> local,
               last |-> local + (upper - lower)]}

CoveredBy(item, k) ==
    {shard_ranges_[k + 1].first + i : i \in item.first .. item.last - 1}

\* CREATE computes the ranges first; each part goes to the shards that take it.
Distribute(j, takers) ==
    LET ranges == IF Actions[j].type = "CREATE" THEN CreateRanges ELSE shard_ranges_
        part == [k \in Shards |-> IF k \in takers THEN ShardAction(j, k, ranges) ELSE {}]
    IN  /\ shard_ranges_' = ranges
        /\ shards' = [k \in Shards |->
                        IF part[k] = {}
                        THEN shards[k]
                        ELSE [shards[k] EXCEPT
                                !.queue = Append(@, CHOOSE item \in part[k] : TRUE)]]
        /\ hist' = [hist EXCEPT !.sent = [k \in Shards |-> @[k] \cup part[k]]]

\* submit_work() refuses when the shard is not running_, which is only logged.
distribute_action_to_shards(j) == Distribute(j, {k \in Shards : shards[k].running_})

-----------------------------------------------------------------------------
(* The orchestrator's handlers *)

Idle == phase = "running" /\ handler = "none"

RunNext(name) ==
    /\ Idle
    /\ octx.queue # <<>>
    /\ Head(octx.queue) = name

Popped == [octx EXCEPT !.queue = Tail(@)]

\* Cancelling a timer whose handler is already queued has no effect.
ShutDown(c) ==
    /\ shutdown_' = TRUE
    /\ IF shutdown_
       THEN octx' = c /\ UNCHANGED shards
       ELSE /\ octx' = [c EXCEPT !.dispatch_timer_ = FALSE, !.metrics_timer_ = FALSE]
            /\ shards' = [k \in Shards |->
                            IF shards[k].running_
                            THEN [shards[k] EXCEPT !.running_ = FALSE,
                                                   !.queue = Append(@, [kind |-> "stop"])]
                            ELSE shards[k]]

do_shutdown ==
    /\ RunNext("shutdown")
    /\ ShutDown(Popped)
    /\ UNCHANGED <<phase, handler, dispatchVars, active_shards_, metricsVars, hist>>

\* dispatch_pending_actions(), one step for each turn of its loop.
DispatchBegin ==
    /\ RunNext("dispatch")
    /\ octx' = Popped
    /\ handler' = "dispatch"
    /\ UNCHANGED <<phase, dispatchVars, shutdown_, active_shards_, metricsVars, shards, hist>>

DispatchDueAction ==
    /\ handler = "dispatch"
    /\ current_action_indx_ < Len(Actions)
    /\ distribute_action_to_shards(current_action_indx_ + 1)
    /\ current_action_indx_' = current_action_indx_ + 1
    /\ UNCHANGED <<phase, handler, octx, shutdown_, active_shards_, metricsVars>>

schedule_next_action ==
    /\ handler = "dispatch"
    /\ current_action_indx_ < Len(Actions)
    /\ octx' = [octx EXCEPT !.dispatch_timer_ = TRUE]
    /\ handler' = "none"
    /\ UNCHANGED <<phase, dispatchVars, shutdown_, active_shards_, metricsVars, shards, hist>>

DispatchEnd ==
    /\ handler = "dispatch"
    /\ current_action_indx_ = Len(Actions)
    /\ ShutDown(octx)
    /\ handler' = "none"
    /\ UNCHANGED <<phase, dispatchVars, active_shards_, metricsVars, hist>>

\* do_request_metrics(): the counter is set before the first pull is posted,
\* shards answer while the loop is still posting to the others.
RequestMetricsBegin ==
    /\ RunNext("metrics")
    /\ octx' = Popped
    /\ handler' = "metrics"
    /\ pending_metric_pulls_' = NumShards
    /\ pulling' = 0
    /\ UNCHANGED <<phase, dispatchVars, shutdown_, active_shards_, shards, hist>>

PostPull(pending) ==
    /\ handler = "metrics"
    /\ shards' = [shards EXCEPT ![pulling].queue = Append(@, [kind |-> "metrics"])]
    /\ pulling' = pulling + 1
    /\ handler' = IF pulling' = NumShards THEN "none" ELSE handler
    /\ pending_metric_pulls_' = pending
    /\ UNCHANGED <<phase, octx, dispatchVars, shutdown_, active_shards_, hist>>

\* Fault: the counter is set after the pulls were posted.
schedule_metrics_pull_StoresLate ==
    PostPull(IF pulling + 1 = NumShards THEN NumShards ELSE pending_metric_pulls_)

schedule_metrics_pull == PostPull(pending_metric_pulls_)

\* Reads every shard's history, gives it to the sink, and starts the timer
\* again, after a shutdown too.
on_metrics_round_complete ==
    /\ RunNext("round")
    /\ octx' = [Popped EXCEPT !.metrics_timer_ = TRUE]
    /\ hist' = [hist EXCEPT !.recorded = [k \in Shards |-> @[k] - 1]]
    /\ UNCHANGED <<phase, handler, dispatchVars, shutdown_, active_shards_, metricsVars, shards>>

LastShardExited ==
    /\ RunNext("last_shard")
    /\ octx' = [Popped EXCEPT !.work_guard_ = FALSE, !.dispatch_timer_ = FALSE]
    /\ UNCHANGED <<phase, handler, dispatchVars, shutdown_, active_shards_, metricsVars, shards, hist>>

\* A timer that expires queues its handler.
DispatchTimerExpires ==
    /\ phase = "running" /\ octx.dispatch_timer_
    /\ octx' = [octx EXCEPT !.dispatch_timer_ = FALSE, !.queue = Append(@, "dispatch")]
    /\ UNCHANGED <<phase, handler, dispatchVars, shutdown_, active_shards_, metricsVars, shards, hist>>

MetricsTimerExpires ==
    /\ phase = "running" /\ octx.metrics_timer_
    /\ octx' = [octx EXCEPT !.metrics_timer_ = FALSE, !.queue = Append(@, "metrics")]
    /\ UNCHANGED <<phase, handler, dispatchVars, shutdown_, active_shards_, metricsVars, shards, hist>>

-----------------------------------------------------------------------------
(* The shards' threads *)

ShardTakes(k, kind) ==
    /\ shards[k].thread = "running"
    /\ shards[k].queue # <<>>
    /\ Head(shards[k].queue).kind = kind

ShardRunsAction(k) ==
    /\ ShardTakes(k, "action")
    /\ shards' = [shards EXCEPT ![k].queue = Tail(@)]
    /\ UNCHANGED <<phase, handler, octx, dispatchVars, shutdown_, active_shards_, metricsVars, hist>>

\* record_metrics() pushes a snapshot; the last shard to do so posts the round.
Records(k, last) ==
    /\ ShardTakes(k, "metrics")
    /\ shards' = [shards EXCEPT ![k].queue = Tail(@)]
    /\ hist' = [hist EXCEPT !.recorded[k] = @ + 1]
    /\ pending_metric_pulls_' = pending_metric_pulls_ - 1
    /\ octx' = IF last THEN [octx EXCEPT !.queue = Append(@, "round")] ELSE octx
    /\ UNCHANGED <<phase, handler, dispatchVars, shutdown_, active_shards_, pulling>>

shard_metrics_callback(k) == Records(k, pending_metric_pulls_ - 1 = 0)

ShardRunsStop(k) ==
    /\ ShardTakes(k, "stop")
    /\ shards' = [shards EXCEPT ![k].queue = Tail(@), ![k].stopping = TRUE]
    /\ UNCHANGED <<phase, handler, octx, dispatchVars, shutdown_, active_shards_, metricsVars, hist>>

\* A shard's thread ends; the last one releases the orchestrator.
ThreadEnds(k, last) ==
    /\ shards[k].thread = "running"
    /\ shards[k].stopping \/ k \in MayThrow
    /\ shards' = [shards EXCEPT ![k].thread = "exited"]
    /\ active_shards_' = active_shards_ - 1
    /\ octx' = IF last THEN [octx EXCEPT !.queue = Append(@, "last_shard")] ELSE octx
    /\ UNCHANGED <<phase, handler, dispatchVars, shutdown_, metricsVars, hist>>

\* Fault: the orchestrator is released when one shard is left.
shard_exit_callback_Early(k) == ThreadEnds(k, active_shards_ - 1 = 1)

\* Fault: fetch_sub() returns the old value, which is never 0.
shard_exit_callback_OldValue(k) == ThreadEnds(k, active_shards_ = 0)

shard_exit_callback(k) == ThreadEnds(k, active_shards_ - 1 = 0)

-----------------------------------------------------------------------------
Handlers ==
    \/ do_shutdown
    \/ DispatchBegin \/ DispatchDueAction \/ DispatchEnd
    \/ RequestMetricsBegin \/ schedule_metrics_pull
    \/ on_metrics_round_complete
    \/ LastShardExited

ShardRuns(k) == ShardRunsAction(k) \/ shard_metrics_callback(k) \/ ShardRunsStop(k)

Next ==
    \/ StartShards \/ EnterRun \/ early_stop \/ RunReturns \/ JoinShards
    \/ Handlers
    \/ schedule_next_action
    \/ DispatchTimerExpires \/ MetricsTimerExpires
    \/ \E k \in Shards : ShardRuns(k) \/ shard_exit_callback(k)

\* Threads run what is queued, timers expire, the time of an action comes
\* (so the dispatch loop does not re-arm its timer for ever), and a stopped
\* shard ends (module ShardContract).  Nobody need stop it early and
\* no exception need happen.
Fairness ==
    /\ WF_vars(StartShards) /\ WF_vars(EnterRun)
    /\ WF_vars(RunReturns) /\ WF_vars(JoinShards)
    /\ WF_vars(Handlers) /\ SF_vars(DispatchDueAction)
    /\ WF_vars(DispatchTimerExpires) /\ WF_vars(MetricsTimerExpires)
    /\ \A k \in Shards :
          /\ WF_vars(ShardRuns(k))
          /\ WF_vars(shards[k].stopping /\ shard_exit_callback(k))

Spec == Init /\ [][Next]_vars /\ Fairness

-----------------------------------------------------------------------------
(* Properties *)

\* run() returns only after the thread of every shard has ended ("We only get
\* here after each shard has closed", start()), so the joins cannot block.
ReturnsAfterShards ==
    phase \in {"returned", "joined"} => \A k \in Shards : shards[k].thread = "exited"

\* While the orchestrator may read the shards' metric histories (a round is
\* complete) no shard can write to one, and every history got exactly one
\* snapshot for the round.  Until then the counter of the round is the number
\* of shards that have not recorded theirs, whichever of them answer before
\* the last is asked.
RoundOwnsHistories ==
    /\ "round" \in {octx.queue[i] : i \in DOMAIN octx.queue} =>
          \A k \in Shards :
              /\ hist.recorded[k] = 1
              /\ \A i \in DOMAIN shards[k].queue : shards[k].queue[i].kind # "metrics"
    /\ pending_metric_pulls_ > 0 =>
          pending_metric_pulls_ = Cardinality({k \in Shards : hist.recorded[k] = 0})

\* Every session of a dispatched action gets it from exactly one shard, and no
\* other session gets it, as long as all the shards take work.
EachSessionOnce ==
    ~shutdown_ =>
        \A j \in 1 .. current_action_indx_, g \in 0 .. NumSessions - 1 :
            Cardinality({k \in Shards : \E item \in hist.sent[k] :
                            item.index = j /\ g \in CoveredBy(item, k)})
              = IF Actions[j].first <= g /\ g < Actions[j].last THEN 1 ELSE 0

\* The program ends: after the last action, after early_stop() at any moment,
\* with a metrics round in flight, and with shards dying early.
Terminates == <>(phase = "joined")
===============================================================================
