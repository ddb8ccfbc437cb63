---------------------------------- MODULE Cli ----------------------------------
(***************************************************************************)
(* The program from main() to its exit (cli/main.cpp, cli/cli.cpp): the    *)
(* main thread, the orchestrator's thread, the terminal UI and the logger. *)
(*                                                                         *)
(* A step of the main thread is one statement that another thread can      *)
(* notice.  The script, the plan and the orchestrator are seen from        *)
(* outside: they succeed or fail (modules ScriptVerifier, ExecutionPlan),  *)
(* and an orchestrator that was started ends (Orchestrator!Terminates).    *)
(* A text that is logged is one message.                                   *)
(***************************************************************************)
EXTENDS Logger

CONSTANTS MaxLogged     \* bound: messages logged by shards

ASSUME CliAssumption ==
    /\ Threads = {"main", "orchestrator", "shards"}
    /\ MaxLogged \in Nat

VARIABLES
    ops,        \* what parse_cli() makes of the command line
    cli,        \* the main thread: its place, the answer typed, the exit status
    orch,       \* the orchestrator: its state, whether its shards run, what they have logged
    screen      \* the terminal UI: its state, and whether its loop was told to end

cliVars == <<ops, cli, orch, screen>>
vars == <<loggerVars, cliVars>>

Place == {"start", "parse_cli", "banner", "construct", "script", "plan", "choose", "dry_run",
          "ask", "getline", "acknowledged", "build", "solo", "solo_runs", "spawn", "pause",
          "loop", "looping", "resume", "join", "destroy", "shutdown", "return", "joining", "exited"}

TypeOK ==
    /\ ops \in [parse : {"ok", "help", "error"}, dry_run : BOOLEAN,
                acknowledged_responsibility : BOOLEAN, quiet : BOOLEAN]
    /\ cli \in [pc : Place, understood : BOOLEAN, status : {0, 1}]
    /\ orch \in [state : {"none", "running", "leaving", "ended", "threw"}, shards : BOOLEAN,
                 logged : 0 .. MaxLogged]
    /\ screen \in [state : {"none", "built", "looping", "left", "gone"}, exit : BOOLEAN]

Init ==
    /\ LoggerInit
    /\ ops \in [parse : {"ok", "help", "error"}, dry_run : BOOLEAN,
                acknowledged_responsibility : BOOLEAN, quiet : BOOLEAN]
    /\ cli = [pc |-> "start", understood |-> FALSE, status |-> 0]
    /\ orch = [state |-> "none", shards |-> FALSE, logged |-> 0]
    /\ screen = [state |-> "none", exit |-> FALSE]

-----------------------------------------------------------------------------
(* The main thread. *)

\* The thread is not in the middle of a call of the logger.
At(pc) == cli.pc = pc /\ "main" \notin owes

Goto(pc) == cli' = [cli EXCEPT !.pc = pc]

\* Log a message and go on.
Say(level, pc) == push_message("main", level) /\ Goto(pc)

SayAndQuit(level, status) ==
    /\ push_message("main", level)
    /\ cli' = [cli EXCEPT !.pc = "shutdown", !.status = status]

Silently(pc) == Goto(pc) /\ UNCHANGED loggerVars

main == At("start") /\ init /\ Goto("parse_cli") /\ UNCHANGED <<ops, orch, screen>>

\* --help, --version and errors return from main() without Logger::shutdown().
parse_cli ==
    /\ At("parse_cli")
    /\ \/ ops.parse = "ok" /\ Silently("banner")
       \/ ops.parse = "help" /\ Say(INFO, "return")
       \/ /\ ops.parse = "error"
          /\ push_message("main", ERROR)
          /\ cli' = [cli EXCEPT !.pc = "return", !.status = 1]
    /\ UNCHANGED <<ops, orch, screen>>

Banner == At("banner") /\ Say(INFO, "construct") /\ UNCHANGED <<ops, orch, screen>>

\* The arena may be too large to allocate.
ConstructCLI ==
    /\ At("construct")
    /\ Silently("script") \/ SayAndQuit(ERROR, 1)
    /\ UNCHANGED <<ops, orch, screen>>

\* CLI::run(): the script is parsed and verified, or is not.
run ==
    /\ At("script")
    /\ Silently("plan") \/ SayAndQuit(ERROR, 1)
    /\ UNCHANGED <<ops, orch, screen>>

\* The plan is made, perhaps with a warning about a host, or is not.
execute_script ==
    /\ At("plan")
    /\ Silently("choose") \/ Say(WARN, "choose") \/ SayAndQuit(ERROR, 1)
    /\ UNCHANGED <<ops, orch, screen>>

\* Dry run, disclaimer, or straight on with --acknowledge.
Choose ==
    /\ At("choose")
    /\ \/ ops.dry_run /\ Silently("dry_run")
       \/ ~ops.dry_run /\ ~ops.acknowledged_responsibility /\ Silently("ask")
       \/ ~ops.dry_run /\ ops.acknowledged_responsibility /\ Silently("acknowledged")
    /\ UNCHANGED <<ops, orch, screen>>

dry_run == At("dry_run") /\ SayAndQuit(INFO, 0) /\ UNCHANGED <<ops, orch, screen>>

Ask == At("ask") /\ Say(INFO, "getline") /\ UNCHANGED <<ops, orch, screen>>

\* Fault: any answer counts as an acknowledgement.
request_acknowledgement_AnyAnswer(understands) ==
    /\ At("getline")
    /\ cli' = [cli EXCEPT !.pc = "acknowledged", !.understood = understands]
    /\ UNCHANGED <<loggerVars, ops, orch, screen>>

request_acknowledgement(understands) ==
    /\ At("getline")
    /\ \/ /\ understands
          /\ cli' = [cli EXCEPT !.pc = "acknowledged", !.understood = TRUE]
          /\ UNCHANGED loggerVars
       \/ ~understands /\ SayAndQuit(INFO, 0)
    /\ UNCHANGED <<ops, orch, screen>>

\* With --quiet printing is cut down and there is no UI.
Acknowledged ==
    /\ At("acknowledged")
    /\ \/ ops.quiet /\ set_level(WARN) /\ UNCHANGED screen
       \/ ~ops.quiet /\ screen' = [screen EXCEPT !.state = "built"] /\ UNCHANGED loggerVars
    /\ Goto("build")
    /\ UNCHANGED <<ops, orch>>

\* The constructor of the Orchestrator may throw.
BuildOrchestrator ==
    /\ At("build")
    /\ Say(INFO, IF ops.quiet THEN "solo" ELSE "spawn") \/ SayAndQuit(ERROR, 1)
    /\ UNCHANGED <<ops, orch, screen>>

-----------------------------------------------------------------------------
(* start_orchestrator_loop_uninteractive(): start() on the main thread. *)

SoloStarts ==
    /\ At("solo")
    /\ orch' = [orch EXCEPT !.state = "running", !.shards = TRUE]
    /\ Silently("solo_runs")
    /\ UNCHANGED <<ops, screen>>

SoloReturns ==
    /\ At("solo_runs")
    /\ \/ orch.state = "ended" /\ Silently("shutdown")
       \/ orch.state = "threw" /\ SayAndQuit(ERROR, 1)
    /\ UNCHANGED <<ops, orch, screen>>

-----------------------------------------------------------------------------
(* start_orchestrator_loop(): a thread for the orchestrator, the UI here. *)

SpawnThread ==
    /\ At("spawn")
    /\ orch' = [orch EXCEPT !.state = "running", !.shards = TRUE]
    /\ Silently("pause")
    /\ UNCHANGED <<ops, screen>>

PauseLogger == At("pause") /\ pause /\ Goto("loop") /\ UNCHANGED <<ops, orch, screen>>

\* screen.Loop() makes the queue of the screen (FTXUI v6.1.9): from here on,
\* and only while the loop runs, what is posted arrives.
EnterLoop ==
    /\ At("loop")
    /\ screen' = [screen EXCEPT !.state = "looping"]
    /\ Silently("looping")
    /\ UNCHANGED <<ops, orch>>

\* 'q' or Escape: early_stop(), which makes the orchestrator end earlier, and
\* the exit of the loop.
QuitPressed ==
    /\ At("looping") /\ ~screen.exit
    /\ screen' = [screen EXCEPT !.exit = TRUE]
    /\ UNCHANGED <<loggerVars, ops, cli, orch>>

LoopReturns ==
    /\ At("looping") /\ screen.exit
    /\ screen' = [screen EXCEPT !.state = "left"]
    /\ Silently("resume")
    /\ UNCHANGED <<ops, orch>>

ResumeLogger == At("resume") /\ resume("main") /\ Goto("join") /\ UNCHANGED <<ops, orch, screen>>

\* Fault: the thread is left to itself.
JoinThread_Detaches ==
    /\ At("join")
    /\ screen' = [screen EXCEPT !.state = "gone"]
    /\ Silently("destroy")
    /\ UNCHANGED <<ops, orch>>

\* The function returns and its locals are destroyed, the screen among them.
JoinThread ==
    /\ At("join")
    /\ orch.state = "ended"
    /\ screen' = [screen EXCEPT !.state = "gone"]
    /\ Silently("destroy")
    /\ UNCHANGED <<ops, orch>>

\* The Orchestrator is the local that was declared first and is destroyed
\* last: ~Shard() stops and joins the shards that are still there.
DestroyOrchestrator ==
    /\ At("destroy") /\ "shards" \notin owes
    /\ orch' = [orch EXCEPT !.shards = FALSE]
    /\ Silently("shutdown")
    /\ UNCHANGED <<ops, screen>>

-----------------------------------------------------------------------------
(* The end of main(), and what runs after it. *)

ShutdownLogger ==
    /\ At("shutdown")
    /\ shutdown("main")
    /\ Goto("return")
    /\ UNCHANGED <<ops, orch, screen>>

\* ~Logger() of the static instance, then ~jthread().
DestroyLogger ==
    /\ At("return")
    /\ IF running_ THEN shutdown("main") ELSE UNCHANGED loggerVars
    /\ Goto("joining")
    /\ UNCHANGED <<ops, orch, screen>>

JoinWorker ==
    /\ At("joining") /\ worker = "exited"
    /\ Silently("exited")
    /\ UNCHANGED <<ops, orch, screen>>

-----------------------------------------------------------------------------
(* The orchestrator and its shards. *)

OwnThread == cli.pc # "solo_runs"

ShardLogs ==
    /\ orch.shards /\ "shards" \notin owes
    /\ orch.logged < MaxLogged
    /\ push_message("shards", WARN)
    /\ orch' = [orch EXCEPT !.logged = @ + 1]
    /\ UNCHANGED <<ops, cli, screen>>

\* start() has joined its shards and returns.
StartReturns ==
    /\ orch.state = "running" /\ "shards" \notin owes
    /\ orch' = [orch EXCEPT !.state = IF OwnThread THEN "leaving" ELSE "ended", !.shards = FALSE]
    /\ UNCHANGED <<loggerVars, ops, cli, screen>>

\* start() throws.  On a thread of its own the exception is caught and logged
\* there while the shards run on; on the main thread the Orchestrator is
\* destroyed, and its shards joined, on the way to the catch clause.
StartThrows ==
    /\ orch.state = "running"
    /\ \/ /\ OwnThread
          /\ orch' = [orch EXCEPT !.state = "leaving"]
          /\ push_message("orchestrator", ERROR)
       \/ /\ ~OwnThread /\ "shards" \notin owes
          /\ orch' = [orch EXCEPT !.state = "threw", !.shards = FALSE]
          /\ UNCHANGED loggerVars
    /\ UNCHANGED <<ops, cli, screen>>

\* Fault: only an event is posted, the loop is not ended.
CloseScreen_EventOnly ==
    /\ orch.state = "leaving" /\ "orchestrator" \notin owes
    /\ orch' = [orch EXCEPT !.state = "ended"]
    /\ UNCHANGED <<loggerVars, ops, cli, screen>>

\* The end of the thread: the exit of the loop is posted.  A screen whose
\* loop has not started, or has ended, drops what is posted to it.
CloseScreen ==
    /\ orch.state = "leaving" /\ "orchestrator" \notin owes
    /\ screen' = [screen EXCEPT !.exit = @ \/ screen.state = "looping"]
    /\ orch' = [orch EXCEPT !.state = "ended"]
    /\ UNCHANGED <<loggerVars, ops, cli>>

-----------------------------------------------------------------------------
Main ==
    \/ main \/ parse_cli \/ Banner \/ ConstructCLI \/ run \/ execute_script \/ Choose
    \/ dry_run \/ Ask \/ Acknowledged \/ BuildOrchestrator
    \/ SoloStarts \/ SoloReturns
    \/ SpawnThread \/ PauseLogger \/ EnterLoop \/ LoopReturns \/ ResumeLogger \/ JoinThread
    \/ DestroyOrchestrator \/ ShutdownLogger \/ DestroyLogger \/ JoinWorker

User == QuitPressed \/ \E understands \in BOOLEAN : request_acknowledgement(understands)

LoggerStep ==
    /\ (\E t \in Threads : notify_one(t)) \/ WorkerSteps \/ SpuriousWakeup
    /\ UNCHANGED cliVars

Next == Main \/ User \/ ShardLogs \/ StartReturns \/ StartThrows \/ CloseScreen \/ LoggerStep

\* Every thread goes on while it can, and an orchestrator that was started
\* ends; the user need not do anything.
Spec ==
    /\ Init /\ [][Next]_vars
    /\ WF_vars(Main) /\ WF_vars(StartReturns \/ StartThrows) /\ WF_vars(CloseScreen)
    /\ \A t \in Threads : WF_vars(notify_one(t) /\ UNCHANGED cliVars)
    /\ WF_vars(WorkerSteps /\ UNCHANGED cliVars)

-----------------------------------------------------------------------------
(* Properties. *)

\* No orchestrator is started in a dry run, after a bad script, or before the
\* user has taken responsibility, typed or with --acknowledge ("Ensure the
\* user knows what will happen before running").
OnlyAcknowledgedTraffic ==
    orch.state # "none" =>
        /\ ops.parse = "ok" /\ ~ops.dry_run
        /\ ops.acknowledged_responsibility \/ cli.understood

\* The orchestrator's thread uses the screen until its end, also when the
\* user quits first: the screen outlives it.  The Orchestrator the shards
\* report to, and the logger, outlive the shards, also those that start()
\* left running when it threw.
ThreadOutlived ==
    /\ screen.state = "gone" => orch.state = "ended" /\ "orchestrator" \notin owes
    /\ cli.pc \in {"shutdown", "return", "joining", "exited"} =>
          /\ orch.state \in {"none", "ended", "threw"} /\ ~orch.shards
          /\ owes \subseteq {"main"}

\* By the time the program exits everything that was logged on any thread and
\* on any of its paths (an early return, the UI, an exception) is printed,
\* once and in order; with --quiet, what is at least a warning.
EverythingPrinted ==
    cli.pc = "exited" =>
        /\ PrintedInOrder
        /\ Loud(hist.pushed) \subseteq ToSet(hist.printed)
        /\ ~ops.quiet => hist.printed = hist.pushed

\* A run whose orchestrator is still at work when the UI loop has started
\* (or that has no UI) exits without anybody pressing a key, and so does one
\* whose loop was told to end: the exit posted by the orchestrator's thread
\* arrives, its thread and the shards are joined, and the worker of the logger
\* ends although it may be asleep or printing.  An orchestrator that is done
\* before the loop has started is left out: its exit is dropped, and the UI
\* stays until a key is pressed.
RunEnds ==
    (\/ orch.state \in {"running", "leaving"} /\ cli.pc \in {"solo_runs", "looping"}
     \/ screen.exit) ~> (cli.pc = "exited")
===============================================================================
