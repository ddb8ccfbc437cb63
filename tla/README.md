# A TLA+ verification of loadshear

loadshear is a load generator: it reads a script, opens many TCP or UDP sessions
to a server, and sends packets on them at the times the script gives.  This
directory models the parts of it that carry state, checks them with TLC on small
instances, and proves their safety properties with TLAPS for every value of the
parameters (section 5 says which are left to TLC).

Paths below are relative to the repository's root (`src/transports/...`);
`PROJECT.json` lists every definition with the lines it models.

## 1. The system

```
 script file
    |  lexer, parser
    v
 verify_script()  ->  generate_execution_plan()  ->  ExecutionPlan
                                                    | actions      | payloads, counters
 main thread                                        v              v
   CLI --early_stop()-->  Orchestrator           PayloadManager (shared by all shards)
                            | post       ^ metrics, exit callbacks
              +-------------+-------+    |
              v                     v    |
   thread 0: Shard  ...  thread n: Shard-+
                |
             SessionPool
                | post on strand      ^ disconnect callback
          TCPSession / UDPSession  ---+
                | async operations      \  parse_header(), parse_message()
              kernel, server             `-> message handler of the shard -> Wasm guest
 every thread --> Logger (queue, worker thread)
```

| component | state | operations | hard behaviour |
|---|---|---|---|
| `TCPSession` (`src/transports/tcp-session.cpp`) | `live_`, `connecting_`, `flood_`, `draining_`, `writing_`, `writes_queued_`, `responses_`, `next_payload_index_`, the asynchronous operations it has outstanding | `start`, `send`, `flood`, `drain`, `stop`; completions of connect, header read, body read, write; the continuation of `handle_message` | handlers of one strand in any order; an operation that completes just before the socket is closed still runs its handler with success |
| `UDPSession` (`src/transports/udp-session.cpp`) | the same without `connecting_` | the same with one receive instead of two reads | as TCP; `start()` may fail at once |
| `SessionPool` (`src/orchestrator/session-pool.h`) | `sessions_`, `active_sessions_`, `closed_` | create, start/send/flood/drain/stop a range, `shutdown`, `disconnect_callback` | sessions close by themselves while starts of others are queued |
| `Shard` (`src/orchestrator/shard.h`) | `running_`, `io_context`, work guard, force-stop timer | `start`, `submit_work`, `schedule_metrics_pull`, `stop`, thread entry | timer against closing pool; exceptions |
| `Orchestrator` (`src/orchestrator/orchestrator.h`) | action index, `shard_ranges_`, `active_shards_`, `pending_metric_pulls_`, `shutdown_`, two timers | dispatch, distribute, metrics rounds, `early_stop`, shutdown, join | counters shared by threads; shards answering while others are still being asked |
| script verification (`src/interpreter/interpreter.cpp`) | what is known of each session | one check after another | long sequences of actions over overlapping ranges |
| script parser (`src/interpreter/parser.cpp`, `parser.h`) | position in the tokens, the `DSLData` being filled, the action being read | one loop per block and list | optional parts told apart by one token; scripts that end too early |
| execution plan (`src/cli/execution-plan.cpp`) | handler factory, endpoints, packets, identifiers, offsets, payload operations | make the factory, resolve endpoints, read packets, make descriptors and payloads | unsigned differences; order of an unordered map; checks made twice, here and in the verifier |
| Wasm message handler (`src/packets/wasm-message-handler.cpp`) | the guest instance, the header parser, one call at a time | constructor, `parse_header`, `parse_message` | a guest that grows (moves) its memory, answers anything or traps in any of up to four calls per message |
| CLI and terminal UI (`src/cli/main.cpp`, `cli.cpp`) | options, the screen, the orchestrator's thread | `main`, `run`, `execute_script`, acknowledgement, dry run, two orchestrator loops | lifetime of locals used by another thread; ways out of `main()`; UI loop against the end of the run |
| `PayloadManager` (`src/packets/payload-manager.cpp`) | atomic counters per payload | `fill_payload` | several threads in one payload |
| `Logger` (`src/logger/logger.cpp`) | `msg_queue_`, `level_`, `running_`, `notify_`, condition variable | push, pause, resume, shutdown, worker | notification after the unlock |
| lexer, resolver, metrics, diagnostics | - | - | not modelled, see section 7 |

Components interact by posting: the orchestrator posts to a shard's
`io_context`, the pool posts to a session's strand, shards call back into atomic
counters and post to the orchestrator's context.  Shared memory is confined to
atomics, the metric histories (owned alternately by a shard and by the
orchestrator) and the logger's queue.

What makes each component correct:

* session: one writer, one reader, one disconnect report, nothing left unsent
  without somebody to send it, a drain that delivers and closes;
* pool and shard: an exact count, one "closed" report and only at the end, a
  thread that ends after `stop()` whatever its sessions do;
* orchestrator: every session gets every action once, metric histories are not
  read while they are written, the program ends;
* verifier and plan: an accepted script creates, connects and sends in order, and
  its plan has the actions and the payloads the script asks for;
* payloads: every counter value goes out once, in a form that reads back;
* parser: it always answers, and what it accepts it has read as it is written;
* message handler: one callback per message, no access outside the guest's
  memory, every block given back once;
* program: no traffic without an acknowledgement, nothing used after its end, an
  exit without a key press once the UI loop runs, no message lost, and none pushed
  during the terminal UI printed over it.

The hazards behind these, each at its line, are listed in `PROJECT.json`.

## 2. Modules

| module | models | relation to the others |
|---|---|---|
| `SessionContract` | what the pool relies on: a session is idle, live, closed, reports its close once, and carries out a stop | abstract; implemented by both session modules; `Shard` sees sessions through it |
| `TcpSession` | one `TCPSession`, its strand, the kernel | implements `SessionContract` |
| `UdpSession` | one `UDPSession`, its strand, the kernel | implements `SessionContract` |
| `ShardContract` | what the orchestrator relies on: a shard ends only after `stop()` or an exception, ends after `stop()`, reports it once | abstract |
| `Shard` | `Shard` with its `SessionPool` and sessions | implements `ShardContract` |
| `Orchestrator`, `MCOrchestrator` | the orchestrator with all its shard threads | sees shards through `ShardContract` |
| `ScriptVerifier` | `set_script_defaults`, `verify_script`, `insert_mod_range` | |
| `ExecutionPlan`, `MCExecutionPlan` | `generate_execution_plan` with `generate_plan_common`, the payload a dry run shows, and the payloads a session takes for a SEND | EXTENDS `ScriptVerifier`: plans are made of accepted scripts |
| `PayloadManager`, `MCPayloadManager` | `fill_payload`, `write_numeric` | |
| `WasmHandler` | one `WASMMessageHandler` and the guest it runs | the sessions see its results as choices |
| `Parser`, `MCParser` | `Parser` over the tokens of a script | its result is what `ScriptVerifier` starts from |
| `PartialSums` | running totals of loops (bytes of a payload, payloads of a script) | EXTENDed by `PayloadManager` and `ExecutionPlan` |
| `Logger` | the logger and its worker | |
| `Cli` | the program: main thread, orchestrator's thread, shards that log, screen | EXTENDS `Logger`, whose users it supplies; sees the orchestrator through `Orchestrator!Terminates` |
| `TcpSessionProofs`, `UdpSessionProofs`, `ShardProofs`, `OrchestratorProofs`, `ExecutionPlanProofs`, `ParserProofs`, `PacketsProofs`, `CliProofs` | theorems about the module of that name | each EXTENDS its module and `TLAPS`; `PacketsProofs` covers `PayloadManager` and `WasmHandler`, `ExecutionPlanProofs` `ScriptVerifier` too, `CliProofs` the `Logger`; the two sessions and the shard are shown to make only steps of their contract |

`MC...` modules only define values for constants; the other modules are simple
enough to be given theirs in the `.cfg`.

### How state and actions correspond to the code

**Sessions.**  All code of a session runs on its strand, so one handler is one
step.  A function of the session is an operator from one session record to the
next (`do_write(s)`, `try_start_write(s)`, `close_session(s)`, ...), and a
handler composes them in the order of the code.  `sess.ops[kind][status]` counts
the asynchronous operations: `pending` ones are with the kernel, `ok` and `err`
ones have completed and have their handler queued.  The queues are unordered
except for the commands the pool posts, which keep their order.  `close_session`
turns pending operations into failed ones and leaves completed ones alone, as a
closed socket does; an operation begun on a closed socket fails.  Message bytes
are abstracted: a header is not understood (and the next one is read), announces
no body, a body, or too much, and the message handler either gives a response or does not.  `script` restricts the
commands to sequences `verify_script()` accepts.  `loop_payloads`, the REPEAT
setting, is part of the TCP session's record and chosen at the start.  `sess.spinning` stands for a
`do_write()` that calls itself without end; nothing runs on the strand any more.

**Shard.**  `queue` is the shard's `io_context` queue, `sessions[i].posted` the
strand of a session.  A session is live or not; closing by itself
(`SessionCloses`) is possible whenever it is live.  `thread_entry` is split into
the handlers it runs, `RunReturns` and `ThreadThrows`.

**Orchestrator.**  `octx` is the orchestrator's context: its queue, its timers,
its work guard.  Handlers that other threads can interleave with are split at
each point where that shows: `do_request_metrics` posts to one shard per
step, the dispatch loop handles one due action per step.  Time is abstracted to
the order in which timers expire; whether an action is due is a choice.
`fetch_sub` of a counter is one step together with the post its result decides,
because nothing another thread does in between changes either.

**Verifier and plan.**  A script is built action by action; `Verify` applies the
checks of `verify_script()` to the next action in the order of the code, and a
rejected script stops.  Packets are read in any order (the code iterates over an
`unordered_map`); `PathOf` gives each file name the path it resolves to, and
`all_packets` holds paths, so that two names may stand for one file.  Before that the handler factory is made and the host names are
resolved: `Addresses` gives each name its addresses, none for a name that does not
resolve.  TCP keeps all of them once, UDP the last.  The loops over addresses and
packets are recursive functions (`KeepAll`, `StoreAll`), and so is the walk over the
modifications of a SEND (`Modified`), which makes operations and the list of counter
steps together.  After the actions a UDP plan
with a packet above `MaxDatagram` fails.  Every I/O step may fail.  `size_t` and `uint32_t` arithmetic
wraps at `SizeMod` and `U32Mod`; a counter step is narrowed to `uint16_t`, `U16Mod`.
The plan's payloads are one list for all sessions.  `MadeFor(i)` is the part of it
made for action i; `FilledBy(s, i)` is the part session s takes for it, counting from
0 over the SENDs that reach it (`Asked`), as `next_payload_index_` does.  The two
agree for a session that is `InStep`, and `PlanFollowsScript` says so and no more.

**Payloads.**  Each payload operation is one step of the session that fills it;
`counters_` is changed by `fetch_add` only.  `write_numeric` is modelled with
digits of base `Byte`, with the 4 and 8 byte cases separate as in the code.
Sums and powers (`Total` of `PartialSums`, `Power`) are recursive functions, so that
the proofs can reason about them.

**Wasm handler.**  `call` is the call under way.  Both functions go through the
same steps: `CallAlloc`, `CopyIn`, `CallHandleHeader` or `CallHandleBody`,
`CopyOut`, `DeallocOut`, `DeallocIn`, `Finish`.  In each call into the guest the
memory may grow, which changes its base, and the guest may trap (`GuestTraps`),
which goes to the catch clauses (`Caught`).  A guest of kind `any` returns any
32-bit numbers; an `honest` one hands out fresh blocks as `docs/wasm-modules.md`
asks, and `guest.live` is what it has handed out.  `call.mem_view` is the host's
copy of base and size.  Assumed: header and body together are shorter than 2^32
(a comment in the code says so), and a trap arrives as an exception the clauses
catch.  `docs/wasm-modules.md:15` only says that the host "will try (but may fail) to
catch the error": where Wasmtime's C++ `unwrap()` is built to abort, a trap ends the
program instead, and `AnsweredOnce` says nothing of it.

**Parser.**  A step consumes one entry (a header, a setting, a packet, an
endpoint, the head of an action, an option, an offset) or rejects; `at` is the
loop the parser is in.  `peek(k)` looks at the k-th token ahead, where the code
consumes and looks again; an entry that turns out to be bad is rejected as a
whole, and a rejected script has no result.  A text is a number with a rest, which is what `std::stoi`
and the comparisons of the parser tell apart; `MsRests` and `SecondRests` are the
rests that end with `ms` and the others that end with `s`.  The properties compare the result
with a reading of the tokens by position (`WrittenAction`, `WrittenSetting`, ...).

**Logger and program.**  Taking the lock, changing the queue and releasing is one
step, the notification after it another: that is what the code leaves open.  `owes`
holds the threads between the two.  In `Cli` a step of the main thread is one
statement another thread can notice; `cli.pc` names the statement.  The
orchestrator's thread is `StartReturns` or `StartThrows`, then `CloseScreen`;
`ShardLogs` is any message of a shard.  When `start()` returns its shards are joined;
when it throws they run on (`orch.shards`) until `DestroyOrchestrator`, after the
screen is gone.  A text that is logged is one message.  The screen is external: the
pinned FTXUI (v6.1.9) drops what is posted to it before `Loop()` has installed its
sender and after it has returned, so `CloseScreen` ends a loop only while it runs.

## 3. Runs

`tlc -config X.cfg M` in this directory.

### What holds

| run | checks | bounds and why they suffice |
|---|---|---|
| `TcpSession_strand` | `TypeOK`, `SingleWriter`, `SingleReader`, `DisconnectOncePerStart`, `NoLostWakeup`, `DrainDelivers`, `DrainClosesSends`, `ClosedQuiesces`, `ImplementsContract` | two payloads with and without REPEAT (so the loop wraps, and so the payloads run out), counts 1 and 2, two server messages (so a response can meet a write twice), one start.  `DrainClosesSends` is `DrainCloses` for sessions that did not FLOOD (with FLOOD it is false, see below) |
| `UdpSession_strand` | `OneSendOneReceive`, `NoLostWakeup`, `DrainDelivers`, `DrainCloses`, `ImplementsContract` | as above with REPEAT, SEND and FLOOD |
| `Shard_pool` | `ActiveSessionsExact`, `ClosedReportedOnceAndLast`, `ExitLeavesNoSession`, `ImplementsContract` | two sessions, three actions, two starts of a session (so a start can meet a live session), a metrics pull, exceptions |
| `Orchestrator_run` | `ReturnsAfterShards`, `RoundOwnsHistories`, `EachSessionOnce`, `Terminates` | three shards and five sessions (a remainder), three actions, one across a border of shards, one `early_stop()`, two shards that may die |
| `ExecutionPlan_plan` | `AcceptedScriptsAreOrdered`, `PlanFollowsScript`, `NoApplicationError`, `PlanIsRunnable` | scripts of up to five actions over three sessions (CREATE, CONNECT, SEND, DRAIN, DISCONNECT is the longest chain of dependent checks), one settings block per check, two names of one file, both protocols, names with no, one and several addresses, a packet above the datagram limit |
| `PayloadManager_fill` | `SlicesStayValid`, `CounterSequence`, `NumbersReadBack` | two sessions, two fills each, both special lengths and two others, counters that wrap |
| `WasmHandler_calls` | `AnsweredOnce`, `GuestBlocksBalanced`, `HostStaysInMemory` | words of 8, so that every index, length and sum of the two occurs; a memory that may grow once; empty and non-empty headers and bodies; two calls, so that a block left over by the first can meet the second |
| `Cli_program` | `NoMissedNotify`, `HeldWhilePaused`, `OnlyAcknowledgedTraffic`, `ThreadOutlived`, `EverythingPrinted`, `RunEnds` | all combinations of options, every error path, two messages of shards (one before and one during the UI, or two in one batch), an orchestrator that ends before, during and after the UI loop; the main thread runs once through `main()`, so nothing else needs a bound |
| `Parser_scripts` | `ParsedAsWritten`, `ParseAnswers` | three settings blocks and three orchestrator blocks that use every keyword and every optional part, in either order, whole, cut off at every token, or with one token dropped, inserted or replaced by one of 19 |

`CHECK_DEADLOCK FALSE` everywhere: every one of these systems may come to rest (a
session waits for the server, a program ends, a script was rejected).  That
those which must not rest too early do not is what the liveness properties say.

### What does not hold

Each of these runs checks one property the repository states of the program and
ends with a counterexample.

| run | property | what happens |
|---|---|---|
| `Shard_shutdown` | `ShutdownStopsSessions` | `SessionPool::shutdown()` sets `closed_` and then calls `stop_all_sessions()`, whose range function returns because `closed_` is set.  No session is told to stop; live ones keep the shard until the 30 second timer |
| `TcpSession_drain_after_flood` | `DrainCloses` | SEND, FLOOD, no REPEAT: the flood uses up the payloads without decrementing `writes_queued_`.  `drain()` then sees queued writes and does not close, and nobody is writing |
| `ExecutionPlan_descending` | `PayloadsReplaceBytes` | modifications that are not in ascending order are accepted; the gap before the second wraps and becomes an identity operation of almost 2^32 bytes |

Found while modelling, without a run of their own:

* All sessions share one list of payloads, and each counts `next_payload_index_`
  from 0 (`src/transports/tcp-session.cpp:374`, `udp-session.cpp:317`).  A session an
  earlier SEND left out still has that SEND's payloads in front of it: after
  `SEND 0:50 p1 COPIES 1` and `SEND 50:100 p2 COPIES 1`, sessions 50 to 99 send p1.
  `docs/syntax.md:402-418` says that a SEND sends its packet from its sessions.
  `PlanFollowsScript` is therefore stated for sessions that are `InStep`; without
  that premise TLC reports it on `ExecutionPlan_plan`.
* An orchestrator that ends before `screen.Loop()` has started (its `start()` throws
  at once) posts the exit of the loop to a screen that drops it
  (`src/cli/cli.cpp:470`): the UI stays until a key is pressed, over the error or with
  the error held back by the paused logger.  The comment at `:485` says "We will exit when the
  orchestrator is done."  `RunEnds` leaves this start out; without its premise TLC
  reports it on `Cli_program`.
* `pause()` does not wait for the worker: a batch it has swapped out before is printed
  under the UI (`src/logger/logger.h:104`).  `HeldWhilePaused` speaks of what is
  pushed later.
* SEND and FLOOD after DISCONNECT are accepted, as DISCONNECT does not clear
  `session_active` (`src/interpreter/interpreter.cpp:1068`).
* FLOOD with REPEAT and no payload at all (SEND is optional): `do_write()`
  restarts at payload 0, which does not exist, for ever
  (`src/transports/tcp-session.cpp:380`), and no later handler of the session, its
  DISCONNECT included, is run.  `sess.spinning` is this state; with
  `NumPayloads = 0` TLC reaches it.
* A UDP plan keeps the last address that was resolved although the comment says
  "Store the first valid result" (`src/cli/execution-plan.cpp:663`).
* `set_level(WARN)` for `--quiet` may overtake the worker, which then does not
  print what was logged before it, the disclaimer included
  (`src/cli/cli.cpp:193`); `level_` is not atomic.  `EverythingPrinted` therefore
  asks only for warnings with `--quiet`.
* An exception out of `screen.Loop()` (`src/cli/cli.cpp:476`) would destroy a
  joinable `std::thread`.  That the loop throws is not modelled.
* When `alloc` fails for a header the handler calls `dealloc(0, n)`
  (`src/packets/wasm-message-handler.cpp:154`); for a message it does not.
* An offset in seconds is multiplied in 32 bits (`src/interpreter/parser.cpp:788`):
  4294968 s is 704 ms.  Trailing text after a number is ignored, and of a time only
  the ending is tested: `5xs` is five seconds.
* `OFFSET`, `SETTINGS` and `ORCHESTRATOR` are told by their text, whatever kind of
  token they are (`src/interpreter/parser.cpp:31`, `:602`).
* `header_size` and `body_max` are uninitialised when the script does not give
  them (`src/interpreter/script-structs.h:153`); `Unset` in module `Parser`.
* The example at `docs/syntax.md:364` opens a block without a name, which the
  parser refuses.
* CONNECT after DRAIN is accepted (`src/interpreter/interpreter.cpp:1010`; the
  comment at :417 suggests otherwise) and may run `start()` on a session that is
  still live: `AcceptedScriptsAreOrdered` allows it for a drained session.  The
  sessions' properties are therefore stated for the first start;
  `Shard_pool` allows two and counts the overlaps in `ActiveSessionsExact`.
* `drain()` while a flooding session is still connecting closes it before it has
  sent anything (`src/transports/tcp-session.cpp:122`).
* A shard that ended through an exception is still counted in each metrics round
  (`src/orchestrator/orchestrator.h:283`), so rounds stop completing.
* An action with an empty range is accepted before CREATE, and
  `distribute_action_to_shards` then indexes an empty `shard_ranges_`
  (`src/orchestrator/orchestrator.h:231`).  Module `Orchestrator` assumes that
  CREATE is first.
* Two identifiers for one packet file, under one name or under two that resolve to
  one path, make the plan fail with an "error with the application code"
  (`src/cli/execution-plan.cpp:105`), hence the premise of `NoApplicationError`.
* `insert_mod_range` compares lengths with start indexes: it accepts some
  overlapping ranges and refuses some disjoint ones.
* A modification that ends at the packet's last byte is refused
  (`end_from_length() >= packet_size`).
* A packet whose file was read before is looked up by file name in a map that is
  keyed by identifier (`src/cli/execution-plan.cpp:105`).  When that name happens to
  be the identifier of another packet (`p` and `q` are both file `short`, and `short`
  is an identifier for file `long`), the second identifier gets the other packet.
  This came out of the proof of `PlanFollowsScript`, which now excludes such names
  (`Confusable`); TLC confirms it without that premise.
* `counter_step` is narrowed from 32 to 16 bits: a step of 65536 becomes 0
  (`AddStep`).
* Offsets are summed in 64 bits and stored in 32: they wrap after 49.7 days, and
  later actions are then scheduled before earlier ones.  `PlanFollowsScript` says
  that actions stay in order as long as the sum is below `U32Mod`.
* Every copy of a SEND has its own counter, and several COUNTERs are allowed;
  `docs/syntax.md:517-519` reads otherwise.
* DISCONNECT on sessions that were never connected is accepted (comment at
  `src/interpreter/interpreter.cpp:418`).

### Fairness

* `TcpSession`: weak fairness of the command at the head of the strand, of each
  completion handler and of the continuation: an `io_context` with a running
  thread runs the handlers that are ready.  `NetSpec` adds that the kernel ends
  every connect and every write (with success or an error).  The server need not
  send anything: reads may stay pending.  It sends finitely much, though: at most
  `MaxMsgs` messages, and the drain liveness (`DrainClosesSends`, `DrainCloses` of
  `UdpSession`) needs that, since responses are written before payloads.
* `UdpSession`: the same, `MaxMsgs` included; the kernel takes every datagram.
* `Shard`: weak fairness of the thread's handlers, of session commands, of the
  30 seconds passing and of `run()` returning.  No session need close.
* `Orchestrator`: weak fairness of the threads and timers; strong fairness of
  `DispatchDueAction`, since the code re-arms a timer until the time of the
  action has come, and it does come; a stopped shard ends, which is what
  `ShardContract` promises and `Shard_pool` checks.  Neither exceptions nor
  `early_stop()` are fair.
* `Cli`: weak fairness of the main thread, of the logger's worker, of
  notifications that are due, and of the orchestrator's thread, which ends once
  started (`Orchestrator_run`).  The user need not do anything; a program that
  waits for an acknowledgement may wait for ever.  `RunEnds` starts from an
  orchestrator at work while the UI loop runs or without a UI, or from a loop that
  was told to end.
* `Parser`: weak fairness of the parser's steps: it is a sequential program that
  waits for nothing.

### Scaled-down widths

TLC's integers have 32 bits.  `SizeMod`, `U32Mod`, `U16Mod`, `U64Mod` and `Byte` stand for
2^64, 2^32, 2^16, 2^64 and 2^8, `Word` for 2^32, `IntMax` for 2^31 - 1 and `MaxPort` for
65535, and are given smaller values that keep their order;
assumptions in the modules say which relations the models need (a packet is
shorter than `U32Mod`, so packet files of 4 GiB and more are left out).

## 4. Mutants

For every property of a passing run the modules hold a faulty variant of a
definition, named after it (`do_write_LoopsWhileDraining`, `fetch_add_Racy`,
`CreateRanges_NoRemainder`, ...).  No specification uses them; put in the place
of the definition they make TLC report the property, which shows that the
property depends on the code it is about.

## 5. Proofs

`tlapm M.tla` checks module `M`; each takes a minute or two, `ExecutionPlanProofs`
and `ParserProofs` longer.  The theorems are
about `Spec` of the module they extend (`HandlerSpec` of `WasmHandler`), for every value of its constants that its
assumptions allow: any number of sessions, shards, payloads, actions, messages,
calls and starts, any word size, any script.

| module | theorem | property, and what it says |
|---|---|---|
| `TcpSessionProofs` | `TypeCorrect` | `TypeOK`: in particular `writes_queued_`, `responses_` and the operation counts never fall below zero |
| | `OneWriter`, `OneReader` | `SingleWriter`, `SingleReader`: at most one write and one read at a time |
| | `OneDisconnect` | `DisconnectOncePerStart` |
| | `NothingForgotten` | `NoLostWakeup`: what is queued has somebody who will send it |
| | `DrainsAfterSending` | `DrainDelivers`: a drain closes only when everything was sent |
| | `KeepsContract` | every step is a step of `SessionContract` or a stutter |
| `UdpSessionProofs` | `TypeCorrect`, `OneOfEach`, `NothingForgotten`, `DrainsAfterSending`, `KeepsContract` | `TypeOK`, `OneSendOneReceive`, `NoLostWakeup`, `DrainDelivers`, the steps of `SessionContract` |
| `ShardProofs` | `TypeCorrect` | `TypeOK` |
| | `CounterExact` | `ActiveSessionsExact`: `active_sessions_` is the number of live sessions and of starts on their way |
| | `ReportedOnceAndLast` | `ClosedReportedOnceAndLast` |
| | `NoSessionLeft` | `ExitLeavesNoSession` |
| | `KeepsContract` | every step is a step of `ShardContract` or a stutter |
| `OrchestratorProofs` | `TypeCorrect` | `TypeOK` |
| | `JoinsDoNotBlock` | `ReturnsAfterShards` |
| | `HistoriesOwned` | `RoundOwnsHistories`: no shard touches a history the orchestrator reads |
| | `ActionsReachEachOnce` | `EachSessionOnce`: the ranges the shards get partition the range of the action |
| `ExecutionPlanProofs` | `TypeCorrect` | `TypeOK`: in particular every identifier and payload points at a packet that was read, and no operation is longer than a `uint32_t` |
| | `ScriptsOrdered` | `AcceptedScriptsAreOrdered` |
| | `NoErrorOfTheApplication` | `NoApplicationError`: a plan of an accepted script without two identifiers for one file never meets the errors that blame the application |
| | `PlansRun` | `PlanIsRunnable` |
| | `FollowsScript` | `PlanFollowsScript`: actions in order, as many payloads and counter lists as are sent, in the order of the SENDs, each of its own packet, and, for ascending modifications, replacing exactly the bytes the script names; the payloads made for a SEND are those a session takes for it, if every earlier SEND reached the session and no FLOOD did |
| `ParserProofs` | `TypeCorrect` | `TypeOK`: in particular every number of a parsed script is a non-negative `int` |
| | `ReadAsWritten` | `ParsedAsWritten`: any list of tokens that is accepted, however long and however edited, says what was read |
| `PacketsProofs` | `TypeCorrect` | `TypeOK` of `PayloadManager` |
| | `NeverReallocates` | `SlicesStayValid`: what is reserved suffices, so no slice dangles |
| | `CountersInOrder` | `CounterSequence`: whatever the interleaving, the values of a counter go out one step apart, none twice and none left out |
| | `BytesReadBack` | `NumbersReadBack`: the bytes are the number's digits, in either order, at every length up to 8 |
| | `HandlerTypeCorrect` | `HandlerTypeOK` of `WasmHandler` |
| | `EveryMessageAnswered` | `AnsweredOnce` |
| | `BlocksGivenBack` | `GuestBlocksBalanced` |
| | `CopiesStayInside` | `HostStaysInMemory` (an action property) |
| `CliProofs` | `TypeCorrect` | `TypeOK` |
| | `NotifiesArrive`, `PauseHolds` | `NoMissedNotify`, `HeldWhilePaused` |
| | `ConsentFirst` | `OnlyAcknowledgedTraffic` |
| | `ThreadsJoined` | `ThreadOutlived`: the screen outlives the orchestrator's thread, the logger the shards, also those a throwing `start()` left running |
| | `NothingUnprinted` | `EverythingPrinted` |

Each module also proves `Invariance`, `Spec => []IInv`, from which the others
follow (`HandlerInvariance` and `HandlerInv` for `WasmHandler`); `ExecutionPlanProofs` adds `PlanInvariance`, `Spec => []PlanInv`, and its
`TypeCorrect` a further invariant on top of `IInv`.

### Assumptions

Only the named `ASSUME`s of the modules, which give the constants their types and
state what the code before the component guarantees; TLC evaluates them on the
runs.  Those that say more than a type:

* `Orchestrator`: at least as many sessions as shards, and the first action is the
  only CREATE (`verify_script()` sees to both; for the empty range see section 3);
* `ScriptVerifier`, `ExecutionPlan`: a CREATE has the range of its count, as the
  parser fills it in, and modifications are a sequence; a packet is shorter than
  `U32Mod`, `U32Mod` divides `SizeMod`, and no width is zero; names that resolve to
  one path have one size (`PathAssumption`);
* `PayloadManager`: a payload has one step per COUNTER and dynamic fields of at
  most 8 bytes (the first is part of `PlanFollowsScript`, the second a check of
  `verify_script()`); `U64Mod` is 8 bytes;
* `WasmHandler`: header and body together fit in a word;
* `Parser`: a closing brace has the text `}` and a text has at most one leading
  number, so that `OFFSET`, which is told by its text alone, does not also close a
  block (the lexer makes braces in one place, `src/interpreter/lexer.cpp:58`);
* `UdpSession`: FLOOD with REPEAT has a payload (section 3 says what happens
  otherwise).

`KeepsContract` of `TcpSession` is proved for `MaxStarts <= 1`: a session started
again while live breaks the contract (section 3, CONNECT after DRAIN).  The
session properties themselves speak of the first life.

### Inductive invariants

No property is inductive alone; `IInv` adds, in every module, what the step that
could break it relies on.  TLC checked each `IInv` on the bounds of a run first.

* **Sessions.**  `Core`: before the first start nothing is outstanding; in the
  first life there is at most one write token, covered by `writing_`, one read
  token (connect, header, body or continuation), and one report owed while live;
  without a flood, payloads written and queued add up to those requested.
  `Wakeup` is `NoLostWakeup` on a record.  `Peaceful`: as long as nothing failed and
  nobody stopped the session, it closes only when drained and through with what
  was requested.  `Requests` gives what will have been requested after each queued
  command, `Lives` (TCP) the life each belongs to; `Remembered` (TCP), `Queued` and
  `Drains` (UDP) tie the queued commands to what the script may still contain: no
  send comes after the drain.  `Core`, `Wakeup` and `Peaceful` are predicates on a
  record, so every function of the session has a lemma "a good record goes to a
  good record" and a handler composes them.
* **Shard.**  `Counted` says what `active_sessions_` counts as a cardinality of
  live sessions and of starts in the strands, `QueueOk` what the queued handlers
  may be, `Phases` which of guard, timer, flag and thread go together, `Reported`
  that the close is reported at the transition to zero.
* **Orchestrator.**  `Release`: the count of shards is exact and the orchestrator
  is let go at zero.  `OneRound`: timer, queued handler, outstanding
  pulls and queued completion of a metrics round exclude each other.  `Answers`: the
  pull counter is the number of shards that have not answered, and each has at most
  one pull queued, which belongs to the round under way.  `Dispatched`: without a
  shutdown every shard was sent its part of every action so far.  `EachSessionOnce` needs a closed form of the recursive
  `RangeStart` (`k * q + min(k, r)`).
* **Verifier and plan.**  `Remembered`: what `verify_script()` keeps of each session
  is what the accepted actions did to it.  `Packets`: the files read and the
  identifiers that point at them.  `Payloads`, `Connectable`: the parts of the plan
  built so far can be run.  `Shapes`, `Script`: types, and a script that no longer
  changes.  For `FollowsScript`, `PlanInv` adds `Sendable` (a SEND of an accepted
  script names a known packet and modifies only bytes inside it), `ReadRight`
  (identifiers stand for the paths of their names), `Counted` (actions are planned once
  all packets were read, and all of them in the end), `Described` (the descriptors made
  so far have the running sums of the offsets) and `Filled` (each SEND planned so far
  has its copies after those of the SENDs before it, made by `Modified`).  That `Modified` covers the packet byte for byte is an invariant of that
  loop over the modifications, `Covers`: the operations so far reach to the
  end of the last modification, their dynamic ones lie where the modifications
  say, and the counter steps number the counters among them.
* **Parser.**  `Reading`: after c tokens the result is what the first c tokens say,
  read by position.  The settings, endpoints and packets are those of the first c
  tokens (`SettingsRead`), and the next token is inside a list just when the loop of
  that list reads it (`ListsKnown`).  For the actions it depends on the loop: outside
  the block every keyword so far has its action and every line has ended (`AllRead`);
  between two actions the last line may still be open, and then the action is what
  the line says as far as it was read (`LineRead`); within an action the lines
  before it have ended and the local `Action` is the open line without its offset
  (`HeadRead`).  The invariant has to carry the open line because a line ends only at
  the keyword or brace after it, which the parser looks at without consuming; it is
  why the last token but one must not read OFFSET when the default is taken.
* **Payloads.**  `Reserved`: the temporary bytes used are the sum of the lengths of the
  operations done, and the whole payload's fit the capacity.  `Counting`: a counter is its step times the values sent, modulo
  its width.  `Written`: each slice is the result of `write_numeric`, whose digits
  read back.
* **Wasm handler.**  `Answers`: the callback of the message under way is owed exactly
  until it is made.  `Blocks`: an honest guest's blocks are those the call has still
  to give back, unless there was a trap.  `Indices`: from which step on the block of
  the input is a real one.
* **Program.**  `LoggerInv`: the two queues are the end of the stream of pushed
  messages, what was printed is its beginning without what the level suppressed,
  and what was pushed during a pause is still queued.  `Orderly`, `Consent`, `Links`: where the main thread can be in
  which state of the other threads, and how long shards may be left.

The library's induction theorems take an operator, which the provers cannot
instantiate.  Where induction over numbers is needed (`RangeStart`, sums of
lengths, digits, the loops of the plan, the places of keywords in order) it is done over a set:
`NatSetInduction`, from the least-element theorem of the well-founded
order of the naturals, says that a set with 0 and closed under successor holds all
of them.  The recursive functions are shown to satisfy their equations in the same
way.

### Only model-checked

* Liveness under fairness, which TLAPS does not support here: `DrainClosesSends`,
  `DrainCloses`, `ClosedQuiesces`, `Terminates`, `RunEnds`, `ParseAnswers`, and the
  fairness of the contracts in `ImplementsContract` (`KeepsContract` is its safety
  half).

Every invariant the passing runs check is a theorem.

## 6. Plan

1. Done: `TcpSession`, `UdpSession`, `Shard`, `Orchestrator`, the two contracts,
   `ScriptVerifier`, `ExecutionPlan`, `PayloadManager`, `Parser`, `WasmHandler`,
   `Logger` and `Cli`, and the proofs of section 5.
2. Models: an empty range before CREATE in `Orchestrator`, and a metrics round that
   a dead shard never answers, as a property of the display.
3. Proofs: that the lexer's tokens satisfy the assumption of `Parser`, from a model
   of the lexer; liveness, should the prover come to support it.

## 7. Not modelled

* **Lexer**: a scan over characters; `Parser` starts from tokens of the kinds it
  produces.
* **Resolver**: paths, environment variables and reading of files.  The verifier
  and the plan see its outcome; a packet file is assumed to keep its size between
  the two.
* **Metrics**: sums and differences of counters and a logarithm into 16 buckets,
  arithmetic on data one thread owns at a time.  That a round owns the histories it
  reads is part of `Orchestrator`.
* **Terminal UI**: drawing, histograms, the metric sink and the arrow keys, none of
  which changes what the program does.  Its loop, its end and its use of the
  logger are part of `Cli`; `early_stop()` is an action of `Orchestrator`.
* **Action descriptor**: plain assignments; what it carries is part of
  `ExecutionPlan`, `Orchestrator` and `Shard`.
* **Diagnostics and error texts**: formatting.
