------------------------------- MODULE CliProofs -------------------------------
(***************************************************************************)
(* Proofs about module Cli and the Logger below it, for any number of      *)
(* messages.                                                               *)
(*                                                                         *)
(* The invariant has two halves.  LoggerInv speaks of the logger alone:    *)
(* where in the stream of pushed messages the worker is, and who wakes it. *)
(* ProgramInv says at which place of the main thread what can still run,   *)
(* so that nobody pushes to a logger whose worker has left.                *)
(***************************************************************************)
EXTENDS Cli, TLAPS

Message == [number : Nat, level : {INFO, WARN, ERROR}]

LoggerType ==
    /\ level_ \in {INFO, WARN}
    /\ running_ \in BOOLEAN
    /\ notify_ \in BOOLEAN
    /\ msg_queue_ \in Seq(Message)
    /\ worker \in {"none", "checking", "blocked", "printing", "exited"}
    /\ processing_queue \in Seq(Message)
    /\ owes \in SUBSET Threads
    /\ hist \in [pushed : Seq(Message), printed : Seq(Message), held : SUBSET Message]

\* How many messages the worker has taken out of the queue, and how many of
\* them it is through with.
Taken == Len(hist.pushed) - Len(msg_queue_)
Done == Taken - Len(processing_queue)

\* The two queues are the last pieces of the stream of pushed messages.
Streams ==
    /\ Done >= 0
    /\ \A i \in 1 .. Len(hist.pushed) : hist.pushed[i].number = i
    /\ \A i \in 1 .. Len(processing_queue) : processing_queue[i] = hist.pushed[Done + i]
    /\ \A i \in 1 .. Len(msg_queue_) : msg_queue_[i] = hist.pushed[Taken + i]

\* What is printed are messages before Done, in order; none is left out that
\* is loud, and none at all before the level was raised.
Output ==
    /\ \A i \in 1 .. Len(hist.printed) :
          /\ hist.printed[i].number \in 1 .. Done
          /\ hist.printed[i] = hist.pushed[hist.printed[i].number]
    /\ \A i, j \in 1 .. Len(hist.printed) :
          i < j => hist.printed[i].number < hist.printed[j].number
    /\ \A i \in 1 .. Done : hist.pushed[i].level >= WARN =>
          \E j \in 1 .. Len(hist.printed) : hist.printed[j] = hist.pushed[i]
    /\ level_ = INFO =>
          /\ Len(hist.printed) = Done
          /\ \A i \in 1 .. Done : hist.printed[i] = hist.pushed[i]

\* Messages pushed while printing is paused are still in the queue.
HeldBack ==
    /\ notify_ => hist.held = {}
    /\ ~notify_ => running_ /\ \A m \in hist.held : m.number > Taken

Worker ==
    /\ worker # "printing" => processing_queue = <<>>
    /\ worker = "exited" => msg_queue_ = <<>> /\ ~running_
    /\ worker = "none" => level_ = INFO
    /\ NoMissedNotify

LoggerInv == LoggerType /\ Streams /\ Output /\ HeldBack /\ Worker

-----------------------------------------------------------------------------
Before == {"start", "parse_cli", "banner", "construct", "script", "plan", "choose", "dry_run",
           "ask", "getline", "acknowledged", "build", "solo", "spawn"}
WithThread == {"pause", "loop", "looping", "resume", "join", "destroy"}
After == {"shutdown", "return", "joining", "exited"}

\* Where the main thread is tells what the orchestrator may be doing, and only
\* a thread that is at work is in the middle of a call of the logger.
Orderly ==
    /\ cli.pc \in Before => orch.state = "none"
    /\ cli.pc = "solo_runs" => orch.state \in {"running", "ended", "threw"}
    /\ cli.pc \in WithThread => orch.state \in {"running", "leaving", "ended"}
    /\ cli.pc = "destroy" => orch.state = "ended"
    /\ cli.pc \in After => orch.state \in {"none", "ended", "threw"}
    /\ orch.shards =>
          cli.pc \in WithThread \/ (cli.pc = "solo_runs" /\ orch.state = "running")
    /\ "shards" \in owes => orch.shards
    /\ "orchestrator" \in owes => orch.state = "leaving"
    /\ screen.state = "gone" => cli.pc \in {"destroy"} \cup After /\ orch.state = "ended"

Agreed == ops.acknowledged_responsibility \/ cli.understood

Consent ==
    /\ cli.pc \in {"banner", "construct", "script", "plan", "choose", "dry_run"} =>
          ops.parse = "ok"
    /\ cli.pc \in {"ask", "getline"} => ops.parse = "ok" /\ ~ops.dry_run
    /\ cli.pc \in {"acknowledged", "build", "solo", "solo_runs", "spawn"} \cup WithThread =>
          ops.parse = "ok" /\ ~ops.dry_run /\ Agreed
    /\ OnlyAcknowledgedTraffic

\* The logger runs from main() to the end, and is paused only by the UI.
Links ==
    /\ worker = "none" <=> cli.pc = "start"
    /\ ~running_ => cli.pc \in {"start", "return", "joining", "exited"}
    /\ ~notify_ => cli.pc \in {"loop", "looping", "resume"}
    /\ cli.pc = "exited" => worker = "exited"
    /\ level_ # INFO => ops.quiet

ProgramInv == TypeOK /\ Orderly /\ Consent /\ Links

IInv == LoggerInv /\ ProgramInv

-----------------------------------------------------------------------------
(* The logger. *)

\* Pushing a message: it becomes the end of the stream.
LEMMA PushKeeps ==
    ASSUME LoggerInv, worker # "exited", NEW t \in Threads,
           NEW level \in {INFO, WARN, ERROR}, push_message(t, level)
    PROVE  LoggerInv'
  <1> USE DEF LoggerInv
  <1> DEFINE msg == [number |-> Len(hist.pushed) + 1, level |-> level]
             held == IF notify_ THEN hist.held ELSE hist.held \cup {msg}
  <1>1. hist.pushed \in Seq(Message) /\ hist.held \in SUBSET Message BY DEF LoggerType
  <1>2. msg \in Message /\ msg.number = Len(hist.pushed) + 1 BY <1>1 DEF Message
  <1>3. held \in SUBSET Message BY <1>1, <1>2
  <1>4. hist' = [hist EXCEPT !.pushed = Append(hist.pushed, msg), !.held = held]
    BY DEF push_message
  <1>5. /\ msg_queue_' = Append(msg_queue_, msg)
        /\ UNCHANGED <<level_, running_, notify_, worker, processing_queue>>
    BY DEF push_message, control
  <1>6. /\ notify_ => owes' = owes \cup {t}
        /\ ~notify_ => owes' = owes
    BY DEF push_message
  <1>7. notify_ => held = hist.held OBVIOUS
  <1>8. \A m \in held : m \in hist.held \/ m = msg OBVIOUS
  <1> HIDE DEF msg, held
  <1>9. /\ hist'.pushed = Append(hist.pushed, msg) /\ hist'.held = held
        /\ hist'.printed = hist.printed
        /\ hist' \in [pushed : Seq(Message), printed : Seq(Message), held : SUBSET Message]
    <2> DEFINE longer == Append(hist.pushed, msg)
    <2>1. longer \in Seq(Message) BY <1>1, <1>2
    <2>2. hist' = [hist EXCEPT !.pushed = longer, !.held = held] BY <1>4
    <2>3. hist \in [pushed : Seq(Message), printed : Seq(Message), held : SUBSET Message]
      BY DEF LoggerType
    <2> HIDE DEF longer
    <2>4. /\ hist'.pushed = longer /\ hist'.held = held /\ hist'.printed = hist.printed
          /\ hist' \in [pushed : Seq(Message), printed : Seq(Message), held : SUBSET Message]
      BY <1>3, <2>1, <2>2, <2>3
    <2> QED BY <2>4 DEF longer
  <1>10. LoggerType' BY <1>2, <1>5, <1>6, <1>9 DEF LoggerType
  <1>11. /\ Len(hist'.pushed) = Len(hist.pushed) + 1
         /\ \A i \in 1 .. Len(hist.pushed) : hist'.pushed[i] = hist.pushed[i]
         /\ hist'.pushed[Len(hist.pushed) + 1] = msg
         /\ Len(msg_queue_') = Len(msg_queue_) + 1
         /\ \A i \in 1 .. Len(msg_queue_) : msg_queue_'[i] = msg_queue_[i]
         /\ msg_queue_'[Len(msg_queue_) + 1] = msg
    BY <1>1, <1>2, <1>5, <1>9 DEF LoggerType
  <1>12. /\ Len(hist.pushed) \in Nat /\ Len(msg_queue_) \in Nat
         /\ Len(processing_queue) \in Nat /\ Len(hist.printed) \in Nat
    BY <1>1 DEF LoggerType
  <1>13. Taken' = Taken /\ Done' = Done /\ Taken \in Int /\ Done \in Int /\ Done <= Taken
         /\ Taken <= Len(hist.pushed)
    BY <1>5, <1>11, <1>12 DEF Taken, Done
  <1>14. Streams'
    <2>1. Taken + Len(msg_queue_) + 1 = Len(hist.pushed) + 1 BY <1>12 DEF Taken
    <2>2. Done + Len(processing_queue) = Taken BY <1>12, <1>13 DEF Done
    <2>3. \A i \in 1 .. Len(hist'.pushed) : hist'.pushed[i].number = i
      <3> TAKE i \in 1 .. Len(hist'.pushed)
      <3>1. i \in 1 .. Len(hist.pushed) \/ i = Len(hist.pushed) + 1 BY <1>11, <1>12
      <3> QED BY <1>2, <1>11, <3>1 DEF Streams
    <2>4. \A i \in 1 .. Len(processing_queue) : processing_queue[i] = hist'.pushed[Done + i]
      <3> TAKE i \in 1 .. Len(processing_queue)
      <3>1. Done + i \in 1 .. Len(hist.pushed) BY <1>12, <1>13, <2>2 DEF Streams
      <3> QED BY <1>11, <3>1 DEF Streams
    <2>5. \A i \in 1 .. Len(msg_queue_') : msg_queue_'[i] = hist'.pushed[Taken + i]
      <3> TAKE i \in 1 .. Len(msg_queue_')
      <3>1. CASE i \in 1 .. Len(msg_queue_)
        <4>1. Taken + i \in 1 .. Len(hist.pushed)
          BY <1>12, <1>13, <2>1, <3>1 DEF Streams
        <4> QED BY <1>11, <3>1, <4>1 DEF Streams
      <3>2. CASE i = Len(msg_queue_) + 1
        BY <1>11, <1>12, <1>13, <2>1, <3>2
      <3> QED BY <1>11, <1>12, <3>1, <3>2
    <2> QED BY <1>5, <1>13, <2>3, <2>4, <2>5 DEF Streams
  <1>15. Output'
    <2>1. Done <= Len(hist.pushed) BY <1>12, <1>13
    <2> QED BY <1>5, <1>9, <1>11, <1>12, <1>13, <2>1 DEF Output
  <1>16. HeldBack'
    BY <1>2, <1>5, <1>7, <1>8, <1>9, <1>12, <1>13 DEF HeldBack
  <1>17. Worker' BY <1>5, <1>6 DEF Worker, NoMissedNotify, MayProceed
  <1> QED BY <1>10, <1>14, <1>15, <1>16, <1>17

\* Steps that move no message.
LEMMA StillStreams ==
    ASSUME LoggerInv, UNCHANGED <<msg_queue_, processing_queue>>,
           hist'.pushed = hist.pushed, hist'.printed = hist.printed,
           level_' = INFO => level_ = INFO
    PROVE  Streams' /\ Output' /\ Taken' = Taken
  <1>1. Taken' = Taken /\ Done' = Done BY DEF Taken, Done
  <1> QED BY <1>1 DEF LoggerInv, Streams, Output

LEMMA InitKeeps == LoggerInv /\ worker = "none" /\ notify_ /\ init => LoggerInv'
  <1> SUFFICES ASSUME LoggerInv, worker = "none", notify_, init PROVE LoggerInv' OBVIOUS
  <1>1. Streams' /\ Output' /\ Taken' = Taken
    BY StillStreams DEF init, LoggerInv, Worker
  <1> QED BY <1>1 DEF init, LoggerInv, LoggerType, HeldBack, Worker, NoMissedNotify, MayProceed

LEMMA SetLevelKeeps == LoggerInv /\ worker # "none" /\ set_level(WARN) => LoggerInv'
  <1> SUFFICES ASSUME LoggerInv, worker # "none", set_level(WARN) PROVE LoggerInv' OBVIOUS
  <1>1. Streams' /\ Output' /\ Taken' = Taken
    BY StillStreams DEF set_level, INFO, WARN
  <1> QED
    BY <1>1 DEF set_level, LoggerInv, LoggerType, HeldBack, Worker, NoMissedNotify, MayProceed

LEMMA PauseKeeps == LoggerInv /\ notify_ /\ running_ /\ pause => LoggerInv'
  <1> SUFFICES ASSUME LoggerInv, notify_, running_, pause PROVE LoggerInv' OBVIOUS
  <1>1. Streams' /\ Output' /\ Taken' = Taken BY StillStreams DEF pause
  <1> QED
    BY <1>1 DEF pause, LoggerInv, LoggerType, HeldBack, Worker, NoMissedNotify, MayProceed

LEMMA ResumeKeeps ==
    ASSUME LoggerInv, NEW t \in Threads, resume(t)
    PROVE  LoggerInv'
  <1>1. /\ hist' \in [pushed : Seq(Message), printed : Seq(Message), held : SUBSET Message]
        /\ hist'.pushed = hist.pushed /\ hist'.printed = hist.printed /\ hist'.held = {}
    BY DEF resume, LoggerInv, LoggerType
  <1>2. Streams' /\ Output' /\ Taken' = Taken BY <1>1, StillStreams DEF resume
  <1> QED
    BY <1>1, <1>2
       DEF resume, LoggerInv, LoggerType, HeldBack, Worker, NoMissedNotify, MayProceed

LEMMA ShutdownKeeps ==
    ASSUME LoggerInv, notify_, NEW t \in Threads, shutdown(t)
    PROVE  LoggerInv'
  <1>1. Streams' /\ Output' /\ Taken' = Taken BY StillStreams DEF shutdown
  <1> QED
    BY <1>1 DEF shutdown, LoggerInv, LoggerType, HeldBack, Worker, NoMissedNotify, MayProceed

LEMMA IdleKeeps == LoggerInv /\ UNCHANGED loggerVars => LoggerInv'
  <1> SUFFICES ASSUME LoggerInv, UNCHANGED loggerVars PROVE LoggerInv' OBVIOUS
  <1>1. Streams' /\ Output' /\ Taken' = Taken BY StillStreams DEF loggerVars
  <1> QED
    BY <1>1 DEF loggerVars, LoggerInv, LoggerType, HeldBack, Worker, NoMissedNotify, MayProceed

\* notify_one(), and the steps of the worker that move no message.
LEMMA WorkerMovesKeeps ==
    ASSUME LoggerInv,
           \/ \E t \in Threads : notify_one(t)
           \/ WorkerWaits \/ WorkerLoops \/ SpuriousWakeup
    PROVE  LoggerInv'
  <1>1. /\ UNCHANGED <<level_, running_, notify_, msg_queue_, processing_queue, hist>>
        /\ worker \in {"none", "exited"} => worker' = worker
        /\ worker' \in {"none", "exited"} => worker' = worker
    BY DEF notify_one, WorkerWaits, WorkerLoops, SpuriousWakeup, control
  <1>2. Streams' /\ Output' /\ Taken' = Taken BY <1>1, StillStreams
  <1>3. LoggerType'
    BY <1>1
       DEF LoggerInv, LoggerType, notify_one, WorkerWaits, WorkerLoops, SpuriousWakeup, control
  <1>4. HeldBack' BY <1>1, <1>2 DEF LoggerInv, HeldBack
  <1>5. worker' # "printing" => processing_queue' = <<>>
    BY <1>1
       DEF LoggerInv, Worker, notify_one, WorkerWaits, WorkerLoops, SpuriousWakeup
  <1>6. NoMissedNotify'
    BY <1>1
       DEF LoggerInv, Worker, NoMissedNotify, MayProceed, notify_one, WorkerWaits, WorkerLoops,
           SpuriousWakeup
  <1>7. Worker' BY <1>1, <1>5, <1>6 DEF LoggerInv, Worker
  <1> QED BY <1>2, <1>3, <1>4, <1>7 DEF LoggerInv

\* The worker takes the whole queue: the border between the two queues moves
\* to the end of the stream.
LEMMA WorkerSwapsKeeps == LoggerInv /\ WorkerSwaps => LoggerInv'
  <1> SUFFICES ASSUME LoggerInv, WorkerSwaps PROVE LoggerInv' OBVIOUS
  <1> USE DEF LoggerInv
  <1>1. processing_queue = <<>> /\ notify_
    BY DEF WorkerSwaps, MayProceed, HeldBack, Worker
  <1>2. /\ processing_queue' = msg_queue_ /\ msg_queue_' = <<>>
        /\ UNCHANGED <<level_, running_, notify_, owes, hist>>
        /\ worker' \in {"exited", "printing"}
        /\ worker' = "exited" => ~running_ /\ msg_queue_ = <<>>
    BY DEF WorkerSwaps, control
  <1>3. LoggerType' BY <1>2 DEF LoggerType
  <1>4. /\ Len(hist.pushed) \in Nat /\ Len(msg_queue_) \in Nat
        /\ Len(processing_queue) = 0 /\ Len(msg_queue_') = 0
    BY <1>1, <1>2 DEF LoggerType
  <1>5. Done' = Done /\ Done = Taken /\ Done \in Int
    BY <1>2, <1>4 DEF Done, Taken
  <1>6. Streams' BY <1>2, <1>4, <1>5 DEF Streams
  <1>7. Output' BY <1>2, <1>5 DEF Output
  <1>8. HeldBack' BY <1>1, <1>2 DEF HeldBack
  <1>9. Worker' BY <1>2 DEF Worker, NoMissedNotify
  <1> QED BY <1>3, <1>6, <1>7, <1>8, <1>9

\* The worker is through with one more message, printed if its level says so.
LEMMA WorkerPrintsKeeps == LoggerInv /\ WorkerPrints => LoggerInv'
  <1> SUFFICES ASSUME LoggerInv, WorkerPrints PROVE LoggerInv' OBVIOUS
  <1> USE DEF LoggerInv
  <1> DEFINE m == Head(processing_queue)
             printed == IF m.level < level_ THEN hist.printed ELSE Append(hist.printed, m)
  <1>1. /\ processing_queue # <<>> /\ processing_queue' = Tail(processing_queue)
        /\ UNCHANGED <<level_, running_, notify_, msg_queue_, worker, owes>>
        /\ hist' = [hist EXCEPT !.printed = printed]
        /\ worker = "printing"
    BY DEF WorkerPrints, control
  <1>2. /\ m \in Message /\ m = processing_queue[1]
        /\ Len(processing_queue) \in Nat \ {0}
        /\ processing_queue' \in Seq(Message)
        /\ Len(processing_queue') = Len(processing_queue) - 1
        /\ \A i \in 1 .. Len(processing_queue') : processing_queue'[i] = processing_queue[i + 1]
    BY <1>1 DEF LoggerType
  <1>3. /\ Len(hist.pushed) \in Nat /\ Len(msg_queue_) \in Nat /\ Len(hist.printed) \in Nat
        /\ hist.printed \in Seq(Message)
    BY DEF LoggerType
  <1>4. printed \in Seq(Message) BY <1>2, <1>3
  <1>5. m.level < level_ => printed = hist.printed OBVIOUS
  <1>6. ~(m.level < level_) =>
          /\ Len(printed) = Len(hist.printed) + 1
          /\ \A i \in 1 .. Len(hist.printed) : printed[i] = hist.printed[i]
          /\ printed[Len(hist.printed) + 1] = m
    BY <1>2, <1>3
  <1>7. m.level < level_ => level_ # INFO /\ ~(m.level >= WARN)
    BY <1>2 DEF LoggerType, Message, INFO, WARN, ERROR
  <1> HIDE DEF m, printed
  <1>8. /\ hist'.printed = printed /\ hist'.pushed = hist.pushed /\ hist'.held = hist.held
        /\ hist' \in [pushed : Seq(Message), printed : Seq(Message), held : SUBSET Message]
    BY <1>1, <1>4 DEF LoggerType
  <1>9. LoggerType' BY <1>1, <1>2, <1>8 DEF LoggerType
  <1>10. /\ Taken' = Taken /\ Done' = Done + 1 /\ Done \in Nat
         /\ Taken \in Int /\ Done + 1 <= Taken /\ Taken <= Len(hist.pushed)
    BY <1>1, <1>2, <1>3, <1>8 DEF Taken, Done, Streams
  <1>11. /\ Done + 1 \in 1 .. Len(hist.pushed)
         /\ m = hist.pushed[Done + 1] /\ m.number = Done + 1
    <2>1. Done + 1 \in 1 .. Len(hist.pushed) BY <1>3, <1>10
    <2> QED BY <1>2, <2>1 DEF Streams
  <1>12. Streams'
    <2>1. \A i \in 1 .. Len(processing_queue') :
             processing_queue'[i] = hist.pushed[Done + 1 + i]
      <3> TAKE i \in 1 .. Len(processing_queue')
      <3>1. i + 1 \in 1 .. Len(processing_queue) BY <1>2
      <3>2. Done + (i + 1) = Done + 1 + i BY <1>10
      <3> QED BY <1>2, <3>1, <3>2 DEF Streams
    <2> QED BY <1>1, <1>8, <1>10, <2>1 DEF Streams
  <1>13. Output'
    <2>1. CASE m.level < level_
      <3>1. printed = hist.printed /\ level_ # INFO /\ ~(m.level >= WARN)
        BY <1>5, <1>7, <2>1
      <3>2. \A i \in 1 .. Done + 1 : i \in 1 .. Done \/ i = Done + 1 BY <1>10
      <3>3. \A i \in 1 .. Done : i \in 1 .. Done + 1 BY <1>10
      <3> QED BY <1>1, <1>8, <1>10, <1>11, <3>1, <3>2, <3>3 DEF Output
    <2>2. CASE ~(m.level < level_)
      <3> DEFINE n == Len(hist.printed)
      <3>1. /\ Len(printed) = n + 1 /\ printed[n + 1] = m
            /\ \A i \in 1 .. n : printed[i] = hist.printed[i]
        BY <1>6, <2>2
      <3>2. \A i \in 1 .. n + 1 : i \in 1 .. n \/ i = n + 1 BY <1>3
      <3>3. \A i \in 1 .. Done + 1 : i \in 1 .. Done \/ i = Done + 1 BY <1>10
      <3>4. \A i \in 1 .. n + 1 :
              /\ printed[i].number \in 1 .. Done + 1
              /\ printed[i] = hist.pushed[printed[i].number]
        <4> TAKE i \in 1 .. n + 1
        <4>1. CASE i = n + 1 BY <1>10, <1>11, <3>1, <4>1
        <4>2. CASE i \in 1 .. n
          <5>1. hist.printed[i].number \in 1 .. Done BY <4>2 DEF Output
          <5>2. hist.printed[i].number \in 1 .. Done + 1 BY <1>10, <5>1
          <5> QED BY <3>1, <4>2, <5>2 DEF Output
        <4> QED BY <3>2, <4>1, <4>2
      <3>5. \A i, j \in 1 .. n + 1 : i < j => printed[i].number < printed[j].number
        <4> SUFFICES ASSUME NEW i \in 1 .. n + 1, NEW j \in 1 .. n + 1, i < j
                     PROVE  printed[i].number < printed[j].number
          OBVIOUS
        <4>1. i \in 1 .. n BY <1>3
        <4>2. CASE j \in 1 .. n BY <3>1, <4>1, <4>2 DEF Output
        <4>3. CASE j = n + 1
          <5>1. hist.printed[i].number \in 1 .. Done BY <4>1 DEF Output
          <5> QED BY <1>10, <1>11, <3>1, <4>1, <4>3, <5>1
        <4> QED BY <3>2, <4>2, <4>3
      <3>6. \A i \in 1 .. Done + 1 : hist.pushed[i].level >= WARN =>
              \E j \in 1 .. n + 1 : printed[j] = hist.pushed[i]
        <4> TAKE i \in 1 .. Done + 1
        <4>1. CASE i = Done + 1
          <5>1. n + 1 \in 1 .. n + 1 BY <1>3
          <5> QED BY <1>11, <3>1, <4>1, <5>1
        <4>2. CASE i \in 1 .. Done
          <5>1. \A j \in 1 .. n : j \in 1 .. n + 1 BY <1>3
          <5> QED BY <3>1, <4>2, <5>1 DEF Output
        <4> QED BY <3>3, <4>1, <4>2
      <3>7. level_ = INFO =>
              n + 1 = Done + 1 /\ \A i \in 1 .. Done + 1 : printed[i] = hist.pushed[i]
        BY <1>11, <3>1, <3>3 DEF Output
      <3> QED BY <1>1, <1>8, <1>10, <3>1, <3>4, <3>5, <3>6, <3>7 DEF Output
    <2> QED BY <2>1, <2>2
  <1>14. HeldBack' BY <1>1, <1>8, <1>10 DEF HeldBack
  <1>15. Worker' BY <1>1 DEF Worker, NoMissedNotify, MayProceed
  <1> QED BY <1>9, <1>12, <1>13, <1>14, <1>15

-----------------------------------------------------------------------------
(* The program. *)

\* What a call of the logger leaves alone.
LEMMA PushFrame ==
    ASSUME NEW t, NEW level, push_message(t, level)
    PROVE  UNCHANGED <<level_, running_, notify_, worker>> /\ owes' \subseteq owes \cup {t}
  BY DEF push_message, control

\* While anybody can push a message the worker has not left.
LEMMA WorkerStays ==
    ASSUME IInv,
           \/ cli.pc \notin {"start", "return", "joining", "exited"}
           \/ orch.state \in {"running", "leaving"}
           \/ orch.shards
    PROVE  worker # "exited"
  BY DEF IInv, LoggerInv, Worker, ProgramInv, TypeOK, Links, Orderly, Before, After, WithThread

LEMMA ThreadsAre == "main" \in Threads /\ "orchestrator" \in Threads /\ "shards" \in Threads
  BY CliAssumption

\* The main thread logs or does not, and goes from one place to another.
Talks(from, to) ==
    /\ cli.pc = from
    /\ cli' = [cli EXCEPT !.pc = to] \/ \E st \in {0, 1} : cli' = [cli EXCEPT !.pc = to, !.status = st]
    /\ UNCHANGED loggerVars \/ \E level \in {INFO, WARN, ERROR} : push_message("main", level)

LEMMA TalksKeepsLogger ==
    ASSUME IInv, NEW from \in Place \ {"start", "return", "joining", "exited"}, NEW to,
           Talks(from, to)
    PROVE  /\ LoggerInv'
           /\ UNCHANGED <<level_, running_, notify_, worker>>
           /\ owes' \subseteq owes \cup {"main"}
           /\ cli'.pc = to /\ cli'.understood = cli.understood /\ cli'.status \in {0, 1}
           /\ cli' = [pc |-> to, understood |-> cli.understood, status |-> cli'.status]
  <1>1. worker # "exited" BY WorkerStays DEF Talks
  <1>2. LoggerInv' /\ UNCHANGED <<level_, running_, notify_, worker>>
        /\ owes' \subseteq owes \cup {"main"}
    <2>1. CASE UNCHANGED loggerVars BY <2>1, IdleKeeps DEF IInv, loggerVars
    <2>2. CASE \E level \in {INFO, WARN, ERROR} : push_message("main", level)
      BY <1>1, <2>2, PushKeeps, PushFrame, ThreadsAre DEF IInv
    <2> QED BY <2>1, <2>2 DEF Talks
  <1>3. /\ cli'.pc = to /\ cli'.understood = cli.understood /\ cli'.status \in {0, 1}
        /\ cli' = [pc |-> to, understood |-> cli.understood, status |-> cli'.status]
    BY DEF Talks, IInv, ProgramInv, TypeOK
  <1> QED BY <1>2, <1>3

\* Such a step keeps the invariant if the place it goes to asks for nothing new.
LEMMA TalksKeeps ==
    ASSUME IInv, NEW from \in Place \ {"start", "return", "joining", "exited"},
           NEW to \in Place \ {"start", "joining", "exited", "loop", "looping", "resume"},
           Talks(from, to), UNCHANGED <<ops, orch, screen>>,
           from \notin WithThread,
           to \in Before => from \in Before,
           to \in After => orch.state \in {"none", "ended", "threw"},
           to \notin {"solo_runs"} \cup WithThread,
           to \in {"banner", "construct", "script", "plan", "choose", "dry_run"} =>
              ops.parse = "ok",
           to \in {"ask", "getline"} => ops.parse = "ok" /\ ~ops.dry_run,
           to \in {"acknowledged", "build", "solo", "spawn"} =>
              ops.parse = "ok" /\ ~ops.dry_run /\ Agreed
    PROVE  IInv'
  <1>1. /\ LoggerInv'
        /\ UNCHANGED <<level_, running_, notify_, worker>>
        /\ owes' \subseteq owes \cup {"main"}
        /\ cli'.pc = to /\ cli'.understood = cli.understood /\ cli'.status \in {0, 1}
        /\ cli' = [pc |-> to, understood |-> cli.understood, status |-> cli'.status]
    BY TalksKeepsLogger
  <1>2. TypeOK' BY <1>1 DEF IInv, ProgramInv, TypeOK
  <1>3. Orderly'
    BY <1>1 DEF IInv, ProgramInv, Orderly, Talks, Before, After, WithThread, Place
  <1>4. Consent'
    BY <1>1 DEF IInv, ProgramInv, Consent, Agreed, OnlyAcknowledgedTraffic
  <1>5. Links'
    BY <1>1 DEF IInv, ProgramInv, Links, Talks, WithThread
  <1> QED BY <1>1, <1>2, <1>3, <1>4, <1>5 DEF IInv, ProgramInv

\* main() starts the logger before anything else.
LEMMA mainKeeps == IInv /\ main => IInv'
  <1> SUFFICES ASSUME IInv, main PROVE IInv' OBVIOUS
  <1> USE DEF IInv, ProgramInv
  <1>1. LoggerInv' BY InitKeeps DEF main, At, Links
  <1>2. TypeOK' BY DEF TypeOK, Place, main, At, Goto, Silently, loggerVars, init
  <1>3. Orderly' BY DEF TypeOK, Orderly, Before, WithThread, After, main, At, Goto, Silently, loggerVars, init
  <1>4. Consent'
    BY DEF TypeOK, Consent, Agreed, WithThread, OnlyAcknowledgedTraffic, main, At, Goto, Silently, loggerVars, init
  <1>5. Links' BY DEF TypeOK, Links, main, At, Goto, Silently, loggerVars, init
  <1> QED BY <1>1, <1>2, <1>3, <1>4, <1>5

\* Only --quiet raises the level of the logger, and then there is no UI.
LEMMA AcknowledgedKeeps == IInv /\ Acknowledged => IInv'
  <1> SUFFICES ASSUME IInv, Acknowledged PROVE IInv' OBVIOUS
  <1> USE DEF IInv, ProgramInv
  <1>1. LoggerInv' BY IdleKeeps, SetLevelKeeps DEF Acknowledged, At, Links
  <1>2. TypeOK' BY DEF TypeOK, Place, Acknowledged, At, Goto, Silently, loggerVars, set_level
  <1>3. Orderly' BY DEF TypeOK, Orderly, Before, WithThread, After, Acknowledged, At, Goto, Silently, loggerVars, set_level
  <1>4. Consent'
    BY DEF TypeOK, Consent, Agreed, WithThread, OnlyAcknowledgedTraffic, Acknowledged, At, Goto, Silently, loggerVars, set_level
  <1>5. Links' BY DEF TypeOK, Links, Acknowledged, At, Goto, Silently, loggerVars, set_level
  <1> QED BY <1>1, <1>2, <1>3, <1>4, <1>5

\* The orchestrator is started where consent has been given.
LEMMA SoloStartsKeeps == IInv /\ SoloStarts => IInv'
  <1> SUFFICES ASSUME IInv, SoloStarts PROVE IInv' OBVIOUS
  <1> USE DEF IInv, ProgramInv
  <1>1. LoggerInv' BY IdleKeeps DEF SoloStarts, Silently
  <1>2. TypeOK' BY DEF TypeOK, Place, SoloStarts, At, Goto, Silently, loggerVars
  <1>3. Orderly' BY DEF TypeOK, Orderly, Before, WithThread, After, SoloStarts, At, Goto, Silently, loggerVars
  <1>4. Consent'
    BY DEF TypeOK, Consent, Agreed, WithThread, OnlyAcknowledgedTraffic, SoloStarts, At, Goto, Silently, loggerVars
  <1>5. Links' BY DEF TypeOK, Links, SoloStarts, At, Goto, Silently, loggerVars
  <1> QED BY <1>1, <1>2, <1>3, <1>4, <1>5

\* The same on a thread of its own.
LEMMA SpawnThreadKeeps == IInv /\ SpawnThread => IInv'
  <1> SUFFICES ASSUME IInv, SpawnThread PROVE IInv' OBVIOUS
  <1> USE DEF IInv, ProgramInv
  <1>1. LoggerInv' BY IdleKeeps DEF SpawnThread, Silently
  <1>2. TypeOK' BY DEF TypeOK, Place, SpawnThread, At, Goto, Silently, loggerVars
  <1>3. Orderly' BY DEF TypeOK, Orderly, Before, WithThread, After, SpawnThread, At, Goto, Silently, loggerVars
  <1>4. Consent'
    BY DEF TypeOK, Consent, Agreed, WithThread, OnlyAcknowledgedTraffic, SpawnThread, At, Goto, Silently, loggerVars
  <1>5. Links' BY DEF TypeOK, Links, SpawnThread, At, Goto, Silently, loggerVars
  <1> QED BY <1>1, <1>2, <1>3, <1>4, <1>5

\* The logger is paused while it runs and nothing is held back.
LEMMA PauseLoggerKeeps == IInv /\ PauseLogger => IInv'
  <1> SUFFICES ASSUME IInv, PauseLogger PROVE IInv' OBVIOUS
  <1> USE DEF IInv, ProgramInv
  <1>1. LoggerInv' BY PauseKeeps DEF PauseLogger, At, Links
  <1>2. TypeOK' BY DEF TypeOK, Place, PauseLogger, At, Goto, Silently, loggerVars, pause
  <1>3. Orderly' BY DEF TypeOK, Orderly, Before, WithThread, After, PauseLogger, At, Goto, Silently, loggerVars, pause
  <1>4. Consent'
    BY DEF TypeOK, Consent, Agreed, WithThread, OnlyAcknowledgedTraffic, PauseLogger, At, Goto, Silently, loggerVars, pause
  <1>5. Links' BY DEF TypeOK, Links, PauseLogger, At, Goto, Silently, loggerVars, pause
  <1> QED BY <1>1, <1>2, <1>3, <1>4, <1>5

\* The UI's loop.
LEMMA EnterLoopKeeps == IInv /\ EnterLoop => IInv'
  <1> SUFFICES ASSUME IInv, EnterLoop PROVE IInv' OBVIOUS
  <1> USE DEF IInv, ProgramInv
  <1>1. LoggerInv' BY IdleKeeps DEF EnterLoop, Silently
  <1>2. TypeOK' BY DEF TypeOK, Place, EnterLoop, At, Goto, Silently, loggerVars
  <1>3. Orderly' BY DEF TypeOK, Orderly, Before, WithThread, After, EnterLoop, At, Goto, Silently, loggerVars
  <1>4. Consent'
    BY DEF TypeOK, Consent, Agreed, WithThread, OnlyAcknowledgedTraffic, EnterLoop, At, Goto, Silently, loggerVars
  <1>5. Links' BY DEF TypeOK, Links, EnterLoop, At, Goto, Silently, loggerVars
  <1> QED BY <1>1, <1>2, <1>3, <1>4, <1>5

\* A key ends the loop, not the orchestrator's thread.
LEMMA QuitPressedKeeps == IInv /\ QuitPressed => IInv'
  <1> SUFFICES ASSUME IInv, QuitPressed PROVE IInv' OBVIOUS
  <1> USE DEF IInv, ProgramInv
  <1>1. LoggerInv' BY IdleKeeps DEF QuitPressed
  <1>2. TypeOK' BY DEF TypeOK, Place, QuitPressed, At, Goto, Silently, loggerVars
  <1>3. Orderly' BY DEF TypeOK, Orderly, Before, WithThread, After, QuitPressed, At, Goto, Silently, loggerVars
  <1>4. Consent'
    BY DEF TypeOK, Consent, Agreed, WithThread, OnlyAcknowledgedTraffic, QuitPressed, At, Goto, Silently, loggerVars
  <1>5. Links' BY DEF TypeOK, Links, QuitPressed, At, Goto, Silently, loggerVars
  <1> QED BY <1>1, <1>2, <1>3, <1>4, <1>5

\* The screen stays until the thread is joined.
LEMMA LoopReturnsKeeps == IInv /\ LoopReturns => IInv'
  <1> SUFFICES ASSUME IInv, LoopReturns PROVE IInv' OBVIOUS
  <1> USE DEF IInv, ProgramInv
  <1>1. LoggerInv' BY IdleKeeps DEF LoopReturns, Silently
  <1>2. TypeOK' BY DEF TypeOK, Place, LoopReturns, At, Goto, Silently, loggerVars
  <1>3. Orderly' BY DEF TypeOK, Orderly, Before, WithThread, After, LoopReturns, At, Goto, Silently, loggerVars
  <1>4. Consent'
    BY DEF TypeOK, Consent, Agreed, WithThread, OnlyAcknowledgedTraffic, LoopReturns, At, Goto, Silently, loggerVars
  <1>5. Links' BY DEF TypeOK, Links, LoopReturns, At, Goto, Silently, loggerVars
  <1> QED BY <1>1, <1>2, <1>3, <1>4, <1>5

\* The messages held back are let go.
LEMMA ResumeLoggerKeeps == IInv /\ ResumeLogger => IInv'
  <1> SUFFICES ASSUME IInv, ResumeLogger PROVE IInv' OBVIOUS
  <1> USE DEF IInv, ProgramInv
  <1>1. LoggerInv' BY ResumeKeeps, ThreadsAre DEF ResumeLogger
  <1>2. TypeOK' BY DEF TypeOK, Place, ResumeLogger, At, Goto, Silently, loggerVars, resume
  <1>3. Orderly' BY DEF TypeOK, Orderly, Before, WithThread, After, ResumeLogger, At, Goto, Silently, loggerVars, resume
  <1>4. Consent'
    BY DEF TypeOK, Consent, Agreed, WithThread, OnlyAcknowledgedTraffic, ResumeLogger, At, Goto, Silently, loggerVars, resume
  <1>5. Links' BY DEF TypeOK, Links, ResumeLogger, At, Goto, Silently, loggerVars, resume
  <1> QED BY <1>1, <1>2, <1>3, <1>4, <1>5

\* The screen goes when the thread that uses it has ended.
LEMMA JoinThreadKeeps == IInv /\ JoinThread => IInv'
  <1> SUFFICES ASSUME IInv, JoinThread PROVE IInv' OBVIOUS
  <1> USE DEF IInv, ProgramInv
  <1>1. LoggerInv' BY IdleKeeps DEF JoinThread, Silently
  <1>2. TypeOK' BY DEF TypeOK, Place, JoinThread, At, Goto, Silently, loggerVars
  <1>3. Orderly' BY DEF TypeOK, Orderly, Before, WithThread, After, JoinThread, At, Goto, Silently, loggerVars
  <1>4. Consent'
    BY DEF TypeOK, Consent, Agreed, WithThread, OnlyAcknowledgedTraffic, JoinThread, At, Goto, Silently, loggerVars
  <1>5. Links' BY DEF TypeOK, Links, JoinThread, At, Goto, Silently, loggerVars
  <1> QED BY <1>1, <1>2, <1>3, <1>4, <1>5

\* The shards have gone before the logger is stopped.
LEMMA DestroyOrchestratorKeeps == IInv /\ DestroyOrchestrator => IInv'
  <1> SUFFICES ASSUME IInv, DestroyOrchestrator PROVE IInv' OBVIOUS
  <1> USE DEF IInv, ProgramInv
  <1>1. LoggerInv' BY IdleKeeps DEF DestroyOrchestrator, Silently
  <1>2. TypeOK' BY DEF TypeOK, Place, DestroyOrchestrator, At, Goto, Silently, loggerVars
  <1>3. Orderly'
    BY DEF TypeOK, Orderly, Before, WithThread, After, DestroyOrchestrator, At, Goto, Silently, loggerVars
  <1>4. Consent'
    BY DEF TypeOK, Consent, Agreed, WithThread, OnlyAcknowledgedTraffic, DestroyOrchestrator, At, Goto, Silently, loggerVars
  <1>5. Links' BY DEF TypeOK, Links, DestroyOrchestrator, At, Goto, Silently, loggerVars
  <1> QED BY <1>1, <1>2, <1>3, <1>4, <1>5

\* The logger is stopped with nobody left to push.
LEMMA ShutdownLoggerKeeps == IInv /\ ShutdownLogger => IInv'
  <1> SUFFICES ASSUME IInv, ShutdownLogger PROVE IInv' OBVIOUS
  <1> USE DEF IInv, ProgramInv
  <1>1. LoggerInv' BY ShutdownKeeps, ThreadsAre DEF ShutdownLogger, At, Links
  <1>2. TypeOK' BY DEF TypeOK, Place, ShutdownLogger, At, Goto, Silently, loggerVars, shutdown
  <1>3. Orderly' BY DEF TypeOK, Orderly, Before, WithThread, After, ShutdownLogger, At, Goto, Silently, loggerVars, shutdown
  <1>4. Consent'
    BY DEF TypeOK, Consent, Agreed, WithThread, OnlyAcknowledgedTraffic, ShutdownLogger, At, Goto, Silently, loggerVars, shutdown
  <1>5. Links' BY DEF TypeOK, Links, ShutdownLogger, At, Goto, Silently, loggerVars, shutdown
  <1> QED BY <1>1, <1>2, <1>3, <1>4, <1>5

\* The destructor stops a logger that main() did not stop.
LEMMA DestroyLoggerKeeps == IInv /\ DestroyLogger => IInv'
  <1> SUFFICES ASSUME IInv, DestroyLogger PROVE IInv' OBVIOUS
  <1> USE DEF IInv, ProgramInv
  <1>1. LoggerInv' BY IdleKeeps, ShutdownKeeps, ThreadsAre DEF DestroyLogger, At, Links
  <1>2. TypeOK' BY DEF TypeOK, Place, DestroyLogger, At, Goto, Silently, loggerVars, shutdown
  <1>3. Orderly' BY DEF TypeOK, Orderly, Before, WithThread, After, DestroyLogger, At, Goto, Silently, loggerVars, shutdown
  <1>4. Consent'
    BY DEF TypeOK, Consent, Agreed, WithThread, OnlyAcknowledgedTraffic, DestroyLogger, At, Goto, Silently, loggerVars, shutdown
  <1>5. Links' BY DEF TypeOK, Links, DestroyLogger, At, Goto, Silently, loggerVars, shutdown
  <1> QED BY <1>1, <1>2, <1>3, <1>4, <1>5

\* The program exits after the worker.
LEMMA JoinWorkerKeeps == IInv /\ JoinWorker => IInv'
  <1> SUFFICES ASSUME IInv, JoinWorker PROVE IInv' OBVIOUS
  <1> USE DEF IInv, ProgramInv
  <1>1. LoggerInv' BY IdleKeeps DEF JoinWorker, Silently
  <1>2. TypeOK' BY DEF TypeOK, Place, JoinWorker, At, Goto, Silently, loggerVars
  <1>3. Orderly' BY DEF TypeOK, Orderly, Before, WithThread, After, JoinWorker, At, Goto, Silently, loggerVars
  <1>4. Consent'
    BY DEF TypeOK, Consent, Agreed, WithThread, OnlyAcknowledgedTraffic, JoinWorker, At, Goto, Silently, loggerVars
  <1>5. Links' BY DEF TypeOK, Links, JoinWorker, At, Goto, Silently, loggerVars
  <1> QED BY <1>1, <1>2, <1>3, <1>4, <1>5

\* The last thing the orchestrator's thread does.
LEMMA CloseScreenKeeps == IInv /\ CloseScreen => IInv'
  <1> SUFFICES ASSUME IInv, CloseScreen PROVE IInv' OBVIOUS
  <1> USE DEF IInv, ProgramInv
  <1>1. LoggerInv' BY IdleKeeps DEF CloseScreen
  <1>2. TypeOK' BY DEF TypeOK, Place, CloseScreen, At, Goto, Silently, loggerVars
  <1>3. Orderly' BY DEF TypeOK, Orderly, Before, WithThread, After, CloseScreen, At, Goto, Silently, loggerVars
  <1>4. Consent'
    BY DEF TypeOK, Consent, Agreed, WithThread, OnlyAcknowledgedTraffic, CloseScreen, At, Goto, Silently, loggerVars
  <1>5. Links' BY DEF TypeOK, Links, CloseScreen, At, Goto, Silently, loggerVars
  <1> QED BY <1>1, <1>2, <1>3, <1>4, <1>5

\* The steps of the main thread that only log and go on, or log and give up.
LEMMA parse_cliKeeps == IInv /\ parse_cli => IInv'
  <1> SUFFICES ASSUME IInv, parse_cli PROVE IInv' OBVIOUS
  <1>1. \E to \in {"banner", "return"} :
          Talks("parse_cli", to) /\ (to = "banner" => ops.parse = "ok")
    BY DEF parse_cli, At, Goto, Say, SayAndQuit, Silently, Talks
  <1>2. UNCHANGED <<ops, orch, screen>> BY DEF parse_cli
  <1>3. "parse_cli" \in Place \ {"start", "return", "joining", "exited"} BY DEF Place
  <1> QED
    BY <1>1, <1>2, <1>3, TalksKeeps
       DEF parse_cli, At, IInv, ProgramInv, TypeOK, Orderly, Consent, Agreed, Before, After,
           WithThread, Place

LEMMA BannerKeeps == IInv /\ Banner => IInv'
  <1> SUFFICES ASSUME IInv, Banner PROVE IInv' OBVIOUS
  <1>1. \E to \in {"construct"} : Talks("banner", to)
    BY DEF Banner, At, Goto, Say, SayAndQuit, Silently, Talks
  <1>2. UNCHANGED <<ops, orch, screen>> BY DEF Banner
  <1>3. "banner" \in Place \ {"start", "return", "joining", "exited"} BY DEF Place
  <1> QED
    BY <1>1, <1>2, <1>3, TalksKeeps
       DEF Banner, At, IInv, ProgramInv, TypeOK, Orderly, Consent, Agreed, Before, After,
           WithThread, Place

LEMMA ConstructCLIKeeps == IInv /\ ConstructCLI => IInv'
  <1> SUFFICES ASSUME IInv, ConstructCLI PROVE IInv' OBVIOUS
  <1>1. \E to \in {"script", "shutdown"} : Talks("construct", to)
    BY DEF ConstructCLI, At, Goto, Say, SayAndQuit, Silently, Talks
  <1>2. UNCHANGED <<ops, orch, screen>> BY DEF ConstructCLI
  <1>3. "construct" \in Place \ {"start", "return", "joining", "exited"} BY DEF Place
  <1> QED
    BY <1>1, <1>2, <1>3, TalksKeeps
       DEF ConstructCLI, At, IInv, ProgramInv, TypeOK, Orderly, Consent, Agreed, Before, After,
           WithThread, Place

LEMMA runKeeps == IInv /\ run => IInv'
  <1> SUFFICES ASSUME IInv, run PROVE IInv' OBVIOUS
  <1>1. \E to \in {"plan", "shutdown"} : Talks("script", to)
    BY DEF run, At, Goto, Say, SayAndQuit, Silently, Talks
  <1>2. UNCHANGED <<ops, orch, screen>> BY DEF run
  <1>3. "script" \in Place \ {"start", "return", "joining", "exited"} BY DEF Place
  <1> QED
    BY <1>1, <1>2, <1>3, TalksKeeps
       DEF run, At, IInv, ProgramInv, TypeOK, Orderly, Consent, Agreed, Before, After,
           WithThread, Place

LEMMA execute_scriptKeeps == IInv /\ execute_script => IInv'
  <1> SUFFICES ASSUME IInv, execute_script PROVE IInv' OBVIOUS
  <1>1. \E to \in {"choose", "shutdown"} : Talks("plan", to)
    BY DEF execute_script, At, Goto, Say, SayAndQuit, Silently, Talks
  <1>2. UNCHANGED <<ops, orch, screen>> BY DEF execute_script
  <1>3. "plan" \in Place \ {"start", "return", "joining", "exited"} BY DEF Place
  <1> QED
    BY <1>1, <1>2, <1>3, TalksKeeps
       DEF execute_script, At, IInv, ProgramInv, TypeOK, Orderly, Consent, Agreed, Before, After,
           WithThread, Place

LEMMA ChooseKeeps == IInv /\ Choose => IInv'
  <1> SUFFICES ASSUME IInv, Choose PROVE IInv' OBVIOUS
  <1>1. \E to \in {"dry_run", "ask", "acknowledged"} :
          /\ Talks("choose", to)
          /\ to # "dry_run" => ~ops.dry_run
          /\ to = "acknowledged" => ops.acknowledged_responsibility
    BY DEF Choose, At, Goto, Say, SayAndQuit, Silently, Talks
  <1>2. UNCHANGED <<ops, orch, screen>> BY DEF Choose
  <1>3. "choose" \in Place \ {"start", "return", "joining", "exited"} BY DEF Place
  <1> QED
    BY <1>1, <1>2, <1>3, TalksKeeps
       DEF Choose, At, IInv, ProgramInv, TypeOK, Orderly, Consent, Agreed, Before, After,
           WithThread, Place

LEMMA dry_runKeeps == IInv /\ dry_run => IInv'
  <1> SUFFICES ASSUME IInv, dry_run PROVE IInv' OBVIOUS
  <1>1. \E to \in {"shutdown"} : Talks("dry_run", to)
    BY DEF dry_run, At, Goto, Say, SayAndQuit, Silently, Talks
  <1>2. UNCHANGED <<ops, orch, screen>> BY DEF dry_run
  <1>3. "dry_run" \in Place \ {"start", "return", "joining", "exited"} BY DEF Place
  <1> QED
    BY <1>1, <1>2, <1>3, TalksKeeps
       DEF dry_run, At, IInv, ProgramInv, TypeOK, Orderly, Consent, Agreed, Before, After,
           WithThread, Place

LEMMA AskKeeps == IInv /\ Ask => IInv'
  <1> SUFFICES ASSUME IInv, Ask PROVE IInv' OBVIOUS
  <1>1. \E to \in {"getline"} : Talks("ask", to)
    BY DEF Ask, At, Goto, Say, SayAndQuit, Silently, Talks
  <1>2. UNCHANGED <<ops, orch, screen>> BY DEF Ask
  <1>3. "ask" \in Place \ {"start", "return", "joining", "exited"} BY DEF Place
  <1> QED
    BY <1>1, <1>2, <1>3, TalksKeeps
       DEF Ask, At, IInv, ProgramInv, TypeOK, Orderly, Consent, Agreed, Before, After,
           WithThread, Place

LEMMA BuildOrchestratorKeeps == IInv /\ BuildOrchestrator => IInv'
  <1> SUFFICES ASSUME IInv, BuildOrchestrator PROVE IInv' OBVIOUS
  <1>1. \E to \in {"solo", "spawn", "shutdown"} : Talks("build", to)
    BY DEF BuildOrchestrator, At, Goto, Say, SayAndQuit, Silently, Talks
  <1>2. UNCHANGED <<ops, orch, screen>> BY DEF BuildOrchestrator
  <1>3. "build" \in Place \ {"start", "return", "joining", "exited"} BY DEF Place
  <1> QED
    BY <1>1, <1>2, <1>3, TalksKeeps
       DEF BuildOrchestrator, At, IInv, ProgramInv, TypeOK, Orderly, Consent, Agreed, Before, After,
           WithThread, Place

LEMMA SoloReturnsKeeps == IInv /\ SoloReturns => IInv'
  <1> SUFFICES ASSUME IInv, SoloReturns PROVE IInv' OBVIOUS
  <1>1. \E to \in {"shutdown"} : Talks("solo_runs", to)
    BY DEF SoloReturns, At, Goto, Say, SayAndQuit, Silently, Talks
  <1>2. UNCHANGED <<ops, orch, screen>> BY DEF SoloReturns
  <1>3. "solo_runs" \in Place \ {"start", "return", "joining", "exited"} BY DEF Place
  <1> QED
    BY <1>1, <1>2, <1>3, TalksKeeps
       DEF SoloReturns, At, IInv, ProgramInv, TypeOK, Orderly, Consent, Agreed, Before, After,
           WithThread, Place

\* Only the right answer leads on to the orchestrator.
LEMMA AcknowledgementKeeps ==
    ASSUME IInv, NEW understands \in BOOLEAN, request_acknowledgement(understands)
    PROVE  IInv'
  <1>1. CASE ~understands
    <2>1. Talks("getline", "shutdown")
      BY <1>1 DEF request_acknowledgement, At, SayAndQuit, Talks
    <2>2. UNCHANGED <<ops, orch, screen>> BY DEF request_acknowledgement
    <2> QED
      BY <2>1, <2>2, TalksKeeps
         DEF Talks, IInv, ProgramInv, Orderly, Consent, Before, After, WithThread, Place
  <1>2. CASE understands
    <2> USE DEF IInv, ProgramInv
    <2>1. /\ cli.pc = "getline" /\ cli' = [cli EXCEPT !.pc = "acknowledged", !.understood = TRUE]
          /\ UNCHANGED <<loggerVars, ops, orch, screen>>
      BY <1>2 DEF request_acknowledgement, At
    <2>2. LoggerInv' BY <2>1, IdleKeeps
    <2>3. TypeOK' BY <2>1 DEF TypeOK, Place
    <2>4. Orderly'
      BY <2>1 DEF TypeOK, Orderly, Before, WithThread, After, loggerVars
    <2>5. Consent'
      BY <2>1 DEF TypeOK, Consent, Agreed, WithThread, OnlyAcknowledgedTraffic
    <2>6. Links' BY <2>1 DEF TypeOK, Links, loggerVars
    <2> QED BY <2>2, <2>3, <2>4, <2>5, <2>6
  <1> QED BY <1>1, <1>2

\* A shard logs only before it is joined, so the worker is there.
LEMMA ShardLogsKeeps == IInv /\ ShardLogs => IInv'
  <1> SUFFICES ASSUME IInv, ShardLogs PROVE IInv' OBVIOUS
  <1> USE DEF IInv, ProgramInv
  <1>1. /\ orch.shards /\ orch' = [orch EXCEPT !.logged = @ + 1]
        /\ orch.logged < MaxLogged /\ push_message("shards", WARN)
        /\ UNCHANGED <<ops, cli, screen>>
    BY DEF ShardLogs
  <1>2. LoggerInv' BY <1>1, WorkerStays, PushKeeps, ThreadsAre
  <1>3. UNCHANGED <<level_, running_, notify_, worker>> /\ owes' \subseteq owes \cup {"shards"}
    BY <1>1, PushFrame
  <1>4. orch.logged + 1 \in 0 .. MaxLogged BY <1>1, CliAssumption DEF TypeOK
  <1>5. TypeOK' BY <1>1, <1>4 DEF TypeOK
  <1>6. orch'.state = orch.state /\ orch'.shards = orch.shards BY <1>1 DEF TypeOK
  <1>7. Orderly' BY <1>1, <1>3, <1>6 DEF Orderly
  <1>8. Consent' BY <1>1, <1>6 DEF Consent, Agreed, OnlyAcknowledgedTraffic
  <1>9. Links' BY <1>1, <1>3 DEF Links
  <1> QED BY <1>2, <1>5, <1>7, <1>8, <1>9

\* start() returns when its shards are through with the logger.
LEMMA StartReturnsKeeps == IInv /\ StartReturns => IInv'
  <1> SUFFICES ASSUME IInv, StartReturns PROVE IInv' OBVIOUS
  <1> USE DEF IInv, ProgramInv
  <1>1. /\ orch.state = "running" /\ "shards" \notin owes
        /\ UNCHANGED <<loggerVars, ops, cli, screen>>
        /\ orch' = [orch EXCEPT !.state = IF OwnThread THEN "leaving" ELSE "ended",
                                !.shards = FALSE]
    BY DEF StartReturns
  <1>2. LoggerInv' BY <1>1, IdleKeeps
  <1>3. TypeOK' BY <1>1 DEF TypeOK
  <1>4. orch'.state = (IF OwnThread THEN "leaving" ELSE "ended") /\ orch'.shards = FALSE
    BY <1>1 DEF TypeOK
  <1>5. Orderly'
    BY <1>1, <1>4 DEF TypeOK, Place, Orderly, OwnThread, Before, WithThread, After, loggerVars
  <1>6. Consent' BY <1>1, <1>4 DEF Consent, Agreed, OnlyAcknowledgedTraffic
  <1>7. Links' BY <1>1 DEF Links, loggerVars
  <1> QED BY <1>2, <1>3, <1>5, <1>6, <1>7

\* A thread of its own logs what was thrown and leaves the shards running; the
\* main thread has joined them by then.
LEMMA StartThrowsKeeps == IInv /\ StartThrows => IInv'
  <1> SUFFICES ASSUME IInv, StartThrows PROVE IInv' OBVIOUS
  <1> USE DEF IInv, ProgramInv
  <1>1. orch.state = "running" /\ UNCHANGED <<ops, cli, screen>>
    BY DEF StartThrows
  <1>2. CASE OwnThread
    <2>1. orch' = [orch EXCEPT !.state = "leaving"] /\ push_message("orchestrator", ERROR)
      BY <1>2 DEF StartThrows
    <2>2. LoggerInv' BY <1>1, <2>1, WorkerStays, PushKeeps, ThreadsAre
    <2>3. UNCHANGED <<level_, running_, notify_, worker>> /\ owes' \subseteq owes \cup {"orchestrator"}
      BY <2>1, PushFrame
    <2>4. TypeOK' BY <1>1, <2>1 DEF TypeOK
    <2>5. orch'.state = "leaving" /\ orch'.shards = orch.shards BY <2>1 DEF TypeOK
    <2>6. Orderly'
      BY <1>1, <1>2, <2>3, <2>5
         DEF TypeOK, Place, Orderly, OwnThread, Before, WithThread, After
    <2>7. Consent' BY <1>1, <2>5 DEF Consent, Agreed, OnlyAcknowledgedTraffic
    <2>8. Links' BY <1>1, <2>3 DEF Links
    <2> QED BY <2>2, <2>4, <2>6, <2>7, <2>8
  <1>3. CASE ~OwnThread
    <2>1. /\ orch' = [orch EXCEPT !.state = "threw", !.shards = FALSE]
          /\ "shards" \notin owes /\ UNCHANGED loggerVars
      BY <1>3 DEF StartThrows
    <2>2. LoggerInv' BY <2>1, IdleKeeps
    <2>3. TypeOK' BY <1>1, <2>1 DEF TypeOK
    <2>4. orch'.state = "threw" /\ orch'.shards = FALSE BY <2>1 DEF TypeOK
    <2>5. Orderly'
      BY <1>1, <1>3, <2>1, <2>4
         DEF TypeOK, Place, Orderly, OwnThread, Before, WithThread, After, loggerVars
    <2>6. Consent' BY <1>1, <2>4 DEF Consent, Agreed, OnlyAcknowledgedTraffic
    <2>7. Links' BY <1>1, <2>1 DEF Links, loggerVars
    <2> QED BY <2>2, <2>3, <2>5, <2>6, <2>7
  <1> QED BY <1>2, <1>3

\* The worker leaves only a logger that was stopped.
LEMMA LoggerStepKeeps == IInv /\ LoggerStep => IInv'
  <1> SUFFICES ASSUME IInv, LoggerStep PROVE IInv' OBVIOUS
  <1> USE DEF IInv, ProgramInv
  <1>1. UNCHANGED <<ops, cli, orch, screen>> BY DEF LoggerStep, cliVars
  <1>2. LoggerInv'
    BY WorkerMovesKeeps, WorkerSwapsKeeps, WorkerPrintsKeeps DEF LoggerStep, WorkerSteps
  <1>3. UNCHANGED <<level_, running_, notify_>> /\ owes' \subseteq owes
    BY DEF LoggerStep, WorkerSteps, notify_one, WorkerWaits, WorkerSwaps, WorkerPrints,
           WorkerLoops, SpuriousWakeup, control
  <1>4. worker \in {"none", "exited"} => worker' = worker
    BY DEF LoggerStep, WorkerSteps, notify_one, WorkerWaits, WorkerSwaps, WorkerPrints,
           WorkerLoops, SpuriousWakeup, control
  <1>5. worker' = "none" => worker = "none"
    BY DEF LoggerStep, WorkerSteps, notify_one, WorkerWaits, WorkerSwaps, WorkerPrints,
           WorkerLoops, SpuriousWakeup, control
  <1>6. TypeOK' BY <1>1 DEF TypeOK
  <1>7. Orderly' BY <1>1, <1>3 DEF Orderly
  <1>8. Consent' BY <1>1 DEF Consent, Agreed, OnlyAcknowledgedTraffic
  <1>9. Links' BY <1>1, <1>3, <1>4, <1>5 DEF Links
  <1> QED BY <1>2, <1>6, <1>7, <1>8, <1>9

-----------------------------------------------------------------------------
(* Theorems. *)

LEMMA InitHolds == Init => IInv
  <1> SUFFICES ASSUME Init PROVE IInv OBVIOUS
  <1> USE DEF Init, LoggerInit
  <1>0. <<>> \in Seq(Message) /\ {} \in SUBSET Message OBVIOUS
  <1>1. LoggerType BY <1>0 DEF LoggerType
  <1>2. Done = 0 /\ Taken = 0 /\ Len(hist.pushed) = 0 /\ Len(hist.printed) = 0
        /\ Len(msg_queue_) = 0 /\ Len(processing_queue) = 0
    BY DEF Done, Taken
  <1>3. Streams BY <1>2 DEF Streams
  <1>4. Output BY <1>2 DEF Output
  <1>5. HeldBack /\ Worker BY DEF HeldBack, Worker, NoMissedNotify
  <1>6. TypeOK BY CliAssumption DEF TypeOK, Place
  <1>7. Orderly BY DEF Orderly, Before, WithThread, After
  <1>8. Consent BY DEF Consent, WithThread, OnlyAcknowledgedTraffic
  <1>9. Links BY DEF Links
  <1> QED
    BY <1>1, <1>3, <1>4, <1>5, <1>6, <1>7, <1>8, <1>9 DEF IInv, LoggerInv, ProgramInv

\* Every thread of the program keeps the invariant.
THEOREM Invariance == Spec => []IInv
  <1>1. IInv /\ [Next]_vars => IInv'
    <2> SUFFICES ASSUME IInv, [Next]_vars PROVE IInv' OBVIOUS
    <2>1. CASE Main
      BY <2>1, mainKeeps, parse_cliKeeps, BannerKeeps, ConstructCLIKeeps, runKeeps,
         execute_scriptKeeps, ChooseKeeps, dry_runKeeps, AskKeeps, AcknowledgedKeeps,
         BuildOrchestratorKeeps, SoloStartsKeeps, SoloReturnsKeeps, SpawnThreadKeeps,
         PauseLoggerKeeps, EnterLoopKeeps, LoopReturnsKeeps, ResumeLoggerKeeps,
         JoinThreadKeeps, DestroyOrchestratorKeeps, ShutdownLoggerKeeps, DestroyLoggerKeeps,
         JoinWorkerKeeps DEF Main
    <2>2. CASE User BY <2>2, QuitPressedKeeps, AcknowledgementKeeps DEF User
    <2>3. CASE ShardLogs BY <2>3, ShardLogsKeeps
    <2>4. CASE StartReturns \/ StartThrows BY <2>4, StartReturnsKeeps, StartThrowsKeeps
    <2>5. CASE CloseScreen BY <2>5, CloseScreenKeeps
    <2>6. CASE LoggerStep BY <2>6, LoggerStepKeeps
    <2>7. CASE UNCHANGED vars
      <3> USE DEF IInv, ProgramInv
      <3>1. UNCHANGED loggerVars /\ UNCHANGED <<ops, cli, orch, screen>>
        BY <2>7 DEF vars, cliVars
      <3>2. LoggerInv' BY <3>1, IdleKeeps
      <3>3. TypeOK' BY <3>1 DEF TypeOK
      <3>4. Orderly' BY <3>1 DEF Orderly, loggerVars
      <3>5. Consent' BY <3>1 DEF Consent, Agreed, OnlyAcknowledgedTraffic
      <3>6. Links' BY <3>1 DEF Links, loggerVars
      <3> QED BY <3>2, <3>3, <3>4, <3>5, <3>6
    <2> QED BY <2>1, <2>2, <2>3, <2>4, <2>5, <2>6, <2>7 DEF Next
  <1> QED BY InitHolds, <1>1, PTL DEF Spec

\* The main thread, the orchestrator and the screen keep their types.
THEOREM TypeCorrect == Spec => []TypeOK
  <1>1. IInv => TypeOK BY DEF IInv, ProgramInv
  <1> QED BY Invariance, <1>1, PTL

\* A worker that is blocked although it may proceed is about to be notified,
\* whoever pushes, pauses, resumes or shuts down in between.
THEOREM NotifiesArrive == Spec => []NoMissedNotify
  <1>1. IInv => NoMissedNotify BY DEF IInv, LoggerInv, Worker
  <1> QED BY Invariance, <1>1, PTL

\* Nothing pushed while the logger is paused for the UI is printed meanwhile.
THEOREM PauseHolds == Spec => []HeldWhilePaused
  <1>1. IInv => HeldWhilePaused
    <2> SUFFICES ASSUME IInv, ~notify_, NEW m \in hist.held, m \in ToSet(hist.printed)
                 PROVE  FALSE
      BY DEF HeldWhilePaused
    <2> USE DEF IInv, LoggerInv
    <2>1. PICK i \in 1 .. Len(hist.printed) : m = hist.printed[i]
      BY DEF ToSet, LoggerType
    <2>2. m.number > Taken /\ m.number \in 1 .. Done BY <2>1 DEF HeldBack, Output
    <2>3. Taken \in Int /\ Done \in Int /\ Done <= Taken BY DEF Taken, Done, LoggerType
    <2> QED BY <2>2, <2>3
  <1> QED BY Invariance, <1>1, PTL

\* No orchestrator without consent, whatever the command line and the answers.
THEOREM ConsentFirst == Spec => []OnlyAcknowledgedTraffic
  <1>1. IInv => OnlyAcknowledgedTraffic BY DEF IInv, ProgramInv, Consent
  <1> QED BY Invariance, <1>1, PTL

\* The screen outlives the orchestrator's thread, and the logger the shards.
THEOREM ThreadsJoined == Spec => []ThreadOutlived
  <1>1. IInv => ThreadOutlived
    BY CliAssumption
       DEF IInv, LoggerInv, LoggerType, ProgramInv, Orderly, After, WithThread, ThreadOutlived
  <1> QED BY Invariance, <1>1, PTL

\* When the program exits, all that was logged is printed, in order and once;
\* with --quiet, all that is at least a warning.
THEOREM NothingUnprinted == Spec => []EverythingPrinted
  <1>1. IInv => EverythingPrinted
    <2> SUFFICES ASSUME IInv, cli.pc = "exited"
                 PROVE  /\ PrintedInOrder
                        /\ Loud(hist.pushed) \subseteq ToSet(hist.printed)
                        /\ ~ops.quiet => hist.printed = hist.pushed
      BY DEF EverythingPrinted
    <2> USE DEF IInv, LoggerInv, ProgramInv
    <2>1. processing_queue = <<>> /\ msg_queue_ = <<>> BY DEF Links, Worker
    <2>2. /\ hist.pushed \in Seq(Message) /\ hist.printed \in Seq(Message)
          /\ Len(hist.pushed) \in Nat /\ Len(hist.printed) \in Nat
          /\ DOMAIN hist.pushed = 1 .. Len(hist.pushed)
          /\ DOMAIN hist.printed = 1 .. Len(hist.printed)
      BY DEF LoggerType
    <2>3. Done = Len(hist.pushed) BY <2>1, <2>2 DEF Done, Taken
    <2>4. PrintedInOrder BY <2>2, <2>3 DEF Output, PrintedInOrder
    <2>5. Loud(hist.pushed) \subseteq ToSet(hist.printed)
      BY <2>2, <2>3 DEF Output, Loud, ToSet
    <2>6. ~ops.quiet => hist.printed = hist.pushed
      BY <2>2, <2>3 DEF Output, Links
    <2> QED BY <2>4, <2>5, <2>6
  <1> QED BY Invariance, <1>1, PTL
================================================================================
