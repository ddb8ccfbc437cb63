-------------------------------- MODULE Logger --------------------------------
(***************************************************************************)
(* The asynchronous Logger (logger/logger.cpp, logger/logger.h).           *)
(*                                                                         *)
(* Any thread may push a message; one worker thread takes what was pushed  *)
(* and prints it.  A critical section of queue_mutex_ is one step; the     *)
(* notify_one() that follows it outside the lock is a step of its own,     *)
(* which the thread owes until it is taken.  Module Cli says which thread  *)
(* calls what and when.                                                    *)
(***************************************************************************)
EXTENDS Integers, Sequences, SequencesExt

CONSTANTS Threads   \* threads that call the logger

\* LogLevel, as far as the program sets level_: INFO, or WARN with --quiet.
INFO == 1
WARN == 2
ERROR == 3

VARIABLES
    level_, running_, notify_,
    msg_queue_,         \* messages pushed and not yet taken, oldest first
    worker,             \* "none", "checking", "blocked", "printing", "exited"
    processing_queue,
    owes,               \* the threads between unlocking the queue and notify_one()
    hist                \* pushed and printed, in order; pushed while paused

loggerVars == <<level_, running_, notify_, msg_queue_, worker, processing_queue, owes, hist>>

control == <<level_, running_, notify_>>

LoggerInit ==
    /\ level_ = INFO
    /\ running_ = FALSE
    /\ notify_ = TRUE
    /\ msg_queue_ = <<>>
    /\ worker = "none"
    /\ processing_queue = <<>>
    /\ owes = {}
    /\ hist = [pushed |-> <<>>, printed |-> <<>>, held |-> {}]

-----------------------------------------------------------------------------
(* What the threads call. *)

init ==
    /\ level_' = INFO
    /\ running_' = TRUE
    /\ worker' = "checking"
    /\ UNCHANGED <<notify_, msg_queue_, processing_queue, owes, hist>>

\* Not synchronised with the worker, which reads level_ for every message.
set_level(level) ==
    /\ level_' = level
    /\ UNCHANGED <<running_, notify_, msg_queue_, worker, processing_queue, owes, hist>>

pause ==
    /\ notify_' = FALSE
    /\ UNCHANGED <<level_, running_, msg_queue_, worker, processing_queue, owes, hist>>

\* Fault: the worker is not woken for what was pushed meanwhile.
resume_Silent(t) ==
    /\ notify_' = TRUE
    /\ hist' = [hist EXCEPT !.held = {}]
    /\ UNCHANGED <<level_, running_, msg_queue_, worker, processing_queue, owes>>

resume(t) ==
    /\ notify_' = TRUE
    /\ hist' = [hist EXCEPT !.held = {}]
    /\ owes' = owes \cup {t}
    /\ UNCHANGED <<level_, running_, msg_queue_, worker, processing_queue>>

shutdown(t) ==
    /\ running_' = FALSE
    /\ owes' = owes \cup {t}
    /\ UNCHANGED <<level_, notify_, msg_queue_, worker, processing_queue, hist>>

push_message(t, level) ==
    LET msg == [number |-> Len(hist.pushed) + 1, level |-> level]
    IN  /\ msg_queue_' = Append(msg_queue_, msg)
        /\ hist' = [hist EXCEPT !.pushed = Append(@, msg),
                                !.held = IF notify_ THEN @ ELSE @ \cup {msg}]
        /\ owes' = IF notify_ THEN owes \cup {t} ELSE owes
        /\ UNCHANGED <<control, worker, processing_queue>>

\* cv_.notify_one(): a worker blocked in wait() goes on to lock the queue and
\* to evaluate the predicate; otherwise nothing happens.
notify_one(t) ==
    /\ t \in owes
    /\ worker' = IF worker = "blocked" THEN "checking" ELSE worker
    /\ owes' = owes \ {t}
    /\ UNCHANGED <<control, msg_queue_, processing_queue, hist>>

-----------------------------------------------------------------------------
(* The worker thread. *)

\* The predicate of cv_.wait().
MayProceed == (notify_ /\ msg_queue_ # <<>>) \/ ~running_

WorkerWaits ==
    /\ worker = "checking" /\ ~MayProceed
    /\ worker' = "blocked"
    /\ UNCHANGED <<control, msg_queue_, processing_queue, owes, hist>>

\* Fault: a worker that wakes up takes the messages although printing is paused.
WorkerSwaps_IgnoresPause ==
    /\ worker = "checking" /\ (msg_queue_ # <<>> \/ ~running_)
    /\ processing_queue' = msg_queue_
    /\ msg_queue_' = <<>>
    /\ worker' = IF ~running_ /\ msg_queue_ = <<>> THEN "exited" ELSE "printing"
    /\ UNCHANGED <<control, owes, hist>>

\* Fault: a stopped worker leaves without looking at the queue.
WorkerSwaps_LeavesQueue ==
    /\ worker = "checking" /\ MayProceed
    /\ processing_queue' = msg_queue_
    /\ msg_queue_' = <<>>
    /\ worker' = IF ~running_ THEN "exited" ELSE "printing"
    /\ UNCHANGED <<control, owes, hist>>

WorkerSwaps ==
    /\ worker = "checking" /\ MayProceed
    /\ processing_queue' = msg_queue_
    /\ msg_queue_' = <<>>
    /\ worker' = IF ~running_ /\ msg_queue_ = <<>> THEN "exited" ELSE "printing"
    /\ UNCHANGED <<control, owes, hist>>

WorkerPrints ==
    /\ worker = "printing" /\ processing_queue # <<>>
    /\ processing_queue' = Tail(processing_queue)
    /\ hist' = [hist EXCEPT !.printed =
                  IF Head(processing_queue).level < level_ THEN @
                  ELSE Append(@, Head(processing_queue))]
    /\ UNCHANGED <<control, msg_queue_, worker, owes>>

WorkerLoops ==
    /\ worker = "printing" /\ processing_queue = <<>>
    /\ worker' = "checking"
    /\ UNCHANGED <<control, msg_queue_, processing_queue, owes, hist>>

\* A condition variable may wake up without having been notified.
SpuriousWakeup ==
    /\ worker = "blocked"
    /\ worker' = "checking"
    /\ UNCHANGED <<control, msg_queue_, processing_queue, owes, hist>>

WorkerSteps == WorkerWaits \/ WorkerSwaps \/ WorkerPrints \/ WorkerLoops

-----------------------------------------------------------------------------
(* Properties. *)

\* If the worker is blocked although its predicate holds, somebody is about to
\* notify it: no message and no shutdown can be slept through, also when a
\* message is pushed while printing is paused and notifies nobody.
NoMissedNotify == worker = "blocked" /\ MayProceed => owes # {}

\* What is pushed while printing is paused for the UI is not printed before the
\* UI lets go.  A batch the worker took before the pause is another matter: it
\* may still be printing it.
HeldWhilePaused ==
    ~notify_ => hist.held \cap ToSet(hist.printed) = {}

\* What is printed was pushed, and comes in the order it was pushed, once.
PrintedInOrder ==
    /\ \A i \in DOMAIN hist.printed :
          /\ hist.printed[i].number \in DOMAIN hist.pushed
          /\ hist.printed[i] = hist.pushed[hist.printed[i].number]
    /\ \A i, j \in DOMAIN hist.printed :
          i < j => hist.printed[i].number < hist.printed[j].number

\* Messages of a level that cannot be switched off.
Loud(messages) == {m \in ToSet(messages) : m.level >= WARN}
===============================================================================
