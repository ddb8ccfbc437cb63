----------------------------- MODULE UdpSession -----------------------------
(***************************************************************************)
(* One UDPSession (transports/udp-session.cpp).  It differs from the TCP   *)
(* session where the transport does: start() opens and connects the socket *)
(* in one handler, so there is no connecting_ state, and a datagram is one *)
(* receive.  The receive buffer is never larger than payload_size_limit,   *)
(* so the test for a datagram that is too big cannot succeed.  As in       *)
(* module TcpSession a step is one handler of the session's strand, and    *)
(* closing the socket aborts the operations still pending.                 *)
(***************************************************************************)
EXTENDS Naturals, Sequences

CONSTANTS
    NumPayloads,    \* payloads_.size() of the PayloadManager
    LoopPayloads,   \* config_.loop_payloads
    ReadMessages,   \* config_.read_messages
    SendCounts,     \* the counts a SEND action may carry
    AllowFlood,     \* whether the script floods the session
    MaxMsgs         \* bound: how many datagrams the server sends

ASSUME ConstantsAssumption ==
    /\ NumPayloads \in Nat
    /\ LoopPayloads \in BOOLEAN
    /\ ReadMessages \in BOOLEAN
    /\ SendCounts \subseteq Nat \ {0}
    /\ AllowFlood \in BOOLEAN
    /\ MaxMsgs \in Nat
    /\ LoopPayloads /\ AllowFlood => NumPayloads > 0  \* see do_write

VARIABLES
    sess,     \* the session's members and its outstanding operations
    cmds,     \* commands posted by the pool, oldest first
    script,   \* what verify_script() remembers of the session
    env       \* what happened so far outside the session

vars == <<sess, cmds, script, env>>

OpKind == {"receive", "send"}
OpStatus == {"pending", "ok", "err"}

Command == [op : {"start", "flood", "send", "drain", "stop"}, n : Nat]

TypeOK ==
    /\ sess \in [live_ : BOOLEAN, flood_ : BOOLEAN, draining_ : BOOLEAN,
                 writing_ : BOOLEAN, writes_queued_ : Nat, responses_ : Nat,
                 next_payload_index_ : Nat, open : BOOLEAN,
                 ops : [OpKind -> [OpStatus -> Nat]], posts : Nat,
                 starts : Nat, disconnects : Nat, requested : Nat]
    /\ cmds \in Seq(Command)
    /\ script \in [active : BOOLEAN, started : BOOLEAN, stopped : BOOLEAN, sent : Nat]
    /\ env \in [msgs : Nat, failed : BOOLEAN, stopRan : BOOLEAN]

Init ==
    /\ sess = [live_ |-> FALSE, flood_ |-> FALSE, draining_ |-> FALSE,
               writing_ |-> FALSE, writes_queued_ |-> 0, responses_ |-> 0,
               next_payload_index_ |-> 0, open |-> FALSE,
               ops |-> [k \in OpKind |-> [r \in OpStatus |-> 0]], posts |-> 0,
               starts |-> 0, disconnects |-> 0, requested |-> 0]
    /\ cmds = <<>>
    /\ script = [active |-> FALSE, started |-> FALSE, stopped |-> FALSE, sent |-> 0]
    /\ env = [msgs |-> 0, failed |-> FALSE, stopRan |-> FALSE]

-----------------------------------------------------------------------------
Begin(s, kind) ==
    [s EXCEPT !.ops[kind][IF s.open THEN "pending" ELSE "err"] = @ + 1]

Aborted(ops) ==
    [k \in OpKind |->
        [ops[k] EXCEPT !["pending"] = 0, !["err"] = @ + ops[k]["pending"]]]

Consume(s, kind, result) == [s EXCEPT !.ops[kind][result] = @ - 1]

Outstanding(s, kind) ==
    s.ops[kind]["pending"] + s.ops[kind]["ok"] + s.ops[kind]["err"]

-----------------------------------------------------------------------------
(* The session's functions *)

close_session(s) ==
    IF s.live_
    THEN [s EXCEPT !.ops = Aborted(s.ops), !.open = FALSE,
                   !.live_ = FALSE, !.disconnects = @ + 1]
    ELSE s

WantsPayload(s) == s.flood_ \/ s.writes_queued_ > 0

Exhausted(s) == s.next_payload_index_ >= NumPayloads

SendResponse(s) ==
    Begin([s EXCEPT !.responses_ = @ - 1, !.writing_ = TRUE], "send")

SendPayload(s) ==
    Begin([s EXCEPT !.writes_queued_ = IF s.flood_ THEN @ ELSE @ - 1,
                    !.next_payload_index_ = @ + 1, !.writing_ = TRUE], "send")

\* Fault: the end of the write loop forgets the drain.
do_write_ForgetsDrain(s) ==
    LET rewound == [s EXCEPT !.next_payload_index_ =
                       IF Exhausted(s) /\ LoopPayloads /\ ~s.draining_ THEN 0 ELSE @]
    IN  CASE s.responses_ > 0 -> SendResponse(s)
          [] s.responses_ = 0 /\ WantsPayload(s) /\ ~Exhausted(rewound) -> SendPayload(rewound)
          [] OTHER -> [s EXCEPT !.writing_ = FALSE]

\* A looping session that runs out of payloads starts at 0 again.  (With no
\* payload at all the call would not return: module TcpSession.)
do_write(s) ==
    LET rewound == [s EXCEPT !.next_payload_index_ =
                       IF Exhausted(s) /\ LoopPayloads /\ ~s.draining_ THEN 0 ELSE @]
        idle == [s EXCEPT !.writing_ = FALSE]
    IN  CASE s.responses_ > 0 -> SendResponse(s)
          [] s.responses_ = 0 /\ WantsPayload(s) /\ ~Exhausted(rewound) -> SendPayload(rewound)
          [] OTHER -> IF s.draining_ THEN close_session(idle) ELSE idle

\* Fault: responses are not a reason to start writing.
try_start_write_IgnoresResponses(s) ==
    CASE s.writing_ -> s
      [] ~s.writing_ /\ WantsPayload(s) -> do_write(s)
      [] OTHER -> IF s.draining_ THEN close_session(s) ELSE s

try_start_write(s) ==
    CASE s.writing_ -> s
      [] ~s.writing_ /\ (WantsPayload(s) \/ s.responses_ > 0) -> do_write(s)
      [] OTHER -> IF s.draining_ THEN close_session(s) ELSE s

do_read(s) == Begin(s, "receive")

\* Fault: the next receive is started before the datagram is handled.
handle_message_ReadsAhead(s) == do_read([s EXCEPT !.posts = @ + 1])

handle_message(s) == [s EXCEPT !.posts = @ + 1]

on_connect(s) ==
    LET r == IF ReadMessages THEN do_read(s) ELSE s
    IN  IF ~r.writing_ /\ WantsPayload(r) THEN do_write(r) ELSE r

-----------------------------------------------------------------------------
(* What the pool posts, as verify_script() allows it; one CONNECT. *)

PostStart ==
    /\ ~script.started
    /\ script' = [script EXCEPT !.started = TRUE, !.active = TRUE]
    /\ cmds' = Append(cmds, [op |-> "start", n |-> 0])
    /\ UNCHANGED <<sess, env>>

PostSend(n) ==
    /\ script.active
    /\ script.sent + n <= NumPayloads
    /\ script' = [script EXCEPT !.sent = @ + n]
    /\ cmds' = Append(cmds, [op |-> "send", n |-> n])
    /\ UNCHANGED <<sess, env>>

PostFlood ==
    /\ AllowFlood
    /\ script.active
    /\ ~sess.flood_
    /\ \A i \in DOMAIN cmds : cmds[i].op # "flood"
    /\ cmds' = Append(cmds, [op |-> "flood", n |-> 0])
    /\ UNCHANGED <<sess, script, env>>

PostDrain ==
    /\ script.active
    /\ script' = [script EXCEPT !.active = FALSE]
    /\ cmds' = Append(cmds, [op |-> "drain", n |-> 0])
    /\ UNCHANGED <<sess, env>>

PostStop ==
    /\ ~script.stopped
    /\ script' = [script EXCEPT !.stopped = TRUE]
    /\ cmds' = Append(cmds, [op |-> "stop", n |-> 0])
    /\ UNCHANGED <<sess, env>>

-----------------------------------------------------------------------------
(* Handlers of posted commands *)

Take(op) ==
    /\ cmds # <<>>
    /\ Head(cmds).op = op
    /\ cmds' = Tail(cmds)

\* Fault: a start() that fails does not report the disconnect.
start_ForgetsCallback(opened) ==
    /\ Take("start")
    /\ LET s == [sess EXCEPT !.live_ = opened, !.starts = @ + 1]
       IN  sess' = IF opened THEN on_connect([s EXCEPT !.open = TRUE]) ELSE s
    /\ env' = [env EXCEPT !.failed = @ \/ ~opened]
    /\ UNCHANGED script

\* open() or connect() may fail; both leave the session closed again.
start(opened) ==
    /\ Take("start")
    /\ LET s == [sess EXCEPT !.live_ = TRUE, !.starts = @ + 1]
       IN  sess' = IF opened THEN on_connect([s EXCEPT !.open = TRUE]) ELSE close_session(s)
    /\ env' = [env EXCEPT !.failed = @ \/ ~opened]
    /\ UNCHANGED script

flood ==
    /\ Take("flood")
    /\ LET s == [sess EXCEPT !.flood_ = TRUE]
       IN  sess' = CASE sess.flood_ \/ sess.draining_ -> sess
                     [] ~(sess.flood_ \/ sess.draining_) ->
                           IF s.live_ THEN try_start_write(s) ELSE s
    /\ UNCHANGED <<script, env>>

send ==
    /\ Take("send")
    /\ LET n == Head(cmds).n
           s == [sess EXCEPT !.writes_queued_ = @ + n, !.requested = @ + n]
       IN  sess' = IF s.live_ THEN try_start_write(s) ELSE s
    /\ UNCHANGED <<script, env>>

\* Fault: drain() does not look at the queued payloads.
drain_IgnoresQueue ==
    /\ Take("drain")
    /\ sess' = close_session([sess EXCEPT !.draining_ = TRUE])
    /\ UNCHANGED <<script, env>>

drain ==
    /\ Take("drain")
    /\ LET s == [sess EXCEPT !.draining_ = TRUE]
       IN  sess' = IF ~s.writing_ /\ s.writes_queued_ = 0 /\ s.responses_ = 0
                   THEN close_session(s)
                   ELSE s
    /\ UNCHANGED <<script, env>>

stop ==
    /\ Take("stop")
    /\ sess' = close_session(sess)
    /\ env' = [env EXCEPT !.stopRan = TRUE]
    /\ UNCHANGED script

-----------------------------------------------------------------------------
(* Completion handlers *)

ReceiveDone(result) ==
    /\ sess.ops["receive"][result] > 0
    /\ LET s == Consume(sess, "receive", result)
       IN  sess' = IF result = "err" THEN close_session(s) ELSE handle_message(s)
    /\ UNCHANGED <<cmds, script, env>>

SendDone(result) ==
    /\ sess.ops["send"][result] > 0
    /\ LET s == Consume(sess, "send", result)
       IN  sess' = IF result = "err" THEN close_session(s) ELSE do_write(s)
    /\ UNCHANGED <<cmds, script, env>>

\* The continuation posted by handle_message().
ResponseReady(reply) ==
    /\ sess.posts > 0
    /\ LET s == [sess EXCEPT !.posts = @ - 1]
           w == IF reply THEN try_start_write([s EXCEPT !.responses_ = @ + 1]) ELSE s
       IN  sess' = do_read(w)
    /\ UNCHANGED <<cmds, script, env>>

\* The kernel: a datagram arrives or was handed over, or an error (an ICMP
\* "port unreachable" among others) is reported.
Complete(kind, result) ==
    /\ sess.ops[kind]["pending"] > 0
    /\ kind = "receive" /\ result = "ok" => env.msgs < MaxMsgs
    /\ sess' = [sess EXCEPT !.ops[kind]["pending"] = @ - 1, !.ops[kind][result] = @ + 1]
    /\ env' = [env EXCEPT
                 !.msgs = IF kind = "receive" /\ result = "ok" THEN @ + 1 ELSE @,
                 !.failed = @ \/ result = "err"]
    /\ UNCHANGED <<cmds, script>>

-----------------------------------------------------------------------------
RunCommand == (\E opened \in BOOLEAN : start(opened)) \/ flood \/ send \/ drain \/ stop

Next ==
    \/ PostStart \/ PostFlood \/ PostDrain \/ PostStop
    \/ \E n \in SendCounts : PostSend(n)
    \/ RunCommand
    \/ \E result \in {"ok", "err"} : ReceiveDone(result) \/ SendDone(result)
    \/ \E reply \in BOOLEAN : ResponseReady(reply)
    \/ \E kind \in OpKind, result \in {"ok", "err"} : Complete(kind, result)

\* A strand runs every handler queued on it, and the kernel takes every
\* datagram in the end; nothing makes the server send anything.
Fairness ==
    /\ WF_vars(RunCommand)
    /\ \A result \in {"ok", "err"} : WF_vars(ReceiveDone(result)) /\ WF_vars(SendDone(result))
    /\ WF_vars(\E reply \in BOOLEAN : ResponseReady(reply))
    /\ WF_vars(\E result \in {"ok", "err"} : Complete("send", result))

Spec == Init /\ [][Next]_vars /\ Fairness

-----------------------------------------------------------------------------
(* Properties *)

\* At most one async_send is outstanding and writing_ covers it; and there is
\* one read loop: the receive and the continuation of handle_message() hand a
\* single token on, so packet_buffer_ is never written while it is parsed.
OneSendOneReceive ==
    /\ Outstanding(sess, "send") <= 1
    /\ Outstanding(sess, "send") = 1 => sess.writing_
    /\ Outstanding(sess, "receive") + sess.posts <= 1

\* An open session that is not writing has nothing it could write: a response
\* or a send() arriving between two writes is picked up.
NoLostWakeup ==
    sess.live_ /\ ~sess.writing_ =>
        /\ sess.responses_ = 0
        /\ WantsPayload(sess) => Exhausted(sess) /\ ~LoopPayloads

\* A session that nobody stopped and that met no error closes only after a
\* drain, with every requested payload handed to the socket.
DrainDelivers ==
    sess.starts = 1 /\ ~sess.live_ /\ ~env.failed /\ ~env.stopRan =>
        /\ sess.draining_
        /\ sess.flood_ \/ sess.next_payload_index_ >= sess.requested

\* A draining session that was not told to flood closes, whatever arrives
\* before, between or after its sends, if no more than MaxMsgs datagrams do:
\* responses go out first, so that a server without end could keep it writing.
DrainCloses == (sess.draining_ /\ ~sess.flood_) ~> ~sess.live_

Contract == INSTANCE SessionContract
    WITH state <- IF sess.starts = 0 THEN "idle" ELSE IF sess.live_ THEN "live" ELSE "closed",
         notified <- sess.disconnects,
         stopping <- \E i \in DOMAIN cmds : cmds[i].op = "stop"

\* The UDP session keeps the contract the pool relies on: it closes and tells
\* the pool at most once, also when start() fails, and carries out a stop().
ImplementsContract == Contract!Spec
=============================================================================
