----------------------------- MODULE TcpSession -----------------------------
(***************************************************************************)
(* One TCPSession (transports/tcp-session.cpp) and what it talks to.       *)
(*                                                                         *)
(* Every function of the session runs on its strand, so a step of the      *)
(* model is one handler: a command posted by the SessionPool, the          *)
(* completion of an asynchronous operation, or the continuation posted by  *)
(* handle_message.  The functions a handler calls are operators from one   *)
(* session record to the next and are composed as the code composes them.  *)
(*                                                                         *)
(* The network decides when an operation completes and with which result.  *)
(* Closing the socket aborts the operations still pending; an operation    *)
(* that completed before keeps its result, its handler is only queued.     *)
(***************************************************************************)
EXTENDS Naturals, Sequences

CONSTANTS
    NumPayloads,    \* payloads_.size() of the PayloadManager
    LoopPayloads,   \* the values the REPEAT setting may give config_.loop_payloads
    ReadMessages,   \* config_.read_messages
    Traffic,        \* which of "send", "flood" the script uses on the session
    SendCounts,     \* the counts a SEND action may carry
    MaxStarts,      \* bound: how many CONNECTs the script has for the session
    MaxMsgs         \* bound: how many headers the server sends

ASSUME ConstantsAssumption ==
    /\ NumPayloads \in Nat
    /\ LoopPayloads \subseteq BOOLEAN
    /\ ReadMessages \in BOOLEAN
    /\ Traffic \subseteq {"send", "flood"}
    /\ SendCounts \subseteq Nat \ {0}
    /\ MaxStarts \in Nat
    /\ MaxMsgs \in Nat

VARIABLES
    sess,     \* the session's members and its outstanding asynchronous operations
    cmds,     \* commands posted to the strand by the pool, oldest first
    script,   \* what verify_script remembers of the session between actions
    env       \* what happened so far outside the session

vars == <<sess, cmds, script, env>>

OpKind == {"connect", "header", "body", "write"}
OpStatus == {"pending", "ok", "err"}

OpsType == [OpKind -> [OpStatus -> Nat]]

Command == [op : {"start", "flood", "send", "drain", "stop"}, n : Nat]

\* spinning marks a do_write() that recurses without end; starts, disconnects
\* and requested count start handlers, on_disconnect_ calls and payloads asked
\* for by send(); open tells whether socket_ is a connected descriptor.
SessionState ==
    [loop_payloads : BOOLEAN,
     live_ : BOOLEAN, connecting_ : BOOLEAN, flood_ : BOOLEAN,
     draining_ : BOOLEAN, writing_ : BOOLEAN,
     writes_queued_ : Nat, responses_ : Nat, next_payload_index_ : Nat,
     open : BOOLEAN, ops : OpsType, posts : Nat,
     spinning : BOOLEAN,
     starts : Nat, disconnects : Nat, requested : Nat]

TypeOK ==
    /\ sess \in SessionState
    /\ cmds \in Seq(Command)
    /\ script \in [active : BOOLEAN, stopped : BOOLEAN, connects : Nat, sent : Nat]
    /\ env \in [msgs : Nat, failed : BOOLEAN, stopRan : BOOLEAN]

Init ==
    /\ \E loop \in LoopPayloads :
          sess = [loop_payloads |-> loop,
                  live_ |-> FALSE, connecting_ |-> FALSE, flood_ |-> FALSE,
                  draining_ |-> FALSE, writing_ |-> FALSE,
                  writes_queued_ |-> 0, responses_ |-> 0, next_payload_index_ |-> 0,
                  open |-> FALSE,
                  ops |-> [k \in OpKind |-> [r \in OpStatus |-> 0]],
                  posts |-> 0, spinning |-> FALSE,
                  starts |-> 0, disconnects |-> 0, requested |-> 0]
    /\ cmds = <<>>
    /\ script = [active |-> FALSE, stopped |-> FALSE, connects |-> 0, sent |-> 0]
    /\ env = [msgs |-> 0, failed |-> FALSE, stopRan |-> FALSE]

-----------------------------------------------------------------------------
(* Asynchronous operations (Boost.Asio). *)

\* An operation begun on a socket that is not connected fails at once.
Begin(s, kind) ==
    [s EXCEPT !.ops[kind][IF s.open \/ kind = "connect" THEN "pending" ELSE "err"] = @ + 1]

Aborted(ops) ==
    [k \in OpKind |->
        [ops[k] EXCEPT !["pending"] = 0, !["err"] = @ + ops[k]["pending"]]]

Consume(s, kind, result) == [s EXCEPT !.ops[kind][result] = @ - 1]

Outstanding(s, kind) ==
    s.ops[kind]["pending"] + s.ops[kind]["ok"] + s.ops[kind]["err"]

-----------------------------------------------------------------------------
(* The session's functions, each from a session record to the next. *)

\* Fault: the guard against closing twice is missing.
close_session_Unguarded(s) ==
    [s EXCEPT !.ops = Aborted(s.ops), !.open = FALSE,
              !.live_ = FALSE, !.disconnects = @ + 1]

close_session(s) ==
    IF s.live_
    THEN [s EXCEPT !.ops = Aborted(s.ops), !.open = FALSE,
                   !.live_ = FALSE, !.disconnects = @ + 1]
    ELSE s

handle_stream_error(s) == close_session(s)

\* The tail of do_write(): nothing (more) to write.
StopWriting(s) ==
    LET idle == [s EXCEPT !.writing_ = FALSE]
    IN  IF s.draining_ THEN close_session(idle) ELSE idle

WriteResponse(s) ==
    Begin([s EXCEPT !.responses_ = @ - 1, !.writing_ = TRUE], "write")

\* Fault: the queue is decremented while flooding too.
WritePayload_AlwaysDecrements(s) ==
    Begin([s EXCEPT !.writes_queued_ = @ - 1,
                    !.next_payload_index_ = @ + 1,
                    !.writing_ = TRUE], "write")

WritePayload(s) ==
    Begin([s EXCEPT !.writes_queued_ = IF s.flood_ THEN @ ELSE @ - 1,
                    !.next_payload_index_ = @ + 1,
                    !.writing_ = TRUE], "write")

WantsPayload(s) == s.flood_ \/ s.writes_queued_ > 0

\* fill_payload() answers false at the end of the list.
Exhausted(s) == s.next_payload_index_ >= NumPayloads

\* Fault: a draining session starts another round of payloads.
do_write_LoopsWhileDraining(s) ==
    CASE s.responses_ > 0 -> WriteResponse(s)
      [] s.responses_ = 0 /\ WantsPayload(s) /\ ~Exhausted(s) -> WritePayload(s)
      [] s.responses_ = 0 /\ WantsPayload(s) /\ Exhausted(s) /\ s.loop_payloads ->
            WritePayload([s EXCEPT !.next_payload_index_ = 0])
      [] OTHER -> StopWriting(s)

\* At the end of the list a looping session restarts at 0 and calls itself;
\* with no payload at all that call never returns.
do_write(s) ==
    CASE s.responses_ > 0 -> WriteResponse(s)
      [] s.responses_ = 0 /\ WantsPayload(s) /\ ~Exhausted(s) -> WritePayload(s)
      [] s.responses_ = 0 /\ WantsPayload(s) /\ Exhausted(s)
                          /\ s.loop_payloads /\ ~s.draining_ ->
            IF NumPayloads = 0
            THEN [s EXCEPT !.spinning = TRUE]
            ELSE WritePayload([s EXCEPT !.next_payload_index_ = 0])
      [] OTHER -> StopWriting(s)

\* Fault: writing_ is not looked at.
try_start_write_SecondLoop(s) ==
    IF WantsPayload(s) \/ s.responses_ > 0 THEN do_write(s) ELSE s

\* Fault: responses are not a reason to start writing.
try_start_write_IgnoresResponses(s) ==
    CASE s.writing_ -> s
      [] ~s.writing_ /\ WantsPayload(s) -> do_write(s)
      [] ~s.writing_ /\ ~WantsPayload(s) -> IF s.draining_ THEN close_session(s) ELSE s

try_start_write(s) ==
    CASE s.writing_ -> s
      [] ~s.writing_ /\ (WantsPayload(s) \/ s.responses_ > 0) -> do_write(s)
      [] ~s.writing_ /\ ~WantsPayload(s) /\ s.responses_ = 0 ->
            IF s.draining_ THEN close_session(s) ELSE s

\* flood() and send() may only start a write on an established connection.
StartIfConnected(s) == IF s.live_ /\ ~s.connecting_ THEN try_start_write(s) ELSE s

do_read_header(s) == Begin(s, "header")

\* Fault: the next read is started before the message is handled.
handle_message_ReadsAhead(s) == do_read_header([s EXCEPT !.posts = @ + 1])

\* parse_message() answers through a callback that posts to the strand.
handle_message(s) == [s EXCEPT !.posts = @ + 1]

do_read_body(s, empty) == IF empty THEN handle_message(s) ELSE Begin(s, "body")

on_connect(s) ==
    LET r == IF ReadMessages THEN do_read_header(s) ELSE s
    IN  IF ~r.writing_ /\ WantsPayload(r) THEN do_write(r) ELSE r

-----------------------------------------------------------------------------
(* What the pool posts: the commands of a script verify_script() accepts.   *)
(* CONNECT wants the session inactive, SEND, FLOOD and DRAIN want it        *)
(* active, DRAIN makes it inactive, DISCONNECT is accepted once at any      *)
(* time; the plan holds a payload for every copy a SEND asks for.           *)

PostStart ==
    /\ ~script.active
    /\ script.connects < MaxStarts
    /\ script' = [script EXCEPT !.active = TRUE, !.connects = @ + 1]
    /\ cmds' = Append(cmds, [op |-> "start", n |-> 0])
    /\ UNCHANGED <<sess, env>>

PostSend(n) ==
    /\ script.active
    /\ script.sent + n <= NumPayloads
    /\ script' = [script EXCEPT !.sent = @ + n]
    /\ cmds' = Append(cmds, [op |-> "send", n |-> n])
    /\ UNCHANGED <<sess, env>>

\* flood() is idempotent, so one posted at a time is enough.
PostFlood ==
    /\ script.active
    /\ ~sess.flood_
    /\ \A i \in DOMAIN cmds : cmds[i].op # "flood"
    /\ cmds' = Append(cmds, [op |-> "flood", n |-> 0])
    /\ UNCHANGED <<sess, script, env>>

PostDrain ==
    /\ script.active
    /\ script' = [script EXCEPT !.active = FALSE]
    /\ cmds' = Append(cmds, [op |-> "drain", n |-> 0])
    /\ UNCHANGED <<sess, env>>

PostStop ==
    /\ ~script.stopped
    /\ script' = [script EXCEPT !.stopped = TRUE]
    /\ cmds' = Append(cmds, [op |-> "stop", n |-> 0])
    /\ UNCHANGED <<sess, env>>

-----------------------------------------------------------------------------
(* Handlers of posted commands.  A handler runs when the strand is free.    *)

Take(op) ==
    /\ ~sess.spinning
    /\ cmds # <<>>
    /\ Head(cmds).op = op
    /\ cmds' = Tail(cmds)

\* async_connect() closes socket_ before it opens it for the first endpoint.
start ==
    /\ Take("start")
    /\ sess' = Begin([sess EXCEPT !.live_ = TRUE, !.connecting_ = TRUE,
                                  !.ops = Aborted(sess.ops), !.open = FALSE,
                                  !.starts = @ + 1], "connect")
    /\ UNCHANGED <<script, env>>

flood ==
    /\ Take("flood")
    /\ sess' = IF sess.flood_ \/ sess.draining_
               THEN sess
               ELSE StartIfConnected([sess EXCEPT !.flood_ = TRUE])
    /\ UNCHANGED <<script, env>>

send ==
    /\ Take("send")
    /\ LET n == Head(cmds).n
       IN  sess' = StartIfConnected([sess EXCEPT !.writes_queued_ = @ + n,
                                                 !.requested = @ + n])
    /\ UNCHANGED <<script, env>>

\* Fault: drain() does not look at the queued payloads.
drain_IgnoresQueue ==
    /\ Take("drain")
    /\ LET s == [sess EXCEPT !.draining_ = TRUE]
       IN  sess' = IF ~s.writing_ THEN close_session(s) ELSE s
    /\ UNCHANGED <<script, env>>

drain ==
    /\ Take("drain")
    /\ LET s == [sess EXCEPT !.draining_ = TRUE]
       IN  sess' = IF ~s.writing_ /\ s.writes_queued_ = 0 /\ s.responses_ = 0
                   THEN close_session(s)
                   ELSE s
    /\ UNCHANGED <<script, env>>

\* Fault: stop() waits for the connection attempt and then forgets.
stop_SkipsConnecting ==
    /\ Take("stop")
    /\ sess' = IF sess.connecting_ THEN sess ELSE close_session(sess)
    /\ env' = [env EXCEPT !.stopRan = TRUE]
    /\ UNCHANGED script

stop ==
    /\ Take("stop")
    /\ sess' = close_session(sess)
    /\ env' = [env EXCEPT !.stopRan = TRUE]
    /\ UNCHANGED script

-----------------------------------------------------------------------------
(* Completion handlers. *)

Ready(kind, result) == ~sess.spinning /\ sess.ops[kind][result] > 0

ConnectDone(result) ==
    /\ Ready("connect", result)
    /\ LET s == [Consume(sess, "connect", result) EXCEPT !.connecting_ = FALSE]
       IN  sess' = IF result = "err" THEN close_session(s) ELSE on_connect(s)
    /\ UNCHANGED <<cmds, script, env>>

\* Fault: a failed header read is retried.
HeaderDone_Retries(result) ==
    /\ Ready("header", result)
    /\ sess' = do_read_header(Consume(sess, "header", result))
    /\ UNCHANGED <<cmds, script, env>>

\* The header named a length, was not understood, or announced too much.
HeaderDone(result) ==
    /\ Ready("header", result)
    /\ LET s == Consume(sess, "header", result)
       IN  \/ /\ result = "err"
              /\ sess' = handle_stream_error(s)
              /\ UNCHANGED env
           \/ /\ result = "ok"
              /\ \/ sess' = do_read_header(s)
                 \/ \E empty \in BOOLEAN : sess' = do_read_body(s, empty)
              /\ UNCHANGED env
           \/ /\ result = "ok"
              /\ sess' = handle_stream_error(s)
              /\ env' = [env EXCEPT !.failed = TRUE]
    /\ UNCHANGED <<cmds, script>>

BodyDone(result) ==
    /\ Ready("body", result)
    /\ LET s == Consume(sess, "body", result)
       IN  sess' = IF result = "err" THEN handle_stream_error(s) ELSE handle_message(s)
    /\ UNCHANGED <<cmds, script, env>>

WriteDone(result) ==
    /\ Ready("write", result)
    /\ LET s == Consume(sess, "write", result)
       IN  sess' = IF result = "err" THEN handle_stream_error(s) ELSE do_write(s)
    /\ UNCHANGED <<cmds, script, env>>

\* The handler posted by handle_message(): queue the response, if the message
\* handler gave one, and go on reading.
ResponseReady(reply) ==
    /\ ~sess.spinning
    /\ sess.posts > 0
    /\ LET s == [sess EXCEPT !.posts = @ - 1]
           w == IF reply THEN try_start_write([s EXCEPT !.responses_ = @ + 1]) ELSE s
       IN  sess' = IF w.spinning THEN w ELSE do_read_header(w)
    /\ UNCHANGED <<cmds, script, env>>

-----------------------------------------------------------------------------
(* The network. *)

Complete(kind, result) ==
    /\ sess.ops[kind]["pending"] > 0
    /\ kind = "header" /\ result = "ok" => env.msgs < MaxMsgs
    /\ sess' = [sess EXCEPT !.ops[kind]["pending"] = @ - 1,
                            !.ops[kind][result] = @ + 1,
                            !.open = @ \/ (kind = "connect" /\ result = "ok")]
    /\ env' = [env EXCEPT
                 !.msgs = IF kind = "header" /\ result = "ok" THEN @ + 1 ELSE @,
                 !.failed = @ \/ result = "err"]
    /\ UNCHANGED <<cmds, script>>

-----------------------------------------------------------------------------
Post ==
    \/ PostStart
    \/ "send" \in Traffic /\ \E n \in SendCounts : PostSend(n)
    \/ "flood" \in Traffic /\ PostFlood
    \/ PostDrain
    \/ PostStop

RunCommand == start \/ flood \/ send \/ drain \/ stop

Network == \E kind \in OpKind, result \in {"ok", "err"} : Complete(kind, result)

Next ==
    \/ Post
    \/ RunCommand
    \/ \E result \in {"ok", "err"} :
          ConnectDone(result) \/ HeaderDone(result) \/ BodyDone(result) \/ WriteDone(result)
    \/ \E reply \in BOOLEAN : ResponseReady(reply)
    \/ Network

\* A strand runs every handler queued on it.
StrandFairness ==
    /\ WF_vars(RunCommand)
    /\ \A result \in {"ok", "err"} :
          /\ WF_vars(ConnectDone(result))
          /\ WF_vars(HeaderDone(result))
          /\ WF_vars(BodyDone(result))
          /\ WF_vars(WriteDone(result))
    /\ WF_vars(\E reply \in BOOLEAN : ResponseReady(reply))

\* The kernel answers every connect and every write in the end, if only with
\* an error; nothing makes the server send anything.
NetworkFairness ==
    \A kind \in {"connect", "write"} :
        WF_vars(\E result \in {"ok", "err"} : Complete(kind, result))

Spec == Init /\ [][Next]_vars /\ StrandFairness

NetSpec == Spec /\ NetworkFairness

-----------------------------------------------------------------------------
(* Properties *)

\* At most one write is outstanding on the socket and writing_ covers it
\* ("There should only be one outstanding write per socket", above do_write()):
\* no mix of completions, responses, send() and flood() opens a second loop.
SingleWriter ==
    sess.starts <= 1 =>
        /\ Outstanding(sess, "write") <= 1
        /\ Outstanding(sess, "write") = 1 => sess.writing_

\* There is one read loop: header read, body read and the continuation posted
\* by handle_message() hand a single token on.  Two readers would mix up
\* incoming_header_ and body_buffer_.
SingleReader ==
    sess.starts <= 1 =>
        Outstanding(sess, "connect") + Outstanding(sess, "header")
            + Outstanding(sess, "body") + sess.posts <= 1

\* on_disconnect_ is called once for each time the session was started and has
\* stopped being live: the pool's active_sessions_ is decremented exactly as
\* often as it was incremented.
DisconnectOncePerStart ==
    sess.starts <= 1 =>
        sess.disconnects + (IF sess.live_ THEN 1 ELSE 0) = sess.starts

\* No lost wake-up: an established session that is not writing has nothing it
\* could write.  A response or a send() that arrives between two writes is
\* always picked up by somebody.
NoLostWakeup ==
    sess.starts <= 1 /\ sess.live_ /\ ~sess.connecting_ /\ ~sess.writing_
        /\ ~sess.spinning =>
        /\ sess.responses_ = 0
        /\ WantsPayload(sess) => Exhausted(sess) /\ ~sess.loop_payloads

\* A session that nobody stopped and whose connection never failed closes only
\* because it was drained, and then every payload it was asked for was handed
\* to the socket (syntax.md, DRAIN: "disconnect after they are finished with
\* their payloads").
DrainDelivers ==
    sess.starts = 1 /\ ~sess.live_ /\ ~env.failed /\ ~env.stopRan =>
        /\ sess.draining_
        /\ ~sess.flood_ => sess.next_payload_index_ >= sess.requested

StopPosted == \E i \in DOMAIN cmds : cmds[i].op = "stop"

\* A draining session closes once the network has answered (syntax.md, DRAIN).
DrainCloses == sess.draining_ ~> ~sess.live_

\* What holds of that: a session drained with nothing but send() behind it, or
\* with REPEAT on, closes once the network has answered (syntax.md, DRAIN: "if
\* REPEAT is "true" we will not go into the next payload loop").  A server
\* whose messages never end, each met with a response, could keep it writing:
\* do_write() takes responses first.  MaxMsgs leaves that out.
DrainClosesSends ==
    (sess.draining_ /\ (sess.loop_payloads \/ ~sess.flood_)) ~> ~sess.live_

\* After the close the handlers still queued start only operations that fail:
\* nothing keeps the session object alive for ever.
ClosedQuiesces ==
    (sess.starts > 0 /\ ~sess.live_) ~>
        (sess.posts = 0 /\ \A k \in OpKind : Outstanding(sess, k) = 0)

Contract == INSTANCE SessionContract
    WITH state <- IF sess.starts = 0 THEN "idle" ELSE IF sess.live_ THEN "live" ELSE "closed",
         notified <- sess.disconnects,
         stopping <- StopPosted

\* A session that is started once implements the contract the pool relies on:
\* every handler is a step of SessionContract or changes nothing the pool sees.
ImplementsContract == Contract!Spec
=============================================================================
