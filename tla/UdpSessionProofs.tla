-------------------------- MODULE UdpSessionProofs --------------------------
(***************************************************************************)
(* Proofs about module UdpSession, for every value of its constants.       *)
(*                                                                         *)
(* As in TcpSessionProofs the invariant of the session is a predicate on a *)
(* record and each function of the session gets a lemma.  Core(s) holds    *)
(* between the assignments of a handler too; Wakeup(s) is what             *)
(* try_start_write() and do_write() establish before the handler returns.  *)
(***************************************************************************)
EXTENDS UdpSession, TLAPS

OpsType == [OpKind -> [OpStatus -> Nat]]

SessionState ==
    [live_ : BOOLEAN, flood_ : BOOLEAN, draining_ : BOOLEAN,
     writing_ : BOOLEAN, writes_queued_ : Nat, responses_ : Nat,
     next_payload_index_ : Nat, open : BOOLEAN,
     ops : OpsType, posts : Nat,
     starts : Nat, disconnects : Nat, requested : Nat]

ScriptState == [active : BOOLEAN, started : BOOLEAN, stopped : BOOLEAN, sent : Nat]

EnvState == [msgs : Nat, failed : BOOLEAN, stopRan : BOOLEAN]

Sending(s) == Outstanding(s, "send")
Reading(s) == Outstanding(s, "receive") + s.posts

\* A session that was never started has nothing outstanding.
Fresh(s) ==
    s.starts = 0 => /\ Reading(s) = 0 /\ Sending(s) = 0 /\ ~s.live_ /\ s.disconnects = 0
                    /\ ~s.writing_ /\ s.responses_ = 0

\* One token for writing, one for reading, and one call of on_disconnect_
\* owed to the pool as long as the session is live.
Tokens(s) ==
    /\ s.starts <= 1
    /\ Sending(s) <= 1
    /\ Sending(s) = 1 => s.writing_
    /\ Reading(s) <= 1
    /\ s.disconnects + (IF s.live_ THEN 1 ELSE 0) = s.starts
    /\ s.live_ => s.open

\* Without a flood every requested payload is sent or queued, and a script
\* never requests more than there are.
Budget(s) ==
    /\ s.flood_ => AllowFlood
    /\ ~s.flood_ => s.next_payload_index_ + s.writes_queued_ = s.requested
    /\ s.requested <= NumPayloads

Core(s) == s \in SessionState /\ Fresh(s) /\ Tokens(s) /\ Budget(s)

Wakeup(s) ==
    s.live_ /\ ~s.writing_ =>
        /\ s.responses_ = 0
        /\ WantsPayload(s) => Exhausted(s) /\ ~LoopPayloads

\* No operation failed while the session was live, and if it closed, it had
\* been drained and had sent what was requested.
NoError(s) == \A k \in OpKind : s.ops[k]["err"] = 0

Delivered(s) == s.draining_ /\ (s.flood_ \/ s.next_payload_index_ >= s.requested)

Peaceful(s) ==
    /\ s.live_ => NoError(s)
    /\ s.starts = 1 /\ ~s.live_ => Delivered(s)

-----------------------------------------------------------------------------
(* The commands posted and not yet run. *)

\* f[k] is what has been requested once the first k commands have run.
Requests ==
    \E f \in [0 .. Len(cmds) -> 0 .. NumPayloads] :
        /\ f[0] = sess.requested
        /\ f[Len(cmds)] = script.sent
        /\ \A k \in 1 .. Len(cmds) : f[k] = f[k - 1] + cmds[k].n

Queued ==
    /\ \A k \in DOMAIN cmds : cmds[k].op # "send" => cmds[k].n = 0
    /\ \A k \in DOMAIN cmds : cmds[k].op = "start" => sess.starts = 0 /\ script.started
    /\ \A k, l \in DOMAIN cmds : cmds[k].op = "start" /\ cmds[l].op = "start" => k = l
    /\ ~script.started => sess.starts = 0 /\ ~script.active
    /\ \A k \in DOMAIN cmds : cmds[k].op = "stop" => script.stopped
    /\ \A k, l \in DOMAIN cmds : cmds[k].op = "stop" /\ cmds[l].op = "stop" => k = l
    /\ \A k \in DOMAIN cmds : cmds[k].op = "flood" => AllowFlood

\* Nothing is sent after a drain.
AfterDrain == {"send", "flood", "drain"}

Drains ==
    /\ \A k, l \in DOMAIN cmds : cmds[k].op = "drain" /\ k < l => cmds[l].op \notin AfterDrain
    /\ \A k \in DOMAIN cmds : cmds[k].op = "drain" => script.started /\ ~script.active
    /\ sess.draining_ => /\ script.started /\ ~script.active
                         /\ \A k \in DOMAIN cmds : cmds[k].op \notin AfterDrain

IInv ==
    /\ TypeOK
    /\ Core(sess)
    /\ Wakeup(sess)
    /\ ~env.failed /\ ~env.stopRan => Peaceful(sess)
    /\ Requests
    /\ Queued
    /\ Drains

-----------------------------------------------------------------------------
(* Records *)

\* t differs from s in its outstanding operations only.
SameButOps(s, t) ==
    /\ t.live_ = s.live_ /\ t.flood_ = s.flood_ /\ t.draining_ = s.draining_
    /\ t.writing_ = s.writing_ /\ t.writes_queued_ = s.writes_queued_
    /\ t.responses_ = s.responses_ /\ t.next_payload_index_ = s.next_payload_index_
    /\ t.open = s.open /\ t.posts = s.posts /\ t.starts = s.starts
    /\ t.disconnects = s.disconnects /\ t.requested = s.requested

LEMMA FieldTypes ==
    ASSUME NEW s \in SessionState
    PROVE  /\ s.live_ \in BOOLEAN /\ s.flood_ \in BOOLEAN /\ s.draining_ \in BOOLEAN
           /\ s.writing_ \in BOOLEAN /\ s.open \in BOOLEAN
           /\ s.writes_queued_ \in Nat /\ s.responses_ \in Nat
           /\ s.next_payload_index_ \in Nat /\ s.posts \in Nat /\ s.starts \in Nat
           /\ s.disconnects \in Nat /\ s.requested \in Nat /\ s.ops \in OpsType
  BY DEF SessionState

LEMMA OutstandingNat ==
    ASSUME NEW s \in SessionState
    PROVE  /\ \A k \in OpKind : /\ Outstanding(s, k) \in Nat
                                /\ s.ops[k] \in [OpStatus -> Nat]
                                /\ s.ops[k]["pending"] \in Nat
                                /\ s.ops[k]["ok"] \in Nat
                                /\ s.ops[k]["err"] \in Nat
           /\ Sending(s) \in Nat /\ Reading(s) \in Nat
  <1>1. s.ops \in OpsType /\ s.posts \in Nat BY FieldTypes
  <1>2. \A k \in OpKind : /\ Outstanding(s, k) \in Nat
                          /\ s.ops[k] \in [OpStatus -> Nat]
                          /\ s.ops[k]["pending"] \in Nat
                          /\ s.ops[k]["ok"] \in Nat
                          /\ s.ops[k]["err"] \in Nat
    BY <1>1 DEF OpsType, OpStatus, Outstanding
  <1> QED BY <1>1, <1>2 DEF Sending, Reading, OpKind

\* A record with new operations.
LEMMA NewOps ==
    ASSUME NEW s \in SessionState, NEW o \in OpsType, NEW t, t = [s EXCEPT !.ops = o]
    PROVE  t \in SessionState /\ SameButOps(s, t) /\ t.ops = o
  BY DEF SessionState, SameButOps

\* Begin() adds one operation of its kind; on an open socket it has not failed.
LEMMA BeginEffect ==
    ASSUME NEW s \in SessionState, NEW kind \in OpKind
    PROVE  LET b == Begin(s, kind)
           IN  /\ b \in SessionState /\ SameButOps(s, b)
               /\ Outstanding(b, kind) = Outstanding(s, kind) + 1
               /\ \A k \in OpKind \ {kind} : Outstanding(b, k) = Outstanding(s, k)
               /\ s.open /\ NoError(s) => NoError(b)
  <1> DEFINE r == IF s.open THEN "pending" ELSE "err"
             o == [s.ops EXCEPT ![kind] = [s.ops[kind] EXCEPT ![r] = s.ops[kind][r] + 1]]
             b == Begin(s, kind)
  <1>1. r \in OpStatus BY DEF OpStatus
  <1>2. s.ops \in OpsType BY FieldTypes
  <1>3. b = [s EXCEPT !.ops = o] BY DEF Begin
  <1>4. o \in OpsType BY <1>1, <1>2 DEF OpsType
  <1>5. b \in SessionState /\ SameButOps(s, b) /\ b.ops = o
    <2> HIDE DEF o, b
    <2> QED BY <1>3, <1>4, NewOps
  <1>6. Outstanding(b, kind) = Outstanding(s, kind) + 1
    <2>1. b.ops[kind] = [s.ops[kind] EXCEPT ![r] = s.ops[kind][r] + 1]
      BY <1>2, <1>5 DEF OpsType
    <2> QED BY <1>1, <2>1, OutstandingNat DEF Outstanding, OpStatus
  <1>7. \A k \in OpKind \ {kind} : b.ops[k] = s.ops[k]
    BY <1>2, <1>5 DEF OpsType
  <1>8. s.open /\ NoError(s) => NoError(b)
    <2>1. b.ops[kind] = [s.ops[kind] EXCEPT ![r] = s.ops[kind][r] + 1]
      BY <1>2, <1>5 DEF OpsType
    <2>2. s.open => b.ops[kind]["err"] = s.ops[kind]["err"]
      BY <2>1, OutstandingNat DEF OpStatus
    <2> QED BY <1>7, <2>2 DEF NoError
  <1> QED BY <1>5, <1>6, <1>7, <1>8 DEF Outstanding

LEMMA ConsumeEffect ==
    ASSUME NEW s \in SessionState, NEW kind \in OpKind, NEW r \in {"ok", "err"},
           s.ops[kind][r] > 0
    PROVE  LET c == Consume(s, kind, r)
           IN  /\ c \in SessionState /\ SameButOps(s, c)
               /\ Outstanding(c, kind) = Outstanding(s, kind) - 1
               /\ Outstanding(s, kind) > 0
               /\ \A k \in OpKind \ {kind} : Outstanding(c, k) = Outstanding(s, k)
               /\ r = "ok" /\ NoError(s) => NoError(c)
               /\ r = "err" => ~NoError(s)
  <1> DEFINE n == s.ops[kind][r] - 1
             o == [s.ops EXCEPT ![kind] = [s.ops[kind] EXCEPT ![r] = n]]
             c == Consume(s, kind, r)
  <1>1. r \in OpStatus BY DEF OpStatus
  <1>2. s.ops \in OpsType BY FieldTypes
  <1>3. c = [s EXCEPT !.ops = o] BY DEF Consume
  <1>a. n \in Nat /\ n + 1 = s.ops[kind][r] BY OutstandingNat
  <1>4. o \in OpsType
    <2> HIDE DEF n
    <2> QED BY <1>1, <1>2, <1>a DEF OpsType
  <1>5. c \in SessionState /\ SameButOps(s, c) /\ c.ops = o
    <2> HIDE DEF o, c
    <2> QED BY <1>3, <1>4, NewOps
  <1>6. c.ops[kind] = [s.ops[kind] EXCEPT ![r] = n]
    BY <1>2, <1>5 DEF OpsType
  <1>7. Outstanding(c, kind) = Outstanding(s, kind) - 1 /\ Outstanding(s, kind) > 0
    <2> HIDE DEF c, n
    <2> QED BY <1>6, <1>a, OutstandingNat DEF Outstanding, OpStatus
  <1>8. \A k \in OpKind \ {kind} : c.ops[k] = s.ops[k]
    BY <1>2, <1>5 DEF OpsType
  <1>9. r = "ok" /\ NoError(s) => NoError(c)
    <2>1. r = "ok" => c.ops[kind]["err"] = s.ops[kind]["err"]
      BY <1>6, OutstandingNat DEF OpStatus
    <2> QED BY <1>8, <2>1 DEF NoError
  <1>10. r = "err" => ~NoError(s) BY OutstandingNat DEF NoError
  <1> QED BY <1>5, <1>7, <1>8, <1>9, <1>10 DEF Outstanding

LEMMA AbortedEffect ==
    ASSUME NEW s \in SessionState
    PROVE  /\ Aborted(s.ops) \in OpsType
           /\ \A k \in OpKind :
                 Aborted(s.ops)[k]["pending"] + Aborted(s.ops)[k]["ok"] + Aborted(s.ops)[k]["err"]
                    = Outstanding(s, k)
  <1>1. ASSUME NEW k \in OpKind
        PROVE  /\ Aborted(s.ops)[k] \in [OpStatus -> Nat]
               /\ Aborted(s.ops)[k]["pending"] + Aborted(s.ops)[k]["ok"] + Aborted(s.ops)[k]["err"]
                    = Outstanding(s, k)
    <2>1. s.ops[k] \in [OpStatus -> Nat] BY OutstandingNat
    <2>2. Aborted(s.ops)[k] =
            [s.ops[k] EXCEPT !["pending"] = 0, !["err"] = s.ops[k]["err"] + s.ops[k]["pending"]]
      BY <2>1 DEF Aborted, OpStatus
    <2> QED BY <2>1, <2>2 DEF OpStatus, Outstanding
  <1>2. Aborted(s.ops) = [k \in OpKind |-> Aborted(s.ops)[k]] BY DEF Aborted
  <1> QED BY <1>1, <1>2 DEF OpsType

-----------------------------------------------------------------------------
(* The session's functions *)

\* t comes from s by a function that neither starts the session nor touches
\* the read token; the handler that calls it ends with t.
Keeps(s, t) ==
    /\ Core(t) /\ Wakeup(t)
    /\ t.starts = s.starts /\ (t.live_ => s.live_)
    /\ t.draining_ = s.draining_ /\ t.requested = s.requested
    /\ Reading(t) = Reading(s)

LEMMA CloseKeeps ==
    ASSUME NEW s, Core(s)
    PROVE  LET c == close_session(s)
           IN  /\ Keeps(s, c) /\ ~c.live_
               /\ Delivered(s) => Peaceful(c)
               /\ ~s.live_ => c = s
  <1> DEFINE c == close_session(s)
  <1>0. s \in SessionState BY DEF Core
  <1>1. CASE ~s.live_
    <2>1. c = s BY <1>1 DEF close_session
    <2>2. Delivered(s) => Peaceful(s) BY <1>1 DEF Peaceful
    <2> QED BY <1>1, <2>1, <2>2 DEF Keeps, Wakeup
  <1>2. CASE s.live_
    <2> DEFINE a == [s EXCEPT !.ops = Aborted(s.ops)]
               d == s.disconnects + 1
    <2>1. c = [a EXCEPT !.open = FALSE, !.live_ = FALSE, !.disconnects = d]
      BY <1>0, <1>2 DEF close_session, SessionState
    <2>2. a \in SessionState /\ SameButOps(s, a) /\ a.ops = Aborted(s.ops)
      BY <1>0, AbortedEffect, NewOps
    <2>3. d \in Nat /\ d = s.disconnects + 1 BY <1>0, FieldTypes
    <2> HIDE DEF a, d, c
    <2>4. /\ c \in SessionState /\ c.ops = a.ops /\ c.open = FALSE /\ c.live_ = FALSE
          /\ c.disconnects = d /\ c.flood_ = a.flood_ /\ c.draining_ = a.draining_
          /\ c.writing_ = a.writing_ /\ c.writes_queued_ = a.writes_queued_
          /\ c.responses_ = a.responses_ /\ c.next_payload_index_ = a.next_payload_index_
          /\ c.posts = a.posts /\ c.starts = a.starts /\ c.requested = a.requested
      BY <2>1, <2>2, <2>3 DEF SessionState
    <2>5. /\ c.flood_ = s.flood_ /\ c.draining_ = s.draining_
          /\ c.writing_ = s.writing_ /\ c.writes_queued_ = s.writes_queued_
          /\ c.next_payload_index_ = s.next_payload_index_ /\ c.responses_ = s.responses_
          /\ c.posts = s.posts /\ c.starts = s.starts /\ c.requested = s.requested
      BY <2>2, <2>4 DEF SameButOps
    <2>6. \A k \in OpKind : Outstanding(c, k) = Outstanding(s, k)
      BY <1>0, <2>2, <2>4, AbortedEffect DEF Outstanding
    <2>7. Reading(c) = Reading(s) /\ Sending(c) = Sending(s)
      BY <2>5, <2>6 DEF Reading, Sending, OpKind
    <2>8. Fresh(c) BY <1>2, <2>5 DEF Core, Fresh
    <2>9. Tokens(c) BY <1>0, <1>2, <2>3, <2>4, <2>5, <2>7, FieldTypes DEF Core, Tokens
    <2>10. Budget(c) BY <2>5 DEF Core, Budget
    <2>11. Wakeup(c) BY <2>4 DEF Wakeup
    <2>12. Delivered(s) => Peaceful(c) BY <2>4, <2>5 DEF Delivered, Peaceful
    <2> QED BY <1>2, <2>4, <2>5, <2>7, <2>8, <2>9, <2>10, <2>11, <2>12 DEF Core, Keeps, c
  <1> QED BY <1>1, <1>2

\* A record with new values for the fields of the write loop, sending or not.
AboutToSend(s, r, q, x) ==
    [s EXCEPT !.responses_ = r, !.writes_queued_ = q, !.next_payload_index_ = x,
              !.writing_ = TRUE]

Idle(s) == [s EXCEPT !.writing_ = FALSE]

\* The fields of a record that sends nothing.
LEMMA IdleFields ==
    ASSUME NEW s \in SessionState, NEW v, v = Idle(s)
    PROVE  /\ v \in SessionState /\ v.responses_ = s.responses_
           /\ v.writes_queued_ = s.writes_queued_
           /\ v.next_payload_index_ = s.next_payload_index_ /\ ~v.writing_
           /\ v.live_ = s.live_ /\ v.flood_ = s.flood_ /\ v.draining_ = s.draining_
           /\ v.open = s.open /\ v.ops = s.ops /\ v.posts = s.posts /\ v.starts = s.starts
           /\ v.disconnects = s.disconnects /\ v.requested = s.requested
           /\ Reading(v) = Reading(s) /\ Sending(v) = Sending(s)
  <1>1. /\ v \in SessionState /\ v.responses_ = s.responses_
        /\ v.writes_queued_ = s.writes_queued_
        /\ v.next_payload_index_ = s.next_payload_index_ /\ ~v.writing_
        /\ v.live_ = s.live_ /\ v.flood_ = s.flood_ /\ v.draining_ = s.draining_
        /\ v.open = s.open /\ v.ops = s.ops /\ v.posts = s.posts /\ v.starts = s.starts
        /\ v.disconnects = s.disconnects /\ v.requested = s.requested
    BY DEF SessionState, Idle
  <1> QED BY <1>1 DEF Reading, Sending, Outstanding

\* One async_send, of a response or a payload.
LEMMA SendKeeps ==
    ASSUME NEW s, Core(s), s.starts > 0, Sending(s) = 0,
           NEW r \in Nat, NEW q \in Nat, NEW x \in Nat,
           ~s.flood_ => x + q = s.requested,
           s.draining_ => x >= s.next_payload_index_
    PROVE  LET b == Begin(AboutToSend(s, r, q, x), "send")
           IN  Keeps(s, b) /\ (Peaceful(s) => Peaceful(b))
  <1> DEFINE v == AboutToSend(s, r, q, x)
             b == Begin(v, "send")
  <1>0. s \in SessionState BY DEF Core
  <1>1. /\ v \in SessionState /\ v.responses_ = r /\ v.writes_queued_ = q
        /\ v.next_payload_index_ = x /\ v.writing_
        /\ v.live_ = s.live_ /\ v.flood_ = s.flood_ /\ v.draining_ = s.draining_
        /\ v.open = s.open /\ v.ops = s.ops /\ v.posts = s.posts /\ v.starts = s.starts
        /\ v.disconnects = s.disconnects /\ v.requested = s.requested
        /\ Reading(v) = Reading(s) /\ Sending(v) = Sending(s)
    <2>1. /\ v \in SessionState /\ v.responses_ = r /\ v.writes_queued_ = q
          /\ v.next_payload_index_ = x /\ v.writing_
          /\ v.live_ = s.live_ /\ v.flood_ = s.flood_ /\ v.draining_ = s.draining_
          /\ v.open = s.open /\ v.ops = s.ops /\ v.posts = s.posts /\ v.starts = s.starts
          /\ v.disconnects = s.disconnects /\ v.requested = s.requested
      BY <1>0 DEF SessionState, AboutToSend
    <2> HIDE DEF v
    <2> QED BY <2>1 DEF Reading, Sending, Outstanding
  <1> HIDE DEF v
  <1>2. /\ b \in SessionState /\ SameButOps(v, b)
        /\ Outstanding(b, "send") = Outstanding(v, "send") + 1
        /\ Outstanding(b, "receive") = Outstanding(v, "receive")
        /\ v.open /\ NoError(v) => NoError(b)
    BY <1>1, BeginEffect DEF OpKind
  <1> HIDE DEF b
  <1>3. /\ b.writes_queued_ = q /\ b.next_payload_index_ = x /\ b.writing_
        /\ b.live_ = s.live_ /\ b.flood_ = s.flood_ /\ b.draining_ = s.draining_
        /\ b.open = s.open /\ b.posts = s.posts /\ b.starts = s.starts
        /\ b.disconnects = s.disconnects /\ b.requested = s.requested
    BY <1>1, <1>2 DEF SameButOps
  <1>4. Sending(b) = 1 /\ Reading(b) = Reading(s)
    BY <1>1, <1>2, <1>3 DEF Sending, Reading
  <1>5. Fresh(b) BY <1>3 DEF Fresh
  <1>6. Tokens(b) BY <1>3, <1>4 DEF Core, Tokens
  <1>7. Budget(b) BY <1>3 DEF Core, Budget
  <1>8. Wakeup(b) BY <1>3 DEF Wakeup
  <1>9. Keeps(s, b) BY <1>2, <1>3, <1>4, <1>5, <1>6, <1>7, <1>8 DEF Keeps, Core
  <1>10. ASSUME Peaceful(s) PROVE Peaceful(b)
    <2>1. ASSUME s.live_ PROVE NoError(b)
      <3>1. s.open /\ NoError(s) BY <1>10, <2>1 DEF Peaceful, Core, Tokens
      <3>2. NoError(v) BY <1>1, <3>1 DEF NoError
      <3> QED BY <1>1, <1>2, <3>1, <3>2
    <2>2. ASSUME s.starts = 1, ~s.live_ PROVE Delivered(b)
      <3>1. Delivered(s) BY <1>10, <2>2 DEF Peaceful
      <3>2. s.next_payload_index_ \in Nat /\ s.requested \in Nat BY <1>0, FieldTypes
      <3> QED BY <1>3, <3>1, <3>2 DEF Delivered
    <2> QED BY <1>3, <2>1, <2>2 DEF Peaceful
  <1> QED BY <1>9, <1>10 DEF b, v

LEMMA DoWriteKeeps ==
    ASSUME NEW s, Core(s), s.starts > 0, Sending(s) = 0
    PROVE  Keeps(s, do_write(s)) /\ (Peaceful(s) => Peaceful(do_write(s)))
  <1> DEFINE wrap == Exhausted(s) /\ LoopPayloads /\ ~s.draining_
             j == IF wrap THEN 0 ELSE s.next_payload_index_
             rewound == [s EXCEPT !.next_payload_index_ = j]
             idle == Idle(s)
             q == IF s.flood_ THEN s.writes_queued_ ELSE s.writes_queued_ - 1
  <1>0. s \in SessionState BY DEF Core
  <1>a. /\ s.responses_ \in Nat /\ s.writes_queued_ \in Nat /\ s.flood_ \in BOOLEAN
        /\ s.next_payload_index_ \in Nat /\ s.requested \in Nat /\ s.draining_ \in BOOLEAN
        /\ NumPayloads \in Nat
    BY <1>0, FieldTypes, ConstantsAssumption
  <1>b. do_write(s) = CASE s.responses_ > 0 -> SendResponse(s)
          [] s.responses_ = 0 /\ WantsPayload(s) /\ ~Exhausted(rewound) -> SendPayload(rewound)
          [] OTHER -> IF s.draining_ THEN close_session(idle) ELSE idle
    BY DEF do_write, Idle
  <1>c. j \in Nat /\ (wrap => j = 0) /\ (~wrap => j = s.next_payload_index_) BY <1>a
  <1>d. WantsPayload(s) /\ ~s.flood_ => ~Exhausted(s)
    BY <1>a DEF WantsPayload, Exhausted, Core, Budget
  <1>e. ~s.flood_ => s.next_payload_index_ + s.writes_queued_ = s.requested
    BY DEF Core, Budget
  <1>f. WantsPayload(s) /\ LoopPayloads => NumPayloads > 0
    BY <1>a, ConstantsAssumption DEF WantsPayload, Core, Budget
  <1>g. Exhausted(rewound) <=> j >= NumPayloads
    BY <1>0 DEF SessionState, Exhausted
  <1>1. CASE s.responses_ > 0
    <2> DEFINE v == AboutToSend(s, s.responses_ - 1, s.writes_queued_, s.next_payload_index_)
    <2>1. [s EXCEPT !.responses_ = @ - 1, !.writing_ = TRUE] = v
      BY <1>0 DEF SessionState, AboutToSend
    <2>2. do_write(s) = Begin(v, "send") BY <1>1, <1>b, <2>1 DEF SendResponse
    <2>3. s.responses_ - 1 \in Nat BY <1>1, <1>a
    <2>4. s.draining_ => s.next_payload_index_ >= s.next_payload_index_ BY <1>a
    <2> QED BY <1>a, <1>e, <2>2, <2>3, <2>4, SendKeeps
  <1>2. CASE s.responses_ = 0 /\ WantsPayload(s) /\ ~Exhausted(rewound)
    <2> DEFINE v == AboutToSend(s, s.responses_, q, j + 1)
    <2>1. q \in Nat /\ (~s.flood_ => q + 1 = s.writes_queued_)
      BY <1>2, <1>a DEF WantsPayload
    <2>2. rewound.flood_ = s.flood_ /\ rewound.writes_queued_ = s.writes_queued_
          /\ rewound.next_payload_index_ = j
      BY <1>0 DEF SessionState
    <2>3. SendPayload(rewound) = Begin([rewound EXCEPT !.writes_queued_ = q,
                    !.next_payload_index_ = j + 1, !.writing_ = TRUE], "send")
      BY <1>0, <2>2 DEF SendPayload, SessionState
    <2> HIDE DEF q, j
    <2>4. [rewound EXCEPT !.writes_queued_ = q, !.next_payload_index_ = j + 1,
                          !.writing_ = TRUE] = v
      BY <1>0 DEF SessionState, AboutToSend
    <2>5. do_write(s) = Begin(v, "send") BY <1>2, <1>b, <2>3, <2>4
    <2>6. j + 1 \in Nat /\ (~s.flood_ => (j + 1) + q = s.requested)
      BY <1>2, <1>a, <1>c, <1>d, <1>e, <2>1
    <2>7. s.draining_ => j + 1 >= s.next_payload_index_ BY <1>a, <1>c
    <2> QED BY <1>a, <2>1, <2>5, <2>6, <2>7, SendKeeps
  <1>3. CASE s.responses_ = 0 /\ ~(WantsPayload(s) /\ ~Exhausted(rewound))
    <2>1. do_write(s) = IF s.draining_ THEN close_session(idle) ELSE idle
      BY <1>3, <1>b
    <2>3. /\ idle \in SessionState /\ idle.responses_ = s.responses_
          /\ idle.writes_queued_ = s.writes_queued_
          /\ idle.next_payload_index_ = s.next_payload_index_ /\ ~idle.writing_
          /\ idle.live_ = s.live_ /\ idle.flood_ = s.flood_ /\ idle.draining_ = s.draining_
          /\ idle.open = s.open /\ idle.ops = s.ops /\ idle.posts = s.posts
          /\ idle.starts = s.starts
          /\ idle.disconnects = s.disconnects /\ idle.requested = s.requested
          /\ Reading(idle) = Reading(s) /\ Sending(idle) = Sending(s)
      BY <1>0, IdleFields
    <2>4. Core(idle)
      <3>1. Fresh(idle) BY <2>3 DEF Fresh
      <3>2. Tokens(idle) BY <2>3 DEF Core, Tokens
      <3>3. Budget(idle) BY <2>3 DEF Core, Budget
      <3> QED BY <2>3, <3>1, <3>2, <3>3 DEF Core
    <2>5. Peaceful(s) => Peaceful(idle) BY <2>3 DEF Peaceful, NoError, Delivered
    <2>6. CASE ~s.draining_
      <3>1. WantsPayload(s) => Exhausted(s) /\ ~LoopPayloads
        BY <1>3, <1>a, <1>c, <1>f, <1>g, <2>6 DEF Exhausted
      <3>2. Wakeup(idle) BY <1>3, <2>3, <3>1 DEF Wakeup, WantsPayload, Exhausted
      <3>3. Keeps(s, idle) BY <2>3, <2>4, <3>2 DEF Keeps
      <3> QED BY <2>1, <2>5, <2>6, <3>3
    <2>7. CASE s.draining_
      <3>1. ~wrap /\ j = s.next_payload_index_ BY <1>c, <2>7
      <3>2. WantsPayload(s) => s.next_payload_index_ >= NumPayloads
        BY <1>3, <1>g, <3>1
      <3>3. s.flood_ \/ s.next_payload_index_ >= s.requested
        BY <1>a, <1>e, <3>2 DEF WantsPayload, Core, Budget
      <3>4. Delivered(idle) BY <2>3, <2>7, <3>3 DEF Delivered
      <3>5. Keeps(idle, close_session(idle)) /\ Peaceful(close_session(idle))
        BY <2>4, <3>4, CloseKeeps
      <3>6. Keeps(s, close_session(idle)) BY <2>3, <3>5 DEF Keeps
      <3> QED BY <2>1, <2>7, <3>5, <3>6
    <2> QED BY <2>6, <2>7
  <1> QED BY <1>1, <1>2, <1>3, <1>a

\* try_start_write() writes only if nobody does, and may end a drain.
LEMMA TryStartWriteKeeps ==
    ASSUME NEW s, Core(s), s.starts > 0
    PROVE  Keeps(s, try_start_write(s)) /\ (Peaceful(s) => Peaceful(try_start_write(s)))
  <1>0. s \in SessionState BY DEF Core
  <1>a. /\ s.responses_ \in Nat /\ s.writes_queued_ \in Nat /\ s.writing_ \in BOOLEAN
        /\ s.next_payload_index_ \in Nat /\ s.requested \in Nat
    BY <1>0, FieldTypes
  <1>1. CASE s.writing_
    <2>1. try_start_write(s) = s BY <1>1 DEF try_start_write
    <2> QED BY <1>1, <2>1 DEF Keeps, Wakeup
  <1>2. CASE ~s.writing_ /\ (WantsPayload(s) \/ s.responses_ > 0)
    <2>1. try_start_write(s) = do_write(s) BY <1>2 DEF try_start_write
    <2>2. Sending(s) = 0 BY <1>0, <1>2, OutstandingNat DEF Core, Tokens
    <2> QED BY <2>1, <2>2, DoWriteKeeps
  <1>3. CASE ~s.writing_ /\ ~(WantsPayload(s) \/ s.responses_ > 0)
    <2>1. try_start_write(s) = IF s.draining_ THEN close_session(s) ELSE s
      BY <1>3 DEF try_start_write
    <2>2. Wakeup(s) BY <1>3, <1>a DEF Wakeup
    <2>3. Keeps(s, s) BY <2>2 DEF Keeps
    <2>4. s.draining_ => Delivered(s)
      BY <1>3, <1>a DEF Delivered, WantsPayload, Core, Budget
    <2>5. Keeps(s, close_session(s)) /\ (s.draining_ => Peaceful(close_session(s)))
      BY <2>4, CloseKeeps
    <2> QED BY <2>1, <2>3, <2>5
  <1> QED BY <1>1, <1>2, <1>3

\* do_read() takes the read token and touches nothing else.
LEMMA DoReadKeeps ==
    ASSUME NEW s, Core(s), s.starts > 0, Reading(s) = 0
    PROVE  LET b == do_read(s)
           IN  /\ Core(b) /\ SameButOps(s, b) /\ Sending(b) = Sending(s)
               /\ Wakeup(s) => Wakeup(b)
               /\ Peaceful(s) => Peaceful(b)
  <1> DEFINE b == Begin(s, "receive")
  <1>0. s \in SessionState BY DEF Core
  <1>1. /\ b \in SessionState /\ SameButOps(s, b)
        /\ Outstanding(b, "receive") = Outstanding(s, "receive") + 1
        /\ Outstanding(b, "send") = Outstanding(s, "send")
        /\ s.open /\ NoError(s) => NoError(b)
    BY <1>0, BeginEffect DEF OpKind
  <1> HIDE DEF b
  <1>2. Sending(b) = Sending(s) /\ Reading(b) = 1
    BY <1>0, <1>1, OutstandingNat, FieldTypes DEF Sending, Reading, SameButOps, OpKind
  <1>3. Fresh(b) BY <1>1 DEF Fresh, SameButOps
  <1>4. Tokens(b) BY <1>1, <1>2 DEF Core, Tokens, SameButOps
  <1>5. Budget(b) BY <1>1 DEF Core, Budget, SameButOps
  <1>6. Wakeup(s) => Wakeup(b) BY <1>1 DEF Wakeup, WantsPayload, Exhausted, SameButOps
  <1>7. Peaceful(s) => Peaceful(b)
    BY <1>1 DEF Peaceful, Delivered, SameButOps, Core, Tokens
  <1> QED BY <1>1, <1>2, <1>3, <1>4, <1>5, <1>6, <1>7 DEF Core, do_read, b

LEMMA OnConnectKeeps ==
    ASSUME NEW s, Core(s), s.starts = 1, Reading(s) = 0, Sending(s) = 0, ~s.writing_,
           s.responses_ = 0
    PROVE  LET t == on_connect(s)
           IN  /\ Core(t) /\ Wakeup(t) /\ (Peaceful(s) => Peaceful(t))
               /\ t.starts = s.starts /\ t.draining_ = s.draining_ /\ t.requested = s.requested
  <1> DEFINE r == IF ReadMessages THEN do_read(s) ELSE s
  <1>1. /\ Core(r) /\ SameButOps(s, r) /\ Sending(r) = 0
        /\ Peaceful(s) => Peaceful(r)
    <2>1. SameButOps(s, s) BY DEF SameButOps
    <2>2. s.starts > 0 OBVIOUS
    <2>3. CASE ReadMessages BY <2>2, <2>3, DoReadKeeps
    <2>4. CASE ~ReadMessages BY <2>1, <2>4
    <2> QED BY <2>3, <2>4
  <1>2. on_connect(s) = IF ~r.writing_ /\ WantsPayload(r) THEN do_write(r) ELSE r
    BY DEF on_connect
  <1> HIDE DEF r
  <1>3. /\ r.starts = 1 /\ r.draining_ = s.draining_ /\ r.requested = s.requested
        /\ r.responses_ = 0 /\ ~r.writing_
    BY <1>1 DEF SameButOps
  <1>4. CASE WantsPayload(r)
    <2>1. Keeps(r, do_write(r)) /\ (Peaceful(r) => Peaceful(do_write(r)))
      BY <1>1, <1>3, DoWriteKeeps
    <2> QED BY <1>1, <1>2, <1>3, <1>4, <2>1 DEF Keeps
  <1>5. CASE ~WantsPayload(r)
    <2>1. Wakeup(r) BY <1>3, <1>5 DEF Wakeup
    <2> QED BY <1>1, <1>2, <1>3, <1>5, <2>1
  <1> QED BY <1>4, <1>5

\* handle_message() turns the read token into a posted continuation.
LEMMA HandleMessageKeeps ==
    ASSUME NEW s, Core(s), Wakeup(s), s.starts > 0, Reading(s) = 0
    PROVE  LET h == handle_message(s)
           IN  /\ Core(h) /\ Wakeup(h) /\ (Peaceful(s) => Peaceful(h))
               /\ h.starts = s.starts /\ h.draining_ = s.draining_ /\ h.requested = s.requested
               /\ h.live_ = s.live_
  <1> DEFINE p == s.posts + 1
             h == [s EXCEPT !.posts = p]
  <1>0. s \in SessionState BY DEF Core
  <1>1. p \in Nat BY <1>0, FieldTypes
  <1>2. handle_message(s) = h BY DEF handle_message
  <1> HIDE DEF p
  <1>3. /\ h \in SessionState /\ h.posts = p /\ h.ops = s.ops
        /\ h.live_ = s.live_ /\ h.flood_ = s.flood_ /\ h.draining_ = s.draining_
        /\ h.writing_ = s.writing_ /\ h.writes_queued_ = s.writes_queued_
        /\ h.responses_ = s.responses_ /\ h.next_payload_index_ = s.next_payload_index_
        /\ h.open = s.open /\ h.starts = s.starts
        /\ h.disconnects = s.disconnects /\ h.requested = s.requested
    BY <1>0, <1>1 DEF SessionState
  <1> HIDE DEF h
  <1>4. Sending(h) = Sending(s) /\ Outstanding(h, "receive") = Outstanding(s, "receive")
    BY <1>3 DEF Sending, Outstanding
  <1>5. Reading(h) = 1
    BY <1>0, <1>3, <1>4, OutstandingNat, FieldTypes DEF Reading, OpKind, p
  <1>6. Fresh(h) BY <1>3 DEF Fresh
  <1>7. Tokens(h) BY <1>3, <1>4, <1>5 DEF Core, Tokens
  <1>8. Budget(h) BY <1>3 DEF Core, Budget
  <1>9. Wakeup(h) BY <1>3 DEF Wakeup, WantsPayload, Exhausted
  <1>10. Peaceful(s) => Peaceful(h) BY <1>3 DEF Peaceful, NoError, Delivered
  <1> QED BY <1>2, <1>3, <1>6, <1>7, <1>8, <1>9, <1>10 DEF Core

\* The completion of a receive hands the read token to its handler.
LEMMA ConsumeKeeps ==
    ASSUME NEW s, Core(s), Wakeup(s), NEW kind \in OpKind, NEW r \in {"ok", "err"},
           s.ops[kind][r] > 0
    PROVE  LET c == Consume(s, kind, r)
           IN  /\ Core(c) /\ Wakeup(c) /\ c.starts = s.starts /\ c.live_ = s.live_
               /\ c.draining_ = s.draining_ /\ c.requested = s.requested /\ c.starts > 0
               /\ r = "ok" /\ Peaceful(s) => Peaceful(c)
               /\ r = "err" /\ Peaceful(s) => ~s.live_ /\ Peaceful(c)
               /\ kind = "receive" => Reading(c) = 0
               /\ kind = "send" => Sending(c) = 0
  <1> DEFINE c == Consume(s, kind, r)
  <1>0. s \in SessionState BY DEF Core
  <1>1. /\ c \in SessionState /\ SameButOps(s, c)
        /\ Outstanding(c, kind) = Outstanding(s, kind) - 1
        /\ Outstanding(s, kind) > 0
        /\ \A k \in OpKind \ {kind} : Outstanding(c, k) = Outstanding(s, k)
        /\ r = "ok" /\ NoError(s) => NoError(c)
        /\ r = "err" => ~NoError(s)
    BY <1>0, ConsumeEffect
  <1> HIDE DEF c
  <1>a. /\ \A k \in OpKind : Outstanding(s, k) \in Nat
        /\ s.posts \in Nat /\ s.starts \in Nat /\ c.posts = s.posts
    BY <1>0, <1>1, OutstandingNat, FieldTypes DEF SameButOps
  <1>2. CASE kind = "receive"
    <2>1. /\ Reading(s) = 1 /\ Reading(c) = 0 /\ Sending(c) = Sending(s)
      BY <1>1, <1>2, <1>a DEF Reading, Sending, OpKind, Core, Tokens
    <2> QED
      <3>1. s.starts # 0 BY <2>1 DEF Core, Fresh
      <3>2. Fresh(c) BY <1>1, <3>1 DEF Fresh, SameButOps
      <3>3. Tokens(c) BY <1>1, <2>1 DEF Core, Tokens, SameButOps
      <3>4. Budget(c) BY <1>1 DEF Core, Budget, SameButOps
      <3>5. Wakeup(c) BY <1>1 DEF Wakeup, WantsPayload, Exhausted, SameButOps
      <3>6. /\ r = "ok" /\ Peaceful(s) => Peaceful(c)
            /\ r = "err" /\ Peaceful(s) => ~s.live_ /\ Peaceful(c)
        BY <1>1 DEF Peaceful, Delivered, SameButOps
      <3> QED BY <1>1, <1>2, <1>a, <2>1, <3>1, <3>2, <3>3, <3>4, <3>5, <3>6 DEF Core, SameButOps, c
  <1>3. CASE kind = "send"
    <2>1. /\ Sending(s) = 1 /\ Sending(c) = 0 /\ Reading(c) = Reading(s)
      BY <1>1, <1>3, <1>a DEF Reading, Sending, OpKind, Core, Tokens
    <2> QED
      <3>1. s.starts # 0 BY <2>1 DEF Core, Fresh
      <3>2. Fresh(c) BY <1>1, <3>1 DEF Fresh, SameButOps
      <3>3. Tokens(c) BY <1>1, <2>1 DEF Core, Tokens, SameButOps
      <3>4. Budget(c) BY <1>1 DEF Core, Budget, SameButOps
      <3>5. Wakeup(c) BY <1>1 DEF Wakeup, WantsPayload, Exhausted, SameButOps
      <3>6. /\ r = "ok" /\ Peaceful(s) => Peaceful(c)
            /\ r = "err" /\ Peaceful(s) => ~s.live_ /\ Peaceful(c)
        BY <1>1 DEF Peaceful, Delivered, SameButOps
      <3> QED BY <1>1, <1>3, <1>a, <2>1, <3>1, <3>2, <3>3, <3>4, <3>5, <3>6 DEF Core, SameButOps, c
  <1> QED BY <1>2, <1>3 DEF OpKind

-----------------------------------------------------------------------------
(* Posting and taking commands *)

LEMMA TypeParts ==
    /\ TypeOK <=> /\ sess \in SessionState /\ cmds \in Seq(Command)
                  /\ script \in ScriptState /\ env \in EnvState
    /\ TypeOK' <=> /\ sess' \in SessionState /\ cmds' \in Seq(Command)
                   /\ script' \in ScriptState /\ env' \in EnvState
  BY DEF TypeOK, SessionState, OpsType, ScriptState, EnvState

\* Appending a command that verify_script() allows.
LEMMA Appended ==
    ASSUME IInv, NEW c \in Command, cmds' = Append(cmds, c), sess' = sess, env' = env,
           script' \in ScriptState,
           c.op # "send" => c.n = 0,
           script'.sent = script.sent + c.n, script'.sent <= NumPayloads,
           c.op = "start" => ~script.started /\ script'.started,
           c.op # "start" => script'.started = script.started,
           script'.active => script.active \/ c.op = "start",
           c.op = "stop" => ~script.stopped, c.op = "stop" \/ script.stopped => script'.stopped,
           c.op = "flood" => AllowFlood,
           c.op \in AfterDrain => script.active,
           c.op = "drain" => ~script'.active
    PROVE  IInv'
  <1>0. /\ sess \in SessionState /\ cmds \in Seq(Command) /\ script \in ScriptState
        /\ env \in EnvState /\ Len(cmds) \in Nat /\ script.sent \in Nat /\ c.n \in Nat
    BY TypeParts DEF IInv, ScriptState, Command
  <1>1. /\ cmds' \in Seq(Command) /\ Len(cmds') = Len(cmds) + 1
        /\ DOMAIN cmds' = DOMAIN cmds \cup {Len(cmds) + 1}
        /\ DOMAIN cmds = 1 .. Len(cmds)
        /\ cmds'[Len(cmds) + 1] = c
        /\ \A k \in DOMAIN cmds : cmds'[k] = cmds[k]
    BY <1>0
  <1>2. TypeOK' BY <1>0, <1>1, TypeParts
  <1>3. Core(sess)' /\ Wakeup(sess)' /\ (~env.failed /\ ~env.stopRan => Peaceful(sess))'
    BY DEF IInv, Core, Fresh, Tokens, Budget, Reading, Sending, Outstanding, Wakeup,
           WantsPayload, Exhausted, Peaceful, NoError, Delivered
  <1>4. Requests'
    <2>1. PICK f \in [0 .. Len(cmds) -> 0 .. NumPayloads] :
            /\ f[0] = sess.requested
            /\ f[Len(cmds)] = script.sent
            /\ \A k \in 1 .. Len(cmds) : f[k] = f[k - 1] + cmds[k].n
      BY DEF IInv, Requests
    <2> DEFINE g == [k \in 0 .. Len(cmds) + 1 |-> IF k = Len(cmds) + 1 THEN script'.sent ELSE f[k]]
    <2>2. g \in [0 .. Len(cmds') -> 0 .. NumPayloads]
      <3>1. script'.sent \in 0 .. NumPayloads BY <1>0, ConstantsAssumption
      <3>2. \A k \in 0 .. Len(cmds) + 1 : k # Len(cmds) + 1 => k \in 0 .. Len(cmds) BY <1>0
      <3> QED BY <1>1, <3>1, <3>2
    <2>3. g[0] = sess'.requested BY <1>0, <2>1
    <2>4. g[Len(cmds')] = script'.sent BY <1>0, <1>1
    <2>5. \A k \in 1 .. Len(cmds') : g[k] = g[k - 1] + cmds'[k].n
      <3> TAKE k \in 1 .. Len(cmds')
      <3>1. CASE k = Len(cmds) + 1
        <4>1. g[k] = script'.sent /\ k - 1 = Len(cmds) BY <1>0, <3>1
        <4>2. g[Len(cmds)] = f[Len(cmds)] BY <1>0
        <4> QED BY <1>0, <1>1, <2>1, <3>1, <4>1, <4>2
      <3>2. CASE k # Len(cmds) + 1
        <4>1. k \in 1 .. Len(cmds) /\ k - 1 \in 0 .. Len(cmds) BY <1>0, <1>1, <3>2
        <4>2. g[k] = f[k] /\ g[k - 1] = f[k - 1] BY <1>0, <4>1
        <4>3. cmds'[k] = cmds[k] BY <1>1, <4>1
        <4> QED BY <2>1, <4>1, <4>2, <4>3
      <3> QED BY <3>1, <3>2
    <2> HIDE DEF g
    <2> QED BY <2>2, <2>3, <2>4, <2>5 DEF Requests
  <1>5. Queued'
    <2>1. \A k \in DOMAIN cmds' : cmds'[k].op # "send" => cmds'[k].n = 0
      BY <1>1 DEF IInv, Queued
    <2>2. \A k \in DOMAIN cmds' : cmds'[k].op = "start" => sess'.starts = 0 /\ script'.started
      BY <1>1 DEF IInv, Queued
    <2>3. \A k, l \in DOMAIN cmds' : cmds'[k].op = "start" /\ cmds'[l].op = "start" => k = l
      BY <1>1 DEF IInv, Queued
    <2>4. ~script'.started => sess'.starts = 0 /\ ~script'.active
      BY DEF IInv, Queued
    <2>5. \A k \in DOMAIN cmds' : cmds'[k].op = "stop" => script'.stopped
      BY <1>1 DEF IInv, Queued
    <2>6. \A k, l \in DOMAIN cmds' : cmds'[k].op = "stop" /\ cmds'[l].op = "stop" => k = l
      BY <1>1 DEF IInv, Queued
    <2>7. \A k \in DOMAIN cmds' : cmds'[k].op = "flood" => AllowFlood
      BY <1>1 DEF IInv, Queued
    <2> QED BY <2>1, <2>2, <2>3, <2>4, <2>5, <2>6, <2>7 DEF Queued
  <1>6. Drains'
    <2>0. /\ \A k \in DOMAIN cmds : cmds[k].op = "drain" => script.started /\ ~script.active
          /\ sess.draining_ => script.started /\ ~script.active
          /\ script.active => script.started
      BY DEF IInv, Drains, Queued
    <2>1. ASSUME NEW k \in DOMAIN cmds', NEW l \in DOMAIN cmds', cmds'[k].op = "drain", k < l
          PROVE  cmds'[l].op \notin AfterDrain
      <3>1. k \in DOMAIN cmds BY <1>0, <1>1, <2>1
      <3>2. CASE l \in DOMAIN cmds BY <1>1, <2>1, <3>1, <3>2 DEF IInv, Drains
      <3>3. CASE l = Len(cmds) + 1 BY <1>1, <2>0, <2>1, <3>1, <3>3
      <3> QED BY <1>1, <3>2, <3>3
    <2>2. ASSUME NEW k \in DOMAIN cmds', cmds'[k].op = "drain"
          PROVE  script'.started /\ ~script'.active
      <3>1. CASE k \in DOMAIN cmds BY <1>1, <2>0, <2>2, <3>1
      <3>2. CASE k = Len(cmds) + 1 BY <1>1, <2>0, <2>2, <3>2 DEF AfterDrain
      <3> QED BY <1>1, <3>1, <3>2
    <2>3. ASSUME sess'.draining_
          PROVE  /\ script'.started /\ ~script'.active
                 /\ \A k \in DOMAIN cmds' : cmds'[k].op \notin AfterDrain
      <3>1. script'.started /\ ~script'.active BY <2>0, <2>3
      <3>2. ASSUME NEW k \in DOMAIN cmds' PROVE cmds'[k].op \notin AfterDrain
        <4>1. CASE k \in DOMAIN cmds BY <1>1, <2>3, <4>1 DEF IInv, Drains
        <4>2. CASE k = Len(cmds) + 1 BY <1>1, <2>0, <2>3, <4>2
        <4> QED BY <1>1, <4>1, <4>2
      <3> QED BY <3>1, <3>2
    <2> QED BY <2>1, <2>2, <2>3 DEF Drains, AfterDrain
  <1> QED BY <1>2, <1>3, <1>4, <1>5, <1>6 DEF IInv

\* The head of the queue, as the invariant knows it.
LEMMA HeadFacts ==
    ASSUME IInv, NEW op, Take(op)
    PROVE  /\ Head(cmds).n \in Nat /\ (op # "send" => Head(cmds).n = 0)
           /\ sess.requested + Head(cmds).n <= NumPayloads
           /\ op = "start" => sess.starts = 0
           /\ op = "flood" => AllowFlood
           /\ op \in AfterDrain => ~sess.draining_
  <1>1. cmds \in Seq(Command) /\ cmds # <<>> /\ Head(cmds).op = op
    BY TypeParts DEF IInv, Take
  <1>2. /\ Head(cmds) = cmds[1] /\ 1 \in DOMAIN cmds /\ 1 \in 1 .. Len(cmds)
        /\ cmds[1] \in Command /\ Len(cmds) \in Nat
    BY <1>1
  <1>3. Head(cmds).n \in Nat BY <1>2 DEF Command
  <1>4. PICK f \in [0 .. Len(cmds) -> 0 .. NumPayloads] :
            /\ f[0] = sess.requested
            /\ \A k \in 1 .. Len(cmds) : f[k] = f[k - 1] + cmds[k].n
    BY DEF IInv, Requests
  <1>5. f[1] = f[1 - 1] + cmds[1].n BY <1>2, <1>4
  <1>6. 1 - 1 = 0 /\ f[1] \in 0 .. NumPayloads BY <1>2, <1>4
  <1>7. sess.requested + Head(cmds).n <= NumPayloads
    BY <1>2, <1>4, <1>5, <1>6, ConstantsAssumption
  <1>8. /\ op # "send" => Head(cmds).n = 0
        /\ op = "start" => sess.starts = 0
        /\ op = "flood" => AllowFlood
    BY <1>1, <1>2 DEF IInv, Queued
  <1>9. op \in AfterDrain => ~sess.draining_ BY <1>1, <1>2 DEF IInv, Drains
  <1> QED BY <1>3, <1>7, <1>8, <1>9

\* Taking the oldest command, whatever its handler does to the session.
LEMMA Taken ==
    ASSUME IInv, NEW op, Take(op), script' = script,
           sess'.requested = sess.requested + Head(cmds).n,
           op # "start" => sess'.starts = sess.starts,
           sess'.draining_ => sess.draining_ \/ op = "drain"
    PROVE  cmds' \in Seq(Command) /\ Requests' /\ Queued' /\ Drains'
  <1>1. cmds \in Seq(Command) /\ cmds # <<>> /\ Head(cmds).op = op /\ cmds' = Tail(cmds)
    BY TypeParts DEF IInv, Take
  <1>2. /\ Head(cmds) = cmds[1] /\ 1 \in DOMAIN cmds /\ Len(cmds) \in Nat \ {0}
        /\ cmds' \in Seq(Command) /\ Len(cmds') = Len(cmds) - 1
        /\ DOMAIN cmds = 1 .. Len(cmds) /\ DOMAIN cmds' = 1 .. Len(cmds')
        /\ \A k \in DOMAIN cmds' : cmds'[k] = cmds[k + 1] /\ k + 1 \in DOMAIN cmds /\ k \in Nat \ {0}
    BY <1>1
  <1>3. Requests'
    <2>1. PICK f \in [0 .. Len(cmds) -> 0 .. NumPayloads] :
            /\ f[0] = sess.requested
            /\ f[Len(cmds)] = script.sent
            /\ \A k \in 1 .. Len(cmds) : f[k] = f[k - 1] + cmds[k].n
      BY DEF IInv, Requests
    <2> DEFINE g == [k \in 0 .. Len(cmds') |-> f[k + 1]]
    <2>2. \A k \in 0 .. Len(cmds') : k + 1 \in 0 .. Len(cmds) /\ k + 1 \in 1 .. Len(cmds)
      BY <1>2
    <2>3. g \in [0 .. Len(cmds') -> 0 .. NumPayloads] BY <2>1, <2>2
    <2>4. g[0] = sess'.requested
      <3>1. 0 \in 0 .. Len(cmds') /\ 0 + 1 = 1 /\ 1 - 1 = 0 BY <1>2
      <3>2. g[0] = f[1] BY <3>1
      <3>3. f[1] = f[0] + cmds[1].n BY <1>2, <2>1, <3>1
      <3> QED BY <1>2, <2>1, <3>2, <3>3
    <2>5. g[Len(cmds')] = script'.sent
      <3>1. Len(cmds') \in 0 .. Len(cmds') /\ Len(cmds') + 1 = Len(cmds) BY <1>2
      <3> QED BY <2>1, <3>1
    <2>6. \A k \in 1 .. Len(cmds') : g[k] = g[k - 1] + cmds'[k].n
      <3> TAKE k \in 1 .. Len(cmds')
      <3>1. /\ k \in 0 .. Len(cmds') /\ k - 1 \in 0 .. Len(cmds') /\ (k - 1) + 1 = k
            /\ (k + 1) - 1 = k /\ k + 1 \in 1 .. Len(cmds) /\ k \in DOMAIN cmds'
        BY <1>2
      <3>2. g[k] = f[k + 1] /\ g[k - 1] = f[k] BY <3>1
      <3>3. f[k + 1] = f[k] + cmds[k + 1].n BY <2>1, <3>1
      <3> QED BY <1>2, <3>1, <3>2, <3>3
    <2> HIDE DEF g
    <2> QED BY <2>3, <2>4, <2>5, <2>6 DEF Requests
  <1>4. Queued'
    <2>1. op = "start" => script.started /\ \A k \in DOMAIN cmds' : cmds'[k].op # "start"
      <3> SUFFICES ASSUME op = "start"
                   PROVE  script.started /\ \A k \in DOMAIN cmds' : cmds'[k].op # "start"
        OBVIOUS
      <3>1. script.started BY <1>1, <1>2 DEF IInv, Queued
      <3>2. ASSUME NEW k \in DOMAIN cmds', cmds'[k].op = "start" PROVE FALSE
        <4>1. cmds[k + 1].op = "start" /\ cmds[1].op = "start" /\ k + 1 \in DOMAIN cmds
          BY <1>1, <1>2, <3>2
        <4>2. k + 1 = 1 BY <1>2, <4>1 DEF IInv, Queued
        <4> QED BY <1>2, <4>2
      <3> QED BY <3>1, <3>2
    <2>2. \A k \in DOMAIN cmds' : cmds'[k].op # "send" => cmds'[k].n = 0
      BY <1>2 DEF IInv, Queued
    <2>3. \A k \in DOMAIN cmds' : cmds'[k].op = "start" => sess'.starts = 0 /\ script'.started
      BY <1>2, <2>1 DEF IInv, Queued
    <2>4. \A k, l \in DOMAIN cmds' : cmds'[k].op = "start" /\ cmds'[l].op = "start" => k = l
      <3> SUFFICES ASSUME NEW k \in DOMAIN cmds', NEW l \in DOMAIN cmds',
                          cmds'[k].op = "start", cmds'[l].op = "start"
                   PROVE  k = l
        OBVIOUS
      <3>1. k + 1 = l + 1 BY <1>2 DEF IInv, Queued
      <3> QED BY <1>2, <3>1
    <2>5. ~script'.started => sess'.starts = 0 /\ ~script'.active
      BY <2>1 DEF IInv, Queued
    <2>6. \A k \in DOMAIN cmds' : cmds'[k].op = "stop" => script'.stopped
      BY <1>2 DEF IInv, Queued
    <2>7. \A k, l \in DOMAIN cmds' : cmds'[k].op = "stop" /\ cmds'[l].op = "stop" => k = l
      <3> SUFFICES ASSUME NEW k \in DOMAIN cmds', NEW l \in DOMAIN cmds',
                          cmds'[k].op = "stop", cmds'[l].op = "stop"
                   PROVE  k = l
        OBVIOUS
      <3>1. k + 1 = l + 1 BY <1>2 DEF IInv, Queued
      <3> QED BY <1>2, <3>1
    <2>8. \A k \in DOMAIN cmds' : cmds'[k].op = "flood" => AllowFlood
      BY <1>2 DEF IInv, Queued
    <2> QED BY <2>2, <2>3, <2>4, <2>5, <2>6, <2>7, <2>8 DEF Queued
  <1>5. Drains'
    <2>1. ASSUME NEW k \in DOMAIN cmds', NEW l \in DOMAIN cmds', cmds'[k].op = "drain", k < l
          PROVE  cmds'[l].op \notin AfterDrain
      <3>1. k + 1 < l + 1 BY <1>2, <2>1
      <3> QED BY <1>2, <2>1, <3>1 DEF IInv, Drains
    <2>2. \A k \in DOMAIN cmds' : cmds'[k].op = "drain" => script'.started /\ ~script'.active
      BY <1>2 DEF IInv, Drains
    <2>3. ASSUME sess'.draining_
          PROVE  /\ script'.started /\ ~script'.active
                 /\ \A k \in DOMAIN cmds' : cmds'[k].op \notin AfterDrain
      <3>1. CASE sess.draining_ BY <1>2, <3>1 DEF IInv, Drains
      <3>2. CASE op = "drain"
        <4>1. script.started /\ ~script.active BY <1>1, <1>2, <3>2 DEF IInv, Drains
        <4>2. \A k \in DOMAIN cmds' : 1 < k + 1 BY <1>2
        <4>3. \A k \in DOMAIN cmds' : cmds'[k].op \notin AfterDrain
          BY <1>1, <1>2, <3>2, <4>2 DEF IInv, Drains
        <4> QED BY <4>1, <4>3
      <3> QED BY <2>3, <3>1, <3>2
    <2> QED BY <2>1, <2>2, <2>3 DEF Drains, AfterDrain
  <1> QED BY <1>2, <1>3, <1>4, <1>5

-----------------------------------------------------------------------------
(* Actions *)

\* What the handlers below leave behind is a session t like this.
LEMMA CommandStep ==
    ASSUME IInv, NEW op, Take(op), script' = script, env' \in EnvState,
           NEW t, sess' = t, Core(t), Wakeup(t), ~env'.failed /\ ~env'.stopRan => Peaceful(t),
           t.requested = sess.requested + Head(cmds).n,
           op # "start" => t.starts = sess.starts,
           t.draining_ => sess.draining_ \/ op = "drain"
    PROVE  IInv'
  <1>1. cmds' \in Seq(Command) /\ Requests' /\ Queued' /\ Drains' BY Taken
  <1>2. TypeOK' BY <1>1, TypeParts DEF IInv, Core
  <1>3. Core(sess)' /\ Wakeup(sess)' /\ (~env.failed /\ ~env.stopRan => Peaceful(sess))'
    BY DEF Core, Fresh, Tokens, Budget, Reading, Sending, Outstanding, Wakeup,
           WantsPayload, Exhausted, Peaceful, NoError, Delivered
  <1> QED BY <1>1, <1>2, <1>3 DEF IInv

LEMMA HandlerStep ==
    ASSUME IInv, cmds' = cmds, script' = script, env' \in EnvState,
           NEW t, sess' = t, Core(t), Wakeup(t), ~env'.failed /\ ~env'.stopRan => Peaceful(t),
           t.requested = sess.requested, t.starts = sess.starts, t.draining_ = sess.draining_
    PROVE  IInv'
  <1>1. Requests' /\ Queued' /\ Drains'
    BY DEF IInv, Requests, Queued, Drains, AfterDrain
  <1>2. TypeOK' BY TypeParts DEF IInv, Core
  <1>3. Core(sess)' /\ Wakeup(sess)' /\ (~env.failed /\ ~env.stopRan => Peaceful(sess))'
    BY DEF Core, Fresh, Tokens, Budget, Reading, Sending, Outstanding, Wakeup,
           WantsPayload, Exhausted, Peaceful, NoError, Delivered
  <1> QED BY <1>1, <1>2, <1>3 DEF IInv

Post == PostStart \/ PostFlood \/ PostDrain \/ PostStop \/ \E n \in SendCounts : PostSend(n)

LEMMA PostKeeps == ASSUME IInv, Post PROVE IInv'
  <1>0. script \in ScriptState /\ script.sent \in Nat /\ script.sent <= NumPayloads
    <2>1. script \in ScriptState /\ cmds \in Seq(Command) BY TypeParts DEF IInv
    <2>2. PICK f \in [0 .. Len(cmds) -> 0 .. NumPayloads] : f[Len(cmds)] = script.sent
      BY DEF IInv, Requests
    <2>3. Len(cmds) \in 0 .. Len(cmds) BY <2>1
    <2> QED BY <2>1, <2>2, <2>3, ConstantsAssumption DEF ScriptState
  <1>1. CASE PostStart
    <2> DEFINE c == [op |-> "start", n |-> 0]
    <2>1. c \in Command /\ c.op = "start" /\ c.n = 0 BY DEF Command
    <2>2. ~script.started /\ cmds' = Append(cmds, c) /\ sess' = sess /\ env' = env
      BY <1>1 DEF PostStart
    <2>3. script' = [script EXCEPT !.started = TRUE, !.active = TRUE] BY <1>1 DEF PostStart
    <2>4. /\ script' \in ScriptState /\ script'.started /\ script'.sent = script.sent
          /\ script'.stopped = script.stopped
      BY <1>0, <2>3 DEF ScriptState
    <2> HIDE DEF c
    <2>5. script'.sent = script.sent + c.n /\ script'.sent <= NumPayloads BY <1>0, <2>1, <2>4
    <2>6. c.op \notin AfterDrain BY <2>1 DEF AfterDrain
    <2> QED BY <2>1, <2>2, <2>4, <2>5, <2>6, Appended
  <1>2. ASSUME NEW n \in SendCounts, PostSend(n) PROVE IInv'
    <2> DEFINE c == [op |-> "send", n |-> n]
               m == script.sent + n
    <2>0. n \in Nat BY ConstantsAssumption
    <2>1. c \in Command BY <2>0 DEF Command
    <2>2. /\ script.active /\ m <= NumPayloads /\ script' = [script EXCEPT !.sent = m]
          /\ cmds' = Append(cmds, c) /\ sess' = sess /\ env' = env
      BY <1>2 DEF PostSend
    <2>a. m \in Nat BY <1>0, <2>0
    <2>b. c.op = "send" /\ c.n = n /\ m = script.sent + n OBVIOUS
    <2> HIDE DEF c, m
    <2>3. /\ script' \in ScriptState /\ script'.started = script.started /\ script'.sent = m
          /\ script'.stopped = script.stopped /\ script'.active = script.active
      BY <1>0, <2>2, <2>a DEF ScriptState
    <2> QED BY <2>1, <2>2, <2>3, <2>b, Appended
  <1>3. CASE PostFlood
    <2> DEFINE c == [op |-> "flood", n |-> 0]
    <2>1. c \in Command BY DEF Command
    <2>2. /\ script.active /\ AllowFlood /\ script' = script
          /\ cmds' = Append(cmds, c) /\ sess' = sess /\ env' = env
      BY <1>3 DEF PostFlood
    <2>3. script'.sent = script.sent + 0 BY <1>0, <2>2
    <2>4. c.op = "flood" /\ c.n = 0 OBVIOUS
    <2> HIDE DEF c
    <2> QED BY <1>0, <2>1, <2>2, <2>3, <2>4, Appended
  <1>4. CASE PostDrain
    <2> DEFINE c == [op |-> "drain", n |-> 0]
    <2>1. c \in Command /\ c.op = "drain" /\ c.n = 0 BY DEF Command
    <2>2. script.active /\ cmds' = Append(cmds, c) /\ sess' = sess /\ env' = env
      BY <1>4 DEF PostDrain
    <2>3. script' = [script EXCEPT !.active = FALSE] BY <1>4 DEF PostDrain
    <2>4. /\ script' \in ScriptState /\ ~script'.active /\ script'.sent = script.sent
          /\ script'.stopped = script.stopped /\ script'.started = script.started
      BY <1>0, <2>3 DEF ScriptState
    <2> HIDE DEF c
    <2>5. script'.sent = script.sent + c.n /\ script'.sent <= NumPayloads BY <1>0, <2>1, <2>4
    <2> QED BY <2>1, <2>2, <2>4, <2>5, Appended
  <1>5. CASE PostStop
    <2> DEFINE c == [op |-> "stop", n |-> 0]
    <2>1. c \in Command /\ c.op = "stop" /\ c.n = 0 BY DEF Command
    <2>2. ~script.stopped /\ cmds' = Append(cmds, c) /\ sess' = sess /\ env' = env
      BY <1>5 DEF PostStop
    <2>3. script' = [script EXCEPT !.stopped = TRUE] BY <1>5 DEF PostStop
    <2>4. /\ script' \in ScriptState /\ script'.stopped /\ script'.sent = script.sent
          /\ script'.active = script.active /\ script'.started = script.started
      BY <1>0, <2>3 DEF ScriptState
    <2> HIDE DEF c
    <2>5. script'.sent = script.sent + c.n /\ script'.sent <= NumPayloads BY <1>0, <2>1, <2>4
    <2>6. c.op \notin AfterDrain BY <2>1 DEF AfterDrain
    <2> QED BY <2>1, <2>2, <2>4, <2>5, <2>6, Appended
  <1> QED BY <1>1, <1>2, <1>3, <1>4, <1>5 DEF Post

\* start() finds a session that was never started.
LEMMA StartKeeps ==
    ASSUME IInv, NEW opened \in BOOLEAN, start(opened)
    PROVE  IInv' /\ sess.starts = 0 /\ sess'.starts = 1
  <1> DEFINE n == sess.starts + 1
             s == [sess EXCEPT !.live_ = TRUE, !.starts = n]
             u == [s EXCEPT !.open = TRUE]
             e == env.failed \/ ~opened
  <1>0. /\ sess \in SessionState /\ env \in EnvState /\ Take("start") /\ script' = script
        /\ Core(sess)
    BY TypeParts DEF IInv, start
  <1>1. /\ sess.starts = 0 /\ Head(cmds).n = 0 /\ Head(cmds).n \in Nat
    BY <1>0, HeadFacts
  <1>2. /\ Reading(sess) = 0 /\ Sending(sess) = 0 /\ ~sess.live_ /\ sess.disconnects = 0
        /\ ~sess.writing_ /\ sess.responses_ = 0
    BY <1>0, <1>1 DEF Core, Fresh
  <1>3. env' = [env EXCEPT !.failed = e] /\ e \in BOOLEAN BY <1>0 DEF start
  <1>4. sess' = IF opened THEN on_connect(u) ELSE close_session(s) BY DEF start
  <1>5. n = 1 BY <1>1
  <1> HIDE DEF n
  <1>6. /\ s \in SessionState /\ s.ops = sess.ops /\ s.posts = sess.posts /\ s.starts = 1
        /\ s.live_ /\ s.flood_ = sess.flood_ /\ s.draining_ = sess.draining_
        /\ s.writing_ = sess.writing_ /\ s.writes_queued_ = sess.writes_queued_
        /\ s.responses_ = sess.responses_ /\ s.next_payload_index_ = sess.next_payload_index_
        /\ s.disconnects = sess.disconnects /\ s.requested = sess.requested
        /\ s.open = sess.open
    BY <1>0, <1>5 DEF SessionState
  <1> HIDE DEF s
  <1>7. /\ u \in SessionState /\ u.ops = sess.ops /\ u.posts = sess.posts /\ u.starts = 1
        /\ u.live_ /\ u.flood_ = sess.flood_ /\ u.draining_ = sess.draining_
        /\ u.writing_ = sess.writing_ /\ u.writes_queued_ = sess.writes_queued_
        /\ u.responses_ = sess.responses_ /\ u.next_payload_index_ = sess.next_payload_index_
        /\ u.disconnects = sess.disconnects /\ u.requested = sess.requested /\ u.open
    BY <1>6 DEF SessionState
  <1> HIDE DEF u, e
  <1>8. env' \in EnvState /\ (~env'.failed => ~e) BY <1>0, <1>3 DEF EnvState
  <1>9. CASE opened
    <2>1. Reading(u) = 0 /\ Sending(u) = 0
      BY <1>2, <1>7 DEF Reading, Sending, Outstanding
    <2>2. Fresh(u) /\ Tokens(u) BY <1>2, <1>7, <2>1 DEF Fresh, Tokens
    <2>3. Budget(u) BY <1>0, <1>7 DEF Core, Budget
    <2>4. Core(u) BY <1>7, <2>2, <2>3 DEF Core
    <2>5. Peaceful(u)
      <3>1. \A k \in OpKind : Outstanding(u, k) = 0
        BY <1>7, <2>1, OutstandingNat, FieldTypes DEF Reading, Sending, OpKind
      <3>2. NoError(u) BY <1>7, <3>1, OutstandingNat DEF NoError, Outstanding
      <3> QED BY <1>7, <3>2 DEF Peaceful
    <2> DEFINE t == on_connect(u)
    <2>6. /\ Core(t) /\ Wakeup(t) /\ Peaceful(t) /\ t.starts = 1
          /\ t.draining_ = sess.draining_ /\ t.requested = sess.requested
      BY <1>2, <1>7, <2>1, <2>4, <2>5, OnConnectKeeps
    <2>7. sess' = t BY <1>4, <1>9
    <2> HIDE DEF t
    <2>8. t.requested = sess.requested + Head(cmds).n BY <1>0, <1>1, <2>6, FieldTypes
    <2>9. IInv' BY <1>0, <1>8, <2>6, <2>7, <2>8, CommandStep
    <2> QED BY <1>1, <2>6, <2>7, <2>9
  <1>10. CASE ~opened
    <2> DEFINE a == [s EXCEPT !.ops = Aborted(s.ops)]
               d == s.disconnects + 1
               t == close_session(s)
    <2>1. t = [a EXCEPT !.open = FALSE, !.live_ = FALSE, !.disconnects = d]
      BY <1>6 DEF close_session, SessionState
    <2>2. a \in SessionState /\ SameButOps(s, a) /\ a.ops = Aborted(s.ops)
      BY <1>6, AbortedEffect, NewOps
    <2>3. d = 1 BY <1>2, <1>6
    <2> HIDE DEF a, d, t
    <2>4. /\ t \in SessionState /\ t.ops = a.ops /\ t.open = FALSE /\ t.live_ = FALSE
          /\ t.disconnects = 1 /\ t.flood_ = a.flood_ /\ t.draining_ = a.draining_
          /\ t.writing_ = a.writing_ /\ t.writes_queued_ = a.writes_queued_
          /\ t.responses_ = a.responses_ /\ t.next_payload_index_ = a.next_payload_index_
          /\ t.posts = a.posts /\ t.starts = a.starts /\ t.requested = a.requested
      BY <2>1, <2>2, <2>3 DEF SessionState
    <2>5. /\ t.flood_ = sess.flood_ /\ t.draining_ = sess.draining_
          /\ t.writing_ = sess.writing_ /\ t.writes_queued_ = sess.writes_queued_
          /\ t.next_payload_index_ = sess.next_payload_index_
          /\ t.posts = sess.posts /\ t.starts = 1 /\ t.requested = sess.requested
      BY <1>6, <2>2, <2>4 DEF SameButOps
    <2>6. \A k \in OpKind : Outstanding(t, k) = Outstanding(s, k)
      BY <1>6, <2>2, <2>4, AbortedEffect DEF Outstanding
    <2>7. Reading(t) = 0 /\ Sending(t) = 0
      <3>1. Reading(s) = Reading(sess) /\ Sending(s) = Sending(sess)
        BY <1>6 DEF Reading, Sending, Outstanding
      <3>2. Reading(t) = Reading(s) /\ Sending(t) = Sending(s)
        BY <1>6, <2>5, <2>6 DEF Reading, Sending, OpKind
      <3> QED BY <1>2, <3>1, <3>2
    <2>8. Fresh(t) /\ Tokens(t) BY <2>4, <2>5, <2>7 DEF Fresh, Tokens
    <2>9. Budget(t) BY <1>0, <2>5 DEF Core, Budget
    <2>10. Core(t) /\ Wakeup(t) BY <2>4, <2>8, <2>9 DEF Core, Wakeup
    <2>11. sess' = t BY <1>4, <1>10 DEF t
    <2>12. env'.failed BY <1>8, <1>10 DEF e
    <2>13. t.requested = sess.requested + Head(cmds).n BY <1>0, <1>1, <2>5, FieldTypes
    <2>14. IInv' BY <1>0, <1>8, <2>5, <2>10, <2>11, <2>12, <2>13, CommandStep
    <2> QED BY <1>1, <2>5, <2>11, <2>14
  <1> QED BY <1>9, <1>10

\* t has the operations, the writer and the callbacks of s.
SameTokens(s, t) ==
    /\ t.ops = s.ops /\ t.posts = s.posts /\ t.live_ = s.live_ /\ t.open = s.open
    /\ t.starts = s.starts /\ t.disconnects = s.disconnects
    /\ t.writing_ = s.writing_ /\ t.responses_ = s.responses_

LEMMA TokensKept ==
    ASSUME NEW s, NEW t, Fresh(s), Tokens(s), SameTokens(s, t)
    PROVE  Fresh(t) /\ Tokens(t) /\ (NoError(s) => NoError(t))
  BY DEF Fresh, Tokens, SameTokens, NoError, Reading, Sending, Outstanding

\* What a handler other than start() may do to the session's life.
Ages == sess'.starts = sess.starts /\ (sess'.live_ => sess.live_)

\* flood() and send() change what is wanted, then try to write it.
LEMMA WriteIfLive ==
    ASSUME NEW s, Core(s)
    PROVE  LET t == IF s.live_ THEN try_start_write(s) ELSE s
           IN  Keeps(s, t) /\ (Peaceful(s) => Peaceful(t))
  <1>1. CASE s.live_
    <2>1. s.starts # 0 /\ s.starts \in Nat BY <1>1, FieldTypes DEF Core, Fresh
    <2> QED BY <1>1, <2>1, TryStartWriteKeeps
  <1>2. CASE ~s.live_ BY <1>2 DEF Keeps, Wakeup
  <1> QED BY <1>1, <1>2

LEMMA FloodKeeps == ASSUME IInv, flood PROVE IInv' /\ Ages
  <1> DEFINE s == [sess EXCEPT !.flood_ = TRUE]
             t == IF s.live_ THEN try_start_write(s) ELSE s
  <1>0. /\ sess \in SessionState /\ env \in EnvState /\ Take("flood") /\ script' = script
        /\ env' = env /\ Core(sess) /\ Wakeup(sess)
    BY TypeParts DEF IInv, flood
  <1>1. Head(cmds).n = 0 /\ AllowFlood BY <1>0, HeadFacts
  <1>2. sess.requested = sess.requested + Head(cmds).n BY <1>0, <1>1, FieldTypes
  <1>3. sess' = IF sess.flood_ \/ sess.draining_ THEN sess ELSE t BY DEF flood
  <1>4. CASE sess.flood_ \/ sess.draining_
    <2>1. sess' = sess BY <1>3, <1>4
    <2>2. ~env'.failed /\ ~env'.stopRan => Peaceful(sess) BY <1>0 DEF IInv
    <2>3. IInv' BY <1>0, <1>2, <2>1, <2>2, CommandStep
    <2> QED BY <2>1, <2>3 DEF Ages
  <1>5. CASE ~(sess.flood_ \/ sess.draining_)
    <2>1. /\ s \in SessionState /\ SameTokens(sess, s) /\ s.flood_
          /\ s.draining_ = sess.draining_ /\ s.requested = sess.requested
      BY <1>0 DEF SessionState, SameTokens
    <2> HIDE DEF s
    <2>2. Fresh(s) /\ Tokens(s) /\ (NoError(sess) => NoError(s))
      BY <1>0, <2>1, TokensKept DEF Core
    <2>3. Core(s) BY <1>0, <1>1, <2>1, <2>2 DEF Core, Budget
    <2>4. Peaceful(sess) => Peaceful(s)
      BY <2>1, <2>2 DEF Peaceful, Delivered, SameTokens
    <2>5. Keeps(s, t) /\ (Peaceful(s) => Peaceful(t)) BY <2>3, WriteIfLive
    <2>6. sess' = t BY <1>3, <1>5
    <2> HIDE DEF t
    <2>7. ~env'.failed /\ ~env'.stopRan => Peaceful(t) BY <1>0, <2>4, <2>5 DEF IInv
    <2>8. /\ Core(t) /\ Wakeup(t) /\ t.requested = sess.requested + Head(cmds).n
          /\ t.starts = sess.starts /\ t.draining_ = sess.draining_
          /\ t.live_ => sess.live_
      BY <1>2, <2>1, <2>5 DEF Keeps, SameTokens
    <2>9. IInv' BY <1>0, <2>6, <2>7, <2>8, CommandStep
    <2> QED BY <2>6, <2>8, <2>9 DEF Ages
  <1> QED BY <1>4, <1>5

LEMMA SendKeepsInv == ASSUME IInv, send PROVE IInv' /\ Ages
  <1> DEFINE n == Head(cmds).n
             q == sess.writes_queued_ + n
             r == sess.requested + n
             s == [sess EXCEPT !.writes_queued_ = q, !.requested = r]
             t == IF s.live_ THEN try_start_write(s) ELSE s
  <1>0. /\ sess \in SessionState /\ env \in EnvState /\ Take("send") /\ script' = script
        /\ env' = env /\ Core(sess) /\ Wakeup(sess) /\ sess' = t
    BY TypeParts DEF IInv, send
  <1>1. n \in Nat /\ r <= NumPayloads /\ ~sess.draining_
    BY <1>0, HeadFacts DEF AfterDrain
  <1>2. /\ q \in Nat /\ r \in Nat
        /\ ~sess.flood_ => sess.next_payload_index_ + q = r
    BY <1>0, <1>1, FieldTypes DEF Core, Budget
  <1> HIDE DEF q, r
  <1>3. /\ s \in SessionState /\ SameTokens(sess, s) /\ s.flood_ = sess.flood_
        /\ s.draining_ = sess.draining_ /\ s.requested = r /\ s.writes_queued_ = q
        /\ s.next_payload_index_ = sess.next_payload_index_
    BY <1>0, <1>2 DEF SessionState, SameTokens
  <1> HIDE DEF s
  <1>4. Fresh(s) /\ Tokens(s) /\ (NoError(sess) => NoError(s))
    BY <1>0, <1>3, TokensKept DEF Core
  <1>5. Core(s) BY <1>0, <1>1, <1>2, <1>3, <1>4 DEF Core, Budget
  <1>6. Peaceful(sess) => Peaceful(s)
    BY <1>1, <1>3, <1>4 DEF Peaceful, Delivered, SameTokens
  <1>7. Keeps(s, t) /\ (Peaceful(s) => Peaceful(t)) BY <1>5, WriteIfLive
  <1> HIDE DEF t
  <1>8. ~env'.failed /\ ~env'.stopRan => Peaceful(t) BY <1>0, <1>6, <1>7 DEF IInv
  <1>9. /\ Core(t) /\ Wakeup(t) /\ t.requested = sess.requested + n
        /\ t.starts = sess.starts /\ t.draining_ = sess.draining_
        /\ t.live_ => sess.live_
    BY <1>3, <1>7 DEF Keeps, SameTokens, r
  <1>10. IInv' BY <1>0, <1>8, <1>9, CommandStep
  <1> QED BY <1>0, <1>9, <1>10 DEF Ages

\* drain() closes at once when nothing is left to write.
LEMMA DrainKeeps == ASSUME IInv, drain PROVE IInv' /\ Ages
  <1> DEFINE s == [sess EXCEPT !.draining_ = TRUE]
             done == ~s.writing_ /\ s.writes_queued_ = 0 /\ s.responses_ = 0
             t == IF done THEN close_session(s) ELSE s
  <1>0. /\ sess \in SessionState /\ env \in EnvState /\ Take("drain") /\ script' = script
        /\ env' = env /\ Core(sess) /\ Wakeup(sess) /\ sess' = t
    BY TypeParts DEF IInv, drain
  <1>1. Head(cmds).n = 0 BY <1>0, HeadFacts
  <1>2. sess.requested = sess.requested + Head(cmds).n BY <1>0, <1>1, FieldTypes
  <1>3. /\ s \in SessionState /\ SameTokens(sess, s) /\ s.flood_ = sess.flood_
        /\ s.draining_ /\ s.requested = sess.requested
        /\ s.writes_queued_ = sess.writes_queued_
        /\ s.next_payload_index_ = sess.next_payload_index_
    BY <1>0 DEF SessionState, SameTokens
  <1> HIDE DEF s
  <1>4. Fresh(s) /\ Tokens(s) /\ (NoError(sess) => NoError(s))
    BY <1>0, <1>3, TokensKept DEF Core
  <1>5. Core(s) BY <1>0, <1>3, <1>4 DEF Core, Budget
  <1>6. Wakeup(s) BY <1>0, <1>3 DEF Wakeup, WantsPayload, Exhausted, SameTokens
  <1>7. Peaceful(sess) => Peaceful(s)
    BY <1>3, <1>4 DEF Peaceful, Delivered, SameTokens
  <1>8. done => Delivered(s)
    <2>1. s.next_payload_index_ \in Nat /\ s.requested \in Nat BY <1>3, FieldTypes
    <2> QED BY <1>3, <1>5, <2>1 DEF Delivered, Core, Budget
  <1>9. Keeps(s, t) /\ (Peaceful(s) => Peaceful(t))
    <2>1. CASE done BY <1>5, <1>8, <2>1, CloseKeeps
    <2>2. CASE ~done BY <1>5, <1>6, <2>2 DEF Keeps
    <2> QED BY <2>1, <2>2
  <1> HIDE DEF t
  <1>10. ~env'.failed /\ ~env'.stopRan => Peaceful(t) BY <1>0, <1>7, <1>9 DEF IInv
  <1>11. /\ Core(t) /\ Wakeup(t) /\ t.requested = sess.requested + Head(cmds).n
         /\ t.starts = sess.starts /\ (t.live_ => sess.live_)
    BY <1>2, <1>3, <1>9 DEF Keeps, SameTokens
  <1>12. IInv' BY <1>0, <1>10, <1>11, CommandStep
  <1> QED BY <1>0, <1>11, <1>12 DEF Ages

LEMMA StopKeeps == ASSUME IInv, stop PROVE IInv' /\ Ages /\ ~sess'.live_
  <1> DEFINE t == close_session(sess)
  <1>0. /\ sess \in SessionState /\ env \in EnvState /\ Take("stop") /\ script' = script
        /\ Core(sess) /\ sess' = t
    BY TypeParts DEF IInv, stop
  <1>1. env' = [env EXCEPT !.stopRan = TRUE] BY DEF stop
  <1>2. env' \in EnvState /\ env'.stopRan BY <1>0, <1>1 DEF EnvState
  <1>3. Head(cmds).n = 0 BY <1>0, HeadFacts
  <1>4. sess.requested = sess.requested + Head(cmds).n BY <1>0, <1>3, FieldTypes
  <1>5. Keeps(sess, t) /\ ~t.live_ BY <1>0, CloseKeeps
  <1> HIDE DEF t
  <1>6. /\ Core(t) /\ Wakeup(t) /\ t.requested = sess.requested + Head(cmds).n
        /\ t.starts = sess.starts /\ t.draining_ = sess.draining_
    BY <1>4, <1>5 DEF Keeps
  <1>7. IInv' BY <1>0, <1>2, <1>6, CommandStep
  <1> QED BY <1>0, <1>5, <1>6, <1>7 DEF Ages

\* A completion with an error closes the session; one without goes on reading.
LEMMA ReceiveDoneKeeps ==
    ASSUME IInv, NEW result \in {"ok", "err"}, ReceiveDone(result)
    PROVE  IInv' /\ Ages
  <1> DEFINE c == Consume(sess, "receive", result)
             t == IF result = "err" THEN close_session(c) ELSE handle_message(c)
  <1>0. /\ env \in EnvState /\ script' = script /\ cmds' = cmds /\ env' = env
        /\ Core(sess) /\ Wakeup(sess) /\ sess' = t /\ sess.ops["receive"][result] > 0
    BY TypeParts DEF IInv, ReceiveDone
  <1>1. /\ Core(c) /\ Wakeup(c) /\ c.starts = sess.starts /\ c.live_ = sess.live_
        /\ c.draining_ = sess.draining_ /\ c.requested = sess.requested /\ c.starts > 0
        /\ Peaceful(sess) => Peaceful(c) /\ (result = "err" => ~c.live_)
        /\ Reading(c) = 0
    BY <1>0, ConsumeKeeps DEF OpKind
  <1> HIDE DEF c
  <1>2. /\ Core(t) /\ Wakeup(t) /\ t.starts = c.starts /\ (t.live_ => c.live_)
        /\ t.draining_ = c.draining_ /\ t.requested = c.requested
        /\ Peaceful(sess) => Peaceful(t)
    <2>1. CASE result = "err"
      <3>1. t = close_session(c) BY <2>1
      <3>2. Keeps(c, close_session(c)) /\ (~c.live_ => close_session(c) = c)
        BY <1>1, CloseKeeps
      <3> QED BY <1>1, <2>1, <3>1, <3>2 DEF Keeps
    <2>2. CASE result = "ok" BY <1>1, <2>2, HandleMessageKeeps
    <2> QED BY <2>1, <2>2
  <1> HIDE DEF t
  <1>3. ~env'.failed /\ ~env'.stopRan => Peaceful(t) BY <1>0, <1>2 DEF IInv
  <1>4. /\ t.requested = sess.requested /\ t.starts = sess.starts
        /\ t.draining_ = sess.draining_ /\ (t.live_ => sess.live_)
    BY <1>1, <1>2
  <1>5. IInv' BY <1>0, <1>2, <1>3, <1>4, HandlerStep
  <1> QED BY <1>0, <1>4, <1>5 DEF Ages

LEMMA SendDoneKeeps ==
    ASSUME IInv, NEW result \in {"ok", "err"}, SendDone(result)
    PROVE  IInv' /\ Ages
  <1> DEFINE c == Consume(sess, "send", result)
             t == IF result = "err" THEN close_session(c) ELSE do_write(c)
  <1>0. /\ env \in EnvState /\ script' = script /\ cmds' = cmds /\ env' = env
        /\ Core(sess) /\ Wakeup(sess) /\ sess' = t /\ sess.ops["send"][result] > 0
    BY TypeParts DEF IInv, SendDone
  <1>1. /\ Core(c) /\ Wakeup(c) /\ c.starts = sess.starts /\ c.live_ = sess.live_
        /\ c.draining_ = sess.draining_ /\ c.requested = sess.requested /\ c.starts > 0
        /\ Peaceful(sess) => Peaceful(c) /\ (result = "err" => ~c.live_)
        /\ Sending(c) = 0
    BY <1>0, ConsumeKeeps DEF OpKind
  <1> HIDE DEF c
  <1>2. Keeps(c, t) /\ (Peaceful(sess) => Peaceful(t))
    <2>1. CASE result = "err"
      <3>1. t = close_session(c) BY <2>1
      <3>2. Keeps(c, close_session(c)) /\ (~c.live_ => close_session(c) = c)
        BY <1>1, CloseKeeps
      <3> QED BY <1>1, <2>1, <3>1, <3>2
    <2>2. CASE result = "ok" BY <1>1, <2>2, DoWriteKeeps
    <2> QED BY <2>1, <2>2
  <1> HIDE DEF t
  <1>3. ~env'.failed /\ ~env'.stopRan => Peaceful(t) BY <1>0, <1>2 DEF IInv
  <1>4. /\ Core(t) /\ Wakeup(t) /\ t.requested = sess.requested /\ t.starts = sess.starts
        /\ t.draining_ = sess.draining_ /\ (t.live_ => sess.live_)
    BY <1>1, <1>2 DEF Keeps
  <1>5. IInv' BY <1>0, <1>3, <1>4, HandlerStep
  <1> QED BY <1>0, <1>4, <1>5 DEF Ages

\* The continuation gives the read token to the next receive, after the
\* response has had its chance to be written.
LEMMA ResponseReadyKeeps ==
    ASSUME IInv, NEW reply \in BOOLEAN, ResponseReady(reply)
    PROVE  IInv' /\ Ages
  <1> DEFINE p == sess.posts - 1
             s == [sess EXCEPT !.posts = p]
             r == s.responses_ + 1
             a == [s EXCEPT !.responses_ = r]
             w == IF reply THEN try_start_write(a) ELSE s
             t == do_read(w)
  <1>0. /\ env \in EnvState /\ script' = script /\ cmds' = cmds /\ env' = env
        /\ sess \in SessionState /\ Core(sess) /\ Wakeup(sess) /\ sess.posts > 0
        /\ sess' = t
    BY TypeParts DEF IInv, ResponseReady
  <1>1. p \in Nat /\ sess.posts = p + 1 /\ sess.posts \in Nat BY <1>0, FieldTypes
  <1> HIDE DEF p
  <1>2. /\ s \in SessionState /\ s.posts = p /\ s.ops = sess.ops
        /\ s.live_ = sess.live_ /\ s.flood_ = sess.flood_ /\ s.draining_ = sess.draining_
        /\ s.writing_ = sess.writing_ /\ s.writes_queued_ = sess.writes_queued_
        /\ s.responses_ = sess.responses_ /\ s.open = sess.open
        /\ s.next_payload_index_ = sess.next_payload_index_ /\ s.starts = sess.starts
        /\ s.disconnects = sess.disconnects /\ s.requested = sess.requested
    BY <1>0, <1>1 DEF SessionState
  <1> HIDE DEF s
  <1>3. /\ Reading(sess) = 1 /\ Reading(s) = 0 /\ Sending(s) = Sending(sess)
    <2>1. /\ Outstanding(s, "send") = Outstanding(sess, "send")
          /\ Outstanding(s, "receive") = Outstanding(sess, "receive")
          /\ Outstanding(sess, "receive") \in Nat
      BY <1>0, <1>2, OutstandingNat DEF Outstanding, OpKind
    <2> QED BY <1>0, <1>1, <1>2, <2>1 DEF Reading, Sending, Core, Tokens
  <1>4. s.starts # 0 /\ s.starts \in Nat BY <1>0, <1>2, <1>3, FieldTypes DEF Core, Fresh
  <1>5. Core(s)
    <2>1. Fresh(s) BY <1>4 DEF Fresh
    <2>2. Tokens(s) BY <1>0, <1>2, <1>3 DEF Core, Tokens
    <2>3. Budget(s) BY <1>0, <1>2 DEF Core, Budget
    <2> QED BY <1>2, <2>1, <2>2, <2>3 DEF Core
  <1>6. Wakeup(s) BY <1>0, <1>2 DEF Wakeup, WantsPayload, Exhausted
  <1>7. Peaceful(sess) => Peaceful(s) BY <1>2 DEF Peaceful, NoError, Delivered
  <1>8. Keeps(s, w) /\ (Peaceful(s) => Peaceful(w))
    <2>1. CASE reply
      <3>1. r \in Nat BY <1>2, FieldTypes
      <3> HIDE DEF r
      <3>2. /\ a \in SessionState /\ a.posts = s.posts /\ a.ops = s.ops
            /\ a.live_ = s.live_ /\ a.flood_ = s.flood_ /\ a.draining_ = s.draining_
            /\ a.writing_ = s.writing_ /\ a.writes_queued_ = s.writes_queued_
            /\ a.open = s.open /\ a.starts = s.starts
            /\ a.next_payload_index_ = s.next_payload_index_
            /\ a.disconnects = s.disconnects /\ a.requested = s.requested
        BY <1>2, <3>1 DEF SessionState
      <3> HIDE DEF a
      <3>3. Reading(a) = Reading(s) /\ Sending(a) = Sending(s)
        BY <3>2 DEF Reading, Sending, Outstanding
      <3>4. Fresh(a) BY <1>4, <3>2 DEF Fresh
      <3>5. Tokens(a) BY <1>5, <3>2, <3>3 DEF Core, Tokens
      <3>6. Budget(a) BY <1>5, <3>2 DEF Core, Budget
      <3>7. Core(a) BY <3>2, <3>4, <3>5, <3>6 DEF Core
      <3>8. Peaceful(s) => Peaceful(a) BY <3>2 DEF Peaceful, NoError, Delivered
      <3>9. a.starts > 0 BY <1>4, <3>2
      <3>10. Keeps(a, try_start_write(a)) /\ (Peaceful(a) => Peaceful(try_start_write(a)))
        BY <3>7, <3>9, TryStartWriteKeeps
      <3>11. Keeps(s, try_start_write(a)) BY <3>2, <3>3, <3>10 DEF Keeps
      <3> QED BY <2>1, <3>8, <3>10, <3>11
    <2>2. CASE ~reply BY <1>5, <1>6, <2>2 DEF Keeps
    <2> QED BY <2>1, <2>2
  <1> HIDE DEF w
  <1>9. /\ Core(w) /\ Wakeup(w) /\ w.starts > 0 /\ Reading(w) = 0 /\ w.starts = sess.starts
        /\ w.draining_ = sess.draining_ /\ w.requested = sess.requested
        /\ w.live_ => sess.live_
    BY <1>2, <1>3, <1>4, <1>8 DEF Keeps
  <1>10. /\ Core(t) /\ SameButOps(w, t) /\ Wakeup(t) /\ (Peaceful(w) => Peaceful(t))
    BY <1>9, DoReadKeeps
  <1> HIDE DEF t
  <1>11. ~env'.failed /\ ~env'.stopRan => Peaceful(t) BY <1>0, <1>7, <1>8, <1>10 DEF IInv
  <1>12. /\ t.requested = sess.requested /\ t.starts = sess.starts
         /\ t.draining_ = sess.draining_ /\ (t.live_ => sess.live_)
    BY <1>9, <1>10 DEF SameButOps
  <1>13. IInv' BY <1>0, <1>10, <1>11, <1>12, HandlerStep
  <1> QED BY <1>0, <1>12, <1>13 DEF Ages

\* The kernel changes the status of an operation and never their number.
LEMMA CompleteKeeps ==
    ASSUME IInv, NEW kind \in OpKind, NEW result \in {"ok", "err"}, Complete(kind, result)
    PROVE  IInv' /\ Ages
  <1> DEFINE f == sess.ops[kind]
             n == f["pending"] - 1
             m == f[result] + 1
             g == [f EXCEPT !["pending"] = n, ![result] = m]
             o == [sess.ops EXCEPT ![kind] = g]
             t == [sess EXCEPT !.ops = o]
             msgs == IF kind = "receive" /\ result = "ok" THEN env.msgs + 1 ELSE env.msgs
             failed == env.failed \/ result = "err"
  <1>0. /\ env \in EnvState /\ script' = script /\ cmds' = cmds
        /\ sess \in SessionState /\ Core(sess) /\ Wakeup(sess) /\ f["pending"] > 0
    BY TypeParts DEF IInv, Complete
  <1>1. env' = [env EXCEPT !.msgs = msgs, !.failed = failed] BY DEF Complete
  <1>2. msgs \in Nat /\ failed \in BOOLEAN BY <1>0 DEF EnvState
  <1>3. failed <=> env.failed \/ result = "err" OBVIOUS
  <1>4. f \in [OpStatus -> Nat] /\ f["pending"] \in Nat /\ f[result] \in Nat
    BY <1>0, OutstandingNat DEF OpStatus
  <1>5. n \in Nat /\ m \in Nat /\ n + 1 = f["pending"] /\ m = f[result] + 1 BY <1>0, <1>4
  <1>6. sess' = t
    <2>1. sess' = [sess EXCEPT !.ops[kind]["pending"] = @ - 1, !.ops[kind][result] = @ + 1]
      BY DEF Complete
    <2>2. result # "pending" OBVIOUS
    <2>3. sess.ops \in OpsType /\ sess.ops[kind] \in [OpStatus -> Nat] /\ kind \in OpKind
      BY <1>0, <1>4, FieldTypes
    <2> QED BY <1>0, <2>1, <2>2, <2>3 DEF SessionState, OpsType, OpStatus
  <1> HIDE DEF msgs, failed, n, m
  <1>7. /\ env' \in EnvState /\ env'.stopRan = env.stopRan
        /\ ~env'.failed => ~env.failed /\ result = "ok"
    BY <1>0, <1>1, <1>2, <1>3 DEF EnvState
  <1>8. /\ g \in [OpStatus -> Nat] /\ g["pending"] = n /\ g[result] = m
        /\ \A x \in OpStatus \ {"pending", result} : g[x] = f[x]
    BY <1>4, <1>5 DEF OpStatus
  <1> HIDE DEF g
  <1>9. sess.ops \in OpsType BY <1>0, FieldTypes
  <1>10. o \in OpsType /\ o[kind] = g /\ \A k \in OpKind \ {kind} : o[k] = sess.ops[k]
    BY <1>8, <1>9 DEF OpsType
  <1> HIDE DEF o
  <1>11. t \in SessionState /\ SameButOps(sess, t) /\ t.ops = o BY <1>0, <1>10, NewOps
  <1> HIDE DEF t
  <1>12. \A k \in OpKind : Outstanding(t, k) = Outstanding(sess, k)
    <2>1. Outstanding(t, kind) = Outstanding(sess, kind)
      <3>1. CASE result = "ok"
        <4>1. g["pending"] = n /\ g["ok"] = m /\ g["err"] = f["err"] /\ f["err"] \in Nat
          BY <1>4, <1>8, <3>1 DEF OpStatus
        <4> QED BY <1>4, <1>5, <1>10, <1>11, <3>1, <4>1 DEF Outstanding
      <3>2. CASE result = "err"
        <4>1. g["pending"] = n /\ g["err"] = m /\ g["ok"] = f["ok"] /\ f["ok"] \in Nat
          BY <1>4, <1>8, <3>2 DEF OpStatus
        <4> QED BY <1>4, <1>5, <1>10, <1>11, <3>2, <4>1 DEF Outstanding
      <3> QED BY <3>1, <3>2
    <2> QED BY <1>10, <1>11, <2>1 DEF Outstanding
  <1>13. Reading(t) = Reading(sess) /\ Sending(t) = Sending(sess)
    BY <1>11, <1>12 DEF Reading, Sending, SameButOps, OpKind
  <1>14. Core(t)
    <2>1. Fresh(t) BY <1>0, <1>11, <1>13 DEF Core, Fresh, SameButOps
    <2>2. Tokens(t) BY <1>0, <1>11, <1>13 DEF Core, Tokens, SameButOps
    <2>3. Budget(t) BY <1>0, <1>11 DEF Core, Budget, SameButOps
    <2> QED BY <1>11, <2>1, <2>2, <2>3 DEF Core
  <1>15. Wakeup(t) BY <1>0, <1>11 DEF Wakeup, WantsPayload, Exhausted, SameButOps
  <1>16. result = "ok" /\ NoError(sess) => NoError(t)
    <2>1. result = "ok" => o[kind]["err"] = f["err"] BY <1>8, <1>10 DEF OpStatus
    <2> QED BY <1>10, <1>11, <2>1 DEF NoError
  <1>17. ~env'.failed /\ ~env'.stopRan => Peaceful(t)
    BY <1>7, <1>11, <1>16 DEF IInv, Peaceful, Delivered, SameButOps
  <1>18. /\ t.requested = sess.requested /\ t.starts = sess.starts
         /\ t.draining_ = sess.draining_ /\ (t.live_ => sess.live_)
    BY <1>11 DEF SameButOps
  <1>19. IInv' BY <1>0, <1>6, <1>7, <1>14, <1>15, <1>17, <1>18, HandlerStep
  <1> QED BY <1>6, <1>18, <1>19 DEF Ages

LEMMA StutterKeeps == ASSUME IInv, UNCHANGED vars PROVE IInv'
  <1>1. sess' = sess /\ cmds' = cmds /\ script' = script /\ env' = env BY DEF vars
  <1>2. /\ env \in EnvState /\ Core(sess) /\ Wakeup(sess)
        /\ ~env.failed /\ ~env.stopRan => Peaceful(sess)
    BY TypeParts DEF IInv
  <1> QED BY <1>1, <1>2, HandlerStep

LEMMA InitHolds == Init => IInv
  <1> SUFFICES ASSUME Init PROVE IInv OBVIOUS
  <1> DEFINE zero == [r \in OpStatus |-> 0]
             none == [k \in OpKind |-> zero]
  <1>1. none \in OpsType /\ \A k \in OpKind : none[k] = zero BY DEF OpsType
  <1>2. sess = [live_ |-> FALSE, flood_ |-> FALSE, draining_ |-> FALSE,
                writing_ |-> FALSE, writes_queued_ |-> 0, responses_ |-> 0,
                next_payload_index_ |-> 0, open |-> FALSE, ops |-> none, posts |-> 0,
                starts |-> 0, disconnects |-> 0, requested |-> 0]
    BY DEF Init
  <1>3. zero["pending"] = 0 /\ zero["ok"] = 0 /\ zero["err"] = 0 BY DEF OpStatus
  <1> HIDE DEF none, zero
  <1>4. /\ sess \in SessionState /\ ~sess.live_ /\ ~sess.flood_ /\ ~sess.draining_
        /\ ~sess.writing_ /\ sess.writes_queued_ = 0 /\ sess.responses_ = 0
        /\ sess.next_payload_index_ = 0 /\ sess.posts = 0 /\ sess.starts = 0
        /\ sess.disconnects = 0 /\ sess.requested = 0 /\ sess.ops = none
    BY <1>1, <1>2 DEF SessionState
  <1>5. Reading(sess) = 0 /\ Sending(sess) = 0
    BY <1>1, <1>3, <1>4 DEF Reading, Sending, Outstanding, OpKind
  <1>6. Core(sess)
    BY <1>4, <1>5, ConstantsAssumption DEF Core, Fresh, Tokens, Budget
  <1>7. Wakeup(sess) /\ Peaceful(sess) BY <1>4 DEF Wakeup, Peaceful
  <1>8. cmds = <<>> BY DEF Init
  <1>9. /\ script \in ScriptState /\ ~script.started /\ ~script.active /\ script.sent = 0
    BY DEF Init, ScriptState
  <1>10. env \in EnvState BY DEF Init, EnvState
  <1>11. TypeOK BY <1>4, <1>8, <1>9, <1>10, TypeParts
  <1>12. Requests
    <2> DEFINE f == [k \in 0 .. 0 |-> 0]
    <2>1. Len(cmds) = 0 /\ f \in [0 .. 0 -> 0 .. NumPayloads] /\ f[0] = 0
      BY <1>8, ConstantsAssumption
    <2> HIDE DEF f
    <2>2. \A k \in 1 .. Len(cmds) : f[k] = f[k - 1] + cmds[k].n BY <2>1
    <2> QED BY <1>4, <1>9, <2>1, <2>2 DEF Requests
  <1>13. Queued /\ Drains
    <2>1. DOMAIN cmds = {} BY <1>8
    <2> QED BY <1>4, <1>9, <2>1 DEF Queued, Drains
  <1> QED BY <1>6, <1>7, <1>11, <1>12, <1>13 DEF IInv

LEMMA StepKeeps == IInv /\ [Next]_vars => IInv'
  <1> SUFFICES ASSUME IInv, [Next]_vars PROVE IInv' OBVIOUS
  <1>1. CASE Post BY <1>1, PostKeeps
  <1>2. CASE RunCommand
    BY <1>2, StartKeeps, FloodKeeps, SendKeepsInv, DrainKeeps, StopKeeps DEF RunCommand
  <1>3. ASSUME NEW result \in {"ok", "err"}, ReceiveDone(result) \/ SendDone(result)
        PROVE  IInv'
    BY <1>3, ReceiveDoneKeeps, SendDoneKeeps
  <1>4. ASSUME NEW reply \in BOOLEAN, ResponseReady(reply) PROVE IInv'
    BY <1>4, ResponseReadyKeeps
  <1>5. ASSUME NEW kind \in OpKind, NEW result \in {"ok", "err"}, Complete(kind, result)
        PROVE  IInv'
    BY <1>5, CompleteKeeps
  <1>6. CASE UNCHANGED vars BY <1>6, StutterKeeps
  <1> QED BY <1>1, <1>2, <1>3, <1>4, <1>5, <1>6 DEF Next, Post

-----------------------------------------------------------------------------
(* Theorems *)

\* IInv is an inductive invariant: the tokens of the two loops, the budget of
\* payloads a script grants, and the commands still queued on the strand.
THEOREM Invariance == Spec => []IInv
  <1>1. Init => IInv BY InitHolds
  <1>2. IInv /\ [Next]_vars => IInv' BY StepKeeps
  <1> QED BY <1>1, <1>2, PTL DEF Spec

\* Every variable keeps its type; no counter of the session (writes_queued_
\* in particular, which do_write() decrements) ever passes below 0.
THEOREM TypeCorrect == Spec => []TypeOK
  <1>1. IInv => TypeOK BY DEF IInv
  <1> QED BY <1>1, Invariance, PTL

\* However the commands, datagrams and errors interleave, there is one
\* async_send and one user of packet_buffer_ at a time.
THEOREM OneOfEach == Spec => []OneSendOneReceive
  <1>1. IInv => OneSendOneReceive
    BY DEF IInv, Core, Tokens, Sending, Reading, OneSendOneReceive
  <1> QED BY <1>1, Invariance, PTL

\* try_start_write() and do_write() never leave a live session idle with a
\* response or a payload it could send, for any script and any server.
THEOREM NothingForgotten == Spec => []NoLostWakeup
  <1>1. IInv => NoLostWakeup BY DEF IInv, Wakeup, NoLostWakeup
  <1> QED BY <1>1, Invariance, PTL

\* A session that met no error and no stop() closes only after a drain(), and
\* by then do_write() has sent whatever the script's SENDs asked for.
THEOREM DrainsAfterSending == Spec => []DrainDelivers
  <1>1. IInv => DrainDelivers BY DEF IInv, Peaceful, Delivered, DrainDelivers
  <1> QED BY <1>1, Invariance, PTL

StopPosted == \E i \in DOMAIN cmds : cmds[i].op = "stop"

\* Only a posted stop() and its handler change whether one is waiting.
LEMMA StopTaken ==
    ASSUME IInv, NEW op, Take(op)
    PROVE  /\ op # "stop" => (StopPosted' <=> StopPosted)
           /\ op = "stop" => StopPosted /\ ~StopPosted'
  <1>1. cmds \in Seq(Command) /\ cmds # <<>> /\ Head(cmds).op = op /\ cmds' = Tail(cmds)
    BY TypeParts DEF IInv, Take
  <1>2. /\ Head(cmds) = cmds[1] /\ 1 \in DOMAIN cmds
        /\ \A k \in DOMAIN cmds' : cmds'[k] = cmds[k + 1] /\ k + 1 \in DOMAIN cmds
                                   /\ k + 1 # 1
        /\ \A k \in DOMAIN cmds : k # 1 => k - 1 \in DOMAIN cmds' /\ (k - 1) + 1 = k
    BY <1>1
  <1>3. ASSUME op # "stop", StopPosted PROVE StopPosted'
    <2>1. PICK i \in DOMAIN cmds : cmds[i].op = "stop" BY <1>3 DEF StopPosted
    <2>2. i # 1 BY <1>1, <1>2, <1>3, <2>1
    <2>3. i - 1 \in DOMAIN cmds' /\ cmds'[i - 1] = cmds[(i - 1) + 1] BY <1>2, <2>2
    <2> QED BY <1>2, <2>1, <2>2, <2>3 DEF StopPosted
  <1>4. ASSUME StopPosted' PROVE op # "stop" /\ StopPosted
    <2>1. PICK i \in DOMAIN cmds' : cmds'[i].op = "stop" BY <1>4 DEF StopPosted
    <2>2. cmds[i + 1].op = "stop" /\ i + 1 \in DOMAIN cmds /\ i + 1 # 1 BY <1>2, <2>1
    <2>3. op # "stop" BY <1>1, <1>2, <2>2 DEF IInv, Queued
    <2> QED BY <2>2, <2>3 DEF StopPosted
  <1>5. op = "stop" => StopPosted BY <1>1, <1>2 DEF StopPosted
  <1> QED BY <1>3, <1>4, <1>5

LEMMA StopAppended ==
    ASSUME IInv, NEW c, c \in Command, cmds' = Append(cmds, c)
    PROVE  /\ c.op # "stop" => (StopPosted' <=> StopPosted)
           /\ c.op = "stop" => StopPosted'
  <1>1. cmds \in Seq(Command) BY TypeParts DEF IInv
  <1>2. /\ DOMAIN cmds' = DOMAIN cmds \cup {Len(cmds) + 1} /\ cmds'[Len(cmds) + 1] = c
        /\ \A k \in DOMAIN cmds : cmds'[k] = cmds[k]
    BY <1>1
  <1> QED BY <1>2 DEF StopPosted

\* on_disconnect_ has been called exactly if the session was started and closed.
LEMMA Lives ==
    ASSUME NEW s, Core(s)
    PROVE  \/ s.starts = 0 /\ ~s.live_ /\ s.disconnects = 0
           \/ s.starts = 1 /\ s.live_ /\ s.disconnects = 0
           \/ s.starts = 1 /\ ~s.live_ /\ s.disconnects = 1
  <1>1. s.starts \in Nat /\ s.disconnects \in Nat /\ s.live_ \in BOOLEAN
    BY FieldTypes DEF Core
  <1> QED BY <1>1 DEF Core, Fresh, Tokens

LEMMA ContractStep == IInv /\ [Next]_vars => [Contract!Next]_(Contract!vars)
  <1> SUFFICES ASSUME IInv, [Next]_vars PROVE [Contract!Next]_(Contract!vars) OBVIOUS
  <1>0. Core(sess) /\ Core(sess')
    <2>1. IInv' BY StepKeeps
    <2>2. Core(sess)' BY <2>1 DEF IInv
    <2> QED BY <2>2 DEF IInv, Core, Fresh, Tokens, Budget, Reading, Sending, Outstanding
  <1>1. /\ \/ sess.starts = 0 /\ ~sess.live_ /\ sess.disconnects = 0
           \/ sess.starts = 1 /\ sess.live_ /\ sess.disconnects = 0
           \/ sess.starts = 1 /\ ~sess.live_ /\ sess.disconnects = 1
        /\ \/ sess'.starts = 0 /\ ~sess'.live_ /\ sess'.disconnects = 0
           \/ sess'.starts = 1 /\ sess'.live_ /\ sess'.disconnects = 0
           \/ sess'.starts = 1 /\ ~sess'.live_ /\ sess'.disconnects = 1
    BY <1>0, Lives
  <1> USE DEF Contract!Next, Contract!vars, Contract!Start, Contract!FailStart,
              Contract!AskStop, Contract!Close, Contract!RunStop
  <1>2. ASSUME Ages, StopPosted' <=> StopPosted PROVE [Contract!Next]_(Contract!vars)
    BY <1>1, <1>2 DEF Ages, StopPosted
  <1>3. CASE Post
    <2>1. PICK c \in Command : cmds' = Append(cmds, c) /\ sess' = sess
      <3>1. \A n \in SendCounts : n \in Nat BY ConstantsAssumption
      <3> QED BY <1>3, <3>1 DEF Post, PostStart, PostFlood, PostDrain, PostStop, PostSend, Command
    <2>2. Ages BY <2>1 DEF Ages
    <2>3. CASE c.op # "stop"
      <3>1. StopPosted' <=> StopPosted BY <2>1, <2>3, StopAppended
      <3> QED BY <1>2, <2>2, <3>1
    <2>4. CASE c.op = "stop"
      <3>1. StopPosted' BY <2>1, <2>4, StopAppended
      <3>2. CASE StopPosted BY <1>2, <2>2, <3>1, <3>2
      <3>3. CASE ~StopPosted BY <2>1, <3>1, <3>3 DEF StopPosted
      <3> QED BY <3>2, <3>3
    <2> QED BY <2>3, <2>4
  <1>4. ASSUME NEW opened \in BOOLEAN, start(opened) PROVE [Contract!Next]_(Contract!vars)
    <2>1. sess.starts = 0 /\ sess'.starts = 1 BY <1>4, StartKeeps
    <2>2. StopPosted' <=> StopPosted BY <1>4, StopTaken DEF start
    <2> QED BY <1>1, <2>1, <2>2 DEF StopPosted
  <1>5. CASE flood \/ send \/ drain
    <2>1. Ages BY <1>5, FloodKeeps, SendKeepsInv, DrainKeeps
    <2>2. StopPosted' <=> StopPosted BY <1>5, StopTaken DEF flood, send, drain
    <2> QED BY <1>2, <2>1, <2>2
  <1>6. CASE stop
    <2>1. Ages /\ ~sess'.live_ BY <1>6, StopKeeps
    <2>2. StopPosted /\ ~StopPosted' BY <1>6, StopTaken DEF stop
    <2> QED BY <1>1, <2>1, <2>2 DEF Ages, StopPosted
  <1>7. ASSUME NEW result \in {"ok", "err"}, ReceiveDone(result) \/ SendDone(result)
        PROVE  [Contract!Next]_(Contract!vars)
    <2>1. Ages BY <1>7, ReceiveDoneKeeps, SendDoneKeeps
    <2>2. StopPosted' <=> StopPosted BY <1>7 DEF ReceiveDone, SendDone, StopPosted
    <2> QED BY <1>2, <2>1, <2>2
  <1>8. ASSUME NEW reply \in BOOLEAN, ResponseReady(reply)
        PROVE  [Contract!Next]_(Contract!vars)
    <2>1. Ages BY <1>8, ResponseReadyKeeps
    <2>2. StopPosted' <=> StopPosted BY <1>8 DEF ResponseReady, StopPosted
    <2> QED BY <1>2, <2>1, <2>2
  <1>9. ASSUME NEW kind \in OpKind, NEW result \in {"ok", "err"}, Complete(kind, result)
        PROVE  [Contract!Next]_(Contract!vars)
    <2>1. Ages BY <1>9, CompleteKeeps
    <2>2. StopPosted' <=> StopPosted BY <1>9 DEF Complete, StopPosted
    <2> QED BY <1>2, <2>1, <2>2
  <1>10. CASE UNCHANGED vars BY <1>2, <1>10 DEF vars, Ages, StopPosted
  <1> QED BY <1>3, <1>4, <1>5, <1>6, <1>7, <1>8, <1>9, <1>10 DEF Next, Post, RunCommand

\* A UDP session does only what its contract with the pool allows: it goes from
\* idle to live to closed, calls on_disconnect_ exactly once, in the step that
\* closes it (also when start() cannot open the socket), and a stop() closes it
\* whenever it is live (that a posted stop() does run is liveness).
THEOREM KeepsContract == Spec => Contract!Init /\ [][Contract!Next]_(Contract!vars)
  <1>1. Init => Contract!Init BY DEF Init, Contract!Init
  <1>2. IInv /\ [Next]_vars => [Contract!Next]_(Contract!vars) BY ContractStep
  <1> QED BY <1>1, <1>2, Invariance, PTL DEF Spec
=============================================================================
