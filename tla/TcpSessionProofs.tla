-------------------------- MODULE TcpSessionProofs --------------------------
(***************************************************************************)
(* Proofs about module TcpSession, for every value of its constants.       *)
(*                                                                         *)
(* The functions of the session are operators on session records, so the   *)
(* invariant of the session is a conjunction of predicates on a record and *)
(* each function gets a lemma saying that it keeps them.  A handler is     *)
(* then a composition of lemmas.  Core(s) holds between the assignments of *)
(* a handler too; Linked(s) may fail between the completion of a connect   *)
(* and the call of close_session(); Wakeup(s) is what do_write() and       *)
(* try_start_write() establish before the handler returns.                 *)
(***************************************************************************)
EXTENDS TcpSession, TLAPS

ScriptState == [active : BOOLEAN, stopped : BOOLEAN, connects : Nat, sent : Nat]

EnvState == [msgs : Nat, failed : BOOLEAN, stopRan : BOOLEAN]

Reading(s) ==
    Outstanding(s, "connect") + Outstanding(s, "header") + Outstanding(s, "body") + s.posts

Writing(s) == Outstanding(s, "write")

\* A session that was never started has nothing outstanding.
Fresh(s) ==
    s.starts = 0 => /\ Reading(s) = 0 /\ Writing(s) = 0 /\ ~s.live_ /\ s.disconnects = 0

\* During its first life the session has one write token, one read token, and
\* owes the pool one call of on_disconnect_ as long as it is live.  Until the
\* connect has completed it holds the read token, and nobody writes.
Tokens(s) ==
    s.starts <= 1 =>
        /\ Writing(s) <= 1
        /\ Writing(s) = 1 => s.writing_
        /\ Reading(s) <= 1
        /\ s.disconnects + (IF s.live_ THEN 1 ELSE 0) = s.starts
        /\ Outstanding(s, "connect") = IF s.connecting_ THEN 1 ELSE 0
        /\ s.starts = 0 \/ s.connecting_ => ~s.writing_ /\ s.responses_ = 0

\* Without a flood every requested payload is written or queued, and a script
\* never requests more than there are.
Budget(s) ==
    /\ ~s.flood_ => s.next_payload_index_ + s.writes_queued_ = s.requested
    /\ s.requested <= NumPayloads

Core(s) == s \in SessionState /\ Fresh(s) /\ Tokens(s) /\ Budget(s)

\* A live session whose connect succeeded has an open socket.
Linked(s) ==
    s.starts <= 1 /\ s.live_ /\ (~s.connecting_ \/ s.ops["connect"]["ok"] > 0) => s.open

Wakeup(s) ==
    s.starts <= 1 /\ s.live_ /\ ~s.connecting_ /\ ~s.writing_ /\ ~s.spinning =>
        /\ s.responses_ = 0
        /\ WantsPayload(s) => Exhausted(s) /\ ~s.loop_payloads

\* No operation failed while the session was live, and if it closed, it had
\* been drained and had written what was requested.
NoError(s) == \A k \in OpKind : s.ops[k]["err"] = 0

Delivered(s) == s.draining_ /\ (s.flood_ \/ s.next_payload_index_ >= s.requested)

Peaceful(s) ==
    s.starts <= 1 =>
        /\ s.live_ => NoError(s)
        /\ s.starts = 1 /\ ~s.live_ => Delivered(s)

-----------------------------------------------------------------------------
(* The commands posted and not yet run. *)

\* f[k] is what has been requested once the first k commands have run.
Requests ==
    \E f \in [0 .. Len(cmds) -> 0 .. NumPayloads] :
        /\ f[0] = sess.requested
        /\ f[Len(cmds)] = script.sent
        /\ \A k \in 1 .. Len(cmds) : f[k] = f[k - 1] + cmds[k].n

AfterDrain == {"send", "flood", "drain"}

\* Whether the session drains, or will, once the commands before l have run.
DrainBefore(l) == sess.draining_ \/ \E k \in DOMAIN cmds : k < l /\ cmds[k].op = "drain"

DrainPosted == sess.draining_ \/ \E k \in DOMAIN cmds : cmds[k].op = "drain"

\* g[k] is the number of the session's life once the first k commands have
\* run; whatever comes after a drain belongs to a later life.
Lives ==
    \E g \in [0 .. Len(cmds) -> 0 .. script.connects] :
        /\ g[0] = sess.starts
        /\ g[Len(cmds)] = script.connects
        /\ \A k \in 1 .. Len(cmds) :
              g[k] = g[k - 1] + (IF cmds[k].op = "start" THEN 1 ELSE 0)
        /\ \A l \in DOMAIN cmds :
              cmds[l].op \in AfterDrain => g[l] >= IF DrainBefore(l) THEN 2 ELSE 1

\* What verify_script() remembers agrees with the commands it let through.
Remembered ==
    /\ script.connects <= MaxStarts
    /\ DrainPosted => script.connects >= 1
    /\ script.active => script.connects >= IF DrainPosted THEN 2 ELSE 1
    /\ \A k \in DOMAIN cmds : cmds[k].op # "send" => cmds[k].n = 0
    /\ \A k \in DOMAIN cmds : cmds[k].op = "stop" => script.stopped
    /\ \A k, l \in DOMAIN cmds : cmds[k].op = "stop" /\ cmds[l].op = "stop" => k = l

IInv ==
    /\ TypeOK
    /\ Core(sess)
    /\ Linked(sess)
    /\ Wakeup(sess)
    /\ ~env.failed /\ ~env.stopRan => Peaceful(sess)
    /\ Requests
    /\ Lives
    /\ Remembered

-----------------------------------------------------------------------------
(* Records *)

\* t differs from s in its outstanding operations only.
SameButOps(s, t) ==
    /\ t.loop_payloads = s.loop_payloads /\ t.live_ = s.live_
    /\ t.connecting_ = s.connecting_ /\ t.flood_ = s.flood_ /\ t.draining_ = s.draining_
    /\ t.writing_ = s.writing_ /\ t.writes_queued_ = s.writes_queued_
    /\ t.responses_ = s.responses_ /\ t.next_payload_index_ = s.next_payload_index_
    /\ t.open = s.open /\ t.posts = s.posts /\ t.spinning = s.spinning
    /\ t.starts = s.starts /\ t.disconnects = s.disconnects /\ t.requested = s.requested

LEMMA FieldTypes ==
    ASSUME NEW s \in SessionState
    PROVE  /\ s.loop_payloads \in BOOLEAN /\ s.live_ \in BOOLEAN /\ s.connecting_ \in BOOLEAN
           /\ s.flood_ \in BOOLEAN /\ s.draining_ \in BOOLEAN /\ s.writing_ \in BOOLEAN
           /\ s.open \in BOOLEAN /\ s.spinning \in BOOLEAN
           /\ s.writes_queued_ \in Nat /\ s.responses_ \in Nat
           /\ s.next_payload_index_ \in Nat /\ s.posts \in Nat /\ s.starts \in Nat
           /\ s.disconnects \in Nat /\ s.requested \in Nat /\ s.ops \in OpsType
  BY DEF SessionState

LEMMA OutstandingNat ==
    ASSUME NEW s \in SessionState
    PROVE  /\ \A k \in OpKind : /\ Outstanding(s, k) \in Nat
                                /\ s.ops[k] \in [OpStatus -> Nat]
                                /\ s.ops[k]["pending"] \in Nat
                                /\ s.ops[k]["ok"] \in Nat
                                /\ s.ops[k]["err"] \in Nat
           /\ Writing(s) \in Nat /\ Reading(s) \in Nat
  <1>1. s.ops \in OpsType /\ s.posts \in Nat BY FieldTypes
  <1>2. \A k \in OpKind : /\ Outstanding(s, k) \in Nat
                          /\ s.ops[k] \in [OpStatus -> Nat]
                          /\ s.ops[k]["pending"] \in Nat
                          /\ s.ops[k]["ok"] \in Nat
                          /\ s.ops[k]["err"] \in Nat
    BY <1>1 DEF OpsType, OpStatus, Outstanding
  <1> QED BY <1>1, <1>2 DEF Writing, Reading, OpKind

LEMMA NewOps ==
    ASSUME NEW s \in SessionState, NEW o \in OpsType, NEW t, t = [s EXCEPT !.ops = o]
    PROVE  t \in SessionState /\ SameButOps(s, t) /\ t.ops = o
  BY DEF SessionState, SameButOps

\* Begin() adds one operation of its kind; on an open socket it has not failed.
LEMMA BeginEffect ==
    ASSUME NEW s \in SessionState, NEW kind \in OpKind
    PROVE  LET b == Begin(s, kind)
           IN  /\ b \in SessionState /\ SameButOps(s, b)
               /\ Outstanding(b, kind) = Outstanding(s, kind) + 1
               /\ \A k \in OpKind \ {kind} : b.ops[k] = s.ops[k]
               /\ \A k \in OpKind \ {kind} : Outstanding(b, k) = Outstanding(s, k)
               /\ b.ops[kind]["ok"] = s.ops[kind]["ok"]
               /\ (s.open \/ kind = "connect") /\ NoError(s) => NoError(b)
  <1> DEFINE r == IF s.open \/ kind = "connect" THEN "pending" ELSE "err"
             o == [s.ops EXCEPT ![kind] = [s.ops[kind] EXCEPT ![r] = s.ops[kind][r] + 1]]
             b == Begin(s, kind)
  <1>1. r \in OpStatus /\ r # "ok" BY DEF OpStatus
  <1>2. s.ops \in OpsType BY FieldTypes
  <1>3. b = [s EXCEPT !.ops = o] BY DEF Begin
  <1>4. o \in OpsType BY <1>1, <1>2 DEF OpsType
  <1>5. b \in SessionState /\ SameButOps(s, b) /\ b.ops = o
    <2> HIDE DEF o, b
    <2> QED BY <1>3, <1>4, NewOps
  <1>a. b.ops[kind] = [s.ops[kind] EXCEPT ![r] = s.ops[kind][r] + 1]
    BY <1>2, <1>5 DEF OpsType
  <1>6. Outstanding(b, kind) = Outstanding(s, kind) + 1
    BY <1>1, <1>a, OutstandingNat DEF Outstanding, OpStatus
  <1>7. \A k \in OpKind \ {kind} : b.ops[k] = s.ops[k]
    BY <1>2, <1>5 DEF OpsType
  <1>b. b.ops[kind]["ok"] = s.ops[kind]["ok"]
    BY <1>1, <1>a, OutstandingNat DEF OpStatus
  <1>8. (s.open \/ kind = "connect") /\ NoError(s) => NoError(b)
    <2>1. s.open \/ kind = "connect" => b.ops[kind]["err"] = s.ops[kind]["err"]
      BY <1>a, OutstandingNat DEF OpStatus
    <2> QED BY <1>7, <2>1 DEF NoError
  <1> QED BY <1>5, <1>6, <1>7, <1>8, <1>b DEF Outstanding

\* Consuming a completed operation removes one of its kind and nothing else.
LEMMA ConsumeEffect ==
    ASSUME NEW s \in SessionState, NEW kind \in OpKind, NEW r \in {"ok", "err"},
           s.ops[kind][r] > 0
    PROVE  LET c == Consume(s, kind, r)
           IN  /\ c \in SessionState /\ SameButOps(s, c)
               /\ Outstanding(c, kind) = Outstanding(s, kind) - 1
               /\ Outstanding(s, kind) > 0
               /\ \A k \in OpKind \ {kind} : c.ops[k] = s.ops[k]
               /\ \A k \in OpKind \ {kind} : Outstanding(c, k) = Outstanding(s, k)
               /\ r = "ok" /\ NoError(s) => NoError(c)
               /\ r = "err" => ~NoError(s)
  <1> DEFINE n == s.ops[kind][r] - 1
             o == [s.ops EXCEPT ![kind] = [s.ops[kind] EXCEPT ![r] = n]]
             c == Consume(s, kind, r)
  <1>1. r \in OpStatus BY DEF OpStatus
  <1>2. s.ops \in OpsType BY FieldTypes
  <1>3. c = [s EXCEPT !.ops = o] BY DEF Consume
  <1>a. n \in Nat /\ n + 1 = s.ops[kind][r] BY OutstandingNat
  <1>4. o \in OpsType
    <2> HIDE DEF n
    <2> QED BY <1>1, <1>2, <1>a DEF OpsType
  <1>5. c \in SessionState /\ SameButOps(s, c) /\ c.ops = o
    <2> HIDE DEF o, c
    <2> QED BY <1>3, <1>4, NewOps
  <1>6. c.ops[kind] = [s.ops[kind] EXCEPT ![r] = n]
    BY <1>2, <1>5 DEF OpsType
  <1>7. Outstanding(c, kind) = Outstanding(s, kind) - 1 /\ Outstanding(s, kind) > 0
    <2> HIDE DEF c, n
    <2> QED BY <1>6, <1>a, OutstandingNat DEF Outstanding, OpStatus
  <1>8. \A k \in OpKind \ {kind} : c.ops[k] = s.ops[k]
    BY <1>2, <1>5 DEF OpsType
  <1>9. r = "ok" /\ NoError(s) => NoError(c)
    <2>1. r = "ok" => c.ops[kind]["err"] = s.ops[kind]["err"]
      BY <1>6, OutstandingNat DEF OpStatus
    <2> QED BY <1>8, <2>1 DEF NoError
  <1>10. r = "err" => ~NoError(s) BY OutstandingNat DEF NoError
  <1> QED BY <1>5, <1>7, <1>8, <1>9, <1>10 DEF Outstanding

\* Aborting the pending operations turns them into failed ones: the number of
\* outstanding operations stays the same.
LEMMA AbortedEffect ==
    ASSUME NEW s \in SessionState
    PROVE  /\ Aborted(s.ops) \in OpsType
           /\ \A k \in OpKind :
                 /\ Aborted(s.ops)[k]["pending"] + Aborted(s.ops)[k]["ok"]
                       + Aborted(s.ops)[k]["err"] = Outstanding(s, k)
                 /\ Aborted(s.ops)[k]["ok"] = s.ops[k]["ok"]
                 /\ Aborted(s.ops)[k]["err"] = s.ops[k]["err"] + s.ops[k]["pending"]
  <1>1. ASSUME NEW k \in OpKind
        PROVE  /\ Aborted(s.ops)[k] \in [OpStatus -> Nat]
               /\ Aborted(s.ops)[k]["pending"] + Aborted(s.ops)[k]["ok"]
                       + Aborted(s.ops)[k]["err"] = Outstanding(s, k)
               /\ Aborted(s.ops)[k]["ok"] = s.ops[k]["ok"]
               /\ Aborted(s.ops)[k]["err"] = s.ops[k]["err"] + s.ops[k]["pending"]
    <2>1. s.ops[k] \in [OpStatus -> Nat] BY OutstandingNat
    <2>2. Aborted(s.ops)[k] =
            [s.ops[k] EXCEPT !["pending"] = 0, !["err"] = s.ops[k]["err"] + s.ops[k]["pending"]]
      BY <2>1 DEF Aborted, OpStatus
    <2> QED BY <2>1, <2>2 DEF OpStatus, Outstanding
  <1>2. Aborted(s.ops) = [k \in OpKind |-> Aborted(s.ops)[k]] BY DEF Aborted
  <1> QED BY <1>1, <1>2 DEF OpsType

-----------------------------------------------------------------------------
(* The session's functions *)

\* t comes from s by a function that neither starts the session nor touches
\* the read token; the handler that calls it ends with t.
Keeps(s, t) ==
    /\ Core(t) /\ Linked(t) /\ Wakeup(t)
    /\ t.starts = s.starts /\ (t.live_ => s.live_)
    /\ t.draining_ = s.draining_ /\ t.requested = s.requested
    /\ t.connecting_ = s.connecting_ /\ Reading(t) = Reading(s)

\* close_session() reports the disconnect of a live session and keeps tokens.
LEMMA CloseKeeps ==
    ASSUME NEW s, Core(s)
    PROVE  LET c == close_session(s)
           IN  /\ Keeps(s, c) /\ ~c.live_
               /\ Delivered(s) => Peaceful(c)
               /\ ~s.live_ => c = s
  <1> DEFINE c == close_session(s)
  <1>0. s \in SessionState BY DEF Core
  <1>1. CASE ~s.live_
    <2>1. c = s BY <1>1 DEF close_session
    <2>2. Delivered(s) => Peaceful(s) BY <1>1 DEF Peaceful
    <2> QED BY <1>1, <2>1, <2>2 DEF Keeps, Wakeup, Linked
  <1>2. CASE s.live_
    <2> DEFINE a == [s EXCEPT !.ops = Aborted(s.ops)]
               d == s.disconnects + 1
    <2>1. c = [a EXCEPT !.open = FALSE, !.live_ = FALSE, !.disconnects = d]
      BY <1>0, <1>2 DEF close_session, SessionState
    <2>2. a \in SessionState /\ SameButOps(s, a) /\ a.ops = Aborted(s.ops)
      BY <1>0, AbortedEffect, NewOps
    <2>3. d \in Nat /\ d = s.disconnects + 1 BY <1>0, FieldTypes
    <2> HIDE DEF a, d, c
    <2>4. /\ c \in SessionState /\ c.ops = a.ops /\ ~c.live_
          /\ c.disconnects = d /\ c.flood_ = a.flood_ /\ c.draining_ = a.draining_
          /\ c.writing_ = a.writing_ /\ c.writes_queued_ = a.writes_queued_
          /\ c.responses_ = a.responses_ /\ c.next_payload_index_ = a.next_payload_index_
          /\ c.posts = a.posts /\ c.starts = a.starts /\ c.requested = a.requested
          /\ c.connecting_ = a.connecting_
      BY <2>1, <2>2, <2>3 DEF SessionState
    <2>5. /\ c.flood_ = s.flood_ /\ c.draining_ = s.draining_
          /\ c.writing_ = s.writing_ /\ c.writes_queued_ = s.writes_queued_
          /\ c.next_payload_index_ = s.next_payload_index_ /\ c.responses_ = s.responses_
          /\ c.posts = s.posts /\ c.starts = s.starts /\ c.requested = s.requested
          /\ c.connecting_ = s.connecting_
      BY <2>2, <2>4 DEF SameButOps
    <2>6. \A k \in OpKind : Outstanding(c, k) = Outstanding(s, k)
      BY <1>0, <2>2, <2>4, AbortedEffect DEF Outstanding
    <2>7. /\ Reading(c) = Reading(s) /\ Writing(c) = Writing(s)
          /\ Outstanding(c, "connect") = Outstanding(s, "connect")
      BY <2>5, <2>6 DEF Reading, Writing, OpKind
    <2>8. Fresh(c) BY <1>2, <2>5 DEF Core, Fresh
    <2>9. Tokens(c) BY <1>0, <1>2, <2>3, <2>4, <2>5, <2>7, FieldTypes DEF Core, Tokens
    <2>10. Budget(c) BY <2>5 DEF Core, Budget
    <2>11. Wakeup(c) /\ Linked(c) BY <2>4 DEF Wakeup, Linked
    <2>12. Delivered(s) => Peaceful(c) BY <2>4, <2>5 DEF Delivered, Peaceful
    <2> QED BY <1>2, <2>4, <2>5, <2>7, <2>8, <2>9, <2>10, <2>11, <2>12 DEF Core, Keeps, c
  <1> QED BY <1>1, <1>2

\* A record with new values for the fields of the write loop, writing or not.
AboutToWrite(s, r, q, x) ==
    [s EXCEPT !.responses_ = r, !.writes_queued_ = q, !.next_payload_index_ = x,
              !.writing_ = TRUE]

Idle(s) == [s EXCEPT !.writing_ = FALSE]

Spins(s) == [s EXCEPT !.spinning = TRUE]

\* Everything but the fields of the write loop.
SameButWrites(s, t) ==
    /\ t.loop_payloads = s.loop_payloads /\ t.live_ = s.live_
    /\ t.connecting_ = s.connecting_ /\ t.flood_ = s.flood_ /\ t.draining_ = s.draining_
    /\ t.open = s.open /\ t.posts = s.posts /\ t.ops = s.ops
    /\ t.starts = s.starts /\ t.disconnects = s.disconnects /\ t.requested = s.requested

LEMMA SameCounts ==
    ASSUME NEW s, NEW t, t.ops = s.ops
    PROVE  /\ Writing(t) = Writing(s) /\ Outstanding(t, "connect") = Outstanding(s, "connect")
           /\ t.posts = s.posts => Reading(t) = Reading(s)
           /\ NoError(t) <=> NoError(s)
  BY DEF Writing, Reading, Outstanding, NoError

\* One async_write, of a response or a payload.
LEMMA WriteKeeps ==
    ASSUME NEW s, Core(s), Linked(s), s.starts > 0,
           s.starts <= 1 => Writing(s) = 0 /\ ~s.connecting_,
           NEW r \in Nat, NEW q \in Nat, NEW x \in Nat,
           ~s.flood_ => x + q = s.requested,
           s.draining_ => x >= s.next_payload_index_
    PROVE  LET b == Begin(AboutToWrite(s, r, q, x), "write")
           IN  Keeps(s, b) /\ (Peaceful(s) => Peaceful(b))
  <1> DEFINE v == AboutToWrite(s, r, q, x)
             b == Begin(v, "write")
  <1>0. s \in SessionState BY DEF Core
  <1>1. /\ v \in SessionState /\ v.responses_ = r /\ v.writes_queued_ = q
        /\ v.next_payload_index_ = x /\ v.writing_ /\ SameButWrites(s, v)
    BY <1>0 DEF SessionState, AboutToWrite, SameButWrites
  <1> HIDE DEF v
  <1>a. /\ Writing(v) = Writing(s) /\ Outstanding(v, "connect") = Outstanding(s, "connect")
        /\ Reading(v) = Reading(s) /\ (NoError(v) <=> NoError(s))
    BY <1>1, SameCounts DEF SameButWrites
  <1>2. /\ b \in SessionState /\ SameButOps(v, b)
        /\ Outstanding(b, "write") = Outstanding(v, "write") + 1
        /\ Outstanding(b, "connect") = Outstanding(v, "connect")
        /\ Outstanding(b, "header") = Outstanding(v, "header")
        /\ Outstanding(b, "body") = Outstanding(v, "body")
        /\ v.open /\ NoError(v) => NoError(b)
        /\ b.ops["connect"] = v.ops["connect"]
    BY <1>1, BeginEffect DEF OpKind
  <1> HIDE DEF b
  <1>3. /\ b.writes_queued_ = q /\ b.next_payload_index_ = x /\ b.writing_
        /\ b.live_ = s.live_ /\ b.flood_ = s.flood_ /\ b.draining_ = s.draining_
        /\ b.open = s.open /\ b.posts = s.posts /\ b.starts = s.starts
        /\ b.disconnects = s.disconnects /\ b.requested = s.requested
        /\ b.connecting_ = s.connecting_ /\ b.ops["connect"] = s.ops["connect"]
    BY <1>1, <1>2 DEF SameButOps, SameButWrites
  <1>b. s.starts \in Nat BY <1>0, FieldTypes
  <1>4. /\ Writing(b) = Writing(s) + 1 /\ Reading(b) = Reading(s)
        /\ Outstanding(b, "connect") = Outstanding(s, "connect")
    <2>1. b.posts = v.posts BY <1>2 DEF SameButOps
    <2>2. Reading(b) = Reading(v) BY <1>2, <2>1 DEF Reading
    <2> QED BY <1>2, <1>a, <2>2 DEF Writing
  <1>5. Fresh(b) BY <1>3 DEF Fresh
  <1>6. Tokens(b) BY <1>3, <1>4, <1>b DEF Core, Tokens
  <1>7. Budget(b) BY <1>3 DEF Core, Budget
  <1>8. Wakeup(b) BY <1>3 DEF Wakeup
  <1>c. Linked(b) BY <1>3 DEF Linked
  <1>9. Keeps(s, b) BY <1>2, <1>3, <1>4, <1>5, <1>6, <1>7, <1>8, <1>c DEF Keeps, Core
  <1>10. ASSUME Peaceful(s) PROVE Peaceful(b)
    <2>1. ASSUME s.live_, s.starts <= 1 PROVE NoError(b)
      <3>1. s.open /\ NoError(s) BY <1>10, <2>1 DEF Peaceful, Linked
      <3>2. v.open /\ NoError(v) BY <1>1, <1>a, <3>1 DEF SameButWrites
      <3> QED BY <1>2, <3>2
    <2>2. ASSUME s.starts = 1, ~s.live_ PROVE Delivered(b)
      <3>1. Delivered(s) BY <1>10, <2>2 DEF Peaceful
      <3>2. s.next_payload_index_ \in Nat /\ s.requested \in Nat BY <1>0, FieldTypes
      <3> QED BY <1>3, <3>1, <3>2 DEF Delivered
    <2> QED BY <1>3, <2>1, <2>2 DEF Peaceful
  <1> QED BY <1>9, <1>10 DEF b, v

\* Putting writing_ down is allowed when no write is outstanding and nothing is
\* left to write; a draining session closes.
LEMMA StopWritingKeeps ==
    ASSUME NEW s, Core(s), Linked(s), s.starts > 0, s.starts <= 1 => Writing(s) = 0,
           s.responses_ = 0,
           WantsPayload(s) => Exhausted(s) /\ (~s.loop_payloads \/ s.draining_)
    PROVE  Keeps(s, StopWriting(s)) /\ (Peaceful(s) => Peaceful(StopWriting(s)))
  <1> DEFINE i == Idle(s)
  <1>0. s \in SessionState BY DEF Core
  <1>a. /\ s.writes_queued_ \in Nat /\ s.flood_ \in BOOLEAN
        /\ s.next_payload_index_ \in Nat /\ s.requested \in Nat /\ NumPayloads \in Nat
    BY <1>0, FieldTypes, ConstantsAssumption
  <1>1. StopWriting(s) = IF s.draining_ THEN close_session(i) ELSE i
    BY DEF StopWriting, Idle
  <1>2. /\ i \in SessionState /\ i.responses_ = 0 /\ i.writes_queued_ = s.writes_queued_
        /\ i.next_payload_index_ = s.next_payload_index_ /\ ~i.writing_
        /\ i.spinning = s.spinning /\ SameButWrites(s, i)
    BY <1>0 DEF SessionState, Idle, SameButWrites
  <1> HIDE DEF i
  <1>3. /\ Writing(i) = Writing(s) /\ Outstanding(i, "connect") = Outstanding(s, "connect")
        /\ Reading(i) = Reading(s) /\ (NoError(i) <=> NoError(s))
    BY <1>2, SameCounts DEF SameButWrites
  <1>4. Core(i)
    <2>1. Fresh(i) BY <1>2 DEF Fresh, SameButWrites
    <2>2. Tokens(i) BY <1>2, <1>3 DEF Core, Tokens, SameButWrites
    <2>3. Budget(i) BY <1>2 DEF Core, Budget, SameButWrites
    <2> QED BY <1>2, <2>1, <2>2, <2>3 DEF Core
  <1>5. Linked(i) BY <1>2 DEF Linked, SameButWrites
  <1>6. Peaceful(s) => Peaceful(i) BY <1>2, <1>3 DEF Peaceful, Delivered, SameButWrites
  <1>7. CASE ~s.draining_
    <2>1. Wakeup(i) BY <1>2, <1>7 DEF Wakeup, WantsPayload, Exhausted, SameButWrites
    <2>2. Keeps(s, i) BY <1>2, <1>3, <1>4, <1>5, <2>1 DEF Keeps, SameButWrites
    <2> QED BY <1>1, <1>6, <1>7, <2>2
  <1>8. CASE s.draining_
    <2>1. s.flood_ \/ s.next_payload_index_ >= s.requested
      BY <1>a DEF WantsPayload, Exhausted, Core, Budget
    <2>2. Delivered(i) BY <1>2, <1>8, <2>1 DEF Delivered, SameButWrites
    <2>3. Keeps(i, close_session(i)) /\ Peaceful(close_session(i))
      BY <1>4, <2>2, CloseKeeps
    <2>4. Keeps(s, close_session(i)) BY <1>2, <1>3, <2>3 DEF Keeps, SameButWrites
    <2> QED BY <1>1, <1>8, <2>3, <2>4
  <1> QED BY <1>7, <1>8

\* With the write token free, do_write() takes it at most once.
LEMMA DoWriteKeeps ==
    ASSUME NEW s, Core(s), Linked(s), s.starts > 0,
           s.starts <= 1 => Writing(s) = 0 /\ ~s.connecting_
    PROVE  Keeps(s, do_write(s)) /\ (Peaceful(s) => Peaceful(do_write(s)))
  <1> DEFINE q == IF s.flood_ THEN s.writes_queued_ ELSE s.writes_queued_ - 1
  <1>0. s \in SessionState BY DEF Core
  <1>a. /\ s.responses_ \in Nat /\ s.writes_queued_ \in Nat /\ s.flood_ \in BOOLEAN
        /\ s.next_payload_index_ \in Nat /\ s.requested \in Nat /\ s.draining_ \in BOOLEAN
        /\ s.loop_payloads \in BOOLEAN /\ NumPayloads \in Nat
    BY <1>0, FieldTypes, ConstantsAssumption
  <1>b. ~s.flood_ => s.next_payload_index_ + s.writes_queued_ = s.requested
    BY DEF Core, Budget
  <1>c. WantsPayload(s) /\ ~s.flood_ => ~Exhausted(s)
    BY <1>a DEF WantsPayload, Exhausted, Core, Budget
  <1>d. ASSUME WantsPayload(s), NEW j \in Nat, NEW v, v = [s EXCEPT !.next_payload_index_ = j],
               ~s.flood_ \/ s.draining_ => j = s.next_payload_index_
        PROVE  Keeps(s, WritePayload(v)) /\ (Peaceful(s) => Peaceful(WritePayload(v)))
    <2> DEFINE u == AboutToWrite(s, s.responses_, q, j + 1)
    <2>1. q \in Nat /\ (~s.flood_ => q + 1 = s.writes_queued_)
      BY <1>a, <1>d DEF WantsPayload
    <2>2. v.flood_ = s.flood_ /\ v.writes_queued_ = s.writes_queued_
          /\ v.next_payload_index_ = j
      BY <1>0, <1>d DEF SessionState
    <2>3. WritePayload(v) = Begin([v EXCEPT !.writes_queued_ = q,
                    !.next_payload_index_ = j + 1, !.writing_ = TRUE], "write")
      BY <1>0, <1>d, <2>2 DEF WritePayload, SessionState
    <2> HIDE DEF q
    <2>4. [v EXCEPT !.writes_queued_ = q, !.next_payload_index_ = j + 1, !.writing_ = TRUE] = u
      BY <1>0, <1>d DEF SessionState, AboutToWrite
    <2>5. WritePayload(v) = Begin(u, "write") BY <2>3, <2>4
    <2>6. j + 1 \in Nat /\ (~s.flood_ => (j + 1) + q = s.requested)
      BY <1>a, <1>b, <1>d, <2>1
    <2>7. s.draining_ => j + 1 >= s.next_payload_index_ BY <1>a, <1>d
    <2> QED BY <1>a, <2>1, <2>5, <2>6, <2>7, WriteKeeps
  <1>1. CASE s.responses_ > 0
    <2> DEFINE v == AboutToWrite(s, s.responses_ - 1, s.writes_queued_, s.next_payload_index_)
    <2>1. [s EXCEPT !.responses_ = @ - 1, !.writing_ = TRUE] = v
      BY <1>0 DEF SessionState, AboutToWrite
    <2>2. do_write(s) = WriteResponse(s) BY <1>1 DEF do_write
    <2>3. do_write(s) = Begin(v, "write") BY <2>1, <2>2 DEF WriteResponse
    <2>4. s.responses_ - 1 \in Nat BY <1>1, <1>a
    <2>5. s.draining_ => s.next_payload_index_ >= s.next_payload_index_ BY <1>a
    <2> QED BY <1>a, <1>b, <2>3, <2>4, <2>5, WriteKeeps
  <1>2. CASE s.responses_ = 0 /\ WantsPayload(s) /\ ~Exhausted(s)
    <2>1. do_write(s) = WritePayload(s) BY <1>2 DEF do_write
    <2>2. s = [s EXCEPT !.next_payload_index_ = s.next_payload_index_] BY <1>0 DEF SessionState
    <2> QED BY <1>2, <1>a, <1>d, <2>1, <2>2
  <1>3. CASE s.responses_ = 0 /\ WantsPayload(s) /\ Exhausted(s) /\ s.loop_payloads /\ ~s.draining_
    <2> DEFINE v == [s EXCEPT !.next_payload_index_ = 0]
               p == Spins(s)
    <2>1. do_write(s) = IF NumPayloads = 0 THEN p ELSE WritePayload(v)
      BY <1>3 DEF do_write, Spins
    <2>2. s.flood_ BY <1>3, <1>a, <1>c
    <2>3. Keeps(s, WritePayload(v)) /\ (Peaceful(s) => Peaceful(WritePayload(v)))
      BY <1>3, <1>d, <2>2
    <2>4. /\ p \in SessionState /\ p.spinning /\ p.writing_ = s.writing_
          /\ p.responses_ = s.responses_ /\ p.writes_queued_ = s.writes_queued_
          /\ p.next_payload_index_ = s.next_payload_index_ /\ SameButWrites(s, p)
      BY <1>0 DEF SessionState, Spins, SameButWrites
    <2> HIDE DEF p
    <2>5. /\ Writing(p) = Writing(s) /\ Outstanding(p, "connect") = Outstanding(s, "connect")
          /\ Reading(p) = Reading(s) /\ (NoError(p) <=> NoError(s))
      BY <2>4, SameCounts DEF SameButWrites
    <2>6. Core(p)
      <3>1. Fresh(p) BY <2>4 DEF Fresh, SameButWrites
      <3>2. Tokens(p) BY <2>4, <2>5 DEF Core, Tokens, SameButWrites
      <3>3. Budget(p) BY <2>4 DEF Core, Budget, SameButWrites
      <3> QED BY <2>4, <3>1, <3>2, <3>3 DEF Core
    <2>7. Linked(p) /\ Wakeup(p) BY <2>4 DEF Linked, Wakeup, SameButWrites
    <2>8. Keeps(s, p) BY <2>4, <2>5, <2>6, <2>7 DEF Keeps, SameButWrites
    <2>9. Peaceful(s) => Peaceful(p) BY <2>4, <2>5 DEF Peaceful, Delivered, SameButWrites
    <2> QED BY <2>1, <2>3, <2>8, <2>9
  <1>4. CASE /\ s.responses_ = 0
             /\ ~(WantsPayload(s) /\ ~Exhausted(s))
             /\ ~(WantsPayload(s) /\ Exhausted(s) /\ s.loop_payloads /\ ~s.draining_)
    <2>1. do_write(s) = StopWriting(s) BY <1>4 DEF do_write
    <2>2. WantsPayload(s) => Exhausted(s) /\ (~s.loop_payloads \/ s.draining_) BY <1>4
    <2> QED BY <1>4, <2>1, <2>2, StopWritingKeeps
  <1> QED BY <1>1, <1>2, <1>3, <1>4, <1>a

\* try_start_write() writes only if nobody does, and may end a drain.
LEMMA TryStartWriteKeeps ==
    ASSUME NEW s, Core(s), Linked(s), s.starts > 0, s.starts <= 1 => ~s.connecting_
    PROVE  Keeps(s, try_start_write(s)) /\ (Peaceful(s) => Peaceful(try_start_write(s)))
  <1>0. s \in SessionState BY DEF Core
  <1>a. /\ s.responses_ \in Nat /\ s.writes_queued_ \in Nat /\ s.writing_ \in BOOLEAN
        /\ s.next_payload_index_ \in Nat /\ s.requested \in Nat
    BY <1>0, FieldTypes
  <1>1. CASE s.writing_
    <2>1. try_start_write(s) = s BY <1>1 DEF try_start_write
    <2> QED BY <1>1, <2>1 DEF Keeps, Wakeup
  <1>2. CASE ~s.writing_ /\ (WantsPayload(s) \/ s.responses_ > 0)
    <2>1. try_start_write(s) = do_write(s) BY <1>2 DEF try_start_write
    <2>2. s.starts <= 1 => Writing(s) = 0 BY <1>0, <1>2, OutstandingNat DEF Core, Tokens
    <2> QED BY <2>1, <2>2, DoWriteKeeps
  <1>3. CASE ~s.writing_ /\ ~WantsPayload(s) /\ s.responses_ = 0
    <2>1. try_start_write(s) = IF s.draining_ THEN close_session(s) ELSE s
      BY <1>3 DEF try_start_write
    <2>2. Wakeup(s) BY <1>3, <1>a DEF Wakeup
    <2>3. Keeps(s, s) BY <2>2 DEF Keeps
    <2>4. s.draining_ => Delivered(s)
      BY <1>3, <1>a DEF Delivered, WantsPayload, Core, Budget
    <2>5. Keeps(s, close_session(s)) /\ (s.draining_ => Peaceful(close_session(s)))
      BY <2>4, CloseKeeps
    <2> QED BY <2>1, <2>3, <2>5
  <1> QED BY <1>1, <1>2, <1>3, <1>a

\* flood() and send() reach try_start_write() on a live session only, and a
\* live session was started.
LEMMA StartIfConnectedKeeps ==
    ASSUME NEW s, Core(s), Linked(s)
    PROVE  Keeps(s, StartIfConnected(s)) /\ (Peaceful(s) => Peaceful(StartIfConnected(s)))
  <1>1. CASE s.live_ /\ ~s.connecting_
    <2>1. s.starts # 0 /\ s.starts \in Nat BY <1>1, FieldTypes DEF Core, Fresh
    <2>2. s.starts > 0 BY <2>1
    <2> QED BY <1>1, <2>2, TryStartWriteKeeps DEF StartIfConnected
  <1>2. CASE ~(s.live_ /\ ~s.connecting_)
    <2>1. StartIfConnected(s) = s BY <1>2 DEF StartIfConnected
    <2> QED BY <1>2, <2>1 DEF Keeps, Wakeup
  <1> QED BY <1>1, <1>2

\* A read takes the read token and touches nothing else.
LEMMA ReadKeeps ==
    ASSUME NEW s, Core(s), Linked(s), s.starts > 0,
           s.starts <= 1 => Reading(s) = 0 /\ ~s.connecting_, NEW kind \in {"header", "body"}
    PROVE  LET b == Begin(s, kind)
           IN  /\ Core(b) /\ Linked(b) /\ SameButOps(s, b) /\ Writing(b) = Writing(s)
               /\ Wakeup(s) => Wakeup(b)
               /\ Peaceful(s) => Peaceful(b)
  <1> DEFINE b == Begin(s, kind)
  <1>0. s \in SessionState /\ kind \in OpKind BY DEF Core, OpKind
  <1>1. /\ b \in SessionState /\ SameButOps(s, b)
        /\ Outstanding(b, kind) = Outstanding(s, kind) + 1
        /\ \A k \in OpKind \ {kind} : Outstanding(b, k) = Outstanding(s, k)
        /\ \A k \in OpKind \ {kind} : b.ops[k] = s.ops[k]
        /\ s.open /\ NoError(s) => NoError(b)
    BY <1>0, BeginEffect
  <1> HIDE DEF b
  <1>a. /\ \A k \in OpKind : Outstanding(s, k) \in Nat
        /\ s.posts \in Nat /\ s.starts \in Nat /\ b.posts = s.posts
        /\ b.ops["connect"] = s.ops["connect"]
    BY <1>0, <1>1, OutstandingNat, FieldTypes DEF SameButOps, OpKind
  <1>2. /\ Writing(b) = Writing(s) /\ Reading(b) = Reading(s) + 1
        /\ Outstanding(b, "connect") = Outstanding(s, "connect")
    BY <1>1, <1>a DEF Writing, Reading, OpKind
  <1>3. Fresh(b) BY <1>1 DEF Fresh, SameButOps
  <1>4. Tokens(b) BY <1>1, <1>2 DEF Core, Tokens, SameButOps
  <1>5. Budget(b) BY <1>1 DEF Core, Budget, SameButOps
  <1>b. Linked(b) BY <1>1, <1>a DEF Linked, SameButOps
  <1>6. Wakeup(s) => Wakeup(b) BY <1>1 DEF Wakeup, WantsPayload, Exhausted, SameButOps
  <1>7. Peaceful(s) => Peaceful(b)
    BY <1>1 DEF Peaceful, Delivered, SameButOps, Linked
  <1> QED BY <1>1, <1>2, <1>3, <1>4, <1>5, <1>6, <1>7, <1>b DEF Core, b

\* on_connect() opens the read loop and, if nobody writes, the write loop.
LEMMA OnConnectKeeps ==
    ASSUME NEW s, Core(s), Linked(s), s.starts > 0,
           s.starts <= 1 => /\ Reading(s) = 0 /\ Writing(s) = 0 /\ ~s.connecting_
                            /\ ~s.writing_ /\ s.responses_ = 0
    PROVE  LET t == on_connect(s)
           IN  /\ Core(t) /\ Linked(t) /\ Wakeup(t) /\ (Peaceful(s) => Peaceful(t))
               /\ t.starts = s.starts /\ t.draining_ = s.draining_ /\ t.requested = s.requested
               /\ t.live_ => s.live_
  <1> DEFINE r == IF ReadMessages THEN do_read_header(s) ELSE s
  <1>0. s.starts \in Nat BY FieldTypes DEF Core
  <1>1. /\ Core(r) /\ Linked(r) /\ SameButOps(s, r) /\ Writing(r) = Writing(s)
        /\ Peaceful(s) => Peaceful(r)
    <2>1. SameButOps(s, s) BY DEF SameButOps
    <2>2. CASE ReadMessages
      <3>1. r = Begin(s, "header") BY <2>2 DEF do_read_header
      <3> QED BY <3>1, ReadKeeps
    <2>3. CASE ~ReadMessages BY <2>1, <2>3
    <2> QED BY <2>2, <2>3
  <1>2. on_connect(s) = IF ~r.writing_ /\ WantsPayload(r) THEN do_write(r) ELSE r
    BY DEF on_connect
  <1> HIDE DEF r
  <1>3. /\ r.starts = s.starts /\ r.draining_ = s.draining_ /\ r.requested = s.requested
        /\ r.live_ = s.live_ /\ r.connecting_ = s.connecting_
        /\ r.starts <= 1 => r.responses_ = 0 /\ ~r.writing_ /\ Writing(r) = 0
    BY <1>1 DEF SameButOps
  <1>4. CASE ~r.writing_ /\ WantsPayload(r)
    <2>1. Keeps(r, do_write(r)) /\ (Peaceful(r) => Peaceful(do_write(r)))
      BY <1>1, <1>3, DoWriteKeeps
    <2> QED BY <1>1, <1>2, <1>3, <1>4, <2>1 DEF Keeps
  <1>5. CASE ~(~r.writing_ /\ WantsPayload(r))
    <2>1. Wakeup(r) BY <1>3, <1>5 DEF Wakeup
    <2> QED BY <1>1, <1>2, <1>3, <1>5, <2>1
  <1> QED BY <1>4, <1>5

\* handle_message() turns the read token into a posted continuation.
LEMMA HandleMessageKeeps ==
    ASSUME NEW s, Core(s), Linked(s), Wakeup(s), s.starts > 0, s.starts <= 1 => Reading(s) = 0
    PROVE  LET h == handle_message(s)
           IN  /\ Core(h) /\ Linked(h) /\ Wakeup(h) /\ (Peaceful(s) => Peaceful(h))
               /\ h.starts = s.starts /\ h.draining_ = s.draining_ /\ h.requested = s.requested
               /\ h.live_ = s.live_
  <1> DEFINE p == s.posts + 1
             h == [s EXCEPT !.posts = p]
  <1>0. s \in SessionState BY DEF Core
  <1>1. p \in Nat BY <1>0, FieldTypes
  <1>2. handle_message(s) = h BY DEF handle_message
  <1> HIDE DEF p
  <1>3. /\ h \in SessionState /\ h.posts = p /\ h.ops = s.ops
        /\ h.live_ = s.live_ /\ h.flood_ = s.flood_ /\ h.draining_ = s.draining_
        /\ h.writing_ = s.writing_ /\ h.writes_queued_ = s.writes_queued_
        /\ h.responses_ = s.responses_ /\ h.next_payload_index_ = s.next_payload_index_
        /\ h.open = s.open /\ h.starts = s.starts /\ h.connecting_ = s.connecting_
        /\ h.disconnects = s.disconnects /\ h.requested = s.requested
        /\ h.spinning = s.spinning /\ h.loop_payloads = s.loop_payloads
    BY <1>0, <1>1 DEF SessionState
  <1> HIDE DEF h
  <1>4. /\ Writing(h) = Writing(s) /\ Outstanding(h, "connect") = Outstanding(s, "connect")
        /\ NoError(h) <=> NoError(s)
    BY <1>3, SameCounts
  <1>5. Reading(h) = Reading(s) + 1
    <2>1. /\ Outstanding(s, "connect") \in Nat /\ Outstanding(s, "header") \in Nat
          /\ Outstanding(s, "body") \in Nat /\ s.posts \in Nat
      BY <1>0, OutstandingNat, FieldTypes DEF OpKind
    <2>2. Outstanding(h, "header") = Outstanding(s, "header")
          /\ Outstanding(h, "body") = Outstanding(s, "body")
      BY <1>3 DEF Outstanding
    <2> QED BY <1>3, <1>4, <2>1, <2>2 DEF Reading, p
  <1>6. Fresh(h) BY <1>3 DEF Fresh
  <1>7. Tokens(h) BY <1>3, <1>4, <1>5 DEF Core, Tokens
  <1>8. Budget(h) BY <1>3 DEF Core, Budget
  <1>9. Wakeup(h) /\ Linked(h) BY <1>3 DEF Wakeup, WantsPayload, Exhausted, Linked
  <1>10. Peaceful(s) => Peaceful(h) BY <1>3, <1>4 DEF Peaceful, Delivered
  <1> QED BY <1>2, <1>3, <1>6, <1>7, <1>8, <1>9, <1>10 DEF Core

\* The completion of a read or of a write gives its token to the handler.
LEMMA ConsumeKeeps ==
    ASSUME NEW s, Core(s), Linked(s), Wakeup(s), NEW kind \in {"header", "body", "write"},
           NEW r \in {"ok", "err"}, s.ops[kind][r] > 0
    PROVE  LET c == Consume(s, kind, r)
           IN  /\ Core(c) /\ Linked(c) /\ Wakeup(c) /\ c.starts = s.starts /\ c.live_ = s.live_
               /\ c.draining_ = s.draining_ /\ c.requested = s.requested /\ c.starts > 0
               /\ Peaceful(s) => Peaceful(c)
               /\ r = "err" /\ Peaceful(s) /\ s.starts <= 1 => ~c.live_
               /\ c.starts <= 1 => ~c.connecting_
               /\ kind # "write" /\ c.starts <= 1 => Reading(c) = 0
               /\ kind = "write" /\ c.starts <= 1 => Writing(c) = 0
  <1> DEFINE c == Consume(s, kind, r)
  <1>0. s \in SessionState /\ kind \in OpKind BY DEF Core, OpKind
  <1>1. /\ c \in SessionState /\ SameButOps(s, c)
        /\ Outstanding(c, kind) = Outstanding(s, kind) - 1
        /\ Outstanding(s, kind) > 0
        /\ \A k \in OpKind \ {kind} : Outstanding(c, k) = Outstanding(s, k)
        /\ \A k \in OpKind \ {kind} : c.ops[k] = s.ops[k]
        /\ r = "ok" /\ NoError(s) => NoError(c)
        /\ r = "err" => ~NoError(s)
    BY <1>0, ConsumeEffect
  <1> HIDE DEF c
  <1>a. /\ \A k \in OpKind : Outstanding(s, k) \in Nat
        /\ s.posts \in Nat /\ s.starts \in Nat /\ c.posts = s.posts
        /\ c.ops["connect"] = s.ops["connect"]
        /\ Outstanding(c, "connect") = Outstanding(s, "connect")
    BY <1>0, <1>1, OutstandingNat, FieldTypes DEF SameButOps, OpKind
  <1>b. /\ kind # "write" => /\ Reading(s) = Reading(c) + 1 /\ Writing(c) = Writing(s)
                             /\ Reading(s) > Outstanding(s, "connect")
        /\ kind = "write" => Writing(s) = Writing(c) + 1 /\ Reading(c) = Reading(s)
        /\ Reading(c) \in Nat /\ Writing(c) \in Nat /\ Outstanding(s, "connect") \in Nat
    <2>1. CASE kind = "header"
      BY <1>1, <1>a, <2>1, OutstandingNat DEF Reading, Writing, OpKind
    <2>2. CASE kind = "body"
      BY <1>1, <1>a, <2>2, OutstandingNat DEF Reading, Writing, OpKind
    <2>3. CASE kind = "write"
      BY <1>1, <1>a, <2>3, OutstandingNat DEF Reading, Writing, OpKind
    <2> QED BY <2>1, <2>2, <2>3
  <1>2. s.starts # 0 BY <1>b DEF Core, Fresh
  <1>c. s.starts <= 1 => /\ ~s.connecting_
                         /\ kind # "write" => Reading(c) = 0
                         /\ kind = "write" => Writing(c) = 0
    BY <1>b DEF Core, Tokens
  <1>3. Fresh(c) BY <1>1, <1>2 DEF Fresh, SameButOps
  <1>4. Tokens(c)
    <2> SUFFICES ASSUME s.starts <= 1 PROVE Tokens(c) BY <1>1 DEF Tokens, SameButOps
    <2>1. Reading(c) <= 1 /\ Writing(c) <= 1 /\ (Writing(c) = 1 => Writing(s) = 1)
      BY <1>b, <1>c DEF Core, Tokens
    <2> QED BY <1>1, <1>a, <2>1 DEF Core, Tokens, SameButOps
  <1>5. Budget(c) BY <1>1 DEF Core, Budget, SameButOps
  <1>6. Wakeup(c) BY <1>1 DEF Wakeup, WantsPayload, Exhausted, SameButOps
  <1>7. Linked(c) BY <1>1, <1>a DEF Linked, SameButOps
  <1>8. /\ Peaceful(s) => Peaceful(c)
        /\ r = "err" /\ Peaceful(s) /\ s.starts <= 1 => ~c.live_
    BY <1>1 DEF Peaceful, Delivered, SameButOps
  <1>9. /\ c.starts = s.starts /\ c.live_ = s.live_ /\ c.connecting_ = s.connecting_
        /\ c.draining_ = s.draining_ /\ c.requested = s.requested /\ c.starts > 0
    BY <1>1, <1>2, <1>a DEF SameButOps
  <1> QED BY <1>1, <1>3, <1>4, <1>5, <1>6, <1>7, <1>8, <1>9, <1>c DEF Core, c

\* The completion of the connect ends connecting_ and frees the read token.  If
\* it failed, the socket of a live session need not be open: close_session()
\* comes next.
Connected(s, r) == [Consume(s, "connect", r) EXCEPT !.connecting_ = FALSE]

LEMMA ConnectedKeeps ==
    ASSUME NEW s, Core(s), Linked(s), NEW r \in {"ok", "err"}, s.ops["connect"][r] > 0
    PROVE  LET c == Connected(s, r)
           IN  /\ Core(c) /\ c.starts = s.starts /\ c.live_ = s.live_
               /\ c.draining_ = s.draining_ /\ c.requested = s.requested /\ c.starts > 0
               /\ Peaceful(s) => Peaceful(c)
               /\ r = "err" /\ Peaceful(s) /\ s.starts <= 1 => ~c.live_
               /\ r = "ok" => Linked(c)
               /\ c.starts <= 1 => /\ Reading(c) = 0 /\ Writing(c) = 0 /\ ~c.connecting_
                                   /\ ~c.writing_ /\ c.responses_ = 0
  <1> DEFINE d == Consume(s, "connect", r)
             c == Connected(s, r)
  <1>0. s \in SessionState BY DEF Core
  <1>1. /\ d \in SessionState /\ SameButOps(s, d)
        /\ Outstanding(d, "connect") = Outstanding(s, "connect") - 1
        /\ Outstanding(s, "connect") > 0
        /\ \A k \in OpKind \ {"connect"} : Outstanding(d, k) = Outstanding(s, k)
        /\ r = "ok" /\ NoError(s) => NoError(d)
        /\ r = "err" => ~NoError(s)
    BY <1>0, ConsumeEffect DEF OpKind
  <1> HIDE DEF d
  <1>2. /\ c \in SessionState /\ ~c.connecting_ /\ c.ops = d.ops
        /\ c.live_ = d.live_ /\ c.flood_ = d.flood_ /\ c.draining_ = d.draining_
        /\ c.writing_ = d.writing_ /\ c.writes_queued_ = d.writes_queued_
        /\ c.responses_ = d.responses_ /\ c.next_payload_index_ = d.next_payload_index_
        /\ c.open = d.open /\ c.starts = d.starts /\ c.posts = d.posts
        /\ c.disconnects = d.disconnects /\ c.requested = d.requested
    BY <1>1 DEF SessionState, Connected, d
  <1> HIDE DEF c
  <1>3. /\ c.live_ = s.live_ /\ c.flood_ = s.flood_ /\ c.draining_ = s.draining_
        /\ c.writing_ = s.writing_ /\ c.writes_queued_ = s.writes_queued_
        /\ c.responses_ = s.responses_ /\ c.next_payload_index_ = s.next_payload_index_
        /\ c.open = s.open /\ c.starts = s.starts /\ c.posts = s.posts
        /\ c.disconnects = s.disconnects /\ c.requested = s.requested
    BY <1>1, <1>2 DEF SameButOps
  <1>4. /\ \A k \in OpKind : Outstanding(s, k) \in Nat
        /\ s.posts \in Nat /\ s.starts \in Nat
    BY <1>0, OutstandingNat, FieldTypes
  <1>5. \A k \in OpKind : Outstanding(c, k) = Outstanding(d, k) BY <1>2 DEF Outstanding
  <1>6. /\ Reading(s) = Reading(c) + 1 /\ Writing(c) = Writing(s) /\ Reading(c) \in Nat
        /\ Outstanding(s, "connect") = Outstanding(c, "connect") + 1
        /\ Outstanding(c, "connect") \in Nat
    BY <1>1, <1>3, <1>4, <1>5 DEF Reading, Writing, OpKind
  <1>7. s.starts # 0 BY <1>6 DEF Core, Fresh
  <1>8. s.starts <= 1 => /\ Reading(c) = 0 /\ s.connecting_ /\ ~s.writing_ /\ s.responses_ = 0
                         /\ Outstanding(c, "connect") = 0
    BY <1>6 DEF Core, Tokens
  <1>9. s.starts <= 1 => Writing(c) = 0
    <2>1. Writing(s) \in Nat BY <1>0, OutstandingNat
    <2> QED BY <1>6, <1>8, <2>1 DEF Core, Tokens
  <1>10. Fresh(c) BY <1>3, <1>7 DEF Fresh
  <1>11. Tokens(c)
    <2> SUFFICES ASSUME s.starts <= 1 PROVE Tokens(c) BY <1>3 DEF Tokens
    <2>1. Reading(c) <= 1 /\ Writing(c) <= 1 /\ Writing(c) # 1 BY <1>8, <1>9
    <2>2. c.disconnects + (IF c.live_ THEN 1 ELSE 0) = c.starts BY <1>3 DEF Core, Tokens
    <2> QED BY <1>2, <1>3, <1>7, <1>8, <2>1, <2>2 DEF Tokens
  <1>12. Budget(c) BY <1>3 DEF Core, Budget
  <1>13. r = "ok" => Linked(c) BY <1>3 DEF Linked
  <1>14. NoError(d) => NoError(c) BY <1>2 DEF NoError
  <1>15. /\ Peaceful(s) => Peaceful(c)
         /\ r = "err" /\ Peaceful(s) /\ s.starts <= 1 => ~c.live_
    BY <1>1, <1>3, <1>14 DEF Peaceful, Delivered
  <1>16. c.starts > 0 BY <1>3, <1>4, <1>7
  <1> QED BY <1>2, <1>3, <1>8, <1>9, <1>10, <1>11, <1>12, <1>13, <1>15, <1>16 DEF Core, c

-----------------------------------------------------------------------------
(* Posting and taking commands *)

LEMMA TypeParts ==
    /\ TypeOK <=> /\ sess \in SessionState /\ cmds \in Seq(Command)
                  /\ script \in ScriptState /\ env \in EnvState
    /\ TypeOK' <=> /\ sess' \in SessionState /\ cmds' \in Seq(Command)
                   /\ script' \in ScriptState /\ env' \in EnvState
  BY DEF TypeOK, ScriptState, EnvState

\* What a step needs to know of the session record it leaves behind.
Settled(t) ==
    /\ Core(t) /\ Linked(t) /\ Wakeup(t)
    /\ ~env'.failed /\ ~env'.stopRan => Peaceful(t)

LEMMA SettledInv ==
    ASSUME NEW t, sess' = t, Settled(t)
    PROVE  /\ Core(sess)' /\ Linked(sess)' /\ Wakeup(sess)' /\ sess' \in SessionState
           /\ (~env.failed /\ ~env.stopRan => Peaceful(sess))'
  BY DEF Settled, Core, Fresh, Tokens, Budget, Linked, Reading, Writing, Outstanding, Wakeup,
         WantsPayload, Exhausted, Peaceful, NoError, Delivered

\* Appending a command that verify_script() allows.
LEMMA Appended ==
    ASSUME IInv, NEW c \in Command, cmds' = Append(cmds, c), sess' = sess, env' = env,
           script' \in ScriptState,
           c.op # "send" => c.n = 0,
           script'.sent = script.sent + c.n, script'.sent <= NumPayloads,
           script'.connects = script.connects + (IF c.op = "start" THEN 1 ELSE 0),
           script'.connects <= MaxStarts,
           script'.active => script.active \/ c.op = "start",
           c.op = "stop" => ~script.stopped, c.op = "stop" \/ script.stopped => script'.stopped,
           c.op \in AfterDrain => script.active,
           c.op = "drain" => ~script'.active
    PROVE  IInv'
  <1>0. /\ sess \in SessionState /\ cmds \in Seq(Command) /\ script \in ScriptState
        /\ env \in EnvState /\ Len(cmds) \in Nat /\ script.sent \in Nat /\ c.n \in Nat
        /\ script.connects \in Nat /\ script'.connects \in Nat
    BY TypeParts DEF IInv, ScriptState, Command
  <1>1. /\ cmds' \in Seq(Command) /\ Len(cmds') = Len(cmds) + 1
        /\ DOMAIN cmds' = DOMAIN cmds \cup {Len(cmds) + 1}
        /\ DOMAIN cmds = 1 .. Len(cmds)
        /\ cmds'[Len(cmds) + 1] = c
        /\ \A k \in DOMAIN cmds : cmds'[k] = cmds[k]
    BY <1>0
  <1>2. TypeOK' BY <1>0, <1>1, TypeParts
  <1>3. /\ Core(sess)' /\ Linked(sess)' /\ Wakeup(sess)'
        /\ (~env.failed /\ ~env.stopRan => Peaceful(sess))'
    BY SettledInv DEF IInv, Settled
  <1>4. Requests'
    <2>1. PICK f \in [0 .. Len(cmds) -> 0 .. NumPayloads] :
            /\ f[0] = sess.requested
            /\ f[Len(cmds)] = script.sent
            /\ \A k \in 1 .. Len(cmds) : f[k] = f[k - 1] + cmds[k].n
      BY DEF IInv, Requests
    <2> DEFINE g == [k \in 0 .. Len(cmds) + 1 |-> IF k = Len(cmds) + 1 THEN script'.sent ELSE f[k]]
    <2>2. g \in [0 .. Len(cmds') -> 0 .. NumPayloads]
      <3>1. script'.sent \in 0 .. NumPayloads BY <1>0, ConstantsAssumption
      <3>2. \A k \in 0 .. Len(cmds) + 1 : k # Len(cmds) + 1 => k \in 0 .. Len(cmds) BY <1>0
      <3> QED BY <1>1, <3>1, <3>2
    <2>3. g[0] = sess'.requested BY <1>0, <2>1
    <2>4. g[Len(cmds')] = script'.sent BY <1>0, <1>1
    <2>5. \A k \in 1 .. Len(cmds') : g[k] = g[k - 1] + cmds'[k].n
      <3> TAKE k \in 1 .. Len(cmds')
      <3>1. CASE k = Len(cmds) + 1
        <4>1. g[k] = script'.sent /\ k - 1 = Len(cmds) BY <1>0, <3>1
        <4>2. g[Len(cmds)] = f[Len(cmds)] BY <1>0
        <4> QED BY <1>0, <1>1, <2>1, <3>1, <4>1, <4>2
      <3>2. CASE k # Len(cmds) + 1
        <4>1. k \in 1 .. Len(cmds) /\ k - 1 \in 0 .. Len(cmds) BY <1>0, <1>1, <3>2
        <4>2. g[k] = f[k] /\ g[k - 1] = f[k - 1] BY <1>0, <4>1
        <4>3. cmds'[k] = cmds[k] BY <1>1, <4>1
        <4> QED BY <2>1, <4>1, <4>2, <4>3
      <3> QED BY <3>1, <3>2
    <2> HIDE DEF g
    <2> QED BY <2>2, <2>3, <2>4, <2>5 DEF Requests
  <1>5. /\ \A l \in 1 .. Len(cmds) + 1 : DrainBefore(l)' <=> DrainBefore(l)
        /\ DrainBefore(Len(cmds) + 1) <=> DrainPosted
    <2>1. \A l \in 1 .. Len(cmds) + 1 : \A k \in DOMAIN cmds' : k < l => k \in DOMAIN cmds
      BY <1>0, <1>1
    <2>2. \A k \in DOMAIN cmds : k < Len(cmds) + 1 BY <1>0, <1>1
    <2> QED BY <1>1, <2>1, <2>2 DEF DrainBefore, DrainPosted
  <1>6. Lives'
    <2>1. PICK g \in [0 .. Len(cmds) -> 0 .. script.connects] :
            /\ g[0] = sess.starts
            /\ g[Len(cmds)] = script.connects
            /\ \A k \in 1 .. Len(cmds) :
                  g[k] = g[k - 1] + (IF cmds[k].op = "start" THEN 1 ELSE 0)
            /\ \A l \in DOMAIN cmds :
                  cmds[l].op \in AfterDrain => g[l] >= IF DrainBefore(l) THEN 2 ELSE 1
      BY DEF IInv, Lives
    <2> DEFINE m == script'.connects
               h == [k \in 0 .. Len(cmds) + 1 |-> IF k = Len(cmds) + 1 THEN m ELSE g[k]]
    <2>a. h[Len(cmds) + 1] = m BY <1>0
    <2>b. \A k \in 0 .. Len(cmds) : h[k] = g[k] BY <1>0
    <2>c. m \in Nat /\ script.connects <= m /\ m = script.connects + (IF c.op = "start" THEN 1 ELSE 0)
      BY <1>0
    <2>2. h \in [0 .. Len(cmds') -> 0 .. script'.connects]
      <3>1. \A k \in 0 .. Len(cmds) + 1 : k # Len(cmds) + 1 => k \in 0 .. Len(cmds) BY <1>0
      <3>2. \A k \in 0 .. Len(cmds) : g[k] \in 0 .. m BY <1>0, <2>1, <2>c
      <3> QED BY <1>0, <1>1, <3>1, <3>2
    <2> HIDE DEF h, m
    <2>3. h[0] = sess'.starts BY <1>0, <2>1, <2>b
    <2>4. h[Len(cmds')] = script'.connects BY <1>1, <2>a DEF m
    <2>5. \A k \in 1 .. Len(cmds') : h[k] = h[k - 1] + (IF cmds'[k].op = "start" THEN 1 ELSE 0)
      <3> TAKE k \in 1 .. Len(cmds')
      <3>1. CASE k = Len(cmds) + 1
        <4>1. k - 1 = Len(cmds) /\ Len(cmds) \in 0 .. Len(cmds) BY <1>0, <3>1
        <4> QED BY <1>1, <2>1, <2>a, <2>b, <2>c, <3>1, <4>1
      <3>2. CASE k # Len(cmds) + 1
        <4>1. k \in 1 .. Len(cmds) /\ k \in 0 .. Len(cmds) /\ k - 1 \in 0 .. Len(cmds)
          BY <1>0, <1>1, <3>2
        <4>2. h[k] = g[k] /\ h[k - 1] = g[k - 1] /\ cmds'[k] = cmds[k] BY <1>1, <2>b, <4>1
        <4> QED BY <2>1, <4>1, <4>2
      <3> QED BY <3>1, <3>2
    <2>6. ASSUME NEW l \in DOMAIN cmds', cmds'[l].op \in AfterDrain
          PROVE  h[l] >= IF DrainBefore(l)' THEN 2 ELSE 1
      <3>1. CASE l = Len(cmds) + 1
        <4>1. c.op \in AfterDrain /\ script.active /\ c.op # "start"
          BY <1>1, <2>6, <3>1 DEF AfterDrain
        <4>2. script.connects >= IF DrainBefore(l) THEN 2 ELSE 1
          BY <1>5, <3>1, <4>1 DEF IInv, Remembered
        <4>3. l \in 1 .. Len(cmds) + 1 BY <1>0, <3>1
        <4>4. DrainBefore(l)' <=> DrainBefore(l) BY <1>5, <4>3
        <4>5. h[l] = script.connects BY <1>0, <2>a, <2>c, <3>1, <4>1
        <4> QED BY <4>2, <4>4, <4>5
      <3>2. CASE l # Len(cmds) + 1
        <4>1. l \in DOMAIN cmds /\ l \in 0 .. Len(cmds) /\ l \in 1 .. Len(cmds) + 1
          BY <1>0, <1>1, <2>6, <3>2
        <4>2. h[l] = g[l] /\ cmds'[l] = cmds[l] BY <1>1, <2>b, <4>1
        <4>3. DrainBefore(l)' <=> DrainBefore(l) BY <1>5, <4>1
        <4>4. g[l] >= IF DrainBefore(l) THEN 2 ELSE 1 BY <2>1, <2>6, <4>1, <4>2
        <4> QED BY <4>2, <4>3, <4>4
      <3> QED BY <3>1, <3>2
    <2> QED BY <2>2, <2>3, <2>4, <2>5, <2>6 DEF Lives, AfterDrain
  <1>7. Remembered'
    <2>0. /\ DrainPosted => script.connects >= 1
          /\ script.active => script.connects >= IF DrainPosted THEN 2 ELSE 1
      BY DEF IInv, Remembered
    <2>1. DrainPosted' <=> DrainPosted \/ c.op = "drain" BY <1>1 DEF DrainPosted
    <2>a. c.op = "drain" => script.active /\ ~script'.active BY DEF AfterDrain
    <2>b. script.active => script.connects >= 1 BY <1>0, <2>0
    <2>2. DrainPosted' => script'.connects >= 1
      BY <1>0, <2>0, <2>1, <2>a, <2>b
    <2>3. script'.active => script'.connects >= IF DrainPosted' THEN 2 ELSE 1
      BY <1>0, <2>0, <2>1, <2>a, <2>b
    <2>4. \A k \in DOMAIN cmds' : cmds'[k].op # "send" => cmds'[k].n = 0
      BY <1>1 DEF IInv, Remembered
    <2>5. \A k \in DOMAIN cmds' : cmds'[k].op = "stop" => script'.stopped
      BY <1>1 DEF IInv, Remembered
    <2>6. \A k, l \in DOMAIN cmds' : cmds'[k].op = "stop" /\ cmds'[l].op = "stop" => k = l
      BY <1>1 DEF IInv, Remembered
    <2> QED BY <2>2, <2>3, <2>4, <2>5, <2>6 DEF Remembered
  <1> QED BY <1>2, <1>3, <1>4, <1>6, <1>7 DEF IInv

\* The head of the queue, as the invariant knows it.
LEMMA HeadFacts ==
    ASSUME IInv, NEW op, Take(op)
    PROVE  /\ Head(cmds).n \in Nat /\ (op # "send" => Head(cmds).n = 0)
           /\ sess.requested + Head(cmds).n <= NumPayloads
           /\ op = "start" => sess.starts < MaxStarts
           /\ op \in AfterDrain /\ sess.draining_ => sess.starts >= 2
  <1>1. /\ cmds \in Seq(Command) /\ cmds # <<>> /\ Head(cmds).op = op /\ script \in ScriptState
        /\ sess \in SessionState
    BY TypeParts DEF IInv, Take
  <1>2. /\ Head(cmds) = cmds[1] /\ 1 \in DOMAIN cmds /\ 1 \in 1 .. Len(cmds)
        /\ cmds[1] \in Command /\ Len(cmds) \in Nat /\ 1 - 1 = 0
    BY <1>1
  <1>3. Head(cmds).n \in Nat BY <1>2 DEF Command
  <1>4. PICK f \in [0 .. Len(cmds) -> 0 .. NumPayloads] :
            /\ f[0] = sess.requested
            /\ \A k \in 1 .. Len(cmds) : f[k] = f[k - 1] + cmds[k].n
    BY DEF IInv, Requests
  <1>5. f[1] = f[1 - 1] + cmds[1].n BY <1>2, <1>4
  <1>6. f[1] \in 0 .. NumPayloads BY <1>2, <1>4
  <1>7. sess.requested + Head(cmds).n <= NumPayloads
    BY <1>2, <1>4, <1>5, <1>6, ConstantsAssumption
  <1>8. PICK g \in [0 .. Len(cmds) -> 0 .. script.connects] :
            /\ g[0] = sess.starts
            /\ \A k \in 1 .. Len(cmds) :
                  g[k] = g[k - 1] + (IF cmds[k].op = "start" THEN 1 ELSE 0)
            /\ \A l \in DOMAIN cmds :
                  cmds[l].op \in AfterDrain => g[l] >= IF DrainBefore(l) THEN 2 ELSE 1
    BY DEF IInv, Lives
  <1>9. g[1] = g[1 - 1] + (IF cmds[1].op = "start" THEN 1 ELSE 0) BY <1>2, <1>8
  <1>10. g[1] = sess.starts + (IF op = "start" THEN 1 ELSE 0) BY <1>1, <1>2, <1>8, <1>9
  <1>11. g[1] \in 0 .. script.connects BY <1>2, <1>8
  <1>12. script.connects \in Nat /\ script.connects <= MaxStarts /\ sess.starts \in Nat
    BY <1>1, FieldTypes DEF IInv, Remembered, ScriptState
  <1>13. op = "start" => sess.starts < MaxStarts
    BY <1>10, <1>11, <1>12, ConstantsAssumption
  <1>14. ASSUME op \in AfterDrain, sess.draining_ PROVE sess.starts >= 2
    <2>1. DrainBefore(1) BY <1>14 DEF DrainBefore
    <2>2. g[1] >= 2 BY <1>1, <1>2, <1>8, <1>14, <2>1
    <2>3. op # "start" BY <1>14 DEF AfterDrain
    <2> QED BY <1>10, <1>12, <2>2, <2>3
  <1>15. op # "send" => Head(cmds).n = 0 BY <1>1, <1>2 DEF IInv, Remembered
  <1> QED BY <1>3, <1>7, <1>13, <1>14, <1>15

\* Taking the oldest command, whatever its handler does to the session.
LEMMA Taken ==
    ASSUME IInv, NEW op, Take(op), script' = script,
           sess'.requested = sess.requested + Head(cmds).n,
           sess'.starts = sess.starts + (IF op = "start" THEN 1 ELSE 0),
           sess'.draining_ => sess.draining_ \/ op = "drain"
    PROVE  cmds' \in Seq(Command) /\ Requests' /\ Lives' /\ Remembered'
  <1>1. cmds \in Seq(Command) /\ cmds # <<>> /\ Head(cmds).op = op /\ cmds' = Tail(cmds)
    BY TypeParts DEF IInv, Take
  <1>2. /\ Head(cmds) = cmds[1] /\ 1 \in DOMAIN cmds /\ Len(cmds) \in Nat \ {0}
        /\ cmds' \in Seq(Command) /\ Len(cmds') = Len(cmds) - 1 /\ Len(cmds') \in Nat
        /\ DOMAIN cmds = 1 .. Len(cmds) /\ DOMAIN cmds' = 1 .. Len(cmds')
        /\ \A k \in DOMAIN cmds' : cmds'[k] = cmds[k + 1] /\ k + 1 \in DOMAIN cmds /\ k \in Nat \ {0}
    BY <1>1
  <1>a. \A k \in 0 .. Len(cmds') : k + 1 \in 0 .. Len(cmds) /\ k + 1 \in 1 .. Len(cmds)
    BY <1>2
  <1>b. /\ 0 \in 0 .. Len(cmds') /\ 0 + 1 = 1 /\ 1 - 1 = 0 /\ 1 \in 1 .. Len(cmds)
        /\ Len(cmds') \in 0 .. Len(cmds') /\ Len(cmds') + 1 = Len(cmds)
    BY <1>2
  <1>c. \A k \in 1 .. Len(cmds') :
          /\ k \in 0 .. Len(cmds') /\ k - 1 \in 0 .. Len(cmds') /\ (k - 1) + 1 = k
          /\ (k + 1) - 1 = k /\ k + 1 \in 1 .. Len(cmds) /\ cmds'[k] = cmds[k + 1]
    BY <1>2
  <1>3. Requests'
    <2>1. PICK f \in [0 .. Len(cmds) -> 0 .. NumPayloads] :
            /\ f[0] = sess.requested
            /\ f[Len(cmds)] = script.sent
            /\ \A k \in 1 .. Len(cmds) : f[k] = f[k - 1] + cmds[k].n
      BY DEF IInv, Requests
    <2> DEFINE g == [k \in 0 .. Len(cmds') |-> f[k + 1]]
    <2>2. g \in [0 .. Len(cmds') -> 0 .. NumPayloads] BY <1>a, <2>1
    <2>3. g[0] = sess'.requested
      <3>1. g[0] = f[1] BY <1>b
      <3>2. f[1] = f[0] + cmds[1].n BY <1>b, <2>1
      <3> QED BY <1>2, <2>1, <3>1, <3>2
    <2>4. g[Len(cmds')] = script'.sent BY <1>b, <2>1
    <2>5. \A k \in 1 .. Len(cmds') : g[k] = g[k - 1] + cmds'[k].n
      <3> TAKE k \in 1 .. Len(cmds')
      <3>1. g[k] = f[k + 1] /\ g[k - 1] = f[k] BY <1>c
      <3>2. f[k + 1] = f[k] + cmds[k + 1].n BY <1>c, <2>1
      <3> QED BY <1>c, <3>1, <3>2
    <2> HIDE DEF g
    <2> QED BY <2>2, <2>3, <2>4, <2>5 DEF Requests
  <1>4. \A l \in 1 .. Len(cmds') + 1 : DrainBefore(l)' => DrainBefore(l + 1)
    <2> SUFFICES ASSUME NEW l \in 1 .. Len(cmds') + 1, DrainBefore(l)'
                 PROVE  DrainBefore(l + 1)
      OBVIOUS
    <2>1. 1 < l + 1 BY <1>2
    <2>2. CASE sess'.draining_ BY <1>1, <1>2, <2>1, <2>2 DEF DrainBefore
    <2>3. ASSUME NEW k \in DOMAIN cmds', k < l, cmds'[k].op = "drain" PROVE DrainBefore(l + 1)
      <3>1. k + 1 < l + 1 BY <1>2, <2>3
      <3> QED BY <1>2, <2>3, <3>1 DEF DrainBefore
    <2> QED BY <2>2, <2>3 DEF DrainBefore
  <1>5. Lives'
    <2>1. PICK g \in [0 .. Len(cmds) -> 0 .. script.connects] :
            /\ g[0] = sess.starts
            /\ g[Len(cmds)] = script.connects
            /\ \A k \in 1 .. Len(cmds) :
                  g[k] = g[k - 1] + (IF cmds[k].op = "start" THEN 1 ELSE 0)
            /\ \A l \in DOMAIN cmds :
                  cmds[l].op \in AfterDrain => g[l] >= IF DrainBefore(l) THEN 2 ELSE 1
      BY DEF IInv, Lives
    <2> DEFINE h == [k \in 0 .. Len(cmds') |-> g[k + 1]]
    <2>2. h \in [0 .. Len(cmds') -> 0 .. script'.connects] BY <1>a, <2>1
    <2>3. h[0] = sess'.starts
      <3>1. h[0] = g[1] BY <1>b
      <3>2. g[1] = g[0] + (IF cmds[1].op = "start" THEN 1 ELSE 0) BY <1>b, <2>1
      <3> QED BY <1>1, <1>2, <2>1, <3>1, <3>2
    <2>4. h[Len(cmds')] = script'.connects BY <1>b, <2>1
    <2>5. \A k \in 1 .. Len(cmds') : h[k] = h[k - 1] + (IF cmds'[k].op = "start" THEN 1 ELSE 0)
      <3> TAKE k \in 1 .. Len(cmds')
      <3>1. h[k] = g[k + 1] /\ h[k - 1] = g[k] BY <1>c
      <3>2. g[k + 1] = g[k] + (IF cmds[k + 1].op = "start" THEN 1 ELSE 0) BY <1>c, <2>1
      <3> QED BY <1>c, <3>1, <3>2
    <2>6. ASSUME NEW l \in DOMAIN cmds', cmds'[l].op \in AfterDrain
          PROVE  h[l] >= IF DrainBefore(l)' THEN 2 ELSE 1
      <3>1. /\ l \in 1 .. Len(cmds') + 1 /\ l \in 1 .. Len(cmds') /\ l + 1 \in DOMAIN cmds
            /\ l + 1 \in 0 .. Len(cmds)
        BY <1>2
      <3>2. h[l] = g[l + 1] /\ cmds[l + 1].op \in AfterDrain BY <1>c, <2>6, <3>1
      <3>3. g[l + 1] >= IF DrainBefore(l + 1) THEN 2 ELSE 1 BY <2>1, <3>1, <3>2
      <3>4. g[l + 1] \in 0 .. script.connects BY <2>1, <3>1
      <3>5. g[l + 1] \in Nat BY <3>4
      <3>6. DrainBefore(l)' => DrainBefore(l + 1) BY <1>4, <3>1
      <3> QED BY <3>2, <3>3, <3>5, <3>6
    <2> HIDE DEF h
    <2> QED BY <2>2, <2>3, <2>4, <2>5, <2>6 DEF Lives, AfterDrain
  <1>6. Remembered'
    <2>1. DrainPosted' => DrainPosted
      <3>1. sess'.draining_ => DrainPosted BY <1>1, <1>2 DEF DrainPosted
      <3>2. ASSUME NEW k \in DOMAIN cmds', cmds'[k].op = "drain" PROVE DrainPosted
        BY <1>2, <3>2 DEF DrainPosted
      <3> QED BY <3>1, <3>2 DEF DrainPosted
    <2>2. /\ DrainPosted => script.connects >= 1
          /\ script.active => script.connects >= IF DrainPosted THEN 2 ELSE 1
          /\ script.connects \in Nat
      BY TypeParts DEF IInv, Remembered, ScriptState
    <2>3. /\ DrainPosted' => script.connects >= 1
          /\ script.active => script.connects >= IF DrainPosted' THEN 2 ELSE 1
      BY <2>1, <2>2
    <2>4. \A k \in DOMAIN cmds' : cmds'[k].op # "send" => cmds'[k].n = 0
      BY <1>2 DEF IInv, Remembered
    <2>5. \A k \in DOMAIN cmds' : cmds'[k].op = "stop" => script'.stopped
      BY <1>2 DEF IInv, Remembered
    <2>6. \A k, l \in DOMAIN cmds' : cmds'[k].op = "stop" /\ cmds'[l].op = "stop" => k = l
      <3> SUFFICES ASSUME NEW k \in DOMAIN cmds', NEW l \in DOMAIN cmds',
                          cmds'[k].op = "stop", cmds'[l].op = "stop"
                   PROVE  k = l
        OBVIOUS
      <3>1. k + 1 = l + 1 BY <1>2 DEF IInv, Remembered
      <3> QED BY <1>2, <3>1
    <2>7. script.connects <= MaxStarts BY DEF IInv, Remembered
    <2> QED BY <2>3, <2>4, <2>5, <2>6, <2>7 DEF Remembered
  <1> QED BY <1>2, <1>3, <1>5, <1>6

-----------------------------------------------------------------------------
(* Actions *)

LEMMA CommandStep ==
    ASSUME IInv, NEW op, Take(op), script' = script, env' \in EnvState,
           NEW t, sess' = t, Settled(t),
           t.requested = sess.requested + Head(cmds).n,
           t.starts = sess.starts + (IF op = "start" THEN 1 ELSE 0),
           t.draining_ => sess.draining_ \/ op = "drain"
    PROVE  IInv'
  <1>1. cmds' \in Seq(Command) /\ Requests' /\ Lives' /\ Remembered' BY Taken
  <1>2. /\ Core(sess)' /\ Linked(sess)' /\ Wakeup(sess)' /\ sess' \in SessionState
        /\ (~env.failed /\ ~env.stopRan => Peaceful(sess))'
    BY SettledInv
  <1>3. TypeOK' BY <1>1, <1>2, TypeParts DEF IInv
  <1> QED BY <1>1, <1>2, <1>3 DEF IInv

LEMMA HandlerStep ==
    ASSUME IInv, cmds' = cmds, script' = script, env' \in EnvState,
           NEW t, sess' = t, Settled(t),
           t.requested = sess.requested, t.starts = sess.starts, t.draining_ = sess.draining_
    PROVE  IInv'
  <1>a. Requests' BY DEF IInv, Requests
  <1>b. \A l : DrainBefore(l)' <=> DrainBefore(l) BY DEF DrainBefore
  <1>c. DrainPosted' <=> DrainPosted BY DEF DrainPosted
  <1>d. Lives' BY <1>b DEF IInv, Lives, AfterDrain
  <1>e. Remembered' BY <1>c DEF IInv, Remembered
  <1>1. Requests' /\ Lives' /\ Remembered' BY <1>a, <1>d, <1>e
  <1>2. /\ Core(sess)' /\ Linked(sess)' /\ Wakeup(sess)' /\ sess' \in SessionState
        /\ (~env.failed /\ ~env.stopRan => Peaceful(sess))'
    BY SettledInv
  <1>3. TypeOK' BY <1>2, TypeParts DEF IInv
  <1> QED BY <1>1, <1>2, <1>3 DEF IInv

LEMMA PostKeeps == ASSUME IInv, Post PROVE IInv'
  <1>0. /\ script \in ScriptState /\ script.sent \in Nat /\ script.sent <= NumPayloads
        /\ script.connects \in Nat /\ script.connects <= MaxStarts
    <2>1. script \in ScriptState /\ cmds \in Seq(Command) BY TypeParts DEF IInv
    <2>2. PICK f \in [0 .. Len(cmds) -> 0 .. NumPayloads] : f[Len(cmds)] = script.sent
      BY DEF IInv, Requests
    <2>3. Len(cmds) \in 0 .. Len(cmds) BY <2>1
    <2>4. script.connects <= MaxStarts BY DEF IInv, Remembered
    <2> QED BY <2>1, <2>2, <2>3, <2>4, ConstantsAssumption DEF ScriptState
  <1>1. CASE PostStart
    <2> DEFINE c == [op |-> "start", n |-> 0]
               m == script.connects + 1
    <2>1. c \in Command /\ c.op = "start" /\ c.n = 0 BY DEF Command
    <2>2. /\ cmds' = Append(cmds, c) /\ sess' = sess /\ env' = env
          /\ script.connects < MaxStarts
      BY <1>1 DEF PostStart
    <2>3. script' = [script EXCEPT !.active = TRUE, !.connects = m] BY <1>1 DEF PostStart
    <2>a. m \in Nat /\ m <= MaxStarts /\ m = script.connects + 1
      BY <1>0, <2>2, ConstantsAssumption
    <2> HIDE DEF c, m
    <2>4. /\ script' \in ScriptState /\ script'.active /\ script'.sent = script.sent
          /\ script'.stopped = script.stopped /\ script'.connects = m
      BY <1>0, <2>3, <2>a DEF ScriptState
    <2>5. script'.sent = script.sent + c.n /\ script'.sent <= NumPayloads BY <1>0, <2>1, <2>4
    <2>6. c.op \notin AfterDrain BY <2>1 DEF AfterDrain
    <2>7. /\ script'.connects = script.connects + (IF c.op = "start" THEN 1 ELSE 0)
          /\ script'.connects <= MaxStarts
      BY <2>1, <2>4, <2>a
    <2> QED BY <2>1, <2>2, <2>4, <2>5, <2>6, <2>7, Appended
  <1>2. ASSUME NEW n \in SendCounts, PostSend(n) PROVE IInv'
    <2> DEFINE c == [op |-> "send", n |-> n]
               m == script.sent + n
    <2>0. n \in Nat BY ConstantsAssumption
    <2>1. c \in Command BY <2>0 DEF Command
    <2>2. /\ script.active /\ m <= NumPayloads /\ script' = [script EXCEPT !.sent = m]
          /\ cmds' = Append(cmds, c) /\ sess' = sess /\ env' = env
      BY <1>2 DEF PostSend
    <2>a. m \in Nat BY <1>0, <2>0
    <2>b. c.op = "send" /\ c.n = n /\ m = script.sent + n OBVIOUS
    <2> HIDE DEF c, m
    <2>3. /\ script' \in ScriptState /\ script'.connects = script.connects /\ script'.sent = m
          /\ script'.stopped = script.stopped /\ script'.active = script.active
      BY <1>0, <2>2, <2>a DEF ScriptState
    <2>4. script'.connects = script.connects + (IF c.op = "start" THEN 1 ELSE 0)
      BY <1>0, <2>3, <2>b
    <2> QED BY <1>0, <2>1, <2>2, <2>3, <2>4, <2>b, Appended
  <1>3. CASE PostFlood
    <2> DEFINE c == [op |-> "flood", n |-> 0]
    <2>1. c \in Command BY DEF Command
    <2>2. /\ script.active /\ script' = script
          /\ cmds' = Append(cmds, c) /\ sess' = sess /\ env' = env
      BY <1>3 DEF PostFlood
    <2>4. c.op = "flood" /\ c.n = 0 OBVIOUS
    <2> HIDE DEF c
    <2>3. /\ script'.sent = script.sent + c.n
          /\ script'.connects = script.connects + (IF c.op = "start" THEN 1 ELSE 0)
      BY <1>0, <2>2, <2>4
    <2> QED BY <1>0, <2>1, <2>2, <2>3, <2>4, Appended
  <1>4. CASE PostDrain
    <2> DEFINE c == [op |-> "drain", n |-> 0]
    <2>1. c \in Command /\ c.op = "drain" /\ c.n = 0 BY DEF Command
    <2>2. script.active /\ cmds' = Append(cmds, c) /\ sess' = sess /\ env' = env
      BY <1>4 DEF PostDrain
    <2>3. script' = [script EXCEPT !.active = FALSE] BY <1>4 DEF PostDrain
    <2>4. /\ script' \in ScriptState /\ ~script'.active /\ script'.sent = script.sent
          /\ script'.stopped = script.stopped /\ script'.connects = script.connects
      BY <1>0, <2>3 DEF ScriptState
    <2> HIDE DEF c
    <2>5. /\ script'.sent = script.sent + c.n /\ script'.sent <= NumPayloads
          /\ script'.connects = script.connects + (IF c.op = "start" THEN 1 ELSE 0)
      BY <1>0, <2>1, <2>4
    <2> QED BY <1>0, <2>1, <2>2, <2>4, <2>5, Appended
  <1>5. CASE PostStop
    <2> DEFINE c == [op |-> "stop", n |-> 0]
    <2>1. c \in Command /\ c.op = "stop" /\ c.n = 0 BY DEF Command
    <2>2. ~script.stopped /\ cmds' = Append(cmds, c) /\ sess' = sess /\ env' = env
      BY <1>5 DEF PostStop
    <2>3. script' = [script EXCEPT !.stopped = TRUE] BY <1>5 DEF PostStop
    <2>4. /\ script' \in ScriptState /\ script'.stopped /\ script'.sent = script.sent
          /\ script'.active = script.active /\ script'.connects = script.connects
      BY <1>0, <2>3 DEF ScriptState
    <2> HIDE DEF c
    <2>5. /\ script'.sent = script.sent + c.n /\ script'.sent <= NumPayloads
          /\ script'.connects = script.connects + (IF c.op = "start" THEN 1 ELSE 0)
      BY <1>0, <2>1, <2>4
    <2>6. c.op \notin AfterDrain BY <2>1 DEF AfterDrain
    <2> QED BY <1>0, <2>1, <2>2, <2>4, <2>5, <2>6, Appended
  <1> QED BY <1>1, <1>2, <1>3, <1>4, <1>5 DEF Post

\* start() begins a life: the first finds a session with nothing outstanding,
\* and of a later one the invariant says no more than its types and budget.
LEMMA StartKeeps ==
    ASSUME IInv, start
    PROVE  IInv' /\ sess.starts < MaxStarts /\ sess'.starts = sess.starts + 1 /\ sess'.live_
  <1> DEFINE n == sess.starts + 1
             a == [sess EXCEPT !.ops = Aborted(sess.ops)]
             b == [a EXCEPT !.live_ = TRUE, !.connecting_ = TRUE, !.open = FALSE, !.starts = n]
             t == Begin(b, "connect")
  <1>0. /\ sess \in SessionState /\ env \in EnvState /\ Take("start") /\ script' = script
        /\ Core(sess) /\ env' = env
    BY TypeParts DEF IInv, start
  <1>1. Head(cmds).n = 0 /\ sess.starts < MaxStarts BY <1>0, HeadFacts
  <1>2. sess' = t
    <2>1. sess' = Begin([sess EXCEPT !.live_ = TRUE, !.connecting_ = TRUE,
                                     !.ops = Aborted(sess.ops), !.open = FALSE,
                                     !.starts = n], "connect")
      BY DEF start
    <2>2. b = [sess EXCEPT !.live_ = TRUE, !.connecting_ = TRUE,
                           !.ops = Aborted(sess.ops), !.open = FALSE, !.starts = n]
      BY <1>0 DEF SessionState
    <2> QED BY <2>1, <2>2
  <1>3. a \in SessionState /\ SameButOps(sess, a) /\ a.ops = Aborted(sess.ops)
    BY <1>0, AbortedEffect, NewOps
  <1>4. n \in Nat /\ n > 0 /\ n = sess.starts + 1 /\ sess.starts \in Nat BY <1>0, FieldTypes
  <1> HIDE DEF a, n
  <1>5. /\ b \in SessionState /\ b.ops = a.ops /\ b.live_ /\ b.connecting_ /\ b.starts = n
        /\ b.flood_ = a.flood_ /\ b.draining_ = a.draining_ /\ b.writing_ = a.writing_
        /\ b.writes_queued_ = a.writes_queued_ /\ b.responses_ = a.responses_
        /\ b.next_payload_index_ = a.next_payload_index_ /\ b.posts = a.posts
        /\ b.disconnects = a.disconnects /\ b.requested = a.requested
    BY <1>3, <1>4 DEF SessionState
  <1> HIDE DEF b
  <1>6. /\ t \in SessionState /\ SameButOps(b, t)
        /\ Outstanding(t, "connect") = Outstanding(b, "connect") + 1
        /\ \A k \in OpKind \ {"connect"} : Outstanding(t, k) = Outstanding(b, k)
        /\ t.ops["connect"]["ok"] = b.ops["connect"]["ok"]
        /\ NoError(b) => NoError(t)
    BY <1>5, BeginEffect DEF OpKind
  <1> HIDE DEF t
  <1>7. /\ t.live_ /\ t.connecting_ /\ t.starts = n
        /\ t.flood_ = sess.flood_ /\ t.draining_ = sess.draining_ /\ t.writing_ = sess.writing_
        /\ t.writes_queued_ = sess.writes_queued_ /\ t.responses_ = sess.responses_
        /\ t.next_payload_index_ = sess.next_payload_index_ /\ t.posts = sess.posts
        /\ t.disconnects = sess.disconnects /\ t.requested = sess.requested
    BY <1>3, <1>5, <1>6 DEF SameButOps
  <1>8. /\ \A k \in OpKind : Outstanding(b, k) = Outstanding(sess, k)
        /\ \A k \in OpKind : b.ops[k]["ok"] = sess.ops[k]["ok"]
        /\ \A k \in OpKind : b.ops[k]["err"] = sess.ops[k]["err"] + sess.ops[k]["pending"]
    BY <1>0, <1>3, <1>5, AbortedEffect DEF Outstanding
  <1>9. Fresh(t) BY <1>4, <1>7 DEF Fresh
  <1>10. Budget(t) BY <1>0, <1>7 DEF Core, Budget
  <1>11. Wakeup(t) BY <1>7 DEF Wakeup
  <1>12. CASE sess.starts # 0
    <2>1. ~(t.starts <= 1) BY <1>4, <1>7, <1>12
    <2> QED
      <3>1. Tokens(t) /\ Linked(t) /\ Peaceful(t) BY <2>1 DEF Tokens, Linked, Peaceful
      <3>2. Settled(t) BY <1>6, <1>9, <1>10, <1>11, <3>1 DEF Settled, Core
      <3>3. /\ t.requested = sess.requested + Head(cmds).n
            /\ t.starts = sess.starts + (IF "start" = "start" THEN 1 ELSE 0)
        BY <1>0, <1>1, <1>4, <1>7, FieldTypes
      <3>4. IInv' BY <1>0, <1>2, <1>7, <3>2, <3>3, CommandStep
      <3> QED BY <1>1, <1>2, <1>4, <1>7, <3>4
  <1>13. CASE sess.starts = 0
    <2>1. /\ Reading(sess) = 0 /\ Writing(sess) = 0 /\ sess.disconnects = 0
          /\ ~sess.writing_ /\ sess.responses_ = 0
      BY <1>0, <1>13 DEF Core, Fresh, Tokens
    <2>2. \A k \in OpKind : Outstanding(sess, k) \in Nat BY <1>0, OutstandingNat
    <2>3. \A k \in OpKind : Outstanding(sess, k) = 0
      <3>1. /\ Outstanding(sess, "connect") \in Nat /\ Outstanding(sess, "header") \in Nat
            /\ Outstanding(sess, "body") \in Nat /\ sess.posts \in Nat
        BY <1>0, <2>2, FieldTypes DEF OpKind
      <3>2. /\ Outstanding(sess, "connect") = 0 /\ Outstanding(sess, "header") = 0
            /\ Outstanding(sess, "body") = 0 /\ Outstanding(sess, "write") = 0
        BY <2>1, <3>1 DEF Reading, Writing
      <3> QED BY <3>2 DEF OpKind
    <2>4. \A k \in OpKind : /\ sess.ops[k]["ok"] = 0 /\ sess.ops[k]["err"] = 0
                            /\ sess.ops[k]["pending"] = 0
      <3> TAKE k \in OpKind
      <3>1. /\ sess.ops[k]["ok"] \in Nat /\ sess.ops[k]["err"] \in Nat
            /\ sess.ops[k]["pending"] \in Nat
        BY <1>0, OutstandingNat
      <3>2. sess.ops[k]["pending"] + sess.ops[k]["ok"] + sess.ops[k]["err"] = 0
        BY <2>3 DEF Outstanding
      <3> DEFINE x == sess.ops[k]["pending"]
                 y == sess.ops[k]["ok"]
                 z == sess.ops[k]["err"]
      <3>3. x \in Nat /\ y \in Nat /\ z \in Nat /\ x + y + z = 0 BY <3>1, <3>2
      <3> HIDE DEF x, y, z
      <3>4. x = 0 /\ y = 0 /\ z = 0 BY <3>3
      <3> QED BY <3>4 DEF x, y, z
    <2>5. NoError(t) BY <1>6, <1>8, <2>4 DEF NoError
    <2>6. t.ops["connect"]["ok"] = 0 BY <1>6, <1>8, <2>4 DEF OpKind
    <2>7. /\ Outstanding(t, "connect") = 1 /\ Outstanding(t, "header") = 0
          /\ Outstanding(t, "body") = 0 /\ Outstanding(t, "write") = 0
      <3>1. \A k \in OpKind : Outstanding(b, k) = 0 BY <1>8, <2>3
      <3>2. \A k \in OpKind \ {"connect"} : Outstanding(t, k) = 0 BY <1>6, <3>1
      <3>3. Outstanding(t, "connect") = 1 BY <1>6, <3>1 DEF OpKind
      <3> QED BY <3>2, <3>3 DEF OpKind
    <2>8. t.posts = 0
      <3>1. /\ Outstanding(sess, "connect") = 0 /\ Outstanding(sess, "header") = 0
            /\ Outstanding(sess, "body") = 0 /\ sess.posts \in Nat
        BY <1>0, <2>3, FieldTypes DEF OpKind
      <3> QED BY <1>7, <2>1, <3>1 DEF Reading
    <2>9. Reading(t) = 1 /\ Writing(t) = 0 BY <2>7, <2>8 DEF Reading, Writing
    <2>10. n = 1 BY <1>4, <1>13
    <2>11. Tokens(t) BY <1>7, <2>1, <2>7, <2>9, <2>10 DEF Tokens
    <2>12. Linked(t) BY <1>7, <2>6 DEF Linked
    <2>13. Peaceful(t) BY <1>7, <2>5 DEF Peaceful
    <2>14. Settled(t) BY <1>6, <1>9, <1>10, <1>11, <2>11, <2>12, <2>13 DEF Settled, Core
    <2>15. /\ t.requested = sess.requested + Head(cmds).n
           /\ t.starts = sess.starts + (IF "start" = "start" THEN 1 ELSE 0)
      BY <1>0, <1>1, <1>4, <1>7, FieldTypes
    <2>16. IInv' BY <1>0, <1>2, <1>7, <2>14, <2>15, CommandStep
    <2> QED BY <1>1, <1>2, <1>4, <1>7, <2>16
  <1> QED BY <1>12, <1>13

\* t has the operations, the writer and the callbacks of s.
SameTokens(s, t) ==
    /\ t.ops = s.ops /\ t.posts = s.posts /\ t.live_ = s.live_ /\ t.open = s.open
    /\ t.connecting_ = s.connecting_ /\ t.starts = s.starts /\ t.disconnects = s.disconnects
    /\ t.writing_ = s.writing_ /\ t.responses_ = s.responses_ /\ t.spinning = s.spinning
    /\ t.loop_payloads = s.loop_payloads

LEMMA TokensKept ==
    ASSUME NEW s, NEW t, Fresh(s), Tokens(s), SameTokens(s, t)
    PROVE  /\ Fresh(t) /\ Tokens(t) /\ (NoError(s) => NoError(t)) /\ (Linked(s) => Linked(t))
  BY DEF Fresh, Tokens, SameTokens, NoError, Linked, Reading, Writing, Outstanding

\* What a handler other than start() may do to the session's life.
Ages == sess'.starts = sess.starts /\ (sess'.live_ => sess.live_)

LEMMA FloodKeeps == ASSUME IInv, flood PROVE IInv' /\ Ages
  <1> DEFINE s == [sess EXCEPT !.flood_ = TRUE]
             t == StartIfConnected(s)
  <1>0. /\ sess \in SessionState /\ env \in EnvState /\ Take("flood") /\ script' = script
        /\ env' = env /\ Core(sess) /\ Linked(sess) /\ Wakeup(sess)
    BY TypeParts DEF IInv, flood
  <1>1. Head(cmds).n = 0 BY <1>0, HeadFacts
  <1>2. /\ sess.requested = sess.requested + Head(cmds).n
        /\ sess.starts = sess.starts + (IF "flood" = "start" THEN 1 ELSE 0)
    BY <1>0, <1>1, FieldTypes
  <1>3. sess' = IF sess.flood_ \/ sess.draining_ THEN sess ELSE t BY DEF flood
  <1>4. CASE sess.flood_ \/ sess.draining_
    <2>1. sess' = sess BY <1>3, <1>4
    <2>2. Settled(sess) BY <1>0 DEF IInv, Settled
    <2>3. IInv' BY <1>0, <1>2, <2>1, <2>2, CommandStep
    <2> QED BY <2>1, <2>3 DEF Ages
  <1>5. CASE ~(sess.flood_ \/ sess.draining_)
    <2>1. /\ s \in SessionState /\ SameTokens(sess, s) /\ s.flood_
          /\ s.draining_ = sess.draining_ /\ s.requested = sess.requested
      BY <1>0 DEF SessionState, SameTokens
    <2> HIDE DEF s
    <2>2. Fresh(s) /\ Tokens(s) /\ Linked(s) /\ (NoError(sess) => NoError(s))
      BY <1>0, <2>1, TokensKept DEF Core
    <2>3. Core(s) BY <1>0, <2>1, <2>2 DEF Core, Budget
    <2>4. Peaceful(sess) => Peaceful(s)
      BY <2>1, <2>2 DEF Peaceful, Delivered, SameTokens
    <2>5. Keeps(s, t) /\ (Peaceful(s) => Peaceful(t)) BY <2>2, <2>3, StartIfConnectedKeeps
    <2>6. sess' = t BY <1>3, <1>5
    <2> HIDE DEF t
    <2>7. Settled(t) BY <1>0, <2>4, <2>5 DEF IInv, Settled, Keeps
    <2>8. /\ t.requested = sess.requested /\ t.starts = sess.starts
          /\ t.draining_ = sess.draining_ /\ (t.live_ => sess.live_)
      BY <2>1, <2>5 DEF Keeps, SameTokens
    <2>9. IInv' BY <1>0, <1>2, <2>6, <2>7, <2>8, CommandStep
    <2> QED BY <2>6, <2>8, <2>9 DEF Ages
  <1> QED BY <1>4, <1>5

\* A send() before the first drain() has run finds the session not draining.
LEMMA SendKeepsInv == ASSUME IInv, send PROVE IInv' /\ Ages
  <1> DEFINE n == Head(cmds).n
             q == sess.writes_queued_ + n
             r == sess.requested + n
             s == [sess EXCEPT !.writes_queued_ = q, !.requested = r]
             t == StartIfConnected(s)
  <1>0. /\ sess \in SessionState /\ env \in EnvState /\ Take("send") /\ script' = script
        /\ env' = env /\ Core(sess) /\ Linked(sess) /\ sess' = t
    BY TypeParts DEF IInv, send
  <1>1. n \in Nat /\ r <= NumPayloads /\ (sess.draining_ => sess.starts >= 2)
    BY <1>0, HeadFacts DEF AfterDrain
  <1>2. /\ q \in Nat /\ r \in Nat /\ r = sess.requested + n
        /\ ~sess.flood_ => sess.next_payload_index_ + q = r
    BY <1>0, <1>1, FieldTypes DEF Core, Budget
  <1> HIDE DEF q, r
  <1>3. /\ s \in SessionState /\ SameTokens(sess, s) /\ s.flood_ = sess.flood_
        /\ s.draining_ = sess.draining_ /\ s.requested = r /\ s.writes_queued_ = q
        /\ s.next_payload_index_ = sess.next_payload_index_
    BY <1>0, <1>2 DEF SessionState, SameTokens
  <1> HIDE DEF s
  <1>4. Fresh(s) /\ Tokens(s) /\ Linked(s) /\ (NoError(sess) => NoError(s))
    BY <1>0, <1>3, TokensKept DEF Core
  <1>5. Core(s) BY <1>0, <1>1, <1>2, <1>3, <1>4 DEF Core, Budget
  <1>6. Peaceful(sess) => Peaceful(s)
    <2>1. sess.starts \in Nat BY <1>0, FieldTypes
    <2> QED BY <1>1, <1>3, <1>4, <2>1 DEF Peaceful, Delivered, SameTokens
  <1>7. Keeps(s, t) /\ (Peaceful(s) => Peaceful(t)) BY <1>4, <1>5, StartIfConnectedKeeps
  <1> HIDE DEF t
  <1>8. Settled(t) BY <1>0, <1>6, <1>7 DEF IInv, Settled, Keeps
  <1>9. /\ t.requested = sess.requested + n /\ t.starts = sess.starts
        /\ t.draining_ = sess.draining_ /\ (t.live_ => sess.live_)
    BY <1>2, <1>3, <1>7 DEF Keeps, SameTokens
  <1>10. sess.starts = sess.starts + (IF "send" = "start" THEN 1 ELSE 0) BY <1>0, FieldTypes
  <1>11. IInv' BY <1>0, <1>8, <1>9, <1>10, CommandStep
  <1> QED BY <1>0, <1>9, <1>11 DEF Ages

\* drain() closes at once when nothing is left to write.
LEMMA DrainKeeps == ASSUME IInv, drain PROVE IInv' /\ Ages
  <1> DEFINE s == [sess EXCEPT !.draining_ = TRUE]
             done == ~s.writing_ /\ s.writes_queued_ = 0 /\ s.responses_ = 0
             t == IF done THEN close_session(s) ELSE s
  <1>0. /\ sess \in SessionState /\ env \in EnvState /\ Take("drain") /\ script' = script
        /\ env' = env /\ Core(sess) /\ Linked(sess) /\ Wakeup(sess) /\ sess' = t
    BY TypeParts DEF IInv, drain
  <1>1. Head(cmds).n = 0 BY <1>0, HeadFacts
  <1>2. /\ sess.requested = sess.requested + Head(cmds).n
        /\ sess.starts = sess.starts + (IF "drain" = "start" THEN 1 ELSE 0)
    BY <1>0, <1>1, FieldTypes
  <1>3. /\ s \in SessionState /\ SameTokens(sess, s) /\ s.flood_ = sess.flood_
        /\ s.draining_ /\ s.requested = sess.requested
        /\ s.writes_queued_ = sess.writes_queued_
        /\ s.next_payload_index_ = sess.next_payload_index_
    BY <1>0 DEF SessionState, SameTokens
  <1> HIDE DEF s
  <1>4. Fresh(s) /\ Tokens(s) /\ Linked(s) /\ (NoError(sess) => NoError(s))
    BY <1>0, <1>3, TokensKept DEF Core
  <1>5. Core(s) BY <1>0, <1>3, <1>4 DEF Core, Budget
  <1>6. Wakeup(s) BY <1>0, <1>3 DEF Wakeup, WantsPayload, Exhausted, SameTokens
  <1>7. Peaceful(sess) => Peaceful(s)
    BY <1>3, <1>4 DEF Peaceful, Delivered, SameTokens
  <1>8. done => Delivered(s)
    <2>1. s.next_payload_index_ \in Nat /\ s.requested \in Nat BY <1>3, FieldTypes
    <2> QED BY <1>3, <1>5, <2>1 DEF Delivered, Core, Budget
  <1>9. Keeps(s, t) /\ (Peaceful(s) => Peaceful(t))
    <2>1. CASE done BY <1>5, <1>8, <2>1, CloseKeeps
    <2>2. CASE ~done BY <1>4, <1>5, <1>6, <2>2 DEF Keeps
    <2> QED BY <2>1, <2>2
  <1> HIDE DEF t
  <1>10. Settled(t) BY <1>0, <1>7, <1>9 DEF IInv, Settled, Keeps
  <1>11. /\ t.requested = sess.requested /\ t.starts = sess.starts /\ (t.live_ => sess.live_)
    BY <1>3, <1>9 DEF Keeps, SameTokens
  <1>12. IInv' BY <1>0, <1>2, <1>10, <1>11, CommandStep
  <1> QED BY <1>0, <1>11, <1>12 DEF Ages

LEMMA StopKeeps == ASSUME IInv, stop PROVE IInv' /\ Ages /\ ~sess'.live_
  <1> DEFINE t == close_session(sess)
  <1>0. /\ sess \in SessionState /\ env \in EnvState /\ Take("stop") /\ script' = script
        /\ Core(sess) /\ sess' = t
    BY TypeParts DEF IInv, stop
  <1>1. env' = [env EXCEPT !.stopRan = TRUE] BY DEF stop
  <1>2. env' \in EnvState /\ env'.stopRan BY <1>0, <1>1 DEF EnvState
  <1>3. Head(cmds).n = 0 BY <1>0, HeadFacts
  <1>4. /\ sess.requested = sess.requested + Head(cmds).n
        /\ sess.starts = sess.starts + (IF "stop" = "start" THEN 1 ELSE 0)
    BY <1>0, <1>3, FieldTypes
  <1>5. Keeps(sess, t) /\ ~t.live_ BY <1>0, CloseKeeps
  <1> HIDE DEF t
  <1>6. Settled(t) BY <1>2, <1>5 DEF Settled, Keeps
  <1>7. /\ t.requested = sess.requested /\ t.starts = sess.starts
        /\ t.draining_ = sess.draining_
    BY <1>5 DEF Keeps
  <1>8. IInv' BY <1>0, <1>2, <1>4, <1>6, <1>7, CommandStep
  <1> QED BY <1>0, <1>5, <1>7, <1>8 DEF Ages

\* How a completion handler that closes on an error ends.
LEMMA ClosedOnError ==
    ASSUME NEW s, NEW c, Core(c), c.starts = s.starts, c.live_ = s.live_,
           c.draining_ = s.draining_, c.requested = s.requested,
           Peaceful(s) => Peaceful(c), Peaceful(s) /\ s.starts <= 1 => ~c.live_
    PROVE  LET t == close_session(c)
           IN  /\ Core(t) /\ Linked(t) /\ Wakeup(t) /\ t.starts = s.starts /\ ~t.live_
               /\ t.draining_ = s.draining_ /\ t.requested = s.requested
               /\ Peaceful(s) => Peaceful(t)
  <1> DEFINE t == close_session(c)
  <1>1. Keeps(c, t) /\ ~t.live_ /\ (~c.live_ => t = c) BY CloseKeeps
  <1> HIDE DEF t
  <1>2. /\ Core(t) /\ Linked(t) /\ Wakeup(t) /\ t.starts = s.starts /\ ~t.live_
        /\ t.draining_ = s.draining_ /\ t.requested = s.requested
    BY <1>1 DEF Keeps
  <1>3. ASSUME Peaceful(s) PROVE Peaceful(t)
    <2>1. CASE s.starts <= 1 BY <1>1, <1>3, <2>1
    <2>2. CASE ~(s.starts <= 1) BY <1>2, <2>2 DEF Peaceful
    <2> QED BY <2>1, <2>2
  <1> QED BY <1>2, <1>3 DEF t

LEMMA ConnectDoneKeeps ==
    ASSUME IInv, NEW result \in {"ok", "err"}, ConnectDone(result)
    PROVE  IInv' /\ Ages
  <1> DEFINE c == Connected(sess, result)
             t == IF result = "err" THEN close_session(c) ELSE on_connect(c)
  <1>0. /\ env \in EnvState /\ script' = script /\ cmds' = cmds /\ env' = env
        /\ Core(sess) /\ Linked(sess) /\ sess' = t /\ sess.ops["connect"][result] > 0
    BY TypeParts DEF IInv, ConnectDone, Ready, Connected
  <1>1. /\ Core(c) /\ c.starts = sess.starts /\ c.live_ = sess.live_
        /\ c.draining_ = sess.draining_ /\ c.requested = sess.requested /\ c.starts > 0
        /\ Peaceful(sess) => Peaceful(c)
        /\ result = "err" /\ Peaceful(sess) /\ sess.starts <= 1 => ~c.live_
        /\ result = "ok" => Linked(c)
        /\ c.starts <= 1 => /\ Reading(c) = 0 /\ Writing(c) = 0 /\ ~c.connecting_
                            /\ ~c.writing_ /\ c.responses_ = 0
    BY <1>0, ConnectedKeeps
  <1> HIDE DEF c
  <1>2. /\ Core(t) /\ Linked(t) /\ Wakeup(t) /\ t.starts = sess.starts
        /\ t.draining_ = sess.draining_ /\ t.requested = sess.requested
        /\ t.live_ => sess.live_
        /\ Peaceful(sess) => Peaceful(t)
    <2>1. CASE result = "err"
      <3>1. t = close_session(c) BY <2>1
      <3> QED BY <1>1, <2>1, <3>1, ClosedOnError
    <2>2. CASE result = "ok"
      <3>1. t = on_connect(c) BY <2>2
      <3> QED BY <1>1, <2>2, <3>1, OnConnectKeeps
    <2> QED BY <2>1, <2>2
  <1> HIDE DEF t
  <1>3. Settled(t) BY <1>0, <1>2 DEF IInv, Settled
  <1>4. IInv' BY <1>0, <1>2, <1>3, HandlerStep
  <1> QED BY <1>0, <1>2, <1>4 DEF Ages

\* What an error-free header or body completion goes on with.
LEMMA ReadOnKeeps ==
    ASSUME NEW c, Core(c), Linked(c), Wakeup(c), c.starts > 0,
           c.starts <= 1 => Reading(c) = 0 /\ ~c.connecting_,
           NEW t, \/ t = do_read_header(c) \/ t = handle_message(c)
                  \/ \E empty \in BOOLEAN : t = do_read_body(c, empty)
    PROVE  /\ Core(t) /\ Linked(t) /\ Wakeup(t) /\ (Peaceful(c) => Peaceful(t))
           /\ t.starts = c.starts /\ t.draining_ = c.draining_ /\ t.requested = c.requested
           /\ t.live_ = c.live_
  <1>1. CASE t = handle_message(c) BY <1>1, HandleMessageKeeps
  <1>2. ASSUME NEW kind \in {"header", "body"}, t = Begin(c, kind)
        PROVE  /\ Core(t) /\ Linked(t) /\ Wakeup(t) /\ (Peaceful(c) => Peaceful(t))
               /\ t.starts = c.starts /\ t.draining_ = c.draining_ /\ t.requested = c.requested
               /\ t.live_ = c.live_
    <2> DEFINE b == Begin(c, kind)
    <2>1. /\ Core(b) /\ Linked(b) /\ SameButOps(c, b) /\ (Wakeup(c) => Wakeup(b))
          /\ Peaceful(c) => Peaceful(b)
      BY ReadKeeps
    <2> QED BY <1>2, <2>1 DEF SameButOps
  <1>3. t = handle_message(c) \/ t = Begin(c, "header") \/ t = Begin(c, "body")
    BY DEF do_read_header, do_read_body
  <1> QED BY <1>1, <1>2, <1>3

LEMMA HeaderDoneKeeps ==
    ASSUME IInv, NEW result \in {"ok", "err"}, HeaderDone(result)
    PROVE  IInv' /\ Ages
  <1> DEFINE c == Consume(sess, "header", result)
             t == sess'
  <1>0. /\ env \in EnvState /\ script' = script /\ cmds' = cmds
        /\ Core(sess) /\ Linked(sess) /\ Wakeup(sess) /\ sess.ops["header"][result] > 0
    BY TypeParts DEF IInv, HeaderDone, Ready
  <1>1. /\ Core(c) /\ Linked(c) /\ Wakeup(c) /\ c.starts = sess.starts /\ c.live_ = sess.live_
        /\ c.draining_ = sess.draining_ /\ c.requested = sess.requested /\ c.starts > 0
        /\ Peaceful(sess) => Peaceful(c)
        /\ result = "err" /\ Peaceful(sess) /\ sess.starts <= 1 => ~c.live_
        /\ c.starts <= 1 => ~c.connecting_
        /\ c.starts <= 1 => Reading(c) = 0
    BY <1>0, ConsumeKeeps
  <1>2. \/ /\ result = "err" /\ t = close_session(c) /\ env' = env
        \/ /\ t = do_read_header(c) \/ \E empty \in BOOLEAN : t = do_read_body(c, empty)
           /\ env' = env
        \/ /\ t = close_session(c) /\ env' = [env EXCEPT !.failed = TRUE]
    BY DEF HeaderDone, handle_stream_error
  <1> HIDE DEF c, t
  <1>3. /\ env' \in EnvState /\ Settled(t) /\ t.starts = sess.starts
        /\ t.draining_ = sess.draining_ /\ t.requested = sess.requested
        /\ t.live_ => sess.live_
    <2>1. CASE result = "err" /\ t = close_session(c) /\ env' = env
      <3>1. /\ Core(t) /\ Linked(t) /\ Wakeup(t) /\ t.starts = sess.starts /\ ~t.live_
            /\ t.draining_ = sess.draining_ /\ t.requested = sess.requested
            /\ Peaceful(sess) => Peaceful(t)
        BY <1>1, <2>1, ClosedOnError
      <3>2. Settled(t) BY <2>1, <3>1 DEF IInv, Settled
      <3> QED BY <1>0, <2>1, <3>1, <3>2
    <2>2. CASE /\ t = do_read_header(c) \/ \E empty \in BOOLEAN : t = do_read_body(c, empty)
               /\ env' = env
      <3>1. /\ Core(t) /\ Linked(t) /\ Wakeup(t) /\ (Peaceful(c) => Peaceful(t))
            /\ t.starts = c.starts /\ t.draining_ = c.draining_ /\ t.requested = c.requested
            /\ t.live_ = c.live_
        BY <1>1, <2>2, ReadOnKeeps
      <3>2. Settled(t) BY <1>1, <2>2, <3>1 DEF IInv, Settled
      <3> QED BY <1>0, <1>1, <2>2, <3>1, <3>2
    <2>3. CASE t = close_session(c) /\ env' = [env EXCEPT !.failed = TRUE]
      <3>1. Keeps(c, t) BY <1>1, <2>3, CloseKeeps
      <3>2. env' \in EnvState /\ env'.failed BY <1>0, <2>3 DEF EnvState
      <3>3. Settled(t) BY <3>1, <3>2 DEF Settled, Keeps
      <3> QED BY <1>1, <3>1, <3>2, <3>3 DEF Keeps
    <2> QED BY <1>2, <2>1, <2>2, <2>3
  <1>4. IInv' BY <1>0, <1>3, HandlerStep DEF t
  <1> QED BY <1>3, <1>4 DEF Ages, t

LEMMA BodyDoneKeeps ==
    ASSUME IInv, NEW result \in {"ok", "err"}, BodyDone(result)
    PROVE  IInv' /\ Ages
  <1> DEFINE c == Consume(sess, "body", result)
             t == IF result = "err" THEN close_session(c) ELSE handle_message(c)
  <1>0. /\ env \in EnvState /\ script' = script /\ cmds' = cmds /\ env' = env /\ sess' = t
        /\ Core(sess) /\ Linked(sess) /\ Wakeup(sess) /\ sess.ops["body"][result] > 0
    BY TypeParts DEF IInv, BodyDone, Ready, handle_stream_error
  <1>1. /\ Core(c) /\ Linked(c) /\ Wakeup(c) /\ c.starts = sess.starts /\ c.live_ = sess.live_
        /\ c.draining_ = sess.draining_ /\ c.requested = sess.requested /\ c.starts > 0
        /\ Peaceful(sess) => Peaceful(c)
        /\ result = "err" /\ Peaceful(sess) /\ sess.starts <= 1 => ~c.live_
        /\ c.starts <= 1 => ~c.connecting_
        /\ c.starts <= 1 => Reading(c) = 0
    BY <1>0, ConsumeKeeps
  <1> HIDE DEF c
  <1>2. /\ Core(t) /\ Linked(t) /\ Wakeup(t) /\ t.starts = sess.starts
        /\ t.draining_ = sess.draining_ /\ t.requested = sess.requested
        /\ t.live_ => sess.live_
        /\ Peaceful(sess) => Peaceful(t)
    <2>1. CASE result = "err"
      <3>1. t = close_session(c) BY <2>1
      <3> QED BY <1>1, <2>1, <3>1, ClosedOnError
    <2>2. CASE result = "ok"
      <3>1. t = handle_message(c) BY <2>2
      <3> QED BY <1>1, <2>2, <3>1, HandleMessageKeeps
    <2> QED BY <2>1, <2>2
  <1> HIDE DEF t
  <1>3. Settled(t) BY <1>0, <1>2 DEF IInv, Settled
  <1>4. IInv' BY <1>0, <1>2, <1>3, HandlerStep
  <1> QED BY <1>0, <1>2, <1>4 DEF Ages

LEMMA WriteDoneKeeps ==
    ASSUME IInv, NEW result \in {"ok", "err"}, WriteDone(result)
    PROVE  IInv' /\ Ages
  <1> DEFINE c == Consume(sess, "write", result)
             t == IF result = "err" THEN close_session(c) ELSE do_write(c)
  <1>0. /\ env \in EnvState /\ script' = script /\ cmds' = cmds /\ env' = env /\ sess' = t
        /\ Core(sess) /\ Linked(sess) /\ Wakeup(sess) /\ sess.ops["write"][result] > 0
    BY TypeParts DEF IInv, WriteDone, Ready, handle_stream_error
  <1>1. /\ Core(c) /\ Linked(c) /\ Wakeup(c) /\ c.starts = sess.starts /\ c.live_ = sess.live_
        /\ c.draining_ = sess.draining_ /\ c.requested = sess.requested /\ c.starts > 0
        /\ Peaceful(sess) => Peaceful(c)
        /\ result = "err" /\ Peaceful(sess) /\ sess.starts <= 1 => ~c.live_
        /\ c.starts <= 1 => ~c.connecting_
        /\ c.starts <= 1 => Writing(c) = 0
    BY <1>0, ConsumeKeeps
  <1> HIDE DEF c
  <1>2. /\ Core(t) /\ Linked(t) /\ Wakeup(t) /\ t.starts = sess.starts
        /\ t.draining_ = sess.draining_ /\ t.requested = sess.requested
        /\ t.live_ => sess.live_
        /\ Peaceful(sess) => Peaceful(t)
    <2>1. CASE result = "err"
      <3>1. t = close_session(c) BY <2>1
      <3> QED BY <1>1, <2>1, <3>1, ClosedOnError
    <2>2. CASE result = "ok"
      <3>1. t = do_write(c) BY <2>2
      <3>2. Keeps(c, do_write(c)) /\ (Peaceful(c) => Peaceful(do_write(c)))
        BY <1>1, DoWriteKeeps
      <3> QED BY <1>1, <3>1, <3>2 DEF Keeps
    <2> QED BY <2>1, <2>2
  <1> HIDE DEF t
  <1>3. Settled(t) BY <1>0, <1>2 DEF IInv, Settled
  <1>4. IInv' BY <1>0, <1>2, <1>3, HandlerStep
  <1> QED BY <1>0, <1>2, <1>4 DEF Ages

\* The continuation gives the read token to the next header read, after the
\* response has had its chance to be written.
LEMMA ResponseReadyKeeps ==
    ASSUME IInv, NEW reply \in BOOLEAN, ResponseReady(reply)
    PROVE  IInv' /\ Ages
  <1> DEFINE p == sess.posts - 1
             s == [sess EXCEPT !.posts = p]
             r == s.responses_ + 1
             a == [s EXCEPT !.responses_ = r]
             w == IF reply THEN try_start_write(a) ELSE s
             t == IF w.spinning THEN w ELSE do_read_header(w)
  <1>0. /\ env \in EnvState /\ script' = script /\ cmds' = cmds /\ env' = env
        /\ sess \in SessionState /\ Core(sess) /\ Linked(sess) /\ Wakeup(sess)
        /\ sess.posts > 0 /\ sess' = t
    BY TypeParts DEF IInv, ResponseReady
  <1>1. p \in Nat /\ sess.posts = p + 1 /\ sess.posts \in Nat BY <1>0, FieldTypes
  <1> HIDE DEF p
  <1>2. /\ s \in SessionState /\ s.posts = p /\ s.ops = sess.ops
        /\ s.live_ = sess.live_ /\ s.flood_ = sess.flood_ /\ s.draining_ = sess.draining_
        /\ s.writing_ = sess.writing_ /\ s.writes_queued_ = sess.writes_queued_
        /\ s.responses_ = sess.responses_ /\ s.open = sess.open
        /\ s.next_payload_index_ = sess.next_payload_index_ /\ s.starts = sess.starts
        /\ s.disconnects = sess.disconnects /\ s.requested = sess.requested
        /\ s.connecting_ = sess.connecting_ /\ s.spinning = sess.spinning
        /\ s.loop_payloads = sess.loop_payloads
    BY <1>0, <1>1 DEF SessionState
  <1> HIDE DEF s
  <1>3. /\ Reading(sess) = Reading(s) + 1 /\ Reading(s) \in Nat /\ Writing(s) = Writing(sess)
        /\ Outstanding(s, "connect") = Outstanding(sess, "connect")
    <2>1. /\ \A k \in OpKind : Outstanding(s, k) = Outstanding(sess, k)
          /\ \A k \in OpKind : Outstanding(s, k) \in Nat
      BY <1>0, <1>2, OutstandingNat DEF Outstanding
    <2>2. /\ Outstanding(s, "connect") = Outstanding(sess, "connect")
          /\ Outstanding(s, "header") = Outstanding(sess, "header")
          /\ Outstanding(s, "body") = Outstanding(sess, "body")
          /\ Outstanding(s, "write") = Outstanding(sess, "write")
          /\ Outstanding(s, "connect") \in Nat /\ Outstanding(s, "header") \in Nat
          /\ Outstanding(s, "body") \in Nat
      BY <2>1 DEF OpKind
    <2> QED BY <1>1, <1>2, <2>2 DEF Reading, Writing
  <1>4. s.starts # 0 /\ s.starts \in Nat /\ s.starts > 0
    BY <1>0, <1>2, <1>3, FieldTypes DEF Core, Fresh
  <1>a. s.starts <= 1 => Reading(s) = 0 /\ ~s.connecting_
    <2> SUFFICES ASSUME s.starts <= 1 PROVE Reading(s) = 0 /\ ~s.connecting_ OBVIOUS
    <2>1. Reading(s) = 0 BY <1>0, <1>2, <1>3 DEF Core, Tokens
    <2>2. /\ Outstanding(s, "connect") \in Nat /\ Outstanding(s, "header") \in Nat
          /\ Outstanding(s, "body") \in Nat
      BY <1>2, OutstandingNat DEF OpKind
    <2>a. /\ s.posts \in Nat
          /\ Outstanding(s, "connect") + Outstanding(s, "header") + Outstanding(s, "body")
                + s.posts = 0
      BY <1>2, <2>1, FieldTypes DEF Reading
    <2>3. Outstanding(s, "connect") = 0 BY <2>2, <2>a
    <2>4. Outstanding(sess, "connect") = IF sess.connecting_ THEN 1 ELSE 0
      BY <1>0, <1>2 DEF Core, Tokens
    <2> QED BY <1>2, <1>3, <2>1, <2>3, <2>4
  <1>5. Core(s)
    <2>1. Fresh(s) BY <1>4 DEF Fresh
    <2>2. Tokens(s) BY <1>0, <1>2, <1>3, <1>a DEF Core, Tokens
    <2>3. Budget(s) BY <1>0, <1>2 DEF Core, Budget
    <2> QED BY <1>2, <2>1, <2>2, <2>3 DEF Core
  <1>6. Wakeup(s) /\ Linked(s) BY <1>0, <1>2 DEF Wakeup, WantsPayload, Exhausted, Linked
  <1>7. Peaceful(sess) => Peaceful(s) BY <1>2 DEF Peaceful, NoError, Delivered
  <1>8. Keeps(s, w) /\ (Peaceful(s) => Peaceful(w))
    <2>1. CASE reply
      <3>1. r \in Nat BY <1>2, FieldTypes
      <3> HIDE DEF r
      <3>2. /\ a \in SessionState /\ a.posts = s.posts /\ a.ops = s.ops
            /\ a.live_ = s.live_ /\ a.flood_ = s.flood_ /\ a.draining_ = s.draining_
            /\ a.writing_ = s.writing_ /\ a.writes_queued_ = s.writes_queued_
            /\ a.open = s.open /\ a.starts = s.starts /\ a.connecting_ = s.connecting_
            /\ a.next_payload_index_ = s.next_payload_index_
            /\ a.disconnects = s.disconnects /\ a.requested = s.requested
        BY <1>2, <3>1 DEF SessionState
      <3> HIDE DEF a
      <3>3. /\ Reading(a) = Reading(s) /\ Writing(a) = Writing(s)
            /\ Outstanding(a, "connect") = Outstanding(s, "connect")
        BY <3>2 DEF Reading, Writing, Outstanding
      <3>4. Fresh(a) BY <1>4, <3>2 DEF Fresh
      <3>5. Tokens(a) BY <1>4, <1>5, <1>a, <3>2, <3>3 DEF Core, Tokens
      <3>6. Budget(a) BY <1>5, <3>2 DEF Core, Budget
      <3>7. Core(a) BY <3>2, <3>4, <3>5, <3>6 DEF Core
      <3>8. Peaceful(s) => Peaceful(a) BY <3>2 DEF Peaceful, NoError, Delivered
      <3>9. a.starts > 0 /\ (a.starts <= 1 => ~a.connecting_) BY <1>4, <1>a, <3>2
      <3>a. Linked(a) BY <1>6, <3>2 DEF Linked
      <3>10. Keeps(a, try_start_write(a)) /\ (Peaceful(a) => Peaceful(try_start_write(a)))
        BY <3>7, <3>9, <3>a, TryStartWriteKeeps
      <3>11. Keeps(s, try_start_write(a)) BY <3>2, <3>3, <3>10 DEF Keeps
      <3> QED BY <2>1, <3>8, <3>10, <3>11
    <2>2. CASE ~reply BY <1>5, <1>6, <2>2 DEF Keeps
    <2> QED BY <2>1, <2>2
  <1> HIDE DEF w
  <1>9. /\ Core(w) /\ Linked(w) /\ Wakeup(w) /\ w.starts > 0 /\ w.starts = sess.starts
        /\ w.draining_ = sess.draining_ /\ w.requested = sess.requested
        /\ w.live_ => sess.live_
        /\ w.starts <= 1 => Reading(w) = 0 /\ ~w.connecting_
    BY <1>2, <1>4, <1>8, <1>a DEF Keeps
  <1>10. /\ Core(t) /\ Linked(t) /\ Wakeup(t) /\ (Peaceful(w) => Peaceful(t))
         /\ t.starts = w.starts /\ t.draining_ = w.draining_ /\ t.requested = w.requested
         /\ t.live_ = w.live_
    <2>1. CASE w.spinning
      <3>1. t = w BY <2>1
      <3> HIDE DEF t
      <3> QED BY <1>9, <3>1
    <2>2. CASE ~w.spinning
      <3>1. t = do_read_header(w) BY <2>2
      <3> HIDE DEF t
      <3> QED BY <1>9, <3>1, ReadOnKeeps
    <2> QED BY <2>1, <2>2
  <1> HIDE DEF t
  <1>11. Settled(t) BY <1>0, <1>7, <1>8, <1>10 DEF IInv, Settled
  <1>12. /\ t.requested = sess.requested /\ t.starts = sess.starts
         /\ t.draining_ = sess.draining_ /\ (t.live_ => sess.live_)
    BY <1>9, <1>10
  <1>13. IInv' BY <1>0, <1>11, <1>12, HandlerStep
  <1> QED BY <1>0, <1>12, <1>13 DEF Ages

\* The kernel changes the status of an operation and never their number; a
\* connect that succeeds leaves an open socket.
LEMMA CompleteKeeps ==
    ASSUME IInv, NEW kind \in OpKind, NEW result \in {"ok", "err"}, Complete(kind, result)
    PROVE  IInv' /\ Ages
  <1> DEFINE f == sess.ops[kind]
             n == f["pending"] - 1
             m == f[result] + 1
             g == [f EXCEPT !["pending"] = n, ![result] = m]
             o == [sess.ops EXCEPT ![kind] = g]
             a == [sess EXCEPT !.ops = o]
             u == sess.open \/ (kind = "connect" /\ result = "ok")
             t == [a EXCEPT !.open = u]
             msgs == IF kind = "header" /\ result = "ok" THEN env.msgs + 1 ELSE env.msgs
             failed == env.failed \/ result = "err"
  <1>0. /\ env \in EnvState /\ script' = script /\ cmds' = cmds
        /\ sess \in SessionState /\ Core(sess) /\ Linked(sess) /\ Wakeup(sess)
        /\ f["pending"] > 0
    BY TypeParts DEF IInv, Complete
  <1>1. env' = [env EXCEPT !.msgs = msgs, !.failed = failed] BY DEF Complete
  <1>2. msgs \in Nat /\ failed \in BOOLEAN BY <1>0 DEF EnvState
  <1>3. failed <=> env.failed \/ result = "err" OBVIOUS
  <1>4. f \in [OpStatus -> Nat] /\ f["pending"] \in Nat /\ f[result] \in Nat
    BY <1>0, OutstandingNat DEF OpStatus
  <1>5. n \in Nat /\ m \in Nat /\ n + 1 = f["pending"] /\ m = f[result] + 1 BY <1>0, <1>4
  <1>u. u \in BOOLEAN /\ (sess.open => u) /\ (kind = "connect" /\ result = "ok" => u)
    BY <1>0, FieldTypes
  <1>6. sess' = t
    <2>1. sess' = [sess EXCEPT !.ops[kind]["pending"] = @ - 1, !.ops[kind][result] = @ + 1,
                               !.open = u]
      BY DEF Complete
    <2>2. result # "pending" OBVIOUS
    <2>3. sess.ops \in OpsType /\ sess.ops[kind] \in [OpStatus -> Nat] /\ kind \in OpKind
      BY <1>0, <1>4, FieldTypes
    <2> HIDE DEF u
    <2> QED BY <1>0, <2>1, <2>2, <2>3 DEF SessionState, OpsType, OpStatus
  <1> HIDE DEF msgs, failed, n, m, u
  <1>7. /\ env' \in EnvState /\ env'.stopRan = env.stopRan
        /\ ~env'.failed => ~env.failed /\ result = "ok"
    BY <1>0, <1>1, <1>2, <1>3 DEF EnvState
  <1>8. /\ g \in [OpStatus -> Nat] /\ g["pending"] = n /\ g[result] = m
        /\ \A x \in OpStatus \ {"pending", result} : g[x] = f[x]
    BY <1>4, <1>5 DEF OpStatus
  <1> HIDE DEF g
  <1>9. sess.ops \in OpsType BY <1>0, FieldTypes
  <1>10. o \in OpsType /\ o[kind] = g /\ \A k \in OpKind \ {kind} : o[k] = sess.ops[k]
    BY <1>8, <1>9 DEF OpsType
  <1> HIDE DEF o
  <1>11. a \in SessionState /\ SameButOps(sess, a) /\ a.ops = o BY <1>0, <1>10, NewOps
  <1> HIDE DEF a
  <1>a. /\ t \in SessionState /\ t.ops = a.ops /\ t.open = u
        /\ t.loop_payloads = a.loop_payloads /\ t.live_ = a.live_
        /\ t.connecting_ = a.connecting_ /\ t.flood_ = a.flood_ /\ t.draining_ = a.draining_
        /\ t.writing_ = a.writing_ /\ t.writes_queued_ = a.writes_queued_
        /\ t.responses_ = a.responses_ /\ t.next_payload_index_ = a.next_payload_index_
        /\ t.posts = a.posts /\ t.spinning = a.spinning
        /\ t.starts = a.starts /\ t.disconnects = a.disconnects /\ t.requested = a.requested
    BY <1>11, <1>u DEF SessionState
  <1> HIDE DEF t
  <1>b. /\ t.ops = o
        /\ t.loop_payloads = sess.loop_payloads /\ t.live_ = sess.live_
        /\ t.connecting_ = sess.connecting_ /\ t.flood_ = sess.flood_
        /\ t.draining_ = sess.draining_
        /\ t.writing_ = sess.writing_ /\ t.writes_queued_ = sess.writes_queued_
        /\ t.responses_ = sess.responses_ /\ t.next_payload_index_ = sess.next_payload_index_
        /\ t.posts = sess.posts /\ t.spinning = sess.spinning
        /\ t.starts = sess.starts /\ t.disconnects = sess.disconnects
        /\ t.requested = sess.requested
    BY <1>11, <1>a DEF SameButOps
  <1>12. \A k \in OpKind : Outstanding(t, k) = Outstanding(sess, k)
    <2>1. Outstanding(t, kind) = Outstanding(sess, kind)
      <3>1. CASE result = "ok"
        <4>1. g["pending"] = n /\ g["ok"] = m /\ g["err"] = f["err"] /\ f["err"] \in Nat
          BY <1>4, <1>8, <3>1 DEF OpStatus
        <4> QED BY <1>4, <1>5, <1>10, <1>b, <3>1, <4>1 DEF Outstanding
      <3>2. CASE result = "err"
        <4>1. g["pending"] = n /\ g["err"] = m /\ g["ok"] = f["ok"] /\ f["ok"] \in Nat
          BY <1>4, <1>8, <3>2 DEF OpStatus
        <4> QED BY <1>4, <1>5, <1>10, <1>b, <3>2, <4>1 DEF Outstanding
      <3> QED BY <3>1, <3>2
    <2> QED BY <1>10, <1>b, <2>1 DEF Outstanding
  <1>13. /\ Reading(t) = Reading(sess) /\ Writing(t) = Writing(sess)
         /\ Outstanding(t, "connect") = Outstanding(sess, "connect")
    BY <1>b, <1>12 DEF Reading, Writing, OpKind
  <1>14. Core(t)
    <2>1. Fresh(t) BY <1>0, <1>b, <1>13 DEF Core, Fresh
    <2>2. Tokens(t) BY <1>0, <1>b, <1>13 DEF Core, Tokens
    <2>3. Budget(t) BY <1>0, <1>b DEF Core, Budget
    <2> QED BY <1>a, <2>1, <2>2, <2>3 DEF Core
  <1>15. Wakeup(t) BY <1>0, <1>b DEF Wakeup, WantsPayload, Exhausted
  <1>16. result = "ok" /\ NoError(sess) => NoError(t)
    <2>1. result = "ok" => o[kind]["err"] = f["err"] BY <1>8, <1>10 DEF OpStatus
    <2> QED BY <1>10, <1>b, <2>1 DEF NoError
  <1>17. ~env'.failed /\ ~env'.stopRan => Peaceful(t)
    BY <1>7, <1>b, <1>16 DEF IInv, Peaceful, Delivered
  <1>18. Linked(t)
    <2>1. CASE kind = "connect" /\ result = "ok" BY <1>a, <1>u, <2>1 DEF Linked
    <2>2. CASE ~(kind = "connect" /\ result = "ok")
      <3>1. o["connect"]["ok"] = sess.ops["connect"]["ok"]
        <4>1. CASE kind # "connect" BY <1>10, <4>1 DEF OpKind
        <4>2. CASE kind = "connect"
          <5>1. g["ok"] = f["ok"] BY <1>8, <2>2, <4>2 DEF OpStatus
          <5> QED BY <1>10, <4>2, <5>1
        <4> QED BY <4>1, <4>2
      <3> QED BY <1>0, <1>a, <1>b, <1>u, <3>1 DEF Linked
    <2> QED BY <2>1, <2>2
  <1>19. Settled(t) BY <1>14, <1>15, <1>17, <1>18 DEF Settled
  <1>20. IInv' BY <1>0, <1>6, <1>7, <1>b, <1>19, HandlerStep
  <1> QED BY <1>6, <1>b, <1>20 DEF Ages

LEMMA StutterKeeps == ASSUME IInv, UNCHANGED vars PROVE IInv'
  <1>1. sess' = sess /\ cmds' = cmds /\ script' = script /\ env' = env BY DEF vars
  <1>2. env \in EnvState /\ Settled(sess) BY <1>1, TypeParts DEF IInv, Settled
  <1> QED BY <1>1, <1>2, HandlerStep

LEMMA InitHolds == Init => IInv
  <1> SUFFICES ASSUME Init PROVE IInv OBVIOUS
  <1> DEFINE zero == [r \in OpStatus |-> 0]
             none == [k \in OpKind |-> zero]
  <1>1. none \in OpsType /\ \A k \in OpKind : none[k] = zero BY DEF OpsType
  <1>2. PICK loop \in LoopPayloads :
          sess = [loop_payloads |-> loop,
                  live_ |-> FALSE, connecting_ |-> FALSE, flood_ |-> FALSE,
                  draining_ |-> FALSE, writing_ |-> FALSE,
                  writes_queued_ |-> 0, responses_ |-> 0, next_payload_index_ |-> 0,
                  open |-> FALSE, ops |-> none, posts |-> 0, spinning |-> FALSE,
                  starts |-> 0, disconnects |-> 0, requested |-> 0]
    BY DEF Init
  <1>3. zero["pending"] = 0 /\ zero["ok"] = 0 /\ zero["err"] = 0 BY DEF OpStatus
  <1>a. loop \in BOOLEAN BY ConstantsAssumption
  <1> HIDE DEF none, zero
  <1>4. /\ sess \in SessionState /\ ~sess.live_ /\ ~sess.flood_ /\ ~sess.draining_
        /\ ~sess.connecting_
        /\ ~sess.writing_ /\ sess.writes_queued_ = 0 /\ sess.responses_ = 0
        /\ sess.next_payload_index_ = 0 /\ sess.posts = 0 /\ sess.starts = 0
        /\ sess.disconnects = 0 /\ sess.requested = 0 /\ sess.ops = none
    BY <1>1, <1>2, <1>a DEF SessionState
  <1>5. Reading(sess) = 0 /\ Writing(sess) = 0 /\ Outstanding(sess, "connect") = 0
    BY <1>1, <1>3, <1>4 DEF Reading, Writing, Outstanding, OpKind
  <1>6. Core(sess)
    BY <1>4, <1>5, ConstantsAssumption DEF Core, Fresh, Tokens, Budget
  <1>7. Wakeup(sess) /\ Peaceful(sess) /\ Linked(sess)
    BY <1>4 DEF Wakeup, Peaceful, Linked
  <1>8. cmds = <<>> BY DEF Init
  <1>9. /\ script \in ScriptState /\ ~script.active /\ script.sent = 0 /\ script.connects = 0
    BY DEF Init, ScriptState
  <1>10. env \in EnvState BY DEF Init, EnvState
  <1>11. TypeOK BY <1>4, <1>8, <1>9, <1>10, TypeParts
  <1>b. DOMAIN cmds = {} /\ Len(cmds) = 0 BY <1>8
  <1>12. Requests
    <2> DEFINE f == [k \in 0 .. 0 |-> 0]
    <2>1. f \in [0 .. 0 -> 0 .. NumPayloads] /\ f[0] = 0 BY ConstantsAssumption
    <2> HIDE DEF f
    <2>2. \A k \in 1 .. Len(cmds) : f[k] = f[k - 1] + cmds[k].n BY <1>b
    <2> QED BY <1>4, <1>9, <1>b, <2>1, <2>2 DEF Requests
  <1>13. Lives
    <2> DEFINE g == [k \in 0 .. 0 |-> 0]
    <2>1. g \in [0 .. 0 -> 0 .. script.connects] /\ g[0] = 0 BY <1>9
    <2> HIDE DEF g
    <2>2. \A k \in 1 .. Len(cmds) : g[k] = g[k - 1] + (IF cmds[k].op = "start" THEN 1 ELSE 0)
      BY <1>b
    <2> QED BY <1>4, <1>9, <1>b, <2>1, <2>2 DEF Lives
  <1>14. Remembered BY <1>4, <1>9, <1>b, ConstantsAssumption DEF Remembered, DrainPosted
  <1> QED BY <1>6, <1>7, <1>11, <1>12, <1>13, <1>14 DEF IInv

LEMMA StepKeeps == IInv /\ [Next]_vars => IInv'
  <1> SUFFICES ASSUME IInv, [Next]_vars PROVE IInv' OBVIOUS
  <1>1. CASE Post BY <1>1, PostKeeps
  <1>2. CASE RunCommand
    BY <1>2, StartKeeps, FloodKeeps, SendKeepsInv, DrainKeeps, StopKeeps DEF RunCommand
  <1>3. ASSUME NEW result \in {"ok", "err"},
               ConnectDone(result) \/ HeaderDone(result) \/ BodyDone(result) \/ WriteDone(result)
        PROVE  IInv'
    BY <1>3, ConnectDoneKeeps, HeaderDoneKeeps, BodyDoneKeeps, WriteDoneKeeps
  <1>4. ASSUME NEW reply \in BOOLEAN, ResponseReady(reply) PROVE IInv'
    BY <1>4, ResponseReadyKeeps
  <1>5. CASE Network BY <1>5, CompleteKeeps DEF Network
  <1>6. CASE UNCHANGED vars BY <1>6, StutterKeeps
  <1> QED BY <1>1, <1>2, <1>3, <1>4, <1>5, <1>6 DEF Next

-----------------------------------------------------------------------------
(* Theorems *)

\* IInv is an inductive invariant: the write token, the read token and the
\* owed on_disconnect_ call of the session's first life, the budget of payloads
\* a script grants, and the commands still queued on the strand.
THEOREM Invariance == Spec => []IInv
  <1>1. Init => IInv BY InitHolds
  <1>2. IInv /\ [Next]_vars => IInv' BY StepKeeps
  <1> QED BY <1>1, <1>2, PTL DEF Spec

\* Every variable keeps its type: in particular no counter of the session
\* (writes_queued_, responses_) is ever decremented below 0.
THEOREM TypeCorrect == Spec => []TypeOK
  <1>1. IInv => TypeOK BY DEF IInv
  <1> QED BY <1>1, Invariance, PTL

\* For every script, list of payloads and server there is one outstanding
\* async_write per socket during the session's first life.
THEOREM OneWriter == Spec => []SingleWriter
  <1>1. IInv => SingleWriter BY DEF IInv, Core, Tokens, Writing, SingleWriter
  <1> QED BY <1>1, Invariance, PTL

\* Header read, body read and the continuation of handle_message() are one
\* loop: the buffers of the reader are never used by two at a time.
THEOREM OneReader == Spec => []SingleReader
  <1>1. IInv => SingleReader BY DEF IInv, Core, Tokens, Reading, SingleReader
  <1> QED BY <1>1, Invariance, PTL

\* close_session() calls on_disconnect_ once for a start(), however connection
\* failures, stream errors, stop() and the end of a drain race.
THEOREM OneDisconnect == Spec => []DisconnectOncePerStart
  <1>1. IInv => DisconnectOncePerStart BY DEF IInv, Core, Tokens, DisconnectOncePerStart
  <1> QED BY <1>1, Invariance, PTL

\* on_connect(), try_start_write() and do_write() never leave an established
\* session idle with a response or a payload it could write.
THEOREM NothingForgotten == Spec => []NoLostWakeup
  <1>1. IInv => NoLostWakeup BY DEF IInv, Wakeup, NoLostWakeup
  <1> QED BY <1>1, Invariance, PTL

\* A session that met no error and no stop() closes only after a drain(), and
\* by then do_write() has handed over whatever the script's SENDs asked for.
THEOREM DrainsAfterSending == Spec => []DrainDelivers
  <1>1. IInv => DrainDelivers BY DEF IInv, Peaceful, Delivered, DrainDelivers
  <1> QED BY <1>1, Invariance, PTL

-----------------------------------------------------------------------------
(* The contract with the pool *)

\* Only a posted stop() and its handler change whether one is waiting.
LEMMA StopTaken ==
    ASSUME IInv, NEW op, Take(op)
    PROVE  /\ op # "stop" => (StopPosted' <=> StopPosted)
           /\ op = "stop" => StopPosted /\ ~StopPosted'
  <1>1. cmds \in Seq(Command) /\ cmds # <<>> /\ Head(cmds).op = op /\ cmds' = Tail(cmds)
    BY TypeParts DEF IInv, Take
  <1>2. /\ Head(cmds) = cmds[1] /\ 1 \in DOMAIN cmds
        /\ \A k \in DOMAIN cmds' : cmds'[k] = cmds[k + 1] /\ k + 1 \in DOMAIN cmds
                                   /\ k + 1 # 1
        /\ \A k \in DOMAIN cmds : k # 1 => k - 1 \in DOMAIN cmds' /\ (k - 1) + 1 = k
    BY <1>1
  <1>3. ASSUME op # "stop", StopPosted PROVE StopPosted'
    <2>1. PICK i \in DOMAIN cmds : cmds[i].op = "stop" BY <1>3 DEF StopPosted
    <2>2. i # 1 BY <1>1, <1>2, <1>3, <2>1
    <2>3. i - 1 \in DOMAIN cmds' /\ cmds'[i - 1] = cmds[(i - 1) + 1] BY <1>2, <2>2
    <2> QED BY <1>2, <2>1, <2>2, <2>3 DEF StopPosted
  <1>4. ASSUME StopPosted' PROVE op # "stop" /\ StopPosted
    <2>1. PICK i \in DOMAIN cmds' : cmds'[i].op = "stop" BY <1>4 DEF StopPosted
    <2>2. cmds[i + 1].op = "stop" /\ i + 1 \in DOMAIN cmds /\ i + 1 # 1 BY <1>2, <2>1
    <2>3. op # "stop" BY <1>1, <1>2, <2>2 DEF IInv, Remembered
    <2> QED BY <2>2, <2>3 DEF StopPosted
  <1>5. op = "stop" => StopPosted BY <1>1, <1>2 DEF StopPosted
  <1> QED BY <1>3, <1>4, <1>5

LEMMA StopAppended ==
    ASSUME IInv, NEW c, c \in Command, cmds' = Append(cmds, c)
    PROVE  /\ c.op # "stop" => (StopPosted' <=> StopPosted)
           /\ c.op = "stop" => StopPosted'
  <1>1. cmds \in Seq(Command) BY TypeParts DEF IInv
  <1>2. /\ DOMAIN cmds' = DOMAIN cmds \cup {Len(cmds) + 1} /\ cmds'[Len(cmds) + 1] = c
        /\ \A k \in DOMAIN cmds : cmds'[k] = cmds[k]
    BY <1>1
  <1> QED BY <1>2 DEF StopPosted

\* A session started at most once is idle, live or closed, and on_disconnect_
\* has been called exactly if it is closed.
LEMMA OneLife ==
    ASSUME NEW s, Core(s), s.starts <= 1
    PROVE  \/ s.starts = 0 /\ ~s.live_ /\ s.disconnects = 0
           \/ s.starts = 1 /\ s.live_ /\ s.disconnects = 0
           \/ s.starts = 1 /\ ~s.live_ /\ s.disconnects = 1
  <1>1. s.starts \in Nat /\ s.disconnects \in Nat /\ s.live_ \in BOOLEAN
    BY FieldTypes DEF Core
  <1> QED BY <1>1 DEF Core, Fresh, Tokens

LEMMA StartsBounded == IInv => sess.starts <= MaxStarts
  <1> SUFFICES ASSUME IInv PROVE sess.starts <= MaxStarts OBVIOUS
  <1>1. cmds \in Seq(Command) /\ script \in ScriptState BY TypeParts DEF IInv
  <1>2. PICK g \in [0 .. Len(cmds) -> 0 .. script.connects] : g[0] = sess.starts
    BY DEF IInv, Lives
  <1>3. 0 \in 0 .. Len(cmds) /\ script.connects \in Nat BY <1>1 DEF ScriptState
  <1>4. sess.starts \in 0 .. script.connects BY <1>2, <1>3
  <1>5. script.connects <= MaxStarts BY DEF IInv, Remembered
  <1> QED BY <1>3, <1>4, <1>5, ConstantsAssumption

LEMMA ContractStep ==
    ASSUME MaxStarts <= 1
    PROVE  IInv /\ [Next]_vars => [Contract!Next]_(Contract!vars)
  <1> SUFFICES ASSUME IInv, [Next]_vars PROVE [Contract!Next]_(Contract!vars) OBVIOUS
  <1>0. Core(sess) /\ Core(sess') /\ sess.starts <= 1 /\ sess'.starts <= 1
    <2>1. IInv' BY StepKeeps
    <2>2. Core(sess)' BY <2>1 DEF IInv
    <2>3. Core(sess) /\ Core(sess')
      BY <2>2 DEF IInv, Core, Fresh, Tokens, Budget, Reading, Writing, Outstanding
    <2>4. (sess.starts <= MaxStarts)' BY <2>1, StartsBounded, PTL
    <2>5. sess.starts <= MaxStarts BY StartsBounded
    <2>6. sess.starts \in Nat /\ sess'.starts \in Nat BY <2>3, FieldTypes DEF Core
    <2> QED BY <2>3, <2>4, <2>5, <2>6, ConstantsAssumption
  <1>1. /\ \/ sess.starts = 0 /\ ~sess.live_ /\ sess.disconnects = 0
           \/ sess.starts = 1 /\ sess.live_ /\ sess.disconnects = 0
           \/ sess.starts = 1 /\ ~sess.live_ /\ sess.disconnects = 1
        /\ \/ sess'.starts = 0 /\ ~sess'.live_ /\ sess'.disconnects = 0
           \/ sess'.starts = 1 /\ sess'.live_ /\ sess'.disconnects = 0
           \/ sess'.starts = 1 /\ ~sess'.live_ /\ sess'.disconnects = 1
    BY <1>0, OneLife
  <1> USE DEF Contract!Next, Contract!vars, Contract!Start, Contract!FailStart,
              Contract!AskStop, Contract!Close, Contract!RunStop
  <1>2. ASSUME Ages, StopPosted' <=> StopPosted PROVE [Contract!Next]_(Contract!vars)
    BY <1>1, <1>2 DEF Ages, StopPosted
  <1>3. CASE Post
    <2>1. PICK c \in Command : cmds' = Append(cmds, c) /\ sess' = sess
      <3>1. \A n \in SendCounts : n \in Nat BY ConstantsAssumption
      <3> QED BY <1>3, <3>1 DEF Post, PostStart, PostFlood, PostDrain, PostStop, PostSend, Command
    <2>2. Ages BY <2>1 DEF Ages
    <2>3. CASE c.op # "stop"
      <3>1. StopPosted' <=> StopPosted BY <2>1, <2>3, StopAppended
      <3> QED BY <1>2, <2>2, <3>1
    <2>4. CASE c.op = "stop"
      <3>1. StopPosted' BY <2>1, <2>4, StopAppended
      <3>2. CASE StopPosted BY <1>2, <2>2, <3>1, <3>2
      <3>3. CASE ~StopPosted BY <2>1, <3>1, <3>3 DEF StopPosted
      <3> QED BY <3>2, <3>3
    <2> QED BY <2>3, <2>4
  <1>4. CASE start
    <2>1. sess'.starts = sess.starts + 1 /\ sess'.live_ BY <1>4, StartKeeps
    <2>2. StopPosted' <=> StopPosted BY <1>4, StopTaken DEF start
    <2> QED BY <1>1, <2>1, <2>2 DEF StopPosted
  <1>5. CASE flood \/ send \/ drain
    <2>1. Ages BY <1>5, FloodKeeps, SendKeepsInv, DrainKeeps
    <2>2. StopPosted' <=> StopPosted BY <1>5, StopTaken DEF flood, send, drain
    <2> QED BY <1>2, <2>1, <2>2
  <1>6. CASE stop
    <2>1. Ages /\ ~sess'.live_ BY <1>6, StopKeeps
    <2>2. StopPosted /\ ~StopPosted' BY <1>6, StopTaken DEF stop
    <2> QED BY <1>1, <2>1, <2>2 DEF Ages, StopPosted
  <1>7. ASSUME NEW result \in {"ok", "err"},
               ConnectDone(result) \/ HeaderDone(result) \/ BodyDone(result) \/ WriteDone(result)
        PROVE  [Contract!Next]_(Contract!vars)
    <2>1. Ages BY <1>7, ConnectDoneKeeps, HeaderDoneKeeps, BodyDoneKeeps, WriteDoneKeeps
    <2>2. StopPosted' <=> StopPosted
      BY <1>7 DEF ConnectDone, HeaderDone, BodyDone, WriteDone, StopPosted
    <2> QED BY <1>2, <2>1, <2>2
  <1>8. ASSUME NEW reply \in BOOLEAN, ResponseReady(reply)
        PROVE  [Contract!Next]_(Contract!vars)
    <2>1. Ages BY <1>8, ResponseReadyKeeps
    <2>2. StopPosted' <=> StopPosted BY <1>8 DEF ResponseReady, StopPosted
    <2> QED BY <1>2, <2>1, <2>2
  <1>9. ASSUME NEW kind \in OpKind, NEW result \in {"ok", "err"}, Complete(kind, result)
        PROVE  [Contract!Next]_(Contract!vars)
    <2>1. Ages BY <1>9, CompleteKeeps
    <2>2. StopPosted' <=> StopPosted BY <1>9 DEF Complete, StopPosted
    <2> QED BY <1>2, <2>1, <2>2
  <1>10. CASE UNCHANGED vars BY <1>2, <1>10 DEF vars, Ages, StopPosted
  <1> QED
    BY <1>3, <1>4, <1>5, <1>6, <1>7, <1>8, <1>9, <1>10 DEF Next, RunCommand, Network

\* Under scripts that connect a session at most once, a TCP session does only
\* what its contract with the pool allows: it goes from idle to live to closed,
\* calls on_disconnect_ exactly once, in the step that closes it, and a stop()
\* closes it whenever it is live, connecting or not (that a posted stop() does
\* run is liveness).
THEOREM KeepsContract ==
    ASSUME MaxStarts <= 1
    PROVE  Spec => Contract!Init /\ [][Contract!Next]_(Contract!vars)
  <1>1. Init => Contract!Init
    <2> SUFFICES ASSUME Init PROVE Contract!Init OBVIOUS
    <2>1. sess.starts = 0 /\ sess.disconnects = 0 BY DEF Init
    <2>2. cmds = <<>> BY DEF Init
    <2>3. ~StopPosted BY <2>2 DEF StopPosted
    <2> QED BY <2>1, <2>3 DEF Contract!Init, StopPosted
  <1>2. IInv /\ [Next]_vars => [Contract!Next]_(Contract!vars) BY ContractStep
  <1> QED BY <1>1, <1>2, Invariance, PTL DEF Spec
=============================================================================
