------------------------------ MODULE ShardProofs ------------------------------
(***************************************************************************)
(* Proofs about module Shard, for any number of sessions, any script and   *)
(* any number of commands, pulls and restarts.                             *)
(*                                                                         *)
(* The counter active_sessions_ is compared with the cardinality of two    *)
(* sets, so the first lemmas say how posting and running a command change  *)
(* the set of pending starts.                                              *)
(***************************************************************************)
EXTENDS Shard, FiniteSetTheorems, TLAPS

SessionsType == [Sessions -> [posted : Seq(SessionOp), live_ : BOOLEAN]]

\* The starts posted to the strands of the sessions ss, as session and place.
StartsOf(ss) ==
    {p \in Sessions \X Nat : p[2] \in DOMAIN ss[p[1]].posted /\ ss[p[1]].posted[p[2]] = "start"}

LiveOf(ss) == {i \in Sessions : ss[i].live_}

\* The range of an action lies within the shard's sessions.
WellFormed(a) ==
    /\ a \in Action
    /\ a.sessions_start \in Sessions /\ a.sessions_end \in 1 .. NumSessions
    /\ a.sessions_start < a.sessions_end

QueueOk ==
    /\ \A k \in DOMAIN queue : queue[k].kind = "action" => WellFormed(queue[k].action)
    /\ \A k \in DOMAIN queue : queue[k].kind = "shutdown" => ~running_ /\ ~pool.closed_
    /\ \A k, l \in DOMAIN queue :
          queue[k].kind = "shutdown" /\ queue[l].kind = "shutdown" => k = l

\* Everything happens between start() and the end of the thread, and the pool
\* is closed only after stop().
Phases ==
    /\ thread = "none" => ~running_ /\ queue = <<>>
    /\ running_ \/ thread = "none" => ~pool.closed_
    /\ ctx.stop_timer_ # "off" => pool.closed_
    /\ ctx.stopped => pool.closed_ \/ thread = "exited"

Counted ==
    /\ IsFiniteSet(PendingStarts)
    /\ ActiveSessionsExact

\* The pool reports once, at the moment it is closed and has no session left,
\* and this is what lets the thread go.
Reported ==
    /\ hist.notified = IF pool.closed_ /\ pool.active_sessions_ = 0 THEN 1 ELSE 0
    /\ hist.notified = 1 => ~ctx.work_guard_ /\ ctx.stop_timer_ # "armed"
    /\ ~ctx.work_guard_ => hist.notified = 1 \/ (ctx.stopped /\ thread = "exited")
    /\ thread = "exited" => ctx.stopped \/ hist.notified = 1

IInv == TypeOK /\ QueueOk /\ Phases /\ Counted /\ Reported

-----------------------------------------------------------------------------
(* Sets of sessions and starts. *)

LEMMA PendingAre ==
    ASSUME sessions \in SessionsType
    PROVE  PendingStarts = StartsOf(sessions) /\ Live = LiveOf(sessions)
  <1>0. \A i \in Sessions : DOMAIN sessions[i].posted \subseteq Nat BY DEF SessionsType
  <1>1. ASSUME NEW p \in PendingStarts PROVE p \in StartsOf(sessions)
    <2>1. PICK i \in Sessions :
            p \in {<<i, j>> : j \in {k \in DOMAIN sessions[i].posted :
                                        sessions[i].posted[k] = "start"}}
      BY DEF PendingStarts
    <2>2. PICK j \in DOMAIN sessions[i].posted :
            p = <<i, j>> /\ sessions[i].posted[j] = "start"
      BY <2>1
    <2> QED BY <1>0, <2>2 DEF StartsOf
  <1>2. ASSUME NEW p \in StartsOf(sessions) PROVE p \in PendingStarts
    <2>1. PICK i \in Sessions, j \in Nat :
            p = <<i, j>> /\ j \in DOMAIN sessions[i].posted /\ sessions[i].posted[j] = "start"
      BY DEF StartsOf
    <2>2. p \in {<<i, k>> : k \in {l \in DOMAIN sessions[i].posted :
                                        sessions[i].posted[l] = "start"}}
      BY <2>1
    <2> QED BY <2>2 DEF PendingStarts
  <1> QED BY <1>1, <1>2 DEF Live, LiveOf

\* How a bijection is shown to exist.
LEMMA BijectionExists ==
    ASSUME NEW S, NEW T, NEW f \in [S -> T],
           \A a, b \in S : f[a] = f[b] => a = b,
           \A t \in T : \E a \in S : f[a] = t
    PROVE  ExistsBijection(S, T)
  <1>1. f \in Bijection(S, T) BY DEF Bijection, Injection, Surjection, IsInjective
  <1> QED BY <1>1 DEF ExistsBijection

LEMMA LiveFinite ==
    ASSUME NEW ss
    PROVE  IsFiniteSet(LiveOf(ss)) /\ Cardinality(LiveOf(ss)) \in Nat
  <1>1. IsFiniteSet(Sessions)
    BY FS_Interval, ConstantsAssumption DEF Sessions
  <1>2. LiveOf(ss) \in SUBSET Sessions BY DEF LiveOf
  <1>3. IsFiniteSet(LiveOf(ss)) BY <1>1, <1>2, FS_Subset
  <1> QED BY <1>3, FS_CardinalityType

\* Posting anything but a start leaves the pending starts as they are.
LEMMA PostOther ==
    ASSUME NEW ss \in SessionsType, NEW p, NEW first \in Nat, NEW last \in Nat,
           NEW op \in SessionOp
    PROVE  /\ PostRange(p, ss, first, last, op) \in SessionsType
           /\ LiveOf(PostRange(p, ss, first, last, op)) = LiveOf(ss)
           /\ op # "start" => StartsOf(PostRange(p, ss, first, last, op)) = StartsOf(ss)
  <1> DEFINE tt == PostRange(p, ss, first, last, op)
  <1>1. CASE p.closed_ BY <1>1 DEF PostRange
  <1>2. CASE ~p.closed_
    <2>1. ASSUME NEW i \in Sessions
          PROVE  /\ tt[i] \in [posted : Seq(SessionOp), live_ : BOOLEAN]
                 /\ tt[i].live_ = ss[i].live_
                 /\ tt[i].posted \in {ss[i].posted, Append(ss[i].posted, op)}
      <3>1. ss[i] \in [posted : Seq(SessionOp), live_ : BOOLEAN] BY DEF SessionsType
      <3>2. Append(ss[i].posted, op) \in Seq(SessionOp) BY <3>1
      <3>3. tt[i] = IF first <= i /\ i < last
                    THEN [ss[i] EXCEPT !.posted = Append(ss[i].posted, op)] ELSE ss[i]
        BY <1>2 DEF PostRange
      <3>4. [ss[i] EXCEPT !.posted = Append(ss[i].posted, op)].posted = Append(ss[i].posted, op)
        BY <3>1
      <3> QED BY <3>1, <3>2, <3>3, <3>4
    <2>2. tt = [i \in Sessions |-> tt[i]] BY <1>2 DEF PostRange
    <2> HIDE DEF tt
    <2>3. tt \in SessionsType BY <2>1, <2>2 DEF SessionsType
    <2>4. LiveOf(tt) = LiveOf(ss) BY <2>1 DEF LiveOf
    <2>5. ASSUME op # "start" PROVE StartsOf(tt) = StartsOf(ss)
      <3>1. ASSUME NEW i \in Sessions, NEW j \in Nat
            PROVE  j \in DOMAIN tt[i].posted /\ tt[i].posted[j] = "start"
                     <=> j \in DOMAIN ss[i].posted /\ ss[i].posted[j] = "start"
        <4>1. ss[i].posted \in Seq(SessionOp) BY DEF SessionsType
        <4> QED BY <2>1, <2>5, <4>1
      <3> QED BY <3>1 DEF StartsOf
    <2> QED BY <2>3, <2>4, <2>5 DEF tt
  <1> QED BY <1>1, <1>2

\* start_sessions_range() posts one start to every session of its range.
LEMMA PostStarts ==
    ASSUME NEW ss \in SessionsType, IsFiniteSet(StartsOf(ss)), NEW p, ~p.closed_,
           NEW first \in Sessions, NEW last \in 1 .. NumSessions, first < last
    PROVE  LET tt == PostRange(p, ss, first, last, "start")
           IN  /\ IsFiniteSet(StartsOf(tt))
               /\ Cardinality(StartsOf(tt)) = Cardinality(StartsOf(ss)) + (last - first)
  <1> DEFINE tt == PostRange(p, ss, first, last, "start")
             rng == first .. last - 1
             f == [i \in rng |-> <<i, Len(ss[i].posted) + 1>>]
             new == {f[i] : i \in rng}
  <1>1. first \in Nat /\ last \in Nat /\ rng \subseteq Sessions
    BY ConstantsAssumption DEF Sessions
  <1>2. \A i \in Sessions : i \in rng <=> first <= i /\ i < last
    BY <1>1, ConstantsAssumption DEF Sessions
  <1>3. \A i \in Sessions : ss[i] \in [posted : Seq(SessionOp), live_ : BOOLEAN]
    BY DEF SessionsType
  <1>4. \A i \in Sessions : tt[i].posted =
           IF i \in rng THEN Append(ss[i].posted, "start") ELSE ss[i].posted
    BY <1>2, <1>3 DEF PostRange
  <1>5. \A i \in rng : Len(ss[i].posted) \in Nat
    BY <1>1, <1>3
  <1>6. IsFiniteSet(rng) /\ Cardinality(rng) = last - first
    <2>1. first \in Int /\ last - 1 \in Int /\ ~(first > last - 1) /\ last - 1 - first + 1 = last - first
      BY <1>1
    <2> QED BY <2>1, FS_Interval
  <1>7. ExistsBijection(rng, new)
    <2>1. f \in [rng -> new] OBVIOUS
    <2>2. \A i, j \in rng : f[i] = f[j] => i = j OBVIOUS
    <2>3. \A q \in new : \E i \in rng : f[i] = q OBVIOUS
    <2> HIDE DEF f, new, rng
    <2> QED BY <2>1, <2>2, <2>3, BijectionExists
  <1>8. IsFiniteSet(new) /\ Cardinality(new) = last - first
    BY <1>6, <1>7, FS_Bijection
  <1>9. StartsOf(tt) = StartsOf(ss) \cup new
    <2>1. ASSUME NEW i \in Sessions, NEW j \in Nat
          PROVE  <<i, j>> \in StartsOf(tt) <=> <<i, j>> \in StartsOf(ss) \cup new
      <3>1. <<i, j>> \in new <=> i \in rng /\ j = Len(ss[i].posted) + 1
        BY <1>1
      <3>2. ss[i].posted \in Seq(SessionOp) BY <1>3
      <3>3. j \in DOMAIN tt[i].posted /\ tt[i].posted[j] = "start"
              <=> \/ j \in DOMAIN ss[i].posted /\ ss[i].posted[j] = "start"
                  \/ i \in rng /\ j = Len(ss[i].posted) + 1
        <4>1. CASE i \in rng
          <5>1. tt[i].posted = Append(ss[i].posted, "start") BY <1>4, <4>1
          <5> HIDE DEF tt, rng
          <5> QED BY <3>2, <4>1, <5>1
        <4>2. CASE i \notin rng BY <1>4, <4>2
        <4> QED BY <4>1, <4>2
      <3> HIDE DEF tt, new, rng
      <3> QED BY <3>1, <3>3 DEF StartsOf
    <2>2. new \subseteq Sessions \X Nat BY <1>1, <1>5
    <2> HIDE DEF tt, new
    <2> QED BY <2>1, <2>2 DEF StartsOf
  <1>10. StartsOf(ss) \cap new = {}
    <2>1. ASSUME NEW i \in rng PROVE f[i] \notin StartsOf(ss)
      <3>1. ss[i].posted \in Seq(SessionOp) BY <1>1, <1>3
      <3>2. Len(ss[i].posted) + 1 \notin DOMAIN ss[i].posted BY <3>1
      <3> QED BY <3>2 DEF StartsOf
    <2> QED BY <2>1
  <1> HIDE DEF tt, new
  <1>11. /\ IsFiniteSet(StartsOf(ss) \cup new)
         /\ Cardinality(StartsOf(ss) \cup new) =
              Cardinality(StartsOf(ss)) + Cardinality(new) - Cardinality(StartsOf(ss) \cap new)
    BY <1>8, FS_Union
  <1>12. Cardinality(StartsOf(ss) \cap new) = 0 /\ Cardinality(StartsOf(ss)) \in Nat
    BY <1>10, FS_EmptySet, FS_CardinalityType
  <1>13. IsFiniteSet(StartsOf(tt))
         /\ Cardinality(StartsOf(tt)) = Cardinality(StartsOf(ss)) + (last - first)
    BY <1>1, <1>8, <1>9, <1>11, <1>12
  <1> QED BY <1>13 DEF tt

\* Running the oldest command of a strand: the places of that strand move by
\* one, and a start at its head is pending no longer.
LEMMA RunPosted ==
    ASSUME NEW ss \in SessionsType, IsFiniteSet(StartsOf(ss)), NEW i \in Sessions,
           ss[i].posted # <<>>, NEW s \in [posted : Seq(SessionOp), live_ : BOOLEAN],
           s.posted = Tail(ss[i].posted)
    PROVE  LET tt == [ss EXCEPT ![i] = s]
           IN  /\ tt \in SessionsType
               /\ IsFiniteSet(StartsOf(tt))
               /\ Cardinality(StartsOf(tt)) =
                     IF Head(ss[i].posted) = "start"
                     THEN Cardinality(StartsOf(ss)) - 1 ELSE Cardinality(StartsOf(ss))
               /\ Head(ss[i].posted) = "start" => Cardinality(StartsOf(ss)) > 0
  <1> DEFINE tt == [ss EXCEPT ![i] = s]
             rest == StartsOf(ss) \ {<<i, 1>>}
             g == [p \in rest |-> IF p[1] = i THEN <<i, p[2] - 1>> ELSE p]
  <1>1. tt \in SessionsType BY DEF SessionsType
  <1>2. /\ ss[i].posted \in Seq(SessionOp) /\ Len(ss[i].posted) \in Nat \ {0}
        /\ s.posted \in Seq(SessionOp) /\ Len(s.posted) = Len(ss[i].posted) - 1
        /\ \A j \in 1 .. Len(s.posted) : s.posted[j] = ss[i].posted[j + 1]
        /\ Head(ss[i].posted) = ss[i].posted[1]
    BY DEF SessionsType
  <1>3. /\ tt[i] = s
        /\ \A k \in Sessions \ {i} : tt[k] = ss[k]
    BY DEF SessionsType
  <1> HIDE DEF tt
  <1>4. \A j \in Nat : <<i, j>> \in StartsOf(tt) <=> j # 0 /\ <<i, j + 1>> \in StartsOf(ss)
    <2> TAKE j \in Nat
    <2>1. j \in DOMAIN s.posted <=> j # 0 /\ j + 1 \in DOMAIN ss[i].posted BY <1>2
    <2>2. j \in DOMAIN s.posted => s.posted[j] = ss[i].posted[j + 1] BY <1>2
    <2>3. <<i, j>> \in StartsOf(tt) <=> j \in DOMAIN s.posted /\ s.posted[j] = "start"
      BY <1>3 DEF StartsOf
    <2>4. j + 1 \in Nat OBVIOUS
    <2>5. <<i, j + 1>> \in StartsOf(ss) <=>
            j + 1 \in DOMAIN ss[i].posted /\ ss[i].posted[j + 1] = "start"
      BY <2>4 DEF StartsOf
    <2> QED BY <2>1, <2>2, <2>3, <2>5
  <1>5. \A k \in Sessions \ {i}, j \in Nat : <<k, j>> \in StartsOf(tt) <=> <<k, j>> \in StartsOf(ss)
    BY <1>3 DEF StartsOf
  <1>6. \A j \in Nat : <<i, j>> \in rest => j > 1 /\ <<i, j - 1>> \in StartsOf(tt)
    <2> TAKE j \in Nat
    <2>1. SUFFICES ASSUME <<i, j>> \in rest PROVE j > 1 /\ <<i, j - 1>> \in StartsOf(tt)
      OBVIOUS
    <2>2. j \in DOMAIN ss[i].posted /\ j # 1 /\ <<i, j>> \in StartsOf(ss) BY <2>1 DEF StartsOf
    <2>3. j > 1 /\ j - 1 \in Nat /\ (j - 1) + 1 = j BY <1>2, <2>2
    <2> QED BY <1>4, <2>2, <2>3
  <1>7. \A p \in rest : p \in Sessions \X Nat BY DEF StartsOf
  <1>8. ExistsBijection(rest, StartsOf(tt))
    <2>1. \A p \in rest : g[p] \in StartsOf(tt)
      <3> TAKE p \in rest
      <3>1. PICK k \in Sessions, j \in Nat : p = <<k, j>> BY <1>7
      <3> QED BY <1>5, <1>6, <3>1
    <2>2. \A p, q \in rest : g[p] = g[q] => p = q
      <3> SUFFICES ASSUME NEW p \in rest, NEW q \in rest, g[p] = g[q] PROVE p = q OBVIOUS
      <3>1. PICK k \in Sessions, j \in Nat : p = <<k, j>> BY <1>7
      <3>2. PICK l \in Sessions, m \in Nat : q = <<l, m>> BY <1>7
      <3>3. g[p] = IF k = i THEN <<i, j - 1>> ELSE <<k, j>> BY <3>1
      <3>4. g[q] = IF l = i THEN <<i, m - 1>> ELSE <<l, m>> BY <3>2
      <3> HIDE DEF g, rest
      <3> QED BY <3>1, <3>2, <3>3, <3>4
    <2>3. \A q \in StartsOf(tt) : \E p \in rest : g[p] = q
      <3> TAKE q \in StartsOf(tt)
      <3>1. PICK k \in Sessions, j \in Nat : q = <<k, j>> BY DEF StartsOf
      <3>2. CASE k # i
        <4>1. q \in rest BY <1>5, <3>1, <3>2
        <4> QED BY <3>1, <3>2, <4>1
      <3>3. CASE k = i
        <4>1. j # 0 /\ <<i, j + 1>> \in rest BY <1>4, <3>1, <3>3
        <4>2. g[<<i, j + 1>>] = <<i, (j + 1) - 1>> BY <4>1
        <4>3. (j + 1) - 1 = j OBVIOUS
        <4> QED BY <3>1, <3>3, <4>1, <4>2, <4>3
      <3> QED BY <3>2, <3>3
    <2>4. g \in [rest -> StartsOf(tt)] BY <2>1
    <2> HIDE DEF g, rest
    <2> QED BY <2>2, <2>3, <2>4, BijectionExists
  <1>9. /\ IsFiniteSet(rest)
        /\ Cardinality(rest) = IF <<i, 1>> \in StartsOf(ss) THEN Cardinality(StartsOf(ss)) - 1
                                                             ELSE Cardinality(StartsOf(ss))
    BY FS_RemoveElement
  <1>10. IsFiniteSet(StartsOf(tt)) /\ Cardinality(StartsOf(tt)) = Cardinality(rest)
    BY <1>8, <1>9, FS_Bijection
  <1>11. <<i, 1>> \in StartsOf(ss) <=> Head(ss[i].posted) = "start"
    BY <1>2 DEF StartsOf
  <1>12. Head(ss[i].posted) = "start" => Cardinality(StartsOf(ss)) > 0
    BY <1>11, FS_EmptySet, FS_CardinalityType
  <1> QED BY <1>1, <1>9, <1>10, <1>11, <1>12 DEF tt

\* Setting live_ of one session.
LEMMA LiveChange ==
    ASSUME NEW ss \in SessionsType, NEW i \in Sessions,
           NEW s \in [posted : Seq(SessionOp), live_ : BOOLEAN]
    PROVE  LET tt == [ss EXCEPT ![i] = s]
           IN  /\ s.live_ /\ ~ss[i].live_ =>
                    Cardinality(LiveOf(tt)) = Cardinality(LiveOf(ss)) + 1
               /\ ~s.live_ /\ ss[i].live_ =>
                    /\ Cardinality(LiveOf(tt)) = Cardinality(LiveOf(ss)) - 1
                    /\ Cardinality(LiveOf(ss)) > 0
               /\ s.live_ = ss[i].live_ => LiveOf(tt) = LiveOf(ss)
  <1> DEFINE tt == [ss EXCEPT ![i] = s]
  <1>1. tt[i] = s /\ \A k \in Sessions \ {i} : tt[k] = ss[k] BY DEF SessionsType
  <1> HIDE DEF tt
  <1>2. IsFiniteSet(LiveOf(ss)) /\ Cardinality(LiveOf(ss)) \in Nat BY LiveFinite
  <1>3. ASSUME s.live_, ~ss[i].live_
        PROVE  Cardinality(LiveOf(tt)) = Cardinality(LiveOf(ss)) + 1
    <2>1. LiveOf(tt) = LiveOf(ss) \cup {i} /\ i \notin LiveOf(ss) BY <1>1, <1>3 DEF LiveOf
    <2> QED BY <1>2, <2>1, FS_AddElement
  <1>4. ASSUME ~s.live_, ss[i].live_
        PROVE  Cardinality(LiveOf(tt)) = Cardinality(LiveOf(ss)) - 1 /\ Cardinality(LiveOf(ss)) > 0
    <2>1. LiveOf(tt) = LiveOf(ss) \ {i} /\ i \in LiveOf(ss) BY <1>1, <1>4 DEF LiveOf
    <2>2. Cardinality(LiveOf(tt)) = Cardinality(LiveOf(ss)) - 1
      BY <1>2, <2>1, FS_RemoveElement
    <2>3. Cardinality(LiveOf(ss)) # 0 BY <1>2, <2>1, FS_EmptySet
    <2> QED BY <1>2, <2>2, <2>3
  <1>5. s.live_ = ss[i].live_ => LiveOf(tt) = LiveOf(ss) BY <1>1 DEF LiveOf
  <1> QED BY <1>3, <1>4, <1>5 DEF tt

\* The invariant on the counter, in terms of the two sets.
LEMMA CountedIs ==
    ASSUME TypeOK
    PROVE  /\ Cardinality(LiveOf(sessions)) \in Nat
           /\ Counted <=>
                /\ IsFiniteSet(StartsOf(sessions))
                /\ pool.active_sessions_ =
                     Cardinality(StartsOf(sessions)) + Cardinality(LiveOf(sessions)) + hist.overlaps
           /\ Counted => Cardinality(StartsOf(sessions)) \in Nat
  <1>1. PendingStarts = StartsOf(sessions) /\ Live = LiveOf(sessions)
    BY PendingAre DEF TypeOK, SessionsType
  <1> QED
    BY <1>1, LiveFinite, FS_CardinalityType DEF Counted, ActiveSessionsExact

-----------------------------------------------------------------------------
(* The pool's callbacks. *)

CtxType == [work_guard_ : BOOLEAN, stopped : BOOLEAN,
            stop_timer_ : {"off", "armed", "expired", "cancelled"}]
PoolType == [sessions_ : Nat, active_sessions_ : Nat, closed_ : BOOLEAN]
HistType == [notified : Nat, overlaps : Nat, exits : Nat, threw : BOOLEAN]

SessionFlags == [Sessions -> BOOLEAN]
SessionCounts == [Sessions -> Nat]
ScriptType == [created : BOOLEAN, active : SessionFlags, stopped : SessionFlags,
               connects : SessionCounts, submitted : Nat, pulls : Nat]

LEMMA TypeParts ==
    TypeOK <=> /\ running_ \in BOOLEAN
               /\ thread \in {"none", "running", "exited"}
               /\ queue \in Seq(Handler)
               /\ ctx \in CtxType /\ pool \in PoolType /\ sessions \in SessionsType
               /\ script \in ScriptType /\ hist \in HistType
  BY DEF TypeOK, CtxType, PoolType, SessionsType, SessionFlags, SessionCounts, ScriptType, HistType

LEMMA TypePartsNext ==
    TypeOK' <=> /\ running_' \in BOOLEAN
                /\ thread' \in {"none", "running", "exited"}
                /\ queue' \in Seq(Handler)
                /\ ctx' \in CtxType /\ pool' \in PoolType /\ sessions' \in SessionsType
                /\ script' \in ScriptType /\ hist' \in HistType
  BY DEF TypeOK, CtxType, PoolType, SessionsType, SessionFlags, SessionCounts, ScriptType, HistType

LEMMA OnPoolClosedEffect ==
    ASSUME NEW c \in CtxType
    PROVE  /\ on_pool_closed(c) \in CtxType
           /\ ~on_pool_closed(c).work_guard_ /\ on_pool_closed(c).stop_timer_ # "armed"
           /\ on_pool_closed(c).stopped = c.stopped
           /\ on_pool_closed(c).stop_timer_ # "off" => c.stop_timer_ # "off"
  <1> DEFINE t == IF c.stop_timer_ = "armed" THEN "cancelled" ELSE c.stop_timer_
  <1>1. /\ t \in {"off", "armed", "expired", "cancelled"} /\ t # "armed"
        /\ t # "off" => c.stop_timer_ # "off"
    BY DEF CtxType
  <1>2. on_pool_closed(c) = [c EXCEPT !.stop_timer_ = t, !.work_guard_ = FALSE]
    BY DEF on_pool_closed
  <1> HIDE DEF t
  <1> QED BY <1>1, <1>2 DEF CtxType

\* disconnect_callback() takes one session off the count and reports the last.
LEMMA DisconnectEffect ==
    ASSUME IInv, InRun, NEW h \in HistType, h.notified = hist.notified,
           pool.active_sessions_ > 0, disconnect_callback(h), thread' = thread
    PROVE  /\ pool' \in PoolType /\ ctx' \in CtxType /\ hist' \in HistType
           /\ pool'.active_sessions_ = pool.active_sessions_ - 1
           /\ pool'.closed_ = pool.closed_
           /\ ctx'.stopped = ctx.stopped
           /\ ctx'.stop_timer_ # "off" => ctx.stop_timer_ # "off"
           /\ hist'.overlaps = h.overlaps
           /\ Reported'
  <1> DEFINE last == pool.active_sessions_ - 1 = 0 /\ pool.closed_
             n == IF last THEN h.notified + 1 ELSE h.notified
  <1>0. pool \in PoolType /\ ctx \in CtxType /\ hist \in HistType
    BY DEF IInv, TypeOK, PoolType, CtxType, HistType
  <1>1. /\ pool' = [pool EXCEPT !.active_sessions_ = pool.active_sessions_ - 1]
        /\ ctx' = IF last THEN on_pool_closed(ctx) ELSE ctx
        /\ hist' = [h EXCEPT !.notified = n]
    BY DEF disconnect_callback, NotifyIf
  <1>2. n \in Nat /\ (last => n = h.notified + 1) /\ (~last => n = h.notified)
    BY DEF HistType
  <1>3. pool.active_sessions_ - 1 \in Nat BY <1>0 DEF PoolType
  <1>4. /\ pool' \in PoolType /\ pool'.active_sessions_ = pool.active_sessions_ - 1
        /\ pool'.closed_ = pool.closed_
    BY <1>0, <1>1, <1>3 DEF PoolType
  <1>5. last <=> pool'.closed_ /\ pool'.active_sessions_ = 0 BY <1>4
  <1> HIDE DEF last, n
  <1>6. hist' \in HistType /\ hist'.overlaps = h.overlaps /\ hist'.notified = n
    BY <1>1, <1>2 DEF HistType
  <1>7. /\ ctx' \in CtxType /\ ctx'.stopped = ctx.stopped
        /\ ctx'.stop_timer_ # "off" => ctx.stop_timer_ # "off"
        /\ last => ~ctx'.work_guard_ /\ ctx'.stop_timer_ # "armed"
        /\ ~last => ctx' = ctx
    BY <1>0, <1>1, OnPoolClosedEffect
  <1>8. hist.notified = 0 BY <1>0 DEF IInv, Reported
  <1>9. Reported'
    BY <1>2, <1>5, <1>6, <1>7, <1>8 DEF IInv, Reported, InRun
  <1> QED BY <1>4, <1>6, <1>7, <1>9

-----------------------------------------------------------------------------
(* The queue of cntx_. *)

LEMMA QueueAppended ==
    ASSUME TypeOK, QueueOk, NEW h \in Handler, queue' = Append(queue, h),
           h.kind = "action" => WellFormed(h.action),
           h.kind = "shutdown" => running_ /\ ~running_' /\ ~pool.closed_,
           ~running_ => ~running_', pool' = pool
    PROVE  queue' \in Seq(Handler) /\ QueueOk'
  <1>1. /\ queue' \in Seq(Handler)
        /\ DOMAIN queue' = DOMAIN queue \cup {Len(queue) + 1}
        /\ Len(queue) + 1 \notin DOMAIN queue
        /\ queue'[Len(queue) + 1] = h
        /\ \A k \in DOMAIN queue : queue'[k] = queue[k]
    BY DEF TypeOK
  <1>2. \A k \in DOMAIN queue' : queue'[k].kind = "action" => WellFormed(queue'[k].action)
    BY <1>1 DEF QueueOk
  <1>3. \A k \in DOMAIN queue' : queue'[k].kind = "shutdown" => ~running_' /\ ~pool'.closed_
    BY <1>1 DEF QueueOk
  <1>4. \A k, l \in DOMAIN queue' :
          queue'[k].kind = "shutdown" /\ queue'[l].kind = "shutdown" => k = l
    BY <1>1 DEF QueueOk
  <1> QED BY <1>1, <1>2, <1>3, <1>4 DEF QueueOk, WellFormed

LEMMA QueueShifted ==
    ASSUME TypeOK, QueueOk, NEW kind, RunNext(kind), running_' = running_,
           kind # "shutdown" => pool'.closed_ = pool.closed_
    PROVE  /\ queue' \in Seq(Handler) /\ QueueOk'
           /\ kind = "action" => WellFormed(Head(queue).action)
           /\ kind = "shutdown" => ~running_ /\ ~pool.closed_
           /\ thread = "running" /\ ~ctx.stopped
  <1>1. /\ queue \in Seq(Handler) /\ queue # <<>> /\ Head(queue).kind = kind
        /\ queue' = Tail(queue) /\ thread = "running" /\ ~ctx.stopped
    BY DEF RunNext, TypeOK, InRun
  <1>2. /\ queue' \in Seq(Handler) /\ 1 \in DOMAIN queue /\ Head(queue) = queue[1]
        /\ \A k \in DOMAIN queue' : /\ k \in Nat \ {0} /\ k + 1 \in DOMAIN queue
                                     /\ queue'[k] = queue[k + 1]
    BY <1>1
  <1>3. /\ kind = "action" => WellFormed(Head(queue).action)
        /\ kind = "shutdown" => ~running_ /\ ~pool.closed_
    BY <1>1, <1>2 DEF QueueOk
  <1>4. \A k \in DOMAIN queue' : queue'[k].kind = "action" => WellFormed(queue'[k].action)
    BY <1>2 DEF QueueOk
  <1>5. kind = "shutdown" => \A k \in DOMAIN queue' : queue'[k].kind # "shutdown"
    <2> SUFFICES ASSUME kind = "shutdown", NEW k \in DOMAIN queue', queue'[k].kind = "shutdown"
                 PROVE  FALSE
      OBVIOUS
    <2>1. queue[1].kind = "shutdown" /\ queue[k + 1].kind = "shutdown" /\ k + 1 \in DOMAIN queue
      BY <1>1, <1>2
    <2>2. 1 = k + 1 BY <1>2, <2>1 DEF QueueOk
    <2> QED BY <1>2, <2>2
  <1>6. \A k \in DOMAIN queue' : queue'[k].kind = "shutdown" => ~running_' /\ ~pool'.closed_
    BY <1>2, <1>5 DEF QueueOk
  <1>7. \A k, l \in DOMAIN queue' :
          queue'[k].kind = "shutdown" /\ queue'[l].kind = "shutdown" => k = l
    <2> SUFFICES ASSUME NEW k \in DOMAIN queue', NEW l \in DOMAIN queue',
                        queue'[k].kind = "shutdown", queue'[l].kind = "shutdown"
                 PROVE  k = l
      OBVIOUS
    <2>1. k + 1 = l + 1 BY <1>2 DEF QueueOk
    <2> QED BY <1>2, <2>1
  <1> QED BY <1>1, <1>2, <1>3, <1>4, <1>6, <1>7 DEF QueueOk, WellFormed

-----------------------------------------------------------------------------
(* Init and the steps of the orchestrator's thread. *)

LEMMA InitHolds == Init => IInv
  <1> SUFFICES ASSUME Init PROVE IInv OBVIOUS
  <1>1. TypeOK
    <2>1. sessions \in SessionsType BY DEF Init, SessionsType
    <2>2. script \in ScriptType
      <3>1. /\ [i \in Sessions |-> FALSE] \in SessionFlags
            /\ [i \in Sessions |-> 0] \in SessionCounts
        BY DEF SessionFlags, SessionCounts
      <3> QED BY <3>1 DEF Init, ScriptType
    <2>3. ctx \in CtxType /\ pool \in PoolType /\ hist \in HistType
      BY DEF Init, CtxType, PoolType, HistType
    <2>4. /\ running_ \in BOOLEAN /\ thread \in {"none", "running", "exited"}
      BY DEF Init
    <2>5. queue \in Seq(Handler)
      <3>1. queue = <<>> BY DEF Init
      <3> QED BY <3>1
    <2> QED BY <2>1, <2>2, <2>3, <2>4, <2>5, TypeParts
  <1>2. QueueOk BY DEF Init, QueueOk
  <1>3. Phases BY DEF Init, Phases
  <1>4. StartsOf(sessions) = {} /\ LiveOf(sessions) = {}
    BY DEF Init, StartsOf, LiveOf
  <1>5. Counted
    <2>1. IsFiniteSet({}) /\ Cardinality({}) = 0 BY FS_EmptySet
    <2>2. pool.active_sessions_ = 0 /\ hist.overlaps = 0 BY DEF Init
    <2> QED BY <1>1, <1>4, <2>1, <2>2, CountedIs
  <1>6. Reported BY DEF Init, Reported
  <1> QED BY <1>1, <1>2, <1>3, <1>5, <1>6 DEF IInv

\* Steps that leave the pool and its sessions alone.
LEMMA CountedKept ==
    ASSUME Counted, pool'.active_sessions_ = pool.active_sessions_, sessions' = sessions,
           hist'.overlaps = hist.overlaps
    PROVE  Counted'
  BY DEF Counted, ActiveSessionsExact, PendingStarts, Live

LEMMA StartKeeps == ASSUME IInv, start PROVE IInv'
  <1>1. TypeOK' BY DEF IInv, TypeOK, start
  <1>2. QueueOk' BY DEF IInv, Phases, QueueOk, start
  <1>3. Phases' BY DEF IInv, Phases, start
  <1>4. Counted' BY CountedKept DEF IInv, start
  <1>5. Reported' BY DEF IInv, Reported, start
  <1> QED BY <1>1, <1>2, <1>3, <1>4, <1>5 DEF IInv

LEMMA ScriptTypes ==
    ASSUME TypeOK
    PROVE  /\ SubmitCreate => script' \in ScriptType
           /\ SubmitAction => script' \in ScriptType
  <1>0. script \in ScriptType BY TypeParts
  <1>1. SubmitCreate => script' \in ScriptType BY <1>0 DEF SubmitCreate, ScriptType
  <1>2. ASSUME SubmitAction PROVE script' \in ScriptType
    <2>1. PICK type \in ActionTypes, first \in Sessions, last \in 1 .. NumSessions :
            Remember([type |-> type, sessions_start |-> first, sessions_end |-> last])
      BY <1>2 DEF SubmitAction
    <2> DEFINE action == [type |-> type, sessions_start |-> first, sessions_end |-> last]
               hit(i, t) == action.type = t /\ i \in Covered(action)
               a == [i \in Sessions |-> (script.active[i] \/ hit(i, "CONNECT")) /\ ~hit(i, "DRAIN")]
               c == [i \in Sessions |-> IF hit(i, "CONNECT") THEN script.connects[i] + 1
                                                            ELSE script.connects[i]]
               s == [i \in Sessions |-> script.stopped[i] \/ hit(i, "DISCONNECT")]
    <2>2. script' = [script EXCEPT !.active = a, !.connects = c, !.stopped = s,
                                   !.submitted = @ + 1]
      BY <2>1, Zenon DEF Remember
    <2>3. a \in SessionFlags /\ s \in SessionFlags BY DEF SessionFlags
    <2>4. c \in SessionCounts
      <3>1. \A i \in Sessions : script.connects[i] \in Nat
        BY <1>0 DEF ScriptType, SessionCounts
      <3> QED BY <3>1 DEF SessionCounts
    <2> HIDE DEF a, c, s, action, hit
    <2>5. script' = [created |-> script.created, active |-> a, stopped |-> s, connects |-> c,
                     submitted |-> script.submitted + 1, pulls |-> script.pulls]
      BY <1>0, <2>2 DEF ScriptType
    <2>6. script.created \in BOOLEAN /\ script.submitted + 1 \in Nat /\ script.pulls \in Nat
      BY <1>0 DEF ScriptType
    <2> QED BY <2>3, <2>4, <2>5, <2>6 DEF ScriptType
  <1> QED BY <1>1, <1>2

LEMMA SubmitKeeps ==
    ASSUME IInv, NEW a, WellFormed(a), submit_work(a), SubmitCreate \/ SubmitAction
    PROVE  IInv'
  <1> DEFINE h == [kind |-> "action", action |-> a]
  <1>1. h \in Handler BY DEF Handler, WellFormed
  <1>2. queue' \in Seq(Handler) /\ QueueOk'
    BY <1>1, QueueAppended DEF IInv, submit_work
  <1>3. TypeOK' BY <1>2, ScriptTypes, TypeParts, TypePartsNext DEF IInv, submit_work
  <1>4. Phases' BY DEF IInv, Phases, submit_work
  <1>5. Counted' BY CountedKept DEF IInv, submit_work
  <1>6. Reported' BY DEF IInv, Reported, submit_work
  <1> QED BY <1>2, <1>3, <1>4, <1>5, <1>6 DEF IInv

LEMMA OwnerKeeps == ASSUME IInv, Owner PROVE IInv'
  <1>1. CASE start BY <1>1, StartKeeps
  <1>2. CASE SubmitCreate
    <2> DEFINE a == [type |-> "CREATE", sessions_start |-> 0, sessions_end |-> NumSessions]
    <2>1. WellFormed(a) BY ConstantsAssumption DEF WellFormed, Action, Sessions
    <2>2. submit_work(a) BY <1>2 DEF SubmitCreate
    <2> HIDE DEF a
    <2> QED BY <1>2, <2>1, <2>2, SubmitKeeps
  <1>3. CASE SubmitAction
    <2>1. PICK type \in ActionTypes, first \in Sessions, last \in 1 .. NumSessions :
            first < last /\ submit_work([type |-> type, sessions_start |-> first,
                                         sessions_end |-> last])
      BY <1>3 DEF SubmitAction
    <2> DEFINE a == [type |-> type, sessions_start |-> first, sessions_end |-> last]
    <2>2. WellFormed(a) BY <2>1, ConstantsAssumption DEF WellFormed, Action, Sessions
    <2> HIDE DEF a
    <2> QED BY <1>3, <2>1, <2>2, SubmitKeeps DEF a
  <1>4. CASE schedule_metrics_pull
    <2> DEFINE h == [kind |-> "metrics"]
    <2>1. h \in Handler BY DEF Handler
    <2>2. queue' \in Seq(Handler) /\ QueueOk'
      BY <1>4, <2>1, QueueAppended DEF IInv, schedule_metrics_pull
    <2>3. TypeOK'
      <3>1. script' \in ScriptType
        BY <1>4, TypeParts DEF IInv, schedule_metrics_pull, ScriptType
      <3> QED BY <1>4, <2>2, <3>1, TypeParts, TypePartsNext DEF IInv, schedule_metrics_pull
    <2>4. Phases' BY <1>4 DEF IInv, Phases, schedule_metrics_pull
    <2>5. Counted' BY <1>4, CountedKept DEF IInv, schedule_metrics_pull
    <2>6. Reported' BY <1>4 DEF IInv, Reported, schedule_metrics_pull
    <2> QED BY <2>2, <2>3, <2>4, <2>5, <2>6 DEF IInv
  <1>5. CASE stop
    <2> DEFINE h == [kind |-> "shutdown"]
    <2>1. h \in Handler BY DEF Handler
    <2>2. queue' \in Seq(Handler) /\ QueueOk'
      BY <1>5, <2>1, QueueAppended DEF IInv, Phases, stop
    <2>3. TypeOK' BY <1>5, <2>2 DEF IInv, TypeOK, stop
    <2>4. Phases' BY <1>5 DEF IInv, Phases, stop
    <2>5. Counted' BY <1>5, CountedKept DEF IInv, stop
    <2>6. Reported' BY <1>5 DEF IInv, Reported, stop
    <2> QED BY <2>2, <2>3, <2>4, <2>5, <2>6 DEF IInv
  <1> QED BY <1>1, <1>2, <1>3, <1>4, <1>5 DEF Owner

-----------------------------------------------------------------------------
(* The steps of the shard's thread. *)

\* What CREATE, CONNECT and the other actions do to the pool and the strands.
LEMMA ActionEffect ==
    ASSUME IInv, handle_action
    PROVE  /\ pool' \in PoolType /\ sessions' \in SessionsType
           /\ pool'.closed_ = pool.closed_
           /\ pool.closed_ => pool'.active_sessions_ = pool.active_sessions_
           /\ IsFiniteSet(StartsOf(sessions'))
           /\ pool'.active_sessions_ = Cardinality(StartsOf(sessions'))
                + Cardinality(LiveOf(sessions')) + hist.overlaps
  <1> DEFINE a == Head(queue).action
  <1>1. WellFormed(a)
    <2>1. RunNext("action") /\ running_' = running_ BY DEF handle_action, owned
    <2>2. TypeOK /\ QueueOk BY DEF IInv
    <2>3. queue # <<>> /\ Head(queue).kind = "action" /\ queue \in Seq(Handler)
      BY <2>1, <2>2 DEF RunNext, TypeOK
    <2>4. 1 \in DOMAIN queue /\ Head(queue) = queue[1] BY <2>3
    <2> QED BY <2>2, <2>3, <2>4 DEF QueueOk
  <1>2. /\ pool' = CASE a.type = "CREATE" ->
                         create_sessions(pool, a.sessions_end - a.sessions_start)
                    [] a.type = "CONNECT" ->
                         CountStarts(pool, a.sessions_start, a.sessions_end)
                    [] OTHER -> pool
        /\ sessions' = IF a.type = "CREATE" THEN sessions
                       ELSE PostRange(pool, sessions, a.sessions_start, a.sessions_end,
                                      OpOf(a.type))
    BY DEF handle_action
  <1> HIDE DEF a
  <1>3. /\ pool \in PoolType /\ sessions \in SessionsType /\ hist \in HistType
        /\ hist.overlaps \in Nat /\ pool.active_sessions_ \in Nat
    BY TypeParts DEF IInv, HistType, PoolType
  <1>4. /\ IsFiniteSet(StartsOf(sessions))
        /\ pool.active_sessions_ = Cardinality(StartsOf(sessions))
             + Cardinality(LiveOf(sessions)) + hist.overlaps
        /\ Cardinality(StartsOf(sessions)) \in Nat /\ Cardinality(LiveOf(sessions)) \in Nat
    BY CountedIs DEF IInv
  <1>5. /\ a.sessions_start \in Sessions /\ a.sessions_end \in 1 .. NumSessions
        /\ a.sessions_start \in Nat /\ a.sessions_end \in Nat
        /\ a.sessions_start < a.sessions_end /\ a.sessions_end - a.sessions_start \in Nat
        /\ a.type \in {"CREATE", "CONNECT", "SEND", "FLOOD", "DRAIN", "DISCONNECT"}
    BY <1>1 DEF WellFormed, Action
  <1>6. CASE a.type = "CREATE"
    <2>1. pool' = create_sessions(pool, a.sessions_end - a.sessions_start) /\ sessions' = sessions
      BY <1>2, <1>6
    <2>2. /\ pool' \in PoolType /\ pool'.closed_ = pool.closed_
          /\ pool'.active_sessions_ = pool.active_sessions_
      BY <1>3, <1>5, <2>1 DEF create_sessions, PoolType
    <2> QED BY <1>3, <1>4, <2>1, <2>2
  <1>7. CASE a.type = "CONNECT"
    <2>1. /\ pool' = CountStarts(pool, a.sessions_start, a.sessions_end)
          /\ sessions' = PostRange(pool, sessions, a.sessions_start, a.sessions_end, "start")
      BY <1>2, <1>7 DEF OpOf
    <2>2. CASE pool.closed_
      <3>1. pool' = pool /\ sessions' = sessions BY <2>1, <2>2 DEF CountStarts, PostRange
      <3> QED BY <1>3, <1>4, <3>1
    <2>3. CASE ~pool.closed_
      <3>1. /\ pool' \in PoolType /\ pool'.closed_ = pool.closed_
            /\ pool'.active_sessions_ =
                 pool.active_sessions_ + (a.sessions_end - a.sessions_start)
        BY <1>3, <1>5, <2>1, <2>3 DEF CountStarts, PoolType
      <3>2. sessions' \in SessionsType /\ LiveOf(sessions') = LiveOf(sessions)
        BY <1>3, <1>5, <2>1, PostOther DEF SessionOp
      <3>3. /\ IsFiniteSet(StartsOf(sessions'))
            /\ Cardinality(StartsOf(sessions')) =
                 Cardinality(StartsOf(sessions)) + (a.sessions_end - a.sessions_start)
        BY <1>3, <1>4, <1>5, <2>1, <2>3, PostStarts
      <3> QED BY <1>3, <1>4, <1>5, <2>3, <3>1, <3>2, <3>3
    <2> QED BY <2>2, <2>3
  <1>8. CASE a.type \notin {"CREATE", "CONNECT"}
    <2>1. OpOf(a.type) \in SessionOp /\ OpOf(a.type) # "start"
      BY <1>5, <1>8 DEF OpOf, SessionOp
    <2>2. /\ pool' = pool
          /\ sessions' = PostRange(pool, sessions, a.sessions_start, a.sessions_end, OpOf(a.type))
      BY <1>2, <1>8
    <2>3. /\ sessions' \in SessionsType /\ LiveOf(sessions') = LiveOf(sessions)
          /\ StartsOf(sessions') = StartsOf(sessions)
      BY <1>3, <1>5, <2>1, <2>2, PostOther
    <2> QED BY <1>3, <1>4, <2>2, <2>3
  <1> QED BY <1>6, <1>7, <1>8

\* Counted, in the next state.
LEMMA CountedNext ==
    ASSUME TypeOK', IsFiniteSet(StartsOf(sessions')),
           pool'.active_sessions_ = Cardinality(StartsOf(sessions'))
              + Cardinality(LiveOf(sessions')) + hist'.overlaps
    PROVE  Counted'
  <1>1. (TypeOK => (Counted <=>
                /\ IsFiniteSet(StartsOf(sessions))
                /\ pool.active_sessions_ =
                     Cardinality(StartsOf(sessions)) + Cardinality(LiveOf(sessions)) + hist.overlaps))'
    BY CountedIs, PTL
  <1> QED BY <1>1 DEF StartsOf, LiveOf

LEMMA HandleActionKeeps == ASSUME IInv, handle_action PROVE IInv'
  <1>1. /\ RunNext("action") /\ running_' = running_ /\ thread' = thread /\ script' = script
        /\ ctx' = ctx /\ hist' = hist
    BY DEF handle_action, owned
  <1>2. /\ queue' \in Seq(Handler) /\ QueueOk'
        /\ thread = "running" /\ ~ctx.stopped
    BY <1>1, QueueShifted, ActionEffect DEF IInv
  <1>3. TypeOK' BY <1>1, <1>2, ActionEffect, TypeParts, TypePartsNext DEF IInv
  <1>4. Phases' BY <1>1, <1>2, ActionEffect DEF IInv, Phases
  <1>5. Counted' BY <1>1, <1>3, ActionEffect, CountedNext
  <1>6. Reported' BY <1>1, <1>2, ActionEffect DEF IInv, Reported
  <1> QED BY <1>2, <1>3, <1>4, <1>5, <1>6 DEF IInv

LEMMA MetricsKeeps == ASSUME IInv, RunMetricsPull PROVE IInv'
  <1>1. /\ RunNext("metrics") /\ running_' = running_ /\ thread' = thread /\ script' = script
        /\ ctx' = ctx /\ hist' = hist /\ pool' = pool /\ sessions' = sessions
    BY DEF RunMetricsPull, owned
  <1>2. /\ queue' \in Seq(Handler) /\ QueueOk'
        /\ thread = "running" /\ ~ctx.stopped
    BY <1>1, QueueShifted DEF IInv
  <1>3. TypeOK' BY <1>1, <1>2, TypeParts, TypePartsNext DEF IInv
  <1>4. Phases' BY <1>1, <1>2 DEF IInv, Phases
  <1>5. Counted' BY <1>1, CountedKept DEF IInv
  <1>6. Reported' BY <1>1 DEF IInv, Reported
  <1> QED BY <1>2, <1>3, <1>4, <1>5, <1>6 DEF IInv

LEMMA ShutdownKeeps == ASSUME IInv, shutdown PROVE IInv'
  <1> DEFINE armed == start_force_stop_timer(ctx)
             p == [pool EXCEPT !.closed_ = TRUE]
  <1>1. RunNext("shutdown") /\ running_' = running_ /\ thread' = thread /\ script' = script
    BY DEF shutdown, owned
  <1>2. /\ queue' \in Seq(Handler) /\ QueueOk' /\ ~running_ /\ ~pool.closed_
        /\ thread = "running" /\ ~ctx.stopped
    BY <1>1, QueueShifted DEF IInv
  <1>3. /\ pool' = p /\ sessions' = PostRange(p, sessions, 0, p.sessions_, "stop")
        /\ NotifyIf(p.active_sessions_ = 0, armed, hist)
    BY <1>2 DEF shutdown, stop_all_sessions
  <1>4. /\ pool \in PoolType /\ ctx \in CtxType /\ hist \in HistType
        /\ sessions \in SessionsType /\ script \in ScriptType
    BY TypeParts DEF IInv
  <1>5. /\ p \in PoolType /\ p.closed_ /\ p.active_sessions_ = pool.active_sessions_
        /\ p.sessions_ \in Nat /\ p.active_sessions_ \in Nat
    BY <1>4 DEF PoolType
  <1>6. armed \in CtxType /\ armed.stopped = ctx.stopped /\ armed.stop_timer_ = "armed"
        /\ armed.work_guard_ = ctx.work_guard_
    BY <1>4 DEF CtxType, start_force_stop_timer
  <1> HIDE DEF p, armed
  <1>7. /\ sessions' \in SessionsType /\ LiveOf(sessions') = LiveOf(sessions)
        /\ StartsOf(sessions') = StartsOf(sessions)
    BY <1>3, <1>4, <1>5, PostOther DEF SessionOp
  <1>8. /\ ctx' \in CtxType /\ ctx'.stopped = ctx.stopped
        /\ p.active_sessions_ = 0 => ~ctx'.work_guard_ /\ ctx'.stop_timer_ # "armed"
        /\ p.active_sessions_ # 0 => ctx' = armed
    BY <1>3, <1>6, OnPoolClosedEffect DEF NotifyIf
  <1>9. /\ hist' \in HistType /\ hist'.overlaps = hist.overlaps
        /\ hist'.notified = IF p.active_sessions_ = 0 THEN hist.notified + 1 ELSE hist.notified
    BY <1>3, <1>4 DEF NotifyIf, HistType
  <1>10. TypeOK' BY <1>1, <1>2, <1>3, <1>4, <1>5, <1>7, <1>8, <1>9, TypeParts, TypePartsNext DEF IInv
  <1>11. Phases' BY <1>1, <1>2, <1>3, <1>5 DEF Phases
  <1>12. Counted'
    BY <1>3, <1>5, <1>7, <1>9, <1>10, CountedIs, CountedNext DEF IInv
  <1>13. hist.notified = 0 /\ ctx.work_guard_ BY <1>2, <1>4 DEF IInv, Reported
  <1>14. Reported'
    <2>1. CASE p.active_sessions_ = 0
      <3>1. hist'.notified = 1 /\ ~ctx'.work_guard_ /\ ctx'.stop_timer_ # "armed"
        BY <1>8, <1>9, <1>13, <2>1
      <3> QED BY <1>3, <1>5, <2>1, <3>1 DEF Reported
    <2>2. CASE p.active_sessions_ # 0
      <3>1. hist'.notified = 0 /\ ctx'.work_guard_ /\ thread' = "running"
        BY <1>1, <1>2, <1>6, <1>8, <1>9, <1>13, <2>2
      <3> QED BY <1>3, <1>5, <2>2, <3>1 DEF Reported
    <2> QED BY <2>1, <2>2
  <1> QED BY <1>2, <1>10, <1>11, <1>12, <1>14 DEF IInv

\* What a step that calls disconnect_callback() keeps, once the sets are known.
LEMMA DisconnectKeeps ==
    ASSUME IInv, InRun, NEW h \in HistType, h.notified = hist.notified,
           disconnect_callback(h), UNCHANGED <<owned, queue>>,
           sessions' \in SessionsType, IsFiniteSet(StartsOf(sessions')),
           Cardinality(StartsOf(sessions')) \in Nat, Cardinality(LiveOf(sessions')) \in Nat,
           pool.active_sessions_ - 1 = Cardinality(StartsOf(sessions'))
              + Cardinality(LiveOf(sessions')) + h.overlaps
    PROVE  IInv'
  <1>1. running_' = running_ /\ thread' = thread /\ script' = script /\ queue' = queue
    BY DEF owned
  <1>2. pool.active_sessions_ \in Nat /\ h.overlaps \in Nat
    BY TypeParts DEF IInv, PoolType, HistType
  <1>3. pool.active_sessions_ > 0 BY <1>2
  <1>4. /\ pool' \in PoolType /\ ctx' \in CtxType /\ hist' \in HistType
        /\ pool'.active_sessions_ = pool.active_sessions_ - 1
        /\ pool'.closed_ = pool.closed_
        /\ ctx'.stopped = ctx.stopped
        /\ ctx'.stop_timer_ # "off" => ctx.stop_timer_ # "off"
        /\ hist'.overlaps = h.overlaps
        /\ Reported'
    BY <1>1, <1>3, DisconnectEffect
  <1>5. TypeOK' BY <1>1, <1>4, TypeParts, TypePartsNext DEF IInv
  <1>6. QueueOk' BY <1>1, <1>4 DEF IInv, QueueOk, WellFormed
  <1>7. Phases' BY <1>1, <1>4 DEF IInv, Phases, InRun
  <1>8. Counted' BY <1>4, <1>5, CountedNext
  <1> QED BY <1>4, <1>5, <1>6, <1>7, <1>8 DEF IInv

\* The same for a step that does not call it.
LEMMA QuietKeeps ==
    ASSUME IInv, UNCHANGED <<owned, queue, pool, ctx>>,
           hist' \in HistType, hist'.notified = hist.notified,
           sessions' \in SessionsType, IsFiniteSet(StartsOf(sessions')),
           pool.active_sessions_ = Cardinality(StartsOf(sessions'))
              + Cardinality(LiveOf(sessions')) + hist'.overlaps
    PROVE  IInv'
  <1>1. /\ running_' = running_ /\ thread' = thread /\ script' = script /\ queue' = queue
        /\ pool' = pool /\ ctx' = ctx
    BY DEF owned
  <1>2. TypeOK' BY <1>1, TypeParts, TypePartsNext DEF IInv
  <1>3. QueueOk' BY <1>1 DEF IInv, QueueOk, WellFormed
  <1>4. Phases' BY <1>1 DEF IInv, Phases
  <1>5. Counted' BY <1>1, <1>2, CountedNext
  <1>6. Reported' BY <1>1 DEF IInv, Reported
  <1> QED BY <1>2, <1>3, <1>4, <1>5, <1>6 DEF IInv

LEMMA RunSessionCommandKeeps ==
    ASSUME IInv, NEW i \in Sessions, RunSessionCommand(i) PROVE IInv'
  <1> DEFINE op == Head(sessions[i].posted)
             s == [sessions[i] EXCEPT !.posted = Tail(@)]
             n == IF sessions[i].live_ THEN hist.overlaps + 1 ELSE hist.overlaps
             started == [hist EXCEPT !.overlaps = n]
             up == [s EXCEPT !.live_ = TRUE]
             down == [s EXCEPT !.live_ = FALSE]
  <1>1. /\ pool \in PoolType /\ sessions \in SessionsType /\ hist \in HistType
        /\ hist.overlaps \in Nat /\ pool.active_sessions_ \in Nat
    BY TypeParts DEF IInv, HistType, PoolType
  <1>2. /\ IsFiniteSet(StartsOf(sessions))
        /\ pool.active_sessions_ = Cardinality(StartsOf(sessions))
             + Cardinality(LiveOf(sessions)) + hist.overlaps
        /\ Cardinality(StartsOf(sessions)) \in Nat /\ Cardinality(LiveOf(sessions)) \in Nat
    BY CountedIs DEF IInv
  <1>3. /\ InRun /\ UNCHANGED <<owned, queue>> /\ sessions[i].posted # <<>>
        /\ sessions[i].posted \in Seq(SessionOp) /\ sessions[i].live_ \in BOOLEAN
        /\ sessions[i] \in [posted : Seq(SessionOp), live_ : BOOLEAN]
    BY <1>1 DEF RunSessionCommand, SessionsType
  <1>4. /\ Tail(sessions[i].posted) \in Seq(SessionOp)
    BY <1>3
  <1>5. /\ s \in [posted : Seq(SessionOp), live_ : BOOLEAN]
        /\ s.posted = Tail(sessions[i].posted) /\ s.live_ = sessions[i].live_
    BY <1>3, <1>4
  <1>6. /\ \/ op = "start" /\ sessions' = [sessions EXCEPT ![i] = up]
              /\ hist' = started /\ UNCHANGED <<pool, ctx>>
           \/ op = "start" /\ sessions' = [sessions EXCEPT ![i] = down]
              /\ disconnect_callback(started)
           \/ op \in {"drain", "stop"} /\ sessions[i].live_
              /\ sessions' = [sessions EXCEPT ![i] = down]
              /\ disconnect_callback(hist)
           \/ op # "start" /\ sessions' = [sessions EXCEPT ![i] = s]
              /\ UNCHANGED <<pool, ctx, hist>>
    BY <1>5 DEF RunSessionCommand
  <1>7. /\ n \in Nat /\ (sessions[i].live_ => n = hist.overlaps + 1)
        /\ (~sessions[i].live_ => n = hist.overlaps)
    BY <1>1
  <1> HIDE DEF n, s
  <1>8. /\ started \in HistType /\ started.notified = hist.notified /\ started.overlaps = n
    BY <1>1, <1>7 DEF HistType
  <1>9. /\ up \in [posted : Seq(SessionOp), live_ : BOOLEAN]
        /\ up.posted = Tail(sessions[i].posted) /\ up.live_
        /\ down \in [posted : Seq(SessionOp), live_ : BOOLEAN]
        /\ down.posted = Tail(sessions[i].posted) /\ ~down.live_
    BY <1>5
  <1> HIDE DEF op, started, up, down
  <1>10. ASSUME NEW t \in [posted : Seq(SessionOp), live_ : BOOLEAN],
                t.posted = Tail(sessions[i].posted), sessions' = [sessions EXCEPT ![i] = t]
         PROVE  /\ sessions' \in SessionsType /\ IsFiniteSet(StartsOf(sessions'))
                /\ Cardinality(StartsOf(sessions')) \in Nat
                /\ Cardinality(LiveOf(sessions')) \in Nat
                /\ op = "start" =>
                     Cardinality(StartsOf(sessions')) = Cardinality(StartsOf(sessions)) - 1
                /\ op # "start" =>
                     Cardinality(StartsOf(sessions')) = Cardinality(StartsOf(sessions))
                /\ t.live_ /\ ~sessions[i].live_ =>
                     Cardinality(LiveOf(sessions')) = Cardinality(LiveOf(sessions)) + 1
                /\ ~t.live_ /\ sessions[i].live_ =>
                     Cardinality(LiveOf(sessions')) = Cardinality(LiveOf(sessions)) - 1
                /\ t.live_ = sessions[i].live_ => LiveOf(sessions') = LiveOf(sessions)
    <2>1. /\ sessions' \in SessionsType /\ IsFiniteSet(StartsOf(sessions'))
          /\ Cardinality(StartsOf(sessions')) =
                IF Head(sessions[i].posted) = "start"
                THEN Cardinality(StartsOf(sessions)) - 1 ELSE Cardinality(StartsOf(sessions))
      BY <1>1, <1>2, <1>3, <1>10, RunPosted
    <2>2. /\ t.live_ /\ ~sessions[i].live_ =>
               Cardinality(LiveOf(sessions')) = Cardinality(LiveOf(sessions)) + 1
          /\ ~t.live_ /\ sessions[i].live_ =>
               Cardinality(LiveOf(sessions')) = Cardinality(LiveOf(sessions)) - 1
          /\ t.live_ = sessions[i].live_ => LiveOf(sessions') = LiveOf(sessions)
      BY <1>1, <1>10, LiveChange
    <2> QED BY <2>1, <2>2, LiveFinite, FS_CardinalityType DEF op
  <1>11. CASE op = "start" /\ sessions' = [sessions EXCEPT ![i] = up]
              /\ hist' = started /\ UNCHANGED <<pool, ctx>>
    <2>1. pool.active_sessions_ = Cardinality(StartsOf(sessions'))
              + Cardinality(LiveOf(sessions')) + hist'.overlaps
      <3>1. CASE sessions[i].live_
        <4>1. Cardinality(StartsOf(sessions')) = Cardinality(StartsOf(sessions)) - 1
          BY <1>9, <1>10, <1>11
        <4>2. Cardinality(LiveOf(sessions')) = Cardinality(LiveOf(sessions))
          BY <1>3, <1>9, <1>10, <1>11, <3>1
        <4>3. hist'.overlaps = hist.overlaps + 1 BY <1>7, <1>8, <1>11, <3>1
        <4> QED BY <1>1, <1>2, <4>1, <4>2, <4>3
      <3>2. CASE ~sessions[i].live_
        <4>1. Cardinality(StartsOf(sessions')) = Cardinality(StartsOf(sessions)) - 1
          BY <1>9, <1>10, <1>11
        <4>2. Cardinality(LiveOf(sessions')) = Cardinality(LiveOf(sessions)) + 1
          BY <1>3, <1>9, <1>10, <1>11, <3>2
        <4>3. hist'.overlaps = hist.overlaps BY <1>7, <1>8, <1>11, <3>2
        <4> QED BY <1>1, <1>2, <4>1, <4>2, <4>3
      <3> QED BY <3>1, <3>2
    <2>2. sessions' \in SessionsType /\ IsFiniteSet(StartsOf(sessions'))
      BY <1>9, <1>10, <1>11
    <2> QED BY <1>3, <1>8, <1>11, <2>1, <2>2, QuietKeeps
  <1>12. CASE op = "start" /\ sessions' = [sessions EXCEPT ![i] = down]
              /\ disconnect_callback(started)
    <2>1. pool.active_sessions_ - 1 = Cardinality(StartsOf(sessions'))
              + Cardinality(LiveOf(sessions')) + started.overlaps
      <3>1. CASE sessions[i].live_
        <4>1. Cardinality(StartsOf(sessions')) = Cardinality(StartsOf(sessions)) - 1
          BY <1>9, <1>10, <1>12
        <4>2. Cardinality(LiveOf(sessions')) = Cardinality(LiveOf(sessions)) - 1
          BY <1>3, <1>9, <1>10, <1>12, <3>1
        <4>3. started.overlaps = hist.overlaps + 1 BY <1>7, <1>8, <1>12, <3>1
        <4> QED BY <1>1, <1>2, <4>1, <4>2, <4>3
      <3>2. CASE ~sessions[i].live_
        <4>1. Cardinality(StartsOf(sessions')) = Cardinality(StartsOf(sessions)) - 1
          BY <1>9, <1>10, <1>12
        <4>2. Cardinality(LiveOf(sessions')) = Cardinality(LiveOf(sessions))
          BY <1>3, <1>9, <1>10, <1>12, <3>2
        <4>3. started.overlaps = hist.overlaps BY <1>7, <1>8, <1>12, <3>2
        <4> QED BY <1>1, <1>2, <4>1, <4>2, <4>3
      <3> QED BY <3>1, <3>2
    <2>2. /\ sessions' \in SessionsType /\ IsFiniteSet(StartsOf(sessions'))
          /\ Cardinality(StartsOf(sessions')) \in Nat /\ Cardinality(LiveOf(sessions')) \in Nat
      BY <1>9, <1>10, <1>12
    <2> QED BY <1>3, <1>8, <1>12, <2>1, <2>2, DisconnectKeeps
  <1>13. CASE op \in {"drain", "stop"} /\ sessions[i].live_
              /\ sessions' = [sessions EXCEPT ![i] = down] /\ disconnect_callback(hist)
    <2>1. pool.active_sessions_ - 1 = Cardinality(StartsOf(sessions'))
              + Cardinality(LiveOf(sessions')) + hist.overlaps
      <3>1. Cardinality(StartsOf(sessions')) = Cardinality(StartsOf(sessions))
        BY <1>9, <1>10, <1>13
      <3>2. Cardinality(LiveOf(sessions')) = Cardinality(LiveOf(sessions)) - 1
        BY <1>9, <1>10, <1>13
      <3> QED BY <1>1, <1>2, <3>1, <3>2
    <2>2. /\ sessions' \in SessionsType /\ IsFiniteSet(StartsOf(sessions'))
          /\ Cardinality(StartsOf(sessions')) \in Nat /\ Cardinality(LiveOf(sessions')) \in Nat
      BY <1>9, <1>10, <1>13
    <2> QED BY <1>1, <1>3, <1>13, <2>1, <2>2, DisconnectKeeps
  <1>14. CASE op # "start" /\ sessions' = [sessions EXCEPT ![i] = s]
              /\ UNCHANGED <<pool, ctx, hist>>
    <2>1. pool.active_sessions_ = Cardinality(StartsOf(sessions'))
              + Cardinality(LiveOf(sessions')) + hist'.overlaps
      BY <1>2, <1>5, <1>10, <1>14
    <2>2. sessions' \in SessionsType /\ IsFiniteSet(StartsOf(sessions'))
      BY <1>5, <1>10, <1>14
    <2> QED BY <1>1, <1>3, <1>14, <2>1, <2>2, QuietKeeps
  <1> QED BY <1>6, <1>11, <1>12, <1>13, <1>14

LEMMA SessionClosesKeeps ==
    ASSUME IInv, NEW i \in Sessions, SessionCloses(i) PROVE IInv'
  <1> DEFINE t == [sessions[i] EXCEPT !.live_ = FALSE]
  <1>1. /\ sessions \in SessionsType /\ hist \in HistType
        /\ hist.overlaps \in Nat /\ pool.active_sessions_ \in Nat
    BY TypeParts DEF IInv, HistType, PoolType
  <1>2. /\ IsFiniteSet(StartsOf(sessions))
        /\ pool.active_sessions_ = Cardinality(StartsOf(sessions))
             + Cardinality(LiveOf(sessions)) + hist.overlaps
        /\ Cardinality(StartsOf(sessions)) \in Nat /\ Cardinality(LiveOf(sessions)) \in Nat
    BY CountedIs DEF IInv
  <1>3. /\ InRun /\ UNCHANGED <<owned, queue>> /\ sessions[i].live_
        /\ sessions' = [sessions EXCEPT ![i] = t] /\ disconnect_callback(hist)
    BY DEF SessionCloses
  <1>4. /\ sessions[i] \in [posted : Seq(SessionOp), live_ : BOOLEAN] BY <1>1 DEF SessionsType
  <1>5. /\ t \in [posted : Seq(SessionOp), live_ : BOOLEAN]
        /\ ~t.live_ /\ t.posted = sessions[i].posted
    BY <1>4
  <1> HIDE DEF t
  <1>6. sessions' \in SessionsType BY <1>1, <1>3, <1>5 DEF SessionsType
  <1>7. \A k \in Sessions : sessions'[k].posted = sessions[k].posted
    BY <1>1, <1>3, <1>5 DEF SessionsType
  <1>8. StartsOf(sessions') = StartsOf(sessions) BY <1>7 DEF StartsOf
  <1>9. Cardinality(LiveOf(sessions')) = Cardinality(LiveOf(sessions)) - 1
        /\ Cardinality(LiveOf(sessions')) \in Nat
    BY <1>1, <1>3, <1>5, LiveChange, LiveFinite
  <1>10. pool.active_sessions_ - 1 = Cardinality(StartsOf(sessions'))
              + Cardinality(LiveOf(sessions')) + hist.overlaps
    BY <1>1, <1>2, <1>8, <1>9
  <1> QED BY <1>1, <1>2, <1>3, <1>6, <1>8, <1>9, <1>10, DisconnectKeeps

-----------------------------------------------------------------------------
(* The timer, and the end of the thread. *)

LEMMA TimerKeeps == ASSUME IInv, StopTimerExpires \/ StopTimerHandler PROVE IInv'
  <1>1. /\ running_' = running_ /\ thread' = thread /\ script' = script /\ queue' = queue
        /\ pool' = pool /\ sessions' = sessions /\ hist' = hist /\ thread = "running"
    BY DEF StopTimerExpires, StopTimerHandler, owned, InRun
  <1>2. ctx \in CtxType BY TypeParts DEF IInv
  <1>3. /\ ctx' \in CtxType /\ ctx'.work_guard_ = ctx.work_guard_
        /\ ctx'.stop_timer_ # "armed" /\ ctx.stop_timer_ # "off"
    <2>1. CASE StopTimerExpires BY <1>2, <2>1 DEF StopTimerExpires, CtxType
    <2>2. CASE StopTimerHandler
      <3> DEFINE e == ctx.stop_timer_ = "expired"
      <3>1. ctx' = [ctx EXCEPT !.stop_timer_ = "off", !.stopped = e] /\ e \in BOOLEAN
        BY <2>2 DEF StopTimerHandler
      <3>2. ctx.stop_timer_ # "off" BY <2>2 DEF StopTimerHandler
      <3> HIDE DEF e
      <3> QED BY <1>2, <3>1, <3>2 DEF CtxType
    <2> QED BY <2>1, <2>2
  <1>4. TypeOK' BY <1>1, <1>3, TypeParts, TypePartsNext DEF IInv
  <1>5. QueueOk' BY <1>1 DEF IInv, QueueOk, WellFormed
  <1>6. Phases' BY <1>1, <1>3 DEF IInv, Phases
  <1>7. Counted' BY <1>1, CountedKept DEF IInv
  <1>8. Reported' BY <1>1, <1>3 DEF IInv, Reported
  <1> QED BY <1>4, <1>5, <1>6, <1>7, <1>8 DEF IInv

LEMMA ReturnsKeeps == ASSUME IInv, RunReturns PROVE IInv'
  <1>1. /\ running_' = running_ /\ thread' = "exited" /\ script' = script /\ queue' = queue
        /\ pool' = pool /\ sessions' = sessions /\ ctx' = ctx /\ thread = "running"
    BY DEF RunReturns
  <1>2. hist \in HistType BY TypeParts DEF IInv
  <1>3. /\ hist' \in HistType /\ hist'.notified = hist.notified
        /\ hist'.overlaps = hist.overlaps
    BY <1>2 DEF RunReturns, HistType
  <1>4. TypeOK' BY <1>1, <1>3, TypeParts, TypePartsNext DEF IInv
  <1>5. QueueOk' BY <1>1 DEF IInv, QueueOk, WellFormed
  <1>6. Phases' BY <1>1 DEF IInv, Phases
  <1>7. Counted' BY <1>1, <1>3, CountedKept DEF IInv
  <1>8. ctx.stopped \/ hist.notified = 1 BY <1>1 DEF IInv, Reported, RunReturns
  <1>9. Reported' BY <1>1, <1>3, <1>8 DEF IInv, Reported
  <1> QED BY <1>4, <1>5, <1>6, <1>7, <1>9 DEF IInv

LEMMA ThrowsKeeps == ASSUME IInv, ThreadThrows PROVE IInv'
  <1>1. /\ running_' = running_ /\ thread' = "exited" /\ script' = script /\ queue' = queue
        /\ pool' = pool /\ sessions' = sessions /\ thread = "running"
    BY DEF ThreadThrows, InRun
  <1>2. hist \in HistType /\ ctx \in CtxType BY TypeParts DEF IInv
  <1>3. /\ hist' \in HistType /\ hist'.notified = hist.notified
        /\ hist'.overlaps = hist.overlaps
    <2>1. hist' = [hist EXCEPT !.exits = @ + 1, !.threw = TRUE] BY DEF ThreadThrows
    <2>2. hist.exits + 1 \in Nat BY <1>2 DEF HistType
    <2> QED BY <1>2, <2>1, <2>2 DEF HistType
  <1>4. /\ ctx' \in CtxType /\ ~ctx'.work_guard_ /\ ctx'.stopped
        /\ ctx'.stop_timer_ = ctx.stop_timer_
    BY <1>2 DEF ThreadThrows, CtxType
  <1>5. TypeOK' BY <1>1, <1>3, <1>4, TypeParts, TypePartsNext DEF IInv
  <1>6. QueueOk' BY <1>1 DEF IInv, QueueOk, WellFormed
  <1>7. Phases' BY <1>1, <1>4 DEF IInv, Phases
  <1>8. Counted' BY <1>1, <1>3, CountedKept DEF IInv
  <1>9. Reported' BY <1>1, <1>3, <1>4 DEF IInv, Reported
  <1> QED BY <1>5, <1>6, <1>7, <1>8, <1>9 DEF IInv

LEMMA StutterKeeps == ASSUME IInv, UNCHANGED vars PROVE IInv'
  BY DEF vars, IInv, TypeOK, QueueOk, WellFormed, Phases, Counted, ActiveSessionsExact,
         PendingStarts, Live, Reported

LEMMA StepKeeps == IInv /\ [Next]_vars => IInv'
  <1> SUFFICES ASSUME IInv, [Next]_vars PROVE IInv' OBVIOUS
  <1>1. CASE Owner BY <1>1, OwnerKeeps
  <1>2. CASE Handlers
    BY <1>2, HandleActionKeeps, MetricsKeeps, ShutdownKeeps, TimerKeeps DEF Handlers
  <1>3. ASSUME NEW i \in Sessions, RunSessionCommand(i) \/ SessionCloses(i) PROVE IInv'
    BY <1>3, RunSessionCommandKeeps, SessionClosesKeeps
  <1>4. CASE StopTimerExpires BY <1>4, TimerKeeps
  <1>5. CASE RunReturns BY <1>5, ReturnsKeeps
  <1>6. CASE ThreadThrows BY <1>6, ThrowsKeeps
  <1>7. CASE UNCHANGED vars BY <1>7, StutterKeeps
  <1> QED BY <1>1, <1>2, <1>3, <1>4, <1>5, <1>6, <1>7 DEF Next

-----------------------------------------------------------------------------
(* Theorems *)

\* IInv is an inductive invariant of the shard: the counter of the pool, the
\* phases of start(), stop() and shutdown(), and what has been reported.
THEOREM Invariance == Spec => []IInv
  <1>1. Init => IInv BY InitHolds
  <1>2. IInv /\ [Next]_vars => IInv' BY StepKeeps
  <1> QED BY <1>1, <1>2, PTL DEF Spec

\* Every variable keeps its type; active_sessions_ in particular is decremented
\* by disconnect_callback() on each close and still never passes below 0.
THEOREM TypeCorrect == Spec => []TypeOK
  <1>1. IInv => TypeOK BY DEF IInv
  <1> QED BY <1>1, Invariance, PTL

\* active_sessions_ is the number of starts still posted plus the number of
\* live sessions, plus the starts that hit a live session, whatever the ranges
\* of the actions and however the sessions close.
THEOREM CounterExact == Spec => []ActiveSessionsExact
  <1>1. IInv => ActiveSessionsExact BY DEF IInv, Counted
  <1> QED BY <1>1, Invariance, PTL

LEMMA NoneLeft ==
    ASSUME IInv, hist.notified = 1
    PROVE  pool.closed_ /\ Live = {} /\ PendingStarts = {}
  <1>1. pool.closed_ /\ pool.active_sessions_ = 0 BY DEF IInv, Reported
  <1>2. /\ PendingStarts = StartsOf(sessions) /\ Live = LiveOf(sessions)
    BY TypeParts, PendingAre DEF IInv
  <1>3. /\ IsFiniteSet(StartsOf(sessions)) /\ IsFiniteSet(LiveOf(sessions))
        /\ Cardinality(StartsOf(sessions)) \in Nat /\ Cardinality(LiveOf(sessions)) \in Nat
        /\ 0 = Cardinality(StartsOf(sessions)) + Cardinality(LiveOf(sessions)) + hist.overlaps
    BY <1>1, CountedIs, LiveFinite DEF IInv
  <1>4. hist.overlaps \in Nat BY TypeParts DEF IInv, HistType
  <1>5. Cardinality(StartsOf(sessions)) = 0 /\ Cardinality(LiveOf(sessions)) = 0
    BY <1>3, <1>4
  <1>6. StartsOf(sessions) = {} /\ LiveOf(sessions) = {} BY <1>3, <1>5, FS_EmptySet
  <1> QED BY <1>1, <1>2, <1>6

\* The pool reports being closed once and last, and shutdown() and the last
\* disconnect_callback() between them never lose the report.
THEOREM ReportedOnceAndLast == Spec => []ClosedReportedOnceAndLast
  <1>1. IInv => ClosedReportedOnceAndLast
    <2> SUFFICES ASSUME IInv PROVE ClosedReportedOnceAndLast OBVIOUS
    <2>1. hist.notified \in {0, 1} BY DEF IInv, Reported
    <2>2. hist.notified = 1 => pool.closed_ /\ Live = {} /\ PendingStarts = {} BY NoneLeft
    <2>3. pool.closed_ /\ pool.active_sessions_ = 0 =>
            ~ctx.work_guard_ /\ ctx.stop_timer_ # "armed"
      BY DEF IInv, Reported
    <2> QED BY <2>1, <2>2, <2>3 DEF ClosedReportedOnceAndLast
  <1> QED BY <1>1, Invariance, PTL

\* A thread whose run() returned by itself leaves no session behind.
THEOREM NoSessionLeft == Spec => []ExitLeavesNoSession
  <1>1. IInv => ExitLeavesNoSession
    BY NoneLeft DEF IInv, Reported, ExitLeavesNoSession
  <1> QED BY <1>1, Invariance, PTL

\* Each step of the shard is a step of the contract or leaves its state alone.
LEMMA ContractStep == IInv /\ [Next]_vars => [Contract!Next]_(Contract!vars)
  <1> SUFFICES ASSUME IInv, [Next]_vars PROVE [Contract!Next]_(Contract!vars) OBVIOUS
  <1> DEFINE stage == IF thread = "running" /\ ~running_ THEN "stopping" ELSE thread
  <1> USE DEF Contract!Next, Contract!vars, Contract!Start, Contract!Stop, Contract!Exit
  <1>0. thread \in {"none", "running", "exited"} /\ running_ \in BOOLEAN /\ hist \in HistType
    BY TypeParts DEF IInv
  <1>1. CASE start
    BY <1>1 DEF start
  <1>2. CASE stop
    <2>1. thread # "none" BY <1>2 DEF IInv, Phases, stop
    <2>2. hist' = hist /\ thread' = thread /\ running_ /\ ~running_' BY <1>2 DEF stop
    <2> QED BY <1>0, <2>1, <2>2
  <1>3. CASE UNCHANGED <<running_, thread>> /\ hist'.exits = hist.exits BY <1>3
  <1>4. CASE SubmitCreate \/ SubmitAction \/ schedule_metrics_pull
    <2>1. UNCHANGED <<running_, thread>> /\ hist'.exits = hist.exits
      BY <1>4 DEF SubmitCreate, SubmitAction, schedule_metrics_pull, submit_work
    <2> QED BY <1>3, <2>1
  <1>5. CASE Handlers
    <2>1. UNCHANGED <<running_, thread>>
      BY <1>5 DEF Handlers, handle_action, RunMetricsPull, shutdown, StopTimerHandler, owned
    <2>2. hist'.exits = hist.exits
      BY <1>0, <1>5 DEF Handlers, handle_action, RunMetricsPull, shutdown, StopTimerHandler,
                  NotifyIf, HistType
    <2> QED BY <1>3, <2>1, <2>2
  <1>6. ASSUME NEW i \in Sessions, RunSessionCommand(i) \/ SessionCloses(i)
        PROVE  [Contract!Next]_(Contract!vars)
    <2>1. UNCHANGED <<running_, thread>>
      BY <1>6 DEF RunSessionCommand, SessionCloses, owned
    <2>2. hist'.exits = hist.exits
      BY <1>0, <1>6 DEF RunSessionCommand, SessionCloses, disconnect_callback, NotifyIf, HistType
    <2> QED BY <1>3, <2>1, <2>2
  <1>7. CASE StopTimerExpires BY <1>3, <1>7 DEF StopTimerExpires, owned
  <1>8. CASE RunReturns
    <2>1. ~running_ BY <1>8 DEF IInv, Phases, Reported, RunReturns
    <2>2. thread = "running" /\ thread' = "exited" /\ hist'.exits = hist.exits + 1
      BY <1>0, <1>8 DEF RunReturns, HistType
    <2> QED BY <2>1, <2>2
  <1>9. CASE ThreadThrows
    <2>1. MayThrow /\ thread = "running" /\ thread' = "exited" /\ hist'.exits = hist.exits + 1
      BY <1>0, <1>9 DEF ThreadThrows, InRun, HistType
    <2> QED BY <1>0, <2>1
  <1>10. CASE UNCHANGED vars BY <1>3, <1>10 DEF vars
  <1> QED BY <1>1, <1>2, <1>4, <1>5, <1>6, <1>7, <1>8, <1>9, <1>10 DEF Next, Owner

\* A shard does only what its contract with the orchestrator allows: run()
\* returns only after stop() or an exception, and on_shard_closed_ is called
\* exactly once, at that moment (that it does return after stop() is liveness).
THEOREM KeepsContract == Spec => Contract!Init /\ [][Contract!Next]_(Contract!vars)
  <1>1. Init => Contract!Init BY DEF Init, Contract!Init
  <1>2. IInv /\ [Next]_vars => [Contract!Next]_(Contract!vars) BY ContractStep
  <1> QED BY <1>1, <1>2, Invariance, PTL DEF Spec
================================================================================
