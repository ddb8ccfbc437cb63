-------------------------- MODULE OrchestratorProofs --------------------------
(***************************************************************************)
(* Proofs about module Orchestrator, for any number of shards, sessions,   *)
(* actions and early stops.                                                *)
(***************************************************************************)
EXTENDS Orchestrator, FiniteSetTheorems, NaturalsInduction, WellFoundedInduction, TLAPS

In(q, x) == \E i \in DOMAIN q : q[i] = x
Once(q, x) == \A i, j \in DOMAIN q : q[i] = x /\ q[j] = x => i = j

Names == {"dispatch", "metrics", "round", "shutdown", "last_shard"}
Octx == [queue : Seq(Names), work_guard_ : BOOLEAN,
         dispatch_timer_ : BOOLEAN, metrics_timer_ : BOOLEAN]
ShardState == [running_ : BOOLEAN, thread : {"none", "running", "exited"},
               queue : Seq(Item), stopping : BOOLEAN]

\* The kinds of the items a shard has queued, in order.
Kinds(q) == [i \in DOMAIN q |-> q[i].kind]
Pulled(k) == Kinds(shards[k].queue)

Alive == {k \in Shards : shards[k].thread # "exited"}
Unrecorded == {k \in Shards : hist.recorded[k] = 0}

\* The count of the shards is exact, and the orchestrator is let go only when
\* it has reached 0.
Release ==
    /\ phase = "new" => \A k \in Shards : shards[k].thread = "none"
    /\ active_shards_ = Cardinality(Alive)
    /\ In(octx.queue, "last_shard") \/ ~octx.work_guard_ =>
          \A k \in Shards : shards[k].thread = "exited"
    /\ phase \in {"returned", "joined"} => ~octx.work_guard_

\* One metrics round at a time: the timer, the queued handler, the pulls not yet
\* answered and the queued completion of the round exclude each other.
OneRound ==
    /\ octx.metrics_timer_ \/ In(octx.queue, "metrics") \/ In(octx.queue, "round") =>
          pending_metric_pulls_ = 0
    /\ ~(octx.metrics_timer_ /\ In(octx.queue, "metrics"))
    /\ ~(octx.metrics_timer_ /\ In(octx.queue, "round"))
    /\ ~(In(octx.queue, "metrics") /\ In(octx.queue, "round"))
    /\ Once(octx.queue, "metrics") /\ Once(octx.queue, "round")
    /\ phase \in {"new", "starting"} =>
          /\ ~octx.metrics_timer_ /\ pending_metric_pulls_ = 0
          /\ ~In(octx.queue, "metrics") /\ ~In(octx.queue, "round")

\* Within a round: who was asked, who has answered, and what the counter says.
Answers ==
    /\ handler = "metrics" <=> pulling < NumShards
    /\ pulling < NumShards => pending_metric_pulls_ > 0
    /\ pending_metric_pulls_ > 0 => pending_metric_pulls_ = Cardinality(Unrecorded)
    /\ \A k \in Shards :
          /\ hist.recorded[k] \in {0, 1}
          /\ hist.recorded[k] = 1 =>
                k < pulling /\ (pending_metric_pulls_ > 0 \/ In(octx.queue, "round"))
          /\ In(octx.queue, "round") => hist.recorded[k] = 1
          /\ In(Pulled(k), "metrics") =>
                pending_metric_pulls_ > 0 /\ k < pulling /\ hist.recorded[k] = 0
          /\ Once(Pulled(k), "metrics")

\* CREATE has set the ranges, and without a shutdown every shard was sent its
\* part of every action so far.
PartsSent(k) == UNION {ShardAction(j, k, CreateRanges) : j \in 1 .. current_action_indx_}
Dispatched ==
    /\ current_action_indx_ <= Len(Actions)
    /\ current_action_indx_ > 0 => shard_ranges_ = CreateRanges
    /\ handler # "none" => phase = "running"
    /\ ~shutdown_ =>
          /\ phase # "new" => \A k \in Shards : shards[k].running_
          /\ \A k \in Shards : hist.sent[k] = PartsSent(k)

IInv == TypeOK /\ Release /\ OneRound /\ Answers /\ Dispatched

-----------------------------------------------------------------------------
(* Induction over the numbers, and what RangeStart computes. *)

LEMMA NatSetInduction ==
    ASSUME NEW S, 0 \in S, \A n \in Nat : n \in S => n + 1 \in S
    PROVE  Nat \subseteq S
<1> DEFINE T == Nat \ S
<1>1. SUFFICES ASSUME T # {} PROVE FALSE
  OBVIOUS
<1>2. T \subseteq Nat
  OBVIOUS
<1>3. \E x \in T : \A y \in T : ~(<<y, x>> \in OpToRel(<, Nat))
  <2> HIDE DEF T
  <2> QED BY <1>1, <1>2, WFMin, NatLessThanWellFounded
<1>4. PICK x \in T : \A y \in T : ~(<<y, x>> \in OpToRel(<, Nat))
  BY <1>3
<1>5. x \in Nat /\ x \notin S /\ x # 0
  OBVIOUS
<1>6. x - 1 \in Nat /\ x - 1 < x
  BY <1>5
<1>7. x - 1 \in S
  BY <1>4, <1>5, <1>6 DEF OpToRel
<1>8. (x - 1) + 1 \in S
  BY <1>6, <1>7
<1> QED BY <1>5, <1>8

Share == NumSessions \div NumShards
Rest == NumSessions % NumShards

LEMMA Division ==
    /\ Share \in Nat /\ Rest \in Nat /\ Rest < NumShards
    /\ NumShards * Share + Rest = NumSessions
  BY ConstantsAssumption DEF Share, Rest

\* The recursive definition has a solution, the one in closed form.
LEMMA RangeStartEquation ==
    RangeStart = [k \in Nat |->
                    IF k = 0 THEN 0
                    ELSE RangeStart[k - 1] + Share + (IF k - 1 < Rest THEN 1 ELSE 0)]
<1> DEFINE g == [k \in Nat |-> k * Share + Smaller(k, Rest)]
<1>1. g = [k \in Nat |-> IF k = 0 THEN 0
                         ELSE g[k - 1] + Share + (IF k - 1 < Rest THEN 1 ELSE 0)]
  <2> SUFFICES ASSUME NEW k \in Nat
               PROVE  k * Share + Smaller(k, Rest) =
                        IF k = 0 THEN 0
                        ELSE g[k - 1] + Share + (IF k - 1 < Rest THEN 1 ELSE 0)
    OBVIOUS
  <2>1. CASE k = 0
    BY <2>1, Division DEF Smaller
  <2>2. CASE k # 0
    <3>1. k - 1 \in Nat
      BY <2>2
    <3>2. g[k - 1] = (k - 1) * Share + Smaller(k - 1, Rest)
      BY <3>1
    <3>3. (k - 1) * Share + Share = k * Share
      BY Division
    <3>4. k * Share \in Nat /\ (k - 1) * Share \in Nat
      BY Division, <3>1
    <3>5. Smaller(k, Rest) = Smaller(k - 1, Rest) + (IF k - 1 < Rest THEN 1 ELSE 0)
      BY <3>1, Division DEF Smaller
    <3>6. Smaller(k - 1, Rest) \in Nat
      BY <3>1, Division DEF Smaller
    <3> HIDE DEF g
    <3> QED BY <3>2, <3>3, <3>4, <3>5, <3>6, <2>2, Division
  <2> QED BY <2>1, <2>2
<1>2. \E f : f = [k \in Nat |-> IF k = 0 THEN 0
                         ELSE f[k - 1] + Share + (IF k - 1 < Rest THEN 1 ELSE 0)]
  <2> HIDE DEF g
  <2> QED BY <1>1
<1> QED BY <1>2 DEF RangeStart, Share, Rest

LEMMA RangeStartStep ==
    /\ RangeStart[0] = 0
    /\ \A k \in Nat : RangeStart[k + 1] =
                        RangeStart[k] + Share + (IF k < Rest THEN 1 ELSE 0)
<1>1. RangeStart[0] = 0
  BY RangeStartEquation
<1>2. ASSUME NEW k \in Nat
      PROVE  RangeStart[k + 1] = RangeStart[k] + Share + (IF k < Rest THEN 1 ELSE 0)
  <2>1. k + 1 \in Nat /\ k + 1 # 0 /\ (k + 1) - 1 = k
    OBVIOUS
  <2> QED BY <2>1, RangeStartEquation
<1> QED BY <1>1, <1>2

LEMMA RangeStartClosed ==
    \A k \in Nat : RangeStart[k] = k * Share + Smaller(k, Rest)
<1> DEFINE S == {k \in Nat : RangeStart[k] = k * Share + Smaller(k, Rest)}
<1>1. 0 \in S
  BY RangeStartStep, Division DEF Smaller
<1>2. ASSUME NEW n \in Nat, n \in S PROVE n + 1 \in S
  <2>1. (n + 1) * Share = n * Share + Share
    BY Division
  <2>2. n * Share \in Nat
    BY Division
  <2> QED BY <1>2, <2>1, <2>2, RangeStartStep, Division DEF Smaller
<1>3. Nat \subseteq S
  <2> HIDE DEF S
  <2> QED BY <1>1, <1>2, NatSetInduction
<1> QED BY <1>3

\* The ranges begin at 0, end at the number of sessions and never go back.
LEMMA RangeStartBounds ==
    /\ \A k \in Nat : RangeStart[k] \in Nat /\ RangeStart[k] <= RangeStart[k + 1]
    /\ RangeStart[0] = 0
    /\ RangeStart[NumShards] = NumSessions
<1>1. ASSUME NEW k \in Nat PROVE RangeStart[k] \in Nat
  <2>1. k * Share \in Nat
    BY Division
  <2> QED BY <2>1, RangeStartClosed, Division DEF Smaller
<1>2. ASSUME NEW k \in Nat PROVE RangeStart[k] <= RangeStart[k + 1]
  BY <1>1, RangeStartStep, Division
<1>3. RangeStart[NumShards] = NumSessions
  <2>1. Smaller(NumShards, Rest) = Rest
    BY Division, ConstantsAssumption DEF Smaller
  <2> QED BY <2>1, RangeStartClosed, Division, ConstantsAssumption
<1> QED BY <1>1, <1>2, <1>3, RangeStartStep

LEMMA RangeStartMonotone ==
    ASSUME NEW m \in Nat, NEW n \in Nat, m <= n
    PROVE  RangeStart[m] <= RangeStart[n]
<1> DEFINE S == {d \in Nat : RangeStart[m] <= RangeStart[m + d]}
<1>1. 0 \in S
  BY RangeStartBounds
<1>2. ASSUME NEW d \in Nat, d \in S PROVE d + 1 \in S
  <2>1. m + (d + 1) = (m + d) + 1 /\ m + d \in Nat
    OBVIOUS
  <2>2. RangeStart[m + d] <= RangeStart[m + (d + 1)]
    BY <2>1, RangeStartBounds
  <2>3. RangeStart[m] \in Nat /\ RangeStart[m + d] \in Nat /\ RangeStart[m + (d + 1)] \in Nat
    BY <2>1, RangeStartBounds
  <2> QED BY <1>2, <2>2, <2>3
<1>3. Nat \subseteq S
  <2> HIDE DEF S
  <2> QED BY <1>1, <1>2, NatSetInduction
<1>4. n - m \in Nat /\ m + (n - m) = n
  OBVIOUS
<1> QED BY <1>3, <1>4

\* Every session lies in the range of one shard and of no other.
LEMMA RangeOfSession ==
    ASSUME NEW g \in 0 .. NumSessions - 1
    PROVE  /\ \E k \in Shards : RangeStart[k] <= g /\ g < RangeStart[k + 1]
           /\ \A k, l \in Shards :
                 /\ RangeStart[k] <= g /\ g < RangeStart[k + 1]
                 /\ RangeStart[l] <= g /\ g < RangeStart[l + 1]
                 => k = l
<1>0. g \in Nat /\ g < NumSessions /\ NumShards \in Nat
  BY ConstantsAssumption
<1> DEFINE S == {n \in Nat : g < RangeStart[n] =>
                    \E k \in 0 .. n - 1 : RangeStart[k] <= g /\ g < RangeStart[k + 1]}
<1>1. 0 \in S
  <2>1. ~(g < RangeStart[0])
    BY <1>0, RangeStartBounds
  <2> QED BY <2>1
<1>2. ASSUME NEW n \in Nat, n \in S PROVE n + 1 \in S
  <2>1. CASE g < RangeStart[n]
    BY <1>2, <2>1
  <2>2. CASE ~(g < RangeStart[n])
    <3>1. RangeStart[n] <= g
      BY <1>0, <2>2, RangeStartBounds
    <3> QED BY <3>1
  <2> QED BY <2>1, <2>2
<1>3. Nat \subseteq S
  <2> HIDE DEF S
  <2> QED BY <1>1, <1>2, NatSetInduction
<1>4. NumShards \in S /\ g < RangeStart[NumShards]
  BY <1>0, <1>3, RangeStartBounds
<1>5. \E k \in Shards : RangeStart[k] <= g /\ g < RangeStart[k + 1]
  BY <1>0, <1>4 DEF Shards
<1>6. ASSUME NEW k \in Shards, NEW l \in Shards, g < RangeStart[k + 1], RangeStart[l] <= g
      PROVE  ~(k < l)
  <2>1. SUFFICES ASSUME k < l PROVE FALSE
    OBVIOUS
  <2>2. k \in Nat /\ l \in Nat /\ k + 1 \in Nat /\ k + 1 <= l
    BY <2>1 DEF Shards
  <2>3. RangeStart[k + 1] <= RangeStart[l]
    BY <2>2, RangeStartMonotone
  <2>4. RangeStart[k + 1] \in Nat /\ RangeStart[l] \in Nat
    BY <2>2, RangeStartBounds
  <2> QED BY <1>0, <1>6, <2>3, <2>4
<1>7. ASSUME NEW k \in Shards, NEW l \in Shards,
             RangeStart[k] <= g /\ g < RangeStart[k + 1],
             RangeStart[l] <= g /\ g < RangeStart[l + 1]
      PROVE  k = l
  BY <1>0, <1>6, <1>7 DEF Shards
<1> QED BY <1>5, <1>7

-----------------------------------------------------------------------------
(* Queues. *)

LEMMA InAppended ==
    ASSUME NEW A, NEW q \in Seq(A), NEW y \in A, NEW x
    PROVE  /\ In(Append(q, y), x) <=> In(q, x) \/ y = x
           /\ Once(q, x) /\ (y # x \/ ~In(q, x)) => Once(Append(q, y), x)
<1>1. Append(q, y) \in Seq(A) /\ DOMAIN q = 1 .. Len(q) /\ Len(q) \in Nat
      /\ DOMAIN Append(q, y) = 1 .. Len(q) + 1
  OBVIOUS
<1>2. \A i \in 1 .. Len(q) : Append(q, y)[i] = q[i]
  OBVIOUS
<1>3. Append(q, y)[Len(q) + 1] = y
  OBVIOUS
<1> DEFINE r == Append(q, y)
<1> HIDE DEF r
<1>4. In(r, x) <=> In(q, x) \/ y = x
  BY <1>1, <1>2, <1>3 DEF In, r
<1>5. Once(q, x) /\ (y # x \/ ~In(q, x)) => Once(r, x)
  BY <1>1, <1>2, <1>3 DEF In, Once, r
<1> QED BY <1>4, <1>5 DEF r

LEMMA InTail ==
    ASSUME NEW A, NEW q \in Seq(A), q # <<>>, NEW x
    PROVE  /\ In(q, x) <=> Head(q) = x \/ In(Tail(q), x)
           /\ Once(q, x) => Once(Tail(q), x)
           /\ Once(q, x) /\ Head(q) = x => ~In(Tail(q), x)
<1>1. Tail(q) \in Seq(A) /\ DOMAIN q = 1 .. Len(q) /\ Len(q) \in Nat /\ Len(q) > 0
      /\ DOMAIN Tail(q) = 1 .. Len(q) - 1 /\ Head(q) = q[1]
  OBVIOUS
<1>2. \A i \in 1 .. Len(q) - 1 : Tail(q)[i] = q[i + 1]
  OBVIOUS
<1> DEFINE r == Tail(q)
<1> HIDE DEF r
<1>3. In(q, x) => q[1] = x \/ In(r, x)
  <2> SUFFICES ASSUME NEW i \in DOMAIN q, q[i] = x, q[1] # x PROVE In(r, x)
    BY DEF In
  <2>1. i - 1 \in 1 .. Len(q) - 1 /\ (i - 1) + 1 = i
    BY <1>1
  <2> QED BY <2>1, <1>1, <1>2 DEF In, r
<1>4. q[1] = x \/ In(r, x) => In(q, x)
  BY <1>1, <1>2 DEF In, r
<1>5. Once(q, x) => Once(r, x)
  BY <1>1, <1>2 DEF Once, r
<1>6. Once(q, x) /\ q[1] = x => ~In(r, x)
  BY <1>1, <1>2 DEF In, Once, r
<1> QED BY <1>1, <1>3, <1>4, <1>5, <1>6 DEF r

LEMMA KindsAre ==
    ASSUME NEW q \in Seq(Item)
    PROVE  /\ Kinds(q) \in Seq({"action", "metrics", "stop"})
           /\ \A y \in Item : Kinds(Append(q, y)) = Append(Kinds(q), y.kind)
           /\ q # <<>> => /\ Kinds(q) # <<>> /\ Head(Kinds(q)) = Head(q).kind
                          /\ Kinds(Tail(q)) = Tail(Kinds(q))
<1>1. \A y \in Item : y.kind \in {"action", "metrics", "stop"}
  BY DEF Item
<1>2. Kinds(q) \in Seq({"action", "metrics", "stop"}) /\ Len(Kinds(q)) = Len(q)
      /\ \A i \in 1 .. Len(q) : Kinds(q)[i] = q[i].kind
  BY <1>1 DEF Kinds
<1>3. ASSUME NEW y \in Item PROVE Kinds(Append(q, y)) = Append(Kinds(q), y.kind)
  BY <1>1, <1>2 DEF Kinds
<1>4. ASSUME q # <<>>
      PROVE  /\ Kinds(q) # <<>> /\ Head(Kinds(q)) = Head(q).kind
             /\ Kinds(Tail(q)) = Tail(Kinds(q))
  <2>1. Kinds(q) # <<>>
    BY <1>2, <1>4
  <2>2. Head(Kinds(q)) = Head(q).kind
    BY <1>2, <1>4
  <2>3. Kinds(Tail(q)) = Tail(Kinds(q))
    BY <1>2, <1>4, <2>1 DEF Kinds
  <2> QED BY <2>1, <2>2, <2>3
<1> QED BY <1>2, <1>3, <1>4

-----------------------------------------------------------------------------
(* The parts of the invariant, and what keeps each of them. *)

HistState == [sent : [Shards -> SUBSET Item], recorded : [Shards -> Nat], asked : Nat]

Control ==
    /\ phase \in {"new", "starting", "running", "returned", "joined"}
    /\ handler \in {"none", "dispatch", "metrics"}
    /\ current_action_indx_ \in Nat
    /\ shutdown_ \in BOOLEAN
    /\ shard_ranges_ \in Seq([first : Nat, last : Nat])
    /\ active_shards_ \in Nat
    /\ pending_metric_pulls_ \in Nat
    /\ pulling \in 0 .. NumShards

LEMMA TypeParts ==
    TypeOK <=> /\ Control /\ octx \in Octx
               /\ shards \in [Shards -> ShardState] /\ hist \in HistState
  BY DEF TypeOK, Control, Octx, Names, ShardState, HistState

LEMMA TypePartsNext ==
    TypeOK' <=> /\ Control' /\ octx' \in Octx
                /\ shards' \in [Shards -> ShardState] /\ hist' \in HistState
  BY DEF TypeOK, Control, Octx, Names, ShardState, HistState

LEMMA ShardsFinite ==
    /\ IsFiniteSet(Shards) /\ Cardinality(Shards) = NumShards
    /\ \A S : S \subseteq Shards => IsFiniteSet(S) /\ Cardinality(S) \in Nat
<1>1. NumShards \in Nat \ {0} /\ 0 \in Int /\ NumShards - 1 \in Int
  BY ConstantsAssumption
<1>2. IsFiniteSet(Shards) /\ Cardinality(Shards) = NumShards
  BY <1>1, FS_Interval DEF Shards
<1>3. ASSUME NEW S, S \subseteq Shards PROVE IsFiniteSet(S) /\ Cardinality(S) \in Nat
  BY <1>2, <1>3, FS_Subset, FS_CardinalityType
<1> QED BY <1>2, <1>3

LEMMA ReleaseKept ==
    ASSUME Release,
           \A k \in Shards : shards'[k].thread = shards[k].thread,
           active_shards_' = active_shards_,
           In(octx'.queue, "last_shard") => In(octx.queue, "last_shard"),
           octx'.work_guard_ = octx.work_guard_,
           phase' = "new" => phase = "new",
           phase' \in {"returned", "joined"} => phase \in {"returned", "joined"}
    PROVE  Release'
<1>1. Alive' = Alive
  BY DEF Alive
<1> QED BY <1>1 DEF Release

LEMMA OneRoundKept ==
    ASSUME OneRound,
           pending_metric_pulls_' = pending_metric_pulls_,
           octx'.metrics_timer_ => octx.metrics_timer_,
           \A x \in {"metrics", "round"} :
              (In(octx'.queue, x) => In(octx.queue, x)) /\ Once(octx'.queue, x),
           phase' \in {"new", "starting"} => phase \in {"new", "starting"}
    PROVE  OneRound'
  BY DEF OneRound

LEMMA AnswersKept ==
    ASSUME Answers,
           pending_metric_pulls_' = pending_metric_pulls_, pulling' = pulling,
           handler' = "metrics" <=> handler = "metrics",
           hist'.recorded = hist.recorded,
           In(octx'.queue, "round") <=> In(octx.queue, "round"),
           \A k \in Shards : /\ In(Pulled(k)', "metrics") => In(Pulled(k), "metrics")
                             /\ Once(Pulled(k)', "metrics")
    PROVE  Answers'
<1>1. Unrecorded' = Unrecorded
  BY DEF Unrecorded
<1> QED BY <1>1 DEF Answers

LEMMA DispatchedKept ==
    ASSUME Dispatched,
           UNCHANGED <<current_action_indx_, shard_ranges_>>,
           handler' # "none" => phase' = "running",
           \/ shutdown_'
           \/ /\ shutdown_' = shutdown_ /\ hist'.sent = hist.sent
              /\ phase' # "new" => phase # "new"
              /\ \A k \in Shards : shards'[k].running_ = shards[k].running_
    PROVE  Dispatched'
<1>1. \A k \in Shards : PartsSent(k)' = PartsSent(k)
  BY DEF PartsSent
<1> QED BY <1>1 DEF Dispatched

\* One shard's thread takes the head of its queue.
LEMMA ShardPops ==
    ASSUME shards \in [Shards -> ShardState], NEW k \in Shards,
           shards[k].queue # <<>>, NEW stop \in BOOLEAN,
           shards' = [shards EXCEPT ![k].queue = Tail(@), ![k].stopping = stop]
           \/ shards' = [shards EXCEPT ![k].queue = Tail(@)]
    PROVE  /\ shards' \in [Shards -> ShardState]
           /\ \A l \in Shards : /\ shards'[l].thread = shards[l].thread
                                /\ shards'[l].running_ = shards[l].running_
                                /\ l # k => shards'[l].queue = shards[l].queue
           /\ shards'[k].queue = Tail(shards[k].queue)
           /\ Pulled(k)' = Tail(Pulled(k)) /\ Pulled(k) # <<>>
           /\ Pulled(k) \in Seq({"action", "metrics", "stop"})
           /\ Head(Pulled(k)) = Head(shards[k].queue).kind
           /\ \A l \in Shards : l # k => Pulled(l)' = Pulled(l)
<1>1. shards[k] \in ShardState /\ shards[k].queue \in Seq(Item)
  BY DEF ShardState
<1> DEFINE q == Tail(shards[k].queue)
<1>2. q \in Seq(Item)
  BY <1>1
<1>3. /\ shards' \in [Shards -> ShardState]
      /\ \A l \in Shards : /\ shards'[l].thread = shards[l].thread
                           /\ shards'[l].running_ = shards[l].running_
                           /\ l # k => shards'[l].queue = shards[l].queue
      /\ shards'[k].queue = q
  <2> HIDE DEF q
  <2>1. CASE shards' = [shards EXCEPT ![k].queue = q]
    BY <1>1, <1>2, <2>1 DEF ShardState
  <2>2. CASE shards' = [shards EXCEPT ![k].queue = q, ![k].stopping = stop]
    <3>1. shards' = [shards EXCEPT ![k] = [shards[k] EXCEPT !.queue = q, !.stopping = stop]]
      BY <1>1, <2>2
    <3> QED BY <1>1, <1>2, <3>1 DEF ShardState
  <2> QED BY <2>1, <2>2 DEF q
<1>4. Pulled(k)' = Kinds(q)
  BY <1>3 DEF Pulled, Kinds
<1>5. Kinds(q) = Tail(Pulled(k)) /\ Pulled(k) # <<>>
      /\ Head(Pulled(k)) = Head(shards[k].queue).kind
      /\ Pulled(k) \in Seq({"action", "metrics", "stop"})
  BY <1>1, KindsAre DEF Pulled
<1>6. \A l \in Shards : l # k => Pulled(l)' = Pulled(l)
  BY <1>3 DEF Pulled, Kinds
<1> QED BY <1>3, <1>4, <1>5, <1>6

LEMMA PulledTypes ==
    ASSUME shards \in [Shards -> ShardState], NEW k \in Shards
    PROVE  Pulled(k) \in Seq({"action", "metrics", "stop"})
  BY KindsAre DEF ShardState, Pulled

LEMMA InitHolds == Init => IInv
<1> SUFFICES ASSUME Init PROVE IInv
  OBVIOUS
<1> USE DEF Init
<1>1. NumShards \in Nat /\ NumShards > 0
  BY ConstantsAssumption
<1>2. TypeOK
  <2>1. octx \in Octx
    <3>1. <<>> \in Seq(Names)
      OBVIOUS
    <3> QED BY <3>1 DEF Octx
  <2>2. shards \in [Shards -> ShardState]
    <3>1. <<>> \in Seq(Item)
      OBVIOUS
    <3> QED BY <3>1 DEF ShardState
  <2>3. hist \in HistState
    BY DEF HistState
  <2>4. Control
    <3>1. <<>> \in Seq([first : Nat, last : Nat])
      OBVIOUS
    <3>2. shutdown_ \in BOOLEAN
      OBVIOUS
    <3>3. pulling \in 0 .. NumShards /\ active_shards_ \in Nat
      BY <1>1
    <3> QED BY <3>1, <3>2, <3>3 DEF Control
  <2> QED BY <2>1, <2>2, <2>3, <2>4, TypeParts
<1>3. \A x : ~In(octx.queue, x) /\ Once(octx.queue, x)
  BY DEF In, Once
<1>4. \A k \in Shards : ~In(Pulled(k), "metrics") /\ Once(Pulled(k), "metrics")
  BY DEF In, Once, Pulled, Kinds
<1>5. Release
  <2>1. Alive = Shards
    BY DEF Alive
  <2> QED BY <1>3, <2>1, ShardsFinite DEF Release
<1>6. OneRound
  BY <1>3 DEF OneRound
<1>7. Answers
  BY <1>1, <1>3, <1>4 DEF Answers
<1>8. Dispatched
  <2>1. \A k \in Shards : PartsSent(k) = {}
    BY DEF PartsSent
  <2> QED BY <2>1, ConstantsAssumption DEF Dispatched
<1> QED BY <1>2, <1>5, <1>6, <1>7, <1>8 DEF IInv

-----------------------------------------------------------------------------
(* start() and early_stop() *)

LEMMA QueueGrows ==
    ASSUME octx \in Octx, NEW y \in Names
    PROVE  /\ octx.queue \in Seq(Names) /\ Append(octx.queue, y) \in Seq(Names)
           /\ \A x : /\ In(Append(octx.queue, y), x) <=> In(octx.queue, x) \/ y = x
                     /\ Once(octx.queue, x) /\ (y # x \/ ~In(octx.queue, x))
                            => Once(Append(octx.queue, y), x)
<1>1. octx.queue \in Seq(Names)
  BY DEF Octx
<1> QED BY <1>1, InAppended

\* What most steps leave alone.
LEMMA PulledSame ==
    ASSUME Answers, \A k \in Shards : shards'[k].queue = shards[k].queue
    PROVE  \A k \in Shards : /\ In(Pulled(k)', "metrics") => In(Pulled(k), "metrics")
                             /\ Once(Pulled(k)', "metrics")
<1>1. \A k \in Shards : Pulled(k)' = Pulled(k)
  BY DEF Pulled, Kinds
<1> QED BY <1>1 DEF Answers

LEMMA StartShardsKeeps == ASSUME IInv, StartShards PROVE IInv'
<1> USE DEF IInv
<1>0. octx' = octx /\ hist' = hist /\ handler' = handler /\ shutdown_' = shutdown_
      /\ pending_metric_pulls_' = pending_metric_pulls_ /\ pulling' = pulling
      /\ active_shards_' = active_shards_ /\ current_action_indx_' = current_action_indx_
      /\ shard_ranges_' = shard_ranges_ /\ phase = "new" /\ phase' = "starting"
  BY DEF StartShards, dispatchVars, metricsVars
<1>1. shards \in [Shards -> ShardState] /\ handler = "none"
  BY <1>0, TypeParts DEF Dispatched
<1>2. /\ shards' \in [Shards -> ShardState]
      /\ \A k \in Shards : /\ shards'[k].thread = "running" /\ shards'[k].running_
                           /\ shards'[k].queue = shards[k].queue
  BY <1>1 DEF StartShards, ShardState
<1>3. TypeOK'
  <2>1. Control'
    BY <1>0, TypeParts DEF Control
  <2> QED BY <2>1, <1>0, <1>2, TypeParts, TypePartsNext
<1>4. Release'
  <2>1. \A k \in Shards : shards[k].thread = "none"
    BY <1>0 DEF Release
  <2>2. Alive' = Alive
    BY <2>1, <1>2 DEF Alive
  <2>3. 0 \in Shards
    BY ConstantsAssumption DEF Shards
  <2>4. ~(In(octx.queue, "last_shard") \/ ~octx.work_guard_)
    BY <2>1, <2>3 DEF Release
  <2> QED BY <1>0, <2>2, <2>4 DEF Release
<1>5. OneRound'
  BY <1>0 DEF OneRound
<1>6. Answers'
  BY <1>0, <1>2, PulledSame, AnswersKept
<1>7. Dispatched'
  <2>1. \A k \in Shards : PartsSent(k)' = PartsSent(k)
    BY <1>0 DEF PartsSent
  <2> QED BY <1>0, <1>1, <1>2, <2>1 DEF Dispatched
<1> QED BY <1>3, <1>4, <1>5, <1>6, <1>7

LEMMA EnterRunKeeps == ASSUME IInv, EnterRun PROVE IInv'
<1> USE DEF IInv
<1>0. shards' = shards /\ hist' = hist /\ handler' = handler /\ shutdown_' = shutdown_
      /\ pending_metric_pulls_' = pending_metric_pulls_ /\ pulling' = pulling
      /\ active_shards_' = active_shards_ /\ current_action_indx_' = current_action_indx_
      /\ shard_ranges_' = shard_ranges_ /\ phase = "starting" /\ phase' = "running"
  BY DEF EnterRun, dispatchVars, metricsVars
<1>1. octx \in Octx
  BY TypeParts
<1> DEFINE q == Append(octx.queue, "dispatch")
<1>2. "dispatch" \in Names
  BY DEF Names
<1>3. q \in Seq(Names)
      /\ \A x \in {"metrics", "round", "last_shard"} :
            /\ In(q, x) <=> In(octx.queue, x)
            /\ Once(octx.queue, x) => Once(q, x)
  BY <1>1, <1>2, QueueGrows
<1> HIDE DEF q
<1>4. octx' \in Octx /\ octx'.queue = q /\ octx'.work_guard_ = octx.work_guard_
      /\ octx'.metrics_timer_
  BY <1>1, <1>3 DEF EnterRun, Octx, q
<1>5. TypeOK'
  <2>1. Control'
    BY <1>0, TypeParts DEF Control
  <2> QED BY <2>1, <1>0, <1>4, TypeParts, TypePartsNext
<1>6. Release'
  BY <1>0, <1>3, <1>4, ReleaseKept
<1>7. OneRound'
  BY <1>0, <1>3, <1>4 DEF OneRound
<1>8. Answers'
  BY <1>0, <1>3, <1>4, PulledSame, AnswersKept
<1>9. Dispatched'
  BY <1>0, DispatchedKept DEF Dispatched
<1> QED BY <1>5, <1>6, <1>7, <1>8, <1>9

\* Anything that only posts a handler other than those of the metrics rounds
\* and the release, or takes the context as it is.
Harmless == {"dispatch", "shutdown"}
LEMMA PostKeeps ==
    ASSUME IInv, NEW y \in Harmless,
           octx' \in Octx, octx'.queue = Append(octx.queue, y),
           octx'.work_guard_ = octx.work_guard_,
           octx'.metrics_timer_ = octx.metrics_timer_,
           shards' = shards, hist' \in HistState, hist'.sent = hist.sent,
           hist'.recorded = hist.recorded,
           UNCHANGED <<phase, handler, current_action_indx_, shard_ranges_, shutdown_,
                       active_shards_, pending_metric_pulls_, pulling>>
    PROVE  IInv'
<1> USE DEF IInv
<1>1. octx \in Octx /\ y \in Names
  BY TypeParts DEF Names, Harmless
<1> DEFINE q == Append(octx.queue, y)
<1>2. \A x \in {"metrics", "round", "last_shard"} :
            /\ In(q, x) <=> In(octx.queue, x)
            /\ Once(octx.queue, x) => Once(q, x)
  BY <1>1, QueueGrows DEF Harmless
<1> HIDE DEF q
<1>3. octx'.queue = q
  BY DEF q
<1>4. TypeOK'
  <2>1. Control'
    BY TypeParts DEF Control
  <2> QED BY <2>1, TypeParts, TypePartsNext
<1>5. Release'
  BY <1>2, <1>3, ReleaseKept
<1>6. OneRound'
  <2>1. Once(octx.queue, "metrics") /\ Once(octx.queue, "round")
    BY DEF OneRound
  <2> QED BY <1>2, <1>3, <2>1, OneRoundKept
<1>7. Answers'
  BY <1>2, <1>3, PulledSame, AnswersKept
<1>8. Dispatched'
  BY DispatchedKept DEF Dispatched
<1> QED BY <1>4, <1>5, <1>6, <1>7, <1>8

LEMMA EarlyStopKeeps == ASSUME IInv, early_stop PROVE IInv'
<1>1. octx \in Octx /\ hist \in HistState
  BY TypeParts DEF IInv
<1>2. "shutdown" \in Harmless /\ "shutdown" \in Names
  BY DEF Harmless, Names
<1> DEFINE q == Append(octx.queue, "shutdown")
<1>3. q \in Seq(Names)
  BY <1>1, <1>2, QueueGrows
<1> HIDE DEF q
<1>4. octx' \in Octx /\ octx'.queue = q /\ octx'.work_guard_ = octx.work_guard_
      /\ octx'.metrics_timer_ = octx.metrics_timer_
  BY <1>1, <1>3 DEF early_stop, Octx, q
<1>5. hist' \in HistState /\ hist'.sent = hist.sent /\ hist'.recorded = hist.recorded
  BY <1>1 DEF early_stop, HistState
<1>6. shards' = shards
      /\ UNCHANGED <<phase, handler, current_action_indx_, shard_ranges_, shutdown_,
                     active_shards_, pending_metric_pulls_, pulling>>
  BY DEF early_stop, dispatchVars, metricsVars
<1> QED BY <1>2, <1>4, <1>5, <1>6, PostKeeps DEF q

LEMMA DispatchTimerKeeps == ASSUME IInv, DispatchTimerExpires PROVE IInv'
<1>1. octx \in Octx /\ hist \in HistState
  BY TypeParts DEF IInv
<1>2. "dispatch" \in Harmless /\ "dispatch" \in Names
  BY DEF Harmless, Names
<1> DEFINE q == Append(octx.queue, "dispatch")
<1>3. q \in Seq(Names)
  BY <1>1, <1>2, QueueGrows
<1> HIDE DEF q
<1>4. octx' \in Octx /\ octx'.queue = q /\ octx'.work_guard_ = octx.work_guard_
      /\ octx'.metrics_timer_ = octx.metrics_timer_
  BY <1>1, <1>3 DEF DispatchTimerExpires, Octx, q
<1>5. shards' = shards /\ hist' = hist
      /\ UNCHANGED <<phase, handler, current_action_indx_, shard_ranges_, shutdown_,
                     active_shards_, pending_metric_pulls_, pulling>>
  BY DEF DispatchTimerExpires, dispatchVars, metricsVars
<1> QED BY <1>1, <1>2, <1>4, <1>5, PostKeeps DEF q

LEMMA MetricsTimerKeeps == ASSUME IInv, MetricsTimerExpires PROVE IInv'
<1> USE DEF IInv
<1>0. shards' = shards /\ hist' = hist /\ handler' = handler /\ shutdown_' = shutdown_
      /\ pending_metric_pulls_' = pending_metric_pulls_ /\ pulling' = pulling
      /\ active_shards_' = active_shards_ /\ current_action_indx_' = current_action_indx_
      /\ shard_ranges_' = shard_ranges_ /\ phase' = phase /\ phase = "running"
  BY DEF MetricsTimerExpires, dispatchVars, metricsVars
<1>1. octx \in Octx /\ octx.metrics_timer_
  BY TypeParts DEF MetricsTimerExpires
<1> DEFINE q == Append(octx.queue, "metrics")
<1>2. "metrics" \in Names
  BY DEF Names
<1>3. /\ q \in Seq(Names) /\ In(q, "metrics")
      /\ ~In(octx.queue, "metrics") /\ Once(octx.queue, "metrics") => Once(q, "metrics")
      /\ \A x \in {"round", "last_shard"} :
            /\ In(q, x) <=> In(octx.queue, x)
            /\ Once(octx.queue, x) => Once(q, x)
  BY <1>1, <1>2, QueueGrows
<1> HIDE DEF q
<1>4. octx' \in Octx /\ octx'.queue = q /\ octx'.work_guard_ = octx.work_guard_
      /\ ~octx'.metrics_timer_
  BY <1>1, <1>3 DEF MetricsTimerExpires, Octx, q
<1>5. TypeOK'
  <2>1. Control'
    BY <1>0, TypeParts DEF Control
  <2> QED BY <2>1, <1>0, <1>4, TypeParts, TypePartsNext
<1>6. Release'
  BY <1>0, <1>3, <1>4, ReleaseKept
<1>7. OneRound'
  BY <1>0, <1>1, <1>3, <1>4 DEF OneRound
<1>8. Answers'
  BY <1>0, <1>3, <1>4, PulledSame, AnswersKept
<1>9. Dispatched'
  BY <1>0, DispatchedKept DEF Dispatched
<1> QED BY <1>5, <1>6, <1>7, <1>8, <1>9

LEMMA ReturnKeeps == ASSUME IInv, RunReturns \/ JoinShards PROVE IInv'
<1> USE DEF IInv
<1>0. octx' = octx /\ shards' = shards /\ hist' = hist /\ handler' = handler
      /\ shutdown_' = shutdown_
      /\ pending_metric_pulls_' = pending_metric_pulls_ /\ pulling' = pulling
      /\ active_shards_' = active_shards_ /\ current_action_indx_' = current_action_indx_
      /\ shard_ranges_' = shard_ranges_ /\ phase \notin {"new", "starting"}
      /\ phase' \in {"returned", "joined"} /\ ~octx.work_guard_ /\ handler = "none"
  BY DEF RunReturns, JoinShards, dispatchVars, metricsVars, Release, Dispatched
<1>1. TypeOK'
  <2>1. Control'
    BY <1>0, TypeParts DEF Control
  <2> QED BY <2>1, <1>0, TypeParts, TypePartsNext
<1>2. Release'
  BY <1>0 DEF Release, Alive
<1>3. OneRound'
  BY <1>0 DEF OneRound
<1>4. Answers'
  BY <1>0, PulledSame, AnswersKept
<1>5. Dispatched'
  BY <1>0, DispatchedKept DEF Dispatched
<1> QED BY <1>1, <1>2, <1>3, <1>4, <1>5

-----------------------------------------------------------------------------
(* The orchestrator's handlers *)

\* A handler that runs is taken from the queue.
LEMMA QueuePops ==
    ASSUME octx \in Octx, NEW name \in Names, RunNext(name)
    PROVE  /\ phase = "running" /\ handler = "none"
           /\ Popped \in Octx /\ Popped.queue \in Seq(Names)
           /\ Popped.work_guard_ = octx.work_guard_
           /\ Popped.metrics_timer_ = octx.metrics_timer_
           /\ Popped.dispatch_timer_ = octx.dispatch_timer_
           /\ In(octx.queue, name)
           /\ Once(octx.queue, name) => ~In(Popped.queue, name)
           /\ \A x : /\ x # name => (In(octx.queue, x) <=> In(Popped.queue, x))
                     /\ In(Popped.queue, x) => In(octx.queue, x)
                     /\ Once(octx.queue, x) => Once(Popped.queue, x)
<1> DEFINE r == Tail(octx.queue)
<1>1. octx.queue \in Seq(Names) /\ octx.queue # <<>> /\ Head(octx.queue) = name
  BY DEF Octx, RunNext
<1>2. r \in Seq(Names)
  BY <1>1
<1>3. Popped \in Octx /\ Popped.queue = r
      /\ Popped.work_guard_ = octx.work_guard_
      /\ Popped.metrics_timer_ = octx.metrics_timer_
      /\ Popped.dispatch_timer_ = octx.dispatch_timer_
  <2> HIDE DEF r
  <2> QED BY <1>2 DEF Popped, Octx, r
<1>4. \A x : /\ In(octx.queue, x) <=> name = x \/ In(r, x)
             /\ Once(octx.queue, x) => Once(r, x)
             /\ Once(octx.queue, x) /\ name = x => ~In(r, x)
  BY <1>1, InTail
<1> HIDE DEF r
<1> QED BY <1>2, <1>3, <1>4 DEF RunNext, Idle

LEMMA ShutDownKeeps ==
    ASSUME IInv, NEW c \in Octx, ShutDown(c), phase = "running", handler # "metrics",
           handler' = "none",
           c.work_guard_ = octx.work_guard_, c.metrics_timer_ = octx.metrics_timer_,
           \A x \in {"metrics", "round", "last_shard"} :
              /\ In(c.queue, x) <=> In(octx.queue, x)
              /\ Once(octx.queue, x) => Once(c.queue, x),
           UNCHANGED <<phase, current_action_indx_, shard_ranges_, active_shards_,
                       pending_metric_pulls_, pulling, hist>>
    PROVE  IInv'
<1> USE DEF IInv
<1>1. octx \in Octx /\ shards \in [Shards -> ShardState] /\ hist \in HistState
  BY TypeParts
<1>2. /\ octx' \in Octx /\ octx'.queue = c.queue /\ octx'.work_guard_ = c.work_guard_
      /\ octx'.metrics_timer_ => octx.metrics_timer_
  <2>1. CASE shutdown_
    BY <2>1 DEF ShutDown
  <2>2. CASE ~shutdown_
    <3>1. octx' = [c EXCEPT !.dispatch_timer_ = FALSE, !.metrics_timer_ = FALSE]
      BY <2>2 DEF ShutDown
    <3> QED BY <3>1 DEF Octx
  <2> QED BY <2>1, <2>2
<1>3. [kind |-> "stop"] \in Item /\ [kind |-> "stop"].kind = "stop"
  BY DEF Item
<1>4. ASSUME NEW k \in Shards
      PROVE  /\ shards'[k] \in ShardState
             /\ shards'[k].thread = shards[k].thread
             /\ \/ shards'[k].queue = shards[k].queue
                \/ shards'[k].queue = Append(shards[k].queue, [kind |-> "stop"])
  <2>1. CASE shutdown_ \/ ~shards[k].running_
    BY <1>1, <2>1 DEF ShutDown
  <2>2. CASE ~shutdown_ /\ shards[k].running_
    <3> DEFINE item == [kind |-> "stop"]
               q == Append(shards[k].queue, item)
    <3>1. shards[k] \in ShardState
      BY <1>1
    <3>2. q \in Seq(Item)
      <4>1. shards[k].queue \in Seq(Item)
        BY <3>1 DEF ShardState
      <4> HIDE DEF item
      <4> QED BY <4>1, <1>3 DEF item
    <3>3. shards'[k] = [shards[k] EXCEPT !.running_ = FALSE, !.queue = q]
      BY <2>2 DEF ShutDown
    <3> HIDE DEF q
    <3>4. shards'[k] \in ShardState /\ shards'[k].thread = shards[k].thread
          /\ shards'[k].queue = q
      BY <3>1, <3>2, <3>3 DEF ShardState
    <3> QED BY <3>4 DEF q
  <2> QED BY <2>1, <2>2
<1>5. shards' \in [Shards -> ShardState]
  <2>1. CASE shutdown_
    BY <1>1, <2>1 DEF ShutDown
  <2>2. CASE ~shutdown_
    <3>1. shards' = [k \in Shards |-> shards'[k]]
      BY <2>2 DEF ShutDown
    <3> QED BY <3>1, <1>4
  <2> QED BY <2>1, <2>2
<1>6. \A k \in Shards : /\ In(Pulled(k)', "metrics") => In(Pulled(k), "metrics")
                        /\ Once(Pulled(k)', "metrics")
  <2> SUFFICES ASSUME NEW k \in Shards
               PROVE  /\ In(Pulled(k)', "metrics") => In(Pulled(k), "metrics")
                      /\ Once(Pulled(k)', "metrics")
    OBVIOUS
  <2>1. Pulled(k) \in Seq({"action", "metrics", "stop"}) /\ Once(Pulled(k), "metrics")
    BY <1>1, PulledTypes DEF Answers
  <2>2. Pulled(k)' = Kinds(shards'[k].queue)
    BY DEF Pulled, Kinds
  <2>3. CASE shards'[k].queue = shards[k].queue
    BY <2>1, <2>2, <2>3 DEF Pulled
  <2>4. CASE shards'[k].queue = Append(shards[k].queue, [kind |-> "stop"])
    <3> DEFINE item == [kind |-> "stop"]
    <3>1. item \in Item /\ item.kind = "stop"
      BY <1>3
    <3>2. shards[k].queue \in Seq(Item)
      BY <1>1 DEF ShardState
    <3> HIDE DEF item
    <3>3. Kinds(Append(shards[k].queue, item)) = Append(Kinds(shards[k].queue), "stop")
      BY <3>1, <3>2, KindsAre
    <3>4. Pulled(k)' = Append(Pulled(k), "stop")
      BY <2>2, <2>4, <3>3 DEF item, Pulled
    <3>5. "stop" \in {"action", "metrics", "stop"} /\ "stop" # "metrics"
      OBVIOUS
    <3>6. /\ In(Append(Pulled(k), "stop"), "metrics") => In(Pulled(k), "metrics")
          /\ Once(Append(Pulled(k), "stop"), "metrics")
      BY <2>1, <3>5, InAppended
    <3> QED BY <3>4, <3>6
  <2> QED BY <1>4, <2>3, <2>4
<1>7. TypeOK'
  <2>1. Control'
    BY TypeParts DEF Control, ShutDown
  <2> QED BY <2>1, <1>1, <1>2, <1>5, TypePartsNext
<1>8. Release'
  BY <1>2, <1>4, ReleaseKept
<1>9. OneRound'
  <2>1. Once(octx.queue, "metrics") /\ Once(octx.queue, "round")
    BY DEF OneRound
  <2> QED BY <1>2, <2>1, OneRoundKept
<1>10. Answers'
  BY <1>2, <1>6, AnswersKept
<1>11. Dispatched'
  <2>1. shutdown_'
    BY DEF ShutDown
  <2> QED BY <2>1, DispatchedKept
<1> QED BY <1>7, <1>8, <1>9, <1>10, <1>11

LEMMA ShutdownHandlerKeeps == ASSUME IInv, do_shutdown PROVE IInv'
<1>1. octx \in Octx /\ "shutdown" \in Names
  BY TypeParts DEF IInv, Names
<1>2. RunNext("shutdown") /\ ShutDown(Popped)
      /\ UNCHANGED <<phase, handler, current_action_indx_, shard_ranges_, active_shards_,
                     pending_metric_pulls_, pulling, hist>>
  BY DEF do_shutdown, dispatchVars, metricsVars
<1>3. /\ phase = "running" /\ handler = "none"
      /\ Popped \in Octx
      /\ Popped.work_guard_ = octx.work_guard_
      /\ Popped.metrics_timer_ = octx.metrics_timer_
      /\ \A x \in {"metrics", "round", "last_shard"} :
              /\ In(Popped.queue, x) <=> In(octx.queue, x)
              /\ Once(octx.queue, x) => Once(Popped.queue, x)
  BY <1>1, <1>2, QueuePops
<1> QED BY <1>2, <1>3, ShutDownKeeps

LEMMA DispatchEndKeeps == ASSUME IInv, DispatchEnd PROVE IInv'
<1>1. octx \in Octx /\ phase = "running" /\ handler = "dispatch"
  BY TypeParts DEF IInv, Dispatched, DispatchEnd
<1>2. handler' = "none" /\ ShutDown(octx)
      /\ UNCHANGED <<phase, current_action_indx_, shard_ranges_, active_shards_,
                     pending_metric_pulls_, pulling, hist>>
  BY DEF DispatchEnd, dispatchVars, metricsVars
<1> QED BY <1>1, <1>2, ShutDownKeeps

LEMMA DispatchLoopKeeps ==
    ASSUME IInv, DispatchBegin \/ schedule_next_action
    PROVE  IInv'
<1> USE DEF IInv
<1>0. shards' = shards /\ hist' = hist /\ shutdown_' = shutdown_
      /\ pending_metric_pulls_' = pending_metric_pulls_ /\ pulling' = pulling
      /\ active_shards_' = active_shards_ /\ current_action_indx_' = current_action_indx_
      /\ shard_ranges_' = shard_ranges_ /\ phase' = phase
      /\ handler # "metrics" /\ handler' \in {"none", "dispatch"}
  BY DEF DispatchBegin, schedule_next_action, RunNext, Idle, dispatchVars, metricsVars
<1>1. octx \in Octx /\ "dispatch" \in Names
  BY TypeParts DEF Names
<1>2. /\ octx' \in Octx /\ octx'.work_guard_ = octx.work_guard_ /\ phase = "running"
      /\ octx'.metrics_timer_ = octx.metrics_timer_
      /\ \A x \in {"metrics", "round", "last_shard"} :
              /\ In(octx'.queue, x) <=> In(octx.queue, x)
              /\ Once(octx.queue, x) => Once(octx'.queue, x)
  <2>1. CASE DispatchBegin
    <3>1. octx' = Popped /\ RunNext("dispatch")
      BY <2>1 DEF DispatchBegin
    <3> QED BY <1>1, <3>1, QueuePops
  <2>2. CASE schedule_next_action
    <3>1. octx' = [octx EXCEPT !.dispatch_timer_ = TRUE] /\ handler = "dispatch"
      BY <2>2 DEF schedule_next_action
    <3>2. octx' \in Octx /\ octx'.queue = octx.queue /\ octx'.work_guard_ = octx.work_guard_
          /\ octx'.metrics_timer_ = octx.metrics_timer_
      BY <1>1, <3>1 DEF Octx
    <3> QED BY <3>1, <3>2 DEF Dispatched
  <2> QED BY <2>1, <2>2
<1>3. TypeOK'
  <2>1. Control'
    BY <1>0, TypeParts DEF Control
  <2> QED BY <2>1, <1>0, <1>2, TypeParts, TypePartsNext
<1>4. Release'
  BY <1>0, <1>2, ReleaseKept
<1>5. OneRound'
  <2>1. Once(octx.queue, "metrics") /\ Once(octx.queue, "round")
    BY DEF OneRound
  <2> QED BY <1>0, <1>2, <2>1, OneRoundKept
<1>6. Answers'
  BY <1>0, <1>2, PulledSame, AnswersKept
<1>7. Dispatched'
  BY <1>0, <1>2, DispatchedKept
<1> QED BY <1>3, <1>4, <1>5, <1>6, <1>7

LEMMA LastShardKeeps == ASSUME IInv, LastShardExited PROVE IInv'
<1> USE DEF IInv
<1>0. shards' = shards /\ hist' = hist /\ shutdown_' = shutdown_ /\ handler' = handler
      /\ pending_metric_pulls_' = pending_metric_pulls_ /\ pulling' = pulling
      /\ active_shards_' = active_shards_ /\ current_action_indx_' = current_action_indx_
      /\ shard_ranges_' = shard_ranges_ /\ phase' = phase /\ RunNext("last_shard")
  BY DEF LastShardExited, dispatchVars, metricsVars
<1>1. octx \in Octx /\ "last_shard" \in Names
  BY TypeParts DEF Names
<1>2. /\ Popped \in Octx /\ phase = "running" /\ handler = "none"
      /\ Popped.metrics_timer_ = octx.metrics_timer_
      /\ In(octx.queue, "last_shard")
      /\ \A x \in {"metrics", "round"} :
              /\ In(Popped.queue, x) <=> In(octx.queue, x)
              /\ Once(octx.queue, x) => Once(Popped.queue, x)
  BY <1>0, <1>1, QueuePops
<1>3. octx' = [Popped EXCEPT !.work_guard_ = FALSE, !.dispatch_timer_ = FALSE]
  BY DEF LastShardExited
<1>4. octx' \in Octx /\ octx'.queue = Popped.queue
      /\ octx'.metrics_timer_ = octx.metrics_timer_
  BY <1>2, <1>3 DEF Octx
<1>5. TypeOK'
  <2>1. Control'
    BY <1>0, TypeParts DEF Control
  <2> QED BY <2>1, <1>0, <1>4, TypeParts, TypePartsNext
<1>6. Release'
  BY <1>0, <1>2 DEF Release, Alive
<1>7. OneRound'
  <2>1. Once(octx.queue, "metrics") /\ Once(octx.queue, "round")
    BY DEF OneRound
  <2> QED BY <1>0, <1>2, <1>4, <2>1, OneRoundKept
<1>8. Answers'
  BY <1>0, <1>2, <1>4, PulledSame, AnswersKept
<1>9. Dispatched'
  BY <1>0, <1>2, DispatchedKept
<1> QED BY <1>5, <1>6, <1>7, <1>8, <1>9

-----------------------------------------------------------------------------
(* Metrics rounds *)

LEMMA RequestKeeps == ASSUME IInv, RequestMetricsBegin PROVE IInv'
<1> USE DEF IInv
<1>0. shards' = shards /\ hist' = hist /\ shutdown_' = shutdown_ /\ handler' = "metrics"
      /\ pending_metric_pulls_' = NumShards /\ pulling' = 0
      /\ active_shards_' = active_shards_ /\ current_action_indx_' = current_action_indx_
      /\ shard_ranges_' = shard_ranges_ /\ phase' = phase /\ RunNext("metrics")
      /\ octx' = Popped
  BY DEF RequestMetricsBegin, dispatchVars
<1>1. octx \in Octx /\ "metrics" \in Names /\ NumShards \in Nat /\ NumShards > 0
  BY TypeParts, ConstantsAssumption DEF Names
<1>2. /\ octx' \in Octx /\ phase = "running" /\ handler = "none"
      /\ octx'.metrics_timer_ = octx.metrics_timer_
      /\ octx'.work_guard_ = octx.work_guard_
      /\ In(octx.queue, "metrics")
      /\ Once(octx.queue, "metrics") => ~In(octx'.queue, "metrics")
      /\ \A x \in {"round", "last_shard"} : In(octx'.queue, x) <=> In(octx.queue, x)
      /\ \A x \in {"metrics", "round"} : Once(octx.queue, x) => Once(octx'.queue, x)
  BY <1>0, <1>1, QueuePops
<1>3. pending_metric_pulls_ = 0 /\ ~octx.metrics_timer_ /\ ~In(octx.queue, "round")
  BY <1>2 DEF OneRound
<1>4. TypeOK'
  <2>1. Control'
    BY <1>0, <1>1, TypeParts DEF Control
  <2> QED BY <2>1, <1>0, <1>2, TypeParts, TypePartsNext
<1>5. Release'
  BY <1>0, <1>2, ReleaseKept
<1>6. OneRound'
  BY <1>0, <1>1, <1>2, <1>3 DEF OneRound
<1>7. Answers'
  <2>1. \A k \in Shards : hist.recorded[k] = 0 /\ ~In(Pulled(k), "metrics")
                          /\ Once(Pulled(k), "metrics")
    BY <1>3 DEF Answers
  <2>2. Unrecorded' = Shards
    BY <2>1, <1>0 DEF Unrecorded
  <2>3. \A k \in Shards : Pulled(k)' = Pulled(k)
    BY <1>0 DEF Pulled, Kinds
  <2> QED BY <2>1, <2>2, <2>3, <1>0, <1>1, <1>2, <1>3, ShardsFinite DEF Answers
<1>8. Dispatched'
  BY <1>0, <1>2, DispatchedKept
<1> QED BY <1>4, <1>5, <1>6, <1>7, <1>8

LEMMA PullKeeps == ASSUME IInv, schedule_metrics_pull PROVE IInv'
<1> USE DEF IInv
<1>0. /\ octx' = octx /\ hist' = hist /\ shutdown_' = shutdown_ /\ phase' = phase
      /\ handler = "metrics" /\ pulling' = pulling + 1
      /\ handler' = IF pulling' = NumShards THEN "none" ELSE handler
      /\ pending_metric_pulls_' = pending_metric_pulls_
      /\ active_shards_' = active_shards_ /\ current_action_indx_' = current_action_indx_
      /\ shard_ranges_' = shard_ranges_
      /\ shards' = [shards EXCEPT ![pulling].queue = Append(@, [kind |-> "metrics"])]
  BY DEF schedule_metrics_pull, PostPull, dispatchVars
<1>1. /\ shards \in [Shards -> ShardState] /\ phase = "running"
      /\ NumShards \in Nat /\ pulling \in 0 .. NumShards
  BY <1>0, TypeParts, ConstantsAssumption DEF Control, Dispatched
<1>2. pulling \in Shards /\ pending_metric_pulls_ > 0
  BY <1>0, <1>1 DEF Answers, Shards
<1> DEFINE item == [kind |-> "metrics"]
           q == Append(shards[pulling].queue, item)
<1>3. item \in Item /\ item.kind = "metrics"
  BY DEF Item
<1>4. shards[pulling] \in ShardState /\ shards[pulling].queue \in Seq(Item)
  BY <1>1, <1>2 DEF ShardState
<1>5. q \in Seq(Item) /\ Kinds(q) = Append(Pulled(pulling), "metrics")
  <2> HIDE DEF item
  <2> QED BY <1>3, <1>4, KindsAre DEF Pulled
<1>6. shards' = [shards EXCEPT ![pulling].queue = q]
  BY <1>0
<1> HIDE DEF q, item
<1>7. /\ shards' \in [Shards -> ShardState]
      /\ \A k \in Shards : /\ shards'[k].thread = shards[k].thread
                           /\ shards'[k].running_ = shards[k].running_
                           /\ k # pulling => shards'[k].queue = shards[k].queue
      /\ shards'[pulling].queue = q
  BY <1>1, <1>2, <1>4, <1>5, <1>6 DEF ShardState
<1>8. TypeOK'
  <2>1. pulling' \in 0 .. NumShards
    BY <1>0, <1>1, <1>2 DEF Shards
  <2>2. Control'
    BY <1>0, <2>1, TypeParts DEF Control
  <2> QED BY <2>2, <1>0, <1>7, TypeParts, TypePartsNext
<1>9. Release'
  BY <1>0, <1>7, ReleaseKept
<1>10. OneRound'
  BY <1>0 DEF OneRound
<1>11. Answers'
  <2>1. Unrecorded' = Unrecorded
    BY <1>0 DEF Unrecorded
  <2>2. \A k \in Shards : k # pulling => Pulled(k)' = Pulled(k)
    BY <1>7 DEF Pulled, Kinds
  <2>4. \A k \in Shards : k = pulling => Pulled(k)' = Append(Pulled(pulling), "metrics")
    BY <1>5, <1>7 DEF Pulled, Kinds
  <2>5. ~In(Pulled(pulling), "metrics") /\ hist.recorded[pulling] = 0
        /\ Once(Pulled(pulling), "metrics")
    BY <1>1, <1>2 DEF Answers, Shards
  <2>6. Pulled(pulling) \in Seq({"action", "metrics", "stop"})
    BY <1>1, <1>2, PulledTypes
  <2>7. Once(Append(Pulled(pulling), "metrics"), "metrics")
    BY <2>5, <2>6, InAppended
  <2>8. handler' = "metrics" <=> pulling' < NumShards
    BY <1>0, <1>1, <1>2 DEF Shards
  <2>9. ~In(octx.queue, "round")
    BY <1>1, <1>2 DEF OneRound
  <2>10. ASSUME NEW k \in Shards
         PROVE  /\ hist.recorded[k] \in {0, 1}
                /\ hist.recorded[k] = 1 => k < pulling + 1
                /\ In(Pulled(k)', "metrics") => k < pulling + 1 /\ hist.recorded[k] = 0
                /\ Once(Pulled(k)', "metrics")
    <3>1. CASE k = pulling
      <4>1. Pulled(k)' = Append(Pulled(pulling), "metrics")
        BY <2>4, <3>1
      <4>2. hist.recorded[k] = 0
        BY <2>5, <3>1
      <4>3. k < pulling + 1
        BY <1>1, <3>1
      <4>4. Once(Pulled(k)', "metrics")
        BY <2>7, <4>1
      <4> QED BY <4>2, <4>3, <4>4
    <3>2. CASE k # pulling
      BY <1>1, <2>2, <3>2 DEF Answers, Shards
    <3> QED BY <3>1, <3>2
  <2> QED BY <1>0, <1>2, <2>1, <2>8, <2>9, <2>10 DEF Answers
<1>12. Dispatched'
  BY <1>0, <1>1, <1>7, DispatchedKept
<1> QED BY <1>8, <1>9, <1>10, <1>11, <1>12

LEMMA RoundKeeps == ASSUME IInv, on_metrics_round_complete PROVE IInv'
<1> USE DEF IInv
<1>0. shards' = shards /\ shutdown_' = shutdown_ /\ handler' = handler
      /\ pending_metric_pulls_' = pending_metric_pulls_ /\ pulling' = pulling
      /\ active_shards_' = active_shards_ /\ current_action_indx_' = current_action_indx_
      /\ shard_ranges_' = shard_ranges_ /\ phase' = phase /\ RunNext("round")
      /\ octx' = [Popped EXCEPT !.metrics_timer_ = TRUE]
  BY DEF on_metrics_round_complete, dispatchVars, metricsVars
<1>1. octx \in Octx /\ "round" \in Names /\ hist \in HistState
  BY TypeParts DEF Names
<1>2. /\ Popped \in Octx /\ phase = "running" /\ handler = "none"
      /\ Popped.work_guard_ = octx.work_guard_
      /\ In(octx.queue, "round")
      /\ Once(octx.queue, "round") => ~In(Popped.queue, "round")
      /\ \A x \in {"metrics", "last_shard"} : In(Popped.queue, x) <=> In(octx.queue, x)
      /\ \A x \in {"metrics", "round"} : Once(octx.queue, x) => Once(Popped.queue, x)
  BY <1>0, <1>1, QueuePops
<1>3. octx' \in Octx /\ octx'.queue = Popped.queue /\ octx'.metrics_timer_
      /\ octx'.work_guard_ = octx.work_guard_
  BY <1>0, <1>2 DEF Octx
<1>4. pending_metric_pulls_ = 0 /\ ~In(octx.queue, "metrics") /\ ~In(octx'.queue, "round")
  BY <1>2, <1>3 DEF OneRound
<1>5. \A k \in Shards : hist.recorded[k] = 1
  BY <1>2 DEF Answers
<1> DEFINE rec == [k \in Shards |-> hist.recorded[k] - 1]
<1>6. rec \in [Shards -> Nat] /\ \A k \in Shards : rec[k] = 0
  BY <1>5
<1>7. hist' = [hist EXCEPT !.recorded = rec]
  BY DEF on_metrics_round_complete
<1> HIDE DEF rec
<1>8. hist' \in HistState /\ hist'.sent = hist.sent /\ hist'.recorded = rec
  BY <1>1, <1>6, <1>7 DEF HistState
<1>9. TypeOK'
  <2>1. Control'
    BY <1>0, TypeParts DEF Control
  <2> QED BY <2>1, <1>0, <1>3, <1>8, TypeParts, TypePartsNext
<1>10. Release'
  BY <1>0, <1>2, <1>3, ReleaseKept
<1>11. OneRound'
  BY <1>0, <1>2, <1>3, <1>4 DEF OneRound
<1>12. Answers'
  <2>1. \A k \in Shards : Pulled(k)' = Pulled(k)
    BY <1>0 DEF Pulled, Kinds
  <2> QED BY <2>1, <1>0, <1>4, <1>6, <1>8 DEF Answers
<1>13. Dispatched'
  BY <1>0, <1>2, <1>8, DispatchedKept
<1> QED BY <1>9, <1>10, <1>11, <1>12, <1>13

-----------------------------------------------------------------------------
(* The shards' threads *)

LEMMA ShardTakesKeeps ==
    ASSUME IInv, NEW k \in Shards, ShardRunsAction(k) \/ ShardRunsStop(k)
    PROVE  IInv'
<1> USE DEF IInv
<1>0. octx' = octx /\ hist' = hist /\ shutdown_' = shutdown_ /\ handler' = handler
      /\ pending_metric_pulls_' = pending_metric_pulls_ /\ pulling' = pulling
      /\ active_shards_' = active_shards_ /\ current_action_indx_' = current_action_indx_
      /\ shard_ranges_' = shard_ranges_ /\ phase' = phase /\ shards[k].queue # <<>>
  BY DEF ShardRunsAction, ShardRunsStop, ShardTakes, dispatchVars, metricsVars
<1>1. shards \in [Shards -> ShardState]
  BY TypeParts
<1>2. shards' = [shards EXCEPT ![k].queue = Tail(@), ![k].stopping = TRUE]
      \/ shards' = [shards EXCEPT ![k].queue = Tail(@)]
  BY DEF ShardRunsAction, ShardRunsStop
<1>3. /\ shards' \in [Shards -> ShardState]
      /\ \A l \in Shards : /\ shards'[l].thread = shards[l].thread
                           /\ shards'[l].running_ = shards[l].running_
      /\ Pulled(k)' = Tail(Pulled(k)) /\ Pulled(k) # <<>>
      /\ Pulled(k) \in Seq({"action", "metrics", "stop"})
      /\ \A l \in Shards : l # k => Pulled(l)' = Pulled(l)
  BY <1>0, <1>1, <1>2, ShardPops
<1>4. \A l \in Shards : /\ In(Pulled(l)', "metrics") => In(Pulled(l), "metrics")
                        /\ Once(Pulled(l)', "metrics")
  <2>1. \A l \in Shards : Once(Pulled(l), "metrics")
    BY DEF Answers
  <2>2. /\ In(Tail(Pulled(k)), "metrics") => In(Pulled(k), "metrics")
        /\ Once(Tail(Pulled(k)), "metrics")
    BY <2>1, <1>3, InTail
  <2> QED BY <2>1, <2>2, <1>3
<1>5. TypeOK'
  <2>1. Control'
    BY <1>0, TypeParts DEF Control
  <2> QED BY <2>1, <1>0, <1>3, TypeParts, TypePartsNext
<1>6. Release'
  BY <1>0, <1>3, ReleaseKept
<1>7. OneRound'
  BY <1>0 DEF OneRound
<1>8. Answers'
  BY <1>0, <1>4, AnswersKept
<1>9. Dispatched'
  BY <1>0, <1>3, DispatchedKept DEF Dispatched
<1> QED BY <1>5, <1>6, <1>7, <1>8, <1>9

LEMMA CallbackKeeps ==
    ASSUME IInv, NEW k \in Shards, shard_metrics_callback(k)
    PROVE  IInv'
<1> USE DEF IInv
<1> DEFINE last == pending_metric_pulls_ - 1 = 0
<1>0. shutdown_' = shutdown_ /\ handler' = handler
      /\ pending_metric_pulls_' = pending_metric_pulls_ - 1 /\ pulling' = pulling
      /\ active_shards_' = active_shards_ /\ current_action_indx_' = current_action_indx_
      /\ shard_ranges_' = shard_ranges_ /\ phase' = phase /\ shards[k].queue # <<>>
      /\ Head(shards[k].queue).kind = "metrics"
      /\ shards' = [shards EXCEPT ![k].queue = Tail(@)]
      /\ octx' = IF last THEN [octx EXCEPT !.queue = Append(@, "round")] ELSE octx
  BY DEF shard_metrics_callback, Records, ShardTakes, dispatchVars
<1>1. /\ shards \in [Shards -> ShardState] /\ octx \in Octx /\ hist \in HistState
      /\ "round" \in Names /\ pending_metric_pulls_ \in Nat /\ pulling \in 0 .. NumShards
      /\ NumShards \in Nat
  BY TypeParts, ConstantsAssumption DEF Names, Control
<1>2. /\ shards' \in [Shards -> ShardState]
      /\ \A l \in Shards : /\ shards'[l].thread = shards[l].thread
                           /\ shards'[l].running_ = shards[l].running_
      /\ Pulled(k)' = Tail(Pulled(k)) /\ Pulled(k) # <<>>
      /\ Pulled(k) \in Seq({"action", "metrics", "stop"})
      /\ Head(Pulled(k)) = "metrics"
      /\ \A l \in Shards : l # k => Pulled(l)' = Pulled(l)
  BY <1>0, <1>1, ShardPops
<1>3. In(Pulled(k), "metrics") /\ ~In(Tail(Pulled(k)), "metrics")
      /\ Once(Tail(Pulled(k)), "metrics")
  <2>1. Once(Pulled(k), "metrics")
    BY DEF Answers
  <2> QED BY <2>1, <1>2, InTail
<1>4. pending_metric_pulls_ > 0 /\ k < pulling /\ hist.recorded[k] = 0
  BY <1>3 DEF Answers
<1>5. ~octx.metrics_timer_ /\ ~In(octx.queue, "metrics") /\ ~In(octx.queue, "round")
      /\ phase \notin {"new", "starting"}
  BY <1>4 DEF OneRound
<1>6. hist' \in HistState /\ hist'.sent = hist.sent /\ hist'.recorded[k] = 1
      /\ \A l \in Shards : l # k => hist'.recorded[l] = hist.recorded[l]
  <2>1. hist' = [hist EXCEPT !.recorded[k] = @ + 1]
    BY DEF shard_metrics_callback, Records
  <2> DEFINE rec == [hist.recorded EXCEPT ![k] = @ + 1]
  <2>2. hist.recorded \in [Shards -> Nat]
    BY <1>1 DEF HistState
  <2>3. rec \in [Shards -> Nat] /\ rec[k] = 1
        /\ \A l \in Shards : l # k => rec[l] = hist.recorded[l]
    BY <1>4, <2>2
  <2>4. hist' = [hist EXCEPT !.recorded = rec]
    BY <2>1, <1>1 DEF HistState
  <2> HIDE DEF rec
  <2>5. hist' \in HistState /\ hist'.sent = hist.sent /\ hist'.recorded = rec
    BY <1>1, <2>3, <2>4 DEF HistState
  <2> QED BY <2>3, <2>5
<1>7. Unrecorded' = Unrecorded \ {k} /\ k \in Unrecorded /\ Unrecorded \subseteq Shards
  BY <1>4, <1>6 DEF Unrecorded
<1>8. /\ pending_metric_pulls_ - 1 = Cardinality(Unrecorded \ {k})
      /\ pending_metric_pulls_ - 1 \in Nat /\ IsFiniteSet(Unrecorded \ {k})
  <2>1. IsFiniteSet(Unrecorded) /\ pending_metric_pulls_ = Cardinality(Unrecorded)
    BY <1>4, <1>7, ShardsFinite DEF Answers
  <2>2. IsFiniteSet(Unrecorded \ {k})
        /\ Cardinality(Unrecorded \ {k}) = Cardinality(Unrecorded) - 1
    BY <1>7, <2>1, FS_RemoveElement
  <2> QED BY <1>1, <1>4, <2>1, <2>2
<1>9. last => Unrecorded' = {}
  BY <1>7, <1>8, FS_EmptySet
<1>10. last => \A l \in Shards : hist'.recorded[l] = 1
  <2>1. \A l \in Shards : hist.recorded[l] \in {0, 1}
    BY DEF Answers
  <2> QED BY <1>6, <1>9, <2>1 DEF Unrecorded
<1>11. last => pulling = NumShards
  <2> SUFFICES ASSUME last, pulling # NumShards PROVE FALSE
    OBVIOUS
  <2>1. pulling \in Shards
    BY <1>1 DEF Shards
  <2>2. hist.recorded[pulling] = 0 /\ pulling # k
    BY <1>1, <1>4, <2>1 DEF Answers, Shards
  <2>3. pulling \in Unrecorded'
    BY <2>1, <2>2, <1>6 DEF Unrecorded
  <2> QED BY <2>3, <1>9
<1>12. /\ octx' \in Octx /\ octx'.work_guard_ = octx.work_guard_ /\ ~octx'.metrics_timer_
       /\ In(octx'.queue, "round") <=> last
       /\ ~In(octx'.queue, "metrics")
       /\ In(octx'.queue, "last_shard") => In(octx.queue, "last_shard")
       /\ Once(octx'.queue, "metrics") /\ Once(octx'.queue, "round")
  <2>0. Once(octx.queue, "metrics") /\ Once(octx.queue, "round")
    BY DEF OneRound
  <2>1. CASE ~last
    BY <2>0, <2>1, <1>0, <1>1, <1>5
  <2>2. CASE last
    <3> DEFINE q == Append(octx.queue, "round")
    <3>1. /\ q \in Seq(Names) /\ In(q, "round") /\ ~In(q, "metrics")
          /\ In(q, "last_shard") => In(octx.queue, "last_shard")
          /\ Once(q, "metrics") /\ Once(q, "round")
      BY <2>0, <1>1, <1>5, QueueGrows
    <3>2. octx' = [octx EXCEPT !.queue = q]
      BY <1>0, <2>2
    <3> HIDE DEF q
    <3>3. octx' \in Octx /\ octx'.queue = q /\ octx'.work_guard_ = octx.work_guard_
          /\ octx'.metrics_timer_ = octx.metrics_timer_
      BY <1>1, <3>1, <3>2 DEF Octx
    <3> QED BY <2>2, <3>1, <3>3, <1>5
  <2> QED BY <2>1, <2>2
<1>13. last <=> pending_metric_pulls_' = 0
  BY <1>0
<1> HIDE DEF last
<1>14. TypeOK'
  <2>1. Control'
    BY <1>0, <1>8, TypeParts DEF Control
  <2> QED BY <2>1, <1>0, <1>2, <1>6, <1>12, TypeParts, TypePartsNext
<1>15. Release'
  BY <1>0, <1>2, <1>12, ReleaseKept
<1>16. OneRound'
  BY <1>0, <1>5, <1>12, <1>13 DEF OneRound
<1>17. Answers'
  <2>1. pending_metric_pulls_' \in Nat
        /\ pending_metric_pulls_' = Cardinality(Unrecorded')
    BY <1>0, <1>7, <1>8
  <2>2. pulling' < NumShards => pending_metric_pulls_' > 0
    BY <1>0, <1>1, <1>11, <1>13, <2>1
  <2>3. ASSUME NEW l \in Shards
        PROVE  /\ hist'.recorded[l] \in {0, 1}
               /\ hist'.recorded[l] = 1 => l < pulling
               /\ In(octx'.queue, "round") => hist'.recorded[l] = 1
               /\ In(Pulled(l)', "metrics") =>
                     pending_metric_pulls_' > 0 /\ l < pulling /\ hist'.recorded[l] = 0
               /\ Once(Pulled(l)', "metrics")
    <3>1. CASE l = k
      <4>1. Pulled(l)' = Tail(Pulled(k)) /\ hist'.recorded[l] = 1
        BY <3>1, <1>2, <1>6
      <4> QED BY <4>1, <1>3, <1>4, <3>1
    <3>2. CASE l # k
      <4>1. Pulled(l)' = Pulled(l) /\ hist'.recorded[l] = hist.recorded[l]
        BY <3>2, <1>2, <1>6
      <4>2. In(Pulled(l), "metrics") => ~last
        <5>1. In(Pulled(l), "metrics") => hist'.recorded[l] = 0
          BY <4>1 DEF Answers
        <5> QED BY <5>1, <1>10
      <4>3. ~last => pending_metric_pulls_' > 0
        BY <2>1, <1>13
      <4>4. last => hist'.recorded[l] = 1
        BY <1>10
      <4> QED BY <4>1, <4>2, <4>3, <4>4, <1>12 DEF Answers
    <3> QED BY <3>1, <3>2
  <2>4. pending_metric_pulls_' > 0 \/ In(octx'.queue, "round")
    BY <2>1, <1>12, <1>13
  <2> QED BY <1>0, <2>1, <2>2, <2>3, <2>4 DEF Answers
<1>18. Dispatched'
  BY <1>0, <1>2, <1>6, DispatchedKept DEF Dispatched
<1> QED BY <1>14, <1>15, <1>16, <1>17, <1>18

LEMMA ExitKeeps ==
    ASSUME IInv, NEW k \in Shards, shard_exit_callback(k)
    PROVE  IInv'
<1> USE DEF IInv
<1> DEFINE last == active_shards_ - 1 = 0
<1>0. shutdown_' = shutdown_ /\ handler' = handler /\ hist' = hist
      /\ pending_metric_pulls_' = pending_metric_pulls_ /\ pulling' = pulling
      /\ active_shards_' = active_shards_ - 1
      /\ current_action_indx_' = current_action_indx_
      /\ shard_ranges_' = shard_ranges_ /\ phase' = phase
      /\ shards[k].thread = "running"
      /\ shards' = [shards EXCEPT ![k].thread = "exited"]
      /\ octx' = IF last THEN [octx EXCEPT !.queue = Append(@, "last_shard")] ELSE octx
  BY DEF shard_exit_callback, ThreadEnds, dispatchVars, metricsVars
<1>1. /\ shards \in [Shards -> ShardState] /\ octx \in Octx
      /\ "last_shard" \in Names /\ active_shards_ \in Nat
  BY TypeParts DEF Names, Control
<1>2. /\ shards' \in [Shards -> ShardState]
      /\ \A l \in Shards : /\ shards'[l].running_ = shards[l].running_
                           /\ shards'[l].queue = shards[l].queue
                           /\ l # k => shards'[l].thread = shards[l].thread
      /\ shards'[k].thread = "exited"
  BY <1>0, <1>1 DEF ShardState
<1>3. /\ phase # "new" /\ ~In(octx.queue, "last_shard") /\ octx.work_guard_
      /\ phase \notin {"returned", "joined"}
  BY <1>0 DEF Release
<1>4. Alive' = Alive \ {k} /\ k \in Alive /\ Alive \subseteq Shards
  BY <1>0, <1>2 DEF Alive
<1>5. /\ active_shards_ - 1 = Cardinality(Alive \ {k})
      /\ active_shards_ - 1 \in Nat /\ IsFiniteSet(Alive \ {k})
  <2>1. IsFiniteSet(Alive) /\ active_shards_ = Cardinality(Alive)
    BY <1>4, ShardsFinite DEF Release
  <2>2. IsFiniteSet(Alive \ {k}) /\ Cardinality(Alive \ {k}) = Cardinality(Alive) - 1
    BY <1>4, <2>1, FS_RemoveElement
  <2>3. Cardinality(Alive \ {k}) \in Nat
    BY <2>2, FS_CardinalityType
  <2> QED BY <2>1, <2>2, <2>3
<1>6. last => \A l \in Shards : shards'[l].thread = "exited"
  <2>1. last => Alive' = {}
    BY <1>4, <1>5, FS_EmptySet
  <2> QED BY <2>1 DEF Alive
<1>7. /\ octx' \in Octx /\ octx'.work_guard_ = octx.work_guard_
      /\ octx'.metrics_timer_ = octx.metrics_timer_
      /\ In(octx'.queue, "last_shard") => last
      /\ \A x \in {"metrics", "round"} : /\ In(octx'.queue, x) <=> In(octx.queue, x)
                                         /\ Once(octx'.queue, x)
  <2>0. \A x \in {"metrics", "round"} : Once(octx.queue, x)
    BY DEF OneRound
  <2>1. CASE ~last
    BY <2>0, <2>1, <1>0, <1>1, <1>3
  <2>2. CASE last
    <3> DEFINE q == Append(octx.queue, "last_shard")
    <3>1. /\ q \in Seq(Names)
          /\ \A x \in {"metrics", "round"} : /\ In(q, x) <=> In(octx.queue, x)
                                             /\ Once(q, x)
      BY <2>0, <1>1, QueueGrows
    <3>2. octx' = [octx EXCEPT !.queue = q]
      BY <1>0, <2>2
    <3> HIDE DEF q
    <3>3. octx' \in Octx /\ octx'.queue = q /\ octx'.work_guard_ = octx.work_guard_
          /\ octx'.metrics_timer_ = octx.metrics_timer_
      BY <1>1, <3>1, <3>2 DEF Octx
    <3> QED BY <2>2, <3>1, <3>3
  <2> QED BY <2>1, <2>2
<1> HIDE DEF last
<1>8. TypeOK'
  <2>1. Control'
    BY <1>0, <1>5, TypeParts DEF Control
  <2> QED BY <2>1, <1>0, <1>2, <1>7, TypeParts, TypePartsNext
<1>9. Release'
  BY <1>0, <1>3, <1>4, <1>5, <1>6, <1>7 DEF Release
<1>10. OneRound'
  BY <1>0, <1>7, OneRoundKept
<1>11. Answers'
  BY <1>0, <1>2, <1>7, PulledSame, AnswersKept
<1>12. Dispatched'
  BY <1>0, <1>2, DispatchedKept DEF Dispatched
<1> QED BY <1>8, <1>9, <1>10, <1>11, <1>12

-----------------------------------------------------------------------------
(* Dispatch of an action *)

LEMMA ActionTypes ==
    ASSUME NEW j \in 1 .. Len(Actions)
    PROVE  /\ Actions[j].first \in Nat /\ Actions[j].last \in Nat
           /\ Actions[j].last <= NumSessions
           /\ Actions[j].type = "CREATE" <=> j = 1
<1>1. Actions \in Seq([type : {"CREATE", "RANGE"}, first : Nat, last : Nat])
      /\ NumSessions \in Nat
  BY ConstantsAssumption
<1>2. Actions[j] \in [type : {"CREATE", "RANGE"}, first : Nat, last : Nat]
  <2> DEFINE T == [type : {"CREATE", "RANGE"}, first : Nat, last : Nat]
  <2>1. Actions \in Seq(T)
    BY <1>1
  <2> HIDE DEF T
  <2>2. Actions[j] \in T
    BY <2>1
  <2> QED BY <2>2 DEF T
<1>3. CASE j = 1
  <2>1. Actions[1] = [type |-> "CREATE", first |-> 0, last |-> NumSessions]
    BY ConstantsAssumption
  <2>2. Actions[j].type = "CREATE" /\ Actions[j].last = NumSessions
    BY <1>3, <2>1
  <2> QED BY <1>1, <1>2, <1>3, <2>2
<1>4. CASE j # 1
  <2>1. j \in 2 .. Len(Actions)
    BY <1>1, <1>4
  <2>2. Actions[j].type = "RANGE" /\ Actions[j].last <= NumSessions
    BY <2>1, ConstantsAssumption
  <2> QED BY <1>2, <1>4, <2>2
<1> QED BY <1>2, <1>3, <1>4

LEMMA RangesAre ==
    /\ CreateRanges \in Seq([first : Nat, last : Nat])
    /\ \A k \in Shards : /\ CreateRanges[k + 1].first = RangeStart[k]
                         /\ CreateRanges[k + 1].last = RangeStart[k + 1]
                         /\ RangeStart[k] \in Nat /\ RangeStart[k + 1] \in Nat
<1>1. NumShards \in Nat
  BY ConstantsAssumption
<1>2. ASSUME NEW i \in 1 .. NumShards
      PROVE  RangeStart[i - 1] \in Nat /\ RangeStart[i] \in Nat
  BY <1>1, RangeStartBounds
<1>3. ASSUME NEW k \in Shards
      PROVE  /\ CreateRanges[k + 1].first = RangeStart[k]
             /\ CreateRanges[k + 1].last = RangeStart[k + 1]
             /\ RangeStart[k] \in Nat /\ RangeStart[k + 1] \in Nat
  <2>1. k \in Nat /\ k + 1 \in 1 .. NumShards /\ (k + 1) - 1 = k
    BY <1>1 DEF Shards
  <2>2. CreateRanges[k + 1] = [first |-> RangeStart[(k + 1) - 1], last |-> RangeStart[k + 1]]
    BY <2>1 DEF CreateRanges
  <2> QED BY <2>1, <2>2, RangeStartBounds
<1>4. CreateRanges \in Seq([first : Nat, last : Nat])
  BY <1>1, <1>2 DEF CreateRanges
<1> QED BY <1>3, <1>4

\* The part of an action that falls to a shard: one item, which covers what the
\* action and the shard have in common, or none when they have nothing.
LEMMA PartOf ==
    ASSUME NEW j \in 1 .. Len(Actions), NEW k \in Shards
    PROVE  /\ ShardAction(j, k, CreateRanges) \subseteq Item
           /\ \A item \in ShardAction(j, k, CreateRanges) :
                 /\ item.kind = "action" /\ item.index = j
                 /\ item.first \in Nat /\ item.last \in Nat
           /\ \A g \in Nat :
                 (\E item \in ShardAction(j, k, CreateRanges) :
                     g \in {RangeStart[k] + i : i \in item.first .. item.last - 1})
                 <=> /\ Actions[j].first <= g /\ g < Actions[j].last
                     /\ RangeStart[k] <= g /\ g < RangeStart[k + 1]
<1> DEFINE a == Actions[j].first
           b == Actions[j].last
           s == RangeStart[k]
           e == RangeStart[k + 1]
           lower == Larger(a, s)
           upper == Smaller(b, e)
           local == lower - s
           len == local + (upper - lower)
           it == [kind |-> "action", index |-> j, first |-> local, last |-> len]
<1>1. a \in Nat /\ b \in Nat /\ s \in Nat /\ e \in Nat
  BY ActionTypes, RangesAre
<1>2. ShardAction(j, k, CreateRanges) = IF lower >= upper THEN {} ELSE {it}
  BY RangesAre DEF ShardAction
<1> HIDE DEF a, b, s, e
<1>3. /\ lower \in Nat /\ upper \in Nat /\ lower >= s /\ local \in Nat
      /\ \A g \in Nat : lower <= g /\ g < upper <=> a <= g /\ g < b /\ s <= g /\ g < e
  BY <1>1 DEF Larger, Smaller
<1>4. CASE lower >= upper
  <2>1. \A g \in Nat : ~(lower <= g /\ g < upper)
    BY <1>3, <1>4
  <2> QED BY <1>2, <1>3, <1>4, <2>1 DEF a, b, s, e
<1>5. CASE ~(lower >= upper)
  <2> HIDE DEF lower, upper
  <2>1. len \in Nat /\ j \in Nat
    BY <1>1, <1>3, <1>5
  <2>2. ASSUME NEW g \in Nat
        PROVE  g \in {s + i : i \in local .. len - 1} <=> lower <= g /\ g < upper
    <3>1. ASSUME NEW i \in local .. len - 1, g = s + i PROVE lower <= g /\ g < upper
      BY <1>1, <1>3, <3>1
    <3>2. ASSUME lower <= g, g < upper PROVE \E i \in local .. len - 1 : g = s + i
      <4>1. g - s \in local .. len - 1 /\ g = s + (g - s)
        BY <1>1, <1>3, <3>2
      <4> QED BY <4>1
    <3> QED BY <3>1, <3>2
  <2>3. local \in Nat
    BY <1>3
  <2> HIDE DEF local, len
  <2>4. it \in Item /\ it.kind = "action" /\ it.index = j
        /\ it.first = local /\ it.last = len
    BY <2>1, <2>3 DEF Item
  <2> HIDE DEF it
  <2>5. ShardAction(j, k, CreateRanges) = {it}
    BY <1>2, <1>5
  <2>6. \A g \in Nat :
           (\E item \in {it} : g \in {s + i : i \in item.first .. item.last - 1})
             <=> a <= g /\ g < b /\ s <= g /\ g < e
    BY <1>3, <2>2, <2>4
  <2> QED BY <2>1, <2>3, <2>4, <2>5, <2>6 DEF a, b, s, e
<1> QED BY <1>4, <1>5

LEMMA DueActionKeeps == ASSUME IInv, DispatchDueAction PROVE IInv'
<1> USE DEF IInv
<1> DEFINE j == current_action_indx_ + 1
           takers == {k \in Shards : shards[k].running_}
           part == [k \in Shards |->
                      IF k \in takers THEN ShardAction(j, k, CreateRanges) ELSE {}]
<1>0. octx' = octx /\ shutdown_' = shutdown_ /\ handler' = handler /\ handler = "dispatch"
      /\ pending_metric_pulls_' = pending_metric_pulls_ /\ pulling' = pulling
      /\ active_shards_' = active_shards_ /\ current_action_indx_' = j /\ phase' = phase
      /\ Distribute(j, takers)
      /\ current_action_indx_ < Len(Actions)
  BY DEF DispatchDueAction, distribute_action_to_shards, metricsVars
<1>1. /\ shards \in [Shards -> ShardState] /\ octx \in Octx /\ hist \in HistState
      /\ current_action_indx_ \in Nat /\ phase = "running"
  BY <1>0, TypeParts DEF Control, Dispatched
<1>2. j \in 1 .. Len(Actions) /\ j \in Nat
  <2>1. Len(Actions) \in Nat
    BY ConstantsAssumption
  <2> QED BY <2>1, <1>0, <1>1
<1>3. (IF Actions[j].type = "CREATE" THEN CreateRanges ELSE shard_ranges_) = CreateRanges
  <2>1. CASE j = 1
    BY <1>2, <2>1, ActionTypes
  <2>2. CASE j # 1
    <3>1. current_action_indx_ > 0
      BY <1>1, <2>2
    <3> QED BY <3>1 DEF Dispatched
  <2> QED BY <2>1, <2>2
<1> HIDE DEF j, takers
<1>4. /\ shard_ranges_' = CreateRanges
      /\ shards' = [k \in Shards |->
                        IF part[k] = {}
                        THEN shards[k]
                        ELSE [shards[k] EXCEPT
                                !.queue = Append(@, CHOOSE item \in part[k] : TRUE)]]
      /\ hist' = [hist EXCEPT !.sent = [k \in Shards |-> @[k] \cup part[k]]]
  BY <1>0, <1>3 DEF Distribute
<1>5. \A k \in Shards : /\ part[k] \subseteq Item
                        /\ \A item \in part[k] : item.kind = "action"
                        /\ k \in takers => part[k] = ShardAction(j, k, CreateRanges)
  BY <1>2, PartOf
<1> HIDE DEF part
<1>6. ASSUME NEW k \in Shards
      PROVE  /\ shards'[k] \in ShardState
             /\ shards'[k].thread = shards[k].thread
             /\ shards'[k].running_ = shards[k].running_
             /\ In(Pulled(k)', "metrics") => In(Pulled(k), "metrics")
             /\ Once(Pulled(k)', "metrics")
  <2>1. shards[k] \in ShardState /\ shards[k].queue \in Seq(Item)
    BY <1>1 DEF ShardState
  <2>2. Once(Pulled(k), "metrics") /\ Pulled(k) \in Seq({"action", "metrics", "stop"})
    BY <1>1, PulledTypes DEF Answers
  <2>3. Pulled(k)' = Kinds(shards'[k].queue)
    BY DEF Pulled, Kinds
  <2>4. CASE part[k] = {}
    <3>1. shards'[k] = shards[k]
      BY <1>4, <2>4
    <3> QED BY <3>1, <2>1, <2>2, <2>3 DEF Pulled
  <2>5. CASE part[k] # {}
    <3> DEFINE it == CHOOSE item \in part[k] : TRUE
               q == Append(shards[k].queue, it)
    <3>1. it \in part[k]
      BY <2>5
    <3>2. shards'[k] = [shards[k] EXCEPT !.queue = q]
      BY <1>4, <2>5
    <3> HIDE DEF it
    <3>3. it \in Item /\ it.kind = "action"
      BY <1>5, <3>1
    <3>4. q \in Seq(Item) /\ Kinds(q) = Append(Pulled(k), "action")
      BY <2>1, <3>3, KindsAre DEF Pulled
    <3> HIDE DEF q
    <3>5. shards'[k] \in ShardState /\ shards'[k].thread = shards[k].thread
          /\ shards'[k].running_ = shards[k].running_ /\ shards'[k].queue = q
      BY <2>1, <3>2, <3>4 DEF ShardState
    <3>6. Pulled(k)' = Append(Pulled(k), "action")
      BY <2>3, <3>4, <3>5
    <3>7. "action" \in {"action", "metrics", "stop"} /\ "action" # "metrics"
      OBVIOUS
    <3>8. /\ In(Append(Pulled(k), "action"), "metrics") => In(Pulled(k), "metrics")
          /\ Once(Append(Pulled(k), "action"), "metrics")
      BY <2>2, <3>7, InAppended
    <3> QED BY <3>5, <3>6, <3>8
  <2> QED BY <2>4, <2>5
<1>7. shards' \in [Shards -> ShardState]
  <2>1. shards' = [k \in Shards |-> shards'[k]]
    BY <1>4
  <2> QED BY <2>1, <1>6
<1> DEFINE snt == [k \in Shards |-> hist.sent[k] \cup part[k]]
<1>8. hist' = [hist EXCEPT !.sent = snt] /\ snt \in [Shards -> SUBSET Item]
  <2>1. hist.sent \in [Shards -> SUBSET Item]
    BY <1>1 DEF HistState
  <2> QED BY <2>1, <1>4, <1>5
<1> HIDE DEF snt
<1>9. hist' \in HistState /\ hist'.sent = snt /\ hist'.recorded = hist.recorded
  BY <1>1, <1>8 DEF HistState
<1>10. TypeOK'
  <2>1. Control'
    BY <1>0, <1>2, <1>4, RangesAre, TypeParts DEF Control
  <2> QED BY <2>1, <1>0, <1>1, <1>7, <1>9, TypePartsNext
<1>11. Release'
  BY <1>0, <1>6, ReleaseKept
<1>12. OneRound'
  BY <1>0 DEF OneRound
<1>13. Answers'
  BY <1>0, <1>6, <1>9, AnswersKept
<1>14. Dispatched'
  <2>1. current_action_indx_' <= Len(Actions)
    BY <1>0, <1>2
  <2>2. ASSUME ~shutdown_, NEW k \in Shards
        PROVE  shards'[k].running_ /\ hist'.sent[k] = PartsSent(k)'
    <3>1. shards[k].running_ /\ hist.sent[k] = PartsSent(k)
      BY <1>1, <2>2 DEF Dispatched
    <3>2. part[k] = ShardAction(j, k, CreateRanges)
      BY <1>5, <3>1 DEF takers
    <3>3. 1 .. current_action_indx_' = (1 .. current_action_indx_) \cup {j}
      BY <1>0, <1>1 DEF j
    <3>4. PartsSent(k)' = PartsSent(k) \cup ShardAction(j, k, CreateRanges)
      BY <3>3 DEF PartsSent
    <3>5. snt[k] = hist.sent[k] \cup part[k]
      BY DEF snt
    <3> QED BY <1>6, <1>9, <3>1, <3>2, <3>4, <3>5
  <2> QED BY <1>0, <1>1, <1>4, <2>1, <2>2 DEF Dispatched
<1> QED BY <1>10, <1>11, <1>12, <1>13, <1>14

-----------------------------------------------------------------------------
(* The invariant, and the properties that follow from it. *)

LEMMA StutterKeeps == ASSUME IInv, UNCHANGED vars PROVE IInv'
<1>1. octx' = octx /\ shards' = shards /\ hist' = hist /\ handler' = handler
      /\ shutdown_' = shutdown_ /\ phase' = phase
      /\ pending_metric_pulls_' = pending_metric_pulls_ /\ pulling' = pulling
      /\ active_shards_' = active_shards_ /\ current_action_indx_' = current_action_indx_
      /\ shard_ranges_' = shard_ranges_
  BY DEF vars
<1>2. TypeOK'
  BY <1>1 DEF IInv, TypeOK
<1>3. Release'
  BY <1>1, ReleaseKept DEF IInv
<1>4. OneRound'
  BY <1>1 DEF IInv, OneRound
<1>5. Answers'
  BY <1>1, PulledSame, AnswersKept DEF IInv
<1>6. Dispatched'
  BY <1>1, DispatchedKept DEF IInv, Dispatched
<1> QED BY <1>2, <1>3, <1>4, <1>5, <1>6 DEF IInv

LEMMA StepKeeps == IInv /\ [Next]_vars => IInv'
<1> SUFFICES ASSUME IInv, [Next]_vars PROVE IInv'
  OBVIOUS
<1>1. CASE StartShards
  BY <1>1, StartShardsKeeps
<1>2. CASE EnterRun
  BY <1>2, EnterRunKeeps
<1>3. CASE early_stop
  BY <1>3, EarlyStopKeeps
<1>4. CASE RunReturns \/ JoinShards
  BY <1>4, ReturnKeeps
<1>5. CASE do_shutdown
  BY <1>5, ShutdownHandlerKeeps
<1>6. CASE DispatchBegin \/ schedule_next_action
  BY <1>6, DispatchLoopKeeps
<1>7. CASE DispatchDueAction
  BY <1>7, DueActionKeeps
<1>8. CASE DispatchEnd
  BY <1>8, DispatchEndKeeps
<1>9. CASE RequestMetricsBegin
  BY <1>9, RequestKeeps
<1>10. CASE schedule_metrics_pull
  BY <1>10, PullKeeps
<1>11. CASE on_metrics_round_complete
  BY <1>11, RoundKeeps
<1>12. CASE LastShardExited
  BY <1>12, LastShardKeeps
<1>13. CASE DispatchTimerExpires
  BY <1>13, DispatchTimerKeeps
<1>14. CASE MetricsTimerExpires
  BY <1>14, MetricsTimerKeeps
<1>15. CASE \E k \in Shards : ShardRuns(k) \/ shard_exit_callback(k)
  <2>1. PICK k \in Shards : ShardRuns(k) \/ shard_exit_callback(k)
    BY <1>15
  <2>2. CASE ShardRunsAction(k) \/ ShardRunsStop(k)
    BY <2>2, ShardTakesKeeps
  <2>3. CASE shard_metrics_callback(k)
    BY <2>3, CallbackKeeps
  <2>4. CASE shard_exit_callback(k)
    BY <2>4, ExitKeeps
  <2> QED BY <2>1, <2>2, <2>3, <2>4 DEF ShardRuns
<1>16. CASE UNCHANGED vars
  BY <1>16, StutterKeeps
<1> QED BY <1>1, <1>2, <1>3, <1>4, <1>5, <1>6, <1>7, <1>8, <1>9, <1>10, <1>11, <1>12,
           <1>13, <1>14, <1>15, <1>16 DEF Next, Handlers

\* The inductive invariant of the orchestrator and its shards.
THEOREM Invariance == Spec => []IInv
<1>1. Init => IInv
  BY InitHolds
<1>2. IInv /\ [Next]_vars => IInv'
  BY StepKeeps
<1> QED BY <1>1, <1>2, PTL DEF Spec

\* The members of the orchestrator keep their types; in particular
\* active_shards_ and pending_metric_pulls_, which are unsigned, never fall
\* below 0, whichever threads decrement them.
THEOREM TypeCorrect == Spec => []TypeOK
<1>1. IInv => TypeOK
  BY DEF IInv
<1> QED BY <1>1, Invariance, PTL

\* start() joins the shards only after each of their threads has ended.
THEOREM JoinsDoNotBlock == Spec => []ReturnsAfterShards
<1>1. IInv => ReturnsAfterShards
  BY DEF IInv, Release, ReturnsAfterShards
<1> QED BY <1>1, Invariance, PTL

\* Histories are read only when no shard can write to them, with one snapshot
\* of the round in each.
THEOREM HistoriesOwned == Spec => []RoundOwnsHistories
<1>1. ASSUME IInv PROVE RoundOwnsHistories
  <2>1. pending_metric_pulls_ > 0 =>
          pending_metric_pulls_ = Cardinality({k \in Shards : hist.recorded[k] = 0})
    BY <1>1 DEF IInv, Answers, Unrecorded
  <2>2. ASSUME "round" \in {octx.queue[i] : i \in DOMAIN octx.queue}, NEW k \in Shards
        PROVE  /\ hist.recorded[k] = 1
               /\ \A i \in DOMAIN shards[k].queue : shards[k].queue[i].kind # "metrics"
    <3>1. In(octx.queue, "round")
      BY <2>2 DEF In
    <3>2. pending_metric_pulls_ = 0 /\ hist.recorded[k] = 1
      BY <1>1, <3>1 DEF IInv, OneRound, Answers
    <3>3. ~In(Pulled(k), "metrics")
      BY <1>1, <3>2 DEF IInv, Answers
    <3>4. \A i \in DOMAIN shards[k].queue : shards[k].queue[i].kind # "metrics"
      BY <3>3 DEF In, Pulled, Kinds
    <3> QED BY <3>2, <3>4
  <2> QED BY <2>1, <2>2 DEF RoundOwnsHistories
<1> QED BY <1>1, Invariance, PTL

\* Every action reaches every session it names through exactly one shard, and
\* no other session, however the sessions divide among the shards.
THEOREM ActionsReachEachOnce == Spec => []EachSessionOnce
<1>1. ASSUME IInv PROVE EachSessionOnce
  <2> SUFFICES ASSUME ~shutdown_, NEW j \in 1 .. current_action_indx_,
                      NEW g \in 0 .. NumSessions - 1
               PROVE  Cardinality({k \in Shards : \E item \in hist.sent[k] :
                            item.index = j /\ g \in CoveredBy(item, k)})
                        = IF Actions[j].first <= g /\ g < Actions[j].last THEN 1 ELSE 0
    BY DEF EachSessionOnce
  <2> DEFINE Served == {k \in Shards : \E item \in hist.sent[k] :
                            item.index = j /\ g \in CoveredBy(item, k)}
             here == Actions[j].first <= g /\ g < Actions[j].last
  <2>1. current_action_indx_ \in Nat /\ Len(Actions) \in Nat
        /\ current_action_indx_ <= Len(Actions) /\ g \in Nat
    BY <1>1, TypeParts, ConstantsAssumption DEF IInv, Control, Dispatched
  <2>2. j \in 1 .. Len(Actions) /\ shard_ranges_ = CreateRanges
    BY <1>1, <2>1 DEF IInv, Dispatched
  <2>3. ASSUME NEW k \in Shards
        PROVE  k \in Served <=> here /\ RangeStart[k] <= g /\ g < RangeStart[k + 1]
    <3>1. hist.sent[k] = PartsSent(k)
      BY <1>1 DEF IInv, Dispatched
    <3>2. \A i \in 1 .. current_action_indx_ :
             \A item \in ShardAction(i, k, CreateRanges) : item.index = i
      BY <2>1, PartOf
    <3>3. \A item : item \in hist.sent[k] /\ item.index = j
                      <=> item \in ShardAction(j, k, CreateRanges)
      BY <3>1, <3>2 DEF PartsSent
    <3>4. \A item : CoveredBy(item, k) = {RangeStart[k] + i : i \in item.first .. item.last - 1}
      BY <2>2, RangesAre DEF CoveredBy
    <3>5. k \in Served <=> \E item \in ShardAction(j, k, CreateRanges) :
                              g \in {RangeStart[k] + i : i \in item.first .. item.last - 1}
      BY <3>3, <3>4
    <3> QED BY <2>1, <2>2, <3>5, PartOf
  <2>4. CASE here
    <3>1. PICK k \in Shards : RangeStart[k] <= g /\ g < RangeStart[k + 1]
      BY RangeOfSession
    <3>2. \A l \in Shards : RangeStart[l] <= g /\ g < RangeStart[l + 1] => l = k
      BY <3>1, RangeOfSession
    <3>3. k \in Served /\ \A l \in Served : l = k
      BY <2>3, <2>4, <3>1, <3>2
    <3>4. Served = {k}
      BY <3>3
    <3> HIDE DEF Served
    <3>5. Cardinality(Served) = 1
      BY <3>4, FS_Singleton
    <3> QED BY <2>4, <3>5 DEF Served
  <2>5. CASE ~here
    <3>1. Served = {}
      BY <2>3, <2>5
    <3> HIDE DEF Served
    <3>2. Cardinality(Served) = 0
      BY <3>1, FS_EmptySet
    <3> QED BY <2>5, <3>2 DEF Served
  <2> QED BY <2>4, <2>5
<1> QED BY <1>1, Invariance, PTL
===============================================================================
