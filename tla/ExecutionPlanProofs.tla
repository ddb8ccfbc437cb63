-------------------------- MODULE ExecutionPlanProofs --------------------------
(***************************************************************************)
(* Proofs about modules ScriptVerifier and ExecutionPlan, for any settings *)
(* blocks, actions and files, and scripts of any length.                   *)
(***************************************************************************)
EXTENDS ExecutionPlan, FiniteSetTheorems, NaturalsInduction, WellFoundedInduction, TLAPS

-----------------------------------------------------------------------------
(* The invariant. *)

Shapes ==
    /\ phase \in {"settings", "actions", "verified", "rejected", "factory", "common",
                  "planned", "failed"}
    /\ plan = [factory |-> plan.factory, endpoints |-> plan.endpoints,
               packet_data |-> plan.packet_data, actions |-> plan.actions,
               payloads |-> plan.payloads, counter_steps |-> plan.counter_steps]
    /\ lookup = [identity_map |-> lookup.identity_map, all_packets |-> lookup.all_packets]
    /\ planned = [count |-> planned.count, error |-> planned.error]

\* The script is only read after the settings, and stays as it is once they
\* were accepted.
Script ==
    /\ phase = "settings" => actions = <<>> /\ settings \in SettingsBlocks
    /\ phase \notin {"settings", "rejected"} =>
          /\ SettingsValid(settings)
          /\ settings \in {set_script_defaults(s) : s \in SettingsBlocks}
    /\ actions \in Seq(ScriptActions)

\* What verify_script() remembers is what the actions it accepted did.
Remembered ==
    /\ pool_size \in Nat
    /\ session_active \in [0 .. pool_size - 1 -> BOOLEAN]
    /\ session_disconnect_called \in [0 .. pool_size - 1 -> BOOLEAN]
    /\ pool_size = 0 => \A k \in DOMAIN actions : actions[k].type # "CREATE"
    /\ pool_size # 0 =>
          \E k \in DOMAIN actions : actions[k].type = "CREATE" /\ actions[k].count = pool_size
    /\ \A k \in DOMAIN actions :
          actions[k].type # "CREATE" => Covered(actions[k]) \subseteq 0 .. pool_size - 1
    /\ \A j \in 0 .. pool_size - 1 :
          /\ session_active[j] <=> ConnectedAt(Len(actions) + 1, j)
          /\ session_disconnect_called[j] <=>
                \E k \in DOMAIN actions : Touches(k, "DISCONNECT", j)

\* The packets: what was read, and what the payloads point at.
Packets ==
    /\ phase \in {"settings", "actions", "verified", "rejected"} =>
          lookup = [identity_map |-> <<>>, all_packets |-> {}]
    /\ DOMAIN lookup.identity_map \subseteq DOMAIN settings.packet_identifiers
    /\ \A f \in lookup.all_packets : \E id \in DOMAIN lookup.identity_map :
          PathOf[settings.packet_identifiers[id]] = f
    /\ plan.packet_data \in Seq(DOMAIN FileSize)
    /\ \A id \in DOMAIN lookup.identity_map :
          lookup.identity_map[id] \in DOMAIN plan.packet_data
    /\ \A k \in DOMAIN actions :
          actions[k].type = "SEND" => actions[k].packet \in DOMAIN settings.packet_identifiers
    /\ planned.count \in Nat
    /\ phase # "failed" => planned.error = "none"

IsSequence(s) == s \in Seq({s[i] : i \in DOMAIN s})

Payloads ==
    /\ IsSequence(plan.payloads)
    /\ \A p \in DOMAIN plan.payloads : plan.payloads[p].packet \in DOMAIN plan.packet_data
    /\ phase = "planned" /\ settings.session_protocol = "UDP" =>
          \A p \in DOMAIN plan.payloads : PayloadSize(p) <= MaxDatagram

Known == UNION {ToSet(Addresses[h]) : h \in ToSet(settings.endpoints)}

GoodEndpoints(list) ==
    /\ list # <<>> /\ IsInjective(list)
    /\ ToSet(list) \subseteq Known
    /\ settings.session_protocol = "TCP" => ToSet(list) = Known
    /\ settings.session_protocol = "UDP" => Len(list) = 1

Connectable ==
    /\ phase \in {"factory", "common", "planned"} => plan.factory # "none"
    /\ phase \in {"common", "planned"} => GoodEndpoints(plan.endpoints)

IInv ==
    /\ Shapes /\ Script /\ Remembered /\ AcceptedScriptsAreOrdered
    /\ Packets /\ NoApplicationError /\ Payloads /\ Connectable

-----------------------------------------------------------------------------
(* Scripts, as sequences of actions. *)

TouchesIn(s, k, type, j) == s[k].type = type /\ j \in Covered(s[k])

ConnectedIn(s, i, j) ==
    \E k \in 1 .. i - 1 :
        TouchesIn(s, k, "CONNECT", j) /\ \A d \in k .. i - 1 : ~TouchesIn(s, d, "DRAIN", j)

OrderedIn(s, shards, i) ==
    /\ s[i].type = "CREATE" =>
          s[i].count >= shards /\ \A k \in 1 .. i - 1 : s[k].type # "CREATE"
    /\ s[i].type # "CREATE" => \A j \in Covered(s[i]) :
          /\ \E k \in 1 .. i - 1 : s[k].type = "CREATE" /\ j < s[k].count
          /\ CASE s[i].type = "CONNECT" -> ~ConnectedIn(s, i, j)
               [] s[i].type = "DISCONNECT" ->
                    \A k \in 1 .. i - 1 : ~TouchesIn(s, k, "DISCONNECT", j)
               [] OTHER -> ConnectedIn(s, i, j)

RememberedIn(s, size, active, called) ==
    /\ size \in Nat
    /\ active \in [0 .. size - 1 -> BOOLEAN] /\ called \in [0 .. size - 1 -> BOOLEAN]
    /\ size = 0 => \A k \in DOMAIN s : s[k].type # "CREATE"
    /\ size # 0 => \E k \in DOMAIN s : s[k].type = "CREATE" /\ s[k].count = size
    /\ \A k \in DOMAIN s : s[k].type # "CREATE" => Covered(s[k]) \subseteq 0 .. size - 1
    /\ \A j \in 0 .. size - 1 :
          /\ active[j] <=> ConnectedIn(s, Len(s) + 1, j)
          /\ called[j] <=> \E k \in DOMAIN s : TouchesIn(s, k, "DISCONNECT", j)

LEMMA ReadsActions ==
    /\ AcceptedScriptsAreOrdered <=>
          \A i \in DOMAIN actions : OrderedIn(actions, settings.shards, i)
    /\ Remembered <=>
          RememberedIn(actions, pool_size, session_active, session_disconnect_called)
  BY DEF AcceptedScriptsAreOrdered, OrderedIn, Remembered, RememberedIn, ConnectedAt, ConnectedIn,
         Touches, TouchesIn

LEMMA ReadsActionsNext ==
    /\ AcceptedScriptsAreOrdered' <=>
          \A i \in DOMAIN actions' : OrderedIn(actions', settings'.shards, i)
    /\ Remembered' <=>
          RememberedIn(actions', pool_size', session_active', session_disconnect_called')
  BY DEF AcceptedScriptsAreOrdered, OrderedIn, Remembered, RememberedIn, ConnectedAt, ConnectedIn,
         Touches, TouchesIn

LEMMA ActionFacts ==
    ASSUME NEW a \in ScriptActions
    PROVE  /\ a.type \in ActionType /\ a.count \in Nat
           /\ a.range.start \in Nat /\ a.range.second \in Nat
           /\ Covered(a) \subseteq Nat
           /\ \A j \in Covered(a) : j < a.range.second
<1>1. /\ a.type \in ActionType /\ a.count \in Nat
      /\ a.range.start \in Nat /\ a.range.second \in Nat
  BY ScriptAssumption DEF Range32
<1> QED BY <1>1 DEF Covered

LEMMA Appending ==
    ASSUME NEW S, NEW s \in Seq(S), NEW a \in S
    PROVE  /\ Append(s, a) \in Seq(S) /\ Len(s) \in Nat /\ Len(Append(s, a)) = Len(s) + 1
           /\ DOMAIN s = 1 .. Len(s) /\ DOMAIN Append(s, a) = 1 .. Len(s) + 1
           /\ Append(s, a)[Len(s) + 1] = a
           /\ \A k \in 1 .. Len(s) : Append(s, a)[k] = s[k]
  OBVIOUS

\* t is the script s with a at its end.
Extends(t, s, a) ==
    /\ Len(s) \in Nat /\ Len(t) = Len(s) + 1
    /\ DOMAIN s = 1 .. Len(s) /\ DOMAIN t = 1 .. Len(s) + 1
    /\ t[Len(s) + 1] = a
    /\ \A k \in 1 .. Len(s) : t[k] = s[k]

LEMMA TouchesKept ==
    ASSUME NEW s, NEW t, NEW a, Extends(t, s, a)
    PROVE  /\ \A k \in 1 .. Len(s) : \A type, j : TouchesIn(t, k, type, j) <=> TouchesIn(s, k, type, j)
           /\ \A type, j : TouchesIn(t, Len(s) + 1, type, j) <=> a.type = type /\ j \in Covered(a)
  BY DEF Extends, TouchesIn

LEMMA ConnectedBefore ==
    ASSUME NEW s, NEW t, NEW a, Extends(t, s, a), NEW i \in 1 .. Len(s) + 1, NEW j
    PROVE  ConnectedIn(t, i, j) <=> ConnectedIn(s, i, j)
<1>1. Len(s) \in Nat
  BY DEF Extends
<1>2. \A k \in 1 .. i - 1 : k \in 1 .. Len(s) /\ \A d \in k .. i - 1 : d \in 1 .. Len(s)
  BY <1>1
<1>3. \A k \in 1 .. i - 1 :
        /\ TouchesIn(t, k, "CONNECT", j) <=> TouchesIn(s, k, "CONNECT", j)
        /\ \A d \in k .. i - 1 : TouchesIn(t, d, "DRAIN", j) <=> TouchesIn(s, d, "DRAIN", j)
  BY <1>2, TouchesKept
<1> QED BY <1>3 DEF ConnectedIn

LEMMA ConnectedAfter ==
    ASSUME NEW s, NEW t, NEW a, Extends(t, s, a), NEW j
    PROVE  ConnectedIn(t, Len(t) + 1, j) <=>
              \/ a.type = "CONNECT" /\ j \in Covered(a)
              \/ ConnectedIn(s, Len(s) + 1, j) /\ ~(a.type = "DRAIN" /\ j \in Covered(a))
<1> DEFINE L == Len(s)
<1>1. L \in Nat /\ Len(t) + 1 = L + 2 /\ (L + 2) - 1 = L + 1 /\ (L + 1) - 1 = L
  BY DEF Extends
<1>2. /\ \A k \in 1 .. L : \A type, x : TouchesIn(t, k, type, x) <=> TouchesIn(s, k, type, x)
      /\ \A type, x : TouchesIn(t, L + 1, type, x) <=> a.type = type /\ x \in Covered(a)
  BY TouchesKept
<1>3. ConnectedIn(t, Len(t) + 1, j) <=>
        \E k \in 1 .. L + 1 :
          TouchesIn(t, k, "CONNECT", j) /\ \A d \in k .. L + 1 : ~TouchesIn(t, d, "DRAIN", j)
  BY <1>1 DEF ConnectedIn
<1>4. ConnectedIn(s, L + 1, j) <=>
        \E k \in 1 .. L :
          TouchesIn(s, k, "CONNECT", j) /\ \A d \in k .. L : ~TouchesIn(s, d, "DRAIN", j)
  BY <1>1 DEF ConnectedIn
<1> HIDE DEF L
<1>5. ASSUME NEW k \in 1 .. L + 1, TouchesIn(t, k, "CONNECT", j),
             \A d \in k .. L + 1 : ~TouchesIn(t, d, "DRAIN", j)
      PROVE  \/ a.type = "CONNECT" /\ j \in Covered(a)
             \/ ConnectedIn(s, L + 1, j) /\ ~(a.type = "DRAIN" /\ j \in Covered(a))
  <2>1. CASE k = L + 1
    BY <1>2, <1>5, <2>1
  <2>2. CASE k \in 1 .. L
    <3>1. TouchesIn(s, k, "CONNECT", j)
      BY <1>2, <1>5, <2>2
    <3>2. \A d \in k .. L : d \in 1 .. L /\ d \in k .. L + 1
      BY <1>1, <2>2
    <3>3. \A d \in k .. L : ~TouchesIn(s, d, "DRAIN", j)
      BY <1>2, <1>5, <3>2
    <3>4. L + 1 \in k .. L + 1
      BY <1>1, <2>2
    <3>5. ~(a.type = "DRAIN" /\ j \in Covered(a))
      BY <1>2, <1>5, <3>4
    <3> QED BY <1>4, <2>2, <3>1, <3>3, <3>5
  <2> QED BY <1>1, <2>1, <2>2
<1>6. ASSUME a.type = "CONNECT", j \in Covered(a)
      PROVE  \E k \in 1 .. L + 1 :
               TouchesIn(t, k, "CONNECT", j) /\ \A d \in k .. L + 1 : ~TouchesIn(t, d, "DRAIN", j)
  <2>1. L + 1 \in 1 .. L + 1 /\ \A d \in L + 1 .. L + 1 : d = L + 1
    BY <1>1
  <2>2. TouchesIn(t, L + 1, "CONNECT", j) /\ ~TouchesIn(t, L + 1, "DRAIN", j)
    BY <1>2, <1>6
  <2> QED BY <2>1, <2>2
<1>7. ASSUME ConnectedIn(s, L + 1, j), ~(a.type = "DRAIN" /\ j \in Covered(a))
      PROVE  \E k \in 1 .. L + 1 :
               TouchesIn(t, k, "CONNECT", j) /\ \A d \in k .. L + 1 : ~TouchesIn(t, d, "DRAIN", j)
  <2>1. PICK k \in 1 .. L :
          TouchesIn(s, k, "CONNECT", j) /\ \A d \in k .. L : ~TouchesIn(s, d, "DRAIN", j)
    BY <1>4, <1>7
  <2>2. TouchesIn(t, k, "CONNECT", j) /\ k \in 1 .. L + 1
    BY <1>1, <1>2, <2>1
  <2>3. ASSUME NEW d \in k .. L + 1 PROVE ~TouchesIn(t, d, "DRAIN", j)
    <3>1. CASE d = L + 1
      BY <1>2, <1>7, <3>1
    <3>2. CASE d \in k .. L
      <4>1. d \in 1 .. L
        BY <1>1, <3>2
      <4> QED BY <1>2, <2>1, <3>2, <4>1
    <3> QED BY <1>1, <3>1, <3>2
  <2> QED BY <2>2, <2>3
<1> QED BY <1>3, <1>5, <1>6, <1>7 DEF L

\* What verify_script() checked of an action it accepts.
Accepts(a, shards, size, active, called) ==
    /\ a.type = "CREATE" => size = 0 /\ a.count >= shards
    /\ a.type # "CREATE" => a.range.second <= size
    /\ a.type = "CONNECT" => \A j \in Covered(a) : ~active[j]
    /\ a.type \in {"SEND", "FLOOD", "DRAIN"} => \A j \in Covered(a) : active[j]
    /\ a.type = "DISCONNECT" => \A j \in Covered(a) : ~called[j]

LEMMA OrderedKept ==
    ASSUME NEW s, NEW t, NEW a, Extends(t, s, a), NEW shards, NEW i \in 1 .. Len(s),
           OrderedIn(s, shards, i)
    PROVE  OrderedIn(t, shards, i)
<1>1. Len(s) \in Nat /\ i \in 1 .. Len(s) + 1 /\ t[i] = s[i]
  BY DEF Extends
<1>2. \A k \in 1 .. i - 1 : k \in 1 .. Len(s) /\ t[k] = s[k]
  BY <1>1 DEF Extends
<1>3. \A j : ConnectedIn(t, i, j) <=> ConnectedIn(s, i, j)
  BY <1>1, ConnectedBefore
<1>4. \A k \in 1 .. i - 1 : \A j : TouchesIn(t, k, "DISCONNECT", j) <=> TouchesIn(s, k, "DISCONNECT", j)
  BY <1>2, TouchesKept
<1> QED BY <1>1, <1>2, <1>3, <1>4 DEF OrderedIn

LEMMA InsidePool ==
    ASSUME NEW a \in ScriptActions, NEW size \in Nat, a.range.second <= size
    PROVE  Covered(a) \subseteq 0 .. size - 1
<1>1. Covered(a) \subseteq Nat /\ a.range.second \in Nat /\ \A j \in Covered(a) : j < a.range.second
  BY ActionFacts
<1> QED BY <1>1

LEMMA NewOrdered ==
    ASSUME NEW s, NEW t, NEW a \in ScriptActions, Extends(t, s, a), NEW shards,
           NEW size, NEW active, NEW called,
           RememberedIn(s, size, active, called), Accepts(a, shards, size, active, called)
    PROVE  OrderedIn(t, shards, Len(s) + 1)
<1> DEFINE i == Len(s) + 1
<1>1. /\ Len(s) \in Nat /\ i \in 1 .. Len(s) + 1 /\ t[i] = a /\ i - 1 = Len(s)
      /\ DOMAIN s = 1 .. Len(s) /\ \A k \in 1 .. Len(s) : t[k] = s[k]
  BY DEF Extends
<1>2. \A j : ConnectedIn(t, i, j) <=> ConnectedIn(s, i, j)
  BY <1>1, ConnectedBefore
<1>3. \A k \in 1 .. Len(s) : \A j : TouchesIn(t, k, "DISCONNECT", j) <=> TouchesIn(s, k, "DISCONNECT", j)
  BY TouchesKept
<1>4. a.type = "CREATE" =>
        a.count >= shards /\ \A k \in 1 .. i - 1 : t[k].type # "CREATE"
  BY <1>1 DEF Accepts, RememberedIn
<1>5. ASSUME a.type # "CREATE", NEW j \in Covered(a)
      PROVE  /\ \E k \in 1 .. i - 1 : t[k].type = "CREATE" /\ j < t[k].count
             /\ CASE a.type = "CONNECT" -> ~ConnectedIn(t, i, j)
                  [] a.type = "DISCONNECT" ->
                       \A k \in 1 .. i - 1 : ~TouchesIn(t, k, "DISCONNECT", j)
                  [] OTHER -> ConnectedIn(t, i, j)
  <2>1. size \in Nat /\ a.range.second <= size
    BY <1>5 DEF RememberedIn, Accepts
  <2>2. j \in 0 .. size - 1
    BY <2>1, <1>5, InsidePool
  <2>3. size # 0 /\ j < size
    BY <2>1, <2>2
  <2>4. \E k \in 1 .. i - 1 : t[k].type = "CREATE" /\ j < t[k].count
    <3>1. PICK k \in DOMAIN s : s[k].type = "CREATE" /\ s[k].count = size
      BY <2>3 DEF RememberedIn
    <3> QED BY <3>1, <1>1, <2>3
  <2>5. /\ active[j] <=> ConnectedIn(t, i, j)
        /\ called[j] <=> \E k \in 1 .. Len(s) : TouchesIn(s, k, "DISCONNECT", j)
    BY <1>1, <1>2, <2>2 DEF RememberedIn
  <2>6. CASE a.type = "CONNECT"
    BY <1>5, <2>4, <2>5, <2>6 DEF Accepts
  <2>7. CASE a.type = "DISCONNECT"
    BY <1>1, <1>3, <1>5, <2>4, <2>5, <2>7 DEF Accepts
  <2>8. CASE a.type \in {"SEND", "FLOOD", "DRAIN"}
    BY <1>5, <2>4, <2>5, <2>8 DEF Accepts
  <2>9. a.type \in ActionType
    BY ActionFacts
  <2> QED BY <1>5, <2>6, <2>7, <2>8, <2>9 DEF ActionType
<1> HIDE DEF i
<1>6. OrderedIn(t, shards, i)
  BY <1>1, <1>4, <1>5 DEF OrderedIn
<1> QED BY <1>6 DEF i

\* How the walk goes on after it.
Marks(a, size, active, called, size2, active2, called2) ==
    \/ /\ a.type = "CREATE" /\ size2 = a.count
       /\ active2 = [j \in 0 .. a.count - 1 |-> FALSE] /\ called2 = active2
    \/ /\ a.type = "CONNECT" /\ size2 = size /\ called2 = called
       /\ active2 = Mark(active, a, TRUE)
    \/ a.type \in {"SEND", "FLOOD"} /\ size2 = size /\ active2 = active /\ called2 = called
    \/ /\ a.type = "DRAIN" /\ size2 = size /\ called2 = called
       /\ active2 = Mark(active, a, FALSE)
    \/ /\ a.type = "DISCONNECT" /\ size2 = size /\ active2 = active
       /\ called2 = Mark(called, a, TRUE)

LEMMA MarkIs ==
    ASSUME NEW size \in Nat, NEW flags \in [0 .. size - 1 -> BOOLEAN], NEW a
    PROVE  /\ Mark(flags, a, TRUE) \in [0 .. size - 1 -> BOOLEAN]
           /\ Mark(flags, a, FALSE) \in [0 .. size - 1 -> BOOLEAN]
           /\ \A j \in 0 .. size - 1 :
                 /\ Mark(flags, a, TRUE)[j] <=> flags[j] \/ j \in Covered(a)
                 /\ Mark(flags, a, FALSE)[j] <=> flags[j] /\ j \notin Covered(a)
  BY DEF Mark

LEMMA NewRemembered ==
    ASSUME NEW s, NEW t, NEW a \in ScriptActions, Extends(t, s, a), NEW shards \in Nat, shards # 0,
           NEW size, NEW active, NEW called, NEW size2, NEW active2, NEW called2,
           RememberedIn(s, size, active, called), Accepts(a, shards, size, active, called),
           Marks(a, size, active, called, size2, active2, called2)
    PROVE  RememberedIn(t, size2, active2, called2)
<1>1. /\ Len(s) \in Nat /\ DOMAIN s = 1 .. Len(s) /\ DOMAIN t = 1 .. Len(s) + 1
      /\ t[Len(s) + 1] = a /\ \A k \in 1 .. Len(s) : t[k] = s[k]
      /\ 1 .. Len(s) + 1 = 1 .. Len(s) \cup {Len(s) + 1}
  BY DEF Extends
<1>2. /\ size \in Nat /\ active \in [0 .. size - 1 -> BOOLEAN]
      /\ called \in [0 .. size - 1 -> BOOLEAN]
  BY DEF RememberedIn
<1>3. a.type \in ActionType /\ a.count \in Nat
  BY ActionFacts
<1>4. \A j : ConnectedIn(t, Len(t) + 1, j) <=>
              \/ a.type = "CONNECT" /\ j \in Covered(a)
              \/ ConnectedIn(s, Len(s) + 1, j) /\ ~(a.type = "DRAIN" /\ j \in Covered(a))
  BY ConnectedAfter
<1>5. \A j : (\E k \in DOMAIN t : TouchesIn(t, k, "DISCONNECT", j)) <=>
               \/ \E k \in DOMAIN s : TouchesIn(s, k, "DISCONNECT", j)
               \/ a.type = "DISCONNECT" /\ j \in Covered(a)
  <2>1. /\ \A k \in 1 .. Len(s) : \A j : TouchesIn(t, k, "DISCONNECT", j) <=> TouchesIn(s, k, "DISCONNECT", j)
        /\ \A j : TouchesIn(t, Len(s) + 1, "DISCONNECT", j) <=> a.type = "DISCONNECT" /\ j \in Covered(a)
    BY TouchesKept
  <2> QED BY <1>1, <2>1
<1>6. CASE a.type = "CREATE"
  <2>1. size = 0 /\ a.count # 0 /\ size2 = a.count
        /\ active2 = [j \in 0 .. a.count - 1 |-> FALSE] /\ called2 = active2
    BY <1>3, <1>6 DEF Accepts, Marks
  <2>2. /\ active2 \in [0 .. size2 - 1 -> BOOLEAN] /\ called2 \in [0 .. size2 - 1 -> BOOLEAN]
        /\ \A j \in 0 .. size2 - 1 : ~active2[j] /\ ~called2[j]
    BY <2>1
  <2>3. \A k \in DOMAIN s : s[k].type # "CREATE" /\ Covered(s[k]) = {}
    <3>1. 0 .. size - 1 = {}
      BY <2>1
    <3> QED BY <2>1, <3>1 DEF RememberedIn
  <2>4. \A j : ~ConnectedIn(s, Len(s) + 1, j) /\ \A k \in DOMAIN s : ~TouchesIn(s, k, "DISCONNECT", j)
    <3>1. (Len(s) + 1) - 1 = Len(s)
      BY <1>1
    <3> QED BY <1>1, <2>3, <3>1 DEF ConnectedIn, TouchesIn
  <2>5. \A j \in 0 .. size2 - 1 :
          /\ active2[j] <=> ConnectedIn(t, Len(t) + 1, j)
          /\ called2[j] <=> \E k \in DOMAIN t : TouchesIn(t, k, "DISCONNECT", j)
    BY <1>4, <1>5, <1>6, <2>2, <2>4
  <2>6. \E k \in DOMAIN t : t[k].type = "CREATE" /\ t[k].count = size2
    BY <1>1, <1>6, <2>1
  <2>7. \A k \in DOMAIN t : t[k].type # "CREATE" => Covered(t[k]) \subseteq 0 .. size2 - 1
    BY <1>1, <1>6, <2>3
  <2> QED BY <1>3, <2>1, <2>2, <2>5, <2>6, <2>7 DEF RememberedIn
<1>7. CASE a.type # "CREATE"
  <2>1. size2 = size /\ a.range.second <= size
    BY <1>7 DEF Marks, Accepts
  <2>2. Covered(a) \subseteq 0 .. size - 1
    BY <1>2, <2>1, InsidePool
  <2>3. \A k \in DOMAIN t : t[k].type # "CREATE" => Covered(t[k]) \subseteq 0 .. size2 - 1
    BY <1>1, <2>1, <2>2 DEF RememberedIn
  <2>4. size2 = 0 => \A k \in DOMAIN t : t[k].type # "CREATE"
    BY <1>1, <1>7, <2>1 DEF RememberedIn
  <2>5. size2 # 0 => \E k \in DOMAIN t : t[k].type = "CREATE" /\ t[k].count = size2
    <3>1. size # 0 => \E k \in DOMAIN s : s[k].type = "CREATE" /\ s[k].count = size
      BY DEF RememberedIn
    <3> QED BY <1>1, <2>1, <3>1
  <2>6. \A j \in 0 .. size - 1 :
          /\ active[j] <=> ConnectedIn(s, Len(s) + 1, j)
          /\ called[j] <=> \E k \in DOMAIN s : TouchesIn(s, k, "DISCONNECT", j)
    BY DEF RememberedIn
  <2>7. /\ active2 \in [0 .. size - 1 -> BOOLEAN] /\ called2 \in [0 .. size - 1 -> BOOLEAN]
        /\ \A j \in 0 .. size - 1 :
             /\ active2[j] <=> \/ a.type = "CONNECT" /\ j \in Covered(a)
                               \/ active[j] /\ ~(a.type = "DRAIN" /\ j \in Covered(a))
             /\ called2[j] <=> called[j] \/ (a.type = "DISCONNECT" /\ j \in Covered(a))
    <3>1. CASE a.type = "CONNECT"
      <4>1. active2 = Mark(active, a, TRUE) /\ called2 = called
        BY <3>1 DEF Marks
      <4>2. /\ active2 \in [0 .. size - 1 -> BOOLEAN]
            /\ \A j \in 0 .. size - 1 : active2[j] <=> active[j] \/ j \in Covered(a)
        BY <4>1, <1>2, MarkIs
      <4> QED BY <3>1, <4>1, <4>2, <1>2
    <3>2. CASE a.type \in {"SEND", "FLOOD"}
      BY <3>2, <1>2 DEF Marks
    <3>3. CASE a.type = "DRAIN"
      <4>1. active2 = Mark(active, a, FALSE) /\ called2 = called
        BY <3>3 DEF Marks
      <4>2. /\ active2 \in [0 .. size - 1 -> BOOLEAN]
            /\ \A j \in 0 .. size - 1 : active2[j] <=> active[j] /\ j \notin Covered(a)
        BY <4>1, <1>2, MarkIs
      <4> QED BY <3>3, <4>1, <4>2, <1>2
    <3>4. CASE a.type = "DISCONNECT"
      <4>1. called2 = Mark(called, a, TRUE) /\ active2 = active
        BY <3>4 DEF Marks
      <4>2. /\ called2 \in [0 .. size - 1 -> BOOLEAN]
            /\ \A j \in 0 .. size - 1 : called2[j] <=> called[j] \/ j \in Covered(a)
        BY <4>1, <1>2, MarkIs
      <4> QED BY <3>4, <4>1, <4>2, <1>2
    <3> QED BY <1>3, <1>7, <3>1, <3>2, <3>3, <3>4 DEF ActionType
  <2>8. \A j \in 0 .. size - 1 :
          /\ active2[j] <=> ConnectedIn(t, Len(t) + 1, j)
          /\ called2[j] <=> \E k \in DOMAIN t : TouchesIn(t, k, "DISCONNECT", j)
    BY <1>4, <1>5, <2>6, <2>7
  <2> QED BY <1>2, <2>1, <2>3, <2>4, <2>5, <2>7, <2>8 DEF RememberedIn
<1> QED BY <1>6, <1>7

-----------------------------------------------------------------------------
(* The steps of verify_script(). *)

LEMMA DefaultsIs ==
    ASSUME NEW s \in SettingsBlocks
    PROVE  /\ set_script_defaults(s).shards \in Nat
           /\ set_script_defaults(s).endpoints = s.endpoints
           /\ s.endpoints \in Seq(STRING) /\ ToSet(s.endpoints) \subseteq DOMAIN Addresses
<1>1. DOMAIN s = SettingsFields /\ s.shards \in Nat /\ s.endpoints \in Seq(STRING)
  BY ScriptAssumption
<1>2. ToSet(s.endpoints) \subseteq DOMAIN Addresses
  BY HostAssumption
<1>3. "shards" \in DOMAIN s /\ "endpoints" \in DOMAIN s
  BY <1>1 DEF SettingsFields
<1>4. set_script_defaults(s).endpoints = s.endpoints
  BY <1>3 DEF set_script_defaults
<1>5. set_script_defaults(s).shards =
        IF s.shards = 0 THEN (IF HardwareConcurrency = 0 THEN 1 ELSE HardwareConcurrency)
        ELSE s.shards
  BY <1>3 DEF set_script_defaults
<1> QED BY <1>1, <1>2, <1>4, <1>5, ScriptAssumption

LEMMA ScriptStays ==
    ASSUME Remembered, AcceptedScriptsAreOrdered,
           settings' = settings, actions' = actions, pool_size' = pool_size,
           session_active' = session_active,
           session_disconnect_called' = session_disconnect_called
    PROVE  Remembered' /\ AcceptedScriptsAreOrdered'
<1>1. /\ \A i \in DOMAIN actions : OrderedIn(actions, settings.shards, i)
      /\ RememberedIn(actions, pool_size, session_active, session_disconnect_called)
  BY ReadsActions
<1> QED BY <1>1, ReadsActionsNext

\* While a script is verified nothing has been planned.
LEMMA NotPlannedYet ==
    ASSUME IInv, phase \in {"settings", "actions"}, phase' \in {"actions", "rejected", "verified"},
           plan' = plan, lookup' = lookup, planned' = planned,
           \A k \in DOMAIN actions' : actions'[k].type = "SEND" =>
               actions'[k].packet \in DOMAIN settings'.packet_identifiers
    PROVE  Shapes' /\ Packets' /\ NoApplicationError' /\ Payloads' /\ Connectable'
<1>1. lookup = [identity_map |-> <<>>, all_packets |-> {}] /\ planned.error = "none"
  BY DEF IInv, Packets
<1>2. Shapes'
  BY DEF IInv, Shapes
<1>3. DOMAIN lookup'.identity_map = {} /\ lookup'.all_packets = {}
  BY <1>1
<1>4. Packets'
  BY <1>1, <1>3 DEF IInv, Packets
<1>5. NoApplicationError'
  BY <1>1 DEF NoApplicationError
<1>6. Payloads' /\ Connectable'
  BY DEF IInv, Payloads, Connectable, IsSequence
<1> QED BY <1>2, <1>4, <1>5, <1>6

LEMMA VerifySettingsKeeps ==
    ASSUME IInv, VerifySettings, plan' = plan, lookup' = lookup, planned' = planned
    PROVE  IInv'
<1>1. /\ phase = "settings" /\ settings' = set_script_defaults(settings)
      /\ phase' = IF SettingsValid(settings') THEN "actions" ELSE "rejected"
      /\ actions' = actions /\ pool_size' = pool_size /\ session_active' = session_active
      /\ session_disconnect_called' = session_disconnect_called
  BY DEF VerifySettings
<1>2. actions = <<>> /\ settings \in SettingsBlocks
  BY <1>1 DEF IInv, Script
<1>3. Script'
  <2>1. SettingsValid(settings)' <=> SettingsValid(settings')
    BY DEF SettingsValid, TransportValid, PacketsResolve, HandlerValid, OrchestratorNamesSettings
  <2>2. actions' \in Seq(ScriptActions)
    BY <1>1 DEF IInv, Script
  <2> QED BY <1>1, <1>2, <2>1, <2>2 DEF Script
<1>4. RememberedIn(actions, pool_size, session_active, session_disconnect_called)
  BY ReadsActions DEF IInv
<1>5. Remembered' /\ AcceptedScriptsAreOrdered'
  <2>1. DOMAIN actions' = {}
    BY <1>1, <1>2
  <2> QED BY <1>1, <1>4, <2>1, ReadsActionsNext
<1>6. Shapes' /\ Packets' /\ NoApplicationError' /\ Payloads' /\ Connectable'
  BY <1>1, <1>2, NotPlannedYet
<1> QED BY <1>3, <1>5, <1>6 DEF IInv

LEMMA RejectKeeps ==
    ASSUME IInv, RejectAction \/ EndOfScript, plan' = plan, lookup' = lookup, planned' = planned
    PROVE  IInv'
<1>1. /\ phase = "actions" /\ phase' \in {"rejected", "verified"}
      /\ settings' = settings /\ actions' = actions /\ pool_size' = pool_size
      /\ session_active' = session_active
      /\ session_disconnect_called' = session_disconnect_called
  BY DEF RejectAction, EndOfScript
<1>2. Script'
  <2>1. SettingsValid(settings') /\ settings \in {set_script_defaults(s) : s \in SettingsBlocks}
    BY <1>1 DEF IInv, Script
  <2>2. SettingsValid(settings)' <=> SettingsValid(settings')
    BY DEF SettingsValid, TransportValid, PacketsResolve, HandlerValid, OrchestratorNamesSettings
  <2> QED BY <1>1, <2>1, <2>2 DEF IInv, Script
<1>3. Remembered' /\ AcceptedScriptsAreOrdered'
  BY <1>1, ScriptStays DEF IInv
<1>4. Shapes' /\ Packets' /\ NoApplicationError' /\ Payloads' /\ Connectable'
  <2>1. \A k \in DOMAIN actions' : actions'[k].type = "SEND" =>
               actions'[k].packet \in DOMAIN settings'.packet_identifiers
    BY <1>1 DEF IInv, Packets
  <2> QED BY <1>1, <2>1, NotPlannedYet
<1> QED BY <1>2, <1>3, <1>4 DEF IInv

LEMMA AcceptsIs ==
    ASSUME NEW a \in ScriptActions, ActionOK(a)
    PROVE  /\ Accepts(a, settings.shards, pool_size, session_active, session_disconnect_called)
           /\ a.type = "SEND" => a.packet \in DOMAIN settings.packet_identifiers
<1>1. a.type \in ActionType
  BY ActionFacts
<1>2. CASE a.type = "CREATE"
  BY <1>2 DEF ActionOK, CreateOK, Accepts
<1>3. CASE a.type = "CONNECT"
  BY <1>3 DEF ActionOK, ConnectOK, InPool, Accepts
<1>4. CASE a.type = "SEND"
  BY <1>4 DEF ActionOK, SendOK, PacketOK, InPool, AllActive, Accepts
<1>5. CASE a.type = "FLOOD"
  BY <1>5 DEF ActionOK, FloodOK, InPool, AllActive, Accepts
<1>6. CASE a.type = "DRAIN"
  BY <1>6 DEF ActionOK, DrainOK, InPool, AllActive, Accepts
<1>7. CASE a.type = "DISCONNECT"
  BY <1>7 DEF ActionOK, DisconnectOK, InPool, Accepts
<1> QED BY <1>1, <1>2, <1>3, <1>4, <1>5, <1>6, <1>7 DEF ActionType

LEMMA VerifyActionKeeps ==
    ASSUME IInv, VerifyAction, plan' = plan, lookup' = lookup, planned' = planned
    PROVE  IInv'
<1>1. PICK a \in ScriptActions :
          /\ ActionOK(a)
          /\ Create(a) \/ Connect(a) \/ SendOrFlood(a) \/ Drain(a) \/ Disconnect(a)
          /\ actions' = Append(actions, a)
  BY DEF VerifyAction
<1>2. phase = "actions" /\ phase' = phase /\ settings' = settings
  BY DEF VerifyAction
<1>3. actions \in Seq(ScriptActions) /\ SettingsValid(settings)
      /\ settings \in {set_script_defaults(s) : s \in SettingsBlocks}
  BY <1>2 DEF IInv, Script
<1>4. actions' \in Seq(ScriptActions) /\ Extends(actions', actions, a)
  BY <1>1, <1>3, Appending DEF Extends
<1>5. settings.shards \in Nat /\ settings.shards # 0
  BY <1>3, DefaultsIs DEF SettingsValid, TransportValid
<1>6. /\ Accepts(a, settings.shards, pool_size, session_active, session_disconnect_called)
      /\ a.type = "SEND" => a.packet \in DOMAIN settings.packet_identifiers
  BY <1>1, AcceptsIs
<1>7. Marks(a, pool_size, session_active, session_disconnect_called,
            pool_size', session_active', session_disconnect_called')
  BY <1>1 DEF Marks, Create, Connect, SendOrFlood, Drain, Disconnect
<1>8. /\ RememberedIn(actions, pool_size, session_active, session_disconnect_called)
      /\ \A i \in DOMAIN actions : OrderedIn(actions, settings.shards, i)
  BY ReadsActions DEF IInv
<1>9. RememberedIn(actions', pool_size', session_active', session_disconnect_called')
  BY <1>4, <1>5, <1>6, <1>7, <1>8, NewRemembered
<1>10. ASSUME NEW i \in DOMAIN actions' PROVE OrderedIn(actions', settings.shards, i)
  <2>1. Len(actions) \in Nat /\ i \in 1 .. Len(actions) + 1 /\ DOMAIN actions = 1 .. Len(actions)
    BY <1>4 DEF Extends
  <2>2. CASE i = Len(actions) + 1
    BY <2>2, <1>4, <1>6, <1>8, NewOrdered
  <2>3. CASE i \in 1 .. Len(actions)
    BY <2>1, <2>3, <1>4, <1>8, OrderedKept
  <2> QED BY <2>1, <2>2, <2>3
<1>11. Remembered' /\ AcceptedScriptsAreOrdered'
  BY <1>2, <1>9, <1>10, ReadsActionsNext
<1>12. Script'
  <2>1. SettingsValid(settings)' <=> SettingsValid(settings')
    BY DEF SettingsValid, TransportValid, PacketsResolve, HandlerValid, OrchestratorNamesSettings
  <2> QED BY <1>2, <1>3, <1>4, <2>1 DEF Script
<1>13. Shapes' /\ Packets' /\ NoApplicationError' /\ Payloads' /\ Connectable'
  <2>1. \A k \in DOMAIN actions' : actions'[k].type = "SEND" =>
               actions'[k].packet \in DOMAIN settings'.packet_identifiers
    <3>1. Len(actions) \in Nat /\ DOMAIN actions' = 1 .. Len(actions) \cup {Len(actions) + 1}
          /\ DOMAIN actions = 1 .. Len(actions)
      BY <1>4 DEF Extends
    <3>2. \A k \in 1 .. Len(actions) : actions[k].type = "SEND" =>
               actions[k].packet \in DOMAIN settings.packet_identifiers
      BY <3>1 DEF IInv, Packets
    <3> QED BY <3>1, <3>2, <1>2, <1>4, <1>6 DEF Extends
  <2> QED BY <1>2, <2>1, NotPlannedYet
<1> QED BY <1>11, <1>12, <1>13 DEF IInv

LEMMA VerifyKeeps ==
    ASSUME IInv, Verify
    PROVE  IInv'
  BY VerifySettingsKeeps, VerifyActionKeeps, RejectKeeps DEF Verify, VerifyNext

-----------------------------------------------------------------------------
(* The steps of generate_execution_plan(). *)

Distinct ==
    \A x, y \in DOMAIN settings.packet_identifiers :
        x # y => PathOf[settings.packet_identifiers[x]] # PathOf[settings.packet_identifiers[y]]

ScriptUnchanged ==
    /\ settings' = settings /\ actions' = actions /\ pool_size' = pool_size
    /\ session_active' = session_active
    /\ session_disconnect_called' = session_disconnect_called

LEMMA AfterVerification ==
    ASSUME IInv, ScriptUnchanged, phase \in {"verified", "factory", "common"},
           phase' \in {"verified", "factory", "common", "planned", "failed"}
    PROVE  Script' /\ Remembered' /\ AcceptedScriptsAreOrdered'
<1>1. Remembered' /\ AcceptedScriptsAreOrdered'
  BY ScriptStays DEF IInv, ScriptUnchanged
<1>2. SettingsValid(settings)' <=> SettingsValid(settings')
  BY DEF SettingsValid, TransportValid, PacketsResolve, HandlerValid, OrchestratorNamesSettings
<1>3. SettingsValid(settings) /\ settings \in {set_script_defaults(s) : s \in SettingsBlocks}
      /\ actions \in Seq(ScriptActions)
  BY DEF IInv, Script
<1>4. Script'
  BY <1>2, <1>3 DEF Script, ScriptUnchanged
<1> QED BY <1>1, <1>4

LEMMA FailKeeps ==
    ASSUME IInv, NEW error, Fail(error), phase \in {"verified", "factory", "common"},
           error = "application" => ~Distinct
    PROVE  IInv'
<1>1. /\ ScriptUnchanged /\ phase' = "failed" /\ planned' = [planned EXCEPT !.error = error]
      /\ plan' = plan /\ lookup' = lookup
  BY DEF Fail, Advance, ScriptUnchanged
<1>2. planned' = [count |-> planned.count, error |-> error]
  BY <1>1 DEF IInv, Shapes
<1>3. planned'.count = planned.count /\ planned'.error = error
  BY <1>2
<1>4. Shapes'
  BY <1>1, <1>2, <1>3 DEF IInv, Shapes
<1>5. Packets'
  BY <1>1, <1>3 DEF IInv, Packets, ScriptUnchanged
<1>6. NoApplicationError'
  BY <1>1, <1>3 DEF NoApplicationError, Distinct, ScriptUnchanged
<1>7. Payloads' /\ Connectable'
  BY <1>1 DEF IInv, Payloads, IsSequence, Connectable
<1> QED BY <1>1, <1>4, <1>5, <1>6, <1>7, AfterVerification DEF IInv

LEMMA MakeFactoryKeeps ==
    ASSUME IInv, MakeFactory
    PROVE  IInv'
<1> DEFINE factory == IF UsesNOP(settings) THEN "NOP"
                      ELSE IF IsWasmFile(settings.handler_value) THEN "WASM" ELSE plan.factory
<1>1. /\ phase = "verified" /\ phase' = "factory" /\ ScriptUnchanged
      /\ plan' = [plan EXCEPT !.factory = factory] /\ lookup' = lookup /\ planned' = planned
  BY DEF MakeFactory, Advance, ScriptUnchanged
<1>2. factory # "none"
  <2>1. HandlerValid(settings)
    BY <1>1 DEF IInv, Script, SettingsValid
  <2> QED BY <2>1 DEF HandlerValid, UsesNOP, IsWasmFile
<1> HIDE DEF factory
<1>3. plan' = [factory |-> factory, endpoints |-> plan.endpoints,
               packet_data |-> plan.packet_data, actions |-> plan.actions,
               payloads |-> plan.payloads, counter_steps |-> plan.counter_steps]
  BY <1>1 DEF IInv, Shapes
<1>4. /\ plan'.factory = factory /\ plan'.packet_data = plan.packet_data
      /\ plan'.payloads = plan.payloads
  BY <1>3
<1>5. Shapes'
  BY <1>1, <1>3 DEF IInv, Shapes
<1>6. Packets'
  BY <1>1, <1>4 DEF IInv, Packets, ScriptUnchanged
<1>7. NoApplicationError'
  BY <1>1 DEF IInv, NoApplicationError, ScriptUnchanged
<1>8. Payloads' /\ Connectable'
  BY <1>1, <1>2, <1>4 DEF IInv, Payloads, IsSequence, Connectable
<1> QED BY <1>1, <1>5, <1>6, <1>7, <1>8, AfterVerification DEF IInv

LEMMA MakeFactoryFailsKeeps ==
    ASSUME IInv, MakeFactoryFails
    PROVE  IInv'
<1>1. phase = "verified" /\ Fail("io")
  BY DEF MakeFactoryFails
<1> QED BY <1>1, FailKeeps

LEMMA ReadPacketFailsKeeps ==
    ASSUME IInv, ReadPacketFails
    PROVE  IInv'
<1>1. phase = "common" /\ Fail("io")
  BY DEF ReadPacketFails
<1> QED BY <1>1, FailKeeps

LEMMA PlanDoneKeeps ==
    ASSUME IInv, PlanDone
    PROVE  IInv'
<1>1. CASE Oversized /\ Fail("oversized")
  BY <1>1, FailKeeps DEF PlanDone
<1>2. CASE ~Oversized /\ Advance("planned") /\ UNCHANGED <<plan, lookup, curr_offset, planned>>
  <2>1. /\ phase = "common" /\ phase' = "planned" /\ ScriptUnchanged /\ plan' = plan
        /\ lookup' = lookup /\ planned' = planned
    BY <1>2 DEF PlanDone, Advance, ScriptUnchanged
  <2>2. Shapes' /\ Packets' /\ NoApplicationError'
    BY <2>1 DEF IInv, Shapes, Packets, NoApplicationError, ScriptUnchanged
  <2>3. Connectable'
    <3>1. GoodEndpoints(plan.endpoints)' <=> GoodEndpoints(plan.endpoints)
      BY <2>1 DEF GoodEndpoints, Known, ScriptUnchanged
    <3> QED BY <2>1, <3>1 DEF IInv, Connectable
  <2>4. Payloads'
    <3>1. ASSUME settings.session_protocol = "UDP", NEW p \in DOMAIN plan.payloads
          PROVE  PayloadSize(p) <= MaxDatagram
      <4>1. plan.packet_data \in Seq(DOMAIN FileSize)
            /\ plan.payloads[p].packet \in DOMAIN plan.packet_data
        BY DEF IInv, Packets, Payloads
      <4>2. plan.packet_data[plan.payloads[p].packet] \in DOMAIN FileSize
        BY <4>1
      <4>3. PayloadSize(p) \in Nat /\ MaxDatagram \in Nat
        BY <4>2, ScriptAssumption, HostAssumption DEF PayloadSize
      <4>4. ~(PayloadSize(p) > MaxDatagram)
        BY <1>2, <3>1 DEF Oversized
      <4> QED BY <4>3, <4>4
    <3>2. \A p : PayloadSize(p)' = PayloadSize(p)
      BY <2>1 DEF PayloadSize
    <3> QED BY <2>1, <3>1, <3>2 DEF IInv, Payloads, IsSequence, ScriptUnchanged
  <2> QED BY <2>1, <2>2, <2>3, <2>4, AfterVerification DEF IInv
<1> QED BY <1>1, <1>2 DEF PlanDone

LEMMA ReadDuplicateKeeps ==
    ASSUME IInv, phase = "common", NEW id \in Unread,
           ReadDuplicate(id, settings.packet_identifiers[id])
    PROVE  IInv'
<1> DEFINE filename == settings.packet_identifiers[id]
<1>1. PathOf[filename] \in lookup.all_packets
  BY DEF ReadDuplicate
<1>2. id \in DOMAIN settings.packet_identifiers /\ id \notin DOMAIN lookup.identity_map
  BY DEF Unread
<1>3. CASE filename \notin DOMAIN lookup.identity_map
  <2>1. Fail("application")
    BY <1>3 DEF ReadDuplicate
  <2>2. PICK other \in DOMAIN lookup.identity_map :
          PathOf[settings.packet_identifiers[other]] = PathOf[filename]
    BY <1>1 DEF IInv, Packets
  <2>3. other \in DOMAIN settings.packet_identifiers /\ other # id
    BY <1>2, <2>2 DEF IInv, Packets
  <2>4. ~Distinct
    BY <1>2, <2>2, <2>3 DEF Distinct
  <2> QED BY <2>1, <2>4, FailKeeps
<1>4. CASE filename \in DOMAIN lookup.identity_map
  <2> DEFINE map == MapIdentifier(id, lookup.identity_map[filename])
  <2>1. /\ lookup' = [lookup EXCEPT !.identity_map = map]
        /\ ScriptUnchanged /\ phase' = phase /\ plan' = plan /\ planned' = planned
    BY <1>4 DEF ReadDuplicate, verifyVars, ScriptUnchanged, Fail, Advance
  <2>2. /\ DOMAIN map = DOMAIN lookup.identity_map \cup {id}
        /\ map[id] = lookup.identity_map[filename]
        /\ \A i \in DOMAIN lookup.identity_map : i # id => map[i] = lookup.identity_map[i]
    BY DEF MapIdentifier
  <2> HIDE DEF map
  <2>3. lookup' = [identity_map |-> map, all_packets |-> lookup.all_packets]
    BY <2>1 DEF IInv, Shapes
  <2>4. lookup'.identity_map = map /\ lookup'.all_packets = lookup.all_packets
    BY <2>3
  <2>5. Shapes'
    BY <2>1, <2>3, <2>4 DEF IInv, Shapes
  <2>6. Packets'
    <3>1. DOMAIN map \subseteq DOMAIN settings.packet_identifiers
      BY <1>2, <2>2 DEF IInv, Packets
    <3>2. \A f \in lookup.all_packets :
            \E i \in DOMAIN map : PathOf[settings.packet_identifiers[i]] = f
      BY <2>2 DEF IInv, Packets
    <3>3. \A i \in DOMAIN map : map[i] \in DOMAIN plan.packet_data
      BY <1>2, <1>4, <2>2 DEF IInv, Packets
    <3> QED BY <3>1, <3>2, <3>3, <2>1, <2>4 DEF IInv, Packets, ScriptUnchanged
  <2>7. NoApplicationError'
    BY <2>1 DEF IInv, NoApplicationError, ScriptUnchanged
  <2>8. Payloads'
    BY <2>1 DEF IInv, Payloads, IsSequence, ScriptUnchanged, PayloadSize
  <2>9. Connectable'
    BY <2>1 DEF IInv, Connectable, GoodEndpoints, Known, ScriptUnchanged
  <2> QED BY <2>1, <2>5, <2>6, <2>7, <2>8, <2>9, AfterVerification DEF IInv
<1> QED BY <1>3, <1>4

LEMMA ReadFileKeeps ==
    ASSUME IInv, phase = "common", NEW id \in Unread,
           ReadFile(id, settings.packet_identifiers[id])
    PROVE  IInv'
<1> DEFINE filename == settings.packet_identifiers[id]
           data == Append(plan.packet_data, filename)
           map == MapIdentifier(id, Len(plan.packet_data) + 1)
           all == lookup.all_packets \cup {PathOf[filename]}
<1>1. id \in DOMAIN settings.packet_identifiers /\ id \notin DOMAIN lookup.identity_map
  BY DEF Unread
<1>2. /\ plan' = [plan EXCEPT !.packet_data = data]
      /\ lookup' = [identity_map |-> map, all_packets |-> all]
      /\ ScriptUnchanged /\ phase' = phase /\ planned' = planned
  BY DEF ReadFile, verifyVars, ScriptUnchanged
<1>3. filename \in DOMAIN FileSize
  <2>1. SettingsValid(settings)
    BY DEF IInv, Script
  <2> QED BY <1>1, <2>1 DEF SettingsValid, PacketsResolve, Resolves
<1>4. plan.packet_data \in Seq(DOMAIN FileSize)
  BY DEF IInv, Packets
<1>5. /\ data \in Seq(DOMAIN FileSize) /\ Len(plan.packet_data) \in Nat
      /\ DOMAIN plan.packet_data = 1 .. Len(plan.packet_data)
      /\ DOMAIN data = 1 .. Len(plan.packet_data) + 1
  BY <1>3, <1>4
<1>6. DOMAIN plan.packet_data \subseteq DOMAIN data /\ Len(plan.packet_data) + 1 \in DOMAIN data
  BY <1>5
<1>7. /\ DOMAIN map = DOMAIN lookup.identity_map \cup {id}
      /\ map[id] = Len(plan.packet_data) + 1
      /\ \A i \in DOMAIN lookup.identity_map : i # id => map[i] = lookup.identity_map[i]
  BY DEF MapIdentifier
<1> HIDE DEF data, map
<1>8. plan' = [factory |-> plan.factory, endpoints |-> plan.endpoints,
               packet_data |-> data, actions |-> plan.actions,
               payloads |-> plan.payloads, counter_steps |-> plan.counter_steps]
  BY <1>2 DEF IInv, Shapes
<1>9. /\ plan'.factory = plan.factory /\ plan'.packet_data = data
      /\ plan'.payloads = plan.payloads /\ plan'.endpoints = plan.endpoints
  BY <1>8
<1>10. lookup'.identity_map = map /\ lookup'.all_packets = all
  BY <1>2
<1>11. Shapes'
  <2>1. plan' = [factory |-> plan'.factory, endpoints |-> plan'.endpoints,
               packet_data |-> plan'.packet_data, actions |-> plan'.actions,
               payloads |-> plan'.payloads, counter_steps |-> plan'.counter_steps]
    BY <1>8
  <2>2. lookup' = [identity_map |-> lookup'.identity_map, all_packets |-> lookup'.all_packets]
    BY <1>2, <1>10
  <2> QED BY <1>2, <2>1, <2>2 DEF IInv, Shapes
<1>12. Packets'
  <2>1. DOMAIN map \subseteq DOMAIN settings.packet_identifiers
    BY <1>1, <1>7 DEF IInv, Packets
  <2>2. \A f \in all : \E i \in DOMAIN map : PathOf[settings.packet_identifiers[i]] = f
    BY <1>7 DEF IInv, Packets
  <2>3. \A i \in DOMAIN map : map[i] \in DOMAIN data
    <3>1. \A i \in DOMAIN lookup.identity_map : lookup.identity_map[i] \in DOMAIN data
      BY <1>6 DEF IInv, Packets
    <3> QED BY <3>1, <1>1, <1>6, <1>7
  <2> HIDE DEF all
  <2> QED BY <2>1, <2>2, <2>3, <1>2, <1>5, <1>9, <1>10 DEF IInv, Packets, ScriptUnchanged
<1>13. NoApplicationError'
  BY <1>2 DEF IInv, NoApplicationError, ScriptUnchanged
<1>14. Payloads'
  BY <1>2, <1>6, <1>9 DEF IInv, Payloads, IsSequence, ScriptUnchanged
<1>15. Connectable'
  BY <1>2, <1>9 DEF IInv, Connectable, GoodEndpoints, Known, ScriptUnchanged
<1> QED BY <1>2, <1>11, <1>12, <1>13, <1>14, <1>15, AfterVerification DEF IInv

LEMMA ReadPacketKeeps ==
    ASSUME IInv, ReadPacket
    PROVE  IInv'
  BY ReadDuplicateKeeps, ReadFileKeeps DEF ReadPacket

-----------------------------------------------------------------------------
(* Planning an action. *)

LEMMA Concatenating ==
    ASSUME NEW s, IsSequence(s), NEW n \in Nat, NEW x
    PROVE  /\ IsSequence(s \o Copies(n, x))
           /\ \A i \in DOMAIN (s \o Copies(n, x)) :
                 \/ i \in DOMAIN s /\ (s \o Copies(n, x))[i] = s[i]
                 \/ (s \o Copies(n, x))[i] = x
<1> DEFINE S == {s[i] : i \in DOMAIN s} \cup {x}
           c == Copies(n, x)
           t == s \o c
<1>1. {s[i] : i \in DOMAIN s} \subseteq S /\ x \in S
  OBVIOUS
<1>2. s \in Seq(S)
  <2> DEFINE R == {s[i] : i \in DOMAIN s}
  <2>1. s \in Seq(R) /\ R \subseteq S
    BY DEF IsSequence
  <2> HIDE DEF R, S
  <2> QED BY <2>1
<1>3. c \in Seq(S) /\ Len(c) = n /\ \A i \in 1 .. n : c[i] = x
  <2> HIDE DEF S
  <2> QED BY <1>1 DEF Copies
<1> HIDE DEF S, c
<1>4. /\ t \in Seq(S) /\ Len(t) = Len(s) + n /\ Len(s) \in Nat /\ DOMAIN t = 1 .. Len(s) + n
      /\ DOMAIN s = 1 .. Len(s)
      /\ \A i \in 1 .. Len(s) : t[i] = s[i]
      /\ \A i \in Len(s) + 1 .. Len(s) + n : t[i] = c[i - Len(s)]
  BY <1>2, <1>3
<1> HIDE DEF t
<1>5. ASSUME NEW i \in DOMAIN t PROVE (i \in DOMAIN s /\ t[i] = s[i]) \/ t[i] = x
  <2>1. i \in 1 .. Len(s) \/ i \in Len(s) + 1 .. Len(s) + n
    BY <1>4
  <2>2. i \in Len(s) + 1 .. Len(s) + n => i - Len(s) \in 1 .. n
    BY <1>4
  <2> QED BY <1>3, <1>4, <2>1, <2>2
<1>6. IsSequence(t)
  <2> DEFINE R == {t[i] : i \in DOMAIN t}
  <2>1. \A i \in 1 .. Len(s) + n : t[i] \in R
    BY <1>4
  <2>2. t = [i \in 1 .. Len(s) + n |-> t[i]] /\ Len(s) + n \in Nat
    BY <1>4
  <2> HIDE DEF R
  <2>3. t \in Seq(R)
    BY <2>1, <2>2
  <2> QED BY <2>3 DEF R, IsSequence
<1> QED BY <1>5, <1>6 DEF t, c

\* What planning an action leaves alone, and what it may do to the payloads.
LEMMA PlannedKeeps ==
    ASSUME IInv, phase = "common", phase' = phase, ScriptUnchanged, lookup' = lookup,
           NEW acts, NEW loads, NEW steps,
           plan' = [plan EXCEPT !.actions = acts, !.payloads = loads, !.counter_steps = steps],
           planned' = [planned EXCEPT !.count = @ + 1],
           IsSequence(loads),
           \A p \in DOMAIN loads : loads[p].packet \in DOMAIN plan.packet_data
    PROVE  IInv'
<1>1. plan' = [factory |-> plan.factory, endpoints |-> plan.endpoints,
               packet_data |-> plan.packet_data, actions |-> acts,
               payloads |-> loads, counter_steps |-> steps]
  BY DEF IInv, Shapes
<1>2. /\ plan'.factory = plan.factory /\ plan'.packet_data = plan.packet_data
      /\ plan'.payloads = loads /\ plan'.endpoints = plan.endpoints
  BY <1>1
<1>3. planned' = [count |-> planned.count + 1, error |-> planned.error]
  BY DEF IInv, Shapes
<1>4. planned'.count = planned.count + 1 /\ planned'.error = planned.error
  BY <1>3
<1>5. Shapes'
  <2>1. plan' = [factory |-> plan'.factory, endpoints |-> plan'.endpoints,
               packet_data |-> plan'.packet_data, actions |-> plan'.actions,
               payloads |-> plan'.payloads, counter_steps |-> plan'.counter_steps]
    BY <1>1
  <2>2. planned' = [count |-> planned'.count, error |-> planned'.error]
    BY <1>3, <1>4
  <2> QED BY <2>1, <2>2 DEF IInv, Shapes
<1>6. Packets'
  <2>1. planned'.count \in Nat
    BY <1>4 DEF IInv, Packets
  <2> QED BY <1>2, <1>4, <2>1 DEF IInv, Packets, ScriptUnchanged
<1>7. NoApplicationError'
  BY <1>4 DEF IInv, NoApplicationError, ScriptUnchanged
<1>8. Payloads'
  BY <1>2 DEF IInv, Payloads, IsSequence
<1>9. Connectable'
  BY <1>2 DEF IInv, Connectable, GoodEndpoints, Known, ScriptUnchanged
<1> QED BY <1>5, <1>6, <1>7, <1>8, <1>9, AfterVerification DEF IInv

LEMMA PlanActionKeeps ==
    ASSUME IInv, PlanAction
    PROVE  IInv'
<1> DEFINE a == actions[planned.count + 1]
<1>1. phase = "common" /\ Unread = {} /\ planned.count < Len(actions)
  BY DEF PlanAction
<1>2. planned.count + 1 \in DOMAIN actions /\ a \in ScriptActions
  <2>1. actions \in Seq(ScriptActions) /\ planned.count \in Nat
    BY DEF IInv, Script, Packets
  <2> QED BY <1>1, <2>1
<1>3. a.type = "SEND" => a.packet \in DOMAIN lookup.identity_map
  BY <1>1, <1>2 DEF IInv, Packets, Unread
<1>4. /\ planned' = [planned EXCEPT !.count = @ + 1] /\ lookup' = lookup
      /\ phase' = phase /\ ScriptUnchanged
      /\ \/ a.type = "SEND" /\ PlanSend(a)
         \/ a.type # "SEND" /\ plan' = [plan EXCEPT !.actions = Append(@, Descriptor(a))]
  BY <1>3 DEF PlanAction, verifyVars, ScriptUnchanged
<1>5. /\ IsSequence(plan.payloads)
      /\ \A p \in DOMAIN plan.payloads : plan.payloads[p].packet \in DOMAIN plan.packet_data
  BY DEF IInv, Payloads
<1>6. CASE a.type = "SEND"
  <2> DEFINE packet == lookup.identity_map[a.packet]
             ops == MakeOps(a.mods, FileSize[plan.packet_data[packet]])
             payload == [packet |-> packet, ops |-> ops]
             acts == Append(plan.actions, Descriptor(a))
             loads == plan.payloads \o Copies(a.count, payload)
             steps == plan.counter_steps \o Copies(a.count, Modified(a.mods).counter_list)
  <2>1. packet \in DOMAIN plan.packet_data
    BY <1>3, <1>6 DEF IInv, Packets
  <2>2. a.count \in Nat
    BY <1>2, ActionFacts
  <2>3. plan' = [plan EXCEPT !.actions = acts, !.payloads = loads, !.counter_steps = steps]
    <3>1. plan' = [plan EXCEPT
                    !.actions = Append(@, Descriptor(a)),
                    !.payloads = @ \o Copies(a.count, payload),
                    !.counter_steps = @ \o Copies(a.count, Modified(a.mods).counter_list)]
      BY <1>4, <1>6 DEF PlanSend
    <3> HIDE DEF payload
    <3> QED BY <3>1 DEF IInv, Shapes
  <2>4. payload.packet = packet
    OBVIOUS
  <2> HIDE DEF packet, ops, payload, acts, steps
  <2>5. /\ IsSequence(loads)
        /\ \A i \in DOMAIN loads : \/ i \in DOMAIN plan.payloads /\ loads[i] = plan.payloads[i]
                                   \/ loads[i] = payload
    BY <1>5, <2>2, Concatenating
  <2> HIDE DEF loads
  <2>6. \A p \in DOMAIN loads : loads[p].packet \in DOMAIN plan.packet_data
    BY <1>5, <2>1, <2>4, <2>5
  <2> HIDE DEF a
  <2> QED BY <1>1, <1>4, <2>3, <2>5, <2>6, PlannedKeeps
<1>7. CASE a.type # "SEND"
  <2> DEFINE acts == Append(plan.actions, Descriptor(a))
             loads == plan.payloads
             steps == plan.counter_steps
  <2>1. plan' = [plan EXCEPT !.actions = acts, !.payloads = loads, !.counter_steps = steps]
    BY <1>4, <1>7 DEF IInv, Shapes
  <2> HIDE DEF acts, a
  <2> QED BY <1>1, <1>4, <1>5, <2>1, PlannedKeeps
<1> QED BY <1>6, <1>7

-----------------------------------------------------------------------------
(* The endpoints: induction, and the lists the two loops build. *)

LEMMA NatSetInduction ==
    ASSUME NEW S, 0 \in S, \A n \in Nat : n \in S => n + 1 \in S
    PROVE  Nat \subseteq S
<1> DEFINE T == Nat \ S
<1>1. SUFFICES ASSUME T # {} PROVE FALSE
  OBVIOUS
<1>2. T \subseteq Nat
  OBVIOUS
<1>3. \E x \in T : \A y \in T : ~(<<y, x>> \in OpToRel(<, Nat))
  <2> HIDE DEF T
  <2> QED BY <1>1, <1>2, WFMin, NatLessThanWellFounded
<1>4. PICK x \in T : \A y \in T : ~(<<y, x>> \in OpToRel(<, Nat))
  BY <1>3
<1>5. x \in Nat /\ x \notin S /\ x # 0
  OBVIOUS
<1>6. x - 1 \in Nat /\ x - 1 < x
  BY <1>5
<1>7. x - 1 \in S
  BY <1>4, <1>5, <1>6 DEF OpToRel
<1>8. (x - 1) + 1 \in S
  BY <1>6, <1>7
<1> QED BY <1>5, <1>8

\* f starts at x and applies step[i] as its i-th step.
IsIteration(f, T, x, step, n) ==
    f \in [0 .. n -> T] /\ f[0] = x /\ \A i \in 1 .. n : f[i] = step[i][f[i - 1]]

LEMMA IterationExists ==
    ASSUME NEW T, NEW x \in T, NEW N \in Nat, NEW step \in [1 .. N -> [T -> T]]
    PROVE  \E f : IsIteration(f, T, x, step, N)
<1> DEFINE S == {n \in Nat : n <= N => \E f : IsIteration(f, T, x, step, n)}
<1>1. 0 \in S
  <2> DEFINE f == [i \in 0 .. 0 |-> x]
  <2>1. IsIteration(f, T, x, step, 0)
    BY DEF IsIteration
  <2> QED BY <2>1
<1>2. ASSUME NEW n \in Nat, n \in S PROVE n + 1 \in S
  <2> SUFFICES ASSUME n + 1 <= N PROVE \E f : IsIteration(f, T, x, step, n + 1)
    OBVIOUS
  <2>0. n + 1 \in 1 .. N
    OBVIOUS
  <2>1. step[n + 1] \in [T -> T]
    BY <2>0
  <2>2. PICK f : IsIteration(f, T, x, step, n)
    BY <1>2
  <2>3. f[n] \in T
    BY <2>2 DEF IsIteration
  <2> DEFINE top == step[n + 1][f[n]]
             g == [i \in 0 .. n + 1 |-> IF i = n + 1 THEN top ELSE f[i]]
  <2>4. top \in T
    BY <2>1, <2>3
  <2> HIDE DEF top
  <2>5. g \in [0 .. n + 1 -> T] /\ g[0] = x
    BY <2>2, <2>4 DEF IsIteration
  <2>6. ASSUME NEW i \in 1 .. n + 1 PROVE g[i] = step[i][g[i - 1]]
    <3>1. CASE i = n + 1
      BY <3>1 DEF top
    <3>2. CASE i # n + 1
      <4>1. i \in 1 .. n /\ i - 1 \in 0 .. n /\ i - 1 # n + 1 /\ i \in 0 .. n
        BY <3>2
      <4>2. g[i] = f[i] /\ g[i - 1] = f[i - 1]
        BY <4>1, <3>2
      <4> HIDE DEF g
      <4> QED BY <4>1, <4>2, <2>2 DEF IsIteration
    <3> QED BY <3>1, <3>2
  <2> HIDE DEF g
  <2>7. IsIteration(g, T, x, step, n + 1)
    BY <2>5, <2>6 DEF IsIteration
  <2> QED BY <2>7
<1>3. Nat \subseteq S
  <2> HIDE DEF S
  <2> QED BY <1>1, <1>2, NatSetInduction
<1> QED BY <1>3

LEMMA KeepOnceIs ==
    ASSUME NEW A, NEW list \in Seq(A), NEW e \in A
    PROVE  /\ KeepOnce(list, e) \in Seq(A)
           /\ IsInjective(list) => IsInjective(KeepOnce(list, e))
           /\ ToSet(KeepOnce(list, e)) = ToSet(list) \cup {e}
<1>1. CASE Contains(list, e)
  <2>1. KeepOnce(list, e) = list
    BY <1>1 DEF KeepOnce
  <2>2. e \in ToSet(list)
    BY <1>1 DEF Contains, ToSet
  <2> QED BY <2>1, <2>2
<1>2. CASE ~Contains(list, e)
  <2> DEFINE t == Append(list, e)
             L == Len(list)
  <2>1. KeepOnce(list, e) = t
    BY <1>2 DEF KeepOnce
  <2>2. /\ t \in Seq(A) /\ L \in Nat /\ DOMAIN list = 1 .. L /\ DOMAIN t = 1 .. L + 1
        /\ t[L + 1] = e /\ \A i \in 1 .. L : t[i] = list[i]
    OBVIOUS
  <2>3. \A i \in 1 .. L : list[i] # e
    BY <1>2 DEF Contains
  <2> HIDE DEF t, L
  <2>4. IsInjective(list) => IsInjective(t)
    BY <2>2, <2>3 DEF IsInjective
  <2>5. ToSet(t) = ToSet(list) \cup {e}
    <3>1. DOMAIN t = DOMAIN list \cup {L + 1}
      BY <2>2
    <3> QED BY <2>2, <3>1 DEF ToSet
  <2> QED BY <2>1, <2>2, <2>4, <2>5
<1> QED BY <1>1, <1>2

LEMMA KeepAllIs ==
    ASSUME NEW A, NEW list \in Seq(A), NEW addresses \in Seq(A)
    PROVE  /\ KeepAll(list, addresses) \in Seq(A)
           /\ IsInjective(list) => IsInjective(KeepAll(list, addresses))
           /\ ToSet(KeepAll(list, addresses)) = ToSet(list) \cup ToSet(addresses)
<1> DEFINE T == Seq(A)
           N == Len(addresses)
           step == [n \in 1 .. N |-> [l \in T |-> KeepOnce(l, addresses[n])]]
<1>1. N \in Nat /\ \A n \in 1 .. N : addresses[n] \in A
  OBVIOUS
<1>2. \A n \in 1 .. N : \A l \in T : KeepOnce(l, addresses[n]) \in T
  BY <1>1, KeepOnceIs
<1>3. step \in [1 .. N -> [T -> T]] /\ list \in T
      /\ \A n \in 1 .. N : \A l \in T : step[n][l] = KeepOnce(l, addresses[n])
  <2> HIDE DEF T, N
  <2>1. list \in T
    BY DEF T
  <2> QED BY <1>2, <2>1
<1> HIDE DEF step, T
<1>4. PICK f : IsIteration(f, T, list, step, N)
  BY <1>1, <1>3, IterationExists
<1>5. f = [n \in 0 .. N |-> IF n = 0 THEN list ELSE KeepOnce(f[n - 1], addresses[n])]
  <2>1. f \in [0 .. N -> T]
    BY <1>4 DEF IsIteration
  <2>2. ASSUME NEW n \in 0 .. N
        PROVE  f[n] = IF n = 0 THEN list ELSE KeepOnce(f[n - 1], addresses[n])
    <3>1. CASE n = 0
      BY <3>1, <1>4 DEF IsIteration
    <3>2. CASE n # 0
      <4>1. n \in 1 .. N /\ n - 1 \in 0 .. N
        BY <3>2, <1>1
      <4>2. f[n] = step[n][f[n - 1]] /\ f[n - 1] \in T
        BY <4>1, <1>4 DEF IsIteration
      <4> QED BY <3>2, <4>1, <4>2, <1>3
    <3> QED BY <3>1, <3>2
  <2> QED BY <2>1, <2>2
<1>6. \E h : h = [n \in 0 .. N |-> IF n = 0 THEN list ELSE KeepOnce(h[n - 1], addresses[n])]
             /\ KeepAll(list, addresses) = h[N]
  BY <1>5 DEF KeepAll
<1>7. PICK h : h = [n \in 0 .. N |-> IF n = 0 THEN list ELSE KeepOnce(h[n - 1], addresses[n])]
               /\ KeepAll(list, addresses) = h[N]
  BY <1>6
<1>8. h[0] = list /\ \A n \in 1 .. N : h[n] = KeepOnce(h[n - 1], addresses[n])
  BY <1>1, <1>7
<1> DEFINE upTo(n) == {addresses[i] : i \in 1 .. n}
           S == {n \in Nat : n <= N => /\ h[n] \in T
                                       /\ IsInjective(list) => IsInjective(h[n])
                                       /\ ToSet(h[n]) = ToSet(list) \cup upTo(n)}
<1>9. 0 \in S
  <2>1. upTo(0) = {}
    OBVIOUS
  <2> QED BY <2>1, <1>3, <1>8
<1>10. ASSUME NEW n \in Nat, n \in S PROVE n + 1 \in S
  <2> SUFFICES ASSUME n + 1 <= N
               PROVE  /\ h[n + 1] \in T
                      /\ IsInjective(list) => IsInjective(h[n + 1])
                      /\ ToSet(h[n + 1]) = ToSet(list) \cup upTo(n + 1)
    OBVIOUS
  <2>1. n + 1 \in 1 .. N /\ (n + 1) - 1 = n /\ n <= N
    BY <1>1
  <2>2. /\ h[n] \in T
        /\ IsInjective(list) => IsInjective(h[n])
        /\ ToSet(h[n]) = ToSet(list) \cup upTo(n)
    BY <1>10, <2>1
  <2>3. h[n + 1] = KeepOnce(h[n], addresses[n + 1]) /\ addresses[n + 1] \in A
    BY <1>1, <1>8, <2>1
  <2>4. upTo(n + 1) = upTo(n) \cup {addresses[n + 1]}
    <3>1. 1 .. n + 1 = (1 .. n) \cup {n + 1}
      OBVIOUS
    <3> QED BY <3>1
  <2> HIDE DEF upTo
  <2>5. h[n] \in Seq(A)
    BY <2>2 DEF T
  <2>6. /\ h[n + 1] \in Seq(A)
        /\ IsInjective(h[n]) => IsInjective(h[n + 1])
        /\ ToSet(h[n + 1]) = ToSet(h[n]) \cup {addresses[n + 1]}
    <3> DEFINE l == h[n]
               e == addresses[n + 1]
    <3>1. l \in Seq(A) /\ e \in A /\ h[n + 1] = KeepOnce(l, e)
      BY <2>3, <2>5
    <3> HIDE DEF l, e
    <3>2. /\ KeepOnce(l, e) \in Seq(A)
          /\ IsInjective(l) => IsInjective(KeepOnce(l, e))
          /\ ToSet(KeepOnce(l, e)) = ToSet(l) \cup {e}
      BY <3>1, KeepOnceIs
    <3> QED BY <3>1, <3>2 DEF l, e
  <2> QED BY <2>2, <2>4, <2>6 DEF T
<1>11. Nat \subseteq S
  <2> HIDE DEF S
  <2> QED BY <1>9, <1>10, NatSetInduction
<1>12. /\ h[N] \in T
       /\ IsInjective(list) => IsInjective(h[N])
       /\ ToSet(h[N]) = ToSet(list) \cup upTo(N)
  <2>1. N \in S
    <3> HIDE DEF S
    <3> QED BY <1>1, <1>11
  <2>2. N <= N
    BY <1>1
  <2> HIDE DEF upTo, N
  <2> QED BY <2>1, <2>2
<1>13. upTo(N) = ToSet(addresses)
  BY DEF ToSet
<1> QED BY <1>7, <1>12, <1>13 DEF T

\* list is what was stored of the addresses in found.
StoredOf(list, found) ==
    /\ IsInjective(list) /\ ToSet(list) \subseteq found
    /\ settings.session_protocol # "UDP" => ToSet(list) = found
    /\ settings.session_protocol = "UDP" => Len(list) <= 1

LEMMA StoreIs ==
    ASSUME NEW A, \A h \in DOMAIN Addresses : Addresses[h] \in Seq(A),
           NEW list \in Seq(A), NEW host \in DOMAIN Addresses, NEW found
    PROVE  /\ Store(list, host) \in Seq(A)
           /\ StoredOf(list, found) =>
                 StoredOf(Store(list, host), found \cup ToSet(Addresses[host]))
<1> DEFINE more == Addresses[host]
<1>1. more \in Seq(A)
  OBVIOUS
<1>2. CASE settings.session_protocol = "UDP"
  <2>1. CASE more = <<>>
    <3>1. Store(list, host) = list
      BY <1>2, <2>1 DEF Store
    <3>2. ToSet(more) = {}
      BY <2>1 DEF ToSet
    <3> QED BY <1>2, <3>1, <3>2 DEF StoredOf
  <2>2. CASE more # <<>>
    <3> DEFINE e == Last(more)
               one == <<e>>
    <3>1. Store(list, host) = one
      BY <1>2, <2>2 DEF Store
    <3>2. Len(more) \in DOMAIN more /\ e = more[Len(more)] /\ e \in A
      <4> HIDE DEF more
      <4> QED BY <1>1, <2>2 DEF Last
    <3>3. e \in ToSet(more)
      <4> HIDE DEF more, e
      <4> QED BY <3>2 DEF ToSet
    <3> HIDE DEF e
    <3>4. one \in Seq(A) /\ Len(one) <= 1 /\ IsInjective(one) /\ ToSet(one) = {e}
      BY <3>2 DEF IsInjective, ToSet
    <3> QED BY <1>2, <3>1, <3>3, <3>4 DEF StoredOf
  <2> QED BY <2>1, <2>2
<1>3. CASE settings.session_protocol # "UDP"
  <2>1. Store(list, host) = KeepAll(list, more)
    BY <1>3 DEF Store
  <2> HIDE DEF more
  <2>2. /\ KeepAll(list, more) \in Seq(A)
        /\ IsInjective(list) => IsInjective(KeepAll(list, more))
        /\ ToSet(KeepAll(list, more)) = ToSet(list) \cup ToSet(more)
    BY <1>1, KeepAllIs
  <2> QED BY <1>3, <2>1, <2>2 DEF StoredOf, more
<1> QED BY <1>2, <1>3

LEMMA StoreAllIs ==
    ASSUME NEW A, \A h \in DOMAIN Addresses : Addresses[h] \in Seq(A),
           NEW hosts \in Seq(DOMAIN Addresses)
    PROVE  /\ StoreAll(hosts) \in Seq(A)
           /\ StoredOf(StoreAll(hosts), UNION {ToSet(Addresses[hosts[i]]) : i \in DOMAIN hosts})
<1> DEFINE T == Seq(A)
           N == Len(hosts)
           step == [n \in 1 .. N |-> [l \in T |-> Store(l, hosts[n])]]
<1>1. N \in Nat /\ DOMAIN hosts = 1 .. N /\ \A n \in 1 .. N : hosts[n] \in DOMAIN Addresses
  OBVIOUS
<1>2. \A n \in 1 .. N : \A l \in T : Store(l, hosts[n]) \in T
  <2> SUFFICES ASSUME NEW n \in 1 .. N, NEW l \in T PROVE Store(l, hosts[n]) \in T
    OBVIOUS
  <2> DEFINE host == hosts[n]
  <2>1. host \in DOMAIN Addresses
    BY <1>1
  <2> HIDE DEF host
  <2>2. Store(l, host) \in T
    BY <2>1, StoreIs
  <2> QED BY <2>2 DEF host
<1>3. step \in [1 .. N -> [T -> T]] /\ <<>> \in T
      /\ \A n \in 1 .. N : \A l \in T : step[n][l] = Store(l, hosts[n])
  <2>1. <<>> \in T
    OBVIOUS
  <2> HIDE DEF T, N
  <2> QED BY <1>2, <2>1
<1> HIDE DEF step, T
<1>4. PICK f : IsIteration(f, T, <<>>, step, N)
  BY <1>1, <1>3, IterationExists
<1>5. f = [n \in 0 .. N |-> IF n = 0 THEN <<>> ELSE Store(f[n - 1], hosts[n])]
  <2>1. f \in [0 .. N -> T]
    BY <1>4 DEF IsIteration
  <2>2. ASSUME NEW n \in 0 .. N
        PROVE  f[n] = IF n = 0 THEN <<>> ELSE Store(f[n - 1], hosts[n])
    <3>1. CASE n = 0
      BY <3>1, <1>4 DEF IsIteration
    <3>2. CASE n # 0
      <4>1. n \in 1 .. N /\ n - 1 \in 0 .. N
        BY <3>2, <1>1
      <4>2. f[n] = step[n][f[n - 1]] /\ f[n - 1] \in T
        BY <4>1, <1>4 DEF IsIteration
      <4> QED BY <3>2, <4>1, <4>2, <1>3
    <3> QED BY <3>1, <3>2
  <2> QED BY <2>1, <2>2
<1>6. \E h : h = [n \in 0 .. N |-> IF n = 0 THEN <<>> ELSE Store(h[n - 1], hosts[n])]
             /\ StoreAll(hosts) = h[N]
  BY <1>5 DEF StoreAll
<1>7. PICK h : h = [n \in 0 .. N |-> IF n = 0 THEN <<>> ELSE Store(h[n - 1], hosts[n])]
               /\ StoreAll(hosts) = h[N]
  BY <1>6
<1>8. h[0] = <<>> /\ \A n \in 1 .. N : h[n] = Store(h[n - 1], hosts[n])
  <2> HIDE DEF N
  <2>1. \A n \in 0 .. N : h[n] = IF n = 0 THEN <<>> ELSE Store(h[n - 1], hosts[n])
    BY <1>7
  <2>2. 0 \in 0 .. N /\ \A n \in 1 .. N : n \in 0 .. N /\ n # 0
    BY <1>1
  <2>3. h[0] = <<>>
    BY <2>1, <2>2
  <2> QED BY <2>1, <2>2, <2>3
<1> DEFINE upTo(n) == UNION {ToSet(Addresses[hosts[i]]) : i \in 1 .. n}
           S == {n \in Nat : n <= N => h[n] \in T /\ StoredOf(h[n], upTo(n))}
<1>9. 0 \in S
  <2>1. upTo(0) = {}
    OBVIOUS
  <2>2. StoredOf(<<>>, {})
    BY DEF StoredOf, IsInjective, ToSet
  <2> QED BY <2>1, <2>2, <1>3, <1>8
<1>10. ASSUME NEW n \in Nat, n \in S PROVE n + 1 \in S
  <2> SUFFICES ASSUME n + 1 <= N PROVE h[n + 1] \in T /\ StoredOf(h[n + 1], upTo(n + 1))
    OBVIOUS
  <2>1. n + 1 \in 1 .. N /\ (n + 1) - 1 = n /\ n <= N
    BY <1>1
  <2> DEFINE l == h[n]
             host == hosts[n + 1]
             found == upTo(n)
  <2>2. l \in T /\ StoredOf(l, found)
    BY <1>10, <2>1
  <2>3. h[n + 1] = Store(l, host) /\ host \in DOMAIN Addresses
    BY <1>1, <1>8, <2>1
  <2>4. upTo(n + 1) = found \cup ToSet(Addresses[host])
    <3>1. 1 .. n + 1 = (1 .. n) \cup {n + 1}
      OBVIOUS
    <3> QED BY <3>1
  <2> HIDE DEF upTo, l, host, found
  <2>5. Store(l, host) \in Seq(A) /\ StoredOf(Store(l, host), found \cup ToSet(Addresses[host]))
    BY <2>2, <2>3, StoreIs DEF T
  <2> QED BY <2>3, <2>4, <2>5 DEF T
<1>11. Nat \subseteq S
  <2> HIDE DEF S
  <2> QED BY <1>9, <1>10, NatSetInduction
<1>12. h[N] \in T /\ StoredOf(h[N], upTo(N))
  <2>1. N \in S /\ N <= N
    <3> HIDE DEF S, N
    <3> QED BY <1>1, <1>11
  <2> HIDE DEF upTo, N
  <2> QED BY <2>1
<1> QED BY <1>1, <1>7, <1>12 DEF T

LEMMA ResolveEndpointsKeeps ==
    ASSUME IInv, ResolveEndpoints
    PROVE  IInv'
<1> DEFINE found == StoreAll(settings.endpoints)
           hosts == settings.endpoints
<1>1. phase = "factory"
  BY DEF ResolveEndpoints
<1>2. CASE found = <<>>
  <2>1. Fail("hosts")
    BY <1>2 DEF ResolveEndpoints
  <2> QED BY <1>1, <2>1, FailKeeps
<1>3. CASE found # <<>>
  <2>1. /\ plan' = [plan EXCEPT !.endpoints = found] /\ phase' = "common" /\ ScriptUnchanged
        /\ lookup' = lookup /\ planned' = planned
    BY <1>3 DEF ResolveEndpoints, Advance, ScriptUnchanged
  <2>2. SettingsValid(settings) /\ \E s \in SettingsBlocks : settings = set_script_defaults(s)
    BY <1>1 DEF IInv, Script
  <2>3. hosts \in Seq(STRING) /\ ToSet(hosts) \subseteq DOMAIN Addresses
    <3>1. PICK s \in SettingsBlocks : settings = set_script_defaults(s)
      BY <2>2
    <3> QED BY <3>1, DefaultsIs
  <2>4. hosts \in Seq(DOMAIN Addresses)
    <3> DEFINE A == STRING
               D == DOMAIN Addresses
    <3>1. hosts \in Seq(A) /\ ToSet(hosts) \subseteq D
      BY <2>3
    <3> HIDE DEF A, D, hosts
    <3>2. \A i \in 1 .. Len(hosts) : hosts[i] \in D
      BY <3>1 DEF ToSet
    <3>3. hosts = [i \in 1 .. Len(hosts) |-> hosts[i]] /\ Len(hosts) \in Nat
      BY <3>1
    <3>4. hosts \in Seq(D)
      BY <3>2, <3>3
    <3> QED BY <3>4 DEF D
  <2>5. /\ IsSequence(found)
        /\ StoredOf(found, UNION {ToSet(Addresses[hosts[i]]) : i \in DOMAIN hosts})
        /\ Len(found) \in Nat /\ (Len(found) = 0 => found = <<>>)
    <3> DEFINE A == STRING
    <3>1. \A h \in DOMAIN Addresses : Addresses[h] \in Seq(A)
      BY HostAssumption
    <3> HIDE DEF A, hosts
    <3>2. /\ StoreAll(hosts) \in Seq(A)
          /\ StoredOf(StoreAll(hosts), UNION {ToSet(Addresses[hosts[i]]) : i \in DOMAIN hosts})
      BY <2>4, <3>1, StoreAllIs
    <3> DEFINE list == StoreAll(hosts)
    <3>3. list \in Seq(A)
      BY <3>2
    <3> HIDE DEF list
    <3>4. Len(list) \in Nat /\ (Len(list) = 0 => list = <<>>) /\ list \in Seq({list[i] : i \in DOMAIN list})
      <4> DEFINE R == {list[i] : i \in DOMAIN list}
      <4>1. Len(list) \in Nat /\ (Len(list) = 0 => list = <<>>) /\ DOMAIN list = 1 .. Len(list)
            /\ list = [i \in 1 .. Len(list) |-> list[i]]
        BY <3>3
      <4>2. \A i \in 1 .. Len(list) : list[i] \in R
        BY <4>1
      <4> HIDE DEF R
      <4>3. list \in Seq(R)
        BY <4>1, <4>2
      <4> QED BY <4>1, <4>3 DEF R
    <3> QED BY <3>2, <3>4 DEF list, hosts, IsSequence
  <2>6. UNION {ToSet(Addresses[hosts[i]]) : i \in DOMAIN hosts} = Known
    BY DEF Known, ToSet
  <2> HIDE DEF found, hosts
  <2>7. GoodEndpoints(found)
    <3>1. settings.session_protocol = "UDP" => Len(found) = 1
      <4>1. Len(found) # 0
        BY <1>3, <2>5
      <4>2. settings.session_protocol = "UDP" => Len(found) <= 1
        BY <2>5 DEF StoredOf
      <4>3. Len(found) \in Nat
        BY <2>5
      <4> DEFINE size == Len(found)
      <4>4. size # 0 /\ size \in Nat /\ (settings.session_protocol = "UDP" => size <= 1)
        BY <4>1, <4>2, <4>3
      <4> HIDE DEF size
      <4>5. settings.session_protocol = "UDP" => size = 1
        BY <4>4
      <4> QED BY <4>5 DEF size
    <3>2. IsInjective(found) /\ ToSet(found) \subseteq Known
      BY <2>5, <2>6 DEF StoredOf
    <3>3. settings.session_protocol = "TCP" => ToSet(found) = Known
      BY <2>5, <2>6 DEF StoredOf
    <3> QED BY <1>3, <3>1, <3>2, <3>3 DEF GoodEndpoints
  <2>8. plan' = [factory |-> plan.factory, endpoints |-> found,
                 packet_data |-> plan.packet_data, actions |-> plan.actions,
                 payloads |-> plan.payloads, counter_steps |-> plan.counter_steps]
    BY <2>1 DEF IInv, Shapes
  <2>9. /\ plan'.factory = plan.factory /\ plan'.packet_data = plan.packet_data
        /\ plan'.payloads = plan.payloads /\ plan'.endpoints = found
    BY <2>8
  <2>10. Shapes'
    BY <2>1, <2>8 DEF IInv, Shapes
  <2>11. Packets'
    BY <1>1, <2>1, <2>9 DEF IInv, Packets, ScriptUnchanged
  <2>12. NoApplicationError'
    BY <2>1 DEF IInv, NoApplicationError, ScriptUnchanged
  <2>13. Payloads'
    BY <2>1, <2>9 DEF IInv, Payloads, IsSequence
  <2>14. Connectable'
    <3>1. GoodEndpoints(plan.endpoints)' <=> GoodEndpoints(found)
      BY <2>1, <2>9 DEF GoodEndpoints, Known, ScriptUnchanged
    <3> QED BY <1>1, <2>1, <2>7, <2>9, <3>1 DEF IInv, Connectable
  <2> QED BY <1>1, <2>1, <2>10, <2>11, <2>12, <2>13, <2>14, AfterVerification DEF IInv
<1> QED BY <1>2, <1>3

-----------------------------------------------------------------------------
(* The invariant holds. *)

LEMMA InitHolds == Init => IInv
<1> SUFFICES ASSUME Init PROVE IInv
  OBVIOUS
<1>1. /\ phase = "settings" /\ settings \in SettingsBlocks /\ actions = <<>> /\ pool_size = 0
      /\ session_active = <<>> /\ session_disconnect_called = <<>>
      /\ plan = [factory |-> "none", endpoints |-> <<>>, packet_data |-> <<>>, actions |-> <<>>,
                 payloads |-> <<>>, counter_steps |-> <<>>]
      /\ lookup = [identity_map |-> <<>>, all_packets |-> {}]
      /\ planned = [count |-> 0, error |-> "none"]
  BY DEF Init, VerifyInit
<1>2. Shapes
  BY <1>1 DEF Shapes
<1>3. Script
  BY <1>1 DEF Script
<1>4. Remembered /\ AcceptedScriptsAreOrdered
  <2>1. 0 .. 0 - 1 = {} /\ DOMAIN actions = {}
    BY <1>1
  <2>2. session_active \in [0 .. pool_size - 1 -> BOOLEAN]
        /\ session_disconnect_called \in [0 .. pool_size - 1 -> BOOLEAN]
    BY <1>1, <2>1
  <2> QED BY <1>1, <2>1, <2>2 DEF Remembered, AcceptedScriptsAreOrdered
<1>5. Packets /\ NoApplicationError
  <2>1. lookup.identity_map = <<>> /\ lookup.all_packets = {} /\ plan.packet_data = <<>>
        /\ planned.count = 0 /\ planned.error = "none"
    BY <1>1
  <2>2. DOMAIN lookup.identity_map = {} /\ DOMAIN actions = {}
    BY <1>1, <2>1
  <2>3. plan.packet_data \in Seq(DOMAIN FileSize)
    BY <2>1
  <2> QED BY <1>1, <2>1, <2>2, <2>3 DEF Packets, NoApplicationError
<1>6. Payloads /\ Connectable
  <2>1. plan.payloads = <<>>
    BY <1>1
  <2>2. DOMAIN plan.payloads = {} /\ IsSequence(plan.payloads)
    BY <2>1 DEF IsSequence
  <2> QED BY <1>1, <2>2 DEF Payloads, Connectable
<1> QED BY <1>2, <1>3, <1>4, <1>5, <1>6 DEF IInv

LEMMA StutterKeeps ==
    ASSUME IInv, UNCHANGED vars
    PROVE  IInv'
<1>1. /\ settings' = settings /\ actions' = actions /\ pool_size' = pool_size /\ phase' = phase
      /\ session_active' = session_active
      /\ session_disconnect_called' = session_disconnect_called
      /\ plan' = plan /\ lookup' = lookup /\ planned' = planned
  BY DEF vars, verifyVars
<1>2. Remembered' /\ AcceptedScriptsAreOrdered'
  BY <1>1, ScriptStays DEF IInv
<1>3. Shapes'
  BY <1>1 DEF IInv, Shapes
<1>4. Script'
  BY <1>1 DEF IInv, Script, SettingsValid, TransportValid, PacketsResolve, HandlerValid,
              OrchestratorNamesSettings
<1>5. Packets' /\ NoApplicationError'
  BY <1>1 DEF IInv, Packets, NoApplicationError
<1>6. Payloads'
  BY <1>1 DEF IInv, Payloads, IsSequence, PayloadSize
<1>7. Connectable'
  BY <1>1 DEF IInv, Connectable, GoodEndpoints, Known
<1> QED BY <1>2, <1>3, <1>4, <1>5, <1>6, <1>7 DEF IInv

LEMMA StepKeeps == IInv /\ [Next]_vars => IInv'
<1> SUFFICES ASSUME IInv, [Next]_vars PROVE IInv'
  OBVIOUS
<1>1. CASE Next
  BY <1>1, VerifyKeeps, MakeFactoryKeeps, MakeFactoryFailsKeeps, ResolveEndpointsKeeps,
     ReadPacketKeeps, ReadPacketFailsKeeps, PlanActionKeeps, PlanDoneKeeps DEF Next
<1>2. CASE UNCHANGED vars
  BY <1>2, StutterKeeps
<1> QED BY <1>1, <1>2

-----------------------------------------------------------------------------
(* Theorems. *)

\* The invariant above holds from the first check of a script to its plan.
THEOREM Invariance == Spec => []IInv
  BY InitHolds, StepKeeps, PTL DEF Spec

\* verify_script() accepts no script that creates twice, reaches sessions
\* that were not created, or connects, sends and disconnects out of order.
THEOREM ScriptsOrdered == Spec => []AcceptedScriptsAreOrdered
<1>1. IInv => AcceptedScriptsAreOrdered
  BY DEF IInv
<1> QED BY <1>1, Invariance, PTL

\* No order of reading the packets of a verified script meets an error that
\* execution-plan.cpp calls one of the application, if the files differ.
THEOREM NoErrorOfTheApplication == Spec => []NoApplicationError
<1>1. IInv => NoApplicationError
  BY DEF IInv
<1> QED BY <1>1, Invariance, PTL

\* generate_execution_plan() returns a plan with a factory, distinct known
\* endpoints, and for UDP one endpoint and no packet that is too large.
THEOREM PlansRun == Spec => []PlanIsRunnable
<1>1. ASSUME IInv PROVE PlanIsRunnable
  <2> SUFFICES ASSUME phase = "planned" PROVE PlanIsRunnable
    BY DEF PlanIsRunnable, Planned
  <2>1. plan.factory # "none" /\ GoodEndpoints(plan.endpoints)
    BY <1>1 DEF IInv, Connectable
  <2>2. settings.session_protocol = "UDP" =>
          \A p \in DOMAIN plan.payloads : PayloadSize(p) <= MaxDatagram
    BY <1>1 DEF IInv, Payloads
  <2>3. settings.session_protocol \in {"TCP", "UDP"}
    BY <1>1 DEF IInv, Script, SettingsValid, TransportValid
  <2> QED BY <2>1, <2>2, <2>3 DEF PlanIsRunnable, GoodEndpoints, Known
<1> QED BY <1>1, Invariance, PTL

-----------------------------------------------------------------------------
(* Running totals. *)

\* A function on 0 .. n that starts at 0 and adds w[i] in step i.
IsSum(f, w, n) ==
    /\ f \in [0 .. n -> Nat]
    /\ f[0] = 0
    /\ \A i \in 1 .. n : f[i] = f[i - 1] + w[i]

LEMMA SumsAre ==
    ASSUME NEW w \in Seq(Nat)
    PROVE  IsSum(Sums(w), w, Len(w)) /\ Len(w) \in Nat
<1> DEFINE N == Len(w)
           step == [i \in 1 .. N |-> [x \in Nat |-> x + w[i]]]
<1>1. N \in Nat /\ \A i \in 1 .. N : w[i] \in Nat
  OBVIOUS
<1> HIDE DEF N
<1>2. step \in [1 .. N -> [Nat -> Nat]] /\ \A i \in 1 .. N : \A x \in Nat : step[i][x] = x + w[i]
  BY <1>1
<1> HIDE DEF step
<1>3. PICK f : IsIteration(f, Nat, 0, step, N)
  <2>1. 0 \in Nat
    OBVIOUS
  <2> QED BY <1>1, <1>2, <2>1, IterationExists
<1>4. f = [n \in 0 .. N |-> IF n = 0 THEN 0 ELSE f[n - 1] + w[n]]
  <2>1. f \in [0 .. N -> Nat]
    BY <1>3 DEF IsIteration
  <2>2. ASSUME NEW n \in 0 .. N PROVE f[n] = IF n = 0 THEN 0 ELSE f[n - 1] + w[n]
    <3>1. CASE n = 0
      BY <3>1, <1>3 DEF IsIteration
    <3>2. CASE n # 0
      <4>1. n \in 1 .. N /\ n - 1 \in 0 .. N
        BY <1>1, <3>2
      <4>2. f[n] = step[n][f[n - 1]] /\ f[n - 1] \in Nat
        BY <4>1, <1>3 DEF IsIteration
      <4> QED BY <3>2, <4>1, <4>2, <1>2
    <3> QED BY <3>1, <3>2
  <2> QED BY <2>1, <2>2
<1>5. \E h : h = [n \in 0 .. N |-> IF n = 0 THEN 0 ELSE h[n - 1] + w[n]]
  BY <1>4
<1> DEFINE s == Sums(w)
<1>6. s = [n \in 0 .. N |-> IF n = 0 THEN 0 ELSE s[n - 1] + w[n]]
  BY <1>5 DEF Sums, N
<1> HIDE DEF s
<1>7. s[0] = 0 /\ \A i \in 1 .. N : s[i] = s[i - 1] + w[i]
  BY <1>1, <1>6
<1> DEFINE P == {n \in Nat : n <= N => s[n] \in Nat}
<1>8. 0 \in P
  BY <1>7
<1>9. ASSUME NEW n \in Nat, n \in P PROVE n + 1 \in P
  <2> SUFFICES ASSUME n + 1 <= N PROVE s[n + 1] \in Nat
    OBVIOUS
  <2>1. n + 1 \in 1 .. N /\ (n + 1) - 1 = n /\ n <= N
    BY <1>1
  <2>2. s[n + 1] = s[n] + w[n + 1] /\ w[n + 1] \in Nat
    BY <1>1, <1>7, <2>1
  <2> QED BY <1>9, <2>1, <2>2
<1>10. Nat \subseteq P
  <2> HIDE DEF P
  <2> QED BY <1>8, <1>9, NatSetInduction
<1>11. s \in [0 .. N -> Nat]
  <2>1. \A n \in 0 .. N : s[n] \in Nat
    BY <1>1, <1>10
  <2>2. DOMAIN s = 0 .. N /\ s = [n \in 0 .. N |-> s[n]]
    BY <1>6
  <2> QED BY <2>1, <2>2
<1> QED BY <1>1, <1>7, <1>11 DEF IsSum, s, N

LEMMA SumMonotone ==
    ASSUME NEW N \in Nat, NEW w, NEW s, IsSum(s, w, N), \A i \in 1 .. N : w[i] \in Nat,
           NEW m \in 0 .. N, NEW k \in 0 .. N, m <= k
    PROVE  s[m] <= s[k]
<1> DEFINE P == {d \in Nat : m + d <= N => s[m] <= s[m + d]}
<1>1. 0 \in P
  BY DEF IsSum
<1>2. ASSUME NEW d \in Nat, d \in P PROVE d + 1 \in P
  <2> SUFFICES ASSUME m + (d + 1) <= N PROVE s[m] <= s[m + (d + 1)]
    OBVIOUS
  <2>1. /\ m + (d + 1) \in 1 .. N /\ (m + (d + 1)) - 1 = m + d /\ m + d <= N
        /\ m + d \in 0 .. N
    OBVIOUS
  <2>2. s[m + (d + 1)] = s[m + d] + w[m + (d + 1)] /\ w[m + (d + 1)] \in Nat
    BY <2>1 DEF IsSum
  <2>3. s[m] \in Nat /\ s[m + d] \in Nat /\ s[m] <= s[m + d]
    BY <1>2, <2>1 DEF IsSum
  <2> QED BY <2>2, <2>3
<1>3. Nat \subseteq P
  <2> HIDE DEF P
  <2> QED BY <1>1, <1>2, NatSetInduction
<1>4. k - m \in P /\ m + (k - m) = k
  <2>1. k - m \in Nat /\ m + (k - m) = k
    OBVIOUS
  <2> HIDE DEF P
  <2> QED BY <1>3, <2>1
<1> QED BY <1>4

\* The sums of two lists agree as long as the lists do.
LEMMA SumPrefix ==
    ASSUME NEW N \in Nat, NEW w, NEW s, IsSum(s, w, N),
           NEW M \in Nat, NEW v, NEW t, IsSum(t, v, M),
           NEW n \in Nat, n <= N, n <= M, \A i \in 1 .. n : w[i] = v[i],
           NEW k \in 0 .. n
    PROVE  s[k] = t[k]
<1> DEFINE P == {d \in Nat : d <= n => s[d] = t[d]}
<1>1. 0 \in P
  BY DEF IsSum
<1>2. ASSUME NEW d \in Nat, d \in P PROVE d + 1 \in P
  <2> SUFFICES ASSUME d + 1 <= n PROVE s[d + 1] = t[d + 1]
    OBVIOUS
  <2>1. d + 1 \in 1 .. N /\ d + 1 \in 1 .. M /\ d + 1 \in 1 .. n /\ (d + 1) - 1 = d /\ d <= n
    OBVIOUS
  <2>2. s[d + 1] = s[d] + w[d + 1] /\ t[d + 1] = t[d] + v[d + 1]
    BY <2>1 DEF IsSum
  <2> QED BY <1>2, <2>1, <2>2
<1>3. Nat \subseteq P
  <2> HIDE DEF P
  <2> QED BY <1>1, <1>2, NatSetInduction
<1>4. k \in P /\ k <= n
  <2>1. k \in Nat /\ k <= n
    OBVIOUS
  <2> HIDE DEF P
  <2> QED BY <1>3, <2>1
<1> QED BY <1>4

-----------------------------------------------------------------------------
(* Widths. *)

LEMMA SmallRemainder ==
    ASSUME NEW m \in Nat, NEW n \in Nat, n < m
    PROVE  n % m = n
<1> DEFINE q == n \div m
           r == n % m
<1>1. q \in Nat /\ r \in 0 .. m - 1 /\ n = m * q + r
  OBVIOUS
<1> HIDE DEF q, r
<1>2. q = 0
  <2> SUFFICES ASSUME q # 0 PROVE FALSE
    OBVIOUS
  <2>1. q - 1 \in Nat /\ m * q = m * (q - 1) + m
    BY <1>1
  <2>2. m * (q - 1) \in Nat
    BY <2>1
  <2> QED BY <1>1, <2>1, <2>2
<1>3. m * 0 = 0
  OBVIOUS
<1> QED BY <1>1, <1>2, <1>3 DEF r

LEMMA Widths == U32Mod \in Nat /\ SizeMod \in Nat /\ U32Mod > 0 /\ U32Mod <= SizeMod
<1>1. U32Mod \in Nat /\ SizeMod \in Nat /\ U32Mod > 0 /\ SizeMod > 0 /\ SizeMod % U32Mod = 0
  BY WidthAssumption
<1>2. SizeMod < U32Mod => SizeMod % U32Mod = SizeMod
  BY <1>1, SmallRemainder
<1> QED BY <1>1, <1>2

-----------------------------------------------------------------------------
(* Lists of operations. *)

Dynamic(ops) == {n \in DOMAIN ops : ops[n].type # "IDENTITY"}
Counting(ops) == {n \in Dynamic(ops) : ops[n].type = "COUNTER"}
PlacedAt(ops, n) == [type |-> ops[n].type, start |-> Position(ops, n), length |-> ops[n].length]
Placed(ops) == {PlacedAt(ops, n) : n \in Dynamic(ops)}
End(ops) == Position(ops, Len(ops) + 1)

Lengths(ops) == [k \in DOMAIN ops |-> ops[k].length]

LEMMA LengthsAre ==
    ASSUME NEW ops \in Seq(Op)
    PROVE  /\ Lengths(ops) \in Seq(Nat) /\ Len(Lengths(ops)) = Len(ops) /\ Len(ops) \in Nat
           /\ \A k \in 1 .. Len(ops) : Lengths(ops)[k] = ops[k].length
           /\ IsSum(Sums(Lengths(ops)), Lengths(ops), Len(ops))
           /\ \A n : Position(ops, n) = Sums(Lengths(ops))[n - 1]
<1>1. Len(ops) \in Nat /\ DOMAIN ops = 1 .. Len(ops) /\ \A k \in 1 .. Len(ops) : ops[k] \in Op
  OBVIOUS
<1>2. \A k \in 1 .. Len(ops) : ops[k].length \in Nat
  BY <1>1, Widths DEF Op
<1>3. Lengths(ops) = [k \in 1 .. Len(ops) |-> ops[k].length]
  BY <1>1 DEF Lengths
<1>4. Lengths(ops) \in Seq(Nat) /\ Len(Lengths(ops)) = Len(ops)
  BY <1>1, <1>2, <1>3
<1>5. IsSum(Sums(Lengths(ops)), Lengths(ops), Len(ops))
  <2> DEFINE w == Lengths(ops)
  <2>1. w \in Seq(Nat) /\ Len(w) = Len(ops)
    BY <1>4
  <2> HIDE DEF w
  <2>2. IsSum(Sums(w), w, Len(w))
    BY <2>1, SumsAre
  <2> QED BY <2>1, <2>2 DEF w
<1>6. \A n : Position(ops, n) = Sums(Lengths(ops))[n - 1]
  BY DEF Position, Lengths
<1> QED BY <1>1, <1>3, <1>4, <1>5, <1>6

LEMMA EmptyOps ==
    /\ <<>> \in Seq(Op) /\ End(<<>>) = 0
    /\ Dynamic(<<>>) = {} /\ Counting(<<>>) = {} /\ Placed(<<>>) = {}
<1>1. <<>> \in Seq(Op) /\ Len(<<>>) = 0 /\ DOMAIN <<>> = {}
  OBVIOUS
<1>2. End(<<>>) = 0
  <2> DEFINE o == <<>>
  <2>1. o \in Seq(Op) /\ Len(o) = 0
    BY <1>1
  <2> HIDE DEF o
  <2>2. IsSum(Sums(Lengths(o)), Lengths(o), Len(o)) /\ Position(o, 1) = Sums(Lengths(o))[0]
    <3>1. IsSum(Sums(Lengths(o)), Lengths(o), Len(o))
      BY <2>1, LengthsAre
    <3>2. Position(o, 1) = Sums(Lengths(o))[1 - 1]
      BY DEF Position, Lengths
    <3>3. 1 - 1 = 0
      OBVIOUS
    <3> QED BY <3>1, <3>2, <3>3
  <2>3. Len(o) + 1 = 1 /\ End(o) = Position(o, 1)
    BY <2>1 DEF End
  <2>4. Sums(Lengths(o))[0] = 0
    BY <2>2 DEF IsSum
  <2> QED BY <2>2, <2>3, <2>4 DEF o
<1>3. Dynamic(<<>>) = {}
  BY <1>1 DEF Dynamic
<1>4. Counting(<<>>) = {} /\ Placed(<<>>) = {}
  BY <1>3 DEF Counting, Placed
<1> QED BY <1>1, <1>2, <1>3, <1>4

LEMMA AppendOp ==
    ASSUME NEW ops \in Seq(Op), NEW x \in Op
    PROVE  /\ Append(ops, x) \in Seq(Op)
           /\ End(Append(ops, x)) = End(ops) + x.length /\ End(ops) \in Nat
           /\ x.type = "IDENTITY" =>
                 /\ Dynamic(Append(ops, x)) = Dynamic(ops)
                 /\ Counting(Append(ops, x)) = Counting(ops)
                 /\ Placed(Append(ops, x)) = Placed(ops)
           /\ x.type # "IDENTITY" =>
                 /\ Dynamic(Append(ops, x)) = Dynamic(ops) \cup {Len(ops) + 1}
                 /\ Counting(Append(ops, x)) =
                       Counting(ops) \cup (IF x.type = "COUNTER" THEN {Len(ops) + 1} ELSE {})
                 /\ Placed(Append(ops, x)) =
                       Placed(ops) \cup
                           {[type |-> x.type, start |-> End(ops), length |-> x.length]}
           /\ Len(ops) + 1 \notin Dynamic(ops) /\ Len(ops) + 1 \notin Counting(ops)
<1> DEFINE t == Append(ops, x)
           L == Len(ops)
<1>1. /\ t \in Seq(Op) /\ L \in Nat /\ Len(t) = L + 1 /\ DOMAIN ops = 1 .. L
      /\ DOMAIN t = 1 .. L + 1 /\ t[L + 1] = x /\ \A k \in 1 .. L : t[k] = ops[k]
      /\ DOMAIN t = DOMAIN ops \cup {L + 1}
  OBVIOUS
<1> DEFINE s == Sums(Lengths(ops))
           u == Sums(Lengths(t))
           w == Lengths(ops)
           v == Lengths(t)
<1>2. /\ IsSum(s, w, L) /\ \A k \in 1 .. L : w[k] = ops[k].length
      /\ \A n : Position(ops, n) = s[n - 1]
  BY LengthsAre
<1> HIDE DEF t
<1>3. /\ IsSum(u, v, Len(t)) /\ \A k \in 1 .. Len(t) : v[k] = t[k].length
      /\ \A n : Position(t, n) = u[n - 1]
  BY <1>1, LengthsAre
<1> HIDE DEF s, u, w, v
<1>4. \A k \in 1 .. L : w[k] = v[k]
  BY <1>1, <1>2, <1>3
<1>5. \A k \in 0 .. L : s[k] = u[k]
  <2> TAKE k \in 0 .. L
  <2> HIDE DEF L
  <2>1. L + 1 \in Nat /\ L <= L /\ L <= L + 1
    BY <1>1
  <2>2. IsSum(u, v, L + 1)
    BY <1>1, <1>3
  <2> QED BY <1>1, <1>2, <1>4, <2>1, <2>2, SumPrefix
<1>6. \A n \in 1 .. L + 1 : Position(t, n) = Position(ops, n)
  BY <1>1, <1>2, <1>3, <1>5
<1>7. u[L + 1] = u[L] + x.length
  <2>1. L + 1 \in 1 .. Len(t) /\ (L + 1) - 1 = L
    BY <1>1
  <2>2. u[L + 1] = u[L] + v[L + 1] /\ v[L + 1] = x.length
    BY <2>1, <1>1, <1>3 DEF IsSum
  <2> QED BY <2>2
<1>8. End(ops) = s[L] /\ End(t) = u[L + 1] /\ s[L] = u[L] /\ s[L] \in Nat
  <2>1. End(ops) = s[(L + 1) - 1] /\ End(t) = u[(Len(t) + 1) - 1]
    BY <1>2, <1>3 DEF End
  <2>2. (L + 1) - 1 = L /\ (Len(t) + 1) - 1 = L + 1 /\ L \in 0 .. L
    BY <1>1
  <2>3. s[L] \in Nat
    BY <1>2, <2>2 DEF IsSum
  <2> QED BY <2>1, <2>2, <2>3, <1>5
<1>9. \A n \in Dynamic(ops) : n \in 1 .. L /\ PlacedAt(t, n) = PlacedAt(ops, n)
  BY <1>1, <1>6 DEF PlacedAt, Dynamic
<1>10. PlacedAt(t, L + 1) = [type |-> x.type, start |-> End(ops), length |-> x.length]
  <2>1. Position(t, L + 1) = End(ops)
    BY <1>1, <1>6 DEF End
  <2> QED BY <2>1, <1>1 DEF PlacedAt
<1> HIDE DEF L
<1>11. CASE x.type = "IDENTITY"
  <2>1. Dynamic(t) = Dynamic(ops)
    BY <1>1, <1>11 DEF Dynamic
  <2>2. Counting(t) = Counting(ops)
    BY <1>1, <2>1, <1>9 DEF Counting
  <2>3. Placed(t) = Placed(ops)
    BY <2>1, <1>9 DEF Placed
  <2> QED BY <1>1, <1>7, <1>8, <1>9, <1>11, <2>1, <2>2, <2>3 DEF t, L, Counting
<1>12. CASE x.type # "IDENTITY"
  <2>1. Dynamic(t) = Dynamic(ops) \cup {L + 1}
    BY <1>1, <1>12 DEF Dynamic
  <2>2. Counting(t) = Counting(ops) \cup (IF x.type = "COUNTER" THEN {L + 1} ELSE {})
    BY <1>1, <2>1, <1>9 DEF Counting
  <2>3. Placed(t) = Placed(ops) \cup {[type |-> x.type, start |-> End(ops), length |-> x.length]}
    BY <2>1, <1>9, <1>10 DEF Placed
  <2>4. L + 1 \notin Dynamic(ops) /\ L + 1 \notin Counting(ops)
    BY <1>1 DEF Dynamic, Counting
  <2> QED BY <1>1, <1>7, <1>8, <1>12, <2>1, <2>2, <2>3, <2>4 DEF t, L
<1> QED BY <1>11, <1>12

LEMMA AddIdentityIs ==
    ASSUME NEW ops \in Seq(Op), NEW bytes \in Nat, bytes < U32Mod
    PROVE  /\ AddIdentity(ops, bytes) \in Seq(Op)
           /\ End(AddIdentity(ops, bytes)) = End(ops) + bytes /\ End(ops) \in Nat
           /\ Dynamic(AddIdentity(ops, bytes)) = Dynamic(ops)
           /\ Counting(AddIdentity(ops, bytes)) = Counting(ops)
           /\ Placed(AddIdentity(ops, bytes)) = Placed(ops)
<1> DEFINE x == make_identity(bytes)
<1>1. x \in Op /\ x.type = "IDENTITY" /\ x.length = bytes
  <2>1. bytes % U32Mod = bytes
    BY Widths, SmallRemainder
  <2> QED BY <2>1, Widths DEF make_identity, Op
<1> HIDE DEF x
<1>2. /\ Append(ops, x) \in Seq(Op)
      /\ End(Append(ops, x)) = End(ops) + bytes /\ End(ops) \in Nat
      /\ Dynamic(Append(ops, x)) = Dynamic(ops)
      /\ Counting(Append(ops, x)) = Counting(ops)
      /\ Placed(Append(ops, x)) = Placed(ops)
  BY <1>1, AppendOp
<1>3. CASE bytes > 0
  <2>1. AddIdentity(ops, bytes) = Append(ops, x)
    BY <1>3 DEF AddIdentity, x
  <2> QED BY <1>2, <2>1
<1>4. CASE ~(bytes > 0)
  <2>1. AddIdentity(ops, bytes) = ops /\ bytes = 0
    BY <1>4 DEF AddIdentity
  <2> QED BY <1>2, <2>1
<1> QED BY <1>3, <1>4

-----------------------------------------------------------------------------
(* The loop over mod_order. *)

Replaced(m) == [type |-> m.type, start |-> m.bytes.start, length |-> m.bytes.second]

EndOf(mods, n) == IF n = 0 THEN 0 ELSE mods[n].bytes.start + mods[n].bytes.second

\* The operations so far cover the packet up to the end of the n-th
\* modification, with the first n in their places and nothing else replaced.
Covers(acc, mods, n) ==
    /\ acc.ops \in Seq(Op) /\ acc.data_index = EndOf(mods, n) /\ End(acc.ops) = EndOf(mods, n)
    /\ IsFiniteSet(Dynamic(acc.ops)) /\ Cardinality(Dynamic(acc.ops)) = n
    /\ Placed(acc.ops) = {Replaced(mods[i]) : i \in 1 .. n}
    /\ acc.counter_list \in Seq(Nat)
    /\ IsFiniteSet(Counting(acc.ops)) /\ Len(acc.counter_list) = Cardinality(Counting(acc.ops))

Built == [ops : Seq(Op), counter_list : Seq(Nat), data_index : 0 .. SizeMod - 1]
Nothing == [ops |-> <<>>, counter_list |-> <<>>, data_index |-> 0]

FitsIn(m, size) ==
    /\ m.type \in {"COUNTER", "TIMESTAMP"} /\ m.step \in Nat
    /\ m.bytes.start \in Nat /\ m.bytes.second \in Nat /\ m.bytes.start + m.bytes.second < size

LEMMA ModOp ==
    ASSUME NEW size \in Nat, size < U32Mod, NEW m, FitsIn(m, size)
    PROVE  [type |-> m.type, length |-> m.bytes.second] \in Op
  BY Widths DEF FitsIn, Op

LEMMA RemainderIn ==
    ASSUME NEW n \in Int, NEW m \in Nat, m > 0
    PROVE  n % m \in 0 .. m - 1
  OBVIOUS

LEMMA AddStepIs ==
    ASSUME NEW list \in Seq(Nat), NEW m, m.step \in Nat
    PROVE  /\ AddStep(list, m) \in Seq(Nat) /\ Len(list) \in Nat
           /\ Len(AddStep(list, m)) = Len(list) + (IF m.type = "COUNTER" THEN 1 ELSE 0)
<1> DEFINE step == m.step % U16Mod
<1>1. step \in Nat
  BY WidthAssumption, RemainderIn
<1>2. AddStep(list, m) = IF m.type = "COUNTER" THEN Append(list, step) ELSE list
  BY DEF AddStep
<1> HIDE DEF step
<1> QED BY <1>1, <1>2

LEMMA AddModificationType ==
    ASSUME NEW size \in Nat, size < U32Mod, NEW m, FitsIn(m, size), NEW acc \in Built
    PROVE  AddModification(acc, m) \in Built
<1> DEFINE prev == (m.bytes.start - acc.data_index) % SizeMod
           before == AddIdentity(acc.ops, prev)
           op == [type |-> m.type, length |-> m.bytes.second]
           index == (acc.data_index + prev + m.bytes.second) % SizeMod
<1>1. /\ acc.ops \in Seq(Op) /\ acc.counter_list \in Seq(Nat) /\ acc.data_index \in 0 .. SizeMod - 1
      /\ m.bytes.start \in Nat /\ m.bytes.second \in Nat /\ m.step \in Nat
  BY DEF Built, FitsIn
<1>2. prev \in 0 .. SizeMod - 1
  <2>1. m.bytes.start - acc.data_index \in Int
    BY <1>1, Widths
  <2> QED BY <2>1, RemainderIn, Widths
<1>3. before \in Seq(Op)
  <2> HIDE DEF prev
  <2>1. make_identity(prev) \in Op
    <3>1. prev % U32Mod \in 0 .. U32Mod - 1
      BY <1>2, Widths, RemainderIn
    <3> QED BY <3>1 DEF make_identity, Op
  <2> QED BY <1>1, <2>1 DEF AddIdentity
<1>4. op \in Op
  BY ModOp
<1>5. index \in 0 .. SizeMod - 1
  <2>1. acc.data_index + prev + m.bytes.second \in Int
    BY <1>1, <1>2, Widths
  <2> QED BY <2>1, RemainderIn, Widths
<1>6. AddStep(acc.counter_list, m) \in Seq(Nat)
  BY <1>1, AddStepIs
<1>7. AddModification(acc, m) =
        [ops |-> Append(before, op), counter_list |-> AddStep(acc.counter_list, m), data_index |-> index]
  BY DEF AddModification
<1> HIDE DEF prev, before, op, index
<1>8. Append(before, op) \in Seq(Op)
  BY <1>3, <1>4
<1> QED BY <1>5, <1>6, <1>7, <1>8 DEF Built

NothingWraps(d, start, length) ==
    /\ start - d \in Nat /\ start - d < U32Mod /\ d + (start - d) = start
    /\ (start - d) % SizeMod = start - d
    /\ (d + (start - d) + length) % SizeMod = start + length

\* Nothing wraps as long as the modifications ascend.
LEMMA GapIs ==
    ASSUME NEW d \in Nat, NEW start \in Nat, NEW length \in Nat, NEW size \in Nat,
           size < U32Mod, d <= start, start + length < size
    PROVE  NothingWraps(d, start, length)
<1>1. /\ start - d \in Nat /\ start - d < U32Mod /\ start - d < SizeMod /\ d + (start - d) = start
      /\ d + (start - d) + length = start + length
      /\ start + length \in Nat /\ start + length < SizeMod
  BY Widths
<1>2. (start - d) % SizeMod = start - d
  <2> DEFINE g == start - d
  <2>1. g \in Nat /\ g < SizeMod
    BY <1>1
  <2> HIDE DEF g
  <2>2. g % SizeMod = g
    BY <2>1, Widths, SmallRemainder
  <2> QED BY <2>2 DEF g
<1>3. (start + length) % SizeMod = start + length
  <2> DEFINE g == start + length
  <2>1. g \in Nat /\ g < SizeMod
    BY <1>1
  <2> HIDE DEF g
  <2>2. g % SizeMod = g
    BY <2>1, Widths, SmallRemainder
  <2> QED BY <2>2 DEF g
<1> QED BY <1>1, <1>2, <1>3 DEF NothingWraps

LEMMA AddModificationCovers ==
    ASSUME NEW size \in Nat, size < U32Mod, NEW mods, NEW n \in Nat, NEW acc, Covers(acc, mods, n),
           FitsIn(mods[n + 1], size), EndOf(mods, n) \in Nat, EndOf(mods, n) <= mods[n + 1].bytes.start
    PROVE  Covers(AddModification(acc, mods[n + 1]), mods, n + 1)
<1> DEFINE m == mods[n + 1]
           d == acc.data_index
           gap == m.bytes.start - d
           prev == gap % SizeMod
           before == AddIdentity(acc.ops, prev)
           op == [type |-> m.type, length |-> m.bytes.second]
           ops == Append(before, op)
           index == (d + prev + m.bytes.second) % SizeMod
<1>1. /\ acc.ops \in Seq(Op) /\ acc.counter_list \in Seq(Nat) /\ d = EndOf(mods, n)
      /\ d \in Nat /\ d <= m.bytes.start
      /\ m.bytes.start \in Nat /\ m.bytes.second \in Nat /\ m.bytes.start + m.bytes.second < size
      /\ m.step \in Nat /\ m.type # "IDENTITY" /\ End(acc.ops) = d
  BY DEF Covers, FitsIn
<1>2. AddModification(acc, m) =
        [ops |-> ops, counter_list |-> AddStep(acc.counter_list, m), data_index |-> index]
  BY DEF AddModification
<1>3. op \in Op
  BY ModOp
<1>4. /\ gap \in Nat /\ gap < U32Mod /\ d + gap = m.bytes.start /\ prev = gap
      /\ index = m.bytes.start + m.bytes.second
  <2> DEFINE start == m.bytes.start
             length == m.bytes.second
  <2>1. start \in Nat /\ length \in Nat /\ d \in Nat /\ d <= start /\ start + length < size
    BY <1>1
  <2>s. size \in Nat /\ size < U32Mod
    OBVIOUS
  <2> HIDE DEF start, length, d, gap, prev, index, m
  <2>2. /\ start - d \in Nat /\ start - d < U32Mod /\ d + (start - d) = start
        /\ (start - d) % SizeMod = start - d
        /\ (d + (start - d) + length) % SizeMod = start + length
    <3>1. NothingWraps(d, start, length)
      BY <2>1, <2>s, GapIs
    <3> QED BY <3>1 DEF NothingWraps
  <2>3. gap = start - d /\ prev = gap % SizeMod /\ index = (d + prev + length) % SizeMod
    BY DEF gap, prev, index, start, length
  <2>4. gap \in Nat /\ gap < U32Mod /\ d + gap = start /\ prev = gap
    BY <2>2, <2>3
  <2>5. index = start + length
    BY <2>2, <2>3, <2>4
  <2> QED BY <2>4, <2>5 DEF start, length
<1>7. EndOf(mods, n + 1) = m.bytes.start + m.bytes.second
  BY DEF EndOf
<1>8. /\ before \in Seq(Op) /\ End(before) = d + gap /\ d + gap = m.bytes.start
      /\ Dynamic(before) = Dynamic(acc.ops) /\ Counting(before) = Counting(acc.ops)
      /\ Placed(before) = Placed(acc.ops)
  <2> HIDE DEF gap
  <2> QED BY <1>1, <1>4, AddIdentityIs
<1>9. op.type = m.type /\ op.length = m.bytes.second
  OBVIOUS
<1> HIDE DEF gap, prev, before, op, index
<1>10. /\ ops \in Seq(Op) /\ End(ops) = m.bytes.start + m.bytes.second
       /\ Dynamic(ops) = Dynamic(before) \cup {Len(before) + 1}
       /\ Counting(ops) = Counting(before) \cup (IF m.type = "COUNTER" THEN {Len(before) + 1} ELSE {})
       /\ Placed(ops) = Placed(before) \cup
             {[type |-> m.type, start |-> m.bytes.start, length |-> m.bytes.second]}
       /\ Len(before) + 1 \notin Dynamic(before) /\ Len(before) + 1 \notin Counting(before)
  BY <1>1, <1>3, <1>8, <1>9, AppendOp
<1> HIDE DEF ops
<1>11. /\ IsFiniteSet(Dynamic(acc.ops)) /\ Cardinality(Dynamic(acc.ops)) = n
       /\ Placed(acc.ops) = {Replaced(mods[i]) : i \in 1 .. n}
       /\ IsFiniteSet(Counting(acc.ops)) /\ Len(acc.counter_list) = Cardinality(Counting(acc.ops))
  BY DEF Covers
<1>12. IsFiniteSet(Dynamic(ops)) /\ Cardinality(Dynamic(ops)) = n + 1
  <2> DEFINE D == Dynamic(acc.ops)
             e == Len(before) + 1
  <2>1. IsFiniteSet(D) /\ Cardinality(D) = n /\ e \notin D /\ Dynamic(ops) = D \cup {e}
    BY <1>8, <1>10, <1>11
  <2> HIDE DEF D, e
  <2> QED BY <2>1, FS_AddElement
<1>13. /\ IsFiniteSet(Counting(ops))
       /\ Cardinality(Counting(ops)) =
             Cardinality(Counting(acc.ops)) + (IF m.type = "COUNTER" THEN 1 ELSE 0)
  <2>0. Cardinality(Counting(acc.ops)) \in Nat
    BY <1>11, FS_CardinalityType
  <2>1. CASE m.type = "COUNTER"
    <3>1. Counting(ops) = Counting(acc.ops) \cup {Len(before) + 1} /\ Len(before) + 1 \notin Counting(acc.ops)
      BY <1>8, <1>10, <2>1
    <3> QED BY <1>11, <2>1, <3>1, FS_AddElement
  <2>2. CASE m.type # "COUNTER"
    <3>1. Counting(ops) = Counting(acc.ops)
      BY <1>8, <1>10, <2>2
    <3> QED BY <1>11, <2>0, <2>2, <3>1
  <2> QED BY <2>1, <2>2
<1>14. Placed(ops) = {Replaced(mods[i]) : i \in 1 .. n + 1}
  <2>1. 1 .. n + 1 = (1 .. n) \cup {n + 1}
    OBVIOUS
  <2>2. {Replaced(mods[i]) : i \in 1 .. n + 1} = {Replaced(mods[i]) : i \in 1 .. n} \cup {Replaced(m)}
    BY <2>1
  <2>3. Replaced(m) = [type |-> m.type, start |-> m.bytes.start, length |-> m.bytes.second]
    BY DEF Replaced
  <2> QED BY <1>8, <1>10, <1>11, <2>2, <2>3
<1>15. /\ AddStep(acc.counter_list, m) \in Seq(Nat)
       /\ Len(AddStep(acc.counter_list, m)) = Len(acc.counter_list) + (IF m.type = "COUNTER" THEN 1 ELSE 0)
  BY <1>1, AddStepIs
<1> DEFINE after == AddModification(acc, m)
<1>16. after.ops = ops /\ after.counter_list = AddStep(acc.counter_list, m) /\ after.data_index = index
  BY <1>2
<1> HIDE DEF after, m
<1>17. Covers(after, mods, n + 1)
  BY <1>4, <1>7, <1>10, <1>11, <1>12, <1>13, <1>14, <1>15, <1>16 DEF Covers
<1> QED BY <1>17 DEF after, m

\* What the loop builds, and where everything is when the modifications ascend.
LEMMA ModifiedIs ==
    ASSUME NEW size \in Nat, size < U32Mod, NEW mods, Len(mods) \in Nat,
           \A i \in 1 .. Len(mods) : FitsIn(mods[i], size)
    PROVE  /\ Modified(mods) \in Built
           /\ Ascending(mods) => Covers(Modified(mods), mods, Len(mods))
<1> DEFINE N == Len(mods)
           T == Built
           x == Nothing
           step == [n \in 1 .. N |-> [acc \in T |-> AddModification(acc, mods[n])]]
<1>1. N \in Nat /\ \A n \in 1 .. N : FitsIn(mods[n], size)
  OBVIOUS
<1>2. \A n \in 1 .. N : \A acc \in T : AddModification(acc, mods[n]) \in T
  BY <1>1, AddModificationType
<1>3. x \in T
  <2>1. <<>> \in Seq(Op) /\ <<>> \in Seq(Nat) /\ 0 \in 0 .. SizeMod - 1
    BY Widths
  <2> QED BY <2>1 DEF Nothing, Built
<1> HIDE DEF N, T
<1>4. step \in [1 .. N -> [T -> T]]
      /\ \A n \in 1 .. N : \A acc \in T : step[n][acc] = AddModification(acc, mods[n])
  BY <1>2
<1> HIDE DEF step
<1>5. PICK f : IsIteration(f, T, x, step, N)
  <2> HIDE DEF x
  <2> QED BY <1>1, <1>3, <1>4, IterationExists
<1>6. f = [n \in 0 .. N |-> IF n = 0 THEN x ELSE AddModification(f[n - 1], mods[n])]
  <2>1. f \in [0 .. N -> T]
    BY <1>5 DEF IsIteration
  <2>2. ASSUME NEW n \in 0 .. N
        PROVE  f[n] = IF n = 0 THEN x ELSE AddModification(f[n - 1], mods[n])
    <3>1. CASE n = 0
      BY <3>1, <1>5 DEF IsIteration
    <3>2. CASE n # 0
      <4>1. n \in 1 .. N /\ n - 1 \in 0 .. N
        BY <3>2, <1>1
      <4>2. f[n] = step[n][f[n - 1]] /\ f[n - 1] \in T
        BY <4>1, <1>5 DEF IsIteration
      <4> QED BY <3>2, <4>1, <4>2, <1>4
    <3> QED BY <3>1, <3>2
  <2> QED BY <2>1, <2>2
<1>7. \E h : h = [n \in 0 .. N |-> IF n = 0 THEN x ELSE AddModification(h[n - 1], mods[n])]
             /\ Modified(mods) = h[N]
  BY <1>6 DEF Modified, Nothing, N
<1>8. PICK h : h = [n \in 0 .. N |-> IF n = 0 THEN x ELSE AddModification(h[n - 1], mods[n])]
               /\ Modified(mods) = h[N]
  BY <1>7
<1>9. h[0] = x /\ \A n \in 1 .. N : h[n] = AddModification(h[n - 1], mods[n])
  BY <1>1, <1>8
<1> DEFINE S == {n \in Nat : n <= N => /\ h[n] \in T
                                       /\ Ascending(mods) => Covers(h[n], mods, n)}
<1>10. 0 \in S
  <2>1. Covers(x, mods, 0)
    <3>1. x.ops = <<>> /\ x.counter_list = <<>> /\ x.data_index = 0
      BY DEF Nothing
    <3>2. EndOf(mods, 0) = 0
      BY DEF EndOf
    <3>3. IsFiniteSet({}) /\ Cardinality({}) = 0
      BY FS_EmptySet
    <3>4. {Replaced(mods[i]) : i \in 1 .. 0} = {}
      OBVIOUS
    <3>5. <<>> \in Seq(Nat) /\ Len(<<>>) = 0
      OBVIOUS
    <3> HIDE DEF x
    <3> QED BY <3>1, <3>2, <3>3, <3>4, <3>5, EmptyOps DEF Covers
  <2> HIDE DEF x
  <2> QED BY <2>1, <1>3, <1>9
<1> HIDE DEF x
<1>11. ASSUME NEW n \in Nat, n \in S PROVE n + 1 \in S
  <2> SUFFICES ASSUME n + 1 <= N
               PROVE  h[n + 1] \in T /\ (Ascending(mods) => Covers(h[n + 1], mods, n + 1))
    OBVIOUS
  <2>1. n + 1 \in 1 .. N /\ (n + 1) - 1 = n /\ n <= N
    BY <1>1
  <2>2. h[n] \in T /\ (Ascending(mods) => Covers(h[n], mods, n))
    BY <1>11, <2>1
  <2>3. h[n + 1] = AddModification(h[n], mods[n + 1]) /\ FitsIn(mods[n + 1], size)
    BY <1>1, <1>9, <2>1
  <2>4. h[n + 1] \in T
    BY <1>2, <2>1, <2>2, <2>3
  <2>5. ASSUME Ascending(mods) PROVE Covers(h[n + 1], mods, n + 1)
    <3>1. EndOf(mods, n) \in Nat /\ EndOf(mods, n) <= mods[n + 1].bytes.start
      <4>1. CASE n = 0
        BY <4>1, <2>3 DEF EndOf, FitsIn
      <4>2. CASE n # 0
        <5>1. n \in 1 .. N /\ n \in 1 .. N - 1
          BY <2>1, <4>2, <1>1
        <5>2. FitsIn(mods[n], size)
          BY <5>1, <1>1
        <5>3. end_from_length(mods[n].bytes) <= mods[n + 1].bytes.start
          BY <5>1, <2>5 DEF Ascending, N
        <5>4. EndOf(mods, n) = mods[n].bytes.start + mods[n].bytes.second
          BY <4>2 DEF EndOf
        <5> DEFINE start == mods[n].bytes.start
                   second == mods[n].bytes.second
        <5>5. start \in Nat /\ second \in Nat
          BY <5>2 DEF FitsIn
        <5>6. start + second <= mods[n + 1].bytes.start
          BY <5>3 DEF end_from_length
        <5> HIDE DEF start, second
        <5>7. EndOf(mods, n) = start + second
          BY <5>4 DEF start, second
        <5> QED BY <5>5, <5>6, <5>7
      <4> QED BY <4>1, <4>2
    <3>2. Covers(h[n], mods, n)
      BY <2>2, <2>5
    <3> DEFINE acc == h[n]
    <3>3. Covers(acc, mods, n)
      BY <3>2
    <3> HIDE DEF acc
    <3>4. Covers(AddModification(acc, mods[n + 1]), mods, n + 1)
      BY <2>3, <3>1, <3>3, AddModificationCovers
    <3> QED BY <2>3, <3>4 DEF acc
  <2> QED BY <2>4, <2>5
<1>12. Nat \subseteq S
  <2> HIDE DEF S
  <2> QED BY <1>10, <1>11, NatSetInduction
<1>13. h[N] \in T /\ (Ascending(mods) => Covers(h[N], mods, N))
  <2>1. N \in S
    <3> HIDE DEF S
    <3> QED BY <1>1, <1>12
  <2>2. N <= N
    BY <1>1
  <2> QED BY <2>1, <2>2
<1> QED BY <1>8, <1>13 DEF T, N

-----------------------------------------------------------------------------
(* The operations of a payload. *)

\* What the operations do to a packet of that size.
Replaces(ops, mods, size) ==
    /\ End(ops) = size
    /\ Placed(ops) = {Replaced(mods[i]) : i \in 1 .. Len(mods)}
    /\ Cardinality(Dynamic(ops)) = Len(mods)
    /\ Len(Modified(mods).counter_list) = Cardinality(Counting(ops))

LEMMA MakeOpsIs ==
    ASSUME NEW size \in Nat, size < U32Mod, NEW mods, Len(mods) \in Nat,
           \A i \in 1 .. Len(mods) : FitsIn(mods[i], size), mods = <<>> <=> Len(mods) = 0
    PROVE  /\ MakeOps(mods, size) \in Seq(Op)
           /\ Ascending(mods) => Replaces(MakeOps(mods, size), mods, size)
<1> DEFINE built == Modified(mods)
           N == Len(mods)
<1>1. built \in Built /\ (Ascending(mods) => Covers(built, mods, N)) /\ N \in Nat
  BY ModifiedIs
<1> DEFINE ops == MakeOps(mods, size)
<1>2. built.ops \in Seq(Op) /\ built.data_index \in Nat
  BY <1>1, Widths DEF Built
<1>3. CASE mods = <<>>
  <2> DEFINE y == make_identity(size)
  <2>1. y \in Op /\ y.type = "IDENTITY" /\ y.length = size
    <3>1. size % U32Mod = size
      BY Widths, SmallRemainder
    <3> QED BY <3>1, Widths DEF make_identity, Op
  <2>2. ops = <<y>>
    BY <1>3 DEF MakeOps
  <2>3. N = 0
    BY <1>3
  <2> HIDE DEF y, ops, built, N
  <2>4. ops = Append(<<>>, y)
    BY <2>2
  <2>5. ops \in Seq(Op)
    BY <2>1, <2>2
  <2>6. End(ops) = size /\ Dynamic(ops) = {} /\ Counting(ops) = {} /\ Placed(ops) = {}
    <3> DEFINE o == <<>>
    <3>1. o \in Seq(Op) /\ End(o) = 0 /\ Dynamic(o) = {} /\ Counting(o) = {} /\ Placed(o) = {}
      BY EmptyOps
    <3>2. ops = Append(o, y)
      BY <2>4
    <3> HIDE DEF o
    <3>3. End(Append(o, y)) = End(o) + y.length /\ Dynamic(Append(o, y)) = Dynamic(o)
          /\ Counting(Append(o, y)) = Counting(o) /\ Placed(Append(o, y)) = Placed(o)
      BY <2>1, <3>1, AppendOp
    <3> QED BY <2>1, <3>1, <3>2, <3>3
  <2>7. Cardinality({}) = 0
    BY FS_EmptySet
  <2>8. ASSUME Ascending(mods) PROVE Replaces(ops, mods, size)
    <3>0. Covers(built, mods, N)
      BY <1>1, <2>8
    <3>1. Cardinality(Dynamic(built.ops)) = 0 /\ IsFiniteSet(Dynamic(built.ops))
      BY <2>3, <3>0 DEF Covers
    <3>2. Dynamic(built.ops) = {}
      BY <3>1, FS_EmptySet
    <3>3. Counting(built.ops) = {}
      BY <3>2 DEF Counting
    <3>4. Len(built.counter_list) = 0
      BY <3>0, <3>3, <2>7 DEF Covers
    <3>5. {Replaced(mods[i]) : i \in 1 .. N} = {}
      BY <2>3
    <3> QED BY <2>3, <2>6, <2>7, <3>4, <3>5 DEF Replaces, built, N
  <2> QED BY <2>5, <2>8 DEF ops
<1>4. CASE mods # <<>>
  <2> DEFINE rest == IF built.data_index < size THEN size - built.data_index ELSE 0
  <2>1. ops = AddIdentity(built.ops, rest)
    BY <1>4 DEF MakeOps
  <2>2. rest \in Nat /\ rest < U32Mod
    BY <1>2, Widths
  <2> HIDE DEF built, ops, rest
  <2>3. /\ ops \in Seq(Op) /\ End(ops) = End(built.ops) + rest
        /\ Dynamic(ops) = Dynamic(built.ops) /\ Counting(ops) = Counting(built.ops)
        /\ Placed(ops) = Placed(built.ops)
    BY <1>2, <2>1, <2>2, AddIdentityIs
  <2>4. ASSUME Ascending(mods) PROVE Replaces(ops, mods, size)
    <3>1. Covers(built, mods, N) /\ N # 0
      BY <1>1, <1>4, <2>4
    <3>2. FitsIn(mods[N], size) /\ EndOf(mods, N) = mods[N].bytes.start + mods[N].bytes.second
      BY <1>1, <3>1 DEF EndOf
    <3>3. EndOf(mods, N) \in Nat /\ EndOf(mods, N) < size
      BY <3>2 DEF FitsIn
    <3> HIDE DEF N
    <3>4. built.data_index = EndOf(mods, N) /\ End(built.ops) = EndOf(mods, N)
      BY <3>1 DEF Covers
    <3>5. rest = size - EndOf(mods, N)
      BY <3>3, <3>4 DEF rest
    <3>6. End(ops) = size
      BY <2>3, <3>3, <3>4, <3>5
    <3> QED BY <2>3, <3>1, <3>6 DEF Replaces, Covers, built, N
  <2> QED BY <2>3, <2>4 DEF ops
<1> QED BY <1>3, <1>4

-----------------------------------------------------------------------------
(* The invariant of the planned actions. *)

Offsets(acts) == Sums([i \in DOMAIN acts |-> acts[i].offset_ms])

PayloadOf(a, map, data) ==
    [packet |-> map[a.packet], ops |-> MakeOps(a.mods, FileSize[data[map[a.packet]]])]

\* The SENDs of the script passed the checks verify_script() makes of them.
Sendable ==
    \A i \in DOMAIN actions :
        actions[i].type = "SEND" => actions[i].count # 0 /\ PacketOK(actions[i])

\* An identifier stands for the file its name resolves to.
ReadRight ==
    ~Confusable =>
        \A id \in DOMAIN lookup.identity_map :
            PathOf[plan.packet_data[lookup.identity_map[id]]] = PathOf[settings.packet_identifiers[id]]

\* Actions are planned once all packets were read.
Counted ==
    /\ planned.count \in 0 .. Len(actions)
    /\ planned.count > 0 => phase \in {"common", "planned", "failed"} /\ Unread = {}
    /\ phase = "planned" => planned.count = Len(actions)

\* The descriptors are those of the first n actions.
DescribedIn(acts, list, n, offset) ==
    /\ IsSequence(list) /\ Len(list) = n
    /\ \A i \in 1 .. n :
          /\ list[i].type = acts[i].type /\ list[i].count = acts[i].count
          /\ list[i].offset = Offsets(acts)[i] % U32Mod
    /\ offset = Offsets(acts)[n]

\* So are the payloads: each SEND has its copies, after those of the SENDs before it.
FilledIn(acts, payloads, steps, n, map, data) ==
    /\ IsSequence(payloads) /\ Len(payloads) = Sent(acts)[n]
    /\ IsSequence(steps) /\ Len(steps) = Sent(acts)[n]
    /\ \A i \in 1 .. n : acts[i].type = "SEND" =>
          \A p \in Sent(acts)[i - 1] + 1 .. Sent(acts)[i] :
              payloads[p] = PayloadOf(acts[i], map, data) /\ steps[p] = Modified(acts[i].mods).counter_list

Described == DescribedIn(actions, plan.actions, planned.count, curr_offset)
Filled ==
    FilledIn(actions, plan.payloads, plan.counter_steps, planned.count, lookup.identity_map,
             plan.packet_data)

PlanInv == Sendable /\ ReadRight /\ Counted /\ Described /\ Filled

OffsetOf(acts) == [i \in DOMAIN acts |-> acts[i].offset_ms]
Copied(acts) == [i \in DOMAIN acts |-> IF acts[i].type = "SEND" THEN acts[i].count ELSE 0]

LEMMA OffsetsAre ==
    ASSUME NEW acts \in Seq(ScriptActions)
    PROVE  /\ Len(acts) \in Nat /\ IsSum(Offsets(acts), OffsetOf(acts), Len(acts))
           /\ \A i \in 1 .. Len(acts) :
                 OffsetOf(acts)[i] = acts[i].offset_ms /\ OffsetOf(acts)[i] \in Nat
<1> DEFINE w == OffsetOf(acts)
           N == Len(acts)
<1>1. N \in Nat /\ DOMAIN acts = 1 .. N /\ \A i \in 1 .. N : acts[i] \in ScriptActions
  OBVIOUS
<1>2. \A i \in 1 .. N : acts[i].offset_ms \in Nat
  BY <1>1, ScriptAssumption
<1>3. w = [i \in 1 .. N |-> acts[i].offset_ms]
  BY <1>1 DEF OffsetOf
<1> HIDE DEF N
<1>4. w \in Seq(Nat) /\ Len(w) = N /\ \A i \in 1 .. N : w[i] = acts[i].offset_ms /\ w[i] \in Nat
  BY <1>1, <1>2, <1>3
<1>5. Offsets(acts) = Sums(w)
  BY DEF Offsets, OffsetOf
<1> HIDE DEF w
<1>6. IsSum(Sums(w), w, Len(w))
  BY <1>4, SumsAre
<1> QED BY <1>1, <1>4, <1>5, <1>6 DEF w, N

LEMMA SentAre ==
    ASSUME NEW acts, NEW N \in Nat, DOMAIN acts = 1 .. N, \A i \in 1 .. N : acts[i].count \in Nat
    PROVE  /\ IsSum(Sent(acts), Copied(acts), N)
           /\ \A i \in 1 .. N :
                 /\ Copied(acts)[i] = IF acts[i].type = "SEND" THEN acts[i].count ELSE 0
                 /\ Copied(acts)[i] \in Nat
<1> DEFINE w == Copied(acts)
           n(i) == IF acts[i].type = "SEND" THEN acts[i].count ELSE 0
<1>2. \A i \in 1 .. N : n(i) \in Nat
  OBVIOUS
<1>3. w = [i \in 1 .. N |-> n(i)]
  BY DEF Copied
<1> HIDE DEF n
<1>4. w \in Seq(Nat) /\ Len(w) = N /\ \A i \in 1 .. N : w[i] = n(i) /\ w[i] \in Nat
  BY <1>2, <1>3
<1>5. Sent(acts) = Sums(w)
  BY DEF Sent, Copied
<1> HIDE DEF w
<1>6. IsSum(Sums(w), w, Len(w))
  BY <1>4, SumsAre
<1> QED BY <1>4, <1>5, <1>6 DEF w, n

LEMMA SentOfScript ==
    ASSUME NEW acts \in Seq(ScriptActions)
    PROVE  /\ IsSum(Sent(acts), Copied(acts), Len(acts)) /\ Len(acts) \in Nat
           /\ \A i \in 1 .. Len(acts) :
                 /\ Copied(acts)[i] = IF acts[i].type = "SEND" THEN acts[i].count ELSE 0
                 /\ Copied(acts)[i] \in Nat
<1> DEFINE N == Len(acts)
<1>1. N \in Nat /\ DOMAIN acts = 1 .. N /\ \A i \in 1 .. N : acts[i] \in ScriptActions
  OBVIOUS
<1>2. \A i \in 1 .. N : acts[i].count \in Nat
  BY <1>1, ScriptAssumption
<1> HIDE DEF N
<1>3. /\ IsSum(Sent(acts), Copied(acts), N)
      /\ \A i \in 1 .. N :
            /\ Copied(acts)[i] = IF acts[i].type = "SEND" THEN acts[i].count ELSE 0
            /\ Copied(acts)[i] \in Nat
  BY <1>1, <1>2, SentAre
<1> QED BY <1>1, <1>3 DEF N

LEMMA SequenceIs ==
    ASSUME NEW s, IsSequence(s)
    PROVE  Len(s) \in Nat /\ DOMAIN s = 1 .. Len(s)
<1> DEFINE R == {s[i] : i \in DOMAIN s}
<1>1. s \in Seq(R)
  BY DEF IsSequence
<1> HIDE DEF R
<1> QED BY <1>1

LEMMA Appended ==
    ASSUME NEW s, IsSequence(s), NEW x
    PROVE  /\ IsSequence(Append(s, x)) /\ Len(Append(s, x)) = Len(s) + 1 /\ Len(s) \in Nat
           /\ Append(s, x)[Len(s) + 1] = x /\ \A i \in 1 .. Len(s) : Append(s, x)[i] = s[i]
<1> DEFINE R == {s[i] : i \in DOMAIN s}
           S == R \cup {x}
           t == Append(s, x)
<1>1. s \in Seq(R)
  BY DEF IsSequence
<1>2. R \subseteq S /\ x \in S
  OBVIOUS
<1> HIDE DEF R, S
<1>3. s \in Seq(S)
  BY <1>1, <1>2
<1>4. /\ t \in Seq(S) /\ Len(t) = Len(s) + 1 /\ Len(s) \in Nat /\ t[Len(s) + 1] = x
      /\ \A i \in 1 .. Len(s) : t[i] = s[i]
  BY <1>2, <1>3
<1> HIDE DEF t
<1> DEFINE Q == {t[i] : i \in DOMAIN t}
<1>5. t \in Seq(Q)
  <2>1. DOMAIN t = 1 .. Len(t) /\ Len(t) \in Nat /\ t = [i \in 1 .. Len(t) |-> t[i]]
    BY <1>4
  <2>2. \A i \in 1 .. Len(t) : t[i] \in Q
    BY <2>1
  <2> HIDE DEF Q
  <2> QED BY <2>1, <2>2
<1>6. IsSequence(t)
  BY <1>5 DEF IsSequence
<1> QED BY <1>4, <1>6 DEF t

EndsWith(t, s, n, x) ==
    /\ Len(t) = Len(s) + n /\ Len(s) \in Nat
    /\ \A i \in 1 .. Len(s) : t[i] = s[i]
    /\ \A i \in Len(s) + 1 .. Len(s) + n : t[i] = x

LEMMA CopiesAfter ==
    ASSUME NEW s, IsSequence(s), NEW n \in Nat, NEW x
    PROVE  IsSequence(s \o Copies(n, x)) /\ EndsWith(s \o Copies(n, x), s, n, x)
<1> DEFINE R == {s[i] : i \in DOMAIN s}
           S == R \cup {x}
           c == Copies(n, x)
           t == s \o c
<1>1. s \in Seq(R)
  BY DEF IsSequence
<1>2. R \subseteq S /\ x \in S
  OBVIOUS
<1> HIDE DEF R, S
<1>3. c \in Seq(S) /\ Len(c) = n /\ \A i \in 1 .. n : c[i] = x
  BY <1>2 DEF Copies
<1> HIDE DEF c
<1>4. s \in Seq(S)
  BY <1>1, <1>2
<1>5. /\ Len(t) = Len(s) + n /\ Len(s) \in Nat
      /\ \A i \in 1 .. Len(s) : t[i] = s[i]
      /\ \A i \in Len(s) + 1 .. Len(s) + n : t[i] = c[i - Len(s)]
  BY <1>3, <1>4
<1>6. \A i \in Len(s) + 1 .. Len(s) + n : t[i] = x
  <2> TAKE i \in Len(s) + 1 .. Len(s) + n
  <2>1. i - Len(s) \in 1 .. n
    BY <1>5
  <2>2. t[i] = c[i - Len(s)]
    BY <1>5
  <2> HIDE DEF t
  <2> QED BY <1>3, <2>1, <2>2
<1>7. IsSequence(t)
  BY Concatenating DEF c
<1> QED BY <1>5, <1>6, <1>7 DEF EndsWith, t, c

LEMMA NothingDescribed ==
    ASSUME NEW acts \in Seq(ScriptActions), NEW other \in Seq(ScriptActions), NEW list, NEW offset,
           DescribedIn(acts, list, 0, offset)
    PROVE  DescribedIn(other, list, 0, offset)
<1>1. IsSum(Offsets(acts), OffsetOf(acts), Len(acts)) /\ IsSum(Offsets(other), OffsetOf(other), Len(other))
  BY OffsetsAre
<1>2. Offsets(acts)[0] = 0 /\ Offsets(other)[0] = 0
  BY <1>1 DEF IsSum
<1> QED BY <1>2 DEF DescribedIn

LEMMA NothingFilled ==
    ASSUME NEW acts \in Seq(ScriptActions), NEW other \in Seq(ScriptActions),
           NEW payloads, NEW steps, NEW map, NEW data, NEW map2, NEW data2,
           FilledIn(acts, payloads, steps, 0, map, data)
    PROVE  FilledIn(other, payloads, steps, 0, map2, data2)
<1>1. IsSum(Sent(acts), Copied(acts), Len(acts)) /\ IsSum(Sent(other), Copied(other), Len(other))
  BY SentOfScript
<1>2. Sent(acts)[0] = 0 /\ Sent(other)[0] = 0
  BY <1>1 DEF IsSum
<1>3. 1 .. 0 = {}
  OBVIOUS
<1> QED BY <1>2, <1>3 DEF FilledIn

LEMMA NextDescribed ==
    ASSUME NEW acts \in Seq(ScriptActions), NEW n \in Nat, n + 1 <= Len(acts), NEW list, NEW offset,
           NEW d, DescribedIn(acts, list, n, offset),
           d.type = acts[n + 1].type, d.count = acts[n + 1].count,
           d.offset = (offset + acts[n + 1].offset_ms) % U32Mod
    PROVE  DescribedIn(acts, Append(list, d), n + 1, offset + acts[n + 1].offset_ms)
<1> DEFINE sum == Offsets(acts)
           t == Append(list, d)
<1>1. /\ Len(acts) \in Nat /\ IsSum(sum, OffsetOf(acts), Len(acts))
      /\ \A i \in 1 .. Len(acts) : OffsetOf(acts)[i] = acts[i].offset_ms
  BY OffsetsAre
<1>2. n + 1 \in 1 .. Len(acts) /\ (n + 1) - 1 = n
  BY <1>1
<1> HIDE DEF sum, t
<1>3. sum[n + 1] = offset + acts[n + 1].offset_ms
  <2>1. sum[n + 1] = sum[n] + OffsetOf(acts)[n + 1]
    BY <1>1, <1>2 DEF IsSum
  <2>2. sum[n] = offset
    BY DEF DescribedIn, sum
  <2> QED BY <1>1, <1>2, <2>1, <2>2
<1>4. /\ IsSequence(t) /\ Len(t) = n + 1 /\ t[n + 1] = d /\ \A i \in 1 .. n : t[i] = list[i]
  <2>1. IsSequence(list) /\ Len(list) = n
    BY DEF DescribedIn
  <2> QED BY <2>1, Appended DEF t
<1>5. ASSUME NEW i \in 1 .. n + 1
      PROVE  /\ t[i].type = acts[i].type /\ t[i].count = acts[i].count
             /\ t[i].offset = sum[i] % U32Mod
  <2>1. CASE i = n + 1
    BY <2>1, <1>3, <1>4
  <2>2. CASE i # n + 1
    <3>1. i \in 1 .. n
      BY <2>2
    <3>2. t[i] = list[i]
      BY <3>1, <1>4
    <3>3. list[i].type = acts[i].type /\ list[i].count = acts[i].count
          /\ list[i].offset = sum[i] % U32Mod
      BY <3>1 DEF DescribedIn, sum
    <3> QED BY <3>2, <3>3
  <2> QED BY <2>1, <2>2
<1> QED BY <1>3, <1>4, <1>5 DEF DescribedIn, sum, t

\* A SEND appends its copies, and another action sends nothing.
LEMMA NextFilled ==
    ASSUME NEW acts \in Seq(ScriptActions), NEW n \in Nat, n + 1 <= Len(acts),
           NEW payloads, NEW steps, NEW map, NEW data, FilledIn(acts, payloads, steps, n, map, data),
           acts[n + 1].type = "SEND"
    PROVE  FilledIn(acts,
                    payloads \o Copies(acts[n + 1].count, PayloadOf(acts[n + 1], map, data)),
                    steps \o Copies(acts[n + 1].count, Modified(acts[n + 1].mods).counter_list),
                    n + 1, map, data)
<1> DEFINE sum == Sent(acts)
           w == Copied(acts)
           N == Len(acts)
           a == acts[n + 1]
           x == PayloadOf(a, map, data)
           y == Modified(a.mods).counter_list
           more == payloads \o Copies(a.count, x)
           after == steps \o Copies(a.count, y)
<1>1. /\ N \in Nat /\ IsSum(sum, w, N)
      /\ \A i \in 1 .. N : w[i] = (IF acts[i].type = "SEND" THEN acts[i].count ELSE 0) /\ w[i] \in Nat
  BY SentOfScript
<1>2. n + 1 \in 1 .. N /\ (n + 1) - 1 = n /\ n \in 0 .. N
  BY <1>1
<1>3. a.count \in Nat /\ w[n + 1] = a.count
  BY <1>1, <1>2
<1>4. /\ IsSequence(payloads) /\ Len(payloads) = sum[n] /\ IsSequence(steps) /\ Len(steps) = sum[n]
      /\ \A i \in 1 .. n : acts[i].type = "SEND" =>
            \A p \in sum[i - 1] + 1 .. sum[i] :
                payloads[p] = PayloadOf(acts[i], map, data) /\ steps[p] = Modified(acts[i].mods).counter_list
  BY DEF FilledIn
<1> HIDE DEF sum, w, x, y, N, a
<1>5. sum[n + 1] = sum[n] + a.count /\ sum[n] \in Nat
  BY <1>1, <1>2, <1>3 DEF IsSum
<1>6. /\ IsSequence(more) /\ Len(more) = sum[n] + a.count
      /\ \A i \in 1 .. sum[n] : more[i] = payloads[i]
      /\ \A i \in sum[n] + 1 .. sum[n] + a.count : more[i] = x
  <2>1. IsSequence(more) /\ EndsWith(more, payloads, a.count, x)
    BY <1>3, <1>4, CopiesAfter
  <2> HIDE DEF more
  <2> QED BY <1>4, <2>1 DEF EndsWith
<1>7. /\ IsSequence(after) /\ Len(after) = sum[n] + a.count
      /\ \A i \in 1 .. sum[n] : after[i] = steps[i]
      /\ \A i \in sum[n] + 1 .. sum[n] + a.count : after[i] = y
  <2>1. IsSequence(after) /\ EndsWith(after, steps, a.count, y)
    BY <1>3, <1>4, CopiesAfter
  <2> HIDE DEF after
  <2> QED BY <1>4, <2>1 DEF EndsWith
<1> HIDE DEF more, after
<1>8. ASSUME NEW i \in 1 .. n + 1, acts[i].type = "SEND", NEW p \in sum[i - 1] + 1 .. sum[i]
      PROVE  more[p] = PayloadOf(acts[i], map, data) /\ after[p] = Modified(acts[i].mods).counter_list
  <2>1. CASE i = n + 1
    <3>1. p \in sum[n] + 1 .. sum[n] + a.count
      BY <1>2, <1>5, <2>1
    <3> QED BY <3>1, <1>6, <1>7, <2>1 DEF x, y, a
  <2>2. CASE i # n + 1
    <3>1. i \in 1 .. n /\ i \in 0 .. N /\ i - 1 \in 0 .. N /\ i <= n
      BY <2>2, <1>2, <1>1
    <3>2. sum[i] <= sum[n] /\ sum[i - 1] \in Nat /\ sum[i] \in Nat
      <4>1. sum[i] <= sum[n]
        BY <1>1, <1>2, <3>1, SumMonotone
      <4> QED BY <1>1, <3>1, <4>1 DEF IsSum
    <3>3. p \in 1 .. sum[n]
      BY <3>2, <1>5
    <3>4. more[p] = payloads[p] /\ after[p] = steps[p]
      BY <3>3, <1>6, <1>7
    <3>5. payloads[p] = PayloadOf(acts[i], map, data) /\ steps[p] = Modified(acts[i].mods).counter_list
      BY <1>4, <1>8, <3>1
    <3> QED BY <3>4, <3>5
  <2> QED BY <2>1, <2>2
<1>9. FilledIn(acts, more, after, n + 1, map, data)
  BY <1>5, <1>6, <1>7, <1>8 DEF FilledIn, sum
<1> QED BY <1>9 DEF more, after, x, y, a

LEMMA NextFilledOther ==
    ASSUME NEW acts \in Seq(ScriptActions), NEW n \in Nat, n + 1 <= Len(acts),
           NEW payloads, NEW steps, NEW map, NEW data, FilledIn(acts, payloads, steps, n, map, data),
           acts[n + 1].type # "SEND"
    PROVE  FilledIn(acts, payloads, steps, n + 1, map, data)
<1> DEFINE sum == Sent(acts)
<1>1. /\ Len(acts) \in Nat /\ IsSum(sum, Copied(acts), Len(acts))
      /\ \A i \in 1 .. Len(acts) : Copied(acts)[i] = IF acts[i].type = "SEND" THEN acts[i].count ELSE 0
  BY SentOfScript
<1>2. n + 1 \in 1 .. Len(acts) /\ (n + 1) - 1 = n /\ n \in 0 .. Len(acts)
  BY <1>1
<1> HIDE DEF sum
<1>3. sum[n + 1] = sum[n]
  <2>1. sum[n + 1] = sum[n] + Copied(acts)[n + 1] /\ Copied(acts)[n + 1] = 0 /\ sum[n] \in Nat
    BY <1>1, <1>2 DEF IsSum
  <2> QED BY <2>1
<1>4. \A i \in 1 .. n + 1 : acts[i].type = "SEND" => i \in 1 .. n
  OBVIOUS
<1> QED BY <1>3, <1>4 DEF FilledIn, sum

-----------------------------------------------------------------------------
(* The steps, and what they do to the planned actions. *)

PlanKept ==
    /\ plan'.actions = plan.actions /\ plan'.payloads = plan.payloads
    /\ plan'.counter_steps = plan.counter_steps /\ planned'.count = planned.count
    /\ curr_offset' = curr_offset

LEMMA SendableStays ==
    ASSUME Sendable, settings' = settings, actions' = actions
    PROVE  Sendable'
  BY DEF Sendable, PacketOK, Resolves

LEMMA PlanStays ==
    ASSUME PlanInv, PlanKept, settings' = settings, actions' = actions, lookup' = lookup,
           plan'.packet_data = plan.packet_data,
           planned.count > 0 => phase' \in {"common", "planned", "failed"},
           phase' = "planned" => planned.count = Len(actions)
    PROVE  PlanInv'
<1>1. Sendable'
  BY SendableStays DEF PlanInv
<1>2. ReadRight'
  BY DEF PlanInv, ReadRight, Confusable
<1>3. Counted'
  BY DEF PlanInv, Counted, Unread, PlanKept
<1>4. Described' /\ Filled'
  BY DEF PlanInv, Described, Filled, PlanKept
<1> QED BY <1>1, <1>2, <1>3, <1>4 DEF PlanInv

\* Before the first action is planned the script and the packets may change.
LEMMA NothingPlanned ==
    ASSUME PlanInv, PlanKept, planned.count = 0, phase' # "planned",
           actions \in Seq(ScriptActions), actions' \in Seq(ScriptActions)
    PROVE  Counted' /\ Described' /\ Filled'
<1>1. planned'.count = 0
  BY DEF PlanKept
<1>2. Counted'
  <2>1. Len(actions') \in Nat
    OBVIOUS
  <2> QED BY <1>1, <2>1 DEF Counted
<1>3. Described'
  <2>1. DescribedIn(actions, plan.actions, 0, curr_offset)
    BY DEF PlanInv, Described
  <2>2. DescribedIn(actions', plan.actions, 0, curr_offset)
    BY <2>1, NothingDescribed
  <2> QED BY <1>1, <2>2 DEF Described, PlanKept
<1>4. Filled'
  <2> DEFINE map == lookup.identity_map
             data == plan.packet_data
             loads == plan.payloads
             steps == plan.counter_steps
  <2>1. FilledIn(actions, loads, steps, 0, map, data)
    BY DEF PlanInv, Filled
  <2> HIDE DEF map, data, loads, steps
  <2>2. FilledIn(actions', loads, steps, 0, lookup'.identity_map, plan'.packet_data)
    BY <2>1, NothingFilled
  <2> QED BY <1>1, <2>2 DEF Filled, PlanKept, loads, steps
<1> QED BY <1>2, <1>3, <1>4

LEMMA VerifyKeepsPlan ==
    ASSUME IInv, PlanInv, Verify, IInv'
    PROVE  PlanInv'
<1>1. /\ plan' = plan /\ lookup' = lookup /\ planned' = planned /\ curr_offset' = curr_offset
      /\ phase \in {"settings", "actions"} /\ PlanKept
      /\ phase' \in {"settings", "actions", "verified", "rejected"}
  <2>1. phase \in {"settings", "actions"} /\ phase' \in {"settings", "actions", "verified", "rejected"}
    BY DEF Verify, VerifyNext, VerifySettings, VerifyAction, RejectAction, EndOfScript
  <2> QED BY <2>1 DEF Verify, PlanKept
<1>2. planned.count = 0
  BY <1>1 DEF IInv, Packets, PlanInv, Counted
<1>3. actions \in Seq(ScriptActions) /\ actions' \in Seq(ScriptActions)
  BY DEF IInv, Script
<1>4. Counted' /\ Described' /\ Filled'
  BY <1>1, <1>2, <1>3, NothingPlanned
<1>5. ReadRight'
  <2>1. lookup = [identity_map |-> <<>>, all_packets |-> {}]
    BY <1>1 DEF IInv, Packets
  <2>2. DOMAIN lookup'.identity_map = {}
    BY <1>1, <2>1
  <2> QED BY <2>2 DEF ReadRight
<1>6. Sendable'
  <2>1. CASE VerifySettings
    <3>1. actions = <<>> /\ actions' = actions
      BY <2>1 DEF IInv, Script, VerifySettings
    <3>2. DOMAIN actions' = {}
      BY <3>1
    <3> QED BY <3>2 DEF Sendable
  <2>2. CASE VerifyAction
    <3>1. PICK a \in ScriptActions : ActionOK(a) /\ actions' = Append(actions, a)
      BY <2>2 DEF VerifyAction
    <3>2. settings' = settings
      BY <2>2 DEF VerifyAction
    <3>3. a.type = "SEND" => a.count # 0 /\ PacketOK(a)
      BY <3>1 DEF ActionOK, SendOK
    <3>4. \A i \in DOMAIN actions' : actions'[i] = a \/ (i \in DOMAIN actions /\ actions'[i] = actions[i])
      BY <1>3, <3>1
    <3>5. ASSUME NEW i \in DOMAIN actions', actions'[i].type = "SEND"
          PROVE  actions'[i].count # 0 /\ PacketOK(actions'[i])
      BY <3>3, <3>4, <3>5 DEF PlanInv, Sendable
    <3>6. ASSUME NEW i \in DOMAIN actions'
          PROVE  PacketOK(actions'[i]) => (PacketOK(actions[i]))'
      BY <3>2 DEF PacketOK, Resolves
    <3> QED BY <3>5, <3>6 DEF Sendable
  <2>3. CASE RejectAction \/ EndOfScript
    BY <2>3, SendableStays DEF PlanInv, RejectAction, EndOfScript
  <2> QED BY <2>1, <2>2, <2>3 DEF Verify, VerifyNext
<1> QED BY <1>4, <1>5, <1>6 DEF PlanInv

LEMMA FailKeepsPlan ==
    ASSUME IInv, PlanInv, NEW error, Fail(error)
    PROVE  PlanInv'
<1>1. /\ settings' = settings /\ actions' = actions /\ lookup' = lookup /\ plan' = plan
      /\ curr_offset' = curr_offset /\ phase' = "failed" /\ planned' = [planned EXCEPT !.error = error]
  BY DEF Fail, Advance
<1>2. planned'.count = planned.count
  BY <1>1 DEF IInv, Shapes
<1> QED BY <1>1, <1>2, PlanStays DEF PlanKept

LEMMA SetupKeepsPlan ==
    ASSUME IInv, PlanInv, MakeFactory \/ ResolveEndpoints
    PROVE  PlanInv'
<1>1. CASE Fail("hosts")
  BY <1>1, FailKeepsPlan
<1>2. CASE ~Fail("hosts")
  <2>0. phase \in {"verified", "factory"}
    BY DEF MakeFactory, ResolveEndpoints
  <2>1. /\ settings' = settings /\ actions' = actions /\ lookup' = lookup
        /\ curr_offset' = curr_offset /\ planned' = planned
        /\ phase' \in {"factory", "common"}
    BY <1>2 DEF MakeFactory, ResolveEndpoints, Advance
  <2>2. \E x : plan' = [plan EXCEPT !.factory = x] \/ plan' = [plan EXCEPT !.endpoints = x]
    BY <1>2 DEF MakeFactory, ResolveEndpoints
  <2>3. PICK x : plan' = [plan EXCEPT !.factory = x] \/ plan' = [plan EXCEPT !.endpoints = x]
    BY <2>2
  <2>4. plan' = [factory |-> plan'.factory, endpoints |-> plan'.endpoints,
               packet_data |-> plan.packet_data, actions |-> plan.actions,
               payloads |-> plan.payloads, counter_steps |-> plan.counter_steps]
    BY <2>3 DEF IInv, Shapes
  <2>5. PlanKept /\ plan'.packet_data = plan.packet_data
    BY <2>1, <2>4 DEF PlanKept
  <2>6. ~(planned.count > 0)
    BY <2>0 DEF PlanInv, Counted
  <2> QED BY <2>1, <2>5, <2>6, PlanStays
<1> QED BY <1>1, <1>2

\* A packet is read before the first action is planned, and its identifier
\* then stands for its file.
LEMMA ReadPacketKeepsPlan ==
    ASSUME IInv, PlanInv, ReadPacket
    PROVE  PlanInv'
<1> DEFINE file == settings.packet_identifiers
           map == lookup.identity_map
           data == plan.packet_data
<1>1. PICK id \in Unread : ReadDuplicate(id, file[id]) \/ ReadFile(id, file[id])
  BY DEF ReadPacket
<1>2. phase = "common" /\ id \in DOMAIN file /\ id \notin DOMAIN map
  BY DEF ReadPacket, Unread
<1>3. CASE Fail("application")
  BY <1>3, FailKeepsPlan
<1>4. CASE ~Fail("application")
  <2>1. planned.count = 0
    BY <1>1 DEF PlanInv, Counted
  <2>2. /\ phase' = phase /\ settings' = settings /\ actions' = actions /\ planned' = planned
        /\ curr_offset' = curr_offset
    BY <1>1, <1>4 DEF ReadDuplicate, ReadFile, verifyVars
  <2>3. actions \in Seq(ScriptActions)
    BY DEF IInv, Script
  <2>4. /\ data \in Seq(DOMAIN FileSize)
        /\ DOMAIN map \subseteq DOMAIN file
        /\ \A i \in DOMAIN map : map[i] \in DOMAIN data
        /\ \A f \in lookup.all_packets : \E i \in DOMAIN map : PathOf[file[i]] = f
    BY DEF IInv, Packets
  <2>5. Confusable' <=> Confusable
    BY <2>2 DEF Confusable
  <2>6. CASE ReadDuplicate(id, file[id])
    <3> DEFINE index == map[file[id]]
    <3>1. /\ PathOf[file[id]] \in lookup.all_packets /\ file[id] \in DOMAIN map /\ plan' = plan
          /\ lookup' = [lookup EXCEPT !.identity_map = MapIdentifier(id, index)]
      BY <1>4, <2>6 DEF ReadDuplicate
    <3> HIDE DEF index
    <3>2. lookup'.identity_map = MapIdentifier(id, index)
      BY <3>1 DEF IInv, Shapes
    <3>3. /\ DOMAIN lookup'.identity_map = DOMAIN map \cup {id}
          /\ lookup'.identity_map[id] = index
          /\ \A i \in DOMAIN map : lookup'.identity_map[i] = map[i]
      BY <1>2, <3>2 DEF MapIdentifier
    <3>4. PlanKept
      BY <2>2, <3>1 DEF PlanKept
    <3>5. ASSUME ~Confusable PROVE PathOf[data[index]] = PathOf[file[id]]
      <4>1. PICK other \in DOMAIN map : PathOf[file[other]] = PathOf[file[id]]
        BY <2>4, <3>1
      <4>2. other # id /\ other \in DOMAIN file /\ file[id] \in DOMAIN file
        BY <1>2, <2>4, <3>1
      <4>3. PathOf[file[file[id]]] = PathOf[file[id]]
        BY <1>2, <3>5, <4>1, <4>2 DEF Confusable
      <4>4. PathOf[data[map[file[id]]]] = PathOf[file[file[id]]]
        BY <3>1, <3>5 DEF PlanInv, ReadRight
      <4> QED BY <4>3, <4>4 DEF index
    <3>6. ReadRight'
      <4>1. ASSUME ~Confusable, NEW i \in DOMAIN lookup'.identity_map
            PROVE  PathOf[plan'.packet_data[lookup'.identity_map[i]]]
                     = PathOf[settings'.packet_identifiers[i]]
        <5>1. CASE i = id
          BY <5>1, <2>2, <3>1, <3>3, <3>5, <4>1
        <5>2. CASE i # id
          <6>1. i \in DOMAIN map /\ lookup'.identity_map[i] = map[i]
            BY <3>3, <5>2
          <6>2. PathOf[data[map[i]]] = PathOf[file[i]]
            BY <4>1, <6>1 DEF PlanInv, ReadRight
          <6> QED BY <6>1, <6>2, <2>2, <3>1
        <5> QED BY <5>1, <5>2
      <4> QED BY <2>5, <4>1 DEF ReadRight
    <3>7. Counted' /\ Described' /\ Filled'
      BY <1>2, <2>1, <2>2, <2>3, <3>4, NothingPlanned
    <3>8. Sendable'
      BY <2>2, SendableStays DEF PlanInv
    <3> QED BY <3>6, <3>7, <3>8 DEF PlanInv
  <2>7. CASE ReadFile(id, file[id])
    <3> DEFINE index == Len(data) + 1
               more == Append(data, file[id])
    <3>1. /\ plan' = [plan EXCEPT !.packet_data = more]
          /\ lookup' = [identity_map |-> MapIdentifier(id, index),
                        all_packets |-> lookup.all_packets \cup {PathOf[file[id]]}]
      BY <2>7 DEF ReadFile
    <3>2. Len(data) \in Nat /\ DOMAIN data = 1 .. Len(data) /\ more[index] = file[id]
          /\ \A i \in DOMAIN data : more[i] = data[i]
      BY <2>4
    <3> HIDE DEF index, more
    <3>3. lookup'.identity_map = MapIdentifier(id, index)
      BY <3>1
    <3>4. /\ DOMAIN lookup'.identity_map = DOMAIN map \cup {id}
          /\ lookup'.identity_map[id] = index
          /\ \A i \in DOMAIN map : lookup'.identity_map[i] = map[i]
      BY <1>2, <3>3 DEF MapIdentifier
    <3>5. plan' = [factory |-> plan.factory, endpoints |-> plan.endpoints,
                   packet_data |-> more, actions |-> plan.actions,
                   payloads |-> plan.payloads, counter_steps |-> plan.counter_steps]
      BY <3>1 DEF IInv, Shapes
    <3>6. plan'.packet_data = more /\ PlanKept
      BY <2>2, <3>5 DEF PlanKept
    <3>7. ReadRight'
      <4>1. ASSUME ~Confusable, NEW i \in DOMAIN lookup'.identity_map
            PROVE  PathOf[plan'.packet_data[lookup'.identity_map[i]]]
                     = PathOf[settings'.packet_identifiers[i]]
        <5>1. CASE i = id
          BY <5>1, <2>2, <3>2, <3>4, <3>6
        <5>2. CASE i # id
          <6>1. i \in DOMAIN map /\ lookup'.identity_map[i] = map[i] /\ map[i] \in DOMAIN data
            BY <2>4, <3>4, <5>2
          <6>2. PathOf[data[map[i]]] = PathOf[file[i]] /\ more[map[i]] = data[map[i]]
            BY <4>1, <6>1, <3>2 DEF PlanInv, ReadRight
          <6> QED BY <6>1, <6>2, <2>2, <3>6
        <5> QED BY <5>1, <5>2
      <4> QED BY <2>5, <4>1 DEF ReadRight
    <3>8. Counted' /\ Described' /\ Filled'
      BY <1>2, <2>1, <2>2, <2>3, <3>6, NothingPlanned
    <3>9. Sendable'
      BY <2>2, SendableStays DEF PlanInv
    <3> QED BY <3>7, <3>8, <3>9 DEF PlanInv
  <2> QED BY <1>1, <2>6, <2>7
<1> QED BY <1>3, <1>4

LEMMA PlanActionKeepsPlan ==
    ASSUME IInv, PlanInv, PlanAction
    PROVE  PlanInv'
<1> DEFINE n == planned.count
           a == actions[n + 1]
           map == lookup.identity_map
           data == plan.packet_data
<1>1. phase = "common" /\ Unread = {} /\ n < Len(actions)
  BY DEF PlanAction
<1>2. n \in Nat /\ actions \in Seq(ScriptActions) /\ Len(actions) \in Nat /\ n + 1 <= Len(actions)
      /\ n + 1 \in DOMAIN actions
  <2>1. actions \in Seq(ScriptActions) /\ n \in Nat
    BY DEF IInv, Script, Packets
  <2> QED BY <1>1, <2>1
<1>3. a.type = "SEND" => a.packet \in DOMAIN map
  BY <1>1, <1>2 DEF IInv, Packets, Unread
<1>4. /\ planned' = [planned EXCEPT !.count = @ + 1] /\ lookup' = lookup
      /\ phase' = phase /\ settings' = settings /\ actions' = actions
      /\ curr_offset' = curr_offset + a.offset_ms
      /\ \/ a.type = "SEND" /\ PlanSend(a)
         \/ a.type # "SEND" /\ plan' = [plan EXCEPT !.actions = Append(@, Descriptor(a))]
  BY <1>3 DEF PlanAction, verifyVars
<1>5. planned'.count = n + 1
  BY <1>4 DEF IInv, Shapes
<1>6. Sendable'
  BY <1>4, SendableStays DEF PlanInv
<1>7. Counted'
  <2>1. n + 1 \in 0 .. Len(actions) /\ phase' = "common"
    BY <1>1, <1>2, <1>4
  <2>2. Unread' = {}
    BY <1>1, <1>4 DEF Unread
  <2> QED BY <1>4, <1>5, <2>1, <2>2 DEF Counted
<1> DEFINE d == Descriptor(a)
           more == Append(plan.actions, d)
<1>8. DescribedIn(actions, more, n + 1, curr_offset')
  <2>1. /\ d.type = a.type /\ d.count = a.count
        /\ d.offset = (curr_offset + a.offset_ms) % U32Mod
    BY DEF Descriptor
  <2>2. DescribedIn(actions, plan.actions, n, curr_offset)
    BY DEF PlanInv, Described
  <2> DEFINE list == plan.actions
  <2> HIDE DEF d, n, list
  <2>3. DescribedIn(actions, list, n, curr_offset)
    BY <2>2 DEF list
  <2>4. DescribedIn(actions, Append(list, d), n + 1, curr_offset + a.offset_ms)
    BY <1>2, <2>1, <2>3, NextDescribed
  <2> QED BY <1>4, <2>4 DEF list
<1> DEFINE loads == plan.payloads
           steps == plan.counter_steps
<1>9. FilledIn(actions, loads, steps, n, map, data)
  BY DEF PlanInv, Filled
<1>10. CASE a.type = "SEND"
  <2> DEFINE x == PayloadOf(a, map, data)
             y == Modified(a.mods).counter_list
             loads2 == loads \o Copies(a.count, x)
             steps2 == steps \o Copies(a.count, y)
  <2>1. plan' = [plan EXCEPT !.actions = more, !.payloads = loads2, !.counter_steps = steps2]
    <3>1. plan' = [plan EXCEPT
                    !.actions = Append(@, d),
                    !.payloads = @ \o Copies(a.count, x),
                    !.counter_steps = @ \o Copies(a.count, y)]
      BY <1>4, <1>10 DEF PlanSend, PayloadOf
    <3> HIDE DEF x, y, d
    <3> QED BY <3>1 DEF IInv, Shapes
  <2>2. FilledIn(actions, loads2, steps2, n + 1, map, data)
    <3> HIDE DEF n, map, data, loads, steps
    <3> QED BY <1>2, <1>9, <1>10, NextFilled
  <2> HIDE DEF more, loads2, steps2
  <2>3. plan' = [factory |-> plan.factory, endpoints |-> plan.endpoints,
                 packet_data |-> plan.packet_data, actions |-> more,
                 payloads |-> loads2, counter_steps |-> steps2]
    BY <2>1 DEF IInv, Shapes
  <2>4. plan'.actions = more /\ plan'.payloads = loads2 /\ plan'.counter_steps = steps2
        /\ plan'.packet_data = data
    BY <2>3
  <2>5. ReadRight'
    BY <1>4, <2>4 DEF PlanInv, ReadRight, Confusable
  <2>6. Described' /\ Filled'
    BY <1>4, <1>5, <1>8, <2>2, <2>4 DEF Described, Filled
  <2> QED BY <1>6, <1>7, <2>5, <2>6 DEF PlanInv
<1>11. CASE a.type # "SEND"
  <2>1. plan' = [plan EXCEPT !.actions = more]
    BY <1>4, <1>11
  <2>2. FilledIn(actions, loads, steps, n + 1, map, data)
    <3> HIDE DEF n, map, data, loads, steps
    <3> QED BY <1>2, <1>9, <1>11, NextFilledOther
  <2> HIDE DEF more
  <2>3. plan' = [factory |-> plan.factory, endpoints |-> plan.endpoints,
                 packet_data |-> plan.packet_data, actions |-> more,
                 payloads |-> loads, counter_steps |-> steps]
    BY <2>1 DEF IInv, Shapes
  <2>4. plan'.actions = more /\ plan'.payloads = loads /\ plan'.counter_steps = steps
        /\ plan'.packet_data = data
    BY <2>3
  <2>5. ReadRight'
    BY <1>4, <2>4 DEF PlanInv, ReadRight, Confusable
  <2>6. Described' /\ Filled'
    BY <1>4, <1>5, <1>8, <2>2, <2>4 DEF Described, Filled
  <2> QED BY <1>6, <1>7, <2>5, <2>6 DEF PlanInv
<1> QED BY <1>10, <1>11

LEMMA PlanDoneKeepsPlan ==
    ASSUME IInv, PlanInv, PlanDone
    PROVE  PlanInv'
<1>1. CASE Fail("oversized")
  BY <1>1, FailKeepsPlan
<1>2. CASE ~Fail("oversized")
  <2>1. /\ settings' = settings /\ actions' = actions /\ lookup' = lookup /\ plan' = plan
        /\ curr_offset' = curr_offset /\ planned' = planned /\ phase' = "planned"
        /\ planned.count = Len(actions)
    BY <1>2 DEF PlanDone, Advance
  <2> QED BY <2>1, PlanStays DEF PlanKept
<1> QED BY <1>1, <1>2

LEMMA StepKeepsPlan == IInv /\ PlanInv /\ [Next]_vars => PlanInv'
<1> SUFFICES ASSUME IInv, PlanInv, [Next]_vars PROVE PlanInv'
  OBVIOUS
<1>1. CASE Verify
  <2>1. IInv'
    BY <1>1, VerifyKeeps
  <2> QED BY <1>1, <2>1, VerifyKeepsPlan
<1>2. CASE MakeFactory \/ ResolveEndpoints
  BY <1>2, SetupKeepsPlan
<1>3. CASE MakeFactoryFails \/ ReadPacketFails
  <2>1. Fail("io")
    BY <1>3 DEF MakeFactoryFails, ReadPacketFails
  <2> QED BY <2>1, FailKeepsPlan
<1>4. CASE ReadPacket
  BY <1>4, ReadPacketKeepsPlan
<1>5. CASE PlanAction
  BY <1>5, PlanActionKeepsPlan
<1>6. CASE PlanDone
  BY <1>6, PlanDoneKeepsPlan
<1>7. CASE UNCHANGED vars
  <2>1. /\ settings' = settings /\ actions' = actions /\ lookup' = lookup /\ plan' = plan
        /\ curr_offset' = curr_offset /\ planned' = planned /\ phase' = phase
    BY <1>7 DEF vars, verifyVars
  <2>2. /\ planned.count > 0 => phase \in {"common", "planned", "failed"}
        /\ phase = "planned" => planned.count = Len(actions)
    BY DEF PlanInv, Counted
  <2> QED BY <2>1, <2>2, PlanStays DEF PlanKept
<1> QED BY <1>1, <1>2, <1>3, <1>4, <1>5, <1>6, <1>7 DEF Next

LEMMA PlanInitHolds == Init => PlanInv
<1> SUFFICES ASSUME Init PROVE PlanInv
  OBVIOUS
<1>1. /\ phase = "settings" /\ actions = <<>> /\ curr_offset = 0
      /\ plan = [factory |-> "none", endpoints |-> <<>>, packet_data |-> <<>>, actions |-> <<>>,
                 payloads |-> <<>>, counter_steps |-> <<>>]
      /\ lookup = [identity_map |-> <<>>, all_packets |-> {}]
      /\ planned = [count |-> 0, error |-> "none"]
  BY DEF Init, VerifyInit
<1>2. /\ planned.count = 0 /\ plan.actions = <<>> /\ plan.payloads = <<>> /\ plan.counter_steps = <<>>
      /\ lookup.identity_map = <<>>
  BY <1>1
<1>3. /\ DOMAIN <<>> = {} /\ Len(<<>>) = 0 /\ IsSequence(<<>>) /\ <<>> \in Seq(ScriptActions)
      /\ 1 .. 0 = {}
  BY DEF IsSequence
<1>4. Sendable /\ ReadRight
  <2>1. DOMAIN actions = {} /\ DOMAIN lookup.identity_map = {}
    BY <1>1, <1>2, <1>3
  <2> QED BY <2>1 DEF Sendable, ReadRight
<1>5. Counted
  BY <1>1, <1>2, <1>3 DEF Counted
<1>6. Offsets(actions)[0] = 0 /\ Sent(actions)[0] = 0
  <2>1. actions \in Seq(ScriptActions)
    BY <1>1, <1>3
  <2>2. IsSum(Offsets(actions), OffsetOf(actions), Len(actions))
    BY <2>1, OffsetsAre
  <2>3. IsSum(Sent(actions), Copied(actions), Len(actions))
    BY <2>1, SentOfScript
  <2> QED BY <2>2, <2>3 DEF IsSum
<1>7. Described
  BY <1>1, <1>2, <1>3, <1>6 DEF Described, DescribedIn
<1>8. Filled
  BY <1>1, <1>2, <1>3, <1>6 DEF Filled, FilledIn
<1> QED BY <1>4, <1>5, <1>7, <1>8 DEF PlanInv

\* generate_plan_common() keeps the invariant of the planned actions, on top
\* of the one above.
THEOREM PlanInvariance == Spec => []PlanInv
<1>1. Init => IInv /\ PlanInv
  BY InitHolds, PlanInitHolds
<1>2. IInv /\ PlanInv /\ [Next]_vars => (IInv /\ PlanInv)'
  BY StepKeeps, StepKeepsPlan
<1> QED BY <1>1, <1>2, PTL DEF Spec

-----------------------------------------------------------------------------
(* What the invariant says of a plan. *)

LEMMA OffsetsAscend ==
    ASSUME NEW acts \in Seq(ScriptActions), NEW list, NEW offset, offset < U32Mod,
           DescribedIn(acts, list, Len(acts), offset), NEW i \in 2 .. Len(acts)
    PROVE  list[i - 1].offset <= list[i].offset
<1> DEFINE N == Len(acts)
           sum == Offsets(acts)
           w == OffsetOf(acts)
<1>1. N \in Nat /\ IsSum(sum, w, N) /\ \A k \in 1 .. N : w[k] \in Nat
  BY OffsetsAre
<1>2. /\ \A k \in 1 .. N : list[k].offset = sum[k] % U32Mod
      /\ offset = sum[N]
  BY DEF DescribedIn
<1>3. i \in 1 .. N /\ i - 1 \in 1 .. N
  BY <1>1
<1> HIDE DEF N, sum, w
<1>4. ASSUME NEW k \in 1 .. N PROVE sum[k] \in Nat /\ list[k].offset = sum[k]
  <2>1. k \in 0 .. N /\ N \in 0 .. N /\ k <= N
    BY <1>1
  <2>2. sum[k] \in Nat /\ sum[N] \in Nat
    BY <1>1, <2>1 DEF IsSum
  <2>3. sum[k] <= sum[N]
    BY <1>1, <2>1, SumMonotone
  <2>4. sum[k] < U32Mod
    BY <1>2, <2>2, <2>3, Widths
  <2>5. sum[k] % U32Mod = sum[k]
    BY <2>2, <2>4, Widths, SmallRemainder
  <2> QED BY <1>2, <2>2, <2>5
<1>5. sum[i] = sum[i - 1] + w[i] /\ w[i] \in Nat
  BY <1>1, <1>3 DEF IsSum
<1>6. list[i].offset = sum[i] /\ list[i - 1].offset = sum[i - 1] /\ sum[i - 1] \in Nat
  BY <1>3, <1>4
<1> QED BY <1>5, <1>6

\* The modifications of an accepted SEND fit in its packet.
LEMMA SendFits ==
    ASSUME NEW a \in ScriptActions, PacketOK(a)
    PROVE  LET file == settings.packet_identifiers[a.packet]
           IN  /\ file \in DOMAIN FileSize /\ FileSize[file] \in Nat /\ FileSize[file] < U32Mod
               /\ Len(a.mods) \in Nat /\ DOMAIN a.mods = 1 .. Len(a.mods)
               /\ a.mods = <<>> <=> Len(a.mods) = 0
               /\ \A i \in 1 .. Len(a.mods) : FitsIn(a.mods[i], FileSize[file])
<1> DEFINE file == settings.packet_identifiers[a.packet]
           size == FileSize[file]
           mods == a.mods
           M == {mods[i] : i \in DOMAIN mods}
<1>1. file \in DOMAIN FileSize /\ ModsValid(mods, size)
  BY DEF PacketOK, Resolves
<1>2. size \in Nat /\ size < U32Mod
  BY <1>1, ScriptAssumption, WidthAssumption
<1>3. mods \in Seq(M) /\ \A i \in DOMAIN mods : Modification(mods[i])
  BY ScriptAssumption
<1>4. \A i \in DOMAIN mods : ModValid(mods[i], size)
  BY <1>1 DEF ModsValid
<1>5. \A i \in DOMAIN mods : FitsIn(mods[i], size)
  BY <1>3, <1>4 DEF Modification, Range32, ModValid, end_from_length, FitsIn
<1> HIDE DEF M, mods
<1>6. Len(mods) \in Nat /\ DOMAIN mods = 1 .. Len(mods) /\ (mods = <<>> <=> Len(mods) = 0)
  BY <1>3
<1> QED BY <1>1, <1>2, <1>5, <1>6 DEF mods

\* What was planned for a SEND.
LEMMA PayloadIs ==
    ASSUME IInv, PlanInv, Planned, NEW i \in Sends, NEW p \in MadeFor(i)
    PROVE  /\ PacketOK(actions[i]) /\ actions[i] \in ScriptActions
           /\ actions[i].packet \in DOMAIN lookup.identity_map
           /\ plan.payloads[p] = PayloadOf(actions[i], lookup.identity_map, plan.packet_data)
           /\ plan.counter_steps[p] = Modified(actions[i].mods).counter_list
<1> DEFINE N == Len(actions)
           loads == plan.payloads
<1>1. actions \in Seq(ScriptActions) /\ planned.count = N /\ N \in Nat /\ DOMAIN actions = 1 .. N
  <2>1. actions \in Seq(ScriptActions)
    BY DEF IInv, Script
  <2> QED BY <2>1 DEF PlanInv, Counted, Planned
<1>2. FilledIn(actions, loads, plan.counter_steps, N, lookup.identity_map, plan.packet_data)
  BY <1>1 DEF PlanInv, Filled
<1>3. i \in 1 .. N /\ actions[i].type = "SEND" /\ p \in Sent(actions)[i - 1] + 1 .. Sent(actions)[i]
  BY <1>1 DEF Sends, MadeFor
<1>4. /\ loads[p] = PayloadOf(actions[i], lookup.identity_map, plan.packet_data)
      /\ plan.counter_steps[p] = Modified(actions[i].mods).counter_list
  BY <1>2, <1>3 DEF FilledIn
<1>5. PacketOK(actions[i]) /\ actions[i] \in ScriptActions
  BY <1>1, <1>3 DEF PlanInv, Sendable
<1>6. actions[i].packet \in DOMAIN lookup.identity_map
  <2>1. planned.count > 0
    BY <1>1, <1>3
  <2>2. Unread = {}
    BY <2>1 DEF PlanInv, Counted
  <2> QED BY <1>5, <2>2 DEF Unread, PacketOK
<1> QED BY <1>4, <1>5, <1>6

LEMMA BytesReplaced ==
    ASSUME IInv, PlanInv, Planned, ~Confusable, NEW k \in Sends, NEW p \in MadeFor(k),
           Ascending(actions[k].mods)
    PROVE  ReplacesBytes(p, actions[k])
<1>1. /\ PacketOK(actions[k]) /\ actions[k] \in ScriptActions
      /\ actions[k].packet \in DOMAIN lookup.identity_map
      /\ plan.payloads[p] = PayloadOf(actions[k], lookup.identity_map, plan.packet_data)
      /\ plan.counter_steps[p] = Modified(actions[k].mods).counter_list
  BY PayloadIs
<1> DEFINE a == actions[k]
           index == lookup.identity_map[a.packet]
           name == settings.packet_identifiers[a.packet]
           file == plan.packet_data[plan.payloads[p].packet]
           size == FileSize[file]
           ops == plan.payloads[p].ops
           mods == a.mods
<1>2. Ascending(mods)
  OBVIOUS
<1>3. plan.payloads[p].packet = index /\ ops = MakeOps(mods, FileSize[plan.packet_data[index]])
  <2> DEFINE load == plan.payloads[p]
             made == MakeOps(mods, FileSize[plan.packet_data[index]])
  <2>1. load = [packet |-> index, ops |-> made]
    BY <1>1 DEF PayloadOf
  <2> HIDE DEF load, made, index
  <2>2. load.packet = index /\ load.ops = made
    BY <2>1
  <2> QED BY <2>2 DEF load, made
<1>4. PathOf[file] = PathOf[name] /\ file \in DOMAIN FileSize
  <2>1. PathOf[plan.packet_data[index]] = PathOf[name]
    BY <1>1 DEF PlanInv, ReadRight
  <2>2. plan.packet_data \in Seq(DOMAIN FileSize) /\ index \in DOMAIN plan.packet_data
    BY <1>1 DEF IInv, Packets
  <2>3. plan.packet_data[index] \in DOMAIN FileSize
    BY <2>2
  <2> QED BY <1>3, <2>1, <2>3
<1>5. ops = MakeOps(mods, size)
  BY <1>3
<1>6. /\ size \in Nat /\ size < U32Mod
      /\ Len(mods) \in Nat /\ DOMAIN mods = 1 .. Len(mods)
      /\ mods = <<>> <=> Len(mods) = 0
      /\ \A i \in 1 .. Len(mods) : FitsIn(mods[i], size)
  <2>1. /\ name \in DOMAIN FileSize /\ FileSize[name] \in Nat /\ FileSize[name] < U32Mod
        /\ Len(mods) \in Nat /\ DOMAIN mods = 1 .. Len(mods)
        /\ mods = <<>> <=> Len(mods) = 0
        /\ \A i \in 1 .. Len(mods) : FitsIn(mods[i], FileSize[name])
    BY <1>1, SendFits
  <2>2. size = FileSize[name]
    BY <1>4, <2>1, PathAssumption
  <2> QED BY <2>1, <2>2
<1>7. Replaces(ops, mods, size)
  <2> HIDE DEF a, file, size, ops, mods
  <2> QED BY <1>2, <1>5, <1>6, MakeOpsIs
<1>8. plan.counter_steps[p] = Modified(mods).counter_list
  BY <1>1
<1> DEFINE wanted == {[type |-> a.mods[i].type, start |-> a.mods[i].bytes.start,
                       length |-> a.mods[i].bytes.second] : i \in DOMAIN a.mods}
           dynamic == {n \in DOMAIN ops : ops[n].type # "IDENTITY"}
<1>9. wanted = {Replaced(mods[i]) : i \in 1 .. Len(mods)}
  BY <1>6 DEF Replaced
<1>10. dynamic = Dynamic(ops) /\ {n \in dynamic : ops[n].type = "COUNTER"} = Counting(ops)
  BY DEF Dynamic, Counting
<1>11. {[type |-> ops[n].type, start |-> Position(ops, n), length |-> ops[n].length] : n \in dynamic}
         = Placed(ops)
  BY <1>10 DEF Placed, PlacedAt
<1>12. Len(a.mods) = Len(mods)
  OBVIOUS
<1> HIDE DEF ops, wanted, dynamic, mods, size
<1>13. /\ Position(ops, Len(ops) + 1) = size /\ wanted = Placed(ops)
       /\ Cardinality(dynamic) = Len(mods)
       /\ Len(plan.counter_steps[p]) = Cardinality(Counting(ops))
  BY <1>7, <1>8, <1>9, <1>10 DEF Replaces, End
<1> QED BY <1>4, <1>10, <1>11, <1>12, <1>13 DEF ReplacesBytes, ops, wanted, dynamic, size

\* The payload a dry run shows is the first copy of its SEND.
LEMMA DryRunShows ==
    ASSUME IInv, PlanInv, Planned, NEW i \in DOMAIN actions, actions[i].type = "SEND"
    PROVE  plan.payloads[DryRunPayload(i)].packet = lookup.identity_map[actions[i].packet]
<1> DEFINE N == Len(actions)
           list == plan.actions
           sum == Sent(actions)
           w == Copied(actions)
<1>1. actions \in Seq(ScriptActions) /\ planned.count = N /\ N \in Nat /\ DOMAIN actions = 1 .. N
  <2>1. actions \in Seq(ScriptActions)
    BY DEF IInv, Script
  <2> QED BY <2>1 DEF PlanInv, Counted, Planned
<1>2. /\ IsSequence(list) /\ Len(list) = N
      /\ \A k \in 1 .. N : list[k].type = actions[k].type /\ list[k].count = actions[k].count
  BY <1>1 DEF PlanInv, Described, DescribedIn
<1>3. DOMAIN list = 1 .. N
  BY <1>2, SequenceIs
<1>4. /\ IsSum(sum, w, N)
      /\ \A k \in 1 .. N : /\ w[k] = (IF actions[k].type = "SEND" THEN actions[k].count ELSE 0)
                           /\ w[k] \in Nat
  BY <1>1, SentOfScript
<1>5. \A k \in 1 .. N : actions[k].count \in Nat
  <2>1. \A k \in 1 .. N : actions[k] \in ScriptActions
    BY <1>1
  <2> QED BY <2>1, ActionFacts
<1> HIDE DEF N, list, sum, w
<1>6. /\ IsSum(Sent(list), Copied(list), N)
      /\ \A k \in 1 .. N : Copied(list)[k] = IF list[k].type = "SEND" THEN list[k].count ELSE 0
  <2>1. \A k \in 1 .. N : list[k].count \in Nat
    BY <1>2, <1>5
  <2> QED BY <1>1, <1>3, <2>1, SentAre
<1>7. \A k \in 1 .. N : Copied(list)[k] = w[k]
  BY <1>2, <1>4, <1>6
<1>8. i \in 1 .. N /\ i - 1 \in 0 .. N /\ i \in 0 .. N
  BY <1>1
<1>9. Sent(list)[i - 1] = sum[i - 1]
  <2> DEFINE s == Sent(list)
             v == Copied(list)
             j == i - 1
  <2>1. /\ N \in Nat /\ N <= N /\ j \in 0 .. N
        /\ IsSum(s, v, N) /\ IsSum(sum, w, N) /\ \A k \in 1 .. N : v[k] = w[k]
    BY <1>1, <1>4, <1>6, <1>7, <1>8
  <2> HIDE DEF s, v, j
  <2>2. s[j] = sum[j]
    BY <2>1, SumPrefix
  <2> QED BY <2>2 DEF s, j
<1>10. /\ sum[i] = sum[i - 1] + actions[i].count /\ sum[i - 1] \in Nat
       /\ actions[i].count \in Nat /\ actions[i].count # 0
  <2>1. sum[i] = sum[i - 1] + w[i] /\ sum[i - 1] \in Nat
    BY <1>4, <1>8 DEF IsSum
  <2>2. actions[i].count # 0
    BY DEF PlanInv, Sendable
  <2> QED BY <1>4, <1>5, <1>8, <2>1, <2>2
<1>11. DryRunPayload(i) \in sum[i - 1] + 1 .. sum[i]
  BY <1>9, <1>10 DEF DryRunPayload, list
<1>12. plan.payloads[DryRunPayload(i)] = PayloadOf(actions[i], lookup.identity_map, plan.packet_data)
  BY <1>1, <1>8, <1>11 DEF PlanInv, Filled, FilledIn, sum
<1> QED BY <1>12 DEF PayloadOf

SentTo(s) == [k \in DOMAIN actions |-> IF Touches(k, "SEND", s) THEN actions[k].count ELSE 0]

\* A session all SENDs so far have reached has counted as far as they have.
LEMMA FilledInStep ==
    ASSUME IInv, NEW i \in Sends, NEW s \in Covered(actions[i]), InStep(s, i)
    PROVE  FilledBy(s, i) = MadeFor(i)
<1> DEFINE N == Len(actions)
           v == SentTo(s)
           w == Copied(actions)
           sum == Sent(actions)
           asked == Asked(s)
<1>1. actions \in Seq(ScriptActions) /\ N \in Nat /\ DOMAIN actions = 1 .. N
  <2>1. actions \in Seq(ScriptActions)
    BY DEF IInv, Script
  <2> QED BY <2>1
<1>2. \A k \in 1 .. N : actions[k].count \in Nat
  BY <1>1, ActionFacts
<1>3. /\ IsSum(sum, w, N)
      /\ \A k \in 1 .. N : w[k] = (IF actions[k].type = "SEND" THEN actions[k].count ELSE 0)
  BY <1>1, SentOfScript
<1>4. v \in Seq(Nat) /\ Len(v) = N
      /\ \A k \in 1 .. N : v[k] = (IF Touches(k, "SEND", s) THEN actions[k].count ELSE 0)
  <2> DEFINE n(k) == IF Touches(k, "SEND", s) THEN actions[k].count ELSE 0
  <2>1. \A k \in 1 .. N : n(k) \in Nat
    BY <1>2
  <2>2. v = [k \in 1 .. N |-> n(k)]
    BY <1>1 DEF SentTo
  <2> HIDE DEF n, N, v
  <2>3. v \in Seq(Nat) /\ Len(v) = N /\ \A k \in 1 .. N : v[k] = n(k)
    BY <1>1, <2>1, <2>2
  <2> QED BY <2>3 DEF n
<1>5. asked = Sums(v)
  BY DEF Asked, SentTo
<1> HIDE DEF N, v, w, sum, asked
<1>6. IsSum(asked, v, N)
  BY <1>4, <1>5, SumsAre
<1>7. i \in 1 .. N /\ actions[i].type = "SEND" /\ i \in Nat /\ i <= N
  BY <1>1 DEF Sends
<1>8. \A k \in 1 .. i : v[k] = w[k]
  <2> SUFFICES ASSUME NEW k \in 1 .. i PROVE v[k] = w[k]
    OBVIOUS
  <2>1. k \in 1 .. N /\ (k = i \/ k \in 1 .. i - 1)
    BY <1>1, <1>7
  <2>2. actions[k].type = "SEND" => s \in Covered(actions[k])
    BY <2>1 DEF InStep
  <2>3. actions[k].type = "SEND" <=> Touches(k, "SEND", s)
    BY <2>2 DEF Touches
  <2> QED BY <1>3, <1>4, <2>1, <2>3
<1>9. asked[i] = sum[i] /\ asked[i - 1] = sum[i - 1]
  <2>1. \A j \in 0 .. i : asked[j] = sum[j]
    <3> DEFINE m == i
    <3>1. /\ N \in Nat /\ m \in Nat /\ m <= N /\ IsSum(asked, v, N) /\ IsSum(sum, w, N)
          /\ \A k \in 1 .. m : v[k] = w[k]
      BY <1>1, <1>3, <1>6, <1>7, <1>8
    <3> HIDE DEF m
    <3>2. ASSUME NEW j \in 0 .. m PROVE asked[j] = sum[j]
      <4> USE <3>1
      <4> QED BY SumPrefix
    <3> QED BY <3>2 DEF m
  <2>2. i \in 0 .. i /\ i - 1 \in 0 .. i
    BY <1>7
  <2> QED BY <2>1, <2>2
<1> QED BY <1>9 DEF FilledBy, MadeFor, asked, sum

\* The plan generate_plan_common() returns follows the script: nothing is
\* scheduled out of order, every SEND has its copies, the dry run shows one of
\* them, and each replaces the bytes of its modifications and no others, when
\* those are written in ascending order.  The copies of a SEND are what a
\* session fills for it if every earlier SEND reached the session and no
\* FLOOD did; of other sessions, which count from 0 all the same, nothing is said.
THEOREM FollowsScript == Spec => []PlanFollowsScript
<1>1. ASSUME IInv, PlanInv PROVE PlanFollowsScript
  <2> SUFFICES ASSUME Planned PROVE PlanFollowsScript
    BY DEF PlanFollowsScript
  <2>1. actions \in Seq(ScriptActions) /\ planned.count = Len(actions)
    BY <1>1 DEF IInv, Script, PlanInv, Counted, Planned
  <2>2. ASSUME curr_offset < U32Mod, NEW i \in 2 .. Len(actions)
        PROVE  plan.actions[i - 1].offset <= plan.actions[i].offset
    <3> DEFINE list == plan.actions
    <3>1. DescribedIn(actions, list, Len(actions), curr_offset)
      BY <1>1, <2>1 DEF PlanInv, Described
    <3> HIDE DEF list
    <3>2. list[i - 1].offset <= list[i].offset
      BY <2>1, <2>2, <3>1, OffsetsAscend
    <3> QED BY <3>2 DEF list
  <2>3. Len(plan.payloads) = Sent(actions)[Len(actions)] /\ Len(plan.counter_steps) = Len(plan.payloads)
    BY <1>1, <2>1 DEF PlanInv, Filled, FilledIn
  <2>4. \A i \in Sends :
          plan.payloads[DryRunPayload(i)].packet = lookup.identity_map[actions[i].packet]
    BY <1>1, DryRunShows DEF Sends
  <2>5. \A i \in Sends : \A s \in Covered(actions[i]) :
          InStep(s, i) => FilledBy(s, i) = MadeFor(i)
    BY <1>1, FilledInStep
  <2>6. ~Confusable =>
          \A i \in Sends : Ascending(actions[i].mods) =>
              \A p \in MadeFor(i) : ReplacesBytes(p, actions[i])
    BY <1>1, BytesReplaced
  <2> QED BY <2>2, <2>3, <2>4, <2>5, <2>6 DEF PlanFollowsScript
<1> QED BY <1>1, Invariance, PlanInvariance, PTL

-----------------------------------------------------------------------------
(* Types. *)

Typed ==
    /\ settings \in SettingsBlocks \cup {set_script_defaults(s) : s \in SettingsBlocks}
    /\ Len(actions) <= MaxActions
    /\ plan.factory \in {"none", "NOP", "WASM"}
    /\ \A p \in DOMAIN plan.payloads : plan.payloads[p].ops \in Seq(Op)
    /\ curr_offset \in Nat
    /\ planned.error \in {"none", "io", "hosts", "application", "oversized"}

\* The operations are well formed whatever packet they were made for.
LEMMA OpsTyped ==
    ASSUME NEW size \in Nat, size < U32Mod, NEW fit \in Nat, fit < U32Mod, NEW mods, Len(mods) \in Nat,
           \A i \in 1 .. Len(mods) : FitsIn(mods[i], fit)
    PROVE  MakeOps(mods, size) \in Seq(Op)
<1> DEFINE built == Modified(mods)
           rest == IF built.data_index < size THEN size - built.data_index ELSE 0
<1>1. built \in Built
  BY ModifiedIs
<1>2. built.ops \in Seq(Op) /\ built.data_index \in Nat
  BY <1>1, Widths DEF Built
<1>3. CASE mods = <<>>
  <2> DEFINE y == make_identity(size)
  <2>1. y \in Op
    <3>1. size % U32Mod = size
      BY Widths, SmallRemainder
    <3> QED BY <3>1, Widths DEF make_identity, Op
  <2>2. MakeOps(mods, size) = <<y>>
    BY <1>3 DEF MakeOps
  <2> HIDE DEF y
  <2> QED BY <2>1, <2>2
<1>4. CASE mods # <<>>
  <2>1. MakeOps(mods, size) = AddIdentity(built.ops, rest)
    BY <1>4 DEF MakeOps
  <2>2. rest \in Nat /\ rest < U32Mod
    BY <1>2, Widths
  <2> HIDE DEF built, rest
  <2> QED BY <1>2, <2>1, <2>2, AddIdentityIs
<1> QED BY <1>3, <1>4

LEMMA StepKeepsTypes == IInv /\ PlanInv /\ Typed /\ [Next]_vars => Typed'
<1> SUFFICES ASSUME IInv, PlanInv, Typed, [Next]_vars PROVE Typed'
  OBVIOUS
<1>1. CASE Verify
  <2>1. plan' = plan /\ curr_offset' = curr_offset /\ planned' = planned
    BY <1>1 DEF Verify
  <2>2. CASE VerifySettings
    <3>1. settings \in SettingsBlocks /\ settings' = set_script_defaults(settings) /\ actions' = actions
      BY <2>2 DEF VerifySettings, IInv, Script
    <3> QED BY <2>1, <3>1 DEF Typed
  <2>3. CASE VerifyAction
    <3>1. settings' = settings /\ Len(actions) < MaxActions
      BY <2>3 DEF VerifyAction
    <3>2. PICK a \in ScriptActions : actions' = Append(actions, a)
      BY <2>3 DEF VerifyAction
    <3>3. Len(actions') <= MaxActions
      <4>1. actions \in Seq(ScriptActions) /\ MaxActions \in Nat
        BY ScriptAssumption DEF IInv, Script
      <4> QED BY <3>1, <3>2, <4>1
    <3> QED BY <2>1, <3>1, <3>3 DEF Typed
  <2>4. CASE RejectAction \/ EndOfScript
    BY <2>1, <2>4 DEF RejectAction, EndOfScript, Typed
  <2> QED BY <1>1, <2>2, <2>3, <2>4 DEF Verify, VerifyNext
<1>2. ASSUME NEW error \in {"io", "hosts", "application", "oversized"}, Fail(error) PROVE Typed'
  <2>1. /\ settings' = settings /\ actions' = actions /\ plan' = plan /\ curr_offset' = curr_offset
        /\ planned' = [planned EXCEPT !.error = error]
    BY <1>2 DEF Fail, Advance
  <2>2. planned'.error = error
    BY <2>1 DEF IInv, Shapes
  <2> QED BY <2>1, <2>2 DEF Typed
<1>3. CASE MakeFactory
  <2> DEFINE factory == IF UsesNOP(settings) THEN "NOP"
                        ELSE IF IsWasmFile(settings.handler_value) THEN "WASM" ELSE plan.factory
  <2>1. /\ settings' = settings /\ actions' = actions /\ curr_offset' = curr_offset
        /\ planned' = planned /\ plan' = [plan EXCEPT !.factory = factory]
    BY <1>3 DEF MakeFactory, Advance
  <2>2. factory \in {"none", "NOP", "WASM"}
    BY DEF Typed
  <2> HIDE DEF factory
  <2>3. plan' = [factory |-> factory, endpoints |-> plan.endpoints,
               packet_data |-> plan.packet_data, actions |-> plan.actions,
               payloads |-> plan.payloads, counter_steps |-> plan.counter_steps]
    BY <2>1 DEF IInv, Shapes
  <2>4. plan'.factory = factory /\ plan'.payloads = plan.payloads
    BY <2>3
  <2> QED BY <2>1, <2>2, <2>4 DEF Typed
<1>4. CASE ResolveEndpoints /\ ~Fail("hosts")
  <2>1. PICK found : plan' = [plan EXCEPT !.endpoints = found]
    BY <1>4 DEF ResolveEndpoints
  <2>2. /\ settings' = settings /\ actions' = actions /\ curr_offset' = curr_offset
        /\ planned' = planned
    BY <1>4 DEF ResolveEndpoints, Advance
  <2>3. plan' = [factory |-> plan.factory, endpoints |-> found,
               packet_data |-> plan.packet_data, actions |-> plan.actions,
               payloads |-> plan.payloads, counter_steps |-> plan.counter_steps]
    BY <2>1 DEF IInv, Shapes
  <2>4. plan'.factory = plan.factory /\ plan'.payloads = plan.payloads
    BY <2>3
  <2> QED BY <2>2, <2>4 DEF Typed
<1>5. CASE ReadPacket /\ ~Fail("application")
  <2>1. PICK id \in Unread : \/ ReadDuplicate(id, settings.packet_identifiers[id])
                             \/ ReadFile(id, settings.packet_identifiers[id])
    BY <1>5 DEF ReadPacket
  <2>2. /\ settings' = settings /\ actions' = actions /\ curr_offset' = curr_offset
        /\ planned' = planned
    BY <1>5, <2>1 DEF ReadDuplicate, ReadFile, verifyVars
  <2>3. \E data : plan' = plan \/ plan' = [plan EXCEPT !.packet_data = data]
    BY <1>5, <2>1 DEF ReadDuplicate, ReadFile
  <2>4. PICK data : plan' = plan \/ plan' = [plan EXCEPT !.packet_data = data]
    BY <2>3
  <2>5. plan'.factory = plan.factory /\ plan'.payloads = plan.payloads
    BY <2>4 DEF IInv, Shapes
  <2> QED BY <2>2, <2>5 DEF Typed
<1>6. CASE PlanAction /\ ~Fail("application")
  <2> DEFINE n == planned.count
             a == actions[n + 1]
  <2>1. n + 1 \in DOMAIN actions /\ a \in ScriptActions
    <3>1. n < Len(actions) /\ n \in Nat /\ actions \in Seq(ScriptActions)
      BY <1>6 DEF PlanAction, IInv, Script, Packets
    <3> QED BY <3>1
  <2>2. /\ settings' = settings /\ actions' = actions /\ curr_offset' = curr_offset + a.offset_ms
        /\ planned' = [planned EXCEPT !.count = @ + 1] /\ Unread = {}
        /\ \/ a.type = "SEND" /\ PlanSend(a)
           \/ a.type # "SEND" /\ plan' = [plan EXCEPT !.actions = Append(@, Descriptor(a))]
    BY <1>6 DEF PlanAction, verifyVars
  <2>3. planned'.error = planned.error
    BY <2>2 DEF IInv, Shapes
  <2>4. curr_offset' \in Nat
    <3>1. a.offset_ms \in Nat
      <4> HIDE DEF a
      <4> QED BY <2>1, ScriptAssumption
    <3> QED BY <2>2, <3>1 DEF Typed
  <2>5. CASE a.type # "SEND"
    <3> DEFINE acts == Append(plan.actions, Descriptor(a))
    <3>1. plan' = [plan EXCEPT !.actions = acts]
      BY <2>2, <2>5
    <3> HIDE DEF acts
    <3>2. plan'.factory = plan.factory /\ plan'.payloads = plan.payloads
      BY <3>1 DEF IInv, Shapes
    <3> QED BY <2>2, <2>3, <2>4, <3>2 DEF Typed
  <2>6. CASE a.type = "SEND"
    <3> DEFINE packet == lookup.identity_map[a.packet]
               size == FileSize[plan.packet_data[packet]]
               ops == MakeOps(a.mods, size)
               payload == [packet |-> packet, ops |-> ops]
               acts == Append(plan.actions, Descriptor(a))
               loads == plan.payloads \o Copies(a.count, payload)
               steps == plan.counter_steps \o Copies(a.count, Modified(a.mods).counter_list)
    <3>1. plan' = [plan EXCEPT !.actions = acts, !.payloads = loads, !.counter_steps = steps]
      <4>1. plan' = [plan EXCEPT
                      !.actions = Append(@, Descriptor(a)),
                      !.payloads = @ \o Copies(a.count, payload),
                      !.counter_steps = @ \o Copies(a.count, Modified(a.mods).counter_list)]
        BY <2>2, <2>6 DEF PlanSend
      <4> HIDE DEF payload
      <4> QED BY <4>1 DEF IInv, Shapes
    <3>2. PacketOK(a)
      BY <2>1, <2>6 DEF PlanInv, Sendable
    <3>3. size \in Nat /\ size < U32Mod
      <4>1. a.packet \in DOMAIN lookup.identity_map
        BY <2>2, <3>2 DEF PacketOK, Unread
      <4>2. plan.packet_data \in Seq(DOMAIN FileSize) /\ packet \in DOMAIN plan.packet_data
        BY <4>1 DEF IInv, Packets
      <4>3. plan.packet_data[packet] \in DOMAIN FileSize
        BY <4>2
      <4> QED BY <4>3, ScriptAssumption, WidthAssumption
    <3>4. ops \in Seq(Op)
      <4> DEFINE mods == a.mods
                 fit == FileSize[settings.packet_identifiers[a.packet]]
      <4>1. /\ fit \in Nat /\ fit < U32Mod /\ Len(mods) \in Nat
            /\ \A i \in 1 .. Len(mods) : FitsIn(mods[i], fit)
        BY <2>1, <3>2, SendFits
      <4> HIDE DEF mods, fit, size
      <4>2. MakeOps(mods, size) \in Seq(Op)
        BY <3>3, <4>1, OpsTyped
      <4> QED BY <4>2 DEF mods
    <3>5. payload.ops = ops /\ a.count \in Nat
      BY <2>1, ActionFacts
    <3> HIDE DEF ops, payload, acts, steps
    <3>6. \A i \in DOMAIN loads : \/ i \in DOMAIN plan.payloads /\ loads[i] = plan.payloads[i]
                                  \/ loads[i] = payload
      <4>1. IsSequence(plan.payloads)
        BY DEF IInv, Payloads
      <4> HIDE DEF a
      <4> QED BY <3>5, <4>1, Concatenating
    <3> HIDE DEF loads
    <3>7. \A p \in DOMAIN loads : loads[p].ops \in Seq(Op)
      BY <3>4, <3>5, <3>6 DEF Typed
    <3>8. plan' = [factory |-> plan.factory, endpoints |-> plan.endpoints,
                   packet_data |-> plan.packet_data, actions |-> acts,
                   payloads |-> loads, counter_steps |-> steps]
      BY <3>1 DEF IInv, Shapes
    <3>9. plan'.factory = plan.factory /\ plan'.payloads = loads
      BY <3>8
    <3> QED BY <2>2, <2>3, <2>4, <3>7, <3>9 DEF Typed
  <2> QED BY <2>5, <2>6
<1>7. CASE PlanDone /\ ~Fail("oversized")
  BY <1>7 DEF PlanDone, Advance, Typed
<1>8. CASE UNCHANGED vars
  BY <1>8 DEF vars, verifyVars, Typed
<1>9. CASE MakeFactoryFails \/ ReadPacketFails
  <2>1. Fail("io")
    BY <1>9 DEF MakeFactoryFails, ReadPacketFails
  <2> QED BY <1>2, <2>1
<1>10. CASE Fail("hosts") \/ Fail("application") \/ Fail("oversized")
  BY <1>2, <1>10
<1> QED BY <1>1, <1>3, <1>4, <1>5, <1>6, <1>7, <1>8, <1>9, <1>10 DEF Next

\* Every value of the verifier and of the plan has its type: no index of a
\* packet is out of range and every operation is one fill_payload() knows.
THEOREM TypeCorrect == Spec => []TypeOK
<1>1. Init => IInv /\ PlanInv /\ Typed
  <2> SUFFICES ASSUME Init PROVE Typed
    BY InitHolds, PlanInitHolds
  <2>1. /\ settings \in SettingsBlocks /\ actions = <<>> /\ curr_offset = 0
        /\ plan = [factory |-> "none", endpoints |-> <<>>, packet_data |-> <<>>, actions |-> <<>>,
                   payloads |-> <<>>, counter_steps |-> <<>>]
        /\ planned = [count |-> 0, error |-> "none"]
    BY DEF Init, VerifyInit
  <2>2. plan.payloads = <<>> /\ plan.factory = "none" /\ planned.error = "none"
    BY <2>1
  <2>3. DOMAIN plan.payloads = {} /\ Len(actions) = 0
    BY <2>1, <2>2
  <2> QED BY <2>1, <2>2, <2>3, ScriptAssumption DEF Typed
<1>2. IInv /\ PlanInv /\ Typed /\ [Next]_vars => (IInv /\ PlanInv /\ Typed)'
  BY StepKeeps, StepKeepsPlan, StepKeepsTypes
<1>3. ASSUME IInv, PlanInv, Typed PROVE TypeOK
  <2>1. /\ phase \in {"settings", "actions", "verified", "rejected", "factory", "common",
                      "planned", "failed"}
        /\ planned = [count |-> planned.count, error |-> planned.error]
    BY <1>3 DEF IInv, Shapes
  <2>2. planned \in [count : 0 .. Len(actions),
                     error : {"none", "io", "hosts", "application", "oversized"}]
    BY <1>3, <2>1 DEF PlanInv, Counted, Typed
  <2>3. actions \in Seq(ScriptActions) /\ Len(actions) <= MaxActions
    BY <1>3 DEF IInv, Script, Typed
  <2>4. /\ pool_size \in Nat
        /\ session_active \in [0 .. pool_size - 1 -> BOOLEAN]
        /\ session_disconnect_called \in [0 .. pool_size - 1 -> BOOLEAN]
    BY <1>3 DEF IInv, Remembered
  <2>5. /\ plan.packet_data \in Seq(DOMAIN FileSize)
        /\ \A id \in DOMAIN lookup.identity_map :
              lookup.identity_map[id] \in DOMAIN plan.packet_data
        /\ \A p \in DOMAIN plan.payloads :
              plan.payloads[p].packet \in DOMAIN plan.packet_data
    BY <1>3 DEF IInv, Packets, Payloads
  <2> QED BY <1>3, <2>1, <2>2, <2>3, <2>4, <2>5 DEF TypeOK, Typed
<1> QED BY <1>1, <1>2, <1>3, PTL DEF Spec
===============================================================================
