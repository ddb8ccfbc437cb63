----------------------------- MODULE ParserProofs -----------------------------
(***************************************************************************)
(* Proofs about module Parser, for every list of tokens in which a closing *)
(* brace has its own text: what the parser has read when it has consumed c *)
(* tokens is what the first c tokens say, by position.                     *)
(***************************************************************************)
EXTENDS Parser, NaturalsInduction, WellFoundedInduction, SequenceTheorems, TLAPS

-----------------------------------------------------------------------------
(* Induction, and the places of a set in order. *)

LEMMA NatSetInduction ==
    ASSUME NEW S, 0 \in S, \A n \in Nat : n \in S => n + 1 \in S
    PROVE  Nat \subseteq S
<1> DEFINE T == Nat \ S
<1>1. SUFFICES ASSUME T # {} PROVE FALSE
  OBVIOUS
<1>2. T \subseteq Nat
  OBVIOUS
<1>3. \E x \in T : \A y \in T : ~(<<y, x>> \in OpToRel(<, Nat))
  <2> HIDE DEF T
  <2> QED BY <1>1, <1>2, WFMin, NatLessThanWellFounded
<1>4. PICK x \in T : \A y \in T : ~(<<y, x>> \in OpToRel(<, Nat))
  BY <1>3
<1>5. x \in Nat /\ x \notin S /\ x # 0
  OBVIOUS
<1>6. x - 1 \in Nat /\ x - 1 < x
  BY <1>5
<1>7. x - 1 \in S
  BY <1>4, <1>5, <1>6 DEF OpToRel
<1>8. (x - 1) + 1 \in S
  BY <1>6, <1>7
<1> QED BY <1>5, <1>8

\* One place more.
Noted(list, S, n) == IF n \in S THEN Append(list, n) ELSE list

\* f notes the places of S from 1 to n.
Notes(f, S, n) ==
    f \in [0 .. n -> Seq(Nat)] /\ f[0] = <<>> /\ \A i \in 1 .. n : f[i] = Noted(f[i - 1], S, i)

LEMMA NotesExist ==
    ASSUME NEW S, NEW N \in Nat
    PROVE  \E f : Notes(f, S, N)
<1> DEFINE T == {n \in Nat : \E f : Notes(f, S, n)}
<1>1. 0 \in T
  <2> DEFINE f == [i \in 0 .. 0 |-> <<>>]
  <2>1. Notes(f, S, 0)
    BY DEF Notes
  <2> QED BY <2>1
<1>2. ASSUME NEW n \in Nat, n \in T PROVE n + 1 \in T
  <2>1. PICK f : Notes(f, S, n)
    BY <1>2
  <2>2. f[n] \in Seq(Nat)
    BY <2>1 DEF Notes
  <2> DEFINE top == Noted(f[n], S, n + 1)
             g == [i \in 0 .. n + 1 |-> IF i = n + 1 THEN top ELSE f[i]]
  <2>3. top \in Seq(Nat)
    BY <2>2 DEF Noted
  <2> HIDE DEF top
  <2>4. g \in [0 .. n + 1 -> Seq(Nat)] /\ g[0] = <<>>
    BY <2>1, <2>3 DEF Notes
  <2>5. ASSUME NEW i \in 1 .. n + 1 PROVE g[i] = Noted(g[i - 1], S, i)
    <3>1. CASE i = n + 1
      BY <3>1 DEF top
    <3>2. CASE i # n + 1
      <4>1. i \in 1 .. n /\ i - 1 \in 0 .. n /\ i - 1 # n + 1 /\ i \in 0 .. n
        BY <3>2
      <4>2. g[i] = f[i] /\ g[i - 1] = f[i - 1]
        BY <4>1, <3>2
      <4> HIDE DEF g
      <4> QED BY <4>1, <4>2, <2>1 DEF Notes
    <3> QED BY <3>1, <3>2
  <2> HIDE DEF g
  <2>6. Notes(g, S, n + 1)
    BY <2>4, <2>5 DEF Notes
  <2> QED BY <2>6
<1>3. Nat \subseteq T
  <2> HIDE DEF T
  <2> QED BY <1>1, <1>2, NatSetInduction
<1> QED BY <1>3

LEMMA NotesAgree ==
    ASSUME NEW S, NEW M \in Nat, NEW N \in Nat, M <= N, NEW f, NEW g, Notes(f, S, M), Notes(g, S, N)
    PROVE  f[M] = g[M]
<1> DEFINE T == {n \in Nat : n <= M => f[n] = g[n]}
<1>1. 0 \in T
  BY DEF Notes
<1>2. ASSUME NEW n \in Nat, n \in T PROVE n + 1 \in T
  <2> SUFFICES ASSUME n + 1 <= M PROVE f[n + 1] = g[n + 1]
    OBVIOUS
  <2>1. n + 1 \in 1 .. M /\ n + 1 \in 1 .. N /\ (n + 1) - 1 = n /\ f[n] = g[n]
    BY <1>2
  <2> QED BY <2>1 DEF Notes
<1>3. Nat \subseteq T
  <2> HIDE DEF T
  <2> QED BY <1>1, <1>2, NatSetInduction
<1> QED BY <1>3

\* The equations of Upto(S).
LEMMA UptoIs ==
    ASSUME NEW S
    PROVE  /\ Upto(S) \in [Nat -> Seq(Nat)] /\ Upto(S)[0] = <<>>
           /\ \A n \in Nat : Upto(S)[n + 1] = IF n + 1 \in S THEN Append(Upto(S)[n], n + 1) ELSE Upto(S)[n]
<1> DEFINE F(n) == CHOOSE f : Notes(f, S, n)
           h == [n \in Nat |-> F(n)[n]]
<1>1. \A n \in Nat : Notes(F(n), S, n)
  BY NotesExist
<1>2. \A n \in Nat : F(n)[n] \in Seq(Nat)
  <2> TAKE n \in Nat
  <2>1. Notes(F(n), S, n) /\ n \in 0 .. n
    BY <1>1
  <2> HIDE DEF F
  <2> QED BY <2>1 DEF Notes
<1>3. F(0)[0] = <<>>
  <2>1. Notes(F(0), S, 0)
    BY <1>1
  <2> HIDE DEF F
  <2> QED BY <2>1 DEF Notes
<1>4. ASSUME NEW n \in Nat PROVE F(n + 1)[n + 1] = Noted(F(n)[n], S, n + 1)
  <2>1. Notes(F(n), S, n) /\ Notes(F(n + 1), S, n + 1) /\ n + 1 \in Nat /\ n <= n + 1
    BY <1>1
  <2> HIDE DEF F
  <2>2. F(n)[n] = F(n + 1)[n]
    BY <2>1, NotesAgree
  <2>3. n + 1 \in 1 .. n + 1 /\ (n + 1) - 1 = n
    OBVIOUS
  <2> QED BY <2>1, <2>2, <2>3 DEF Notes
<1>5. /\ h \in [Nat -> Seq(Nat)] /\ h[0] = <<>>
      /\ \A n \in Nat : h[n + 1] = Noted(h[n], S, n + 1)
  <2> HIDE DEF F
  <2> QED BY <1>2, <1>3, <1>4
<1> HIDE DEF h
<1>6. h = [n \in Nat |-> IF n = 0 THEN <<>>
                         ELSE IF n \in S THEN Append(h[n - 1], n) ELSE h[n - 1]]
  <2> DEFINE k == [n \in Nat |-> IF n = 0 THEN <<>>
                         ELSE IF n \in S THEN Append(h[n - 1], n) ELSE h[n - 1]]
  <2>1. ASSUME NEW n \in Nat PROVE h[n] = k[n]
    <3>1. CASE n = 0
      BY <3>1, <1>5
    <3>2. CASE n # 0
      <4>1. n - 1 \in Nat /\ (n - 1) + 1 = n
        BY <3>2
      <4>2. h[n] = Noted(h[n - 1], S, n)
        BY <4>1, <1>5
      <4> QED BY <4>2, <3>2 DEF Noted
    <3> QED BY <3>1, <3>2
  <2> HIDE DEF k
  <2>2. DOMAIN k = Nat /\ k = [n \in Nat |-> k[n]]
    BY DEF k
  <2>3. h = [n \in Nat |-> h[n]]
    BY <1>5
  <2>4. h = k
    BY <2>1, <2>2, <2>3
  <2> QED BY <2>4 DEF k
<1>7. Upto(S) = CHOOSE u : u = [n \in Nat |-> IF n = 0 THEN <<>>
                         ELSE IF n \in S THEN Append(u[n - 1], n) ELSE u[n - 1]]
  BY DEF Upto
<1>8. PICK u : Upto(S) = u /\ u = [n \in Nat |-> IF n = 0 THEN <<>>
                         ELSE IF n \in S THEN Append(u[n - 1], n) ELSE u[n - 1]]
  BY <1>6, <1>7
<1>9. u[0] = <<>> /\ \A n \in Nat : u[n + 1] = IF n + 1 \in S THEN Append(u[n], n + 1) ELSE u[n]
  <2>1. u[0] = <<>>
    BY <1>8
  <2>2. ASSUME NEW n \in Nat PROVE u[n + 1] = IF n + 1 \in S THEN Append(u[n], n + 1) ELSE u[n]
    <3>1. n + 1 \in Nat /\ n + 1 # 0 /\ (n + 1) - 1 = n
      OBVIOUS
    <3> QED BY <3>1, <1>8
  <2> QED BY <2>1, <2>2
<1>10. \A n \in Nat : u[n] \in Seq(Nat)
  <2> DEFINE T == {n \in Nat : u[n] \in Seq(Nat)}
  <2>1. 0 \in T
    <3>1. <<>> \in Seq(Nat)
      OBVIOUS
    <3> QED BY <3>1, <1>9
  <2>2. ASSUME NEW n \in Nat, n \in T PROVE n + 1 \in T
    <3>1. u[n] \in Seq(Nat) /\ n + 1 \in Nat
      BY <2>2
    <3>2. Append(u[n], n + 1) \in Seq(Nat)
      BY <3>1
    <3>3. u[n + 1] = Append(u[n], n + 1) \/ u[n + 1] = u[n]
      BY <1>9
    <3>4. u[n + 1] \in Seq(Nat)
      BY <3>1, <3>2, <3>3
    <3> QED BY <3>1, <3>4
  <2>3. Nat \subseteq T
    <3> HIDE DEF T
    <3> QED BY <2>1, <2>2, NatSetInduction
  <2> QED BY <2>3
<1>11. u = [n \in Nat |-> u[n]]
  BY <1>8
<1>12. u \in [Nat -> Seq(Nat)]
  BY <1>10, <1>11
<1> QED BY <1>8, <1>9, <1>12

LEMMA UptoMembers ==
    ASSUME NEW S, NEW N \in Nat
    PROVE  /\ Upto(S)[N] \in Seq(Nat)
           /\ \A m \in 1 .. Len(Upto(S)[N]) : Upto(S)[N][m] \in S \cap (1 .. N)
<1> DEFINE u == Upto(S)
           T == {n \in Nat : \A m \in 1 .. Len(u[n]) : u[n][m] \in S \cap (1 .. n)}
<1>1. /\ u \in [Nat -> Seq(Nat)] /\ u[0] = <<>>
      /\ \A n \in Nat : u[n + 1] = IF n + 1 \in S THEN Append(u[n], n + 1) ELSE u[n]
  BY UptoIs
<1> HIDE DEF u
<1>2. 0 \in T
  BY <1>1
<1>3. ASSUME NEW n \in Nat, n \in T PROVE n + 1 \in T
  <2>1. u[n] \in Seq(Nat) /\ n + 1 \in Nat /\ \A m \in 1 .. Len(u[n]) : u[n][m] \in S \cap (1 .. n)
    BY <1>1, <1>3
  <2>2. CASE n + 1 \in S
    <3>1. u[n + 1] = Append(u[n], n + 1)
      BY <1>1, <2>2
    <3>2. ASSUME NEW m \in 1 .. Len(u[n + 1]) PROVE u[n + 1][m] \in S \cap (1 .. n + 1)
      <4>1. CASE m = Len(u[n]) + 1
        <5>1. u[n + 1][m] = n + 1
          BY <2>1, <3>1, <4>1
        <5> QED BY <5>1, <2>2
      <4>2. CASE m # Len(u[n]) + 1
        <5>1. m \in 1 .. Len(u[n]) /\ u[n + 1][m] = u[n][m]
          BY <2>1, <3>1, <4>2
        <5> QED BY <5>1, <2>1
      <4> QED BY <4>1, <4>2
    <3> QED BY <2>1, <3>2
  <2>3. CASE n + 1 \notin S
    <3>1. u[n + 1] = u[n]
      BY <1>1, <2>3
    <3> QED BY <2>1, <3>1
  <2> QED BY <2>2, <2>3
<1>4. Nat \subseteq T
  <2> HIDE DEF T
  <2> QED BY <1>2, <1>3, NatSetInduction
<1>5. N \in T
  BY <1>4
<1>6. u[N] \in Seq(Nat)
  BY <1>1
<1> QED BY <1>5, <1>6 DEF u

LEMMA UptoSkip ==
    ASSUME NEW S, NEW a \in Nat, NEW b \in Nat, a <= b, \A i \in a + 1 .. b : i \notin S
    PROVE  Upto(S)[b] = Upto(S)[a]
<1> DEFINE u == Upto(S)
           T == {n \in Nat : a + n <= b => u[a + n] = u[a]}
<1>1. \A n \in Nat : u[n + 1] = IF n + 1 \in S THEN Append(u[n], n + 1) ELSE u[n]
  BY UptoIs
<1> HIDE DEF u
<1>2. 0 \in T
  OBVIOUS
<1>3. ASSUME NEW n \in Nat, n \in T PROVE n + 1 \in T
  <2> SUFFICES ASSUME a + (n + 1) <= b PROVE u[a + (n + 1)] = u[a]
    OBVIOUS
  <2> DEFINE k == a + n
  <2>1. k \in Nat /\ k + 1 = a + (n + 1) /\ k + 1 \in a + 1 .. b /\ u[k] = u[a]
    BY <1>3
  <2> HIDE DEF k
  <2>2. u[k + 1] = u[k]
    BY <2>1, <1>1
  <2> QED BY <2>1, <2>2
<1>4. Nat \subseteq T
  <2> HIDE DEF T
  <2> QED BY <1>2, <1>3, NatSetInduction
<1>5. b - a \in T /\ a + (b - a) = b
  BY <1>4
<1> QED BY <1>5 DEF u

LEMMA UptoFirst ==
    ASSUME NEW S, NEW a \in Nat, NEW b \in Nat, a < b, a + 1 \in S, \A i \in a + 2 .. b : i \notin S
    PROVE  Upto(S)[b] = Append(Upto(S)[a], a + 1)
<1>1. Upto(S)[a + 1] = Append(Upto(S)[a], a + 1)
  BY UptoIs
<1> DEFINE c == a + 1
<1>2. c \in Nat /\ c <= b /\ \A i \in c + 1 .. b : i \notin S
  OBVIOUS
<1> HIDE DEF c
<1>3. Upto(S)[b] = Upto(S)[c]
  BY <1>2, UptoSkip
<1> QED BY <1>1, <1>3 DEF c

LEMMA UptoAgree ==
    ASSUME NEW S, NEW R, NEW N \in Nat, \A i \in 1 .. N : i \in S <=> i \in R
    PROVE  Upto(S)[N] = Upto(R)[N]
<1> DEFINE u == Upto(S)
           v == Upto(R)
           T == {n \in Nat : n <= N => u[n] = v[n]}
<1>1. /\ u[0] = <<>>
      /\ \A n \in Nat : u[n + 1] = IF n + 1 \in S THEN Append(u[n], n + 1) ELSE u[n]
  BY UptoIs
<1>2. /\ v[0] = <<>>
      /\ \A n \in Nat : v[n + 1] = IF n + 1 \in R THEN Append(v[n], n + 1) ELSE v[n]
  BY UptoIs
<1> HIDE DEF u, v
<1>3. 0 \in T
  BY <1>1, <1>2
<1>4. ASSUME NEW n \in Nat, n \in T PROVE n + 1 \in T
  <2> SUFFICES ASSUME n + 1 <= N PROVE u[n + 1] = v[n + 1]
    OBVIOUS
  <2>1. u[n] = v[n] /\ (n + 1 \in S <=> n + 1 \in R)
    BY <1>4
  <2> QED BY <2>1, <1>1, <1>2
<1>5. Nat \subseteq T
  <2> HIDE DEF T
  <2> QED BY <1>3, <1>4, NatSetInduction
<1>6. N \in T
  BY <1>5
<1> QED BY <1>6 DEF u, v

-----------------------------------------------------------------------------
(* The invariant. *)

\* The line of the action at place i has ended within the first c tokens.
Closed(s, i, c) == \E e \in i + 1 .. c : EndsLine(s, e)

\* The first n actions are those of the first n keywords among the c tokens,
\* whose lines have ended.
ReadTo(s, acts, c, n) ==
    LET starts == Upto(Starts(s))[c]
    IN \A m \in 1 .. n :
           Closed(s, starts[m], c) /\ acts[m] = WrittenAction(s, starts[m])

\* Outside the orchestrator block: all of them.
AllRead(s, acts, c) ==
    LET starts == Upto(Starts(s))[c]
    IN Len(acts) = Len(starts) /\ ReadTo(s, acts, c, Len(starts))

\* Between two actions: a line that has not ended goes as far as was read.
LineRead(s, acts, c) ==
    LET starts == Upto(Starts(s))[c]
    IN /\ Len(acts) = Len(starts)
       /\ \A m \in 1 .. Len(starts) :
             acts[m] = IF Closed(s, starts[m], c) THEN WrittenAction(s, starts[m])
                       ELSE WrittenLine(s, starts[m], c + 1)

\* An action whose keyword is token i, of its parts.
CountOf(s, i) ==
    CASE s[i].text.rest = "CREATE" -> NumberAt(s, i + 1)
      [] s[i].text.rest = "SEND" -> NumberAt(s, i + 6)
      [] OTHER -> Unset
RangeOf(s, i) ==
    IF s[i].text.rest = "CREATE" THEN [start |-> 0, second |-> NumberAt(s, i + 1)]
    ELSE [start |-> NumberAt(s, i + 1), second |-> NumberAt(s, i + 3)]
PacketOf(s, i) == IF s[i].text.rest = "SEND" THEN s[i + 4].text ELSE Word("")
OffsetOf(s, e) ==
    IF s[e - 2].text = Word("OFFSET") THEN Milliseconds(s[e - 1].text) ELSE DEFAULT_OFFSET_MS
ModsOf(s, i, e) ==
    LET options == Upto(OptionsIn(s, i, e))[e]
    IN [n \in DOMAIN options |-> WrittenOption(s, options[n])]
Line(s, i, ms, mods) ==
    [type |-> s[i].text.rest, count |-> CountOf(s, i), range |-> RangeOf(s, i), offset_ms |-> ms,
     packet_identifier |-> PacketOf(s, i), mods |-> mods]

\* Within an action: it is read up to here, and its offset is still to come.
HeadRead(s, acts, act, c) ==
    LET starts == Upto(Starts(s))[c]
        i == starts[Len(starts)]
    IN /\ Len(starts) = Len(acts) + 1 /\ ReadTo(s, acts, c, Len(acts))
       /\ ~Closed(s, i, c) /\ i < c
       /\ act = Line(s, i, Unset, ModsOf(s, i, c + 1))
       /\ s[c - 1].text # Word("OFFSET")

ActionsRead(s, where, acts, act, c) ==
    CASE where = "orchestrator" -> LineRead(s, acts, c)
      [] where \in {"options", "offset"} -> HeadRead(s, acts, act, c)
      [] OTHER -> AllRead(s, acts, c)

PacketsRead(s, map, c) == {<<p, map[p]>> : p \in DOMAIN map} = WrittenPackets(s, c)

KeysRead(s, set, c) == \A key \in DOMAIN Field : set[Field[key]] = WrittenSetting(s, c, key)

SettingsRead(s, set, c) ==
    /\ KeysRead(s, set, c)
    /\ set.endpoints = WrittenEndpoints(s, c)
    /\ PacketsRead(s, set.packet_identifiers, c)

\* The next token is inside a list just when the loop of that list reads it.
ListsKnown(s, where, c) ==
    /\ Inside(s, c + 1, "ENDPOINTS") <=> where = "endpoints"
    /\ Inside(s, c + 1, "PACKETS") <=> where = "packets"

Reading(s, c, where, set, acts, act) ==
    where # "rejected" =>
        /\ ActionsRead(s, where, acts, act, c)
        /\ SettingsRead(s, set, c)
        /\ ListsKnown(s, where, c)
        /\ where = "accepted" => c = Len(s)

SettingNames == DOMAIN NewSettings
Shaped(set) == set = [f \in SettingNames |-> set[f]]

ReadInv ==
    /\ Shaped(settings)
    /\ Reading(tokens, token_pos, at, settings, orchestrator.actions, action)

IInv == TypeOK /\ ReadInv

-----------------------------------------------------------------------------
(* Tokens that add nothing. *)

\* The tokens from c + 1 to d are none of these words.
Without(s, c, d, words) == \A j \in c + 1 .. d : ~Keyword(s, j, words)

LEMMA StartsKept ==
    ASSUME NEW s, NEW c \in Nat, NEW d \in Nat, c <= d, Without(s, c, d, ActionWords)
    PROVE  Upto(Starts(s))[d] = Upto(Starts(s))[c]
<1>1. \A i \in c + 1 .. d : i \notin Starts(s)
  BY DEF Without, Starts
<1> QED BY <1>1, UptoSkip

LEMMA ClosedKept ==
    ASSUME NEW s, NEW i \in Nat, NEW c \in Nat, NEW d \in Nat, c <= d, Closed(s, i, c)
    PROVE  Closed(s, i, d)
BY DEF Closed

LEMMA AllReadKept ==
    ASSUME NEW s, NEW acts, NEW c \in Nat, NEW d \in Nat, c <= d, Without(s, c, d, ActionWords),
           AllRead(s, acts, c)
    PROVE  AllRead(s, acts, d)
<1> DEFINE u == Upto(Starts(s))[c]
<1>1. Upto(Starts(s))[d] = u
  BY StartsKept
<1>2. u \in Seq(Nat)
  BY UptoMembers
<1>3. Len(acts) = Len(u) /\ \A m \in 1 .. Len(u) : Closed(s, u[m], c) /\ acts[m] = WrittenAction(s, u[m])
  BY DEF AllRead, ReadTo
<1> HIDE DEF u
<1>4. ASSUME NEW m \in 1 .. Len(u) PROVE Closed(s, u[m], d) /\ acts[m] = WrittenAction(s, u[m])
  <2>1. u[m] \in Nat
    BY <1>2
  <2> QED BY <2>1, <1>3, ClosedKept
<1> QED BY <1>1, <1>3, <1>4 DEF AllRead, ReadTo

LEMMA OutsideKept ==
    ASSUME NEW s, NEW word, NEW c \in Nat, NEW d \in Nat, c <= d, Without(s, c, d, {word}),
           ~Inside(s, c + 1, word)
    PROVE  \A j \in c + 1 .. d + 1 : ~Inside(s, j, word)
<1> SUFFICES ASSUME NEW j \in c + 1 .. d + 1, Inside(s, j, word) PROVE FALSE
  OBVIOUS
<1>1. PICK k \in 1 .. j - 1 :
        Keyword(s, k, {word}) /\ \A i \in k + 1 .. j - 1 : s[i].type \notin {"Keyword", "BraceClosed"}
  BY DEF Inside
<1>2. CASE k <= c
  <2>1. k \in 1 .. (c + 1) - 1 /\ \A i \in k + 1 .. (c + 1) - 1 : i \in k + 1 .. j - 1
    BY <1>2
  <2> QED BY <1>1, <2>1 DEF Inside
<1>3. CASE ~(k <= c)
  <2>1. k \in c + 1 .. d
    BY <1>3
  <2> QED BY <1>1, <2>1 DEF Without
<1> QED BY <1>2, <1>3

LEMMA KeysKept ==
    ASSUME NEW s, NEW set, NEW c \in Nat, NEW d \in Nat, c <= d, Without(s, c, d, DOMAIN Field),
           KeysRead(s, set, c)
    PROVE  KeysRead(s, set, d)
<1> SUFFICES ASSUME NEW key \in DOMAIN Field PROVE WrittenSetting(s, d, key) = WrittenSetting(s, c, key)
  BY DEF KeysRead
<1>1. \A i \in c + 1 .. d : i \notin Uses(s, key)
  BY DEF Without, Uses, Keyword
<1>2. Upto(Uses(s, key))[d] = Upto(Uses(s, key))[c]
  BY <1>1, UptoSkip
<1> QED BY <1>2 DEF WrittenSetting

LEMMA EndpointsKept ==
    ASSUME NEW s, NEW c \in Nat, NEW d \in Nat, c <= d,
           \A j \in c + 1 .. d : ~(s[j].type = "Value" /\ Inside(s, j, "ENDPOINTS"))
    PROVE  WrittenEndpoints(s, d) = WrittenEndpoints(s, c)
<1>1. \A i \in c + 1 .. d : i \notin EndpointsIn(s)
  BY DEF EndpointsIn
<1>2. Upto(EndpointsIn(s))[d] = Upto(EndpointsIn(s))[c]
  BY <1>1, UptoSkip
<1> QED BY <1>2 DEF WrittenEndpoints

LEMMA PacketsKept ==
    ASSUME NEW s, NEW c \in Nat, NEW d \in Nat, c <= d,
           \A j \in c + 1 .. d : ~(s[j].type = "Identity" /\ Inside(s, j, "PACKETS"))
    PROVE  WrittenPackets(s, d) = WrittenPackets(s, c)
<1> DEFINE P == PacketsIn(s)
<1>1. P \subseteq Nat /\ \A i \in c + 1 .. d : i \notin P
  BY DEF PacketsIn
<1> HIDE DEF P
<1>2. P \cap (1 .. d) = P \cap (1 .. c)
  BY <1>1
<1>3. ASSUME NEW i \in P \cap (1 .. c) PROVE P \cap (i + 1 .. d) = P \cap (i + 1 .. c)
  BY <1>1
<1>4. {i \in P \cap (1 .. d) : \A j \in P \cap (i + 1 .. d) : s[j].text # s[i].text}
      = {i \in P \cap (1 .. c) : \A j \in P \cap (i + 1 .. c) : s[j].text # s[i].text}
  BY <1>2, <1>3
<1> QED BY <1>4 DEF WrittenPackets, P

\* Tokens outside the lists that set nothing.
LEMMA SettingsKept ==
    ASSUME NEW s, NEW set, NEW c \in Nat, NEW d \in Nat, c <= d,
           Without(s, c, d, DOMAIN Field \cup {"ENDPOINTS", "PACKETS"}),
           ~Inside(s, c + 1, "ENDPOINTS"), ~Inside(s, c + 1, "PACKETS"), SettingsRead(s, set, c)
    PROVE  SettingsRead(s, set, d) /\ ~Inside(s, d + 1, "ENDPOINTS") /\ ~Inside(s, d + 1, "PACKETS")
<1>1. /\ Without(s, c, d, DOMAIN Field) /\ Without(s, c, d, {"ENDPOINTS"})
      /\ Without(s, c, d, {"PACKETS"})
  BY DEF Without, Keyword
<1>2. KeysRead(s, set, d)
  BY <1>1, KeysKept DEF SettingsRead
<1>3. \A j \in c + 1 .. d + 1 : ~Inside(s, j, "ENDPOINTS")
  BY <1>1, OutsideKept
<1>4. \A j \in c + 1 .. d + 1 : ~Inside(s, j, "PACKETS")
  BY <1>1, OutsideKept
<1>5. d + 1 \in c + 1 .. d + 1 /\ \A j \in c + 1 .. d : j \in c + 1 .. d + 1
  OBVIOUS
<1>6. WrittenEndpoints(s, d) = WrittenEndpoints(s, c)
  BY <1>3, <1>5, EndpointsKept
<1>7. WrittenPackets(s, d) = WrittenPackets(s, c)
  BY <1>4, <1>5, PacketsKept
<1> QED BY <1>2, <1>3, <1>4, <1>5, <1>6, <1>7 DEF SettingsRead, PacketsRead

\* What is inside a list after a token.
LEMMA InsideNext ==
    ASSUME NEW s, NEW i \in Nat \ {0}, NEW word
    PROVE  Inside(s, i + 1, word) <=>
               IF s[i].type \in {"Keyword", "BraceClosed"} THEN Keyword(s, i, {word})
               ELSE Inside(s, i, word)
<1>1. (i + 1) - 1 = i /\ i \in 1 .. i
  OBVIOUS
<1>2. CASE s[i].type \in {"Keyword", "BraceClosed"}
  <2>1. Keyword(s, i, {word}) => Inside(s, i + 1, word)
    BY <1>1 DEF Inside
  <2>2. ASSUME Inside(s, i + 1, word) PROVE Keyword(s, i, {word})
    <3>1. PICK k \in 1 .. i :
            Keyword(s, k, {word}) /\ \A j \in k + 1 .. i : s[j].type \notin {"Keyword", "BraceClosed"}
      BY <2>2, <1>1 DEF Inside
    <3>2. k = i
      <4>1. ~(k < i)
        <5>1. k < i => i \in k + 1 .. i
          OBVIOUS
        <5> QED BY <5>1, <3>1, <1>2
      <4> QED BY <4>1
    <3> QED BY <3>1, <3>2
  <2> QED BY <1>2, <2>1, <2>2
<1>3. CASE s[i].type \notin {"Keyword", "BraceClosed"}
  <2>1. ASSUME Inside(s, i, word) PROVE Inside(s, i + 1, word)
    <3>1. PICK k \in 1 .. i - 1 :
            Keyword(s, k, {word}) /\ \A j \in k + 1 .. i - 1 : s[j].type \notin {"Keyword", "BraceClosed"}
      BY <2>1 DEF Inside
    <3>2. k \in 1 .. i /\ \A j \in k + 1 .. i : s[j].type \notin {"Keyword", "BraceClosed"}
      BY <3>1, <1>3
    <3> QED BY <3>1, <3>2, <1>1 DEF Inside
  <2>2. ASSUME Inside(s, i + 1, word) PROVE Inside(s, i, word)
    <3>1. PICK k \in 1 .. i :
            Keyword(s, k, {word}) /\ \A j \in k + 1 .. i : s[j].type \notin {"Keyword", "BraceClosed"}
      BY <2>2, <1>1 DEF Inside
    <3>2. k # i
      BY <3>1, <1>3 DEF Keyword
    <3>3. k \in 1 .. i - 1 /\ \A j \in k + 1 .. i - 1 : j \in k + 1 .. i
      BY <3>2
    <3> QED BY <3>1, <3>3 DEF Inside
  <2> QED BY <1>3, <2>1, <2>2
<1> QED BY <1>2, <1>3

-----------------------------------------------------------------------------
(* Tokens that set something. *)

LEMMA FieldFacts ==
    /\ \A key \in DOMAIN Field : Field[key] \in SettingNames
    /\ \A key \in DOMAIN Field : Field[key] \notin {"identifier", "endpoints", "packet_identifiers"}
    /\ \A x, y \in DOMAIN Field : Field[x] = Field[y] => x = y
    /\ {"identifier", "endpoints", "packet_identifiers"} \subseteq SettingNames
<1>1. DOMAIN Field = {"SESSION", "HANDLER", "PORT", "HEADERSIZE", "BODYMAX", "SAMPLERATE", "SHARDS",
                      "READ", "REPEAT"}
  BY DEF Field
<1>2. /\ Field["SESSION"] = "session_protocol" /\ Field["HANDLER"] = "handler_value"
      /\ Field["PORT"] = "port" /\ Field["HEADERSIZE"] = "header_size"
      /\ Field["BODYMAX"] = "body_max" /\ Field["SAMPLERATE"] = "packet_sample_rate"
      /\ Field["SHARDS"] = "shards" /\ Field["READ"] = "read" /\ Field["REPEAT"] = "repeat"
  BY DEF Field
<1>3. SettingNames = {"identifier", "session_protocol", "handler_value", "header_size", "body_max",
                      "read", "repeat", "packet_sample_rate", "shards", "port", "endpoints",
                      "packet_identifiers"}
  BY DEF SettingNames, NewSettings
<1> QED BY <1>1, <1>2, <1>3

Put(set, name, value) == [set EXCEPT ![name] = value]

LEMMA Updated ==
    ASSUME NEW set, Shaped(set), NEW name \in SettingNames, NEW value
    PROVE  /\ Shaped(Put(set, name, value)) /\ Put(set, name, value)[name] = value
           /\ \A f \in SettingNames : f # name => Put(set, name, value)[f] = set[f]
<1> DEFINE new == Put(set, name, value)
<1>1. DOMAIN set = SettingNames
  <2> DEFINE g == [f \in SettingNames |-> set[f]]
  <2>1. set = g /\ DOMAIN g = SettingNames
    BY DEF Shaped
  <2> QED BY <2>1
<1>2. new = [f \in SettingNames |-> IF f = name THEN value ELSE set[f]]
  BY <1>1 DEF Put
<1> HIDE DEF new
<1>3. new[name] = value /\ \A f \in SettingNames : f # name => new[f] = set[f]
  BY <1>2
<1>4. [f \in SettingNames |-> new[f]] = [f \in SettingNames |-> IF f = name THEN value ELSE set[f]]
  BY <1>3
<1>5. Shaped(new)
  BY <1>2, <1>4 DEF Shaped
<1> QED BY <1>3, <1>5 DEF new

LEMMA SettingAdded ==
    ASSUME NEW s, NEW set, NEW c \in Nat, c + 3 <= Len(s), Len(s) \in Nat, NEW key \in DOMAIN Field,
           Keyword(s, c + 1, {key}), s[c + 2].type # "Keyword", s[c + 3].type # "Keyword",
           Shaped(set), SettingsRead(s, set, c),
           ~Inside(s, c + 1, "ENDPOINTS"), ~Inside(s, c + 1, "PACKETS"),
           NEW new, new = [set EXCEPT ![Field[key]] = SettingValue(key, s[c + 3].text)]
    PROVE  /\ Shaped(new) /\ SettingsRead(s, new, c + 3)
           /\ ~Inside(s, c + 4, "ENDPOINTS") /\ ~Inside(s, c + 4, "PACKETS")
<1> DEFINE value == SettingValue(key, s[c + 3].text)
           d == c + 3
<1>1. /\ Shaped(new) /\ new[Field[key]] = value
      /\ \A f \in SettingNames : f # Field[key] => new[f] = set[f]
  <2> DEFINE name == Field[key]
  <2>1. name \in SettingNames /\ new = Put(set, name, value)
    BY FieldFacts DEF Put
  <2> HIDE DEF value, name
  <2>2. name \in SettingNames /\ Shaped(set)
    BY <2>1
  <2>3. Shaped(Put(set, name, value))
    BY <2>2, Updated
  <2>4. Put(set, name, value)[name] = value
    BY <2>2, Updated
  <2>5. \A f \in SettingNames : f # name => Put(set, name, value)[f] = set[f]
    BY <2>2, Updated
  <2> QED BY <2>1, <2>3, <2>4, <2>5 DEF name
<1>2. d \in Nat /\ c <= d /\ c < d /\ d + 1 = c + 4 /\ \A j \in c + 1 .. d : j \in {c + 1, c + 2, c + 3}
  OBVIOUS
<1>3. s[c + 1].type = "Keyword" /\ s[c + 1].text.rest = key
  BY DEF Keyword
<1>4. key \notin {"ENDPOINTS", "PACKETS"}
  BY DEF Field
<1>5. Without(s, c, d, {"ENDPOINTS"}) /\ Without(s, c, d, {"PACKETS"})
  BY <1>2, <1>3, <1>4 DEF Without, Keyword
<1>6. \A j \in c + 1 .. d + 1 : ~Inside(s, j, "ENDPOINTS")
  BY <1>2, <1>5, OutsideKept
<1>7. \A j \in c + 1 .. d + 1 : ~Inside(s, j, "PACKETS")
  BY <1>2, <1>5, OutsideKept
<1>8. d + 1 \in c + 1 .. d + 1 /\ \A j \in c + 1 .. d : j \in c + 1 .. d + 1
  OBVIOUS
<1>9. WrittenEndpoints(s, d) = WrittenEndpoints(s, c)
  BY <1>2, <1>6, <1>8, EndpointsKept
<1>10. WrittenPackets(s, d) = WrittenPackets(s, c)
  BY <1>2, <1>7, <1>8, PacketsKept
<1>11. WrittenSetting(s, d, key) = value
  <2> DEFINE U == Uses(s, key)
             u == Upto(U)[c]
  <2>1. c + 1 \in U /\ \A i \in c + 2 .. d : i \notin U
    BY <1>2 DEF Uses, Keyword
  <2>2. Upto(U)[d] = Append(u, c + 1)
    <3> HIDE DEF U, d
    <3> QED BY <2>1, <1>2, UptoFirst
  <2>3. u \in Seq(Nat)
    BY UptoMembers
  <2> HIDE DEF u
  <2>4. Append(u, c + 1) # <<>> /\ Last(Append(u, c + 1)) = c + 1
    BY <2>3 DEF Last
  <2>5. (c + 1) + 2 = c + 3
    OBVIOUS
  <2> QED BY <2>2, <2>4, <2>5 DEF WrittenSetting
<1>12. ASSUME NEW k \in DOMAIN Field, k # key PROVE WrittenSetting(s, d, k) = WrittenSetting(s, c, k)
  <2>1. \A i \in c + 1 .. d : i \notin Uses(s, k)
    BY <1>2, <1>3, <1>12 DEF Uses, Keyword
  <2>2. Upto(Uses(s, k))[d] = Upto(Uses(s, k))[c]
    BY <1>2, <2>1, UptoSkip
  <2> QED BY <2>2 DEF WrittenSetting
<1>13. KeysRead(s, new, d)
  <2> SUFFICES ASSUME NEW k \in DOMAIN Field PROVE new[Field[k]] = WrittenSetting(s, d, k)
    BY DEF KeysRead
  <2>1. CASE k = key
    BY <2>1, <1>1, <1>11
  <2>2. CASE k # key
    <3>1. Field[k] # Field[key] /\ Field[k] \in SettingNames
      BY <2>2, FieldFacts
    <3>2. new[Field[k]] = set[Field[k]]
      BY <3>1, <1>1
    <3>3. set[Field[k]] = WrittenSetting(s, c, k)
      BY DEF SettingsRead, KeysRead
    <3> QED BY <2>2, <3>2, <3>3, <1>12
  <2> QED BY <2>1, <2>2
<1>14. new.endpoints = set.endpoints /\ new.packet_identifiers = set.packet_identifiers
  BY <1>1, FieldFacts
<1> QED BY <1>1, <1>2, <1>6, <1>7, <1>8, <1>9, <1>10, <1>13, <1>14 DEF SettingsRead, PacketsRead

\* The head of a list: its keyword and a brace.
LEMMA ListOpened ==
    ASSUME NEW s, NEW set, NEW c \in Nat, c + 2 <= Len(s), Len(s) \in Nat,
           NEW word \in {"ENDPOINTS", "PACKETS"}, Keyword(s, c + 1, {word}),
           s[c + 2].type = "BraceOpen", SettingsRead(s, set, c)
    PROVE  /\ SettingsRead(s, set, c + 2)
           /\ Inside(s, c + 3, "ENDPOINTS") <=> word = "ENDPOINTS"
           /\ Inside(s, c + 3, "PACKETS") <=> word = "PACKETS"
<1> DEFINE d == c + 2
<1>1. d \in Nat /\ c <= d /\ \A j \in c + 1 .. d : j \in {c + 1, c + 2}
  OBVIOUS
<1>2. s[c + 1].type = "Keyword" /\ s[c + 1].text.rest = word
  BY DEF Keyword
<1>3. Without(s, c, d, DOMAIN Field)
  BY <1>1, <1>2 DEF Without, Keyword, Field
<1>4. KeysRead(s, set, d)
  BY <1>1, <1>3, KeysKept DEF SettingsRead
<1>5. WrittenEndpoints(s, d) = WrittenEndpoints(s, c)
  BY <1>1, <1>2, EndpointsKept
<1>6. WrittenPackets(s, d) = WrittenPackets(s, c)
  BY <1>1, <1>2, PacketsKept
<1>7. ASSUME NEW w \in {"ENDPOINTS", "PACKETS"} PROVE Inside(s, c + 3, w) <=> w = word
  <2>1. c + 1 \in Nat \ {0} /\ c + 2 \in Nat \ {0} /\ (c + 1) + 1 = c + 2 /\ (c + 2) + 1 = c + 3
    OBVIOUS
  <2>2. Inside(s, c + 2, w) <=> Keyword(s, c + 1, {w})
    BY <2>1, <1>2, InsideNext
  <2>3. Inside(s, c + 3, w) <=> Inside(s, c + 2, w)
    BY <2>1, InsideNext
  <2> QED BY <1>2, <2>2, <2>3 DEF Keyword
<1> QED BY <1>4, <1>5, <1>6, <1>7 DEF SettingsRead, PacketsRead

\* The end of a list, or of a block.
LEMMA BraceRead ==
    ASSUME NEW s, NEW set, NEW c \in Nat, c + 1 <= Len(s), Len(s) \in Nat,
           s[c + 1].type = "BraceClosed", SettingsRead(s, set, c)
    PROVE  /\ SettingsRead(s, set, c + 1)
           /\ ~Inside(s, c + 2, "ENDPOINTS") /\ ~Inside(s, c + 2, "PACKETS")
<1> DEFINE d == c + 1
<1>1. d \in Nat /\ c <= d /\ \A j \in c + 1 .. d : j = c + 1
  OBVIOUS
<1>3. Without(s, c, d, DOMAIN Field)
  BY <1>1 DEF Without, Keyword
<1>4. KeysRead(s, set, d)
  BY <1>1, <1>3, KeysKept DEF SettingsRead
<1>5. WrittenEndpoints(s, d) = WrittenEndpoints(s, c)
  BY <1>1, EndpointsKept
<1>6. WrittenPackets(s, d) = WrittenPackets(s, c)
  BY <1>1, PacketsKept
<1>7. ASSUME NEW w PROVE ~Inside(s, c + 2, w)
  <2>1. c + 1 \in Nat \ {0} /\ (c + 1) + 1 = c + 2
    OBVIOUS
  <2>2. Inside(s, c + 2, w) <=> Keyword(s, c + 1, {w})
    BY <2>1, InsideNext
  <2> QED BY <2>2 DEF Keyword
<1> QED BY <1>4, <1>5, <1>6, <1>7 DEF SettingsRead, PacketsRead

\* Tokens that neither open nor close a list.
LEMMA InsideKept ==
    ASSUME NEW s, NEW word, NEW c \in Nat, NEW d \in Nat, c <= d,
           \A j \in c + 1 .. d : s[j].type \notin {"Keyword", "BraceClosed"}
    PROVE  \A j \in c + 1 .. d + 1 : Inside(s, j, word) <=> Inside(s, c + 1, word)
<1>1. Without(s, c, d, {word})
  BY DEF Without, Keyword
<1>2. ASSUME ~Inside(s, c + 1, word) PROVE \A j \in c + 1 .. d + 1 : ~Inside(s, j, word)
  BY <1>1, <1>2, OutsideKept
<1>3. ASSUME Inside(s, c + 1, word), NEW j \in c + 1 .. d + 1 PROVE Inside(s, j, word)
  <2>1. PICK k \in 1 .. (c + 1) - 1 :
          /\ Keyword(s, k, {word})
          /\ \A i \in k + 1 .. (c + 1) - 1 : s[i].type \notin {"Keyword", "BraceClosed"}
    BY <1>3 DEF Inside
  <2>2. k \in 1 .. j - 1
    OBVIOUS
  <2>3. ASSUME NEW i \in k + 1 .. j - 1 PROVE s[i].type \notin {"Keyword", "BraceClosed"}
    <3>1. i \in k + 1 .. (c + 1) - 1 \/ i \in c + 1 .. d
      OBVIOUS
    <3> QED BY <3>1, <2>1
  <2> QED BY <2>1, <2>2, <2>3 DEF Inside
<1> QED BY <1>2, <1>3

LEMMA EndpointAdded ==
    ASSUME NEW s, NEW set, NEW c \in Nat, NEW d \in {c + 1, c + 2}, d <= Len(s), Len(s) \in Nat,
           s[c + 1].type = "Value", d = c + 2 => s[c + 2].type = "Operator",
           Shaped(set), SettingsRead(s, set, c),
           Inside(s, c + 1, "ENDPOINTS"), ~Inside(s, c + 1, "PACKETS"), set.endpoints \in Seq(Text),
           NEW new, new = [set EXCEPT !.endpoints = Append(set.endpoints, s[c + 1].text)]
    PROVE  /\ Shaped(new) /\ SettingsRead(s, new, d)
           /\ Inside(s, d + 1, "ENDPOINTS") /\ ~Inside(s, d + 1, "PACKETS")
<1> DEFINE list == Append(set.endpoints, s[c + 1].text)
<1>1. /\ d \in Nat /\ c <= d /\ c < d /\ \A j \in c + 1 .. d : j \in {c + 1, c + 2}
      /\ \A j \in c + 1 .. d : j = c + 2 => d = c + 2
      /\ c + 1 \in 1 .. Len(s) /\ d + 1 \in c + 1 .. d + 1
      /\ \A j \in c + 1 .. d : j \in c + 1 .. d + 1
  OBVIOUS
<1>2. \A j \in c + 1 .. d : s[j].type \in {"Value", "Operator"}
  BY <1>1
<1>3. \A j \in c + 1 .. d + 1 : Inside(s, j, "ENDPOINTS") <=> Inside(s, c + 1, "ENDPOINTS")
  BY <1>1, <1>2, InsideKept
<1>4. \A j \in c + 1 .. d + 1 : Inside(s, j, "PACKETS") <=> Inside(s, c + 1, "PACKETS")
  BY <1>1, <1>2, InsideKept
<1>5. /\ Shaped(new) /\ new.endpoints = list
      /\ \A f \in SettingNames : f # "endpoints" => new[f] = set[f]
  <2>1. "endpoints" \in SettingNames /\ new = Put(set, "endpoints", list)
    BY FieldFacts DEF Put
  <2> HIDE DEF list
  <2>2. "endpoints" \in SettingNames /\ Shaped(set)
    BY <2>1
  <2>3. Shaped(Put(set, "endpoints", list))
    BY <2>2, Updated
  <2>4. Put(set, "endpoints", list)["endpoints"] = list
    BY <2>2, Updated
  <2>5. \A f \in SettingNames : f # "endpoints" => Put(set, "endpoints", list)[f] = set[f]
    BY <2>2, Updated
  <2> QED BY <2>1, <2>3, <2>4, <2>5
<1>6. Without(s, c, d, DOMAIN Field)
  BY <1>2 DEF Without, Keyword
<1>7. KeysRead(s, set, d)
  BY <1>1, <1>6, KeysKept DEF SettingsRead
<1>8. KeysRead(s, new, d)
  BY <1>5, <1>7, FieldFacts DEF KeysRead
<1>9. WrittenPackets(s, d) = WrittenPackets(s, c)
  BY <1>1, <1>4, PacketsKept
<1>10. WrittenEndpoints(s, d) = list
  <2> DEFINE E == EndpointsIn(s)
             u == Upto(E)[c]
             t == Append(u, c + 1)
             L == Len(u)
  <2>1. c + 1 \in E
    BY <1>1 DEF EndpointsIn
  <2>2. \A i \in c + 2 .. d : i \notin E
    <3>1. \A i \in c + 2 .. d : i = c + 2 /\ d = c + 2
      OBVIOUS
    <3> QED BY <3>1 DEF EndpointsIn
  <2>3. Upto(E)[d] = t
    <3> HIDE DEF E
    <3> QED BY <2>1, <2>2, <1>1, UptoFirst
  <2>4. u \in Seq(Nat)
    BY UptoMembers
  <2>5. set.endpoints = [m \in DOMAIN u |-> s[u[m]].text]
    BY DEF SettingsRead, WrittenEndpoints
  <2> HIDE DEF u
  <2>6. /\ L \in Nat /\ DOMAIN u = 1 .. L /\ DOMAIN t = 1 .. L + 1 /\ t[L + 1] = c + 1
        /\ \A m \in 1 .. L : t[m] = u[m]
    BY <2>4
  <2>7. Len(set.endpoints) = L /\ \A m \in 1 .. L : set.endpoints[m] = s[u[m]].text
    <3>1. DOMAIN set.endpoints = 1 .. L
      BY <2>5, <2>6
    <3> QED BY <3>1, <2>5, <2>6
  <2>8. /\ list = [m \in 1 .. L + 1 |-> list[m]] /\ list[L + 1] = s[c + 1].text
        /\ \A m \in 1 .. L : list[m] = set.endpoints[m]
    <3>1. list = [m \in 1 .. Len(set.endpoints) + 1 |->
                    IF m = Len(set.endpoints) + 1 THEN s[c + 1].text ELSE set.endpoints[m]]
      OBVIOUS
    <3> HIDE DEF list
    <3> QED BY <3>1, <2>7, <2>6
  <2> HIDE DEF list, t
  <2>9. ASSUME NEW m \in 1 .. L + 1 PROVE list[m] = s[t[m]].text
    <3>1. CASE m = L + 1
      BY <3>1, <2>6, <2>8
    <3>2. CASE m # L + 1
      <4>1. m \in 1 .. L
        BY <3>2, <2>6
      <4> QED BY <4>1, <2>6, <2>7, <2>8
    <3> QED BY <3>1, <3>2
  <2>10. list = [m \in 1 .. L + 1 |-> s[t[m]].text]
    BY <2>8, <2>9
  <2> QED BY <2>3, <2>6, <2>10 DEF WrittenEndpoints
<1>11. new.packet_identifiers = set.packet_identifiers
  BY <1>5, FieldFacts
<1> QED BY <1>1, <1>3, <1>4, <1>5, <1>8, <1>9, <1>10, <1>11 DEF SettingsRead, PacketsRead

\* The last packets of their names, before and after one more.
LEMMA PacketWritten ==
    ASSUME NEW s, NEW c \in Nat, NEW d \in Nat, c < d, c + 1 \in PacketsIn(s),
           \A i \in c + 2 .. d : i \notin PacketsIn(s)
    PROVE  \A x : x \in WrittenPackets(s, d) <=>
              \/ x = <<s[c + 1].text, s[c + 3].text>>
              \/ x \in WrittenPackets(s, c) /\ x[1] # s[c + 1].text
<1> DEFINE P == PacketsIn(s)
           I(n) == {i \in P \cap (1 .. n) : \A j \in P \cap (i + 1 .. n) : s[j].text # s[i].text}
           m == c + 1
<1>1. P \subseteq Nat
  BY DEF PacketsIn
<1>2. \A n : WrittenPackets(s, n) = {<<s[i].text, s[i + 2].text>> : i \in I(n)}
  BY DEF WrittenPackets
<1>3. m \in P /\ \A i \in P : i \in 1 .. d <=> (i \in 1 .. c \/ i = m)
  <2>1. \A i \in P : i \in 1 .. d => (i \in 1 .. c \/ i = m)
    <3> TAKE i \in P
    <3>1. i \in Nat /\ i \notin c + 2 .. d
      BY <1>1
    <3> QED BY <3>1
  <2> QED BY <2>1
<1> HIDE DEF P
<1>4. m \in I(d)
  <2>1. \A j \in P \cap (m + 1 .. d) : FALSE
    BY <1>1, <1>3
  <2> QED BY <1>3, <2>1
<1>5. \A i \in 1 .. c : i \in I(d) <=> i \in I(c) /\ s[i].text # s[m].text
  <2> TAKE i \in 1 .. c
  <2>1. \A j \in P : j \in i + 1 .. d <=> (j \in i + 1 .. c \/ j = m)
    BY <1>1, <1>3
  <2>2. \A j \in P \cap (i + 1 .. d) : j \in P \cap (i + 1 .. c) \/ j = m
    BY <2>1
  <2>3. m \in P \cap (i + 1 .. d) /\ \A j \in P \cap (i + 1 .. c) : j \in P \cap (i + 1 .. d)
    BY <1>3, <2>1
  <2>4. i \in P \cap (1 .. d) <=> i \in P \cap (1 .. c)
    OBVIOUS
  <2> QED BY <2>2, <2>3, <2>4
<1>6. \A i \in I(d) : i \in 1 .. c \/ i = m
  BY <1>3
<1>7. \A i \in I(c) : i \in 1 .. c
  OBVIOUS
<1>8. m + 2 = c + 3
  OBVIOUS
<1> HIDE DEF I
<1> SUFFICES ASSUME NEW x
             PROVE  x \in WrittenPackets(s, d) <=>
                       \/ x = <<s[m].text, s[m + 2].text>>
                       \/ x \in WrittenPackets(s, c) /\ x[1] # s[m].text
  BY <1>8
<1> HIDE DEF m
<1>9. ASSUME x \in WrittenPackets(s, d)
      PROVE  x = <<s[m].text, s[m + 2].text>> \/ (x \in WrittenPackets(s, c) /\ x[1] # s[m].text)
  <2>1. PICK i \in I(d) : x = <<s[i].text, s[i + 2].text>>
    BY <1>9, <1>2
  <2>2. CASE i = m
    BY <2>1, <2>2
  <2>3. CASE i \in 1 .. c
    <3>1. i \in I(c) /\ s[i].text # s[m].text
      BY <2>3, <1>5
    <3>2. x \in WrittenPackets(s, c)
      BY <3>1, <2>1, <1>2
    <3> QED BY <3>1, <3>2, <2>1
  <2> QED BY <2>2, <2>3, <1>6
<1>10. ASSUME x = <<s[m].text, s[m + 2].text>> PROVE x \in WrittenPackets(s, d)
  BY <1>10, <1>4, <1>2
<1>11. ASSUME x \in WrittenPackets(s, c), x[1] # s[m].text PROVE x \in WrittenPackets(s, d)
  <2>1. PICK i \in I(c) : x = <<s[i].text, s[i + 2].text>>
    BY <1>11, <1>2
  <2>2. i \in I(d)
    BY <2>1, <1>11, <1>5, <1>7
  <2> QED BY <2>1, <2>2, <1>2
<1> QED BY <1>9, <1>10, <1>11

LEMMA PacketAdded ==
    ASSUME NEW s, NEW set, NEW c \in Nat, NEW d \in {c + 3, c + 4}, d <= Len(s), Len(s) \in Nat,
           s[c + 1].type = "Identity", s[c + 2].type = "Operator", s[c + 3].type = "Value",
           d = c + 4 => s[c + 4].type = "Operator",
           Shaped(set), SettingsRead(s, set, c),
           ~Inside(s, c + 1, "ENDPOINTS"), Inside(s, c + 1, "PACKETS"),
           NEW new, new = [set EXCEPT !.packet_identifiers =
                              Mapped(set.packet_identifiers, s[c + 1].text, s[c + 3].text)]
    PROVE  /\ Shaped(new) /\ SettingsRead(s, new, d)
           /\ ~Inside(s, d + 1, "ENDPOINTS") /\ Inside(s, d + 1, "PACKETS")
<1> DEFINE map == set.packet_identifiers
           k == s[c + 1].text
           v == s[c + 3].text
           added == Mapped(map, k, v)
<1>1. /\ d \in Nat /\ c <= d /\ c < d /\ \A j \in c + 1 .. d : j \in {c + 1, c + 2, c + 3, c + 4}
      /\ \A j \in c + 1 .. d : j = c + 4 => d = c + 4
      /\ c + 1 \in 1 .. Len(s) /\ d + 1 \in c + 1 .. d + 1
      /\ \A j \in c + 1 .. d : j \in c + 1 .. d + 1
  OBVIOUS
<1>2. \A j \in c + 1 .. d : s[j].type \in {"Identity", "Value", "Operator"}
  BY <1>1
<1>3. \A j \in c + 1 .. d + 1 : Inside(s, j, "ENDPOINTS") <=> Inside(s, c + 1, "ENDPOINTS")
  BY <1>1, <1>2, InsideKept
<1>4. \A j \in c + 1 .. d + 1 : Inside(s, j, "PACKETS") <=> Inside(s, c + 1, "PACKETS")
  BY <1>1, <1>2, InsideKept
<1>5. /\ Shaped(new) /\ new.packet_identifiers = added
      /\ \A f \in SettingNames : f # "packet_identifiers" => new[f] = set[f]
  <2> DEFINE name == "packet_identifiers"
  <2>1. name \in SettingNames /\ new = Put(set, name, added)
    BY FieldFacts DEF Put
  <2> HIDE DEF added
  <2>2. name \in SettingNames /\ Shaped(set)
    BY <2>1
  <2>3. Shaped(Put(set, name, added))
    BY <2>2, Updated
  <2>4. Put(set, name, added)[name] = added
    BY <2>2, Updated
  <2>5. \A f \in SettingNames : f # name => Put(set, name, added)[f] = set[f]
    BY <2>2, Updated
  <2> QED BY <2>1, <2>3, <2>4, <2>5
<1>6. Without(s, c, d, DOMAIN Field)
  BY <1>2 DEF Without, Keyword
<1>7. KeysRead(s, set, d)
  BY <1>1, <1>6, KeysKept DEF SettingsRead
<1>8. KeysRead(s, new, d)
  BY <1>5, <1>7, FieldFacts DEF KeysRead
<1>9. WrittenEndpoints(s, d) = WrittenEndpoints(s, c)
  BY <1>1, <1>3, EndpointsKept
<1>10. c + 1 \in PacketsIn(s) /\ \A i \in c + 2 .. d : i \notin PacketsIn(s)
  <2>1. \A i \in c + 2 .. d : i \in {c + 2, c + 3, c + 4} /\ (i = c + 4 => d = c + 4)
    OBVIOUS
  <2> QED BY <1>1, <2>1 DEF PacketsIn
<1>11. \A x : x \in WrittenPackets(s, d) <=> (x = <<k, v>> \/ (x \in WrittenPackets(s, c) /\ x[1] # k))
  BY <1>1, <1>10, PacketWritten
<1>12. /\ DOMAIN added = {k} \cup DOMAIN map /\ added[k] = v
       /\ \A p \in DOMAIN map : p # k => added[p] = map[p]
  <2> HIDE DEF k, v, map
  <2> QED BY DEF Mapped
<1>13. WrittenPackets(s, c) = {<<p, map[p]>> : p \in DOMAIN map}
  BY DEF SettingsRead, PacketsRead
<1>14. {<<p, added[p]>> : p \in DOMAIN added} = WrittenPackets(s, d)
  <2> HIDE DEF added, map, k, v
  <2>1. ASSUME NEW x \in WrittenPackets(s, d) PROVE x \in {<<p, added[p]>> : p \in DOMAIN added}
    <3>1. CASE x = <<k, v>>
      BY <3>1, <1>12
    <3>2. CASE x \in WrittenPackets(s, c) /\ x[1] # k
      <4>1. PICK p \in DOMAIN map : x = <<p, map[p]>>
        BY <3>2, <1>13
      <4>2. p # k
        BY <3>2, <4>1
      <4> QED BY <4>1, <4>2, <1>12
    <3> QED BY <3>1, <3>2, <1>11
  <2>2. ASSUME NEW p \in DOMAIN added PROVE <<p, added[p]>> \in WrittenPackets(s, d)
    <3>1. CASE p = k
      BY <3>1, <1>11, <1>12
    <3>2. CASE p # k
      <4>1. p \in DOMAIN map /\ added[p] = map[p]
        BY <3>2, <1>12
      <4>2. <<p, map[p]>> \in WrittenPackets(s, c) /\ <<p, map[p]>>[1] = p
        BY <4>1, <1>13
      <4> QED BY <3>2, <4>1, <4>2, <1>11
    <3> QED BY <3>1, <3>2
  <2> QED BY <2>1, <2>2
<1>15. new.endpoints = set.endpoints
  BY <1>5, FieldFacts
<1> QED BY <1>1, <1>3, <1>4, <1>5, <1>8, <1>9, <1>14, <1>15 DEF SettingsRead, PacketsRead

-----------------------------------------------------------------------------
(* The lines of the actions. *)

LEMMA LineParts ==
    ASSUME NEW s, NEW i, NEW e
    PROVE  WrittenLine(s, i, e) = Line(s, i, OffsetOf(s, e), ModsOf(s, i, e))
BY DEF WrittenLine, Line, CountOf, RangeOf, PacketOf, OffsetOf, ModsOf

LEMMA LineChanged ==
    ASSUME NEW s, NEW i, NEW x, NEW y, NEW m, NEW n
    PROVE  /\ [Line(s, i, x, m) EXCEPT !.offset_ms = y] = Line(s, i, y, m)
           /\ [Line(s, i, x, m) EXCEPT !.mods = n] = Line(s, i, x, n)
           /\ Line(s, i, x, m).mods = m
BY DEF Line

LEMMA LineEndIs ==
    ASSUME NEW s, NEW i \in Nat, Len(s) \in Nat, NEW e \in i + 1 .. Len(s), EndsLine(s, e),
           \A j \in i + 1 .. e - 1 : ~EndsLine(s, j)
    PROVE  LineEnd(s, i) = e
<1> DEFINE Q(x) == EndsLine(s, x) /\ \A j \in i + 1 .. x - 1 : ~EndsLine(s, j)
<1>1. Q(e)
  OBVIOUS
<1>2. ASSUME NEW x \in i + 1 .. Len(s), Q(x) PROVE x = e
  <2>1. ~(x < e)
    <3>1. x < e => x \in i + 1 .. e - 1
      OBVIOUS
    <3> QED BY <3>1, <1>2
  <2>2. ~(e < x)
    <3>1. e < x => e \in i + 1 .. x - 1
      OBVIOUS
    <3> QED BY <3>1, <1>2
  <2> QED BY <2>1, <2>2
<1>3. LineEnd(s, i) = CHOOSE x \in i + 1 .. Len(s) : Q(x)
  BY DEF LineEnd
<1> HIDE DEF Q
<1> QED BY <1>1, <1>2, <1>3

\* A token that ends a line ends the one that was left open.
LEMMA LineCloses ==
    ASSUME NEW s, NEW acts, NEW c \in Nat, Len(s) \in Nat, c + 1 <= Len(s), EndsLine(s, c + 1),
           LineRead(s, acts, c), NEW m \in 1 .. Len(Upto(Starts(s))[c])
    PROVE  /\ Closed(s, Upto(Starts(s))[c][m], c + 1)
           /\ acts[m] = WrittenAction(s, Upto(Starts(s))[c][m])
<1> DEFINE i == Upto(Starts(s))[c][m]
<1>1. i \in 1 .. c
  BY UptoMembers
<1>2. acts[m] = IF Closed(s, i, c) THEN WrittenAction(s, i) ELSE WrittenLine(s, i, c + 1)
  BY DEF LineRead
<1> HIDE DEF i
<1>3. c + 1 \in i + 1 .. c + 1 /\ c + 1 \in i + 1 .. Len(s) /\ i \in Nat
  BY <1>1
<1>4. Closed(s, i, c + 1)
  BY <1>3 DEF Closed
<1>5. CASE ~Closed(s, i, c)
  <2>1. \A j \in i + 1 .. (c + 1) - 1 : ~EndsLine(s, j)
    BY <1>5 DEF Closed
  <2>2. LineEnd(s, i) = c + 1
    BY <1>3, <2>1, LineEndIs
  <2> QED BY <1>2, <1>4, <1>5, <2>2 DEF WrittenAction, i
<1>6. CASE Closed(s, i, c)
  BY <1>2, <1>4, <1>6 DEF i
<1> QED BY <1>5, <1>6

\* The end of the block.
LEMMA LinesEnd ==
    ASSUME NEW s, NEW acts, NEW c \in Nat, Len(s) \in Nat, c + 1 <= Len(s),
           s[c + 1].type = "BraceClosed", LineRead(s, acts, c)
    PROVE  AllRead(s, acts, c + 1)
<1> DEFINE u == Upto(Starts(s))[c]
<1>1. EndsLine(s, c + 1)
  BY DEF EndsLine
<1>2. Without(s, c, c + 1, ActionWords)
  <2>1. \A j \in c + 1 .. c + 1 : j = c + 1
    OBVIOUS
  <2> QED BY <2>1 DEF Without, Keyword
<1>3. Upto(Starts(s))[c + 1] = u
  BY <1>2, StartsKept
<1>4. \A m \in 1 .. Len(u) : Closed(s, u[m], c + 1) /\ acts[m] = WrittenAction(s, u[m])
  BY <1>1, LineCloses
<1>5. Len(acts) = Len(u)
  BY DEF LineRead
<1> HIDE DEF u
<1> QED BY <1>3, <1>4, <1>5 DEF AllRead, ReadTo

LEMMA NoOptions ==
    ASSUME NEW s, NEW i \in Nat, NEW e \in Nat, \A j \in i + 1 .. e - 1 : ~Keyword(s, j, {"COUNTER", "TIMESTAMP"})
    PROVE  ModsOf(s, i, e) = <<>>
<1> DEFINE O == OptionsIn(s, i, e)
<1>1. \A j \in 0 + 1 .. e : j \notin O
  BY DEF OptionsIn
<1>2. Upto(O)[e] = Upto(O)[0]
  <2> HIDE DEF O
  <2> QED BY <1>1, UptoSkip
<1>3. Upto(O)[e] = <<>>
  BY <1>2, UptoIs
<1> QED BY <1>3 DEF ModsOf

\* The keyword of an action and what belongs to it.
LEMMA HeadBegun ==
    ASSUME NEW s, NEW acts, NEW act, NEW c \in Nat, NEW d \in Nat, Len(s) \in Nat,
           c + 2 <= d, d <= Len(s), Keyword(s, c + 1, ActionWords),
           \A j \in c + 2 .. d : ~EndsLine(s, j) /\ ~Keyword(s, j, {"COUNTER", "TIMESTAMP"}),
           LineRead(s, acts, c), s[d - 1].text # Word("OFFSET"),
           act = Line(s, c + 1, Unset, <<>>)
    PROVE  HeadRead(s, acts, act, d)
<1> DEFINE u == Upto(Starts(s))[c]
           t == Append(u, c + 1)
           L == Len(u)
<1>1. EndsLine(s, c + 1)
  BY DEF EndsLine
<1>2. Upto(Starts(s))[d] = t
  <2>1. c + 1 \in Starts(s) /\ \A j \in c + 2 .. d : j \notin Starts(s)
    BY DEF Starts, EndsLine
  <2> QED BY <2>1, UptoFirst
<1>3. u \in Seq(Nat) /\ \A m \in 1 .. Len(u) : u[m] \in 1 .. c
  BY UptoMembers
<1>4. \A m \in 1 .. L : Closed(s, u[m], c + 1) /\ acts[m] = WrittenAction(s, u[m])
  BY <1>1, LineCloses
<1>5. Len(acts) = L
  BY DEF LineRead
<1> HIDE DEF u
<1>6. L \in Nat /\ Len(t) = L + 1 /\ t[L + 1] = c + 1 /\ \A m \in 1 .. L : t[m] = u[m]
  BY <1>3
<1>7. ASSUME NEW m \in 1 .. L PROVE Closed(s, t[m], d) /\ acts[m] = WrittenAction(s, t[m])
  <2>1. t[m] = u[m] /\ u[m] \in Nat /\ c + 1 \in Nat /\ c + 1 <= d
    BY <1>3, <1>6
  <2> QED BY <2>1, <1>4, ClosedKept
<1>8. ~Closed(s, c + 1, d)
  <2>1. (c + 1) + 1 = c + 2
    OBVIOUS
  <2> QED BY <2>1 DEF Closed
<1>9. ModsOf(s, c + 1, d + 1) = <<>>
  <2>1. \A j \in (c + 1) + 1 .. (d + 1) - 1 : j \in c + 2 .. d
    OBVIOUS
  <2> QED BY <2>1, NoOptions
<1> HIDE DEF t, L
<1>10. ReadTo(s, acts, d, L)
  BY <1>2, <1>7 DEF ReadTo
<1> QED BY <1>2, <1>5, <1>6, <1>8, <1>9, <1>10 DEF HeadRead

\* The options up to e do not change with what comes after them.
LEMMA ModsKept ==
    ASSUME NEW s, NEW i \in Nat, NEW c \in Nat, NEW d \in Nat, c <= d,
           \A j \in c + 1 .. d : ~Keyword(s, j, {"COUNTER", "TIMESTAMP"})
    PROVE  ModsOf(s, i, d + 1) = ModsOf(s, i, c + 1)
<1> DEFINE O == OptionsIn(s, i, c + 1)
           N == OptionsIn(s, i, d + 1)
<1>1. N = O
  BY DEF OptionsIn
<1>2. \A j \in (c + 1) + 1 .. d + 1 : j \notin O
  BY DEF OptionsIn
<1>3. c + 1 \in Nat /\ d + 1 \in Nat /\ c + 1 <= d + 1
  OBVIOUS
<1>4. Upto(O)[d + 1] = Upto(O)[c + 1]
  <2> HIDE DEF O
  <2> QED BY <1>2, <1>3, UptoSkip
<1> QED BY <1>1, <1>4 DEF ModsOf

LEMMA AppendIs ==
    ASSUME NEW T, NEW q \in Seq(T), NEW e
    PROVE  Append(q, e) = [n \in 1 .. Len(q) + 1 |-> IF n = Len(q) + 1 THEN e ELSE q[n]]
<1> DEFINE R == T \cup {e}
           a == Append(q, e)
           L == Len(q)
<1>1. q \in Seq(R) /\ e \in R
  OBVIOUS
<1> HIDE DEF R
<1>2. a \in Seq(R) /\ L \in Nat /\ Len(a) = L + 1
  BY <1>1
<1>3. \A n \in 1 .. L + 1 : a[n] = IF n = L + 1 THEN e ELSE q[n]
  BY <1>1
<1> HIDE DEF a
<1>4. a = [n \in 1 .. L + 1 |-> a[n]]
  BY <1>2
<1> HIDE DEF L
<1>5. a = [n \in 1 .. L + 1 |-> IF n = L + 1 THEN e ELSE q[n]]
  BY <1>3, <1>4
<1> QED BY <1>5 DEF a, L

LEMMA ModsAdded ==
    ASSUME NEW s, NEW i \in Nat, NEW c \in Nat, NEW d \in Nat, i <= c, c < d,
           Keyword(s, c + 1, {"COUNTER", "TIMESTAMP"}),
           \A j \in c + 2 .. d : ~Keyword(s, j, {"COUNTER", "TIMESTAMP"})
    PROVE  /\ ModsOf(s, i, c + 1) \in Seq({WrittenOption(s, j) : j \in Nat})
           /\ ModsOf(s, i, d + 1) = Append(ModsOf(s, i, c + 1), WrittenOption(s, c + 1))
<1> DEFINE O == OptionsIn(s, i, c + 1)
           N == OptionsIn(s, i, d + 1)
           u == Upto(O)[c + 1]
           t == Append(u, c + 1)
           L == Len(u)
           opt == WrittenOption(s, c + 1)
           mods == ModsOf(s, i, c + 1)
<1>1. c + 1 \in N /\ \A j \in c + 2 .. d + 1 : j \notin N
  BY DEF OptionsIn
<1>2. \A j \in 1 .. c : j \in N <=> j \in O
  BY DEF OptionsIn
<1>3. \A j \in c + 1 .. c + 1 : j \notin O
  BY DEF OptionsIn
<1>4. Upto(N)[d + 1] = t
  <2> HIDE DEF O, N
  <2>1. c + 1 \in Nat /\ d + 1 \in Nat /\ c <= c + 1 /\ c < d + 1
    OBVIOUS
  <2>2. Upto(N)[d + 1] = Append(Upto(N)[c], c + 1)
    BY <1>1, <2>1, UptoFirst
  <2>3. Upto(N)[c] = Upto(O)[c]
    BY <1>2, UptoAgree
  <2>4. Upto(O)[c + 1] = Upto(O)[c]
    BY <1>3, <2>1, UptoSkip
  <2> QED BY <2>2, <2>3, <2>4
<1>5. u \in Seq(Nat)
  BY UptoMembers
<1>6. mods = [n \in DOMAIN u |-> WrittenOption(s, u[n])]
  BY DEF ModsOf
<1>7. ModsOf(s, i, d + 1) = [n \in DOMAIN t |-> WrittenOption(s, t[n])]
  BY <1>4 DEF ModsOf
<1> HIDE DEF u, mods
<1>8. /\ L \in Nat /\ DOMAIN u = 1 .. L /\ DOMAIN t = 1 .. L + 1 /\ t[L + 1] = c + 1
      /\ \A n \in 1 .. L : t[n] = u[n] /\ u[n] \in Nat
  BY <1>5
<1> DEFINE A == {WrittenOption(s, j) : j \in Nat}
<1>9. mods \in Seq(A)
  <2>1. mods \in [1 .. L -> A]
    <3>1. mods = [n \in 1 .. L |-> WrittenOption(s, u[n])]
      BY <1>6, <1>8
    <3>2. \A n \in 1 .. L : WrittenOption(s, u[n]) \in A
      BY <1>8
    <3> HIDE DEF A
    <3> QED BY <3>1, <3>2
  <2> HIDE DEF A
  <2> QED BY <2>1, <1>8
<1>10. Len(mods) = L /\ \A n \in 1 .. L : mods[n] = WrittenOption(s, u[n])
  <2>1. DOMAIN mods = 1 .. L
    BY <1>6, <1>8
  <2> HIDE DEF A
  <2> QED BY <2>1, <1>6, <1>8, <1>9
<1>11. Append(mods, opt) = [n \in 1 .. L + 1 |-> IF n = L + 1 THEN opt ELSE mods[n]]
  <2> HIDE DEF A, opt, L
  <2>1. Append(mods, opt) =
          [n \in 1 .. Len(mods) + 1 |-> IF n = Len(mods) + 1 THEN opt ELSE mods[n]]
    BY <1>9, AppendIs
  <2> QED BY <1>10, <2>1
<1>12. ASSUME NEW n \in 1 .. L + 1
       PROVE (IF n = L + 1 THEN opt ELSE mods[n]) = WrittenOption(s, t[n])
  <2>1. CASE n = L + 1
    BY <2>1, <1>8
  <2>2. CASE n # L + 1
    <3>1. n \in 1 .. L
      BY <2>2, <1>8
    <3> QED BY <3>1, <2>2, <1>8, <1>10
  <2> QED BY <2>1, <2>2
<1> HIDE DEF opt, t
<1>13. Append(mods, opt) = [n \in 1 .. L + 1 |-> WrittenOption(s, t[n])]
  BY <1>11, <1>12
<1>14. ModsOf(s, i, d + 1) = Append(mods, opt)
  BY <1>7, <1>8, <1>13
<1> QED BY <1>9, <1>14 DEF mods, opt

\* What is known of the keyword of the action that is being read.
LEMMA HeadFacts ==
    ASSUME NEW s, NEW acts \in Seq(Action), NEW act, NEW c \in Nat, HeadRead(s, acts, act, c)
    PROVE  \E i \in 1 .. c - 1 :
              /\ i = Upto(Starts(s))[c][Len(Upto(Starts(s))[c])] /\ ~Closed(s, i, c)
              /\ act = Line(s, i, Unset, ModsOf(s, i, c + 1))
<1> DEFINE u == Upto(Starts(s))[c]
           i == u[Len(u)]
<1>1. u \in Seq(Nat) /\ \A m \in 1 .. Len(u) : u[m] \in 1 .. c
  BY UptoMembers
<1>2. /\ Len(u) = Len(acts) + 1 /\ ~Closed(s, i, c) /\ i < c
      /\ act = Line(s, i, Unset, ModsOf(s, i, c + 1))
  BY DEF HeadRead
<1>3. Len(acts) \in Nat
  OBVIOUS
<1> HIDE DEF u
<1>4. i \in 1 .. c - 1
  <2>1. Len(u) \in 1 .. Len(u)
    BY <1>2, <1>3
  <2>2. i \in 1 .. c
    BY <1>1, <2>1
  <2> QED BY <1>2, <2>2
<1> QED BY <1>2, <1>4 DEF u

\* Tokens of a line that is still open.
LEMMA HeadGoesOn ==
    ASSUME NEW s, NEW acts, NEW act, NEW c \in Nat, NEW d \in Nat, c <= d,
           HeadRead(s, acts, act, c), acts \in Seq(Action),
           \A j \in c + 1 .. d : ~EndsLine(s, j)
    PROVE  /\ Upto(Starts(s))[d] = Upto(Starts(s))[c]
           /\ ReadTo(s, acts, d, Len(acts))
           /\ ~Closed(s, Upto(Starts(s))[c][Len(Upto(Starts(s))[c])], d)
<1> DEFINE u == Upto(Starts(s))[c]
           i == u[Len(u)]
<1>1. Without(s, c, d, ActionWords)
  BY DEF Without, EndsLine
<1>2. Upto(Starts(s))[d] = u
  BY <1>1, StartsKept
<1>3. u \in Seq(Nat)
  BY UptoMembers
<1>4. /\ Len(u) = Len(acts) + 1 /\ ~Closed(s, i, c)
      /\ \A m \in 1 .. Len(acts) : Closed(s, u[m], c) /\ acts[m] = WrittenAction(s, u[m])
  BY DEF HeadRead, ReadTo
<1>5. i \in 1 .. c - 1
  BY HeadFacts
<1> HIDE DEF u
<1>6. ASSUME NEW m \in 1 .. Len(acts) PROVE Closed(s, u[m], d) /\ acts[m] = WrittenAction(s, u[m])
  <2>1. m \in 1 .. Len(u)
    BY <1>4
  <2>2. u[m] \in Nat
    BY <1>3, <2>1
  <2> QED BY <2>2, <1>4, ClosedKept
<1>7. ~Closed(s, i, d)
  <2> SUFFICES ASSUME NEW e \in i + 1 .. d, EndsLine(s, e) PROVE FALSE
    BY DEF Closed
  <2>1. e \in i + 1 .. c \/ e \in c + 1 .. d
    BY <1>5
  <2> QED BY <2>1, <1>4 DEF Closed
<1>8. ReadTo(s, acts, d, Len(acts))
  BY <1>2, <1>6 DEF ReadTo
<1> QED BY <1>2, <1>7, <1>8 DEF u

LEMMA OptionAdded ==
    ASSUME NEW s, NEW acts \in Seq(Action), NEW act, NEW c \in Nat, NEW d \in Nat, c + 2 <= d,
           HeadRead(s, acts, act, c),
           Keyword(s, c + 1, {"COUNTER", "TIMESTAMP"}),
           \A j \in c + 2 .. d : s[j].type \notin {"Keyword", "BraceClosed"},
           s[d - 1].text # Word("OFFSET"),
           NEW new, new = [act EXCEPT !.mods = Append(act.mods, WrittenOption(s, c + 1))]
    PROVE  HeadRead(s, acts, new, d)
<1> DEFINE u == Upto(Starts(s))[c]
<1>1. PICK i \in 1 .. c - 1 :
        /\ i = u[Len(u)] /\ ~Closed(s, i, c) /\ act = Line(s, i, Unset, ModsOf(s, i, c + 1))
  BY HeadFacts
<1>2. \A j \in c + 1 .. d : ~EndsLine(s, j)
  <2> TAKE j \in c + 1 .. d
  <2>1. j = c + 1 \/ j \in c + 2 .. d
    OBVIOUS
  <2> QED BY <2>1 DEF EndsLine, Keyword, ActionWords
<1>3. c <= d /\ c < d /\ i \in Nat /\ i <= c /\ i < d
  OBVIOUS
<1>4. Upto(Starts(s))[d] = u /\ ReadTo(s, acts, d, Len(acts)) /\ ~Closed(s, i, d)
  BY <1>1, <1>2, <1>3, HeadGoesOn
<1>5. \A j \in c + 2 .. d : ~Keyword(s, j, {"COUNTER", "TIMESTAMP"})
  BY DEF Keyword
<1>6. ModsOf(s, i, d + 1) = Append(ModsOf(s, i, c + 1), WrittenOption(s, c + 1))
  BY <1>3, <1>5, ModsAdded
<1> DEFINE mods == ModsOf(s, i, c + 1)
           more == Append(mods, WrittenOption(s, c + 1))
<1>7. new = Line(s, i, Unset, more)
  <2>1. act.mods = mods /\ act = Line(s, i, Unset, mods)
    BY <1>1, LineChanged
  <2>2. new = [act EXCEPT !.mods = more]
    BY <2>1
  <2> HIDE DEF mods, more
  <2>3. new = [Line(s, i, Unset, mods) EXCEPT !.mods = more]
    BY <2>1, <2>2
  <2> QED BY <2>3, LineChanged
<1>8. Len(u) = Len(acts) + 1
  BY DEF HeadRead
<1> HIDE DEF u
<1> QED BY <1>1, <1>3, <1>4, <1>6, <1>7, <1>8 DEF HeadRead

\* The action is pushed: its line goes to d.
LEMMA ActionPushed ==
    ASSUME NEW s, NEW acts \in Seq(Action), NEW act, NEW c \in Nat, NEW d \in Nat, c <= d,
           HeadRead(s, acts, act, c),
           \A j \in c + 1 .. d : ~EndsLine(s, j) /\ ~Keyword(s, j, {"COUNTER", "TIMESTAMP"}),
           NEW ms, ms = OffsetOf(s, d + 1), [act EXCEPT !.offset_ms = ms] \in Action
    PROVE  LineRead(s, Append(acts, [act EXCEPT !.offset_ms = ms]), d)
<1> DEFINE u == Upto(Starts(s))[c]
           a == [act EXCEPT !.offset_ms = ms]
           t == Append(acts, a)
           L == Len(acts)
<1>1. PICK i \in 1 .. c - 1 :
        /\ i = u[Len(u)] /\ ~Closed(s, i, c) /\ act = Line(s, i, Unset, ModsOf(s, i, c + 1))
  BY HeadFacts
<1>2. Upto(Starts(s))[d] = u /\ ReadTo(s, acts, d, Len(acts)) /\ ~Closed(s, i, d)
  BY <1>1, HeadGoesOn
<1>3. ModsOf(s, i, d + 1) = ModsOf(s, i, c + 1)
  BY ModsKept
<1>4. a = WrittenLine(s, i, d + 1)
  <2> DEFINE mods == ModsOf(s, i, c + 1)
  <2>1. act = Line(s, i, Unset, mods)
    BY <1>1
  <2>2. WrittenLine(s, i, d + 1) = Line(s, i, ms, mods)
    BY <1>3, LineParts
  <2> HIDE DEF mods
  <2>3. a = [Line(s, i, Unset, mods) EXCEPT !.offset_ms = ms]
    BY <2>1
  <2> QED BY <2>2, <2>3, LineChanged
<1>5. Len(u) = L + 1
  BY DEF HeadRead
<1> HIDE DEF a
<1>6. L \in Nat /\ Len(t) = L + 1 /\ t[L + 1] = a /\ \A m \in 1 .. L : t[m] = acts[m]
  BY DEF a
<1>7. \A m \in 1 .. L : Closed(s, u[m], d) /\ acts[m] = WrittenAction(s, u[m])
  BY <1>2 DEF ReadTo
<1> HIDE DEF t, u
<1>8. ASSUME NEW m \in 1 .. Len(u)
      PROVE  t[m] = IF Closed(s, u[m], d) THEN WrittenAction(s, u[m]) ELSE WrittenLine(s, u[m], d + 1)
  <2>1. CASE m = L + 1
    BY <2>1, <1>1, <1>2, <1>4, <1>5, <1>6
  <2>2. CASE m # L + 1
    <3>1. m \in 1 .. L
      BY <2>2, <1>5, <1>6
    <3> QED BY <3>1, <1>6, <1>7
  <2> QED BY <2>1, <2>2
<1>9. LineRead(s, t, d)
  BY <1>2, <1>5, <1>6, <1>8 DEF LineRead
<1> QED BY <1>9 DEF t, a

-----------------------------------------------------------------------------
(* The steps of the parser. *)

LEMMA Basics ==
    ASSUME IInv
    PROVE  /\ tokens \in Seq(Token) /\ Len(tokens) \in Nat
           /\ token_pos \in Nat /\ token_pos <= Len(tokens)
           /\ Shaped(settings) /\ settings.endpoints \in Seq(Text)
           /\ orchestrator.actions \in Seq(Action)
           /\ at # "rejected" =>
                 /\ ActionsRead(tokens, at, orchestrator.actions, action, token_pos)
                 /\ SettingsRead(tokens, settings, token_pos) /\ ListsKnown(tokens, at, token_pos)
<1>1. tokens \in Seq(Token) /\ token_pos \in 0 .. Len(tokens) /\ settings.endpoints \in Seq(Text)
  BY DEF IInv, TypeOK
<1>2. orchestrator.actions \in Seq(Action)
  BY DEF IInv, TypeOK
<1> QED BY <1>1, <1>2 DEF IInv, ReadInv, Reading

\* A token that was looked at.
LEMMA Peeked ==
    ASSUME TypeOK, NEW k \in 1 .. 8
    PROVE  /\ \A type : is_expected(k, type) <=>
                 token_pos + k <= Len(tokens) /\ tokens[token_pos + k].type = type
           /\ token_pos + k <= Len(tokens) => peek(k) = tokens[token_pos + k] /\ peek(k) \in Token
<1>1. tokens \in Seq(Token) /\ token_pos \in 0 .. Len(tokens)
  BY DEF TypeOK
<1>2. token_pos + k <= Len(tokens) => peek(k) = tokens[token_pos + k] /\ peek(k) \in Token
  BY <1>1 DEF peek
<1> QED BY <1>1, <1>2 DEF is_expected

LEMMA Expected ==
    ASSUME TypeOK, NEW k \in 1 .. 8, NEW type, is_expected(k, type)
    PROVE  token_pos + k <= Len(tokens) /\ tokens[token_pos + k].type = type /\ peek(k) = tokens[token_pos + k]
BY Peeked

LEMMA OperatorAt ==
    ASSUME TypeOK, NEW k \in 1 .. 8, NEW op, is_operator(k, op)
    PROVE  /\ token_pos + k <= Len(tokens) /\ tokens[token_pos + k].type = "Operator"
           /\ tokens[token_pos + k].text = Word(op)
<1>1. is_expected(k, "Operator") /\ peek(k).text = Word(op)
  BY DEF is_operator
<1> QED BY <1>1, Expected

LEMMA RejectReads ==
    ASSUME IInv, Reject
    PROVE  ReadInv'
BY DEF IInv, ReadInv, Reading, Reject

LEMMA EndReads ==
    ASSUME IInv, parse
    PROVE  ReadInv'
<1>1. CASE Reject
  BY <1>1, RejectReads
<1>2. CASE ~Reject
  <2>1. /\ at = "parse" /\ end_of_tokens /\ at' = "accepted" /\ token_pos' = token_pos + 0
        /\ UNCHANGED <<tokens, settings, orchestrator, action>>
    BY <1>2 DEF parse, Consume
  <2>2. token_pos' = token_pos /\ token_pos = Len(tokens)
    BY <2>1, Basics DEF end_of_tokens
  <2> DEFINE s == tokens
             c == token_pos
             acts == orchestrator.actions
  <2>3. ActionsRead(s, "parse", acts, action, c) /\ ListsKnown(s, "parse", c)
    BY <2>1, Basics
  <2>4. ActionsRead(s, "accepted", acts, action, c) /\ ListsKnown(s, "accepted", c)
    BY <2>3 DEF ActionsRead, ListsKnown
  <2>5. Reading(s, c, "accepted", settings, acts, action)
    BY <2>1, <2>2, <2>4, Basics DEF Reading
  <2>6. Shaped(settings)
    BY Basics
  <2> QED BY <2>1, <2>2, <2>5, <2>6 DEF ReadInv
<1> QED BY <1>1, <1>2

\* The identifier of a block is no setting.
LEMMA NamedReads ==
    ASSUME NEW s, NEW set, NEW c, NEW name, Shaped(set), SettingsRead(s, set, c),
           NEW new, new = [set EXCEPT !.identifier = name]
    PROVE  Shaped(new) /\ SettingsRead(s, new, c)
<1>1. "identifier" \in SettingNames /\ new = Put(set, "identifier", name)
  BY FieldFacts DEF Put
<1>2. "identifier" \in SettingNames /\ Shaped(set)
  BY <1>1
<1>3. Shaped(Put(set, "identifier", name))
  BY <1>2, Updated
<1>4. \A f \in SettingNames : f # "identifier" => Put(set, "identifier", name)[f] = set[f]
  BY <1>2, Updated
<1>5. \A f \in SettingNames : f # "identifier" => new[f] = set[f]
  BY <1>1, <1>4
<1>6. new.endpoints = set.endpoints /\ new.packet_identifiers = set.packet_identifiers
  BY <1>5, FieldFacts
<1>7. KeysRead(s, new, c)
  <2>1. KeysRead(s, set, c)
    BY DEF SettingsRead
  <2> QED BY <1>5, <2>1, FieldFacts DEF KeysRead
<1>8. WrittenEndpoints(s, c) = new.endpoints /\ PacketsRead(s, new.packet_identifiers, c)
  BY <1>6 DEF SettingsRead
<1> QED BY <1>1, <1>3, <1>7, <1>8 DEF SettingsRead

\* The header of a block.
LEMMA HeaderReads ==
    ASSUME IInv, at = "parse", BlockHeader, NEW word \in {"SETTINGS", "ORCHESTRATOR"},
           ~end_of_tokens, peek(1).text = Word(word)
    PROVE  /\ AllRead(tokens, orchestrator.actions, token_pos + 3)
           /\ SettingsRead(tokens, settings, token_pos + 3)
           /\ ~Inside(tokens, token_pos + 4, "ENDPOINTS") /\ ~Inside(tokens, token_pos + 4, "PACKETS")
<1> DEFINE s == tokens
           c == token_pos
           d == token_pos + 3
<1>1. /\ s \in Seq(Token) /\ Len(s) \in Nat /\ c \in Nat /\ c <= Len(s)
      /\ AllRead(s, orchestrator.actions, c) /\ SettingsRead(s, settings, c)
      /\ ~Inside(s, c + 1, "ENDPOINTS") /\ ~Inside(s, c + 1, "PACKETS")
  BY Basics DEF ActionsRead, ListsKnown
<1>2. c + 3 <= Len(s) /\ s[c + 2].type = "Identity" /\ s[c + 3].type = "BraceOpen"
  BY Peeked DEF BlockHeader, IInv
<1>3. s[c + 1].text = Word(word)
  BY <1>1, <1>2, Peeked DEF IInv
<1>4. s[c + 1].text.rest = word
  BY <1>3 DEF Word
<1>5. d \in Nat /\ c <= d /\ d + 1 = c + 4 /\ \A j \in c + 1 .. d : j \in {c + 1, c + 2, c + 3}
  BY <1>1
<1>6. ASSUME NEW words, word \notin words PROVE Without(s, c, d, words)
  BY <1>2, <1>4, <1>5, <1>6 DEF Without, Keyword
<1>7. /\ Without(s, c, d, ActionWords)
      /\ Without(s, c, d, DOMAIN Field \cup {"ENDPOINTS", "PACKETS"})
  <2>1. word \notin ActionWords /\ word \notin DOMAIN Field \cup {"ENDPOINTS", "PACKETS"}
    BY DEF ActionWords, Field
  <2> QED BY <2>1, <1>6
<1> HIDE DEF s, c, d
<1>8. AllRead(s, orchestrator.actions, d)
  BY <1>1, <1>5, <1>7, AllReadKept
<1>9. SettingsRead(s, settings, d) /\ ~Inside(s, d + 1, "ENDPOINTS") /\ ~Inside(s, d + 1, "PACKETS")
  BY <1>1, <1>5, <1>7, SettingsKept
<1> QED BY <1>5, <1>8, <1>9 DEF s, c, d

LEMMA SettingsHeaderReads ==
    ASSUME IInv, parse_settings
    PROVE  ReadInv'
<1>1. CASE Reject
  BY <1>1, RejectReads
<1>2. CASE ~Reject
  <2>1. /\ at = "parse" /\ BlockHeader /\ ~end_of_tokens /\ peek(1).text = Word("SETTINGS")
        /\ settings' = [settings EXCEPT !.identifier = peek(2).text]
        /\ token_pos' = token_pos + 3 /\ at' = "settings"
        /\ UNCHANGED <<tokens, orchestrator, action>>
    BY <1>2 DEF parse_settings, Consume
  <2>2. /\ AllRead(tokens, orchestrator.actions, token_pos + 3)
        /\ SettingsRead(tokens, settings, token_pos + 3)
        /\ ~Inside(tokens, token_pos + 4, "ENDPOINTS") /\ ~Inside(tokens, token_pos + 4, "PACKETS")
    BY <2>1, HeaderReads
  <2>3. Shaped(settings) /\ (token_pos + 3) + 1 = token_pos + 4
    BY Basics
  <2>4. Shaped(settings') /\ SettingsRead(tokens, settings', token_pos + 3)
    BY <2>1, <2>2, <2>3, NamedReads
  <2> QED BY <2>1, <2>2, <2>3, <2>4 DEF ReadInv, Reading, ActionsRead, ListsKnown
<1> QED BY <1>1, <1>2

LEMMA OrchestratorHeaderReads ==
    ASSUME IInv, parse_orchestrator
    PROVE  ReadInv'
<1>1. CASE Reject
  BY <1>1, RejectReads
<1>2. CASE ~Reject
  <2>1. /\ at = "parse" /\ BlockHeader /\ ~end_of_tokens /\ peek(1).text = Word("ORCHESTRATOR")
        /\ orchestrator' = [orchestrator EXCEPT !.settings_identifier = peek(2).text]
        /\ token_pos' = token_pos + 3 /\ at' = "orchestrator"
        /\ UNCHANGED <<tokens, settings, action>>
    BY <1>2 DEF parse_orchestrator, Consume
  <2> DEFINE acts == orchestrator.actions
             d == token_pos + 3
  <2>2. /\ AllRead(tokens, acts, d) /\ SettingsRead(tokens, settings, d)
        /\ ~Inside(tokens, token_pos + 4, "ENDPOINTS") /\ ~Inside(tokens, token_pos + 4, "PACKETS")
    BY <2>1, HeaderReads
  <2>3. Shaped(settings) /\ d + 1 = token_pos + 4
    BY Basics
  <2>4. orchestrator'.actions = acts
    <3>1. orchestrator \in [settings_identifier : Text, actions : Seq(Action)]
      BY DEF IInv, TypeOK
    <3> QED BY <3>1, <2>1
  <2>5. LineRead(tokens, acts, d)
    BY <2>2 DEF AllRead, ReadTo, LineRead
  <2> HIDE DEF acts, d
  <2>6. Reading(tokens, d, "orchestrator", settings, acts, action)
    BY <2>2, <2>3, <2>5 DEF Reading, ActionsRead, ListsKnown
  <2> QED BY <2>1, <2>3, <2>4, <2>6 DEF ReadInv, d
<1> QED BY <1>1, <1>2

LEMMA CloseBlockReads ==
    ASSUME IInv, CloseBlock
    PROVE  ReadInv'
<1> DEFINE s == tokens
           c == token_pos
           acts == orchestrator.actions
<1>1. /\ at \in {"settings", "orchestrator"} /\ is_expected(1, "BraceClosed")
      /\ token_pos' = c + 1 /\ at' = "parse" /\ UNCHANGED <<tokens, settings, orchestrator, action>>
  BY DEF CloseBlock, Consume
<1>2. /\ Len(s) \in Nat /\ c \in Nat /\ Shaped(settings) /\ SettingsRead(s, settings, c)
      /\ ActionsRead(s, at, acts, action, c)
  BY <1>1, Basics
<1>3. c + 1 <= Len(s) /\ s[c + 1].type = "BraceClosed"
  BY <1>1, Peeked DEF IInv
<1> HIDE DEF s, c, acts
<1>4. AllRead(s, acts, c + 1)
  <2>1. CASE at = "orchestrator"
    <3>1. LineRead(s, acts, c)
      BY <1>2, <2>1 DEF ActionsRead
    <3> QED BY <3>1, <1>2, <1>3, LinesEnd
  <2>2. CASE at = "settings"
    <3>1. AllRead(s, acts, c)
      BY <1>2, <2>2 DEF ActionsRead
    <3>2. Without(s, c, c + 1, ActionWords)
      <4>1. \A j \in c + 1 .. c + 1 : j = c + 1
        BY <1>2
      <4> QED BY <4>1, <1>3 DEF Without, Keyword
    <3> QED BY <3>1, <3>2, <1>2, AllReadKept
  <2> QED BY <2>1, <2>2, <1>1
<1>5. /\ SettingsRead(s, settings, c + 1)
      /\ ~Inside(s, c + 2, "ENDPOINTS") /\ ~Inside(s, c + 2, "PACKETS")
  BY <1>2, <1>3, BraceRead
<1>6. (c + 1) + 1 = c + 2
  BY <1>2
<1>7. Reading(s, c + 1, "parse", settings, acts, action)
  BY <1>4, <1>5, <1>6 DEF Reading, ActionsRead, ListsKnown
<1> QED BY <1>1, <1>2, <1>7 DEF ReadInv, s, c, acts

LEMMA SettingReads ==
    ASSUME IInv, Setting
    PROVE  ReadInv'
<1>1. CASE Reject
  BY <1>1, RejectReads
<1>2. CASE ~Reject
  <2> DEFINE s == tokens
             c == token_pos
             acts == orchestrator.actions
             key == peek(1).text.rest
             text == peek(3).text
  <2>1. /\ at = "settings" /\ is_expected(1, "Keyword") /\ is_operator(2, "=") /\ is_expected(3, "Value")
        /\ SettingOK(key, text)
        /\ settings' = [settings EXCEPT ![Field[key]] = SettingValue(key, text)]
        /\ token_pos' = c + 3 /\ at' = "settings" /\ UNCHANGED <<tokens, orchestrator, action>>
    BY <1>2 DEF Setting, Consume
  <2>2. /\ Len(s) \in Nat /\ c \in Nat /\ Shaped(settings) /\ SettingsRead(s, settings, c)
        /\ AllRead(s, acts, c) /\ ~Inside(s, c + 1, "ENDPOINTS") /\ ~Inside(s, c + 1, "PACKETS")
    BY <2>1, Basics DEF ActionsRead, ListsKnown
  <2>3. /\ c + 3 <= Len(s) /\ s[c + 1].type = "Keyword" /\ s[c + 2].type = "Operator"
        /\ s[c + 3].type = "Value"
    BY <2>1, Peeked DEF IInv, is_operator
  <2>4. peek(1) = s[c + 1] /\ peek(3) = s[c + 3]
    BY <2>2, <2>3, Peeked DEF IInv
  <2>5. key \in DOMAIN Field
    BY <2>1 DEF SettingOK
  <2>6. Keyword(s, c + 1, {key}) /\ text = s[c + 3].text
    BY <2>3, <2>4 DEF Keyword
  <2>7. Without(s, c, c + 3, ActionWords)
    <3>1. \A j \in c + 1 .. c + 3 : j \in {c + 1, c + 2, c + 3}
      BY <2>2
    <3>2. key \notin ActionWords
      BY <2>5 DEF Field, ActionWords
    <3> HIDE DEF key
    <3> QED BY <3>1, <3>2, <2>3, <2>6 DEF Without, Keyword
  <2> HIDE DEF s, c, acts, key, text
  <2>8. c + 3 \in Nat /\ c <= c + 3 /\ (c + 3) + 1 = c + 4
    BY <2>2
  <2>9. AllRead(s, acts, c + 3)
    BY <2>2, <2>7, <2>8, AllReadKept
  <2>10. /\ Shaped(settings') /\ SettingsRead(s, settings', c + 3)
         /\ ~Inside(s, c + 4, "ENDPOINTS") /\ ~Inside(s, c + 4, "PACKETS")
    <3>1. s[c + 2].type # "Keyword" /\ s[c + 3].type # "Keyword"
      BY <2>3
    <3>2. settings' = [settings EXCEPT ![Field[key]] = SettingValue(key, s[c + 3].text)]
      BY <2>1, <2>6
    <3> QED BY <2>2, <2>3, <2>5, <2>6, <3>1, <3>2, SettingAdded
  <2>11. Reading(s, c + 3, "settings", settings', acts, action)
    BY <2>8, <2>9, <2>10 DEF Reading, ActionsRead, ListsKnown
  <2> QED BY <2>1, <2>10, <2>11 DEF ReadInv, s, c, acts
<1> QED BY <1>1, <1>2

LEMMA NestedReads ==
    ASSUME IInv, Nested
    PROVE  ReadInv'
<1>1. CASE Reject
  BY <1>1, RejectReads
<1>2. CASE ~Reject
  <2> DEFINE s == tokens
             c == token_pos
             acts == orchestrator.actions
             word == peek(1).text.rest
             next == IF is_keyword(1, {"PACKETS"}) THEN "packets" ELSE "endpoints"
  <2>1. /\ at = "settings" /\ is_expected(1, "Keyword") /\ is_expected(2, "BraceOpen")
        /\ word \in {"ENDPOINTS", "PACKETS"} /\ at' = next
        /\ token_pos' = c + 2 /\ UNCHANGED <<tokens, settings, orchestrator, action>>
    BY <1>2 DEF Nested, Consume, OpensNested, is_keyword
  <2>2. /\ Len(s) \in Nat /\ c \in Nat /\ Shaped(settings) /\ SettingsRead(s, settings, c)
        /\ AllRead(s, acts, c)
    BY <2>1, Basics DEF ActionsRead
  <2>3. /\ c + 2 <= Len(s) /\ s[c + 1].type = "Keyword" /\ s[c + 2].type = "BraceOpen"
    BY <2>1, Peeked DEF IInv
  <2>4. peek(1) = s[c + 1]
    BY <2>2, <2>3, Peeked DEF IInv
  <2>5. Keyword(s, c + 1, {word})
    BY <2>3, <2>4 DEF Keyword
  <2>6. next = IF word = "PACKETS" THEN "packets" ELSE "endpoints"
    BY <2>1 DEF is_keyword
  <2>7. Without(s, c, c + 2, ActionWords)
    <3>1. \A j \in c + 1 .. c + 2 : j \in {c + 1, c + 2}
      BY <2>2
    <3>2. word \notin ActionWords
      BY <2>1 DEF ActionWords
    <3> HIDE DEF word
    <3> QED BY <3>1, <3>2, <2>3, <2>5 DEF Without, Keyword
  <2> HIDE DEF s, c, acts, word, next
  <2>8. c + 2 \in Nat /\ c <= c + 2 /\ (c + 2) + 1 = c + 3
    BY <2>2
  <2>9. AllRead(s, acts, c + 2)
    BY <2>2, <2>7, <2>8, AllReadKept
  <2>10. SettingsRead(s, settings, c + 2)
    BY <2>1, <2>2, <2>3, <2>5, ListOpened
  <2>11. Inside(s, c + 3, "ENDPOINTS") <=> word = "ENDPOINTS"
    BY <2>1, <2>2, <2>3, <2>5, ListOpened
  <2>12. Inside(s, c + 3, "PACKETS") <=> word = "PACKETS"
    BY <2>1, <2>2, <2>3, <2>5, ListOpened
  <2>13. ListsKnown(s, next, c + 2)
    BY <2>1, <2>6, <2>8, <2>11, <2>12 DEF ListsKnown
  <2>14. next \in {"packets", "endpoints"}
    BY <2>6
  <2>15. Reading(s, c + 2, next, settings, acts, action)
    BY <2>9, <2>10, <2>13, <2>14 DEF Reading, ActionsRead
  <2> QED BY <2>1, <2>2, <2>15 DEF ReadInv, s, c, acts
<1> QED BY <1>1, <1>2

LEMMA PacketReads ==
    ASSUME IInv, Packet
    PROVE  ReadInv'
<1>1. CASE Reject
  BY <1>1, RejectReads
<1>2. CASE ~Reject
  <2> DEFINE s == tokens
             c == token_pos
             d == token_pos'
             acts == orchestrator.actions
  <2>1. /\ at = "packets" /\ is_expected(1, "Identity") /\ is_operator(2, ":") /\ is_expected(3, "Value")
        /\ settings' = [settings EXCEPT !.packet_identifiers =
                           Mapped(settings.packet_identifiers, peek(1).text, peek(3).text)]
        /\ at' = "packets" /\ UNCHANGED <<tokens, orchestrator, action>>
        /\ d = c + (IF is_operator(3 + 1, ",") THEN 3 + 1 ELSE 3)
    BY <1>2 DEF Packet, ConsumeEntry, Consume
  <2>a. 3 + 1 = 4
    OBVIOUS
  <2>b. d = c + (IF is_operator(4, ",") THEN 4 ELSE 3)
    BY <2>1, <2>a
  <2>c. /\ ActionsRead(s, "packets", acts, action, c) /\ SettingsRead(s, settings, c)
        /\ ListsKnown(s, "packets", c)
    BY <2>1, Basics
  <2>2. /\ Len(s) \in Nat /\ c \in Nat /\ Shaped(settings) /\ SettingsRead(s, settings, c)
        /\ AllRead(s, acts, c) /\ ~Inside(s, c + 1, "ENDPOINTS") /\ Inside(s, c + 1, "PACKETS")
    BY <2>c, Basics DEF ActionsRead, ListsKnown
  <2>3. /\ c + 3 <= Len(s) /\ s[c + 1].type = "Identity" /\ s[c + 2].type = "Operator"
        /\ s[c + 3].type = "Value"
    <3>1. is_expected(1, "Identity") /\ is_operator(2, ":") /\ is_expected(3, "Value") /\ TypeOK
      BY <2>1 DEF IInv
    <3>2. s[c + 1].type = "Identity"
      BY <3>1, Expected
    <3>3. s[c + 2].type = "Operator"
      BY <3>1, OperatorAt
    <3>4. c + 3 <= Len(s) /\ s[c + 3].type = "Value"
      BY <3>1, Expected
    <3> QED BY <3>2, <3>3, <3>4
  <2>4. peek(1) = s[c + 1] /\ peek(3) = s[c + 3]
    BY <2>2, <2>3, Peeked DEF IInv
  <2>5. \/ d = c + 3
        \/ d = c + 4 /\ c + 4 <= Len(s) /\ s[c + 4].type = "Operator"
    <3>1. CASE is_operator(4, ",")
      <4>0. TypeOK /\ 4 \in 1 .. 8
        BY DEF IInv
      <4>1. c + 4 <= Len(s) /\ s[c + 4].type = "Operator"
        BY <4>0, <3>1, OperatorAt
      <4> QED BY <4>1, <3>1, <2>b
    <3>2. CASE ~is_operator(4, ",")
      BY <3>2, <2>b
    <3> QED BY <3>1, <3>2
  <2>6. settings' = [settings EXCEPT !.packet_identifiers =
                        Mapped(settings.packet_identifiers, s[c + 1].text, s[c + 3].text)]
    BY <2>1, <2>4
  <2> HIDE DEF s, c, d, acts
  <2>7. /\ d \in {c + 3, c + 4} /\ d <= Len(s) /\ (d = c + 4 => s[c + 4].type = "Operator")
        /\ d \in Nat /\ c <= d
    BY <2>2, <2>3, <2>5
  <2>8. Without(s, c, d, ActionWords)
    <3>1. \A j \in c + 1 .. d : j \in {c + 1, c + 2, c + 3} \/ (j = c + 4 /\ d = c + 4)
      BY <2>2, <2>7
    <3> QED BY <3>1, <2>3, <2>7 DEF Without, Keyword
  <2>9. AllRead(s, acts, d)
    BY <2>2, <2>7, <2>8, AllReadKept
  <2>10. /\ Shaped(settings') /\ SettingsRead(s, settings', d)
         /\ ~Inside(s, d + 1, "ENDPOINTS") /\ Inside(s, d + 1, "PACKETS")
    BY <2>2, <2>3, <2>6, <2>7, PacketAdded
  <2>11. Reading(s, d, "packets", settings', acts, action)
    BY <2>9, <2>10 DEF Reading, ActionsRead, ListsKnown
  <2> QED BY <2>1, <2>10, <2>11 DEF ReadInv, s, d, acts
<1> QED BY <1>1, <1>2

LEMMA EndpointReads ==
    ASSUME IInv, Endpoint
    PROVE  ReadInv'
<1>1. CASE Reject
  BY <1>1, RejectReads
<1>2. CASE ~Reject
  <2> DEFINE s == tokens
             c == token_pos
             d == token_pos'
             acts == orchestrator.actions
  <2>1. /\ at = "endpoints" /\ is_expected(1, "Value")
        /\ settings' = [settings EXCEPT !.endpoints = Append(settings.endpoints, peek(1).text)]
        /\ at' = "endpoints" /\ UNCHANGED <<tokens, orchestrator, action>>
        /\ d = c + (IF is_operator(1 + 1, ",") THEN 1 + 1 ELSE 1)
    BY <1>2 DEF Endpoint, ConsumeEntry, Consume
  <2>a. 1 + 1 = 2
    OBVIOUS
  <2>b. d = c + (IF is_operator(2, ",") THEN 2 ELSE 1)
    BY <2>1, <2>a
  <2>c. /\ ActionsRead(s, "endpoints", acts, action, c) /\ SettingsRead(s, settings, c)
        /\ ListsKnown(s, "endpoints", c)
    BY <2>1, Basics
  <2>2. /\ Len(s) \in Nat /\ c \in Nat /\ Shaped(settings) /\ SettingsRead(s, settings, c)
        /\ AllRead(s, acts, c) /\ Inside(s, c + 1, "ENDPOINTS") /\ ~Inside(s, c + 1, "PACKETS")
        /\ settings.endpoints \in Seq(Text)
    BY <2>c, Basics DEF ActionsRead, ListsKnown
  <2>3. c + 1 <= Len(s) /\ s[c + 1].type = "Value"
    <3>1. is_expected(1, "Value") /\ TypeOK
      BY <2>1 DEF IInv
    <3> QED BY <3>1, Expected
  <2>4. peek(1) = s[c + 1]
    BY <2>2, <2>3, Peeked DEF IInv
  <2>5. \/ d = c + 1
        \/ d = c + 2 /\ c + 2 <= Len(s) /\ s[c + 2].type = "Operator"
    <3>1. CASE is_operator(2, ",")
      <4>0. TypeOK /\ 2 \in 1 .. 8
        BY DEF IInv
      <4>1. c + 2 <= Len(s) /\ s[c + 2].type = "Operator"
        BY <4>0, <3>1, OperatorAt
      <4> QED BY <4>1, <3>1, <2>b
    <3>2. CASE ~is_operator(2, ",")
      BY <3>2, <2>b
    <3> QED BY <3>1, <3>2
  <2>6. settings' = [settings EXCEPT !.endpoints = Append(settings.endpoints, s[c + 1].text)]
    BY <2>1, <2>4
  <2> HIDE DEF s, c, d, acts
  <2>7. /\ d \in {c + 1, c + 2} /\ d <= Len(s) /\ (d = c + 2 => s[c + 2].type = "Operator")
        /\ d \in Nat /\ c <= d
    BY <2>2, <2>3, <2>5
  <2>8. Without(s, c, d, ActionWords)
    <3>1. \A j \in c + 1 .. d : j = c + 1 \/ (j = c + 2 /\ d = c + 2)
      BY <2>2, <2>7
    <3> QED BY <3>1, <2>3, <2>7 DEF Without, Keyword
  <2>9. AllRead(s, acts, d)
    BY <2>2, <2>7, <2>8, AllReadKept
  <2>10. /\ Shaped(settings') /\ SettingsRead(s, settings', d)
         /\ Inside(s, d + 1, "ENDPOINTS") /\ ~Inside(s, d + 1, "PACKETS")
    BY <2>2, <2>3, <2>6, <2>7, EndpointAdded
  <2>11. Reading(s, d, "endpoints", settings', acts, action)
    BY <2>9, <2>10 DEF Reading, ActionsRead, ListsKnown
  <2> QED BY <2>1, <2>10, <2>11 DEF ReadInv, s, d, acts
<1> QED BY <1>1, <1>2

LEMMA CloseListReads ==
    ASSUME IInv, CloseList
    PROVE  ReadInv'
<1> DEFINE s == tokens
           c == token_pos
           acts == orchestrator.actions
<1>1. /\ at \in {"packets", "endpoints"} /\ is_expected(1, "BraceClosed")
      /\ token_pos' = c + 1 /\ at' = "settings" /\ UNCHANGED <<tokens, settings, orchestrator, action>>
  BY DEF CloseList, Consume
<1>2. /\ Len(s) \in Nat /\ c \in Nat /\ Shaped(settings) /\ SettingsRead(s, settings, c)
      /\ AllRead(s, acts, c)
  BY <1>1, Basics DEF ActionsRead
<1>3. c + 1 <= Len(s) /\ s[c + 1].type = "BraceClosed"
  BY <1>1, Peeked DEF IInv
<1> HIDE DEF s, c, acts
<1>4. Without(s, c, c + 1, ActionWords)
  <2>1. \A j \in c + 1 .. c + 1 : j = c + 1
    BY <1>2
  <2> QED BY <2>1, <1>3 DEF Without, Keyword
<1>5. AllRead(s, acts, c + 1)
  BY <1>2, <1>4, AllReadKept
<1>6. /\ SettingsRead(s, settings, c + 1)
      /\ ~Inside(s, c + 2, "ENDPOINTS") /\ ~Inside(s, c + 2, "PACKETS")
  BY <1>2, <1>3, BraceRead
<1>7. (c + 1) + 1 = c + 2
  BY <1>2
<1>8. Reading(s, c + 1, "settings", settings, acts, action)
  BY <1>5, <1>6, <1>7 DEF Reading, ActionsRead, ListsKnown
<1> QED BY <1>1, <1>2, <1>8 DEF ReadInv, s, c, acts

\* The words that mean something to the parser, other than COPIES and OFFSET.
Words == ActionWords \cup {"COUNTER", "TIMESTAMP", "ENDPOINTS", "PACKETS"} \cup DOMAIN Field

LEMMA HeadReads ==
    ASSUME IInv, at = "orchestrator", NEW d \in Nat, token_pos + 2 <= d, d <= Len(tokens),
           Keyword(tokens, token_pos + 1, ActionWords),
           \A j \in token_pos + 2 .. d : tokens[j].type # "BraceClosed" /\ ~Keyword(tokens, j, Words),
           tokens[d - 1].text # Word("OFFSET"),
           NEW act, act = Line(tokens, token_pos + 1, Unset, <<>>), NEW where \in {"options", "offset"}
    PROVE  Reading(tokens, d, where, settings, orchestrator.actions, act)
<1> DEFINE s == tokens
           c == token_pos
           acts == orchestrator.actions
<1>1. Len(s) \in Nat /\ c \in Nat /\ SettingsRead(s, settings, c)
  BY Basics
<1>2. LineRead(s, acts, c) /\ ~Inside(s, c + 1, "ENDPOINTS") /\ ~Inside(s, c + 1, "PACKETS")
  BY Basics DEF ActionsRead, ListsKnown
<1>3. c + 2 <= d /\ d <= Len(s) /\ Keyword(s, c + 1, ActionWords) /\ s[d - 1].text # Word("OFFSET")
  OBVIOUS
<1>4. \A j \in c + 2 .. d : ~EndsLine(s, j) /\ ~Keyword(s, j, {"COUNTER", "TIMESTAMP"})
  BY DEF EndsLine, Keyword, Words
<1>5. Without(s, c, d, DOMAIN Field \cup {"ENDPOINTS", "PACKETS"})
  <2> SUFFICES ASSUME NEW j \in c + 1 .. d
               PROVE  ~Keyword(s, j, DOMAIN Field \cup {"ENDPOINTS", "PACKETS"})
    BY DEF Without
  <2>1. j = c + 1 \/ j \in c + 2 .. d
    BY <1>1
  <2>2. CASE j = c + 1
    BY <2>2, <1>3 DEF Keyword, ActionWords, Field
  <2>3. CASE j \in c + 2 .. d
    BY <2>3 DEF Keyword, Words
  <2> QED BY <2>1, <2>2, <2>3
<1>6. act = Line(s, c + 1, Unset, <<>>)
  OBVIOUS
<1> HIDE DEF s, c, acts
<1>7. HeadRead(s, acts, act, d)
  BY <1>1, <1>2, <1>3, <1>4, <1>6, HeadBegun
<1>8. c <= d
  BY <1>1, <1>3
<1>9. /\ SettingsRead(s, settings, d)
      /\ ~Inside(s, d + 1, "ENDPOINTS") /\ ~Inside(s, d + 1, "PACKETS")
  BY <1>1, <1>2, <1>5, <1>8, SettingsKept
<1>10. Reading(s, d, where, settings, acts, act)
  BY <1>7, <1>9 DEF Reading, ActionsRead, ListsKnown
<1> QED BY <1>10 DEF s, acts

\* An action keyword that is followed by a value.
LEMMA AtActionFacts ==
    ASSUME IInv, NEW words, AtAction(words)
    PROVE  /\ at = "orchestrator" /\ token_pos + 2 <= Len(tokens)
           /\ tokens[token_pos + 1].type = "Keyword" /\ tokens[token_pos + 1].text.rest \in words
           /\ peek(1) = tokens[token_pos + 1]
           /\ tokens[token_pos + 2].type = "Value" /\ peek(2) = tokens[token_pos + 2]
<1>1. /\ TypeOK /\ at = "orchestrator" /\ is_expected(1, "Keyword") /\ peek(1).text.rest \in words
      /\ is_expected(2, "Value")
  BY DEF AtAction, is_keyword, IInv
<1>2. tokens[token_pos + 1].type = "Keyword" /\ peek(1) = tokens[token_pos + 1]
  BY <1>1, Expected
<1>3. /\ token_pos + 2 <= Len(tokens) /\ tokens[token_pos + 2].type = "Value"
      /\ peek(2) = tokens[token_pos + 2]
  BY <1>1, Expected
<1> QED BY <1>1, <1>2, <1>3

LEMMA CreateReads ==
    ASSUME IInv, Create
    PROVE  ReadInv'
<1>1. CASE Reject
  BY <1>1, RejectReads
<1>2. CASE ~Reject
  <2> DEFINE s == tokens
             c == token_pos
  <2>1. /\ AtAction({"CREATE"})
        /\ action' = [NewAction EXCEPT !.type = "CREATE", !.count = IntAt(2),
                                        !.range = [start |-> 0, second |-> IntAt(2)]]
        /\ token_pos' = c + 2 /\ at' = "offset" /\ UNCHANGED <<tokens, settings, orchestrator>>
    BY <1>2 DEF Create, Consume
  <2>2. /\ at = "orchestrator" /\ c + 2 <= Len(s) /\ s[c + 1].type = "Keyword"
        /\ s[c + 1].text.rest = "CREATE" /\ s[c + 2].type = "Value" /\ peek(2) = s[c + 2]
    BY <2>1, AtActionFacts
  <2>3. c \in Nat /\ Len(s) \in Nat /\ Shaped(settings)
    BY Basics
  <2>4. IntAt(2) = NumberAt(s, c + 2) /\ (c + 1) + 1 = c + 2 /\ (c + 2) - 1 = c + 1
    BY <2>2, <2>3 DEF IntAt, NumberAt
  <2>5. action' = Line(s, c + 1, Unset, <<>>)
    <3> DEFINE n == IntAt(2)
    <3>1. n = NumberAt(s, (c + 1) + 1)
      BY <2>4
    <3>2. action' = [type |-> "CREATE", count |-> n, range |-> [start |-> 0, second |-> n],
                     offset_ms |-> Unset, packet_identifier |-> Word(""), mods |-> <<>>]
      BY <2>1 DEF NewAction
    <3> HIDE DEF n
    <3>3. CountOf(s, c + 1) = n /\ RangeOf(s, c + 1) = [start |-> 0, second |-> n]
      BY <2>2, <3>1 DEF CountOf, RangeOf
    <3>4. PacketOf(s, c + 1) = Word("")
      BY <2>2 DEF PacketOf
    <3> QED BY <2>2, <3>2, <3>3, <3>4 DEF Line
  <2>6. Keyword(s, c + 1, ActionWords)
    BY <2>2 DEF Keyword, ActionWords
  <2>7. \A j \in c + 2 .. c + 2 : s[j].type # "BraceClosed" /\ ~Keyword(s, j, Words)
    <3>1. \A j \in c + 2 .. c + 2 : j = c + 2
      BY <2>3
    <3> QED BY <3>1, <2>2 DEF Keyword
  <2>8. s[(c + 2) - 1].text # Word("OFFSET")
    BY <2>2, <2>4 DEF Word
  <2>9. Reading(s, c + 2, "offset", settings, orchestrator.actions, action')
    BY <2>2, <2>3, <2>5, <2>6, <2>7, <2>8, HeadReads
  <2> QED BY <2>1, <2>3, <2>9 DEF ReadInv
<1> QED BY <1>1, <1>2

\* A range that was read.
LEMMA RangeRead ==
    ASSUME IInv, try_parse_range(2)
    PROVE  /\ token_pos + 4 <= Len(tokens) /\ tokens[token_pos + 3].type = "Operator"
           /\ tokens[token_pos + 3].text = Word(":") /\ tokens[token_pos + 4].type = "Value"
           /\ RangeAt(2) = [start |-> NumberAt(tokens, token_pos + 2),
                            second |-> NumberAt(tokens, token_pos + 4)]
<1>1. TypeOK /\ 2 + 1 = 3 /\ 2 + 2 = 4
  BY DEF IInv
<1>2. is_operator(2 + 1, ":") /\ is_expected(2 + 2, "Value") /\ is_expected(2, "Value")
  BY DEF try_parse_range, try_convert_int
<1>3. is_operator(3, ":") /\ is_expected(4, "Value")
  BY <1>1, <1>2
<1>4. tokens[token_pos + 3].type = "Operator" /\ tokens[token_pos + 3].text = Word(":")
  BY <1>1, <1>3, OperatorAt
<1>5. /\ token_pos + 4 <= Len(tokens) /\ tokens[token_pos + 4].type = "Value"
      /\ peek(4) = tokens[token_pos + 4]
  BY <1>1, <1>3, Expected
<1>6. peek(2) = tokens[token_pos + 2]
  BY <1>1, <1>2, Expected
<1>7. RangeAt(2) = [start |-> IntAt(2), second |-> IntAt(4)]
  <2>1. RangeAt(2) = [start |-> IntAt(2), second |-> IntAt(2 + 2)]
    BY DEF RangeAt
  <2> QED BY <2>1, <1>1
<1>8. IntAt(2) = NumberAt(tokens, token_pos + 2) /\ IntAt(4) = NumberAt(tokens, token_pos + 4)
  BY <1>5, <1>6 DEF IntAt, NumberAt
<1> QED BY <1>4, <1>5, <1>7, <1>8

LEMMA RangeActionReads ==
    ASSUME IInv, RangeAction
    PROVE  ReadInv'
<1>1. CASE Reject
  BY <1>1, RejectReads
<1>2. CASE ~Reject
  <2> DEFINE s == tokens
             c == token_pos
             type == s[c + 1].text.rest
             words == ActionWords \ {"CREATE", "SEND"}
  <2>1. /\ AtAction(words) /\ try_parse_range(2)
        /\ action' = [NewAction EXCEPT !.type = peek(1).text.rest, !.range = RangeAt(2)]
        /\ token_pos' = c + 4 /\ at' = "offset" /\ UNCHANGED <<tokens, settings, orchestrator>>
    BY <1>2 DEF RangeAction, Consume
  <2>2. /\ at = "orchestrator" /\ s[c + 1].type = "Keyword" /\ type \in words
        /\ s[c + 2].type = "Value" /\ peek(1) = s[c + 1]
    BY <2>1, AtActionFacts
  <2>3. c \in Nat /\ Len(s) \in Nat /\ Shaped(settings)
    BY Basics
  <2>4. /\ c + 4 <= Len(s) /\ s[c + 3].type = "Operator" /\ s[c + 3].text = Word(":")
        /\ s[c + 4].type = "Value"
        /\ RangeAt(2) = [start |-> NumberAt(s, c + 2), second |-> NumberAt(s, c + 4)]
    BY <2>1, RangeRead
  <2>5. (c + 1) + 1 = c + 2 /\ (c + 1) + 3 = c + 4 /\ (c + 4) - 1 = c + 3
    BY <2>3
  <2>6. action' = Line(s, c + 1, Unset, <<>>)
    <3> DEFINE r == RangeAt(2)
    <3>1. action' = [type |-> type, count |-> Unset, range |-> r,
                     offset_ms |-> Unset, packet_identifier |-> Word(""), mods |-> <<>>]
      BY <2>1, <2>2 DEF NewAction
    <3>2. type # "CREATE" /\ type # "SEND"
      BY <2>2
    <3>3. r = [start |-> NumberAt(s, (c + 1) + 1), second |-> NumberAt(s, (c + 1) + 3)]
      BY <2>4, <2>5
    <3> HIDE DEF r
    <3>4. CountOf(s, c + 1) = Unset /\ RangeOf(s, c + 1) = r /\ PacketOf(s, c + 1) = Word("")
      BY <3>2, <3>3 DEF CountOf, RangeOf, PacketOf
    <3> QED BY <3>1, <3>4 DEF Line
  <2>7. Keyword(s, c + 1, ActionWords)
    BY <2>2 DEF Keyword
  <2>8. \A j \in c + 2 .. c + 4 : s[j].type # "BraceClosed" /\ ~Keyword(s, j, Words)
    <3>1. \A j \in c + 2 .. c + 4 : j \in {c + 2, c + 3, c + 4}
      BY <2>3
    <3> QED BY <3>1, <2>2, <2>4 DEF Keyword
  <2>9. s[(c + 4) - 1].text # Word("OFFSET")
    BY <2>4, <2>5 DEF Word
  <2>10. c + 4 \in Nat /\ c + 2 <= c + 4
    BY <2>3
  <2>11. Reading(s, c + 4, "offset", settings, orchestrator.actions, action')
    BY <2>2, <2>4, <2>6, <2>7, <2>8, <2>9, <2>10, HeadReads
  <2> QED BY <2>1, <2>3, <2>11 DEF ReadInv
<1> QED BY <1>1, <1>2

LEMMA SendReads ==
    ASSUME IInv, Send
    PROVE  ReadInv'
<1>1. CASE Reject
  BY <1>1, RejectReads
<1>2. CASE ~Reject
  <2> DEFINE s == tokens
             c == token_pos
  <2>1. /\ AtAction({"SEND"}) /\ try_parse_range(2) /\ is_expected(5, "Identity")
        /\ is_keyword(6, {"COPIES"}) /\ try_convert_int(7)
        /\ action' = [NewAction EXCEPT !.type = "SEND", !.range = RangeAt(2),
                                        !.packet_identifier = peek(5).text, !.count = IntAt(7)]
        /\ token_pos' = c + 7 /\ at' = "options" /\ UNCHANGED <<tokens, settings, orchestrator>>
    BY <1>2 DEF Send, Consume
  <2>2. /\ at = "orchestrator" /\ s[c + 1].type = "Keyword" /\ s[c + 1].text.rest = "SEND"
        /\ s[c + 2].type = "Value"
    BY <2>1, AtActionFacts
  <2>3. c \in Nat /\ Len(s) \in Nat /\ Shaped(settings)
    BY Basics
  <2>4. /\ s[c + 3].type = "Operator" /\ s[c + 4].type = "Value"
        /\ RangeAt(2) = [start |-> NumberAt(s, c + 2), second |-> NumberAt(s, c + 4)]
    BY <2>1, RangeRead
  <2>5. /\ TypeOK /\ is_expected(6, "Keyword") /\ peek(6).text.rest = "COPIES"
        /\ is_expected(7, "Value")
    BY <2>1 DEF IInv, is_keyword, try_convert_int
  <2>6. s[c + 5].type = "Identity" /\ peek(5) = s[c + 5]
    BY <2>1, <2>5, Expected
  <2>7. s[c + 6].type = "Keyword" /\ s[c + 6].text.rest = "COPIES"
    BY <2>5, Expected
  <2>8. c + 7 <= Len(s) /\ s[c + 7].type = "Value" /\ peek(7) = s[c + 7]
    BY <2>5, Expected
  <2>9. /\ (c + 1) + 1 = c + 2 /\ (c + 1) + 3 = c + 4 /\ (c + 1) + 4 = c + 5
        /\ (c + 1) + 6 = c + 7 /\ (c + 7) - 1 = c + 6
    BY <2>3
  <2>10. action' = Line(s, c + 1, Unset, <<>>)
    <3> DEFINE r == RangeAt(2)
               n == IntAt(7)
               p == peek(5).text
    <3>1. action' = [type |-> "SEND", count |-> n, range |-> r,
                     offset_ms |-> Unset, packet_identifier |-> p, mods |-> <<>>]
      BY <2>1 DEF NewAction
    <3>2. r = [start |-> NumberAt(s, (c + 1) + 1), second |-> NumberAt(s, (c + 1) + 3)]
      BY <2>4, <2>9
    <3>3. n = NumberAt(s, (c + 1) + 6)
      BY <2>8, <2>9 DEF IntAt, NumberAt
    <3>4. p = s[(c + 1) + 4].text
      BY <2>6, <2>9
    <3> HIDE DEF r, n, p
    <3>5. CountOf(s, c + 1) = n
      BY <2>2, <3>3 DEF CountOf
    <3>6. RangeOf(s, c + 1) = r
      BY <2>2, <3>2 DEF RangeOf
    <3>7. PacketOf(s, c + 1) = p
      BY <2>2, <3>4 DEF PacketOf
    <3> QED BY <2>2, <3>1, <3>5, <3>6, <3>7 DEF Line
  <2>11. Keyword(s, c + 1, ActionWords)
    BY <2>2 DEF Keyword, ActionWords
  <2>12. "COPIES" \notin Words
    BY DEF Words, ActionWords, Field
  <2>13. \A j \in c + 2 .. c + 7 : s[j].type # "BraceClosed" /\ ~Keyword(s, j, Words)
    <3>1. \A j \in c + 2 .. c + 7 : j \in {c + 2, c + 3, c + 4, c + 5, c + 6, c + 7}
      BY <2>3
    <3> QED BY <3>1, <2>2, <2>4, <2>6, <2>7, <2>8, <2>12 DEF Keyword
  <2>14. s[(c + 7) - 1].text # Word("OFFSET")
    BY <2>7, <2>9 DEF Word
  <2>15. c + 7 \in Nat /\ c + 2 <= c + 7
    BY <2>3
  <2>16. Reading(s, c + 7, "options", settings, orchestrator.actions, action')
    BY <2>2, <2>8, <2>10, <2>11, <2>13, <2>14, <2>15, HeadReads
  <2> QED BY <2>1, <2>3, <2>16 DEF ReadInv
<1> QED BY <1>1, <1>2

LEMMA NotAnActionReads ==
    ASSUME IInv, NotAnAction
    PROVE  ReadInv'
BY RejectReads DEF NotAnAction

\* What is known while an action is being read.
LEMMA InAction ==
    ASSUME IInv, at \in {"options", "offset"}
    PROVE  /\ HeadRead(tokens, orchestrator.actions, action, token_pos)
           /\ SettingsRead(tokens, settings, token_pos)
           /\ ~Inside(tokens, token_pos + 1, "ENDPOINTS") /\ ~Inside(tokens, token_pos + 1, "PACKETS")
<1>1. CASE at = "options"
  BY <1>1, Basics DEF ActionsRead, ListsKnown
<1>2. CASE at = "offset"
  BY <1>2, Basics DEF ActionsRead, ListsKnown
<1> QED BY <1>1, <1>2

LEMMA OnlyOne ==
    ASSUME NEW n \in Nat \ {0}, n <= 1
    PROVE  n = 1
OBVIOUS

LEMMA OneNumber ==
    ASSUME NEW x, x \in Seq(Int), Len(x) <= 1, x # <<>>
    PROVE  x = <<x[1]>>
<1>1. Len(x) \in Nat \ {0}
  BY EmptySeq, Zenon
<1>2. Len(x) = 1
  BY <1>1, OnlyOne, Zenon
<1>3. x = [i \in 1 .. Len(x) |-> x[i]]
  OBVIOUS
<1> QED BY <1>2, <1>3

LEMMA NumberOnly ==
    ASSUME NEW text \in Text
    PROVE  [text EXCEPT !.rest = ""] = [num |-> text.num, rest |-> ""]
<1> DEFINE n == text.num
           r == text.rest
<1>1. text = [num |-> n, rest |-> r]
  BY DEF Text
<1> DEFINE bare == [text EXCEPT !.rest = ""]
<1>2. DOMAIN text = {"num", "rest"}
  BY <1>1
<1>3. bare = [f \in {"num", "rest"} |-> IF f = "rest" THEN "" ELSE text[f]]
  BY <1>2
<1> HIDE DEF bare
<1>4. bare = [num |-> text.num, rest |-> ""]
  BY <1>3
<1> QED BY <1>4 DEF bare

\* An option that was read is the one its tokens say.
LEMMA OptionRead ==
    ASSUME IInv, is_keyword(1, {"COUNTER", "TIMESTAMP"}), OptionOK
    PROVE  /\ token_pos + 7 <= Len(tokens) /\ Keyword(tokens, token_pos + 1, {"COUNTER", "TIMESTAMP"})
           /\ \A j \in token_pos + 2 .. token_pos + 7 : tokens[j].type \in {"Value", "Operator"}
           /\ tokens[token_pos + 6].text = Word(":")
           /\ OptionAt = WrittenOption(tokens, token_pos + 1)
<1> DEFINE s == tokens
           c == token_pos
<1>1. /\ TypeOK /\ is_expected(1, "Keyword") /\ peek(1).text.rest \in {"COUNTER", "TIMESTAMP"}
      /\ is_expected(2, "Value") /\ try_parse_range(2) /\ is_expected(5, "Value")
      /\ is_operator(6, ":") /\ is_expected(7, "Value")
      /\ is_keyword(1, {"COUNTER"}) => try_convert_int(7)
  BY DEF IInv, is_keyword, OptionOK
<1>2. c \in Nat /\ Len(s) \in Nat /\ s \in Seq(Token)
  BY Basics
<1>3. s[c + 1].type = "Keyword" /\ peek(1) = s[c + 1]
  BY <1>1, Expected
<1>4. s[c + 2].type = "Value"
  BY <1>1, Expected
<1>5. /\ s[c + 3].type = "Operator" /\ s[c + 4].type = "Value"
      /\ RangeAt(2) = [start |-> NumberAt(s, c + 2), second |-> NumberAt(s, c + 4)]
  BY <1>1, RangeRead
<1>6. s[c + 5].type = "Value" /\ peek(5) = s[c + 5]
  BY <1>1, Expected
<1>7. s[c + 6].type = "Operator" /\ s[c + 6].text = Word(":")
  BY <1>1, OperatorAt
<1>8. c + 7 <= Len(s) /\ s[c + 7].type = "Value" /\ peek(7) = s[c + 7]
  BY <1>1, Expected
<1>9. Keyword(s, c + 1, {"COUNTER", "TIMESTAMP"})
  BY <1>1, <1>3 DEF Keyword
<1>10. \A j \in c + 2 .. c + 7 : s[j].type \in {"Value", "Operator"}
  <2>1. \A j \in c + 2 .. c + 7 : j \in {c + 2, c + 3, c + 4, c + 5, c + 6, c + 7}
    BY <1>2
  <2> QED BY <2>1, <1>4, <1>5, <1>6, <1>7, <1>8
<1>11. (c + 1) + 1 = c + 2 /\ (c + 1) + 3 = c + 4 /\ (c + 1) + 4 = c + 5 /\ (c + 1) + 6 = c + 7
  BY <1>2
<1> DEFINE text == s[c + 7].text
           arg == IF Keyword(s, c + 1, {"COUNTER"}) THEN [num |-> <<NumberAt(s, (c + 1) + 6)>>, rest |-> ""]
                  ELSE s[(c + 1) + 6].text
           got == IF is_keyword(1, {"COUNTER"}) THEN [peek(7).text EXCEPT !.rest = ""]
                  ELSE peek(7).text
<1>12. is_keyword(1, {"COUNTER"}) <=> Keyword(s, c + 1, {"COUNTER"})
  BY <1>1, <1>3 DEF is_keyword, Keyword
<1>13. got = arg
  <2>1. CASE Keyword(s, c + 1, {"COUNTER"})
    <3>1. Converts(peek(7).text)
      BY <2>1, <1>1, <1>12 DEF try_convert_int
    <3>2. text.num # <<>>
      BY <3>1, <1>8 DEF Converts
    <3>3. c + 7 \in 1 .. Len(s)
      BY <1>2, <1>8
    <3>4. s[c + 7] \in Token
      BY <1>2, <3>3
    <3>5. text \in Text /\ Len(text.num) <= 1
      BY <3>4 DEF Token
    <3> HIDE DEF text
    <3>6. text.num \in Seq(Int)
      BY <3>5 DEF Text
    <3>8. text.num = <<text.num[1]>>
      BY <3>2, <3>5, <3>6, OneNumber
    <3>9. [text EXCEPT !.rest = ""] = [num |-> text.num, rest |-> ""]
      BY <3>5, NumberOnly
    <3>10. NumberAt(s, (c + 1) + 6) = text.num[1]
      BY <1>11 DEF NumberAt, text
    <3>11. got = [text EXCEPT !.rest = ""]
      BY <2>1, <1>8, <1>12 DEF text
    <3> QED BY <2>1, <3>8, <3>9, <3>10, <3>11
  <2>2. CASE ~Keyword(s, c + 1, {"COUNTER"})
    BY <2>2, <1>8, <1>11, <1>12
  <2> QED BY <2>1, <2>2
<1>14. OptionAt = [type |-> peek(1).text.rest, bytes |-> RangeAt(2),
                   little_endian |-> peek(5).text = Word("little"), arg |-> got]
  BY DEF OptionAt
<1>15. WrittenOption(s, c + 1) =
         [type |-> s[c + 1].text.rest,
          bytes |-> [start |-> NumberAt(s, (c + 1) + 1), second |-> NumberAt(s, (c + 1) + 3)],
          little_endian |-> s[(c + 1) + 4].text = Word("little"), arg |-> arg]
  BY DEF WrittenOption
<1> HIDE DEF got, arg
<1>16. OptionAt = WrittenOption(s, c + 1)
  BY <1>3, <1>5, <1>6, <1>11, <1>13, <1>14, <1>15
<1> QED BY <1>7, <1>8, <1>9, <1>10, <1>16

LEMMA OptionReads ==
    ASSUME IInv, try_parse_send_option
    PROVE  ReadInv'
<1>1. CASE Reject
  BY <1>1, RejectReads
<1>2. CASE ~Reject
  <2> DEFINE s == tokens
             c == token_pos
             d == token_pos + 7
             acts == orchestrator.actions
  <2>1. /\ at = "options" /\ is_keyword(1, {"COUNTER", "TIMESTAMP"}) /\ OptionOK
        /\ action' = [action EXCEPT !.mods = Append(action.mods, OptionAt)]
        /\ token_pos' = d /\ at' = "options" /\ UNCHANGED <<tokens, settings, orchestrator>>
    BY <1>2 DEF try_parse_send_option, Consume
  <2>2. /\ d <= Len(s) /\ Keyword(s, c + 1, {"COUNTER", "TIMESTAMP"})
        /\ \A j \in c + 2 .. d : s[j].type \in {"Value", "Operator"}
        /\ s[c + 6].text = Word(":") /\ OptionAt = WrittenOption(s, c + 1)
    BY <2>1, OptionRead
  <2>3. c \in Nat /\ Len(s) \in Nat /\ Shaped(settings) /\ acts \in Seq(Action)
    BY Basics
  <2>4. /\ HeadRead(s, acts, action, c) /\ SettingsRead(s, settings, c)
        /\ ~Inside(s, c + 1, "ENDPOINTS") /\ ~Inside(s, c + 1, "PACKETS")
    BY <2>1, InAction
  <2>5. d \in Nat /\ c + 2 <= d /\ c <= d /\ d - 1 = c + 6
    BY <2>3
  <2>6. s[d - 1].text # Word("OFFSET")
    BY <2>2, <2>5 DEF Word
  <2>7. action' = [action EXCEPT !.mods = Append(action.mods, WrittenOption(s, c + 1))]
    BY <2>1, <2>2
  <2>8. \A j \in c + 2 .. d : s[j].type \notin {"Keyword", "BraceClosed"}
    BY <2>2
  <2>9. Without(s, c, d, DOMAIN Field \cup {"ENDPOINTS", "PACKETS"})
    <3> SUFFICES ASSUME NEW j \in c + 1 .. d
                 PROVE  ~Keyword(s, j, DOMAIN Field \cup {"ENDPOINTS", "PACKETS"})
      BY DEF Without
    <3>1. j = c + 1 \/ j \in c + 2 .. d
      BY <2>3
    <3>2. CASE j = c + 1
      BY <3>2, <2>2 DEF Keyword, Field
    <3>3. CASE j \in c + 2 .. d
      BY <3>3, <2>8 DEF Keyword
    <3> QED BY <3>1, <3>2, <3>3
  <2> HIDE DEF s, c, d, acts
  <2>10. HeadRead(s, acts, action', d)
    BY <2>2, <2>3, <2>4, <2>5, <2>6, <2>7, <2>8, OptionAdded
  <2>11. /\ SettingsRead(s, settings, d)
         /\ ~Inside(s, d + 1, "ENDPOINTS") /\ ~Inside(s, d + 1, "PACKETS")
    BY <2>3, <2>4, <2>5, <2>9, SettingsKept
  <2>12. Reading(s, d, "options", settings, acts, action')
    BY <2>10, <2>11 DEF Reading, ActionsRead, ListsKnown
  <2> QED BY <2>1, <2>3, <2>12 DEF ReadInv, s, acts
<1> QED BY <1>1, <1>2

LEMMA OptionsEndReads ==
    ASSUME IInv, OptionsEnd
    PROVE  ReadInv'
<1> DEFINE s == tokens
           c == token_pos
           acts == orchestrator.actions
<1>1. /\ at = "options" /\ token_pos' = c + 0 /\ at' = "offset"
      /\ UNCHANGED <<tokens, settings, orchestrator, action>>
  BY DEF OptionsEnd, Consume
<1>2. c \in Nat /\ Shaped(settings)
  BY Basics
<1>3. token_pos' = c
  BY <1>1, <1>2
<1>4. /\ HeadRead(s, acts, action, c) /\ SettingsRead(s, settings, c)
      /\ ~Inside(s, c + 1, "ENDPOINTS") /\ ~Inside(s, c + 1, "PACKETS")
  BY <1>1, InAction
<1>5. Reading(s, c, "offset", settings, acts, action)
  BY <1>4 DEF Reading, ActionsRead, ListsKnown
<1> QED BY <1>1, <1>2, <1>3, <1>5 DEF ReadInv

\* The action of a step may be pushed.
LEMMA PushedOK ==
    ASSUME IInv, NEW ms \in Nat
    PROVE  [action EXCEPT !.offset_ms = ms] \in Action
<1>1. action \in Action
  BY DEF IInv, TypeOK
<1> QED BY <1>1 DEF Action

\* Pushing reads the line of the action up to d.
LEMMA PushReads ==
    ASSUME IInv, at = "offset", NEW d \in Nat, token_pos <= d, d <= Len(tokens),
           \A j \in token_pos + 1 .. d : tokens[j].type # "BraceClosed" /\ ~Keyword(tokens, j, Words),
           NEW ms \in Nat, ms = OffsetOf(tokens, d + 1), PushAction(ms),
           token_pos' = d, at' = "orchestrator", tokens' = tokens
    PROVE  ReadInv'
<1> DEFINE s == tokens
           c == token_pos
           acts == orchestrator.actions
           new == [action EXCEPT !.offset_ms = ms]
<1>1. c \in Nat /\ Len(s) \in Nat /\ Shaped(settings) /\ acts \in Seq(Action)
  BY Basics
<1>2. /\ HeadRead(s, acts, action, c) /\ SettingsRead(s, settings, c)
      /\ ~Inside(s, c + 1, "ENDPOINTS") /\ ~Inside(s, c + 1, "PACKETS")
  BY InAction
<1>3. orchestrator'.actions = Append(acts, new) /\ settings' = settings
  <2>1. orchestrator' = [orchestrator EXCEPT !.actions = Append(acts, new)] /\ settings' = settings
    BY DEF PushAction
  <2>2. orchestrator \in [settings_identifier : Text, actions : Seq(Action)]
    BY DEF IInv, TypeOK
  <2> HIDE DEF new, acts
  <2> QED BY <2>1, <2>2
<1>4. new \in Action
  BY PushedOK
<1>5. /\ \A j \in c + 1 .. d : ~EndsLine(s, j) /\ ~Keyword(s, j, {"COUNTER", "TIMESTAMP"})
      /\ Without(s, c, d, DOMAIN Field \cup {"ENDPOINTS", "PACKETS"})
  BY DEF EndsLine, Keyword, Words, Without
<1>6. c <= d /\ ms = OffsetOf(s, d + 1)
  OBVIOUS
<1>7. LineRead(s, Append(acts, new), d)
  <2>1. new = [action EXCEPT !.offset_ms = ms]
    OBVIOUS
  <2> HIDE DEF s, c, acts
  <2> QED BY <1>1, <1>2, <1>4, <1>5, <1>6, ActionPushed
<1>8. /\ SettingsRead(s, settings, d)
      /\ ~Inside(s, d + 1, "ENDPOINTS") /\ ~Inside(s, d + 1, "PACKETS")
  <2> HIDE DEF s, c
  <2> QED BY <1>1, <1>2, <1>5, <1>6, SettingsKept
<1> DEFINE more == Append(acts, new)
<1> HIDE DEF s, new, acts, more
<1>9. LineRead(s, more, d) /\ orchestrator'.actions = more
  BY <1>3, <1>7 DEF more
<1>10. Reading(s, d, "orchestrator", settings, more, action')
  BY <1>8, <1>9 DEF Reading, ActionsRead, ListsKnown
<1> QED BY <1>1, <1>3, <1>9, <1>10 DEF ReadInv, s

LEMMA NoOffsetReads ==
    ASSUME IInv, NoOffset
    PROVE  ReadInv'
<1> DEFINE s == tokens
           c == token_pos
<1>1. /\ at = "offset" /\ PushAction(DEFAULT_OFFSET_MS) /\ token_pos' = c + 0
      /\ at' = "orchestrator" /\ tokens' = tokens
  BY DEF NoOffset, Consume
<1>2. c \in Nat /\ Len(s) \in Nat /\ c <= Len(s)
  BY Basics
<1>3. HeadRead(s, orchestrator.actions, action, c)
  BY <1>1, InAction
<1>4. s[c - 1].text # Word("OFFSET")
  BY <1>3 DEF HeadRead
<1>5. (c + 1) - 2 = c - 1 /\ c + 0 = c
  BY <1>2
<1>6. DEFAULT_OFFSET_MS = OffsetOf(s, c + 1) /\ DEFAULT_OFFSET_MS \in Nat
  BY <1>4, <1>5, ParserAssumption DEF OffsetOf
<1>7. \A j \in c + 1 .. c : FALSE
  BY <1>2
<1>8. token_pos' = c
  BY <1>1, <1>5
<1> QED BY <1>1, <1>2, <1>6, <1>7, <1>8, PushReads

\* A text that converts is a time.
LEMMA TimeTyped ==
    ASSUME NEW text, Converts(text)
    PROVE  Milliseconds(text) \in Nat
<1> DEFINE n == text.num[1]
           k == IF text.rest \in SecondRests THEN 1000 ELSE 1
<1>1. n \in 0 .. IntMax /\ IntMax \in Nat
  BY ParserAssumption DEF Converts
<1>2. k \in {1, 1000}
  OBVIOUS
<1>3. Milliseconds(text) = (n * k) % (2 * (IntMax + 1))
  BY DEF Milliseconds
<1> HIDE DEF n, k
<1>4. n * k \in Nat
  BY <1>1, <1>2
<1>5. 2 * (IntMax + 1) \in Nat \ {0}
  BY <1>1
<1> QED BY <1>3, <1>4, <1>5

LEMMA OffsetReads ==
    ASSUME IInv, Offset
    PROVE  ReadInv'
<1>1. CASE Reject
  BY <1>1, RejectReads
<1>2. CASE ~Reject
  <2> DEFINE s == tokens
             c == token_pos
             d == token_pos + 2
             ms == Milliseconds(s[c + 2].text)
  <2>1. /\ at = "offset" /\ peek(1).text = Word("OFFSET") /\ try_parse_time(2)
        /\ PushAction(Milliseconds(peek(2).text)) /\ token_pos' = d
        /\ at' = "orchestrator" /\ tokens' = tokens
    BY <1>2 DEF Offset, Consume
  <2>2. c \in Nat /\ Len(s) \in Nat /\ c <= Len(s) /\ s \in Seq(Token)
    BY Basics
  <2>3. TypeOK /\ is_expected(2, "Value") /\ Converts(peek(2).text)
    BY <2>1 DEF IInv, try_parse_time
  <2>4. d <= Len(s) /\ s[c + 2].type = "Value" /\ peek(2) = s[c + 2]
    BY <2>3, Expected
  <2>5. c + 1 <= Len(s) /\ c + 1 \in 1 .. Len(s)
    BY <2>2, <2>4
  <2>6. s[c + 1].text = Word("OFFSET")
    BY <2>1, <2>2, <2>5 DEF peek
  <2>7. s[c + 1] \in Token
    BY <2>2, <2>5
  <2>8. s[c + 1].text.rest = "OFFSET" /\ s[c + 1].type # "BraceClosed"
    <3>3. Word("OFFSET").rest = "OFFSET" /\ Word("}").rest = "}"
      BY DEF Word
    <3>4. "OFFSET" # "}"
      OBVIOUS
    <3>1. s[c + 1].text.rest = "OFFSET" /\ Word("}") # Word("OFFSET")
      BY <2>6, <3>3, <3>4
    <3>2. s[c + 1].type = "BraceClosed" => s[c + 1].text = Word("}")
      BY <2>7 DEF Token
    <3> QED BY <2>6, <3>1, <3>2
  <2>9. "OFFSET" \notin Words
    BY DEF Words, ActionWords, Field
  <2>10. \A j \in c + 1 .. d : s[j].type # "BraceClosed" /\ ~Keyword(s, j, Words)
    <3>1. \A j \in c + 1 .. d : j \in {c + 1, c + 2}
      BY <2>2
    <3> QED BY <3>1, <2>4, <2>8, <2>9 DEF Keyword
  <2>11. ms = OffsetOf(s, d + 1)
    <3>1. (d + 1) - 2 = c + 1 /\ (d + 1) - 1 = c + 2
      BY <2>2
    <3> QED BY <3>1, <2>6 DEF OffsetOf
  <2>12. ms \in Nat
    BY <2>3, <2>4, TimeTyped
  <2>13. PushAction(ms)
    BY <2>1, <2>4
  <2>14. d \in Nat /\ c <= d
    BY <2>2
  <2> HIDE DEF ms
  <2> QED BY <2>1, <2>4, <2>10, <2>11, <2>12, <2>13, <2>14, PushReads
<1> QED BY <1>1, <1>2

LEMMA InitReads ==
    ASSUME Init
    PROVE  ReadInv
<1> DEFINE s == tokens
           u == Upto(Starts(s))[0]
<1>1. /\ token_pos = 0 /\ at = "parse" /\ settings = NewSettings
      /\ orchestrator.actions = <<>>
  BY DEF Init
<1>2. u = <<>> /\ Len(u) = 0
  BY UptoIs
<1>3. AllRead(s, <<>>, 0)
  BY <1>2 DEF AllRead, ReadTo
<1>4. KeysRead(s, NewSettings, 0)
  <2> SUFFICES ASSUME NEW key \in DOMAIN Field
               PROVE  NewSettings[Field[key]] = WrittenSetting(s, 0, key)
    BY DEF KeysRead
  <2>1. Upto(Uses(s, key))[0] = <<>>
    BY UptoIs
  <2> QED BY <2>1 DEF WrittenSetting
<1>5. NewSettings.endpoints = WrittenEndpoints(s, 0)
  <2>1. Upto(EndpointsIn(s))[0] = <<>>
    BY UptoIs
  <2> QED BY <2>1 DEF WrittenEndpoints, NewSettings
<1>6. PacketsRead(s, NewSettings.packet_identifiers, 0)
  <2>1. NewSettings.packet_identifiers = <<>>
    BY DEF NewSettings
  <2>2. PacketsIn(s) \cap (1 .. 0) = {}
    OBVIOUS
  <2>3. WrittenPackets(s, 0) = {}
    BY <2>2 DEF WrittenPackets
  <2>4. DOMAIN <<>> = {}
    OBVIOUS
  <2> QED BY <2>1, <2>3, <2>4 DEF PacketsRead
<1>7. \A word : ~Inside(s, 0 + 1, word)
  BY DEF Inside
<1>8. Shaped(NewSettings)
  BY DEF Shaped, SettingNames, NewSettings
<1>9. SettingsRead(s, NewSettings, 0)
  BY <1>4, <1>5, <1>6 DEF SettingsRead
<1>10. Reading(s, 0, "parse", NewSettings, <<>>, action)
  BY <1>3, <1>7, <1>9 DEF Reading, ActionsRead, ListsKnown
<1> QED BY <1>1, <1>8, <1>10 DEF ReadInv

LEMMA StepReads ==
    ASSUME IInv, [Next]_vars
    PROVE  ReadInv'
<1>1. CASE UNCHANGED vars
  BY <1>1 DEF vars, IInv, ReadInv
<1>2. CASE Next
  BY <1>2, EndReads, SettingsHeaderReads, OrchestratorHeaderReads, CloseBlockReads, SettingReads,
     NestedReads, PacketReads, EndpointReads, CloseListReads, CreateReads, RangeActionReads,
     SendReads, NotAnActionReads, OptionReads, OptionsEndReads, OffsetReads, NoOffsetReads DEF Next
<1> QED BY <1>1, <1>2

-----------------------------------------------------------------------------
(* Types. *)

\* The type of a setting; the packets are a map that grows.
Kinds ==
    [identifier |-> Text, session_protocol |-> Text, handler_value |-> Text,
     header_size |-> Number \cup {Unset}, body_max |-> Number \cup {Unset},
     read |-> BOOLEAN, repeat |-> BOOLEAN, packet_sample_rate |-> Number, shards |-> Number,
     port |-> Number, endpoints |-> Seq(Text)]
PacketMap(map) == \A p \in DOMAIN map : p \in Text /\ map[p] \in Text
SettingsTyped(set) ==
    (\A f \in DOMAIN Kinds : set[f] \in Kinds[f]) /\ PacketMap(set.packet_identifiers)

Loops ==
    {"parse", "settings", "packets", "endpoints", "orchestrator", "options", "offset", "accepted",
     "rejected"}
Typed(s, c, where, set, orch, act) ==
    /\ s \in Seq(Token) /\ c \in 0 .. Len(s) /\ where \in Loops
    /\ SettingsTyped(set)
    /\ orch \in [settings_identifier : Text, actions : Seq(Action)]
    /\ act \in Action

LEMMA KindNames ==
    /\ DOMAIN Kinds = {"identifier", "session_protocol", "handler_value", "header_size", "body_max",
                       "read", "repeat", "packet_sample_rate", "shards", "port", "endpoints"}
    /\ DOMAIN Kinds \subseteq SettingNames /\ "packet_identifiers" \in SettingNames
    /\ "packet_identifiers" \notin DOMAIN Kinds
<1>1. DOMAIN Kinds = {"identifier", "session_protocol", "handler_value", "header_size", "body_max",
                      "read", "repeat", "packet_sample_rate", "shards", "port", "endpoints"}
  BY DEF Kinds
<1>2. SettingNames = {"identifier", "session_protocol", "handler_value", "header_size", "body_max",
                      "read", "repeat", "packet_sample_rate", "shards", "port", "endpoints",
                      "packet_identifiers"}
  BY DEF SettingNames, NewSettings
<1> QED BY <1>1, <1>2

LEMMA KindsAre ==
    /\ Kinds.identifier = Text /\ Kinds.session_protocol = Text /\ Kinds.handler_value = Text
    /\ Kinds.header_size = Number \cup {Unset} /\ Kinds.body_max = Number \cup {Unset}
    /\ Kinds.read = BOOLEAN /\ Kinds.repeat = BOOLEAN
    /\ Kinds.packet_sample_rate = Number /\ Kinds.shards = Number /\ Kinds.port = Number
    /\ Kinds.endpoints = Seq(Text)
BY DEF Kinds

LEMMA TypedIs ==
    ASSUME TypeOK
    PROVE  Typed(tokens, token_pos, at, settings, orchestrator, action)
<1>1. SettingsTyped(settings)
  <2> SUFFICES ASSUME NEW f \in DOMAIN Kinds PROVE settings[f] \in Kinds[f]
    BY DEF TypeOK, SettingsTyped, PacketMap
  <2>1. /\ settings.identifier \in Text /\ settings.session_protocol \in Text
        /\ settings.handler_value \in Text /\ settings.endpoints \in Seq(Text)
    BY DEF TypeOK
  <2>2. /\ settings.header_size \in Number \cup {Unset} /\ settings.body_max \in Number \cup {Unset}
        /\ settings.packet_sample_rate \in Number /\ settings.shards \in Number
        /\ settings.port \in Number
    BY DEF TypeOK
  <2>3. settings.read \in BOOLEAN /\ settings.repeat \in BOOLEAN
    BY DEF TypeOK
  <2> QED BY <2>1, <2>2, <2>3, KindNames, KindsAre
<1> QED BY <1>1 DEF TypeOK, Typed, Loops

LEMMA SettingsTypes ==
    ASSUME NEW set, Shaped(set), SettingsTyped(set)
    PROVE  /\ DOMAIN set = DOMAIN NewSettings
           /\ {set.identifier, set.session_protocol, set.handler_value} \subseteq Text
           /\ {set.header_size, set.body_max} \subseteq Number \cup {Unset}
           /\ {set.read, set.repeat} \subseteq BOOLEAN
           /\ {set.packet_sample_rate, set.shards, set.port} \subseteq Number
           /\ set.endpoints \in Seq(Text)
           /\ \A p \in DOMAIN set.packet_identifiers :
                 p \in Text /\ set.packet_identifiers[p] \in Text
<1>1. DOMAIN set = DOMAIN NewSettings
  <2> DEFINE g == [f \in SettingNames |-> set[f]]
  <2>1. set = g /\ DOMAIN g = SettingNames
    BY DEF Shaped
  <2> QED BY <2>1 DEF SettingNames
<1>2. \A f \in DOMAIN Kinds : set[f] \in Kinds[f]
  BY DEF SettingsTyped
<1>3. /\ set.identifier \in Text /\ set.session_protocol \in Text
      /\ set.handler_value \in Text /\ set.endpoints \in Seq(Text)
  BY <1>2, KindNames, KindsAre
<1>4. /\ set.header_size \in Number \cup {Unset} /\ set.body_max \in Number \cup {Unset}
      /\ set.packet_sample_rate \in Number /\ set.shards \in Number /\ set.port \in Number
  BY <1>2, KindNames, KindsAre
<1>5. set.read \in BOOLEAN /\ set.repeat \in BOOLEAN
  BY <1>2, KindNames, KindsAre
<1>6. PacketMap(set.packet_identifiers)
  BY DEF SettingsTyped
<1> QED BY <1>1, <1>3, <1>4, <1>5, <1>6 DEF PacketMap

\* A step that leaves every variable well typed.
LEMMA TypedStep ==
    ASSUME ReadInv', Typed(tokens', token_pos', at', settings', orchestrator', action')
    PROVE  TypeOK'
<1>1. Shaped(settings') /\ SettingsTyped(settings')
  BY DEF ReadInv, Typed
<1> DEFINE set == settings'
<1>2. /\ DOMAIN set = DOMAIN NewSettings
      /\ {set.identifier, set.session_protocol, set.handler_value} \subseteq Text
      /\ {set.header_size, set.body_max} \subseteq Number \cup {Unset}
      /\ {set.read, set.repeat} \subseteq BOOLEAN
      /\ {set.packet_sample_rate, set.shards, set.port} \subseteq Number
      /\ set.endpoints \in Seq(Text)
      /\ \A p \in DOMAIN set.packet_identifiers :
            p \in Text /\ set.packet_identifiers[p] \in Text
  BY <1>1, SettingsTypes
<1> QED BY <1>2 DEF TypeOK, Typed, Loops

\* A token that is there is well typed.
LEMMA TextPeeked ==
    ASSUME TypeOK, NEW k \in 1 .. 8, token_pos + k <= Len(tokens)
    PROVE  peek(k).text \in Text
<1>1. peek(k) \in Token
  BY Peeked
<1> QED BY <1>1 DEF Token

\* A value that converts is a number.
LEMMA IntPeeked ==
    ASSUME TypeOK, NEW k \in 1 .. 8, try_convert_int(k)
    PROVE  IntAt(k) \in Number
BY DEF try_convert_int, Converts, IntAt, Number

LEMMA RangePeeked ==
    ASSUME TypeOK, try_parse_range(2)
    PROVE  RangeAt(2) \in Range2
<1>1. 2 + 2 = 4
  OBVIOUS
<1>2. try_convert_int(2) /\ try_convert_int(2 + 2) /\ RangeAt(2) = [start |-> IntAt(2), second |-> IntAt(2 + 2)]
  BY DEF try_parse_range, RangeAt
<1>3. try_convert_int(4) /\ RangeAt(2) = [start |-> IntAt(2), second |-> IntAt(4)]
  BY <1>1, <1>2
<1>4. IntAt(2) \in Number
  BY <1>2, IntPeeked
<1>5. IntAt(4) \in Number
  BY <1>3, IntPeeked
<1> QED BY <1>3, <1>4, <1>5 DEF Range2

LEMMA RejectTyped ==
    ASSUME IInv, Reject
    PROVE  TypeOK'
BY DEF IInv, TypeOK, Reject

\* Consuming tokens that are there.
LEMMA Consumed ==
    ASSUME TypeOK, NEW n \in 0 .. 8, token_pos + n <= Len(tokens), token_pos' = token_pos + n,
           tokens' = tokens
    PROVE  tokens' \in Seq(Token) /\ token_pos' \in 0 .. Len(tokens')
<1>1. tokens \in Seq(Token) /\ token_pos \in 0 .. Len(tokens)
  BY DEF TypeOK
<1> QED BY <1>1

\* Setting something to a value of its type.
LEMMA PutTyped ==
    ASSUME NEW set, Shaped(set), SettingsTyped(set), NEW name \in DOMAIN Kinds,
           NEW value \in Kinds[name]
    PROVE  SettingsTyped(Put(set, name, value))
<1> DEFINE new == Put(set, name, value)
<1>1. name \in SettingNames /\ name # "packet_identifiers" /\ "packet_identifiers" \in SettingNames
  BY KindNames
<1>2. new[name] = value /\ \A f \in SettingNames : f # name => new[f] = set[f]
  BY <1>1, Updated
<1> HIDE DEF new
<1>3. new.packet_identifiers = set.packet_identifiers
  BY <1>1, <1>2
<1>4. \A f \in DOMAIN Kinds : new[f] \in Kinds[f]
  BY <1>2, KindNames DEF SettingsTyped
<1> QED BY <1>3, <1>4 DEF SettingsTyped, new

LEMMA NothingTyped ==
    /\ Word("") \in Text
    /\ <<>> \in Seq(Text) /\ <<>> \in Seq(Modification) /\ <<>> \in Seq(Action)
<1>1. Word("") \in Text
  <2>1. <<>> \in Seq(Int)
    BY EmptySeq
  <2> DEFINE none == <<>>
             rest == ""
  <2>2. none \in Seq(Int) /\ rest \in STRING \cup {""}
    BY <2>1
  <2> HIDE DEF none, rest
  <2>3. [num |-> none, rest |-> rest] \in [num : Seq(Int), rest : STRING \cup {""}]
    BY <2>2
  <2> QED BY <2>3 DEF Word, Text, none, rest
<1>2. \A S : <<>> \in Seq(S)
  BY EmptySeq
<1> QED BY <1>1, <1>2, Zenon

LEMMA InitTypedSettings ==
    Shaped(NewSettings) /\ SettingsTyped(NewSettings)
<1>1. Shaped(NewSettings)
  BY DEF Shaped, SettingNames, NewSettings
<1>2. Word("") \in Text /\ <<>> \in Seq(Text)
  BY NothingTyped
<1>3. 0 \in Number
  BY ParserAssumption DEF Number
<1>4. /\ NewSettings.identifier = Word("") /\ NewSettings.session_protocol = Word("")
      /\ NewSettings.handler_value = Word("") /\ NewSettings.header_size = Unset
      /\ NewSettings.body_max = Unset /\ NewSettings.read = FALSE /\ NewSettings.repeat = FALSE
      /\ NewSettings.packet_sample_rate = 0 /\ NewSettings.shards = 0 /\ NewSettings.port = 0
      /\ NewSettings.endpoints = <<>> /\ NewSettings.packet_identifiers = <<>>
  BY DEF NewSettings
<1>5. \A f \in DOMAIN Kinds : NewSettings[f] \in Kinds[f]
  BY <1>2, <1>3, <1>4, KindNames, KindsAre
<1>6. PacketMap(NewSettings.packet_identifiers)
  <2>1. DOMAIN <<>> = {}
    OBVIOUS
  <2>2. PacketMap(<<>>)
    BY <2>1 DEF PacketMap
  <2> QED BY <2>2, <1>4
<1> QED BY <1>1, <1>5, <1>6 DEF SettingsTyped

LEMMA NewActionTyped ==
    NewAction \in Action
<1>1. Word("") \in Text /\ <<>> \in Seq(Modification)
  BY NothingTyped
<1> QED BY <1>1 DEF NewAction, Action

\* An edited script is a list of tokens.
LEMMA EditsTyped ==
    ASSUME NEW s \in Seq(Token), NEW e \in Edits(s)
    PROVE  e \in Seq(Token)
<1>1. Len(s) \in Nat /\ \A i \in 1 .. Len(s) : s[i] \in Token
  OBVIOUS
<1>2. ASSUME NEW m \in 1 .. Len(s) + 1, NEW n \in 0 .. Len(s) PROVE SubSeq(s, m, n) \in Seq(Token)
  <2>1. m \in Int /\ n \in Int /\ \A i \in m .. n : i \in 1 .. Len(s)
    BY <1>1
  <2>2. \A i \in m .. n : s[i] \in Token
    BY <1>1, <2>1
  <2> QED BY <2>1, <2>2, SubSeqProperties
<1>3. CASE \E n \in 1 .. Len(s) - 1 : e = SubSeq(s, 1, n)
  BY <1>1, <1>2, <1>3
<1>4. CASE \E i \in 1 .. Len(s) : e = RemoveAt(s, i)
  <2>1. PICK i \in 1 .. Len(s) : e = RemoveAt(s, i)
    BY <1>4
  <2>2. 1 \in 1 .. Len(s) + 1 /\ i - 1 \in 0 .. Len(s) /\ i + 1 \in 1 .. Len(s) + 1 /\ Len(s) \in 0 .. Len(s)
    BY <1>1
  <2>3. SubSeq(s, 1, i - 1) \in Seq(Token) /\ SubSeq(s, i + 1, Len(s)) \in Seq(Token)
    BY <1>2, <2>2
  <2>4. SubSeq(s, 1, i - 1) \o SubSeq(s, i + 1, Len(s)) \in Seq(Token)
    BY <2>3, ConcatProperties
  <2> QED BY <2>1, <2>4 DEF RemoveAt
<1>5. CASE \E i \in 1 .. Len(s), t \in Strays : e = InsertAt(s, i, t)
  <2>1. PICK i \in 1 .. Len(s), t \in Strays : e = InsertAt(s, i, t)
    BY <1>5
  <2>2. 1 \in 1 .. Len(s) + 1 /\ i - 1 \in 0 .. Len(s) /\ i \in 1 .. Len(s) + 1 /\ Len(s) \in 0 .. Len(s)
    BY <1>1
  <2>3. SubSeq(s, 1, i - 1) \in Seq(Token) /\ SubSeq(s, i, Len(s)) \in Seq(Token)
    BY <1>2, <2>2
  <2>4. t \in Token
    BY ParserAssumption
  <2>5. <<t>> \in Seq(Token)
    BY <2>4
  <2>6. SubSeq(s, 1, i - 1) \o <<t>> \in Seq(Token)
    BY <2>3, <2>5, ConcatProperties
  <2>7. (SubSeq(s, 1, i - 1) \o <<t>>) \o SubSeq(s, i, Len(s)) \in Seq(Token)
    BY <2>3, <2>6, ConcatProperties
  <2> QED BY <2>1, <2>7 DEF InsertAt
<1>6. CASE \E i \in 1 .. Len(s), t \in Strays : e = ReplaceAt(s, i, t)
  <2>1. PICK i \in 1 .. Len(s), t \in Strays : e = ReplaceAt(s, i, t)
    BY <1>6
  <2>2. t \in Token
    BY ParserAssumption
  <2>3. [s EXCEPT ![i] = t] \in Seq(Token)
    BY <2>2
  <2> QED BY <2>1, <2>3 DEF ReplaceAt
<1> QED BY <1>3, <1>4, <1>5, <1>6 DEF Edits

LEMMA InitTyped ==
    ASSUME Init
    PROVE  TypeOK
<1>1. tokens \in Seq(Token)
  <2>1. CASE intact
    BY <2>1, ParserAssumption DEF Init
  <2>2. CASE ~intact
    <3>1. PICK s \in Scripts : tokens \in Edits(s)
      BY <2>2 DEF Init
    <3>2. s \in Seq(Token)
      BY ParserAssumption
    <3> QED BY <3>1, <3>2, EditsTyped
  <2> QED BY <2>1, <2>2
<1>2. token_pos = 0 /\ at = "parse" /\ settings = NewSettings /\ action = NewAction
  BY DEF Init
<1>6. orchestrator = [settings_identifier |-> Word(""), actions |-> <<>>]
  BY DEF Init
<1>5. token_pos \in 0 .. Len(tokens)
  BY <1>1, <1>2
<1>3. orchestrator \in [settings_identifier : Text, actions : Seq(Action)]
  <2>1. Word("") \in Text /\ <<>> \in Seq(Action)
    BY NothingTyped
  <2> QED BY <2>1, <1>6
<1> DEFINE set == NewSettings
<1>4. /\ DOMAIN set = DOMAIN NewSettings
      /\ {set.identifier, set.session_protocol, set.handler_value} \subseteq Text
      /\ {set.header_size, set.body_max} \subseteq Number \cup {Unset}
      /\ {set.read, set.repeat} \subseteq BOOLEAN
      /\ {set.packet_sample_rate, set.shards, set.port} \subseteq Number
      /\ set.endpoints \in Seq(Text)
      /\ \A p \in DOMAIN set.packet_identifiers :
            p \in Text /\ set.packet_identifiers[p] \in Text
  BY InitTypedSettings, SettingsTypes
<1> QED BY <1>1, <1>2, <1>3, <1>4, <1>5, NewActionTyped DEF TypeOK

\* What a step starts from, part by part.
LEMMA TypeParts ==
    ASSUME IInv
    PROVE  /\ TypeOK /\ Shaped(settings) /\ SettingsTyped(settings)
           /\ orchestrator \in [settings_identifier : Text, actions : Seq(Action)]
           /\ action \in Action /\ at \in Loops
<1>1. TypeOK /\ Shaped(settings)
  BY DEF IInv, ReadInv
<1>2. Typed(tokens, token_pos, at, settings, orchestrator, action)
  BY <1>1, TypedIs
<1> QED BY <1>1, <1>2 DEF Typed

\* A step that only consumes tokens.
LEMMA OnlyConsumes ==
    ASSUME IInv, ReadInv', NEW n \in 0 .. 8, token_pos + n <= Len(tokens), token_pos' = token_pos + n,
           tokens' = tokens, at' \in Loops, SettingsTyped(settings'),
           orchestrator' \in [settings_identifier : Text, actions : Seq(Action)], action' \in Action
    PROVE  TypeOK'
<1>1. TypeOK
  BY DEF IInv
<1>2. tokens' \in Seq(Token) /\ token_pos' \in 0 .. Len(tokens')
  BY <1>1, Consumed
<1>3. Typed(tokens', token_pos', at', settings', orchestrator', action')
  BY <1>2 DEF Typed
<1> QED BY <1>3, TypedStep

LEMMA EndTyped ==
    ASSUME IInv, ReadInv', parse
    PROVE  TypeOK'
<1>1. CASE Reject
  BY <1>1, RejectTyped
<1>2. CASE ~Reject
  <2>1. /\ token_pos' = token_pos + 0 /\ at' = "accepted"
        /\ UNCHANGED <<tokens, settings, orchestrator, action>>
    BY <1>2 DEF parse, Consume
  <2>2. token_pos + 0 <= Len(tokens) /\ at' \in Loops
    BY <2>1, Basics DEF Loops
  <2>3. /\ SettingsTyped(settings') /\ action' \in Action
        /\ orchestrator' \in [settings_identifier : Text, actions : Seq(Action)]
    BY <2>1, TypeParts
  <2> QED BY <2>1, <2>2, <2>3, OnlyConsumes
<1> QED BY <1>1, <1>2

LEMMA SettingsHeaderTyped ==
    ASSUME IInv, ReadInv', parse_settings
    PROVE  TypeOK'
<1>1. CASE Reject
  BY <1>1, RejectTyped
<1>2. CASE ~Reject
  <2> DEFINE name == peek(2).text
  <2>1. /\ BlockHeader /\ settings' = [settings EXCEPT !.identifier = name]
        /\ token_pos' = token_pos + 3 /\ at' = "settings"
        /\ UNCHANGED <<tokens, orchestrator, action>>
    BY <1>2 DEF parse_settings, Consume
  <2>2. TypeOK /\ is_expected(2, "Identity") /\ is_expected(3, "BraceOpen")
    BY <2>1 DEF BlockHeader, IInv
  <2>3. token_pos + 3 <= Len(tokens)
    BY <2>2, Expected
  <2>4. token_pos + 2 <= Len(tokens)
    BY <2>2, Expected
  <2>5. name \in Text
    BY <2>2, <2>4, TextPeeked
  <2> HIDE DEF name
  <2>6. settings' = Put(settings, "identifier", name)
    BY <2>1 DEF Put
  <2>7. "identifier" \in DOMAIN Kinds /\ name \in Kinds["identifier"]
    BY <2>5, KindNames, KindsAre
  <2>8. SettingsTyped(Put(settings, "identifier", name))
    BY <2>7, TypeParts, PutTyped
  <2>9. SettingsTyped(settings') /\ at' \in Loops
    BY <2>1, <2>6, <2>8 DEF Loops
  <2>10. action' \in Action /\ orchestrator' \in [settings_identifier : Text, actions : Seq(Action)]
    BY <2>1, TypeParts
  <2> QED BY <2>1, <2>3, <2>9, <2>10, OnlyConsumes
<1> QED BY <1>1, <1>2

LEMMA OrchestratorHeaderTyped ==
    ASSUME IInv, ReadInv', parse_orchestrator
    PROVE  TypeOK'
<1>1. CASE Reject
  BY <1>1, RejectTyped
<1>2. CASE ~Reject
  <2> DEFINE name == peek(2).text
  <2>1. /\ BlockHeader /\ orchestrator' = [orchestrator EXCEPT !.settings_identifier = name]
        /\ token_pos' = token_pos + 3 /\ at' = "orchestrator"
        /\ UNCHANGED <<tokens, settings, action>>
    BY <1>2 DEF parse_orchestrator, Consume
  <2>2. TypeOK /\ is_expected(2, "Identity") /\ is_expected(3, "BraceOpen")
    BY <2>1 DEF BlockHeader, IInv
  <2>3. token_pos + 3 <= Len(tokens)
    BY <2>2, Expected
  <2>4. token_pos + 2 <= Len(tokens)
    BY <2>2, Expected
  <2>5. name \in Text
    BY <2>2, <2>4, TextPeeked
  <2> HIDE DEF name
  <2>6. orchestrator \in [settings_identifier : Text, actions : Seq(Action)]
    BY TypeParts
  <2>7. orchestrator' \in [settings_identifier : Text, actions : Seq(Action)]
    BY <2>1, <2>5, <2>6
  <2>8. SettingsTyped(settings') /\ action' \in Action /\ at' \in Loops
    BY <2>1, TypeParts DEF Loops
  <2> QED BY <2>1, <2>3, <2>7, <2>8, OnlyConsumes
<1> QED BY <1>1, <1>2

LEMMA CloseTyped ==
    ASSUME IInv, ReadInv', CloseBlock \/ CloseList
    PROVE  TypeOK'
<1>1. /\ is_expected(1, "BraceClosed") /\ token_pos' = token_pos + 1 /\ at' \in {"parse", "settings"}
      /\ UNCHANGED <<tokens, settings, orchestrator, action>>
  BY DEF CloseBlock, CloseList, Consume
<1>2. TypeOK
  BY DEF IInv
<1>3. token_pos + 1 <= Len(tokens)
  BY <1>1, <1>2, Expected
<1>4. /\ SettingsTyped(settings') /\ action' \in Action /\ at' \in Loops
      /\ orchestrator' \in [settings_identifier : Text, actions : Seq(Action)]
  BY <1>1, TypeParts DEF Loops
<1> QED BY <1>1, <1>3, <1>4, OnlyConsumes

\* A setting has the type of its field.
LEMMA ValueTyped ==
    ASSUME NEW key, NEW text \in Text, SettingOK(key, text)
    PROVE  Field[key] \in DOMAIN Kinds /\ SettingValue(key, text) \in Kinds[Field[key]]
<1>1. DOMAIN Field = {"SESSION", "HANDLER", "PORT", "HEADERSIZE", "BODYMAX", "SAMPLERATE", "SHARDS",
                      "READ", "REPEAT"}
  BY DEF Field
<1>2. /\ Field["SESSION"] = "session_protocol" /\ Field["HANDLER"] = "handler_value"
      /\ Field["PORT"] = "port" /\ Field["HEADERSIZE"] = "header_size"
      /\ Field["BODYMAX"] = "body_max" /\ Field["SAMPLERATE"] = "packet_sample_rate"
      /\ Field["SHARDS"] = "shards" /\ Field["READ"] = "read" /\ Field["REPEAT"] = "repeat"
  BY DEF Field
<1>3. key \in DOMAIN Field /\ (key \notin {"SESSION", "HANDLER", "READ", "REPEAT"} => Converts(text))
  BY DEF SettingOK, TextKeys, BoolKeys
<1>4. CASE key \in {"SESSION", "HANDLER"}
  <2>1. SettingValue(key, text) = text
    <3>1. key \in TextKeys /\ key \notin BoolKeys
      BY <1>4 DEF TextKeys, BoolKeys
    <3> QED BY <3>1, Zenon DEF SettingValue
  <2> QED BY <2>1, <1>2, <1>4, KindNames, KindsAre
<1>5. CASE key \in {"READ", "REPEAT"}
  <2>1. SettingValue(key, text) \in BOOLEAN
    <3>1. key \notin TextKeys /\ key \in BoolKeys
      BY <1>5 DEF TextKeys, BoolKeys
    <3>2. SettingValue(key, text) = (text = Word("true"))
      BY <3>1, Zenon DEF SettingValue
    <3>3. (text = Word("true")) \in BOOLEAN
      BY Zenon
    <3> QED BY <3>2, <3>3, Zenon
  <2>2. Kinds[Field[key]] = BOOLEAN /\ Field[key] \in DOMAIN Kinds
    BY <1>2, <1>5, KindNames, KindsAre
  <2> QED BY <2>1, <2>2
<1>6. CASE key \in {"PORT", "HEADERSIZE", "BODYMAX", "SAMPLERATE", "SHARDS"}
  <2>1. SettingValue(key, text) = text.num[1]
    BY <1>6 DEF SettingValue, TextKeys, BoolKeys
  <2>2. text.num[1] \in Number
    BY <1>3, <1>6 DEF Converts, Number
  <2>3. /\ Field[key] \in DOMAIN Kinds
        /\ Kinds[Field[key]] = Number \/ Kinds[Field[key]] = Number \cup {Unset}
    BY <1>2, <1>6, KindNames, KindsAre
  <2> QED BY <2>1, <2>2, <2>3
<1> QED BY <1>1, <1>3, <1>4, <1>5, <1>6

LEMMA SettingTyped ==
    ASSUME IInv, ReadInv', Setting
    PROVE  TypeOK'
<1>1. CASE Reject
  BY <1>1, RejectTyped
<1>2. CASE ~Reject
  <2> DEFINE key == peek(1).text.rest
             text == peek(3).text
  <2>1. /\ is_expected(3, "Value") /\ SettingOK(key, text)
        /\ settings' = [settings EXCEPT ![Field[key]] = SettingValue(key, text)]
        /\ token_pos' = token_pos + 3 /\ at' = "settings" /\ UNCHANGED <<tokens, orchestrator, action>>
    BY <1>2 DEF Setting, Consume
  <2>2. TypeOK
    BY DEF IInv
  <2>3. token_pos + 3 <= Len(tokens)
    BY <2>1, <2>2, Expected
  <2>4. text \in Text
    BY <2>2, <2>3, TextPeeked
  <2> HIDE DEF key, text
  <2>5. Field[key] \in DOMAIN Kinds /\ SettingValue(key, text) \in Kinds[Field[key]]
    BY <2>1, <2>4, ValueTyped
  <2>6. SettingsTyped(Put(settings, Field[key], SettingValue(key, text)))
    BY <2>5, TypeParts, PutTyped
  <2>7. SettingsTyped(settings') /\ at' \in Loops
    BY <2>1, <2>6 DEF Put, Loops
  <2>8. action' \in Action /\ orchestrator' \in [settings_identifier : Text, actions : Seq(Action)]
    BY <2>1, TypeParts
  <2> QED BY <2>1, <2>3, <2>7, <2>8, OnlyConsumes
<1> QED BY <1>1, <1>2

LEMMA NestedTyped ==
    ASSUME IInv, ReadInv', Nested
    PROVE  TypeOK'
<1>1. CASE Reject
  BY <1>1, RejectTyped
<1>2. CASE ~Reject
  <2>1. /\ OpensNested /\ token_pos' = token_pos + 2 /\ at' \in {"packets", "endpoints"}
        /\ UNCHANGED <<tokens, settings, orchestrator, action>>
    BY <1>2 DEF Nested, Consume
  <2>2. TypeOK /\ is_expected(2, "BraceOpen")
    BY <2>1 DEF IInv, OpensNested
  <2>3. token_pos + 2 <= Len(tokens)
    BY <2>2, Expected
  <2>4. /\ SettingsTyped(settings') /\ action' \in Action /\ at' \in Loops
        /\ orchestrator' \in [settings_identifier : Text, actions : Seq(Action)]
    BY <2>1, TypeParts DEF Loops
  <2> QED BY <2>1, <2>3, <2>4, OnlyConsumes
<1> QED BY <1>1, <1>2

\* The entry of a list and the comma after it, if there is one.
LEMMA EntryConsumed ==
    ASSUME TypeOK, NEW n \in {1, 3}, is_expected(n, "Value"), ConsumeEntry(n)
    PROVE  \E m \in 0 .. 8 : token_pos + m <= Len(tokens) /\ token_pos' = token_pos + m
<1>1. token_pos + n <= Len(tokens)
  BY Expected
<1> DEFINE k == n + 1
<1>2. k \in 1 .. 8 /\ n \in 0 .. 8 /\ k \in 0 .. 8
  OBVIOUS
<1>3. token_pos' = token_pos + (IF is_operator(k, ",") THEN k ELSE n)
  BY DEF ConsumeEntry, Consume
<1> HIDE DEF k
<1>4. CASE is_operator(k, ",")
  <2>1. token_pos + k <= Len(tokens)
    BY <1>2, <1>4, OperatorAt
  <2> QED BY <2>1, <1>2, <1>3, <1>4
<1>5. CASE ~is_operator(k, ",")
  BY <1>1, <1>2, <1>3, <1>5
<1> QED BY <1>4, <1>5

LEMMA PacketTyped ==
    ASSUME IInv, ReadInv', Packet
    PROVE  TypeOK'
<1>1. CASE Reject
  BY <1>1, RejectTyped
<1>2. CASE ~Reject
  <2> DEFINE map == settings.packet_identifiers
             key == peek(1).text
             value == peek(3).text
             more == Mapped(map, key, value)
  <2>1. /\ at = "packets" /\ is_expected(1, "Identity") /\ is_expected(3, "Value")
        /\ settings' = [settings EXCEPT !.packet_identifiers = more] /\ ConsumeEntry(3)
        /\ UNCHANGED <<orchestrator, action>>
    BY <1>2 DEF Packet
  <2>2. TypeOK
    BY DEF IInv
  <2>3. token_pos + 1 <= Len(tokens)
    BY <2>1, <2>2, Expected
  <2>4. token_pos + 3 <= Len(tokens)
    BY <2>1, <2>2, Expected
  <2>5. key \in Text
    BY <2>2, <2>3, TextPeeked
  <2>6. value \in Text
    BY <2>2, <2>4, TextPeeked
  <2>7. Shaped(settings) /\ SettingsTyped(settings)
    BY TypeParts
  <2>8. PacketMap(map)
    BY <2>7 DEF SettingsTyped
  <2> HIDE DEF map, key, value
  <2>9. PacketMap(more)
    BY <2>5, <2>6, <2>8 DEF PacketMap, Mapped
  <2> HIDE DEF more
  <2>10. settings' = Put(settings, "packet_identifiers", more)
    BY <2>1 DEF Put
  <2>11. "packet_identifiers" \in SettingNames
    BY KindNames
  <2>12. /\ settings'.packet_identifiers = more
         /\ \A f \in SettingNames : f # "packet_identifiers" => settings'[f] = settings[f]
    BY <2>7, <2>10, <2>11, Updated
  <2>13. \A f \in DOMAIN Kinds : settings'[f] \in Kinds[f]
    BY <2>7, <2>12, KindNames DEF SettingsTyped
  <2>14. SettingsTyped(settings')
    BY <2>9, <2>12, <2>13 DEF SettingsTyped
  <2>15. PICK m \in 0 .. 8 : token_pos + m <= Len(tokens) /\ token_pos' = token_pos + m
    BY <2>1, <2>2, EntryConsumed
  <2>16. tokens' = tokens /\ at' \in Loops
    BY <2>1 DEF ConsumeEntry, Consume, Loops
  <2>17. action' \in Action /\ orchestrator' \in [settings_identifier : Text, actions : Seq(Action)]
    BY <2>1, TypeParts
  <2> QED BY <2>14, <2>15, <2>16, <2>17, OnlyConsumes
<1> QED BY <1>1, <1>2

LEMMA EndpointTyped ==
    ASSUME IInv, ReadInv', Endpoint
    PROVE  TypeOK'
<1>1. CASE Reject
  BY <1>1, RejectTyped
<1>2. CASE ~Reject
  <2> DEFINE list == settings.endpoints
             text == peek(1).text
             more == Append(list, text)
  <2>1. /\ at = "endpoints" /\ is_expected(1, "Value")
        /\ settings' = [settings EXCEPT !.endpoints = more] /\ ConsumeEntry(1)
        /\ UNCHANGED <<orchestrator, action>>
    BY <1>2 DEF Endpoint
  <2>2. TypeOK
    BY DEF IInv
  <2>3. token_pos + 1 <= Len(tokens)
    BY <2>1, <2>2, Expected
  <2>4. text \in Text
    BY <2>2, <2>3, TextPeeked
  <2>5. list \in Seq(Text)
    BY Basics
  <2> HIDE DEF list, text
  <2>6. more \in Seq(Text)
    BY <2>4, <2>5
  <2> HIDE DEF more
  <2>7. "endpoints" \in DOMAIN Kinds /\ more \in Kinds["endpoints"]
    BY <2>6, KindNames, KindsAre
  <2>8. SettingsTyped(Put(settings, "endpoints", more))
    BY <2>7, TypeParts, PutTyped
  <2>9. SettingsTyped(settings')
    BY <2>1, <2>8 DEF Put
  <2>10. PICK m \in 0 .. 8 : token_pos + m <= Len(tokens) /\ token_pos' = token_pos + m
    BY <2>1, <2>2, EntryConsumed
  <2>11. tokens' = tokens /\ at' \in Loops
    BY <2>1 DEF ConsumeEntry, Consume, Loops
  <2>12. action' \in Action /\ orchestrator' \in [settings_identifier : Text, actions : Seq(Action)]
    BY <2>1, TypeParts
  <2> QED BY <2>9, <2>10, <2>11, <2>12, OnlyConsumes
<1> QED BY <1>1, <1>2

\* A head that was read is an action.
LEMMA HeadTyped ==
    ASSUME NEW type \in ActionWords, NEW count \in Number \cup {Unset}, NEW range \in Range2,
           NEW packet \in Text
    PROVE  [type |-> type, count |-> count, range |-> range, offset_ms |-> Unset,
            packet_identifier |-> packet, mods |-> <<>>] \in Action
<1>1. <<>> \in Seq(Modification)
  BY NothingTyped
<1> QED BY <1>1 DEF Action

LEMMA CreateTyped ==
    ASSUME IInv, ReadInv', Create
    PROVE  TypeOK'
<1>1. CASE Reject
  BY <1>1, RejectTyped
<1>2. CASE ~Reject
  <2> DEFINE n == IntAt(2)
             r == [start |-> 0, second |-> n]
  <2>1. /\ AtAction({"CREATE"}) /\ try_convert_int(2)
        /\ action' = [NewAction EXCEPT !.type = "CREATE", !.count = n, !.range = r]
        /\ token_pos' = token_pos + 2 /\ at' = "offset" /\ UNCHANGED <<tokens, settings, orchestrator>>
    BY <1>2 DEF Create, Consume
  <2>2. TypeOK
    BY DEF IInv
  <2>3. token_pos + 2 <= Len(tokens)
    BY <2>1, AtActionFacts
  <2>4. n \in Number
    BY <2>1, <2>2, IntPeeked
  <2> HIDE DEF n
  <2>5. r \in Range2
    <3>1. 0 \in Number
      BY ParserAssumption DEF Number
    <3> QED BY <3>1, <2>4 DEF Range2
  <2> HIDE DEF r
  <2>6. action' = [type |-> "CREATE", count |-> n, range |-> r, offset_ms |-> Unset,
                   packet_identifier |-> Word(""), mods |-> <<>>]
    BY <2>1 DEF NewAction
  <2>7. "CREATE" \in ActionWords /\ Word("") \in Text
    BY NothingTyped DEF ActionWords
  <2>8. action' \in Action
    BY <2>4, <2>5, <2>6, <2>7, HeadTyped
  <2>9. /\ SettingsTyped(settings') /\ at' \in Loops
        /\ orchestrator' \in [settings_identifier : Text, actions : Seq(Action)]
    BY <2>1, TypeParts DEF Loops
  <2> QED BY <2>1, <2>3, <2>8, <2>9, OnlyConsumes
<1> QED BY <1>1, <1>2

LEMMA RangeActionTyped ==
    ASSUME IInv, ReadInv', RangeAction
    PROVE  TypeOK'
<1>1. CASE Reject
  BY <1>1, RejectTyped
<1>2. CASE ~Reject
  <2> DEFINE type == peek(1).text.rest
             r == RangeAt(2)
             words == ActionWords \ {"CREATE", "SEND"}
  <2>1. /\ AtAction(words) /\ try_parse_range(2)
        /\ action' = [NewAction EXCEPT !.type = type, !.range = r]
        /\ token_pos' = token_pos + 4 /\ at' = "offset" /\ UNCHANGED <<tokens, settings, orchestrator>>
    BY <1>2 DEF RangeAction, Consume
  <2>2. TypeOK
    BY DEF IInv
  <2>3. token_pos + 4 <= Len(tokens)
    BY <2>1, RangeRead
  <2>4. type \in ActionWords
    BY <2>1 DEF AtAction, is_keyword
  <2>5. r \in Range2
    BY <2>1, <2>2, RangePeeked
  <2> HIDE DEF r, type
  <2>6. action' = [type |-> type, count |-> Unset, range |-> r, offset_ms |-> Unset,
                   packet_identifier |-> Word(""), mods |-> <<>>]
    BY <2>1 DEF NewAction
  <2>7. Unset \in Number \cup {Unset} /\ Word("") \in Text
    BY NothingTyped
  <2>8. action' \in Action
    BY <2>4, <2>5, <2>6, <2>7, HeadTyped
  <2>9. /\ SettingsTyped(settings') /\ at' \in Loops
        /\ orchestrator' \in [settings_identifier : Text, actions : Seq(Action)]
    BY <2>1, TypeParts DEF Loops
  <2> QED BY <2>1, <2>3, <2>8, <2>9, OnlyConsumes
<1> QED BY <1>1, <1>2

LEMMA SendTyped ==
    ASSUME IInv, ReadInv', Send
    PROVE  TypeOK'
<1>1. CASE Reject
  BY <1>1, RejectTyped
<1>2. CASE ~Reject
  <2> DEFINE r == RangeAt(2)
             n == IntAt(7)
             p == peek(5).text
  <2>1. /\ try_parse_range(2) /\ is_expected(5, "Identity") /\ try_convert_int(7)
        /\ action' = [NewAction EXCEPT !.type = "SEND", !.range = r, !.packet_identifier = p, !.count = n]
        /\ token_pos' = token_pos + 7 /\ at' = "options" /\ UNCHANGED <<tokens, settings, orchestrator>>
    BY <1>2 DEF Send, Consume
  <2>2. TypeOK /\ is_expected(7, "Value")
    BY <2>1 DEF IInv, try_convert_int
  <2>3. token_pos + 7 <= Len(tokens)
    BY <2>2, Expected
  <2>4. token_pos + 5 <= Len(tokens)
    BY <2>1, <2>2, Expected
  <2>5. p \in Text
    BY <2>2, <2>4, TextPeeked
  <2>6. r \in Range2
    BY <2>1, <2>2, RangePeeked
  <2>7. n \in Number
    BY <2>1, <2>2, IntPeeked
  <2> HIDE DEF r, n, p
  <2>8. action' = [type |-> "SEND", count |-> n, range |-> r, offset_ms |-> Unset,
                   packet_identifier |-> p, mods |-> <<>>]
    BY <2>1 DEF NewAction
  <2>9. "SEND" \in ActionWords
    BY DEF ActionWords
  <2>10. action' \in Action
    BY <2>5, <2>6, <2>7, <2>8, <2>9, HeadTyped
  <2>11. /\ SettingsTyped(settings') /\ at' \in Loops
         /\ orchestrator' \in [settings_identifier : Text, actions : Seq(Action)]
    BY <2>1, TypeParts DEF Loops
  <2> QED BY <2>1, <2>3, <2>10, <2>11, OnlyConsumes
<1> QED BY <1>1, <1>2

LEMMA OptionIsModification ==
    ASSUME IInv, is_keyword(1, {"COUNTER", "TIMESTAMP"}), OptionOK
    PROVE  OptionAt \in Modification
<1> DEFINE type == peek(1).text.rest
           r == RangeAt(2)
           little == (peek(5).text = Word("little"))
           text == peek(7).text
           arg == IF is_keyword(1, {"COUNTER"}) THEN [text EXCEPT !.rest = ""] ELSE text
<1>1. TypeOK /\ type \in {"COUNTER", "TIMESTAMP"} /\ try_parse_range(2) /\ is_expected(7, "Value")
  BY DEF IInv, is_keyword, OptionOK
<1>2. token_pos + 7 <= Len(tokens)
  BY <1>1, Expected
<1>3. text \in Text
  BY <1>1, <1>2, TextPeeked
<1>4. r \in Range2
  BY <1>1, RangePeeked
<1>5. arg \in Text
  <2> HIDE DEF text
  <2>1. [text EXCEPT !.rest = ""] = [num |-> text.num, rest |-> ""]
    BY <1>3, NumberOnly
  <2>2. text.num \in Seq(Int)
    BY <1>3 DEF Text
  <2>3. [num |-> text.num, rest |-> ""] \in Text
    <3> DEFINE n == text.num
               rest == ""
    <3>1. n \in Seq(Int) /\ rest \in STRING \cup {""}
      BY <2>2
    <3> HIDE DEF n, rest
    <3>2. [num |-> n, rest |-> rest] \in [num : Seq(Int), rest : STRING \cup {""}]
      BY <3>1
    <3> QED BY <3>2 DEF Text, n, rest
  <2> QED BY <1>3, <2>1, <2>3
<1>6. little \in BOOLEAN
  BY Zenon
<1>7. OptionAt = [type |-> type, bytes |-> r, little_endian |-> little, arg |-> arg]
  BY DEF OptionAt
<1> HIDE DEF type, r, little, arg
<1> QED BY <1>1, <1>4, <1>5, <1>6, <1>7 DEF Modification

LEMMA OptionTyped ==
    ASSUME IInv, ReadInv', try_parse_send_option
    PROVE  TypeOK'
<1>1. CASE Reject
  BY <1>1, RejectTyped
<1>2. CASE ~Reject
  <2> DEFINE opt == OptionAt
             mods == action.mods
             more == Append(mods, opt)
  <2>1. /\ is_keyword(1, {"COUNTER", "TIMESTAMP"}) /\ OptionOK
        /\ action' = [action EXCEPT !.mods = more]
        /\ token_pos' = token_pos + 7 /\ at' = "options" /\ UNCHANGED <<tokens, settings, orchestrator>>
    BY <1>2 DEF try_parse_send_option, Consume
  <2>2. token_pos + 7 <= Len(tokens) /\ opt \in Modification
    BY <2>1, OptionRead, OptionIsModification
  <2>3. action \in Action
    BY TypeParts
  <2>4. mods \in Seq(Modification)
    BY <2>3 DEF Action
  <2> HIDE DEF opt, mods
  <2>5. more \in Seq(Modification)
    BY <2>2, <2>4
  <2> HIDE DEF more
  <2>6. action' \in Action
    BY <2>1, <2>3, <2>5 DEF Action
  <2>7. /\ SettingsTyped(settings') /\ at' \in Loops
        /\ orchestrator' \in [settings_identifier : Text, actions : Seq(Action)]
    BY <2>1, TypeParts DEF Loops
  <2> QED BY <2>1, <2>2, <2>6, <2>7, OnlyConsumes
<1> QED BY <1>1, <1>2

LEMMA OptionsEndTyped ==
    ASSUME IInv, ReadInv', OptionsEnd
    PROVE  TypeOK'
<1>1. /\ token_pos' = token_pos + 0 /\ at' = "offset"
      /\ UNCHANGED <<tokens, settings, orchestrator, action>>
  BY DEF OptionsEnd, Consume
<1>2. token_pos + 0 <= Len(tokens) /\ at' \in Loops
  BY <1>1, Basics DEF Loops
<1>3. /\ SettingsTyped(settings') /\ action' \in Action
      /\ orchestrator' \in [settings_identifier : Text, actions : Seq(Action)]
  BY <1>1, TypeParts
<1> QED BY <1>1, <1>2, <1>3, OnlyConsumes

LEMMA PushTyped ==
    ASSUME IInv, NEW ms \in Nat, PushAction(ms)
    PROVE  /\ orchestrator' \in [settings_identifier : Text, actions : Seq(Action)]
           /\ action' \in Action /\ SettingsTyped(settings')
<1> DEFINE new == [action EXCEPT !.offset_ms = ms]
           acts == orchestrator.actions
           more == Append(acts, new)
<1>1. /\ orchestrator' = [orchestrator EXCEPT !.actions = more]
      /\ action' = NewAction /\ settings' = settings
  BY DEF PushAction
<1>2. new \in Action /\ acts \in Seq(Action)
  BY PushedOK, Basics
<1> HIDE DEF new, acts
<1>3. more \in Seq(Action)
  BY <1>2
<1> HIDE DEF more
<1>4. orchestrator \in [settings_identifier : Text, actions : Seq(Action)] /\ SettingsTyped(settings)
  BY TypeParts
<1> QED BY <1>1, <1>3, <1>4, NewActionTyped

LEMMA NoOffsetTyped ==
    ASSUME IInv, ReadInv', NoOffset
    PROVE  TypeOK'
<1>1. /\ PushAction(DEFAULT_OFFSET_MS) /\ token_pos' = token_pos + 0
      /\ at' = "orchestrator" /\ tokens' = tokens
  BY DEF NoOffset, Consume
<1>2. token_pos + 0 <= Len(tokens) /\ at' \in Loops
  BY <1>1, Basics DEF Loops
<1>3. DEFAULT_OFFSET_MS \in Nat
  BY ParserAssumption
<1>4. /\ orchestrator' \in [settings_identifier : Text, actions : Seq(Action)]
      /\ action' \in Action /\ SettingsTyped(settings')
  BY <1>1, <1>3, PushTyped
<1> QED BY <1>1, <1>2, <1>4, OnlyConsumes

LEMMA OffsetTyped ==
    ASSUME IInv, ReadInv', Offset
    PROVE  TypeOK'
<1>1. CASE Reject
  BY <1>1, RejectTyped
<1>2. CASE ~Reject
  <2> DEFINE ms == Milliseconds(peek(2).text)
  <2>1. /\ try_parse_time(2) /\ PushAction(ms) /\ token_pos' = token_pos + 2
        /\ at' = "orchestrator" /\ tokens' = tokens
    BY <1>2 DEF Offset, Consume
  <2>2. TypeOK /\ is_expected(2, "Value") /\ Converts(peek(2).text)
    BY <2>1 DEF IInv, try_parse_time
  <2>3. token_pos + 2 <= Len(tokens)
    BY <2>2, Expected
  <2>4. ms \in Nat
    BY <2>2, TimeTyped
  <2> HIDE DEF ms
  <2>5. /\ orchestrator' \in [settings_identifier : Text, actions : Seq(Action)]
        /\ action' \in Action /\ SettingsTyped(settings')
    BY <2>1, <2>4, PushTyped
  <2>6. at' \in Loops
    BY <2>1 DEF Loops
  <2> QED BY <2>1, <2>3, <2>5, <2>6, OnlyConsumes
<1> QED BY <1>1, <1>2

LEMMA StepTyped ==
    ASSUME IInv, [Next]_vars
    PROVE  TypeOK'
<1>1. ReadInv'
  BY StepReads
<1>2. CASE UNCHANGED vars
  BY <1>2 DEF vars, IInv, TypeOK
<1>3. CASE NotAnAction
  BY <1>3, RejectTyped DEF NotAnAction
<1>4. CASE Next /\ ~NotAnAction
  BY <1>1, <1>4, EndTyped, SettingsHeaderTyped, OrchestratorHeaderTyped, CloseTyped, SettingTyped,
     NestedTyped, PacketTyped, EndpointTyped, CreateTyped, RangeActionTyped, SendTyped,
     OptionTyped, OptionsEndTyped, OffsetTyped, NoOffsetTyped DEF Next
<1> QED BY <1>2, <1>3, <1>4

-----------------------------------------------------------------------------
(* The results. *)

(* At every step of parse(), of parse_settings() and of parse_orchestrator *)
(* what was put into DSLData is what the tokens consumed so far say.       *)
THEOREM Invariance == Spec => []IInv
<1>1. Init => IInv
  BY InitTyped, InitReads DEF IInv
<1>2. IInv /\ [Next]_vars => IInv'
  BY StepTyped, StepReads DEF IInv
<1> QED BY <1>1, <1>2, PTL DEF Spec

(* Every field of DSLData and of an action has its type: a number read by  *)
(* try_convert_int() is an int that is not negative, an offset is a number *)
(* of milliseconds.                                                        *)
THEOREM TypeCorrect == Spec => []TypeOK
<1>1. IInv => TypeOK
  BY DEF IInv
<1> QED BY <1>1, Invariance, PTL

(* A list of tokens that Parser::parse() accepts says what was read: its   *)
(* actions, in order and each with its own parts, its settings, endpoints  *)
(* and packets.  There is no bound on the tokens.                          *)
THEOREM ReadAsWritten == Spec => []ParsedAsWritten
<1>1. ASSUME IInv PROVE ParsedAsWritten
  <2> SUFFICES ASSUME at = "accepted"
               PROVE  LET starts == Upto(Starts(tokens))[Len(tokens)]
                      IN /\ orchestrator.actions = [n \in DOMAIN starts |-> WrittenAction(tokens, starts[n])]
                         /\ \A key \in DOMAIN Field :
                               settings[Field[key]] = WrittenSetting(tokens, Len(tokens), key)
                         /\ settings.endpoints = WrittenEndpoints(tokens, Len(tokens))
                         /\ {<<p, settings.packet_identifiers[p]>> :
                                p \in DOMAIN settings.packet_identifiers}
                            = WrittenPackets(tokens, Len(tokens))
    BY DEF ParsedAsWritten
  <2> DEFINE s == tokens
             acts == orchestrator.actions
             starts == Upto(Starts(s))[Len(s)]
  <2>1. token_pos = Len(s)
    BY <1>1 DEF IInv, ReadInv, Reading
  <2>2. ActionsRead(s, "accepted", acts, action, Len(s)) /\ SettingsRead(s, settings, Len(s))
    BY <1>1, <2>1, Basics
  <2>3. acts \in Seq(Action) /\ Len(s) \in Nat
    BY <1>1, Basics
  <2>4. AllRead(s, acts, Len(s))
    BY <2>2 DEF ActionsRead
  <2>5. starts \in Seq(Nat)
    BY <2>3, UptoMembers
  <2>6. Len(acts) = Len(starts) /\ \A m \in 1 .. Len(starts) : acts[m] = WrittenAction(s, starts[m])
    BY <2>4 DEF AllRead, ReadTo
  <2>7. acts = [n \in DOMAIN starts |-> WrittenAction(s, starts[n])]
    <3> HIDE DEF starts, acts, s
    <3>1. DOMAIN acts = 1 .. Len(acts) /\ DOMAIN starts = 1 .. Len(starts)
      BY <2>3, <2>5
    <3>2. acts = [n \in 1 .. Len(acts) |-> acts[n]]
      BY <2>3
    <3> QED BY <2>6, <3>1, <3>2
  <2> QED BY <2>2, <2>7 DEF SettingsRead, KeysRead, PacketsRead
<1> QED BY <1>1, Invariance, PTL
===============================================================================
