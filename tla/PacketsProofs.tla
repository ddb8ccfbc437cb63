----------------------------- MODULE PacketsProofs -----------------------------
(***************************************************************************)
(* Proofs about what becomes of packets: about module PayloadManager, for  *)
(* any payloads, any number of sessions and fills, and any sizes of a byte *)
(* and of a counter; and about module WasmHandler, for every word size,    *)
(* every set of memory sizes and packets, any number of calls, and a guest *)
(* of either kind.                                                         *)
(***************************************************************************)
EXTENDS PayloadManager, WasmHandler, FiniteSetTheorems, NaturalsInduction, WellFoundedInduction,
        TLAPS

-----------------------------------------------------------------------------
(* Induction, sums and powers. *)

LEMMA NatSetInduction ==
    ASSUME NEW S, 0 \in S, \A n \in Nat : n \in S => n + 1 \in S
    PROVE  Nat \subseteq S
<1> DEFINE T == Nat \ S
<1>1. SUFFICES ASSUME T # {} PROVE FALSE
  OBVIOUS
<1>2. T \subseteq Nat
  OBVIOUS
<1>3. \E x \in T : \A y \in T : ~(<<y, x>> \in OpToRel(<, Nat))
  <2> HIDE DEF T
  <2> QED BY <1>1, <1>2, WFMin, NatLessThanWellFounded
<1>4. PICK x \in T : \A y \in T : ~(<<y, x>> \in OpToRel(<, Nat))
  BY <1>3
<1>5. x \in Nat /\ x \notin S /\ x # 0
  OBVIOUS
<1>6. x - 1 \in Nat /\ x - 1 < x
  BY <1>5
<1>7. x - 1 \in S
  BY <1>4, <1>5, <1>6 DEF OpToRel
<1>8. (x - 1) + 1 \in S
  BY <1>6, <1>7
<1> QED BY <1>5, <1>8

\* A function on 0 .. n that starts at 0 and adds w[i] in step i.
IsSum(f, w, n) ==
    /\ f \in [0 .. n -> Nat]
    /\ f[0] = 0
    /\ \A i \in 1 .. n : f[i] = f[i - 1] + w[i]

LEMMA SumExists ==
    ASSUME NEW w \in Seq(Nat)
    PROVE  \E f : IsSum(f, w, Len(w))
<1> DEFINE S == {n \in Nat : n <= Len(w) => \E f : IsSum(f, w, n)}
<1>1. 0 \in S
  <2> DEFINE f == [i \in 0 .. 0 |-> 0]
  <2>1. IsSum(f, w, 0)
    BY DEF IsSum
  <2> QED BY <2>1
<1>2. ASSUME NEW n \in Nat, n \in S PROVE n + 1 \in S
  <2> SUFFICES ASSUME n + 1 <= Len(w) PROVE \E f : IsSum(f, w, n + 1)
    OBVIOUS
  <2>0. Len(w) \in Nat /\ n + 1 \in 1 .. Len(w)
    OBVIOUS
  <2>1. w[n + 1] \in Nat
    BY <2>0
  <2>2. PICK f : IsSum(f, w, n)
    BY <1>2, <2>0
  <2>3. f[n] \in Nat
    BY <2>2 DEF IsSum
  <2> DEFINE top == f[n] + w[n + 1]
             g == [i \in 0 .. n + 1 |-> IF i = n + 1 THEN top ELSE f[i]]
  <2>4. top \in Nat
    BY <2>1, <2>3
  <2> HIDE DEF top
  <2>5. g \in [0 .. n + 1 -> Nat] /\ g[0] = 0
    BY <2>2, <2>4 DEF IsSum
  <2>6. ASSUME NEW i \in 1 .. n + 1 PROVE g[i] = g[i - 1] + w[i]
    <3>1. CASE i = n + 1
      BY <3>1 DEF top
    <3>2. CASE i # n + 1
      <4>1. i \in 1 .. n /\ i - 1 \in 0 .. n /\ i - 1 # n + 1 /\ i \in 0 .. n
        BY <3>2
      <4>2. g[i] = f[i] /\ g[i - 1] = f[i - 1]
        BY <4>1, <3>2
      <4> HIDE DEF g
      <4> QED BY <4>1, <4>2, <2>2 DEF IsSum
    <3> QED BY <3>1, <3>2
  <2> HIDE DEF g
  <2>7. IsSum(g, w, n + 1)
    BY <2>5, <2>6 DEF IsSum
  <2> QED BY <2>7
<1>3. Nat \subseteq S
  <2> HIDE DEF S
  <2> QED BY <1>1, <1>2, NatSetInduction
<1>4. Len(w) \in Nat /\ Len(w) <= Len(w)
  OBVIOUS
<1> QED BY <1>3, <1>4

LEMMA SumsAre ==
    ASSUME NEW w \in Seq(Nat)
    PROVE  IsSum(Sums(w), w, Len(w))
<1>1. PICK f : IsSum(f, w, Len(w))
  BY SumExists
<1>2. Len(w) \in Nat
  OBVIOUS
<1>3. f = [n \in 0 .. Len(w) |-> IF n = 0 THEN 0 ELSE f[n - 1] + w[n]]
  <2>1. f \in [0 .. Len(w) -> Nat]
    BY <1>1 DEF IsSum
  <2>2. ASSUME NEW n \in 0 .. Len(w)
        PROVE  f[n] = IF n = 0 THEN 0 ELSE f[n - 1] + w[n]
    BY <1>1, <1>2 DEF IsSum
  <2> QED BY <2>1, <2>2
<1>4. \E h : h = [n \in 0 .. Len(w) |-> IF n = 0 THEN 0 ELSE h[n - 1] + w[n]]
  BY <1>3
<1> DEFINE s == Sums(w)
<1>5. s = [n \in 0 .. Len(w) |-> IF n = 0 THEN 0 ELSE s[n - 1] + w[n]]
  BY <1>4 DEF Sums
<1> HIDE DEF s
<1>6. s[0] = 0 /\ \A i \in 1 .. Len(w) : s[i] = s[i - 1] + w[i]
  BY <1>2, <1>5
<1> DEFINE P == {n \in Nat : n <= Len(w) => s[n] \in Nat}
<1>7. 0 \in P
  BY <1>6
<1>8. ASSUME NEW n \in Nat, n \in P PROVE n + 1 \in P
  <2> SUFFICES ASSUME n + 1 <= Len(w) PROVE s[n + 1] \in Nat
    OBVIOUS
  <2>1. n + 1 \in 1 .. Len(w) /\ (n + 1) - 1 = n /\ n <= Len(w)
    BY <1>2
  <2>2. s[n + 1] = s[n] + w[n + 1] /\ w[n + 1] \in Nat
    BY <1>6, <2>1
  <2> QED BY <1>8, <2>1, <2>2
<1>9. Nat \subseteq P
  <2> HIDE DEF P
  <2> QED BY <1>7, <1>8, NatSetInduction
<1>10. s \in [0 .. Len(w) -> Nat]
  <2>1. \A n \in 0 .. Len(w) : s[n] \in Nat
    BY <1>2, <1>9
  <2>2. DOMAIN s = 0 .. Len(w) /\ s = [n \in 0 .. Len(w) |-> s[n]]
    BY <1>5
  <2> QED BY <2>1, <2>2
<1> QED BY <1>6, <1>10 DEF IsSum, s

LEMMA SumGrows ==
    ASSUME NEW w \in Seq(Nat), NEW m \in 0 .. Len(w)
    PROVE  Sums(w)[m] <= Total(w) /\ Total(w) \in Nat /\ Sums(w)[m] \in Nat
<1> DEFINE s == Sums(w)
<1>0. IsSum(s, w, Len(w)) /\ Len(w) \in Nat
  BY SumsAre
<1> HIDE DEF s
<1> DEFINE P == {d \in Nat : m + d <= Len(w) => s[m] <= s[m + d]}
<1>1. 0 \in P
  BY <1>0 DEF IsSum
<1>2. ASSUME NEW d \in Nat, d \in P PROVE d + 1 \in P
  <2> SUFFICES ASSUME m + (d + 1) <= Len(w) PROVE s[m] <= s[m + (d + 1)]
    OBVIOUS
  <2>1. /\ m + (d + 1) \in 1 .. Len(w) /\ (m + (d + 1)) - 1 = m + d /\ m + d <= Len(w)
        /\ m + d \in 0 .. Len(w)
    BY <1>0
  <2>2. s[m + (d + 1)] = s[m + d] + w[m + (d + 1)] /\ w[m + (d + 1)] \in Nat
    BY <1>0, <2>1 DEF IsSum
  <2>3. s[m] \in Nat /\ s[m + d] \in Nat /\ s[m] <= s[m + d]
    BY <1>0, <1>2, <2>1 DEF IsSum
  <2> QED BY <2>2, <2>3
<1>3. Nat \subseteq P
  <2> HIDE DEF P
  <2> QED BY <1>1, <1>2, NatSetInduction
<1>4. Len(w) - m \in Nat /\ m + (Len(w) - m) = Len(w)
  BY <1>0
<1>5. s[m] <= s[Len(w)]
  BY <1>0, <1>3, <1>4
<1>6. s[m] \in Nat /\ s[Len(w)] \in Nat
  BY <1>0 DEF IsSum
<1> QED BY <1>5, <1>6 DEF s, Total

\* A function on 0 .. n that starts at 1 and multiplies by Byte.
IsPower(f, n) ==
    /\ f \in [0 .. n -> Nat]
    /\ f[0] = 1
    /\ \A i \in 1 .. n : f[i] = Byte * f[i - 1]

LEMMA ByteIs == Byte \in Nat /\ Byte > 1
  BY PayloadAssumption

LEMMA PowerExists == \A n \in Nat : \E f : IsPower(f, n)
<1> DEFINE S == {n \in Nat : \E f : IsPower(f, n)}
<1>1. 0 \in S
  <2> DEFINE f == [i \in 0 .. 0 |-> 1]
  <2>1. IsPower(f, 0)
    BY DEF IsPower
  <2> QED BY <2>1
<1>2. ASSUME NEW n \in Nat, n \in S PROVE n + 1 \in S
  <2>1. PICK f : IsPower(f, n)
    BY <1>2
  <2>2. f[n] \in Nat
    BY <2>1 DEF IsPower
  <2> DEFINE top == Byte * f[n]
             g == [i \in 0 .. n + 1 |-> IF i = n + 1 THEN top ELSE f[i]]
  <2>3. top \in Nat
    BY <2>2, ByteIs
  <2> HIDE DEF top
  <2>4. g \in [0 .. n + 1 -> Nat] /\ g[0] = 1
    BY <2>1, <2>3 DEF IsPower
  <2>5. ASSUME NEW i \in 1 .. n + 1 PROVE g[i] = Byte * g[i - 1]
    <3>1. CASE i = n + 1
      BY <3>1 DEF top
    <3>2. CASE i # n + 1
      <4>1. i \in 1 .. n /\ i - 1 \in 0 .. n /\ i - 1 # n + 1 /\ i \in 0 .. n
        BY <3>2
      <4>2. g[i] = f[i] /\ g[i - 1] = f[i - 1]
        BY <4>1, <3>2
      <4> HIDE DEF g
      <4> QED BY <4>1, <4>2, <2>1 DEF IsPower
    <3> QED BY <3>1, <3>2
  <2> HIDE DEF g
  <2>6. IsPower(g, n + 1)
    BY <2>4, <2>5 DEF IsPower
  <2> QED BY <2>6
<1>3. Nat \subseteq S
  <2> HIDE DEF S
  <2> QED BY <1>1, <1>2, NatSetInduction
<1> QED BY <1>3

LEMMA PowerUnique ==
    ASSUME NEW m \in Nat, NEW n \in Nat, NEW f, NEW g, IsPower(f, m), IsPower(g, n),
           NEW i \in Nat, i <= m, i <= n
    PROVE  f[i] = g[i]
<1> DEFINE S == {k \in Nat : k <= m /\ k <= n => f[k] = g[k]}
<1>1. 0 \in S
  BY DEF IsPower
<1>2. ASSUME NEW k \in Nat, k \in S PROVE k + 1 \in S
  <2> SUFFICES ASSUME k + 1 <= m, k + 1 <= n PROVE f[k + 1] = g[k + 1]
    OBVIOUS
  <2>1. k + 1 \in 1 .. m /\ k + 1 \in 1 .. n /\ (k + 1) - 1 = k
    OBVIOUS
  <2>2. f[k + 1] = Byte * f[k] /\ g[k + 1] = Byte * g[k]
    BY <2>1 DEF IsPower
  <2>3. f[k] = g[k]
    BY <1>2
  <2> QED BY <2>2, <2>3
<1>3. Nat \subseteq S
  <2> HIDE DEF S
  <2> QED BY <1>1, <1>2, NatSetInduction
<1> QED BY <1>3

LEMMA PowerEquation ==
    Power = [i \in Nat |-> IF i = 0 THEN 1 ELSE Byte * Power[i - 1]]
<1> DEFINE F(n) == CHOOSE f : IsPower(f, n)
           g == [i \in Nat |-> F(i)[i]]
<1>1. \A n \in Nat : IsPower(F(n), n)
  BY PowerExists
<1> HIDE DEF F
<1>2. ASSUME NEW i \in Nat
      PROVE  g[i] = IF i = 0 THEN 1 ELSE Byte * g[i - 1]
  <2>1. CASE i = 0
    <3>1. IsPower(F(0), 0)
      BY <1>1
    <3>2. F(0)[0] = 1
      BY <3>1 DEF IsPower
    <3> QED BY <2>1, <3>2
  <2>2. CASE i # 0
    <3>1. i - 1 \in Nat /\ i \in 1 .. i /\ i - 1 <= i /\ i - 1 <= i - 1
      BY <2>2
    <3>2. IsPower(F(i), i) /\ IsPower(F(i - 1), i - 1)
      BY <1>1, <3>1
    <3>3. F(i)[i] = Byte * F(i)[i - 1]
      BY <3>1, <3>2 DEF IsPower
    <3>4. F(i)[i - 1] = F(i - 1)[i - 1]
      BY <3>1, <3>2, PowerUnique
    <3>5. g[i] = F(i)[i] /\ g[i - 1] = F(i - 1)[i - 1]
      BY <3>1
    <3> QED BY <2>2, <3>3, <3>4, <3>5
  <2> QED BY <2>1, <2>2
<1>3. g = [i \in Nat |-> IF i = 0 THEN 1 ELSE Byte * g[i - 1]]
  <2>1. g = [i \in Nat |-> g[i]]
    OBVIOUS
  <2> HIDE DEF g
  <2> QED BY <1>2, <2>1
<1>4. \E h : h = [i \in Nat |-> IF i = 0 THEN 1 ELSE Byte * h[i - 1]]
  <2> HIDE DEF g
  <2> QED BY <1>3
<1> QED BY <1>4 DEF Power

LEMMA PowerIs ==
    /\ Power[0] = 1
    /\ \A n \in Nat : Power[n] \in Nat /\ Power[n] > 0 /\ Power[n + 1] = Byte * Power[n]
<1>1. Power[0] = 1
  BY PowerEquation
<1>2. ASSUME NEW n \in Nat PROVE Power[n + 1] = Byte * Power[n]
  <2>1. n + 1 \in Nat /\ n + 1 # 0 /\ (n + 1) - 1 = n
    OBVIOUS
  <2> QED BY <2>1, PowerEquation
<1> DEFINE S == {n \in Nat : Power[n] \in Nat /\ Power[n] > 0}
<1>3. 0 \in S
  BY <1>1
<1>4. ASSUME NEW n \in Nat, n \in S PROVE n + 1 \in S
  <2>1. Power[n] \in Nat /\ Power[n] > 0
    BY <1>4
  <2> DEFINE x == Power[n]
  <2>2. x \in Nat /\ x > 0
    BY <2>1
  <2> HIDE DEF x
  <2>3. Byte * x \in Nat /\ Byte * x > 0
    BY <2>2, ByteIs
  <2> QED BY <1>2, <2>3 DEF x
<1>5. Nat \subseteq S
  <2> HIDE DEF S
  <2> QED BY <1>3, <1>4, NatSetInduction
<1> QED BY <1>1, <1>2, <1>5

-----------------------------------------------------------------------------
(* Division. *)

LEMMA DivideIs ==
    ASSUME NEW a \in Nat, NEW m \in Nat, m > 0
    PROVE  /\ a \div m \in Nat /\ a % m \in 0 .. m - 1
           /\ a = m * (a \div m) + (a % m)
  OBVIOUS

LEMMA MoreIsMore ==
    ASSUME NEW m \in Nat, NEW x \in Nat, NEW y \in Nat, x < y
    PROVE  m * x + m <= m * y
<1>1. PICK d \in Nat : y = x + 1 + d
  <2>1. y - x - 1 \in Nat /\ y = x + 1 + (y - x - 1)
    OBVIOUS
  <2> QED BY <2>1
<1>2. m * (x + 1 + d) = m * x + m + m * d
  OBVIOUS
<1>3. m * d \in Nat /\ m * x \in Nat
  OBVIOUS
<1> QED BY <1>1, <1>2, <1>3

LEMMA RemainderUnique ==
    ASSUME NEW m \in Nat, m > 0, NEW q \in Nat, NEW r \in 0 .. m - 1
    PROVE  (m * q + r) % m = r
<1> DEFINE a == m * q + r
           k == a \div m
           t == a % m
<1>1. a \in Nat
  OBVIOUS
<1>2. k \in Nat /\ t \in 0 .. m - 1 /\ a = m * k + t
  <2> HIDE DEF a
  <2> QED BY <1>1, DivideIs
<1>3. m * q + r = m * k + t
  BY <1>2
<1> HIDE DEF k, t, a
<1> DEFINE mq == m * q
           mk == m * k
<1>4. mq \in Nat /\ mk \in Nat /\ mq + r = mk + t
  BY <1>2, <1>3
<1>5. ~(q < k)
  <2> SUFFICES ASSUME q < k PROVE FALSE
    OBVIOUS
  <2>1. mq + m <= mk
    BY <1>2, MoreIsMore
  <2> HIDE DEF mq, mk
  <2> QED BY <2>1, <1>2, <1>4
<1>6. ~(k < q)
  <2> SUFFICES ASSUME k < q PROVE FALSE
    OBVIOUS
  <2>1. mk + m <= mq
    BY <1>2, MoreIsMore
  <2> HIDE DEF mq, mk
  <2> QED BY <2>1, <1>2, <1>4
<1>7. q = k
  BY <1>2, <1>5, <1>6
<1>8. mq = mk
  BY <1>7
<1>9. r = t
  <2> HIDE DEF mq, mk
  <2> QED BY <1>2, <1>4, <1>8
<1> QED BY <1>9 DEF t, a

\* Adding to a number that was reduced gives what adding first would.
LEMMA ReducedSum ==
    ASSUME NEW m \in Nat, m > 0, NEW a \in Nat, NEW b \in Nat
    PROVE  ((a % m) + b) % m = (a + b) % m
<1> DEFINE r == a % m
           q == a \div m
           c == r + b
           k == c \div m
           t == c % m
<1>1. r \in 0 .. m - 1 /\ q \in Nat /\ a = m * q + r
  BY DivideIs
<1>2. c \in Nat
  BY <1>1
<1>3. k \in Nat /\ t \in 0 .. m - 1 /\ c = m * k + t
  <2> HIDE DEF c
  <2> QED BY <1>2, DivideIs
<1>4. a + b = m * q + c
  <2> HIDE DEF q
  <2>1. m * q \in Nat
    BY <1>1
  <2> HIDE DEF r
  <2> QED BY <1>1, <2>1
<1> HIDE DEF r, q, c, k, t
<1>5. m * q + (m * k + t) = m * (q + k) + t
  BY <1>1, <1>3
<1>6. a + b = m * (q + k) + t /\ q + k \in Nat
  BY <1>1, <1>3, <1>4, <1>5
<1>7. (a + b) % m = t
  BY <1>3, <1>6, RemainderUnique
<1> QED BY <1>7 DEF t, c, r

-----------------------------------------------------------------------------
(* Numbers and their bytes. *)

\* One more digit of a number.
LEMMA DigitStep ==
    ASSUME NEW raw \in Nat, NEW p \in Nat, p > 0
    PROVE  raw % (Byte * p) = (raw % p) + ((raw \div p) % Byte) * p
<1> DEFINE q == raw \div p
           r == raw % p
           h == q \div Byte
           d == q % Byte
<1>1. q \in Nat /\ r \in 0 .. p - 1 /\ raw = p * q + r
  BY DivideIs
<1> HIDE DEF q, r
<1>2. h \in Nat /\ d \in 0 .. Byte - 1 /\ q = Byte * h + d
  BY <1>1, DivideIs, ByteIs
<1> HIDE DEF h, d
<1>3. Byte * p \in Nat /\ Byte * p > 0
  BY ByteIs
<1>4. p * (Byte * h + d) = (Byte * p) * h + d * p
  BY <1>2, ByteIs
<1>5. raw = (Byte * p) * h + (d * p + r)
  <2> DEFINE x == (Byte * p) * h
             y == d * p
  <2>1. x \in Nat /\ y \in Nat
    BY <1>2, <1>3
  <2>2. p * q = x + y
    BY <1>2, <1>4
  <2> HIDE DEF x, y
  <2>3. raw = x + (y + r)
    BY <1>1, <2>1, <2>2
  <2> QED BY <2>3 DEF x, y
<1>6. d * p + r \in 0 .. (Byte * p) - 1
  <2>1. p * d + p <= p * Byte
    BY <1>2, ByteIs, MoreIsMore
  <2>2. p * d = d * p /\ p * Byte = Byte * p /\ d * p \in Nat
    BY <1>2, ByteIs
  <2> DEFINE x == d * p
             y == Byte * p
  <2>3. x \in Nat /\ y \in Nat /\ x + p <= y
    BY <1>3, <2>1, <2>2
  <2> HIDE DEF x, y
  <2>4. x + r \in 0 .. y - 1
    BY <1>1, <2>3
  <2> QED BY <2>4 DEF x, y
<1>7. raw % (Byte * p) = d * p + r
  <2> DEFINE m == Byte * p
             t == d * p + r
  <2>1. m \in Nat /\ m > 0 /\ t \in 0 .. m - 1 /\ raw = m * h + t
    BY <1>3, <1>5, <1>6
  <2> HIDE DEF m, t
  <2>2. raw % m = t
    BY <1>2, <2>1, RemainderUnique
  <2> QED BY <2>2 DEF m, t
<1>8. d * p + r = r + d * p
  BY <1>1, <1>2
<1> QED BY <1>7, <1>8 DEF d, q, r

LEMMA ByteAtIs ==
    ASSUME NEW raw \in Nat, NEW i \in Nat
    PROVE  ByteAt(raw, i) \in 0 .. Byte - 1
<1> DEFINE p == Power[i]
<1>1. p \in Nat /\ p > 0
  BY PowerIs
<1> HIDE DEF p
<1>2. raw \div p \in Nat
  BY <1>1, DivideIs
<1>3. (raw \div p) % Byte \in 0 .. Byte - 1
  BY <1>2, DivideIs, ByteIs
<1> QED BY <1>3 DEF ByteAt, p

\* The bytes of a number with the lowest first.
LowFirst(raw, length) == [i \in 1 .. length |-> ByteAt(raw, i - 1)]

LEMMA LowFirstIs ==
    ASSUME NEW raw \in Nat, NEW length \in Nat
    PROVE  /\ LowFirst(raw, length) \in Seq(0 .. Byte - 1)
           /\ Len(LowFirst(raw, length)) = length
           /\ DOMAIN LowFirst(raw, length) = 1 .. length
           /\ \A i \in 1 .. length : LowFirst(raw, length)[i] = ByteAt(raw, i - 1)
<1>1. \A i \in 1 .. length : ByteAt(raw, i - 1) \in 0 .. Byte - 1
  BY ByteAtIs
<1> QED BY <1>1 DEF LowFirst

\* What write_numeric() writes is the number in the order asked for, in the
\* 4 and 8 byte cases as in the others.
LEMMA NumericIs ==
    ASSUME NEW raw \in Nat, NEW length \in Nat, NEW little \in BOOLEAN
    PROVE  /\ write_numeric(raw, length, little) \in Seq(0 .. Byte - 1)
           /\ (IF little THEN write_numeric(raw, length, little)
               ELSE Reverse(write_numeric(raw, length, little))) = LowFirst(raw, length)
<1> DEFINE low == LowFirst(raw, length)
           big == [i \in 1 .. length |-> ByteAt(raw, length - i)]
<1>1. low \in Seq(0 .. Byte - 1) /\ Len(low) = length
      /\ \A i \in 1 .. length : low[i] = ByteAt(raw, i - 1)
  BY LowFirstIs
<1>2. low = [i \in 1 .. length |-> ByteAt(raw, i - 1)]
  BY DEF LowFirst
<1>3. Native(raw, length) = low
  BY <1>2 DEF Native
<1>4. big \in Seq(0 .. Byte - 1) /\ Len(big) = length
  <2>1. \A i \in 1 .. length : ByteAt(raw, length - i) \in 0 .. Byte - 1
    BY ByteAtIs
  <2> QED BY <2>1
<1>5. Reverse(big) = low
  <2>1. ASSUME NEW i \in 1 .. length PROVE big[(length - i) + 1] = ByteAt(raw, i - 1)
    <3>1. (length - i) + 1 \in 1 .. length /\ length - ((length - i) + 1) = i - 1
      OBVIOUS
    <3> QED BY <3>1
  <2>2. Reverse(big) = [i \in 1 .. length |-> big[(length - i) + 1]]
    BY <1>4 DEF Reverse
  <2> HIDE DEF big
  <2> QED BY <1>2, <2>1, <2>2
<1>6. Reverse(low) = big
  <2>1. ASSUME NEW i \in 1 .. length PROVE low[(length - i) + 1] = ByteAt(raw, length - i)
    <3>1. (length - i) + 1 \in 1 .. length /\ ((length - i) + 1) - 1 = length - i
      OBVIOUS
    <3> QED BY <3>1, <1>1
  <2>2. Reverse(low) = [i \in 1 .. length |-> low[(length - i) + 1]]
    BY <1>1 DEF Reverse
  <2> HIDE DEF low
  <2> QED BY <2>1, <2>2
<1>7. write_numeric(raw, length, little) = IF little THEN low ELSE big
  <2>1. CASE length \in {4, 8}
    <3>1. write_numeric(raw, length, little) = IF little THEN low ELSE Reverse(low)
      BY <2>1, <1>3 DEF write_numeric
    <3> QED BY <3>1, <1>6
  <2>2. CASE length \notin {4, 8} /\ little
    BY <2>2, <1>2 DEF write_numeric
  <2>3. CASE length \notin {4, 8} /\ ~little
    BY <2>3 DEF write_numeric
  <2> QED BY <2>1, <2>2, <2>3
<1> HIDE DEF low, big
<1> QED BY <1>1, <1>4, <1>5, <1>7 DEF low

\* A reader gets back the number, cut to the length.
LEMMA DecodedIs ==
    ASSUME NEW raw \in Nat, NEW length \in Nat, NEW little \in BOOLEAN
    PROVE  Decoded(write_numeric(raw, length, little), little) = raw % Power[length]
<1> DEFINE low == LowFirst(raw, length)
           w == [i \in 1 .. length |-> low[i] * Power[i - 1]]
<1>1. low \in Seq(0 .. Byte - 1) /\ Len(low) = length /\ DOMAIN low = 1 .. length
      /\ \A i \in 1 .. length : low[i] = ByteAt(raw, i - 1)
  BY LowFirstIs
<1>2. (IF little THEN write_numeric(raw, length, little)
       ELSE Reverse(write_numeric(raw, length, little))) = low
  BY NumericIs
<1> HIDE DEF low
<1>3. Decoded(write_numeric(raw, length, little), little) = Total(w)
  BY <1>1, <1>2 DEF Decoded
<1>4. ASSUME NEW i \in 1 .. length
      PROVE  /\ low[i] * Power[i - 1] \in Nat /\ i - 1 \in Nat
             /\ w[i] = ByteAt(raw, i - 1) * Power[i - 1]
  <2>1. i - 1 \in Nat
    OBVIOUS
  <2>2. low[i] \in Nat
    BY <1>1, ByteIs
  <2>3. Power[i - 1] \in Nat
    BY <2>1, PowerIs
  <2>4. low[i] * Power[i - 1] \in Nat
    BY <2>2, <2>3
  <2> QED BY <1>1, <2>1, <2>4
<1>5. w \in Seq(Nat) /\ Len(w) = length
  BY <1>4
<1> HIDE DEF w
<1>6. IsSum(Sums(w), w, length)
  BY <1>5, SumsAre
<1> DEFINE S == {n \in Nat : n <= length => Sums(w)[n] = raw % Power[n]}
<1>7. 0 \in S
  <2>1. Sums(w)[0] = 0
    BY <1>6 DEF IsSum
  <2>2. (1 * raw + 0) % 1 = 0
    BY RemainderUnique
  <2>3. 1 * raw + 0 = raw
    OBVIOUS
  <2>4. raw % 1 = 0
    BY <2>2, <2>3
  <2> QED BY <2>1, <2>4, PowerIs
<1>8. ASSUME NEW n \in Nat, n \in S PROVE n + 1 \in S
  <2> SUFFICES ASSUME n + 1 <= length PROVE Sums(w)[n + 1] = raw % Power[n + 1]
    OBVIOUS
  <2>1. n + 1 \in 1 .. length /\ (n + 1) - 1 = n /\ n <= length
    OBVIOUS
  <2>2. Sums(w)[n + 1] = Sums(w)[n] + w[n + 1]
    BY <1>6, <2>1 DEF IsSum
  <2>3. Sums(w)[n] = raw % Power[n]
    BY <1>8, <2>1
  <2>4. w[n + 1] = ((raw \div Power[n]) % Byte) * Power[n]
    BY <1>4, <2>1 DEF ByteAt
  <2>5. Power[n] \in Nat /\ Power[n] > 0 /\ Power[n + 1] = Byte * Power[n]
    BY PowerIs
  <2>6. raw % (Byte * Power[n]) = (raw % Power[n]) + ((raw \div Power[n]) % Byte) * Power[n]
    BY <2>5, DigitStep
  <2> QED BY <2>2, <2>3, <2>4, <2>5, <2>6
<1>9. Nat \subseteq S
  <2> HIDE DEF S
  <2> QED BY <1>7, <1>8, NatSetInduction
<1>10. Sums(w)[length] = raw % Power[length]
  BY <1>9
<1> QED BY <1>3, <1>5, <1>10 DEF Total

-----------------------------------------------------------------------------
(* The invariant. *)

OpsOf(s) == Payloads[filling[s].index]

\* While a session fills a payload: where it is in the operations, how many
\* bytes and counters lie behind it, and that the room covers all of them.
Reserved ==
    \A s \in Sessions :
        /\ prepared[s].temps <= prepared[s].capacity
        /\ filling[s].index # 0 =>
              /\ filling[s].next \in 1 .. Len(OpsOf(s)) + 1
              /\ prepared[s].temps = Sums(DynamicBytes(OpsOf(s)))[filling[s].next - 1]
              /\ TempBytes(OpsOf(s)) <= prepared[s].capacity
              /\ filling[s].counter_idx =
                    Cardinality(Counters(OpsOf(s), filling[s].next - 1))

\* A counter stands at the value after the last one it handed out.
Counting ==
    /\ CounterSequence
    /\ \A p \in DOMAIN Payloads : \A c \in DOMAIN Steps[p] :
          counters_[p][c] = (Len(sent[p][c]) * Steps[p][c]) % U64Mod

Written ==
    \A s \in Sessions : \A n \in DOMAIN prepared[s].slices :
        LET slice == prepared[s].slices[n]
        IN  slice.from = "temps" =>
                slice.bytes = write_numeric(slice.value, slice.op.length, slice.op.little_endian)

IInv == TypeOK /\ Reserved /\ Counting /\ Written

-----------------------------------------------------------------------------
(* Payloads and their operations. *)

FillState == [index : 0 .. Len(Payloads), next : Nat, counter_idx : Nat, offset : Nat]
Prepared == [slices : Seq(Slice), temps : Nat, capacity : Nat]
CountersTyped ==
    /\ DOMAIN counters_ = DOMAIN Payloads /\ DOMAIN sent = DOMAIN Payloads
    /\ \A p \in DOMAIN Payloads :
          /\ counters_[p] \in [DOMAIN Steps[p] -> 0 .. U64Mod - 1]
          /\ sent[p] \in [DOMAIN Steps[p] -> Seq(0 .. U64Mod - 1)]
IndexBounded ==
    \A s \in Sessions : filling[s].index # 0 =>
          filling[s].counter_idx <= Len(Steps[filling[s].index])

LEMMA TypeParts ==
    TypeOK <=> /\ CountersTyped /\ filling \in [Sessions -> FillState]
               /\ prepared \in [Sessions -> Prepared] /\ IndexBounded
               /\ fills \in [Sessions -> 0 .. MaxFills]
  BY DEF TypeOK, CountersTyped, FillState, Prepared, IndexBounded

LEMMA TypePartsNext ==
    TypeOK' <=> /\ CountersTyped' /\ filling' \in [Sessions -> FillState]
                /\ prepared' \in [Sessions -> Prepared] /\ IndexBounded'
                /\ fills' \in [Sessions -> 0 .. MaxFills]
  BY DEF TypeOK, CountersTyped, FillState, Prepared, IndexBounded

LEMMA ModIs == U64Mod \in Nat /\ U64Mod > 0
<1>1. 8 \in Nat /\ U64Mod = Power[8]
  BY PayloadAssumption
<1> QED BY <1>1, PowerIs

LEMMA PayloadFacts ==
    ASSUME NEW p \in DOMAIN Payloads
    PROVE  /\ Payloads[p] \in Seq(Op) /\ p \in 1 .. Len(Payloads) /\ Len(Payloads) \in Nat
           /\ Steps[p] \in Seq(Nat) /\ DOMAIN Steps[p] = 1 .. Len(Steps[p])
           /\ Len(Steps[p]) = NumCounters(Payloads[p]) /\ Len(Steps[p]) \in Nat
<1> DEFINE T == Seq(Op)
           U == Seq(Nat)
<1>1. Payloads \in Seq(T) /\ Steps \in Seq(U) /\ Len(Steps) = Len(Payloads)
      /\ Len(Steps[p]) = NumCounters(Payloads[p])
  BY PayloadAssumption
<1> HIDE DEF T, U
<1>2. Payloads[p] \in T /\ Steps[p] \in U /\ p \in 1 .. Len(Payloads) /\ Len(Payloads) \in Nat
  BY <1>1
<1>3. Steps[p] \in Seq(Nat)
  BY <1>2 DEF U
<1> QED BY <1>1, <1>2, <1>3 DEF T

LEMMA CountersStep ==
    ASSUME NEW ops \in Seq(Op), NEW n \in 1 .. Len(ops)
    PROVE  /\ Cardinality(Counters(ops, n - 1)) \in Nat
           /\ Cardinality(Counters(ops, n)) =
                 IF ops[n].type = "COUNTER" THEN Cardinality(Counters(ops, n - 1)) + 1
                 ELSE Cardinality(Counters(ops, n - 1))
           /\ Cardinality(Counters(ops, n)) <= NumCounters(ops)
           /\ Cardinality(Counters(ops, n)) \in Nat
<1>0. Len(ops) \in Nat /\ n \in Nat /\ n - 1 \in Nat
  OBVIOUS
<1>1. IsFiniteSet(1 .. Len(ops))
  BY <1>0, FS_Interval
<1>2. /\ Counters(ops, n - 1) \subseteq 1 .. Len(ops)
      /\ Counters(ops, n) \subseteq Counters(ops, Len(ops))
      /\ Counters(ops, Len(ops)) \subseteq 1 .. Len(ops)
      /\ n \notin Counters(ops, n - 1)
      /\ ops[n].type = "COUNTER" => Counters(ops, n) = Counters(ops, n - 1) \cup {n}
      /\ ops[n].type # "COUNTER" => Counters(ops, n) = Counters(ops, n - 1)
  BY <1>0 DEF Counters
<1> DEFINE A == Counters(ops, n - 1)
           B == Counters(ops, n)
           C == Counters(ops, Len(ops))
<1> HIDE DEF A, B, C
<1>3. IsFiniteSet(A) /\ IsFiniteSet(C)
  BY <1>1, <1>2, FS_Subset DEF A, C
<1>4. B \in SUBSET C
  BY <1>2 DEF B, C
<1>5. IsFiniteSet(B) /\ Cardinality(B) <= Cardinality(C)
  BY <1>3, <1>4, FS_Subset
<1>6. Cardinality(A) \in Nat /\ Cardinality(B) \in Nat
  BY <1>3, <1>5, FS_CardinalityType
<1>7. Cardinality(A \cup {n}) = Cardinality(A) + 1
  <2>1. n \notin A
    BY <1>2 DEF A
  <2> QED BY <2>1, <1>3, FS_AddElement
<1>8. Cardinality(B) = IF ops[n].type = "COUNTER" THEN Cardinality(A) + 1 ELSE Cardinality(A)
  BY <1>2, <1>7 DEF A, B
<1> QED BY <1>5, <1>6, <1>8 DEF A, B, C, NumCounters

LEMMA DynamicIs ==
    ASSUME NEW ops \in Seq(Op)
    PROVE  /\ DynamicBytes(ops) \in Seq(Nat) /\ Len(DynamicBytes(ops)) = Len(ops)
           /\ TempBytes(ops) \in Nat
           /\ Sums(DynamicBytes(ops))[0] = 0
           /\ \A n \in 1 .. Len(ops) :
                 /\ ops[n] \in Op
                 /\ Sums(DynamicBytes(ops))[n] =
                       Sums(DynamicBytes(ops))[n - 1]
                         + (IF IsDynamic(ops[n]) THEN ops[n].length ELSE 0)
                 /\ Sums(DynamicBytes(ops))[n] <= TempBytes(ops)
<1> DEFINE w == DynamicBytes(ops)
<1>0. \A n \in 1 .. Len(ops) : ops[n] \in Op /\ ops[n].length \in Nat
  <2>1. \A n \in 1 .. Len(ops) : ops[n] \in Op
    OBVIOUS
  <2> QED BY <2>1 DEF Op
<1>1. w \in Seq(Nat) /\ Len(w) = Len(ops) /\ Len(ops) \in Nat
      /\ \A n \in 1 .. Len(ops) : w[n] = IF IsDynamic(ops[n]) THEN ops[n].length ELSE 0
  BY <1>0 DEF DynamicBytes
<1> HIDE DEF w
<1>2. IsSum(Sums(w), w, Len(ops))
  BY <1>1, SumsAre
<1>3. \A n \in 0 .. Len(ops) : Sums(w)[n] <= Total(w) /\ Total(w) \in Nat
  BY <1>1, SumGrows
<1>4. 0 \in 0 .. Len(ops)
  BY <1>1
<1>5. Total(w) \in Nat
  BY <1>3, <1>4
<1> QED BY <1>0, <1>1, <1>2, <1>3, <1>5 DEF w, TempBytes, IsSum

-----------------------------------------------------------------------------
(* The steps. *)

LEMMA InitHolds == Init => IInv
<1> SUFFICES ASSUME Init PROVE IInv
  OBVIOUS
<1>1. CountersTyped
  <2>1. <<>> \in Seq(0 .. U64Mod - 1) /\ 0 \in 0 .. U64Mod - 1
    BY ModIs
  <2> QED BY <2>1 DEF Init, CountersTyped
<1>2. filling \in [Sessions -> FillState] /\ \A s \in Sessions : filling[s].index = 0
  <2>1. 0 \in 0 .. Len(Payloads)
    BY PayloadAssumption
  <2> QED BY <2>1 DEF Init, FillState
<1>3. prepared \in [Sessions -> Prepared]
      /\ \A s \in Sessions : prepared[s].temps <= prepared[s].capacity
                             /\ prepared[s].slices = <<>>
  <2>1. <<>> \in Seq(Slice)
    OBVIOUS
  <2> QED BY <2>1 DEF Init, Prepared
<1>4. fills \in [Sessions -> 0 .. MaxFills]
  BY PayloadAssumption DEF Init
<1>5. TypeOK
  BY <1>1, <1>2, <1>3, <1>4, TypeParts DEF IndexBounded
<1>6. Reserved
  BY <1>2, <1>3 DEF Reserved
<1>7. Counting
  <2>1. ASSUME NEW p \in DOMAIN Payloads, NEW c \in DOMAIN Steps[p]
        PROVE  /\ sent[p][c] = <<>> /\ counters_[p][c] = 0
               /\ Steps[p][c] \in Nat
    <3>1. Steps[p] \in Seq(Nat) /\ c \in 1 .. Len(Steps[p])
      BY PayloadFacts
    <3> QED BY <3>1 DEF Init
  <2>2. ASSUME NEW k \in Nat PROVE (0 * k) % U64Mod = 0
    <3>1. (U64Mod * 0 + 0) % U64Mod = 0
      BY ModIs, RemainderUnique
    <3>2. U64Mod * 0 + 0 = 0 /\ 0 * k = 0
      BY ModIs
    <3> QED BY <3>1, <3>2
  <2>3. ASSUME NEW p \in DOMAIN Payloads, NEW c \in DOMAIN Steps[p]
        PROVE  counters_[p][c] = (Len(sent[p][c]) * Steps[p][c]) % U64Mod
    <3>1. Len(sent[p][c]) = 0
      BY <2>1
    <3> QED BY <2>1, <2>2, <3>1
  <2>4. CounterSequence
    BY <2>1 DEF CounterSequence
  <2> QED BY <2>3, <2>4 DEF Counting
<1>8. Written
  BY <1>3 DEF Written
<1> QED BY <1>5, <1>6, <1>7, <1>8 DEF IInv

LEMMA BeginKeeps ==
    ASSUME IInv, NEW s \in Sessions, NEW index \in DOMAIN Payloads, BeginFill(s, index)
    PROVE  IInv'
<1> USE DEF IInv
<1> DEFINE ops == Payloads[index]
           total == TempBytes(ops)
           cap == IF prepared[s].capacity < total THEN total ELSE prepared[s].capacity
           fresh == [index |-> index, next |-> 1, counter_idx |-> 0, offset |-> 0]
           empty == [slices |-> <<>>, temps |-> 0, capacity |-> cap]
<1>1. /\ filling \in [Sessions -> FillState] /\ prepared \in [Sessions -> Prepared]
      /\ fills \in [Sessions -> 0 .. MaxFills] /\ CountersTyped
  BY TypeParts
<1>2. ops \in Seq(Op) /\ index \in 1 .. Len(Payloads) /\ Len(Payloads) \in Nat
      /\ Len(Steps[index]) \in Nat
  BY PayloadFacts
<1>3. total \in Nat /\ Sums(DynamicBytes(ops))[0] = 0
  BY <1>2, DynamicIs
<1>4. cap \in Nat /\ total <= cap
  <2>1. prepared[s].capacity \in Nat
    BY <1>1 DEF Prepared
  <2> HIDE DEF total
  <2> QED BY <2>1, <1>3
<1>5. filling' = [filling EXCEPT ![s] = fresh] /\ prepared' = [prepared EXCEPT ![s] = empty]
      /\ fills' = [fills EXCEPT ![s] = @ + 1] /\ fills[s] < MaxFills
      /\ counters_' = counters_ /\ sent' = sent
  BY <1>1 DEF BeginFill
<1> HIDE DEF ops, total, cap
<1>6. fresh \in FillState /\ fresh.index = index /\ fresh.next = 1 /\ fresh.counter_idx = 0
  BY <1>2 DEF FillState
<1>7. empty \in Prepared /\ empty.slices = <<>> /\ empty.temps = 0 /\ empty.capacity = cap
  BY <1>4 DEF Prepared
<1> HIDE DEF fresh, empty
<1>8. /\ filling' \in [Sessions -> FillState] /\ filling'[s] = fresh
      /\ \A t \in Sessions : t # s => filling'[t] = filling[t]
  BY <1>1, <1>5, <1>6
<1>9. /\ prepared' \in [Sessions -> Prepared] /\ prepared'[s] = empty
      /\ \A t \in Sessions : t # s => prepared'[t] = prepared[t]
  BY <1>1, <1>5, <1>7
<1>10. fills' \in [Sessions -> 0 .. MaxFills]
  BY <1>1, <1>5, PayloadAssumption
<1>11. TypeOK'
  <2>1. CountersTyped'
    BY <1>1, <1>5 DEF CountersTyped
  <2>2. IndexBounded'
    <3> SUFFICES ASSUME NEW t \in Sessions, filling'[t].index # 0
                 PROVE  filling'[t].counter_idx <= Len(Steps[filling'[t].index])
      BY DEF IndexBounded
    <3>1. CASE t = s
      BY <1>2, <1>6, <1>8, <3>1
    <3>2. CASE t # s
      BY <1>8, <3>2, TypeParts DEF IndexBounded
    <3> QED BY <3>1, <3>2
  <2> QED BY <2>1, <2>2, <1>8, <1>9, <1>10, TypePartsNext
<1>12. Reserved'
  <2>0. Cardinality(Counters(ops, 0)) = 0
    <3>1. Counters(ops, 0) = {}
      BY DEF Counters
    <3> QED BY <3>1, FS_EmptySet
  <2> SUFFICES ASSUME NEW t \in Sessions
               PROVE  /\ prepared'[t].temps <= prepared'[t].capacity
                      /\ filling'[t].index # 0 =>
                          /\ filling'[t].next \in 1 .. Len(OpsOf(t)') + 1
                          /\ prepared'[t].temps =
                                Sums(DynamicBytes(OpsOf(t)'))[filling'[t].next - 1]
                          /\ TempBytes(OpsOf(t)') <= prepared'[t].capacity
                          /\ filling'[t].counter_idx =
                                Cardinality(Counters(OpsOf(t)', filling'[t].next - 1))
    BY DEF Reserved
  <2>1. CASE t = s
    <3>1. OpsOf(t)' = ops /\ filling'[t].next = 1 /\ filling'[t].counter_idx = 0
      BY <2>1, <1>6, <1>8 DEF OpsOf, ops
    <3>2. prepared'[t].temps = 0 /\ prepared'[t].capacity = cap
      BY <2>1, <1>7, <1>9
    <3>3. 1 \in 1 .. Len(ops) + 1 /\ 1 - 1 = 0
      BY <1>2
    <3>4. 0 <= cap
      BY <1>4
    <3> QED BY <3>1, <3>2, <3>3, <3>4, <1>3, <1>4, <2>0 DEF total
  <2>2. CASE t # s
    <3>1. filling'[t] = filling[t] /\ prepared'[t] = prepared[t]
      BY <2>2, <1>8, <1>9
    <3>2. OpsOf(t)' = OpsOf(t)
      BY <3>1 DEF OpsOf
    <3> QED BY <3>1, <3>2 DEF Reserved
  <2> QED BY <2>1, <2>2
<1>13. Counting'
  BY <1>5 DEF Counting, CounterSequence
<1>14. Written'
  <2> SUFFICES ASSUME NEW t \in Sessions, NEW n \in DOMAIN prepared'[t].slices,
                      prepared'[t].slices[n].from = "temps"
               PROVE  prepared'[t].slices[n].bytes =
                        write_numeric(prepared'[t].slices[n].value,
                                      prepared'[t].slices[n].op.length,
                                      prepared'[t].slices[n].op.little_endian)
    BY DEF Written
  <2>1. CASE t = s
    BY <2>1, <1>7, <1>9
  <2>2. CASE t # s
    BY <2>2, <1>9 DEF Written
  <2> QED BY <2>1, <2>2
<1> QED BY <1>11, <1>12, <1>13, <1>14

LEMMA FinishKeeps ==
    ASSUME IInv, NEW s \in Sessions, FinishFill(s)
    PROVE  IInv'
<1> USE DEF IInv
<1>1. /\ filling \in [Sessions -> FillState] /\ prepared \in [Sessions -> Prepared]
      /\ fills \in [Sessions -> 0 .. MaxFills] /\ CountersTyped
  BY TypeParts
<1>2. filling' = [filling EXCEPT ![s].index = 0] /\ prepared' = prepared /\ fills' = fills
      /\ counters_' = counters_ /\ sent' = sent
  BY DEF FinishFill
<1>3. 0 \in 0 .. Len(Payloads)
  BY PayloadAssumption
<1>4. /\ filling' \in [Sessions -> FillState] /\ filling'[s].index = 0
      /\ \A t \in Sessions : t # s => filling'[t] = filling[t]
  BY <1>1, <1>2, <1>3 DEF FillState
<1>5. TypeOK'
  <2>1. CountersTyped'
    BY <1>1, <1>2 DEF CountersTyped
  <2>2. IndexBounded'
    BY <1>4, TypeParts DEF IndexBounded
  <2> QED BY <2>1, <2>2, <1>1, <1>2, <1>4, TypePartsNext
<1>6. Reserved'
  BY <1>2, <1>4 DEF Reserved, OpsOf
<1>7. Counting'
  BY <1>2 DEF Counting, CounterSequence
<1>8. Written'
  BY <1>2 DEF Written
<1> QED BY <1>5, <1>6, <1>7, <1>8

\* The operation a session is at, and the sums and counts behind it.
LEMMA OpFacts ==
    ASSUME IInv, NEW s \in Sessions, AtOp(s)
    PROVE  /\ filling[s] \in FillState /\ filling[s].index \in DOMAIN Payloads
           /\ OpsOf(s) \in Seq(Op) /\ filling[s].next \in 1 .. Len(OpsOf(s))
           /\ CurrentOp(s) \in Op /\ CurrentOp(s).length \in Nat
           /\ CurrentOp(s) = OpsOf(s)[filling[s].next]
<1> USE DEF IInv
<1>1. filling[s] \in FillState
  BY TypeParts
<1>2. filling[s].index \in 0 .. Len(Payloads) /\ filling[s].next \in Nat
  BY <1>1 DEF FillState
<1>3. filling[s].index \in DOMAIN Payloads
  <2>1. DOMAIN Payloads = 1 .. Len(Payloads) /\ Len(Payloads) \in Nat
    BY PayloadAssumption
  <2> QED BY <2>1, <1>2 DEF AtOp
<1>4. OpsOf(s) \in Seq(Op)
  BY <1>3, PayloadFacts DEF OpsOf
<1>5. filling[s].next \in 1 .. Len(OpsOf(s)) + 1 /\ filling[s].next <= Len(OpsOf(s))
  BY DEF Reserved, AtOp, OpsOf
<1>6. filling[s].next \in 1 .. Len(OpsOf(s))
  <2>1. Len(OpsOf(s)) \in Nat
    BY <1>4
  <2> QED BY <2>1, <1>5
<1>7. CurrentOp(s) = OpsOf(s)[filling[s].next]
  BY DEF CurrentOp, OpsOf
<1>8. CurrentOp(s) \in Op
  BY <1>4, <1>6, <1>7, DynamicIs
<1> QED BY <1>1, <1>3, <1>4, <1>6, <1>7, <1>8 DEF Op

Moved(h, g, s, a, b, c) == h = [g EXCEPT ![s].next = a, ![s].counter_idx = b, ![s].offset = c]

LEMMA MovedIs ==
    ASSUME NEW g \in [Sessions -> FillState], NEW s \in Sessions,
           NEW a \in Nat, NEW b \in Nat, NEW c \in Nat, NEW h,
           Moved(h, g, s, a, b, c)
    PROVE  /\ h \in [Sessions -> FillState]
           /\ h[s].index = g[s].index /\ h[s].next = a /\ h[s].counter_idx = b
           /\ \A t \in Sessions : t # s => h[t] = g[t]
  BY DEF FillState, Moved

\* The session's payload got one more slice, and more bytes in temps.
Appended(s, sl, more) ==
    /\ prepared' = [t \in Sessions |-> prepared'[t]]
    /\ prepared'[s] = [slices |-> Append(prepared[s].slices, sl),
                       temps |-> prepared[s].temps + more,
                       capacity |-> prepared[s].capacity]
    /\ \A t \in Sessions : t # s => prepared'[t] = prepared[t]

SliceWritten(sl) ==
    sl.from = "temps" => sl.bytes = write_numeric(sl.value, sl.op.length, sl.op.little_endian)

\* What the three kinds of operation have in common.
LEMMA OpEffect ==
    ASSUME IInv, NEW s \in Sessions, AtOp(s), NEW sl \in Slice,
           SliceWritten(sl),
           NEW k \in Nat, k = IF CurrentOp(s).type = "COUNTER" THEN 1 ELSE 0,
           NEW more \in Nat, more = IF IsDynamic(CurrentOp(s)) THEN CurrentOp(s).length ELSE 0,
           Advance(s, k), Appended(s, sl, more)
    PROVE  /\ filling' \in [Sessions -> FillState] /\ prepared' \in [Sessions -> Prepared]
           /\ IndexBounded' /\ Reserved' /\ Written'
           /\ filling[s].counter_idx + k <= Len(Steps[filling[s].index])
<1> USE DEF IInv
<1> DEFINE f == filling[s]
           ops == OpsOf(s)
           n == filling[s].next
           list == Append(prepared[s].slices, sl)
           temps == prepared[s].temps + more
<1>1. /\ filling \in [Sessions -> FillState] /\ prepared \in [Sessions -> Prepared]
  BY TypeParts
<1>2. /\ f \in FillState /\ f.index \in DOMAIN Payloads /\ ops \in Seq(Op)
      /\ n \in 1 .. Len(ops) /\ CurrentOp(s).length \in Nat /\ CurrentOp(s) = ops[n]
  BY OpFacts
<1>3. f.index \in 0 .. Len(Payloads) /\ n \in Nat /\ f.counter_idx \in Nat /\ f.offset \in Nat
      /\ f.index # 0 /\ Len(ops) \in Nat
  BY <1>2 DEF FillState, AtOp
<1>4. filling' = [filling EXCEPT ![s].next = @ + 1, ![s].counter_idx = @ + k,
                                 ![s].offset = @ + CurrentOp(s).length]
  BY DEF Advance
<1>5. n + 1 \in Nat /\ f.counter_idx + k \in Nat /\ f.offset + CurrentOp(s).length \in Nat
  <2> DEFINE len == CurrentOp(s).length
  <2>1. len \in Nat
    BY <1>2
  <2> HIDE DEF IInv, len, f, n
  <2>2. f.offset + len \in Nat
    BY <2>1, <1>3
  <2> QED BY <2>2, <1>3 DEF len
<1>7. /\ filling' \in [Sessions -> FillState]
      /\ filling'[s].index = f.index /\ filling'[s].next = n + 1
      /\ filling'[s].counter_idx = f.counter_idx + k
      /\ \A t \in Sessions : t # s => filling'[t] = filling[t]
  <2> DEFINE a == n + 1
             b == f.counter_idx + k
             c == f.offset + CurrentOp(s).length
  <2>1. Moved(filling', filling, s, a, b, c)
    <3> HIDE DEF IInv
    <3> QED BY <1>1, <1>4 DEF FillState, Moved
  <2>2. a \in Nat /\ b \in Nat /\ c \in Nat
    BY <1>5
  <2> HIDE DEF a, b, c, IInv
  <2>3. /\ filling' \in [Sessions -> FillState]
        /\ filling'[s].index = filling[s].index /\ filling'[s].next = a
        /\ filling'[s].counter_idx = b
        /\ \A t \in Sessions : t # s => filling'[t] = filling[t]
    BY <1>1, <2>1, <2>2, MovedIs
  <2> QED BY <2>3 DEF a, b
<1>8. prepared[s].slices \in Seq(Slice) /\ prepared[s].temps \in Nat /\ prepared[s].capacity \in Nat
  BY <1>1 DEF Prepared
<1>9. /\ list \in Seq(Slice) /\ Len(list) = Len(prepared[s].slices) + 1
      /\ DOMAIN list = 1 .. Len(prepared[s].slices) + 1
      /\ list[Len(prepared[s].slices) + 1] = sl
      /\ \A i \in 1 .. Len(prepared[s].slices) : list[i] = prepared[s].slices[i]
  <2> DEFINE old == prepared[s].slices
             T == Slice
  <2>1. old \in Seq(T) /\ sl \in T
    BY <1>8
  <2> HIDE DEF old, T
  <2>2. /\ Append(old, sl) \in Seq(T) /\ Len(Append(old, sl)) = Len(old) + 1
        /\ DOMAIN Append(old, sl) = 1 .. Len(old) + 1
        /\ Append(old, sl)[Len(old) + 1] = sl
        /\ \A i \in 1 .. Len(old) : Append(old, sl)[i] = old[i]
    BY <2>1
  <2> QED BY <2>2 DEF old, T
<1>10. temps \in Nat
  BY <1>8
<1> HIDE DEF list, temps
<1>11. prepared'[s] = [slices |-> list, temps |-> temps, capacity |-> prepared[s].capacity]
  BY DEF list, temps, Appended
<1>12. prepared'[s] \in Prepared /\ prepared'[s].slices = list /\ prepared'[s].temps = temps
       /\ prepared'[s].capacity = prepared[s].capacity
  <2> DEFINE cap == prepared[s].capacity
  <2>1. cap \in Nat /\ prepared'[s] = [slices |-> list, temps |-> temps, capacity |-> cap]
    BY <1>8, <1>11
  <2> HIDE DEF cap
  <2> DEFINE new == prepared'[s]
             T == Seq(Slice)
  <2>2. list \in T
    BY <1>9
  <2>3. new = [slices |-> list, temps |-> temps, capacity |-> cap]
    BY <2>1
  <2> HIDE DEF new, T
  <2>4. new \in [slices : T, temps : Nat, capacity : Nat]
        /\ new.slices = list /\ new.temps = temps /\ new.capacity = cap
    BY <2>1, <2>2, <2>3, <1>10
  <2> QED BY <2>4 DEF new, T, Prepared, cap
<1>13. prepared' \in [Sessions -> Prepared]
  <2>1. \A t \in Sessions : prepared'[t] \in Prepared
    BY <1>1, <1>12 DEF Appended
  <2>2. prepared' = [t \in Sessions |-> prepared'[t]]
    BY DEF Appended
  <2> HIDE DEF IInv
  <2> QED BY <2>1, <2>2
<1>14. /\ Cardinality(Counters(ops, n)) = Cardinality(Counters(ops, n - 1)) + k
       /\ Cardinality(Counters(ops, n)) <= NumCounters(ops)
       /\ f.counter_idx = Cardinality(Counters(ops, n - 1))
       /\ Cardinality(Counters(ops, n - 1)) \in Nat
  <2>1. f.counter_idx = Cardinality(Counters(ops, n - 1))
    BY <1>3 DEF Reserved
  <2>2. /\ Cardinality(Counters(ops, n - 1)) \in Nat
        /\ Cardinality(Counters(ops, n)) =
                 IF ops[n].type = "COUNTER" THEN Cardinality(Counters(ops, n - 1)) + 1
                 ELSE Cardinality(Counters(ops, n - 1))
        /\ Cardinality(Counters(ops, n)) <= NumCounters(ops)
    BY <1>2, CountersStep
  <2>3. k = IF ops[n].type = "COUNTER" THEN 1 ELSE 0
    BY <1>2
  <2> HIDE DEF f, n, ops
  <2> QED BY <2>1, <2>2, <2>3
<1>15. f.counter_idx + k <= Len(Steps[f.index])
  <2>1. Len(Steps[f.index]) = NumCounters(ops)
    BY <1>2, PayloadFacts DEF OpsOf
  <2> QED BY <2>1, <1>14
<1>16. IndexBounded'
  <2> SUFFICES ASSUME NEW t \in Sessions, filling'[t].index # 0
               PROVE  filling'[t].counter_idx <= Len(Steps[filling'[t].index])
    BY DEF IndexBounded
  <2>1. CASE t = s
    BY <1>15, <1>7, <2>1
  <2>2. CASE t # s
    BY <1>7, <2>2, TypeParts DEF IndexBounded
  <2> QED BY <2>1, <2>2
<1>17. /\ temps = Sums(DynamicBytes(ops))[n] /\ Sums(DynamicBytes(ops))[n] <= TempBytes(ops)
       /\ TempBytes(ops) <= prepared[s].capacity /\ TempBytes(ops) \in Nat
  <2>1. /\ prepared[s].temps = Sums(DynamicBytes(ops))[n - 1]
        /\ TempBytes(ops) <= prepared[s].capacity
    BY <1>3 DEF Reserved
  <2>2. /\ Sums(DynamicBytes(ops))[n] =
             Sums(DynamicBytes(ops))[n - 1] + (IF IsDynamic(ops[n]) THEN ops[n].length ELSE 0)
        /\ Sums(DynamicBytes(ops))[n] <= TempBytes(ops) /\ TempBytes(ops) \in Nat
    BY <1>2, DynamicIs
  <2>3. more = IF IsDynamic(ops[n]) THEN ops[n].length ELSE 0
    BY <1>2
  <2> QED BY <2>1, <2>2, <2>3 DEF temps
<1>18. Reserved'
  <2> SUFFICES ASSUME NEW t \in Sessions
               PROVE  /\ prepared'[t].temps <= prepared'[t].capacity
                      /\ filling'[t].index # 0 =>
                          /\ filling'[t].next \in 1 .. Len(OpsOf(t)') + 1
                          /\ prepared'[t].temps =
                                Sums(DynamicBytes(OpsOf(t)'))[filling'[t].next - 1]
                          /\ TempBytes(OpsOf(t)') <= prepared'[t].capacity
                          /\ filling'[t].counter_idx =
                                Cardinality(Counters(OpsOf(t)', filling'[t].next - 1))
    BY DEF Reserved
  <2>1. CASE t = s
    <3>1. OpsOf(t)' = ops /\ filling'[t].next = n + 1 /\ filling'[t].counter_idx = f.counter_idx + k
      BY <2>1, <1>7 DEF OpsOf
    <3>2. prepared'[t].temps = temps /\ prepared'[t].capacity = prepared[s].capacity
      BY <2>1, <1>12
    <3>3. n + 1 \in 1 .. Len(ops) + 1 /\ (n + 1) - 1 = n
      BY <1>2, <1>3
    <3>4. temps <= prepared[s].capacity
      BY <1>8, <1>10, <1>17
    <3>5. Cardinality(Counters(ops, n)) = f.counter_idx + k
      BY <1>14
    <3> HIDE DEF ops, n, f
    <3>6. filling'[t].next \in 1 .. Len(OpsOf(t)') + 1 /\ filling'[t].next - 1 = n
      BY <3>1, <3>3
    <3> QED BY <3>1, <3>2, <3>4, <3>5, <3>6, <1>17
  <2>2. CASE t # s
    <3>1. filling'[t] = filling[t] /\ prepared'[t] = prepared[t]
      BY <2>2, <1>7 DEF Appended
    <3>2. OpsOf(t)' = OpsOf(t)
      BY <3>1 DEF OpsOf
    <3> QED BY <3>1, <3>2 DEF Reserved
  <2> QED BY <2>1, <2>2
<1>19. Written'
  <2> SUFFICES ASSUME NEW t \in Sessions, NEW i \in DOMAIN prepared'[t].slices,
                      prepared'[t].slices[i].from = "temps"
               PROVE  prepared'[t].slices[i].bytes =
                        write_numeric(prepared'[t].slices[i].value,
                                      prepared'[t].slices[i].op.length,
                                      prepared'[t].slices[i].op.little_endian)
    BY DEF Written
  <2>1. CASE t = s
    <3>0. prepared'[t].slices = list /\ Len(prepared[s].slices) \in Nat
      BY <2>1, <1>8, <1>12
    <3>1. i \in 1 .. Len(prepared[s].slices) + 1 /\ Len(prepared[s].slices) \in Nat
          /\ prepared'[t].slices[i] = list[i]
      BY <3>0, <1>9
    <3>2. CASE i = Len(prepared[s].slices) + 1
      <4>1. prepared'[t].slices[i] = sl
        BY <3>1, <3>2, <1>9
      <4> QED BY <4>1 DEF SliceWritten
    <3>3. CASE i \in 1 .. Len(prepared[s].slices)
      <4>1. prepared'[t].slices[i] = prepared[s].slices[i]
        BY <3>1, <3>3, <1>9
      <4>2. i \in DOMAIN prepared[s].slices
        BY <3>3, <1>8
      <4> QED BY <4>1, <4>2 DEF Written
    <3> QED BY <3>1, <3>2, <3>3
  <2>2. CASE t # s
    BY <2>2 DEF Written, Appended
  <2> QED BY <2>1, <2>2
<1> QED BY <1>7, <1>13, <1>15, <1>16, <1>18, <1>19

\* WriteTemp() appends a slice of the number's bytes.
LEMMA TempIs ==
    ASSUME IInv, NEW s \in Sessions, AtOp(s), NEW value \in 0 .. U64Mod - 1,
           IsDynamic(CurrentOp(s)), WriteTemp(s, value)
    PROVE  \E sl \in Slice : SliceWritten(sl) /\ Appended(s, sl, CurrentOp(s).length)
<1> DEFINE op == CurrentOp(s)
           bytes == write_numeric(value, op.length, op.little_endian)
           sl == [from |-> "temps", op |-> op, value |-> value, bytes |-> bytes]
           list == Append(prepared[s].slices, sl)
           temps == prepared[s].temps + op.length
<1>1. op \in Op /\ op.length \in Nat /\ op.little_endian \in BOOLEAN
  BY OpFacts DEF Op
<1>2. value \in Nat
  BY ModIs
<1>3. bytes \in Seq(0 .. Byte - 1)
  <2> DEFINE len == op.length
             le == op.little_endian
  <2>1. len \in Nat /\ le \in BOOLEAN
    BY <1>1
  <2> HIDE DEF len, le
  <2>2. write_numeric(value, len, le) \in Seq(0 .. Byte - 1)
    BY <1>2, <2>1, NumericIs
  <2> QED BY <2>2 DEF len, le
<1>4. prepared \in [Sessions -> Prepared]
  BY TypeParts DEF IInv
<1>5. prepared' = [prepared EXCEPT ![s].slices = list, ![s].temps = temps]
  <2> HIDE DEF op, bytes
  <2> QED BY <1>4 DEF WriteTemp, Prepared, op, bytes
<1> HIDE DEF bytes, op
<1>6. sl \in Slice /\ SliceWritten(sl)
  <2> DEFINE T == Seq(0 .. Byte - 1)
  <2>1. bytes \in T
    BY <1>3
  <2> HIDE DEF T
  <2>2. sl \in [from : {"temps"}, op : Op, value : 0 .. U64Mod - 1, bytes : T]
    BY <1>1, <2>1
  <2>3. SliceWritten(sl)
    BY DEF SliceWritten, bytes
  <2> QED BY <2>2, <2>3 DEF Slice, T
<1> HIDE DEF sl
<1>7. Appended(s, sl, op.length)
  <2> HIDE DEF list, temps
  <2>1. /\ prepared' = [t \in Sessions |-> prepared'[t]]
        /\ \A t \in Sessions : t # s => prepared'[t] = prepared[t]
    BY <1>4, <1>5
  <2>2. prepared'[s] = [slices |-> list, temps |-> temps, capacity |-> prepared[s].capacity]
    BY <1>4, <1>5 DEF Prepared
  <2> QED BY <2>1, <2>2 DEF Appended, list, temps
<1> QED BY <1>6, <1>7 DEF op

LEMMA IdentityKeeps ==
    ASSUME IInv, NEW s \in Sessions, IdentityOp(s)
    PROVE  IInv'
<1> DEFINE sl == [from |-> "packet", start |-> filling[s].offset, length |-> CurrentOp(s).length]
<1>1. AtOp(s) /\ CurrentOp(s).type = "IDENTITY" /\ Advance(s, 0)
      /\ counters_' = counters_ /\ fills' = fills /\ sent' = sent
  BY DEF IdentityOp
<1>2. CurrentOp(s).length \in Nat /\ filling[s].offset \in Nat
  BY <1>1, OpFacts DEF FillState
<1>3. sl \in Slice /\ SliceWritten(sl)
  BY <1>2 DEF Slice, SliceWritten
<1>4. prepared \in [Sessions -> Prepared] /\ CountersTyped /\ fills \in [Sessions -> 0 .. MaxFills]
  BY TypeParts DEF IInv
<1>5. Appended(s, sl, 0)
  <2> DEFINE list == Append(prepared[s].slices, sl)
  <2>1. prepared' = [prepared EXCEPT ![s].slices = list]
    BY <1>4 DEF IdentityOp
  <2> HIDE DEF list
  <2>2. /\ prepared' = [t \in Sessions |-> prepared'[t]]
        /\ \A t \in Sessions : t # s => prepared'[t] = prepared[t]
    BY <1>4, <2>1
  <2>3. prepared'[s] = [slices |-> list, temps |-> prepared[s].temps,
                        capacity |-> prepared[s].capacity]
    BY <1>4, <2>1 DEF Prepared
  <2>4. prepared[s].temps + 0 = prepared[s].temps
    <3>1. prepared[s].temps \in Nat
      BY <1>4 DEF Prepared
    <3> QED BY <3>1
  <2> QED BY <2>2, <2>3, <2>4 DEF Appended, list
<1> HIDE DEF sl
<1>6. /\ 0 = IF CurrentOp(s).type = "COUNTER" THEN 1 ELSE 0
      /\ 0 = IF IsDynamic(CurrentOp(s)) THEN CurrentOp(s).length ELSE 0
  BY <1>1 DEF IsDynamic
<1>7. /\ filling' \in [Sessions -> FillState] /\ prepared' \in [Sessions -> Prepared]
      /\ IndexBounded' /\ Reserved' /\ Written'
  BY <1>1, <1>3, <1>5, <1>6, OpEffect
<1>8. CountersTyped' /\ Counting'
  BY <1>1, <1>4 DEF CountersTyped, Counting, CounterSequence, IInv
<1> QED BY <1>1, <1>4, <1>7, <1>8, TypePartsNext DEF IInv

LEMMA TimestampKeeps ==
    ASSUME IInv, NEW s \in Sessions, TimestampOp(s)
    PROVE  IInv'
<1>1. AtOp(s) /\ CurrentOp(s).type = "TIMESTAMP" /\ Advance(s, 0)
      /\ counters_' = counters_ /\ fills' = fills /\ sent' = sent
  BY DEF TimestampOp
<1>2. PICK now \in Times : WriteTemp(s, now)
  BY DEF TimestampOp
<1>3. now \in 0 .. U64Mod - 1 /\ IsDynamic(CurrentOp(s))
  BY <1>1, PayloadAssumption DEF IsDynamic
<1>4. PICK sl \in Slice : SliceWritten(sl) /\ Appended(s, sl, CurrentOp(s).length)
  BY <1>1, <1>2, <1>3, TempIs
<1>5. CountersTyped /\ fills \in [Sessions -> 0 .. MaxFills]
  BY TypeParts DEF IInv
<1>6. CurrentOp(s).length \in Nat
  BY <1>1, OpFacts
<1>7. /\ 0 = IF CurrentOp(s).type = "COUNTER" THEN 1 ELSE 0
      /\ CurrentOp(s).length = IF IsDynamic(CurrentOp(s)) THEN CurrentOp(s).length ELSE 0
  BY <1>1, <1>3
<1>8. /\ filling' \in [Sessions -> FillState] /\ prepared' \in [Sessions -> Prepared]
      /\ IndexBounded' /\ Reserved' /\ Written'
  BY <1>1, <1>4, <1>6, <1>7, OpEffect
<1>9. CountersTyped' /\ Counting'
  BY <1>1, <1>5 DEF CountersTyped, Counting, CounterSequence, IInv
<1> QED BY <1>1, <1>5, <1>8, <1>9, TypePartsNext DEF IInv

LEMMA OneMore == \A n, k \in Nat : n * k \in Nat /\ (n + 1) * k = n * k + k
  OBVIOUS

LEMMA CounterKeeps ==
    ASSUME IInv, NEW s \in Sessions, CounterOp(s)
    PROVE  IInv'
<1> DEFINE p == filling[s].index
           c == filling[s].counter_idx + 1
           val == counters_[p][c]
           step == Steps[p][c]
           list == sent[p][c]
           next == (val + step) % U64Mod
           longer == Append(list, val)
<1>1. AtOp(s) /\ CurrentOp(s).type = "COUNTER" /\ Advance(s, 1) /\ fills' = fills
      /\ WriteTemp(s, val)
  BY DEF CounterOp
<1>2. counters_' = [counters_ EXCEPT ![p][c] = next] /\ sent' = [sent EXCEPT ![p][c] = longer]
  BY DEF CounterOp, fetch_add
<1>3. CountersTyped /\ fills \in [Sessions -> 0 .. MaxFills]
  BY TypeParts DEF IInv
<1>4. p \in DOMAIN Payloads /\ filling[s] \in FillState /\ OpsOf(s) \in Seq(Op)
      /\ filling[s].next \in 1 .. Len(OpsOf(s)) /\ CurrentOp(s) = OpsOf(s)[filling[s].next]
      /\ CurrentOp(s).length \in Nat
  BY <1>1, OpFacts
<1>5. filling[s].counter_idx \in Nat
  BY <1>4 DEF FillState
<1>6. Steps[p] \in Seq(Nat) /\ DOMAIN Steps[p] = 1 .. Len(Steps[p])
      /\ Len(Steps[p]) = NumCounters(OpsOf(s)) /\ Len(Steps[p]) \in Nat
  BY <1>4, PayloadFacts DEF OpsOf
<1>7. c \in DOMAIN Steps[p]
  <2> DEFINE n == filling[s].next
  <2>1. filling[s].counter_idx = Cardinality(Counters(OpsOf(s), n - 1))
    BY <1>1 DEF IInv, Reserved, AtOp
  <2>2. /\ Cardinality(Counters(OpsOf(s), n)) =
             IF OpsOf(s)[n].type = "COUNTER" THEN Cardinality(Counters(OpsOf(s), n - 1)) + 1
             ELSE Cardinality(Counters(OpsOf(s), n - 1))
        /\ Cardinality(Counters(OpsOf(s), n)) <= NumCounters(OpsOf(s))
    BY <1>4, CountersStep
  <2>3. OpsOf(s)[n].type = "COUNTER"
    BY <1>1, <1>4
  <2>4. Cardinality(Counters(OpsOf(s), n)) = c
    BY <2>1, <2>2, <2>3
  <2>5. c <= Len(Steps[p])
    BY <2>2, <2>4, <1>6
  <2> QED BY <2>5, <1>5, <1>6
<1>8. step \in Nat
  BY <1>6, <1>7
<1>9. val \in 0 .. U64Mod - 1 /\ list \in Seq(0 .. U64Mod - 1)
  BY <1>3, <1>4, <1>7 DEF CountersTyped
<1>10. IsDynamic(CurrentOp(s))
  BY <1>1 DEF IsDynamic
<1>11. PICK sl \in Slice : SliceWritten(sl) /\ Appended(s, sl, CurrentOp(s).length)
  BY <1>1, <1>9, <1>10, TempIs
<1>12. /\ 1 = IF CurrentOp(s).type = "COUNTER" THEN 1 ELSE 0
       /\ CurrentOp(s).length = IF IsDynamic(CurrentOp(s)) THEN CurrentOp(s).length ELSE 0
  BY <1>1, <1>10
<1>13. /\ filling' \in [Sessions -> FillState] /\ prepared' \in [Sessions -> Prepared]
       /\ IndexBounded' /\ Reserved' /\ Written'
  BY <1>1, <1>4, <1>11, <1>12, OpEffect
<1>14. next \in 0 .. U64Mod - 1
  <2>1. val + step \in Nat
    BY <1>8, <1>9, ModIs
  <2> HIDE DEF val, step
  <2> QED BY <2>1, ModIs, DivideIs
<1>15. /\ longer \in Seq(0 .. U64Mod - 1) /\ Len(longer) = Len(list) + 1
       /\ DOMAIN longer = 1 .. Len(list) + 1 /\ longer[Len(list) + 1] = val
       /\ \A k \in 1 .. Len(list) : longer[k] = list[k]
       /\ Len(list) \in Nat /\ DOMAIN list = 1 .. Len(list)
  <2> DEFINE T == 0 .. U64Mod - 1
  <2>1. val \in T /\ list \in Seq(T)
    BY <1>9
  <2> HIDE DEF T, val, list
  <2> QED BY <2>1 DEF T
<1>16. val = (Len(list) * step) % U64Mod
  BY <1>4, <1>7 DEF IInv, Counting
<1>17. next = (Len(longer) * step) % U64Mod
  <2> DEFINE L == Len(list)
             a == L * step
  <2>0. L \in Nat /\ Len(longer) = L + 1
    BY <1>15
  <2>1. a \in Nat /\ (L + 1) * step = a + step
    <3> HIDE DEF L, step
    <3> QED BY <2>0, <1>8, OneMore
  <2>3. val = a % U64Mod
    BY <1>16
  <2> HIDE DEF a, val, step, L, longer
  <2>4. ((a % U64Mod) + step) % U64Mod = (a + step) % U64Mod
    BY <2>1, <1>8, ModIs, ReducedSum
  <2> QED BY <2>0, <2>1, <2>3, <2>4
<1> HIDE DEF next, longer, val, step, list, p, c
<1>18. /\ DOMAIN counters_' = DOMAIN Payloads /\ DOMAIN sent' = DOMAIN Payloads
       /\ counters_'[p] = [counters_[p] EXCEPT ![c] = next]
       /\ sent'[p] = [sent[p] EXCEPT ![c] = longer]
       /\ \A q \in DOMAIN Payloads : q # p => counters_'[q] = counters_[q] /\ sent'[q] = sent[q]
  BY <1>2, <1>3, <1>4 DEF CountersTyped
<1>19. /\ counters_[p] \in [DOMAIN Steps[p] -> 0 .. U64Mod - 1]
       /\ sent[p] \in [DOMAIN Steps[p] -> Seq(0 .. U64Mod - 1)]
  BY <1>3, <1>4 DEF CountersTyped
<1>20. /\ counters_'[p] \in [DOMAIN Steps[p] -> 0 .. U64Mod - 1]
       /\ counters_'[p][c] = next
       /\ \A d \in DOMAIN Steps[p] : d # c => counters_'[p][d] = counters_[p][d]
  BY <1>7, <1>14, <1>18, <1>19
<1>21. /\ sent'[p] \in [DOMAIN Steps[p] -> Seq(0 .. U64Mod - 1)]
       /\ sent'[p][c] = longer
       /\ \A d \in DOMAIN Steps[p] : d # c => sent'[p][d] = sent[p][d]
  <2> DEFINE T == Seq(0 .. U64Mod - 1)
  <2>1. longer \in T /\ sent[p] \in [DOMAIN Steps[p] -> T]
    BY <1>15, <1>19
  <2> HIDE DEF T
  <2>2. /\ sent'[p] \in [DOMAIN Steps[p] -> T] /\ sent'[p][c] = longer
        /\ \A d \in DOMAIN Steps[p] : d # c => sent'[p][d] = sent[p][d]
    <3> DEFINE new == sent'[p]
               D == DOMAIN Steps[p]
               before == sent[p]
    <3>1. new = [before EXCEPT ![c] = longer] /\ before \in [D -> T] /\ c \in D
      BY <1>7, <1>18, <2>1
    <3> HIDE DEF new, D, before
    <3>2. /\ new \in [D -> T] /\ new[c] = longer
          /\ \A d \in D : d # c => new[d] = before[d]
      BY <2>1, <3>1
    <3> QED BY <3>2 DEF new, D, before
  <2> QED BY <2>2 DEF T
<1>22. CountersTyped'
  <2> SUFFICES ASSUME NEW q \in DOMAIN Payloads
               PROVE  /\ counters_'[q] \in [DOMAIN Steps[q] -> 0 .. U64Mod - 1]
                      /\ sent'[q] \in [DOMAIN Steps[q] -> Seq(0 .. U64Mod - 1)]
    BY <1>18 DEF CountersTyped
  <2>1. CASE q = p
    BY <2>1, <1>20, <1>21
  <2>2. CASE q # p
    BY <2>2, <1>3, <1>18 DEF CountersTyped
  <2> QED BY <2>1, <2>2
<1>23. ASSUME NEW q \in DOMAIN Payloads, NEW d \in DOMAIN Steps[q]
       PROVE  /\ counters_'[q][d] = (Len(sent'[q][d]) * Steps[q][d]) % U64Mod
              /\ \A k \in DOMAIN sent'[q][d] :
                    sent'[q][d][k] = ((k - 1) * Steps[q][d]) % U64Mod
  <2>1. CASE q = p /\ d = c
    <3>1. counters_'[q][d] = next /\ sent'[q][d] = longer /\ Steps[q][d] = step
      BY <2>1, <1>20, <1>21 DEF step
    <3>2. ASSUME NEW k \in DOMAIN longer PROVE longer[k] = ((k - 1) * step) % U64Mod
      <4>1. CASE k = Len(list) + 1
        <5>1. k - 1 = Len(list)
          BY <4>1, <1>15
        <5> QED BY <4>1, <5>1, <1>15, <1>16
      <4>2. CASE k \in 1 .. Len(list)
        <5>1. longer[k] = list[k] /\ k \in DOMAIN list
          BY <4>2, <1>15
        <5>2. list[k] = ((k - 1) * step) % U64Mod
          BY <5>1, <1>4, <1>7 DEF IInv, Counting, CounterSequence, list, step
        <5> QED BY <5>1, <5>2
      <4>3. k \in 1 .. Len(list) + 1
        BY <1>15
      <4> QED BY <4>1, <4>2, <4>3, <1>15
    <3> QED BY <3>1, <3>2, <1>17
  <2>2. CASE ~(q = p /\ d = c)
    <3>1. counters_'[q][d] = counters_[q][d] /\ sent'[q][d] = sent[q][d]
      BY <2>2, <1>18, <1>20, <1>21
    <3> QED BY <3>1 DEF IInv, Counting, CounterSequence
  <2> QED BY <2>1, <2>2
<1>24. Counting'
  BY <1>23 DEF Counting, CounterSequence
<1> QED BY <1>1, <1>3, <1>13, <1>22, <1>24, TypePartsNext DEF IInv

LEMMA StutterKeeps == IInv /\ UNCHANGED vars => IInv'
<1> SUFFICES ASSUME IInv, UNCHANGED vars PROVE IInv'
  OBVIOUS
<1>1. counters_' = counters_ /\ filling' = filling /\ prepared' = prepared /\ fills' = fills
      /\ sent' = sent
  BY DEF vars
<1>2. TypeOK'
  BY <1>1 DEF IInv, TypeOK
<1>3. Reserved'
  BY <1>1 DEF IInv, Reserved, OpsOf
<1>4. Counting' /\ Written'
  BY <1>1 DEF IInv, Counting, CounterSequence, Written
<1> QED BY <1>2, <1>3, <1>4 DEF IInv

LEMMA StepKeeps == IInv /\ [Next]_vars => IInv'
<1> SUFFICES ASSUME IInv, [Next]_vars PROVE IInv'
  OBVIOUS
<1>1. CASE Next
  BY <1>1, BeginKeeps, IdentityKeeps, CounterKeeps, TimestampKeeps, FinishKeeps DEF Next
<1>2. CASE UNCHANGED vars
  BY <1>2, StutterKeeps
<1> QED BY <1>1, <1>2

-----------------------------------------------------------------------------
(* Theorems. *)

\* The invariant above holds whatever the threads interleave.
THEOREM Invariance == Spec => []IInv
  BY InitHolds, StepKeeps, PTL DEF Spec

\* A session's counter index never leaves the payload's list of counters.
THEOREM TypeCorrect == Spec => []TypeOK
<1>1. IInv => TypeOK
  BY DEF IInv
<1> QED BY <1>1, Invariance, PTL

\* fill_payload() never writes past what it reserved, so temps never grows
\* and the slices into it stay valid.
THEOREM NeverReallocates == Spec => []SlicesStayValid
<1>1. IInv => SlicesStayValid
  BY DEF IInv, Reserved, SlicesStayValid
<1> QED BY <1>1, Invariance, PTL

\* Any number of threads that fill the same payload get the values of its
\* counters in order, each once.
THEOREM CountersInOrder == Spec => []CounterSequence
<1>1. IInv => CounterSequence
  BY DEF IInv, Counting
<1> QED BY <1>1, Invariance, PTL

\* For every length and both byte orders, the bytes write_numeric() lays down
\* are those of the number.
THEOREM BytesReadBack == Spec => []NumbersReadBack
<1>1. ASSUME IInv PROVE NumbersReadBack
  <2> SUFFICES ASSUME NEW s \in Sessions, NEW n \in DOMAIN prepared[s].slices,
                      prepared[s].slices[n].from = "temps"
               PROVE  Decoded(prepared[s].slices[n].bytes, prepared[s].slices[n].op.little_endian)
                        = prepared[s].slices[n].value % Power[prepared[s].slices[n].op.length]
    BY DEF NumbersReadBack
  <2> DEFINE slice == prepared[s].slices[n]
             T == Slice
             raw == slice.value
             length == slice.op.length
             little == slice.op.little_endian
  <2>1. prepared[s].slices \in Seq(T)
    BY <1>1, TypeParts DEF IInv, Prepared
  <2>2. slice \in T
    <3> HIDE DEF T
    <3> QED BY <2>1
  <2>3. slice.bytes = write_numeric(raw, length, little)
    BY <1>1 DEF IInv, Written
  <2>4. slice \in [from : {"temps"}, op : Op, value : 0 .. U64Mod - 1,
                   bytes : Seq(0 .. Byte - 1)]
    <3> HIDE DEF slice
    <3>1. slice.from = "temps"
      BY DEF slice
    <3> QED BY <2>2, <3>1 DEF Slice
  <2>5. slice.op \in Op /\ raw \in 0 .. U64Mod - 1
    <3> DEFINE U == Seq(0 .. Byte - 1)
    <3>1. slice \in [from : {"temps"}, op : Op, value : 0 .. U64Mod - 1, bytes : U]
      BY <2>4
    <3> HIDE DEF U, slice
    <3> QED BY <3>1
  <2>6. raw \in Nat /\ length \in Nat /\ little \in BOOLEAN
    BY <2>5, ModIs DEF Op
  <2> HIDE DEF raw, length, little
  <2>7. Decoded(write_numeric(raw, length, little), little) = raw % Power[length]
    BY <2>6, DecodedIs
  <2> QED BY <2>3, <2>7 DEF raw, length, little
<1> QED BY <1>1, Invariance, PTL

-----------------------------------------------------------------------------
(* The message handler.  The inductive invariant follows one call of it:   *)
(* what it owes the session (its callback) and what it owes the guest (the *)
(* blocks it has to give back).                                            *)

\* Before anything has been copied out there is neither a response nor an error.
Early == {"idle", "alloc", "copy_in", "handle", "copy_out"}

\* The session of a parse_message() under way is still to be called back.
Owed == IF call.step # "idle" /\ call.func = "parse_message" THEN 1 ELSE 0

Answers ==
    /\ log.callbacks + Owed = log.messages
    /\ log.status = "ERROR" => log.answer = 0
    /\ call.status = "ERROR" => call.response = 0
    /\ call.step \in Early => call.status = "OK" /\ call.response = 0

\* The blocks a call that is not caught still has to give back.
Held ==
    CASE call.step \in {"copy_in", "handle"} -> {call.input}
      [] call.step \in {"copy_out", "dealloc_out"} -> {call.input, call.output}
      [] call.step = "dealloc_in" -> {call.input} \ {b \in Block : b.index = 0}
      [] OTHER -> {}

\* What an honest guest knows: every block it handed out is a real one, the
\* call holds its blocks, and without a trap there are no others.
Blocks ==
    guest.kind = "honest" =>
        /\ guest.bad_frees = 0
        /\ \A b \in guest.live : b.index # 0
        /\ call.step # "caught" => Held \subseteq guest.live
        /\ call.step # "caught" /\ ~log.trapped => guest.live = Held
        /\ call.step \in {"copy_out", "dealloc_out"} => call.input # call.output

Indices ==
    /\ call.step = "alloc" => call.input.index = 0
    /\ call.step \in {"copy_in", "handle", "copy_out", "dealloc_out"} => call.input.index # 0
    /\ call.step = "caught" => log.trapped

\* HandlerTypeOK strengthened by the debts of the call under way: it is inductive.
HandlerInv == HandlerTypeOK /\ Answers /\ Blocks /\ Indices

-----------------------------------------------------------------------------
(* The guest. *)

\* However the guest grows its memory, the host still has a view of it.
LEMMA GrownView ==
    ASSUME NEW memory \in View
    PROVE  Grown(memory) \subseteq View
  BY WasmAssumption DEF Grown, View

\* A length the host passes to alloc() is a 32-bit number.
LEMMA LengthFits ==
    ASSUME NEW n \in Nat
    PROVE  n % Word \in U32
  BY WasmAssumption DEF U32

\* Giving back a block: the guest stays a guest, loses that block and no
\* other, and does not complain if it had handed the block out.
LEMMA DeallocEffect ==
    ASSUME HandlerTypeOK, NEW block \in Block, dealloc(block)
    PROVE  /\ guest' \in [kind : Guests, memory : View, live : SUBSET Block, bad_frees : Nat]
           /\ guest'.kind = guest.kind
           /\ guest'.live = guest.live \ {block}
           /\ guest.kind = "honest" /\ (block.index = 0 \/ block \in guest.live) =>
                 guest'.bad_frees = guest.bad_frees
  <1>1. PICK memory \in Grown(guest.memory) :
          guest' = [guest EXCEPT
                    !.memory = memory,
                    !.live = @ \ {block},
                    !.bad_frees = IF guest.kind = "honest" /\ block.index # 0
                                                           /\ block \notin guest.live
                                  THEN @ + 1 ELSE @]
    BY DEF dealloc
  <1>2. memory \in View BY GrownView DEF HandlerTypeOK
  <1>3. guest.bad_frees \in Nat /\ guest.live \in SUBSET Block BY DEF HandlerTypeOK
  <1> DEFINE frees == IF guest.kind = "honest" /\ block.index # 0 /\ block \notin guest.live
                      THEN guest.bad_frees + 1 ELSE guest.bad_frees
  <1>4. frees \in Nat /\ guest.live \ {block} \in SUBSET Block BY <1>3
  <1>5. guest' = [guest EXCEPT !.memory = memory, !.live = guest.live \ {block},
                               !.bad_frees = frees]
    BY <1>1
  <1>6. guest.kind = "honest" /\ (block.index = 0 \/ block \in guest.live) =>
           frees = guest.bad_frees
    OBVIOUS
  <1> HIDE DEF frees
  <1> QED BY <1>2, <1>4, <1>5, <1>6 DEF HandlerTypeOK

\* Handing out a block: an honest guest remembers it.
LEMMA HandEffect ==
    ASSUME HandlerTypeOK, NEW block \in Block, NEW memory \in Grown(guest.memory), Hand(block, memory)
    PROVE  /\ guest' \in [kind : Guests, memory : View, live : SUBSET Block, bad_frees : Nat]
           /\ guest'.kind = guest.kind
           /\ guest'.bad_frees = guest.bad_frees
           /\ guest.kind = "honest" => guest'.live = guest.live \cup {block}
  <1>1. memory \in View BY GrownView DEF HandlerTypeOK
  <1> QED BY <1>1 DEF HandlerTypeOK, Hand

\* Growing the memory changes nothing the host is owed or owes.
LEMMA GrowEffect ==
    ASSUME HandlerTypeOK, NEW memory \in Grown(guest.memory),
           guest' = [guest EXCEPT !.memory = memory]
    PROVE  /\ guest' \in [kind : Guests, memory : View, live : SUBSET Block, bad_frees : Nat]
           /\ guest'.kind = guest.kind
           /\ guest'.bad_frees = guest.bad_frees
           /\ guest'.live = guest.live
  <1>1. memory \in View BY GrownView DEF HandlerTypeOK
  <1> QED BY <1>1 DEF HandlerTypeOK

\* A fresh block that is not empty differs from every block still in use.
LEMMA FreshBlock ==
    ASSUME HandlerTypeOK, guest.kind = "honest", NEW block \in Block, NEW memory,
           Gives(block, memory), block.length > 0
    PROVE  block \notin guest.live /\ block.index # 0
  <1>1. block.index # 0 /\ \A b \in guest.live : Bytes(b) \cap Bytes(block) = {}
    BY DEF Gives
  <1>2. block.index \in Bytes(block)
    BY WasmAssumption DEF Bytes, Block, U32
  <1> QED BY <1>1, <1>2

-----------------------------------------------------------------------------
(* The inductive invariant. *)

LEMMA HandlerInitHolds == HandlerInit => HandlerInv
  <1> SUFFICES ASSUME HandlerInit PROVE HandlerInv OBVIOUS
  <1>1. call \in [step : Step, func : {"parse_header", "parse_message"}, input : Block,
                 output : Block, mem_view : View, response : U32, status : {"OK", "ERROR"}]
    BY WasmAssumption DEF HandlerInit, Idle, Step, Block, NoBlock, U32, View
  <1>2. guest \in [kind : Guests, memory : View, live : SUBSET Block, bad_frees : Nat]
    BY WasmAssumption DEF HandlerInit, View
  <1>3. HandlerTypeOK BY <1>1, <1>2, WasmAssumption DEF HandlerInit, HandlerTypeOK, U32
  <1>4. Answers BY DEF HandlerInit, Answers, Owed, Idle
  <1>5. Blocks BY DEF HandlerInit, Blocks, Held, Idle
  <1>6. Indices BY DEF HandlerInit, Indices, Idle
  <1> QED BY <1>3, <1>4, <1>5, <1>6 DEF HandlerInv

LEMMA CallAllocKeeps == HandlerInv /\ CallAlloc => HandlerInv'
  <1> SUFFICES ASSUME HandlerInv, CallAlloc PROVE HandlerInv' OBVIOUS
  <1> USE DEF HandlerInv
  <1>1. PICK memory \in Grown(guest.memory), index \in U32 :
          LET block == [call.input EXCEPT !.index = index]
          IN  \/ /\ index # 0
                 /\ Gives(block, memory)
                 /\ Hand(block, memory)
                 /\ call' = [call EXCEPT !.step = "copy_in", !.input = block]
              \/ /\ index = 0
                 /\ guest' = [guest EXCEPT !.memory = memory]
                 /\ call' = [call EXCEPT !.status = "ERROR",
                               !.step = IF call.func = "parse_header" THEN "dealloc_in"
                                                                     ELSE "finish"]
    BY DEF CallAlloc
  <1> DEFINE block == [call.input EXCEPT !.index = index]
  <1>2. block \in Block /\ block.index = index BY DEF HandlerTypeOK, Block
  <1>3. CASE index # 0
    <2>1. Hand(block, memory) /\ call' = [call EXCEPT !.step = "copy_in", !.input = block]
      BY <1>1, <1>3
    <2> HIDE DEF block
    <2>2. call' \in [step : Step, func : {"parse_header", "parse_message"}, input : Block,
                 output : Block, mem_view : View, response : U32, status : {"OK", "ERROR"}]
      BY <2>1, <1>2 DEF HandlerTypeOK, Step
    <2>3. HandlerTypeOK' BY <2>1, <2>2, <1>2, HandEffect DEF HandlerTypeOK, CallAlloc
    <2>4. Answers' BY <2>1 DEF HandlerTypeOK, Answers, Owed, CallAlloc, Early
    <2>5. Held = {} /\ Held' = {block} BY <2>1 DEF HandlerTypeOK, Held, CallAlloc
    <2>6. Blocks' BY <2>1, <2>5, <1>2, <1>3, HandEffect DEF HandlerTypeOK, Blocks, CallAlloc
    <2>7. Indices' BY <2>1, <1>2, <1>3 DEF HandlerTypeOK, Indices, CallAlloc
    <2> QED BY <2>3, <2>4, <2>6, <2>7
  <1>4. CASE index = 0
    <2>1. /\ guest' = [guest EXCEPT !.memory = memory]
          /\ call' = [call EXCEPT !.status = "ERROR",
                         !.step = IF call.func = "parse_header" THEN "dealloc_in" ELSE "finish"]
      BY <1>1, <1>4
    <2>2. call' \in [step : Step, func : {"parse_header", "parse_message"}, input : Block,
                 output : Block, mem_view : View, response : U32, status : {"OK", "ERROR"}]
      BY <2>1 DEF HandlerTypeOK, Step
    <2>3. HandlerTypeOK' BY <2>1, <2>2, GrowEffect DEF HandlerTypeOK, CallAlloc
    <2>4. Answers' BY <2>1 DEF HandlerTypeOK, Answers, Owed, CallAlloc, Early
    <2>5. Held = {} /\ Held' = {} BY <2>1 DEF HandlerTypeOK, Held, CallAlloc, Indices
    <2>6. Blocks' BY <2>1, <2>5, GrowEffect DEF HandlerTypeOK, Blocks, CallAlloc
    <2>7. Indices' BY <2>1 DEF HandlerTypeOK, Indices, CallAlloc
    <2> QED BY <2>3, <2>4, <2>6, <2>7
  <1> QED BY <1>3, <1>4

LEMMA CopyInKeeps == HandlerInv /\ CopyIn => HandlerInv'
  <1> SUFFICES ASSUME HandlerInv, CopyIn PROVE HandlerInv' OBVIOUS
  <1> USE DEF HandlerInv
  <1>1. \/ call' = [call EXCEPT !.mem_view = guest.memory, !.step = "handle"]
        \/ call' = [call EXCEPT !.mem_view = guest.memory, !.step = "dealloc_in",
                                !.status = "ERROR"]
    BY DEF CopyIn, HandlerTypeOK
  <1>2. HandlerTypeOK' BY <1>1 DEF HandlerTypeOK, Step, CopyIn
  <1>3. Answers' BY <1>1 DEF HandlerTypeOK, Answers, Owed, CopyIn, Early
  <1>4. Held = {call.input} /\ Held' = {call.input}
    BY <1>1 DEF HandlerTypeOK, Held, CopyIn, Indices
  <1>5. Blocks' BY <1>1, <1>4 DEF HandlerTypeOK, Blocks, CopyIn
  <1>6. Indices' BY <1>1 DEF HandlerTypeOK, Indices, CopyIn
  <1> QED BY <1>2, <1>3, <1>5, <1>6

LEMMA CallHandleHeaderKeeps == HandlerInv /\ CallHandleHeader => HandlerInv'
  <1> SUFFICES ASSUME HandlerInv, CallHandleHeader PROVE HandlerInv' OBVIOUS
  <1> USE DEF HandlerInv
  <1>1. PICK memory \in Grown(guest.memory), status \in {"OK", "ERROR"} :
          /\ guest' = [guest EXCEPT !.memory = memory]
          /\ call' = [call EXCEPT !.step = "dealloc_in", !.status = status]
    BY DEF CallHandleHeader
  <1>2. HandlerTypeOK' BY <1>1, GrowEffect DEF HandlerTypeOK, Step, CallHandleHeader
  <1>3. Answers' BY <1>1 DEF HandlerTypeOK, Answers, Owed, CallHandleHeader, Early
  <1>4. Held = {call.input} /\ Held' = {call.input}
    BY <1>1 DEF HandlerTypeOK, Held, CallHandleHeader, Indices
  <1>5. Blocks' BY <1>1, <1>4, GrowEffect DEF HandlerTypeOK, Blocks, CallHandleHeader
  <1>6. Indices' BY <1>1 DEF HandlerTypeOK, Indices, CallHandleHeader
  <1> QED BY <1>2, <1>3, <1>5, <1>6

LEMMA CallHandleBodyKeeps == HandlerInv /\ CallHandleBody => HandlerInv'
  <1> SUFFICES ASSUME HandlerInv, CallHandleBody PROVE HandlerInv' OBVIOUS
  <1> USE DEF HandlerInv
  <1>1. PICK memory \in Grown(guest.memory), output \in Block :
          /\ \/ output.length = 0 /\ guest' = [guest EXCEPT !.memory = memory]
             \/ output.length > 0 /\ Gives(output, memory) /\ Hand(output, memory)
          /\ call' = [call EXCEPT !.output = output,
                                  !.step = IF output.length > 0 THEN "copy_out" ELSE "dealloc_in"]
    BY DEF CallHandleBody
  <1> DEFINE step == IF output.length > 0 THEN "copy_out" ELSE "dealloc_in"
  <1>a. /\ call' = [call EXCEPT !.output = output, !.step = step]
        /\ step \in {"copy_out", "dealloc_in"}
        /\ output.length = 0 => step = "dealloc_in"
        /\ output.length > 0 => step = "copy_out"
    BY <1>1 DEF Block, U32
  <1> HIDE DEF step
  <1>b. guest' \in [kind : Guests, memory : View, live : SUBSET Block, bad_frees : Nat]
    BY <1>1, GrowEffect, HandEffect
  <1>2. HandlerTypeOK' BY <1>a, <1>b DEF HandlerTypeOK, Step, CallHandleBody
  <1>3. Answers' BY <1>a DEF HandlerTypeOK, Answers, Owed, CallHandleBody, Early
  <1>4. Held = {call.input} BY DEF Held, CallHandleBody
  <1>5. Indices' BY <1>a DEF HandlerTypeOK, Indices, CallHandleBody
  <1>6. CASE output.length = 0
    <2>1. Held' = {call.input}
      BY <1>a, <1>6 DEF HandlerTypeOK, Held, CallHandleBody, Indices
    <2>2. Blocks'
      BY <1>1, <1>a, <1>4, <1>6, <2>1, GrowEffect DEF HandlerTypeOK, Blocks, CallHandleBody
    <2> QED BY <1>2, <1>3, <1>5, <2>2
  <1>7. CASE output.length > 0
    <2>1. Held' = {call.input, output}
      BY <1>a, <1>7 DEF HandlerTypeOK, Held, CallHandleBody
    <2>2. guest.kind = "honest" => output # call.input /\ output.index # 0
      BY <1>1, <1>4, <1>7, FreshBlock DEF Blocks, CallHandleBody
    <2>3. /\ guest'.kind = guest.kind /\ guest'.bad_frees = guest.bad_frees
          /\ guest.kind = "honest" => guest'.live = guest.live \cup {output}
      BY <1>1, <1>7, HandEffect
    <2>4. call'.step = "copy_out" /\ call'.input = call.input /\ call'.output = output
      BY <1>a, <1>7 DEF HandlerTypeOK
    <2>5. call.step = "handle" /\ log' = log BY DEF CallHandleBody
    <2>6. Blocks' BY <1>4, <2>1, <2>2, <2>3, <2>4, <2>5 DEF Blocks
    <2> QED BY <1>2, <1>3, <1>5, <2>6
  <1>8. output.length = 0 \/ output.length > 0 BY DEF Block, U32
  <1> QED BY <1>6, <1>7, <1>8

LEMMA CopyOutKeeps == HandlerInv /\ CopyOut => HandlerInv'
  <1> SUFFICES ASSUME HandlerInv, CopyOut PROVE HandlerInv' OBVIOUS
  <1> USE DEF HandlerInv
  <1>1. \/ /\ call' = [call EXCEPT !.mem_view = guest.memory, !.step = "dealloc_out",
                                   !.response = call.output.length]
           /\ UNCHANGED log
        \/ /\ call' = [call EXCEPT !.mem_view = guest.memory, !.step = "caught"]
           /\ log' = [log EXCEPT !.trapped = TRUE]
        \/ /\ call' = [call EXCEPT !.mem_view = guest.memory, !.step = "dealloc_out",
                                   !.status = "ERROR"]
           /\ UNCHANGED log
    BY DEF CopyOut, Receive, HandlerTypeOK
  <1>2. HandlerTypeOK' BY <1>1 DEF HandlerTypeOK, Step, CopyOut, Block
  <1>3. Answers' BY <1>1 DEF HandlerTypeOK, Answers, Owed, CopyOut, Early
  <1>4. Held = {call.input, call.output} BY DEF Held, CopyOut
  <1>5. call'.step # "caught" => Held' = {call.input, call.output} /\ log' = log
    BY <1>1 DEF HandlerTypeOK, Held
  <1>6. Blocks' BY <1>1, <1>4, <1>5 DEF HandlerTypeOK, Blocks, CopyOut
  <1>7. Indices' BY <1>1 DEF HandlerTypeOK, Indices, CopyOut
  <1> QED BY <1>2, <1>3, <1>6, <1>7

LEMMA DeallocOutKeeps == HandlerInv /\ DeallocOut => HandlerInv'
  <1> SUFFICES ASSUME HandlerInv, DeallocOut PROVE HandlerInv' OBVIOUS
  <1> USE DEF HandlerInv
  <1>1. call' = [call EXCEPT !.step = "dealloc_in"] /\ UNCHANGED <<handler, log>>
    BY DEF DeallocOut
  <1>2. call.output \in Block /\ dealloc(call.output) BY DEF HandlerTypeOK, DeallocOut
  <1>3. HandlerTypeOK' BY <1>1, <1>2, DeallocEffect DEF HandlerTypeOK, Step
  <1>4. Answers' BY <1>1 DEF HandlerTypeOK, Answers, Owed, DeallocOut, Early
  <1>5. Held = {call.input, call.output} BY DEF Held, DeallocOut
  <1>6. Held' = {call.input} BY <1>1 DEF HandlerTypeOK, Held, DeallocOut, Indices
  <1>7. Blocks'
    BY <1>1, <1>2, <1>5, <1>6, DeallocEffect DEF HandlerTypeOK, Blocks, DeallocOut
  <1>8. Indices' BY <1>1 DEF HandlerTypeOK, Indices
  <1> QED BY <1>3, <1>4, <1>7, <1>8

LEMMA DeallocInKeeps == HandlerInv /\ DeallocIn => HandlerInv'
  <1> SUFFICES ASSUME HandlerInv, DeallocIn PROVE HandlerInv' OBVIOUS
  <1> USE DEF HandlerInv
  <1>1. call' = [call EXCEPT !.step = "finish"] /\ UNCHANGED <<handler, log>>
    BY DEF DeallocIn
  <1>2. call.input \in Block /\ dealloc(call.input) BY DEF HandlerTypeOK, DeallocIn
  <1>3. HandlerTypeOK' BY <1>1, <1>2, DeallocEffect DEF HandlerTypeOK, Step
  <1>4. Answers' BY <1>1 DEF HandlerTypeOK, Answers, Owed, DeallocIn, Early
  <1>5. Held = {call.input} \ {b \in Block : b.index = 0} BY DEF Held, DeallocIn
  <1>6. Held' = {} BY <1>1 DEF HandlerTypeOK, Held
  <1>7. guest.kind = "honest" => call.input.index = 0 \/ call.input \in guest.live
    BY <1>2, <1>5 DEF Blocks, DeallocIn
  <1>8. Blocks'
    BY <1>1, <1>2, <1>5, <1>6, <1>7, DeallocEffect DEF HandlerTypeOK, Blocks, DeallocIn
  <1>9. Indices' BY <1>1 DEF HandlerTypeOK, Indices
  <1> QED BY <1>3, <1>4, <1>8, <1>9

LEMMA ReturnKeeps ==
    ASSUME HandlerInv, call.step \in {"finish", "caught"}, NEW response \in U32,
           NEW status \in {"OK", "ERROR"}, status = "ERROR" => response = 0,
           Return(response, status)
    PROVE  HandlerInv'
  <1> USE DEF HandlerInv
  <1>1. Idle \in [step : Step, func : {"parse_header", "parse_message"}, input : Block,
                 output : Block, mem_view : View, response : U32, status : {"OK", "ERROR"}]
    BY WasmAssumption DEF Idle, Step, Block, NoBlock, U32, View
  <1>2. /\ call' = Idle /\ Idle.step = "idle" /\ Idle.status = "OK" /\ Idle.response = 0
        /\ UNCHANGED <<handler, guest>>
    BY DEF Return, Idle
  <1> DEFINE n == IF call.func = "parse_message" THEN log.callbacks + 1 ELSE log.callbacks
  <1>3. log' = [log EXCEPT !.callbacks = n, !.answer = response, !.status = status]
    BY DEF Return
  <1>4. n \in Nat /\ n = log.messages BY DEF HandlerTypeOK, Answers, Owed
  <1> HIDE DEF n
  <1>5. HandlerTypeOK' BY <1>1, <1>2, <1>3, <1>4 DEF HandlerTypeOK
  <1>6. Answers' BY <1>2, <1>3, <1>4 DEF HandlerTypeOK, Answers, Owed
  <1>7. Held' = {} BY <1>2 DEF Held
  <1>8. call.step # "caught" => Held = {} BY DEF Held
  <1>9. Blocks' BY <1>2, <1>3, <1>7, <1>8 DEF HandlerTypeOK, Blocks, Indices
  <1>10. Indices' BY <1>2 DEF Indices
  <1> QED BY <1>5, <1>6, <1>9, <1>10

LEMMA GuestTrapsKeeps == HandlerInv /\ GuestTraps => HandlerInv'
  <1> SUFFICES ASSUME HandlerInv, GuestTraps PROVE HandlerInv' OBVIOUS
  <1> USE DEF HandlerInv
  <1>1. /\ call' = [call EXCEPT !.step = "caught"] /\ log' = [log EXCEPT !.trapped = TRUE]
        /\ UNCHANGED <<handler, guest>> /\ call.step # "idle"
    BY DEF GuestTraps, InGuest
  <1>2. HandlerTypeOK' BY <1>1 DEF HandlerTypeOK, Step
  <1>3. Answers' BY <1>1 DEF HandlerTypeOK, Answers, Owed, Early
  <1>4. Blocks' BY <1>1 DEF HandlerTypeOK, Blocks
  <1>5. Indices' BY <1>1 DEF HandlerTypeOK, Indices
  <1> QED BY <1>2, <1>3, <1>4, <1>5

\* Entering either function: nothing has been handed out yet.
LEMMA CallBeginKeeps ==
    ASSUME HandlerInv, NEW func \in {"parse_header", "parse_message"}, NEW length \in Nat,
           Begin(func, length), UNCHANGED <<handler, guest>>,
           log' = [log EXCEPT !.calls = @ + 1,
                              !.messages = IF func = "parse_message" THEN @ + 1 ELSE @]
    PROVE  HandlerInv'
  <1> USE DEF HandlerInv
  <1> DEFINE input == [index |-> 0, length |-> length % Word]
             n == IF func = "parse_message" THEN log.messages + 1 ELSE log.messages
  <1>1. input \in Block BY LengthFits, WasmAssumption DEF Block, U32
  <1>2. call' = [Idle EXCEPT !.step = "alloc", !.func = func, !.input = input]
    BY DEF Begin
  <1>3. log' = [log EXCEPT !.calls = @ + 1, !.messages = n] OBVIOUS
  <1>4. n \in Nat BY DEF HandlerTypeOK
  <1>5. log.calls + 1 \in 0 .. MaxCalls BY WasmAssumption DEF HandlerTypeOK, Begin
  <1>6. Idle \in [step : Step, func : {"parse_header", "parse_message"}, input : Block,
                 output : Block, mem_view : View, response : U32, status : {"OK", "ERROR"}]
    BY WasmAssumption DEF Idle, Step, Block, NoBlock, U32, View
  <1>7. input.index = 0 OBVIOUS
  <1> HIDE DEF input
  <1>8. /\ call' \in [step : Step, func : {"parse_header", "parse_message"}, input : Block,
                 output : Block, mem_view : View, response : U32, status : {"OK", "ERROR"}]
        /\ call'.step = "alloc" /\ call'.func = func /\ call'.input = input
        /\ call'.status = "OK" /\ call'.response = 0
    BY <1>1, <1>2, <1>6 DEF Step, Idle
  <1>9. log.callbacks + (IF func = "parse_message" THEN 1 ELSE 0) = n
    BY DEF HandlerTypeOK, Answers, Owed, Begin
  <1> HIDE DEF n
  <1>10. HandlerTypeOK' BY <1>3, <1>4, <1>5, <1>8 DEF HandlerTypeOK
  <1>11. Answers' BY <1>3, <1>8, <1>9 DEF HandlerTypeOK, Answers, Owed
  <1>12. Held = {} /\ Held' = {} BY <1>8 DEF Held, Begin
  <1>13. Blocks' BY <1>3, <1>8, <1>12 DEF HandlerTypeOK, Blocks, Begin
  <1>14. Indices' BY <1>7, <1>8 DEF Indices
  <1> QED BY <1>10, <1>11, <1>13, <1>14

LEMMA ParseMessageKeeps ==
    ASSUME HandlerInv, NEW header \in Headers, NEW body \in Bodies, parse_message(header, body)
    PROVE  HandlerInv'
  <1>1. header + body \in Nat BY WasmAssumption
  <1>2. log' = [log EXCEPT !.calls = @ + 1, !.messages = @ + 1] BY DEF parse_message
  <1> QED BY <1>1, <1>2, CallBeginKeeps DEF parse_message

\* Without a parser for headers the answer is an error at once.
LEMMA ParseHeaderKeeps ==
    ASSUME HandlerInv, NEW header \in Nat, parse_header(header)
    PROVE  HandlerInv'
  <1>1. CASE /\ Begin("parse_header", header)
             /\ log' = [log EXCEPT !.calls = @ + 1]
             /\ UNCHANGED <<handler, guest>>
    <2>1. log' = [log EXCEPT !.calls = @ + 1, !.messages = @] BY <1>1 DEF HandlerInv, HandlerTypeOK
    <2> QED BY <1>1, <2>1, CallBeginKeeps
  <1>2. CASE /\ call.step = "idle"
             /\ log' = [log EXCEPT !.status = "ERROR", !.answer = 0]
             /\ UNCHANGED <<handler, guest, call>>
    <2>0. 0 \in U32 BY WasmAssumption DEF U32
    <2>1. HandlerTypeOK' BY <1>2, <2>0 DEF HandlerInv, HandlerTypeOK
    <2>2. Answers' BY <1>2, <2>0 DEF HandlerInv, HandlerTypeOK, Answers, Owed
    <2>3. Held' = Held BY <1>2 DEF Held
    <2>4. Blocks' BY <1>2, <2>3 DEF HandlerInv, HandlerTypeOK, Blocks
    <2>5. Indices' BY <1>2 DEF HandlerInv, HandlerTypeOK, Indices
    <2> QED BY <2>1, <2>2, <2>4, <2>5 DEF HandlerInv
  <1> QED BY <1>1, <1>2 DEF parse_header

-----------------------------------------------------------------------------
(* Theorems. *)

\* The invariant holds initially and every step of the handler and the guest
\* keeps it.
THEOREM HandlerInvariance == HandlerSpec => []HandlerInv
  <1>1. HandlerInv /\ [HandlerNext]_handlerVars => HandlerInv'
    <2> SUFFICES ASSUME HandlerInv, [HandlerNext]_handlerVars PROVE HandlerInv' OBVIOUS
    <2>1. ASSUME NEW exports \in SUBSET Exports, Construct(exports) PROVE HandlerInv'
      <3>1. /\ handler' \in [state : {"none", "failed", "ready"}, header_func : BOOLEAN]
            /\ UNCHANGED <<guest, call, log>>
        BY <2>1 DEF Construct
      <3>2. HandlerTypeOK' BY <3>1 DEF HandlerInv, HandlerTypeOK
      <3>3. Held' = Held /\ Owed' = Owed BY <3>1 DEF Held, Owed
      <3> QED BY <3>1, <3>2, <3>3 DEF HandlerInv, Answers, Blocks, Indices
    <2>2. ASSUME NEW header \in Headers \ {0}, parse_header(header) PROVE HandlerInv'
      BY <2>2, ParseHeaderKeeps, WasmAssumption
    <2>3. ASSUME NEW header \in Headers, NEW body \in Bodies, parse_message(header, body)
          PROVE  HandlerInv'
      BY <2>3, ParseMessageKeeps
    <2>4. CASE CallAlloc BY <2>4, CallAllocKeeps
    <2>5. CASE CopyIn BY <2>5, CopyInKeeps
    <2>6. CASE CallHandleHeader BY <2>6, CallHandleHeaderKeeps
    <2>7. CASE CallHandleBody BY <2>7, CallHandleBodyKeeps
    <2>8. CASE CopyOut BY <2>8, CopyOutKeeps
    <2>9. CASE DeallocOut BY <2>9, DeallocOutKeeps
    <2>10. CASE DeallocIn BY <2>10, DeallocInKeeps
    <2>11. CASE Finish
      <3>1. /\ call.response \in U32 /\ call.status \in {"OK", "ERROR"}
            /\ call.status = "ERROR" => call.response = 0
        BY DEF HandlerInv, HandlerTypeOK, Answers
      <3> QED BY <2>11, <3>1, ReturnKeeps DEF Finish
    <2>12. CASE Caught
      <3>1. 0 \in U32 BY WasmAssumption DEF U32
      <3> QED BY <2>12, <3>1, ReturnKeeps DEF Caught
    <2>13. CASE GuestTraps BY <2>13, GuestTrapsKeeps
    <2>14. CASE UNCHANGED handlerVars
      <3>1. Held' = Held /\ Owed' = Owed BY <2>14 DEF Held, Owed, handlerVars
      <3> QED BY <2>14, <3>1 DEF HandlerInv, HandlerTypeOK, Answers, Blocks, Indices, handlerVars
    <2> QED
      BY <2>1, <2>2, <2>3, <2>4, <2>5, <2>6, <2>7, <2>8, <2>9, <2>10, <2>11, <2>12,
         <2>13, <2>14 DEF HandlerNext
  <1> QED BY HandlerInitHolds, <1>1, PTL DEF HandlerSpec

\* The variables keep their types: response lengths stay 32-bit numbers and
\* the memory never outgrows the address space.
THEOREM HandlerTypeCorrect == HandlerSpec => []HandlerTypeOK
  <1>1. HandlerInv => HandlerTypeOK BY DEF HandlerInv
  <1> QED BY HandlerInvariance, <1>1, PTL

\* However many calls are made and wherever the guest traps, between two calls
\* every parse_message() has been answered, an error with nothing.
THEOREM EveryMessageAnswered == HandlerSpec => []AnsweredOnce
  <1>1. HandlerInv => AnsweredOnce BY DEF HandlerInv, HandlerTypeOK, Answers, Owed, AnsweredOnce
  <1> QED BY HandlerInvariance, <1>1, PTL

\* An honest guest gets every block back, exactly once.
THEOREM BlocksGivenBack == HandlerSpec => []GuestBlocksBalanced
  <1>1. HandlerInv => GuestBlocksBalanced
    BY DEF HandlerInv, Blocks, Held, GuestBlocksBalanced
  <1> QED BY HandlerInvariance, <1>1, PTL

\* No step of the host copies outside the memory the guest has in that step.
THEOREM CopiesStayInside == HandlerSpec => HostStaysInMemory
  <1>1. HandlerInv /\ [HandlerNext]_handlerVars => [CopiesInside]_handlerVars
    <2> SUFFICES ASSUME HandlerInv, HandlerNext PROVE CopiesInside
      BY DEF handlerVars
    <2>1. call.step = "copy_out" => call.response = 0 BY DEF HandlerInv, Answers, Early
    <2>2. CASE UNCHANGED call BY <2>1, <2>2 DEF CopiesInside
    <2>3. CASE call' # call /\ call.step = "copy_in"
      <3>1. CopyIn
        BY <2>3 DEF HandlerNext, Construct, parse_header, parse_message, Begin, CallAlloc,
                    CallHandleHeader, CallHandleBody, CopyOut, DeallocOut, DeallocIn,
                    Finish, GuestTraps, InGuest, Caught
      <3> QED BY <2>3, <3>1 DEF CopyIn, CopiesInside, Fits, Valid, HandlerInv, HandlerTypeOK
    <2>4. CASE call' # call /\ call.step = "copy_out"
      <3>1. CopyOut
        BY <2>4 DEF HandlerNext, Construct, parse_header, parse_message, Begin, CallAlloc, CopyIn,
                    CallHandleHeader, CallHandleBody, DeallocOut, DeallocIn,
                    Finish, GuestTraps, InGuest, Caught
      <3> DEFINE looked == [call EXCEPT !.mem_view = guest.memory]
      <3>2. \/ /\ Fits(call.output, looked.mem_view)
               /\ call' = [looked EXCEPT !.step = "dealloc_out", !.response = call.output.length]
            \/ call' = [looked EXCEPT !.step = "caught"]
            \/ call' = [looked EXCEPT !.step = "dealloc_out", !.status = "ERROR"]
        BY <3>1 DEF CopyOut, Receive
      <3>3. /\ looked.mem_view = guest.memory /\ looked.response = 0
            /\ looked \in [step : Step, func : {"parse_header", "parse_message"},
                           input : Block, output : Block, mem_view : View, response : U32,
                           status : {"OK", "ERROR"}]
        BY <2>1, <2>4 DEF HandlerInv, HandlerTypeOK
      <3> HIDE DEF looked
      <3>4. CASE /\ Fits(call.output, looked.mem_view)
                 /\ call' = [looked EXCEPT !.step = "dealloc_out",
                                           !.response = call.output.length]
        <4>1. call'.mem_view = looked.mem_view BY <3>3, <3>4
        <4> QED BY <2>4, <3>3, <3>4, <4>1 DEF CopiesInside, Fits, Valid
      <3>5. CASE \/ call' = [looked EXCEPT !.step = "caught"]
                 \/ call' = [looked EXCEPT !.step = "dealloc_out", !.status = "ERROR"]
        <4>1. call'.response = 0 BY <3>3, <3>5
        <4> QED BY <2>4, <4>1 DEF CopiesInside
      <3> QED BY <3>2, <3>4, <3>5
    <2> QED BY <2>2, <2>3, <2>4 DEF CopiesInside
  <1> QED BY HandlerInvariance, <1>1, PTL DEF HandlerSpec, HostStaysInMemory
================================================================================
