---------------------------- MODULE PayloadManager ----------------------------
(***************************************************************************)
(* PayloadManager (packets/payload-manager.cpp), shared by the sessions of *)
(* all shards.                                                             *)
(*                                                                         *)
(* fill_payload() runs on the thread of the shard that owns the session;   *)
(* between two of its operations another thread may run its own.  What the *)
(* threads share are the atomic counters; the PreparedPayload belongs to   *)
(* the session and is used again for its next payload.  Byte and U64Mod    *)
(* stand for 2^8 and 2^64.                                                 *)
(***************************************************************************)
EXTENDS Integers, Sequences, FiniteSets, SequencesExt, PartialSums

CONSTANTS
    Sessions,       \* sessions that fill payloads at the same time
    Payloads,       \* payloads_: the operations of each payload
    Steps,          \* the counter steps of each payload
    Times,          \* values the system clock may return
    MaxFills,       \* bound: payloads filled per session
    Byte,           \* 2^8
    U64Mod          \* 2^64

Op == [type : {"IDENTITY", "COUNTER", "TIMESTAMP"}, length : Nat, little_endian : BOOLEAN]

IsDynamic(op) == op.type # "IDENTITY"

Counters(ops, n) == {i \in 1 .. n : ops[i].type = "COUNTER"}
NumCounters(ops) == Cardinality(Counters(ops, Len(ops)))

\* Byte^i.
Power[i \in Nat] == IF i = 0 THEN 1 ELSE Byte * Power[i - 1]

\* What generate_plan_common() delivers: one step for each COUNTER, numbers of
\* at most 8 bytes.
ASSUME PayloadAssumption ==
    /\ Payloads \in Seq(Seq(Op))
    /\ Steps \in Seq(Seq(Nat)) /\ Len(Steps) = Len(Payloads)
    /\ \A p \in DOMAIN Payloads :
          /\ Len(Steps[p]) = NumCounters(Payloads[p])
          /\ \A n \in DOMAIN Payloads[p] : IsDynamic(Payloads[p][n]) => Payloads[p][n].length <= 8
    /\ Times \subseteq 0 .. U64Mod - 1
    /\ MaxFills \in Nat
    /\ Byte \in Nat \ {0, 1} /\ U64Mod = Power[8]

VARIABLES
    counters_,  \* per payload, the value of each counter
    filling,    \* per session: where its call of fill_payload() is
    prepared,   \* per session: its PreparedPayload
    fills,      \* per session: calls made
    sent        \* per payload and counter: every value it has handed out

vars == <<counters_, filling, prepared, fills, sent>>

Slice == [from : {"packet"}, start : Nat, length : Nat]
            \cup [from : {"temps"}, op : Op, value : 0 .. U64Mod - 1, bytes : Seq(0 .. Byte - 1)]

\* Among the types, the counter index stays within the payload's list.
TypeOK ==
    /\ DOMAIN counters_ = DOMAIN Payloads /\ DOMAIN sent = DOMAIN Payloads
    /\ \A p \in DOMAIN Payloads :
          /\ counters_[p] \in [DOMAIN Steps[p] -> 0 .. U64Mod - 1]
          /\ sent[p] \in [DOMAIN Steps[p] -> Seq(0 .. U64Mod - 1)]
    /\ filling \in [Sessions -> [index : 0 .. Len(Payloads), next : Nat, counter_idx : Nat,
                                 offset : Nat]]
    /\ prepared \in [Sessions -> [slices : Seq(Slice), temps : Nat, capacity : Nat]]
    /\ \A s \in Sessions : filling[s].index # 0 =>
          filling[s].counter_idx <= Len(Steps[filling[s].index])
    /\ fills \in [Sessions -> 0 .. MaxFills]

\* The constructor: a counter at 0 for every step of every payload.
Init ==
    /\ counters_ = [p \in DOMAIN Payloads |-> [c \in DOMAIN Steps[p] |-> 0]]
    /\ filling = [s \in Sessions |-> [index |-> 0, next |-> 1, counter_idx |-> 0, offset |-> 0]]
    /\ prepared = [s \in Sessions |-> [slices |-> <<>>, temps |-> 0, capacity |-> 0]]
    /\ fills = [s \in Sessions |-> 0]
    /\ sent = [p \in DOMAIN Payloads |-> [c \in DOMAIN Steps[p] |-> <<>>]]

-----------------------------------------------------------------------------
(* Writing numbers. *)

ByteAt(raw, i) == (raw \div Power[i]) % Byte

\* An unsigned integer of n bytes as it lies in the memory of a little-endian
\* host.
Native(raw, n) == [i \in 1 .. n |-> ByteAt(raw, i - 1)]

\* Fault: the low 4 bytes are taken after the swap of all 8.
write_numeric_SwapsFirst(raw_numeric, length, little_endian) ==
    IF length \in {4, 8}
    THEN IF little_endian THEN Native(raw_numeric, length)
                          ELSE SubSeq(Reverse(Native(raw_numeric, 8)), 1, length)
    ELSE [i \in 1 .. length |->
            ByteAt(raw_numeric, IF little_endian THEN i - 1 ELSE length - i)]

write_numeric(raw_numeric, length, little_endian) ==
    IF length \in {4, 8}
    THEN IF little_endian THEN Native(raw_numeric, length) ELSE Reverse(Native(raw_numeric, length))
    ELSE [i \in 1 .. length |->
            ByteAt(raw_numeric, IF little_endian THEN i - 1 ELSE length - i)]

-----------------------------------------------------------------------------
(* fill_payload(). *)

\* Fault: only the counters are counted.
TempBytes_CountersOnly(ops) ==
    Total([n \in DOMAIN ops |-> IF ops[n].type = "COUNTER" THEN ops[n].length ELSE 0])

\* Only dynamic data is counted.
DynamicBytes(ops) == [n \in DOMAIN ops |-> IF IsDynamic(ops[n]) THEN ops[n].length ELSE 0]
TempBytes(ops) == Total(DynamicBytes(ops))

\* An index past the last payload is answered with false and changes nothing;
\* otherwise the session's payload is cleared, which keeps its capacity, and
\* room for all numbers is reserved.
BeginFill(s, index) ==
    /\ filling[s].index = 0
    /\ fills[s] < MaxFills
    /\ filling' = [filling EXCEPT ![s] = [index |-> index, next |-> 1, counter_idx |-> 0,
                                          offset |-> 0]]
    /\ prepared' = [prepared EXCEPT ![s] =
                      [slices |-> <<>>, temps |-> 0,
                       capacity |-> LET total == TempBytes(Payloads[index])
                                    IN  IF @.capacity < total THEN total ELSE @.capacity]]
    /\ fills' = [fills EXCEPT ![s] = @ + 1]
    /\ UNCHANGED <<counters_, sent>>

AtOp(s) ==
    /\ filling[s].index # 0
    /\ filling[s].next <= Len(Payloads[filling[s].index])

CurrentOp(s) == Payloads[filling[s].index][filling[s].next]

Advance(s, counters) ==
    filling' = [filling EXCEPT ![s].next = @ + 1, ![s].counter_idx = @ + counters,
                               ![s].offset = @ + CurrentOp(s).length]

IdentityOp(s) ==
    /\ AtOp(s) /\ CurrentOp(s).type = "IDENTITY"
    /\ prepared' = [prepared EXCEPT ![s].slices =
                      Append(@, [from |-> "packet", start |-> filling[s].offset,
                                 length |-> CurrentOp(s).length])]
    /\ Advance(s, 0)
    /\ UNCHANGED <<counters_, fills, sent>>

WriteTemp(s, value) ==
    LET op == CurrentOp(s)
    IN  prepared' = [prepared EXCEPT
                       ![s].slices = Append(@, [from |-> "temps", op |-> op, value |-> value,
                                                bytes |-> write_numeric(value, op.length,
                                                                        op.little_endian)]),
                       ![s].temps = @ + op.length]

\* Fault: a load followed by a store, which another thread may overwrite.
fetch_add_Racy(p, c) ==
    \/ counters_' = [counters_ EXCEPT ![p][c] = (@ + Steps[p][c]) % U64Mod]
    \/ UNCHANGED counters_

fetch_add(p, c) == counters_' = [counters_ EXCEPT ![p][c] = (@ + Steps[p][c]) % U64Mod]

CounterOp(s) ==
    /\ AtOp(s) /\ CurrentOp(s).type = "COUNTER"
    /\ LET p == filling[s].index
           c == filling[s].counter_idx + 1
           val == counters_[p][c]
       IN  /\ fetch_add(p, c)
           /\ WriteTemp(s, val)
           /\ sent' = [sent EXCEPT ![p][c] = Append(@, val)]
    /\ Advance(s, 1)
    /\ UNCHANGED fills

TimestampOp(s) ==
    /\ AtOp(s) /\ CurrentOp(s).type = "TIMESTAMP"
    /\ \E now \in Times : WriteTemp(s, now)
    /\ Advance(s, 0)
    /\ UNCHANGED <<counters_, fills, sent>>

\* The call returns true; the slices stay until the session's next payload.
FinishFill(s) ==
    /\ filling[s].index # 0 /\ ~AtOp(s)
    /\ filling' = [filling EXCEPT ![s].index = 0]
    /\ UNCHANGED <<counters_, prepared, fills, sent>>

Next ==
    \E s \in Sessions :
        \/ \E index \in DOMAIN Payloads : BeginFill(s, index)
        \/ IdentityOp(s)
        \/ CounterOp(s)
        \/ TimestampOp(s)
        \/ FinishFill(s)

Spec == Init /\ [][Next]_vars

-----------------------------------------------------------------------------
(* Properties. *)

\* temps never holds more than was reserved for it (payload-structs.h:180, "we
\* MUST reserve enough space ahead of time"): the slices of a payload being
\* filled point into it, and growing would leave them dangling.
SlicesStayValid == \A s \in Sessions : prepared[s].temps <= prepared[s].capacity

\* syntax.md:519, "each session will increment the same counter": whatever
\* the threads interleave, the values a counter of a payload hands out are
\* 0, step, 2 step, ..., each once (modulo 2^64).
CounterSequence ==
    \A p \in DOMAIN Payloads : \A c \in DOMAIN Steps[p] :
        \A k \in DOMAIN sent[p][c] : sent[p][c][k] = ((k - 1) * Steps[p][c]) % U64Mod

\* The number a reader gets from the bytes.
Decoded(bytes, little_endian) ==
    LET low == IF little_endian THEN bytes ELSE Reverse(bytes)
    IN  Total([i \in DOMAIN low |-> low[i] * Power[i - 1]])

\* Read back in its byte order, what write_numeric() put into the packet is
\* the number, truncated to the length of the modification: the 4 and 8 byte
\* cases agree with the byte-by-byte one.
NumbersReadBack ==
    \A s \in Sessions : \A n \in DOMAIN prepared[s].slices :
        LET slice == prepared[s].slices[n]
        IN  slice.from = "temps" =>
                Decoded(slice.bytes, slice.op.little_endian) = slice.value % Power[slice.op.length]
===============================================================================
