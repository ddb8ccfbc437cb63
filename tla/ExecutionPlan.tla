----------------------------- MODULE ExecutionPlan -----------------------------
(***************************************************************************)
(* generate_execution_plan() (cli/execution-plan.cpp): from a verified     *)
(* script to the message handler factory, endpoints, packets, action       *)
(* descriptors, payload operations and counter steps the orchestrator runs *)
(* with.                                                                   *)
(*                                                                         *)
(* The handler is made first and the endpoints are resolved; then          *)
(* generate_plan_common() does the rest.  Packet files are read in the     *)
(* unspecified order of an unordered_map, one per step, and reading one    *)
(* may fail; then the actions are planned in order.  SizeMod, U32Mod and   *)
(* U16Mod stand for the ranges of size_t, uint32_t and uint16_t, the       *)
(* arithmetic of which wraps.  Files keep the size verify_script() saw,    *)
(* and several names may resolve to one file.                              *)
(***************************************************************************)
EXTENDS ScriptVerifier, PartialSums

CONSTANTS
    SizeMod,        \* 2^64
    U32Mod,         \* 2^32
    U16Mod,         \* 2^16
    PathOf,         \* the path Resolver::resolve_file() finds for each file name
    Addresses,      \* what the name resolution answers for each host name
    MaxDatagram     \* UDPSession::MAX_DATAGRAM_SIZE

ASSUME PathAssumption ==
    \A f, g \in DOMAIN FileSize : PathOf[f] = PathOf[g] => FileSize[f] = FileSize[g]

ASSUME HostAssumption ==
    /\ \A s \in SettingsBlocks : ToSet(s.endpoints) \subseteq DOMAIN Addresses
    /\ \A h \in DOMAIN Addresses : Addresses[h] \in Seq(STRING)
    /\ MaxDatagram \in Nat

ASSUME WidthAssumption ==
    /\ U16Mod \in Nat /\ U32Mod \in Nat /\ SizeMod \in Nat
    /\ U16Mod > 0 /\ U32Mod > 0 /\ SizeMod > 0 /\ SizeMod % U32Mod = 0
    /\ \A f \in DOMAIN FileSize : FileSize[f] < U32Mod

VARIABLES
    plan,       \* the ExecutionPlan, with the factory and the endpoints of its config
    lookup,     \* identity_map and all_packets, the paths read so far
    curr_offset,
    planned     \* actions planned so far, and the error plan generation ended with

vars == <<verifyVars, plan, lookup, curr_offset, planned>>

Op == [type : {"IDENTITY", "COUNTER", "TIMESTAMP"}, length : 0 .. U32Mod - 1]

TypeOK ==
    /\ phase \in {"settings", "actions", "verified", "rejected", "factory", "common",
                  "planned", "failed"}
    /\ settings \in SettingsBlocks \cup {set_script_defaults(s) : s \in SettingsBlocks}
    /\ actions \in Seq(ScriptActions) /\ Len(actions) <= MaxActions
    /\ pool_size \in Nat
    /\ session_active \in [0 .. pool_size - 1 -> BOOLEAN]
    /\ session_disconnect_called \in [0 .. pool_size - 1 -> BOOLEAN]
    /\ plan.factory \in {"none", "NOP", "WASM"}
    /\ plan.packet_data \in Seq(DOMAIN FileSize)
    /\ \A id \in DOMAIN lookup.identity_map :
          lookup.identity_map[id] \in DOMAIN plan.packet_data
    /\ \A p \in DOMAIN plan.payloads :
          /\ plan.payloads[p].packet \in DOMAIN plan.packet_data
          /\ plan.payloads[p].ops \in Seq(Op)
    /\ curr_offset \in Nat
    /\ planned \in [count : 0 .. Len(actions), error : {"none", "io", "hosts", "application", "oversized"}]

Init ==
    /\ VerifyInit
    /\ plan = [factory |-> "none", endpoints |-> <<>>, packet_data |-> <<>>, actions |-> <<>>,
               payloads |-> <<>>, counter_steps |-> <<>>]
    /\ lookup = [identity_map |-> <<>>, all_packets |-> {}]
    /\ curr_offset = 0
    /\ planned = [count |-> 0, error |-> "none"]

Verify == VerifyNext /\ UNCHANGED <<plan, lookup, curr_offset, planned>>

Advance(next) ==
    /\ phase' = next
    /\ UNCHANGED <<settings, actions, pool_size, session_active, session_disconnect_called>>

Fail(error) ==
    /\ Advance("failed")
    /\ planned' = [planned EXCEPT !.error = error]
    /\ UNCHANGED <<plan, lookup, curr_offset>>

-----------------------------------------------------------------------------
(* The message handler and the endpoints. *)

UsesNOP(s) == ~s.read \/ s.handler_value = "NOP"

IsWasmFile(name) == name \in {"found.wasm", "missing.wasm"}

\* A name that is neither NOP nor a .wasm file leaves the factory empty.
MakeFactory ==
    /\ phase = "verified"
    /\ plan' = [plan EXCEPT !.factory =
                   IF UsesNOP(settings) THEN "NOP"
                   ELSE IF IsWasmFile(settings.handler_value) THEN "WASM" ELSE @]
    /\ Advance("factory")
    /\ UNCHANGED <<lookup, curr_offset, planned>>

\* The module cannot be resolved, read or compiled.
MakeFactoryFails ==
    /\ phase = "verified"
    /\ ~UsesNOP(settings) /\ IsWasmFile(settings.handler_value)
    /\ Fail("io")

KeepOnce(list, address) == IF Contains(list, address) THEN list ELSE Append(list, address)

KeepAll(list, addresses) ==
    LET after[n \in 0 .. Len(addresses)] ==
            IF n = 0 THEN list ELSE KeepOnce(after[n - 1], addresses[n])
    IN  after[Len(addresses)]

\* TCP keeps every address once; UDP overwrites the one it has, so that the
\* last address of the last name that resolves is kept.
Store(endpoints, host) ==
    IF settings.session_protocol = "UDP"
    THEN IF Addresses[host] = <<>> THEN endpoints ELSE <<Last(Addresses[host])>>
    ELSE KeepAll(endpoints, Addresses[host])

StoreAll(hosts) ==
    LET after[n \in 0 .. Len(hosts)] == IF n = 0 THEN <<>> ELSE Store(after[n - 1], hosts[n])
    IN  after[Len(hosts)]

\* A name that does not resolve only gives a warning.
ResolveEndpoints ==
    /\ phase = "factory"
    /\ LET found == StoreAll(settings.endpoints)
       IN  \/ /\ found # <<>>
              /\ plan' = [plan EXCEPT !.endpoints = found]
              /\ Advance("common")
              /\ UNCHANGED <<lookup, curr_offset, planned>>
           \/ found = <<>> /\ Fail("hosts")

-----------------------------------------------------------------------------
(* Reading the packets. *)

Unread == DOMAIN settings.packet_identifiers \ DOMAIN lookup.identity_map

MapIdentifier(id, index) ==
    [i \in DOMAIN lookup.identity_map \cup {id} |->
        IF i = id THEN index ELSE lookup.identity_map[i]]

\* A second identifier of a file that was read before is looked up under its
\* own name of the file, although identity_map is keyed by identifiers.
ReadDuplicate(id, filename) ==
    /\ PathOf[filename] \in lookup.all_packets
    /\ \/ /\ filename \in DOMAIN lookup.identity_map
          /\ lookup' = [lookup EXCEPT
                          !.identity_map = MapIdentifier(id, lookup.identity_map[filename])]
          /\ UNCHANGED <<verifyVars, plan, curr_offset, planned>>
       \/ filename \notin DOMAIN lookup.identity_map /\ Fail("application")

ReadFile(id, filename) ==
    /\ PathOf[filename] \notin lookup.all_packets
    /\ FileSize[filename] # 0
    /\ plan' = [plan EXCEPT !.packet_data = Append(@, filename)]
    /\ lookup' = [identity_map |-> MapIdentifier(id, Len(plan.packet_data) + 1),
                  all_packets |-> lookup.all_packets \cup {PathOf[filename]}]
    /\ UNCHANGED <<verifyVars, curr_offset, planned>>

ReadPacket ==
    /\ phase = "common"
    /\ \E id \in Unread :
          LET filename == settings.packet_identifiers[id]
          IN  ReadDuplicate(id, filename) \/ ReadFile(id, filename)

\* The file is gone, empty, too large for memory or cannot be read.
ReadPacketFails == phase = "common" /\ Unread # {} /\ Fail("io")

-----------------------------------------------------------------------------
(* Planning the actions. *)

make_identity(len) == [type |-> "IDENTITY", length |-> len % U32Mod]

AddIdentity(ops, bytes) == IF bytes > 0 THEN Append(ops, make_identity(bytes)) ELSE ops

\* The step of a counter is narrowed to an uint16_t.
AddStep(counter_list, m) ==
    IF m.type = "COUNTER" THEN Append(counter_list, m.step % U16Mod) ELSE counter_list

\* Fault: data_index is not moved past the modification.
AddModification_StaysBehind(acc, m) ==
    LET prev_bytes == (m.bytes.start - acc.data_index) % SizeMod
    IN  [ops |-> Append(AddIdentity(acc.ops, prev_bytes), [type |-> m.type, length |-> m.bytes.second]),
         counter_list |-> AddStep(acc.counter_list, m),
         data_index |-> (acc.data_index + prev_bytes) % SizeMod]

\* The bytes between the previous modification and this one, then this one.
AddModification(acc, m) ==
    LET prev_bytes == (m.bytes.start - acc.data_index) % SizeMod
    IN  [ops |-> Append(AddIdentity(acc.ops, prev_bytes), [type |-> m.type, length |-> m.bytes.second]),
         counter_list |-> AddStep(acc.counter_list, m),
         data_index |-> (acc.data_index + prev_bytes + m.bytes.second) % SizeMod]

\* The loop over mod_order.
Modified(mods) ==
    LET after[n \in 0 .. Len(mods)] ==
            IF n = 0 THEN [ops |-> <<>>, counter_list |-> <<>>, data_index |-> 0]
            ELSE AddModification(after[n - 1], mods[n])
    IN  after[Len(mods)]

MakeOps(mods, size) ==
    LET built == Modified(mods)
    IN  IF mods = <<>> THEN <<make_identity(size)>>
        ELSE AddIdentity(built.ops, IF built.data_index < size THEN size - built.data_index ELSE 0)

Copies(count, x) == [i \in 1 .. count |-> x]

Descriptor(a) ==
    [type |-> a.type, sessions_start |-> a.range.start, sessions_end |-> a.range.second,
     count |-> a.count, offset |-> (curr_offset + a.offset_ms) % U32Mod]

\* Each copy of a SEND has a payload and a list of counters of its own.
PlanSend(a) ==
    LET packet == lookup.identity_map[a.packet]
        payload == [packet |-> packet,
                    ops |-> MakeOps(a.mods, FileSize[plan.packet_data[packet]])]
    IN  plan' = [plan EXCEPT
                    !.actions = Append(@, Descriptor(a)),
                    !.payloads = @ \o Copies(a.count, payload),
                    !.counter_steps = @ \o Copies(a.count, Modified(a.mods).counter_list)]

PlanAction ==
    /\ phase = "common" /\ Unread = {}
    /\ planned.count < Len(actions)
    /\ LET a == actions[planned.count + 1]
       IN  \/ /\ a.type = "SEND" => a.packet \in DOMAIN lookup.identity_map
              /\ \/ a.type = "SEND" /\ PlanSend(a)
                 \/ a.type # "SEND"
                       /\ plan' = [plan EXCEPT !.actions = Append(@, Descriptor(a))]
              /\ curr_offset' = curr_offset + a.offset_ms
              /\ planned' = [planned EXCEPT !.count = @ + 1]
              /\ UNCHANGED <<verifyVars, lookup>>
           \/ /\ a.type = "SEND" /\ a.packet \notin DOMAIN lookup.identity_map
              /\ Fail("application")

PayloadSize(p) == FileSize[plan.packet_data[plan.payloads[p].packet]]

Oversized ==
    settings.session_protocol = "UDP" /\ \E p \in DOMAIN plan.payloads : PayloadSize(p) > MaxDatagram

PlanDone ==
    /\ phase = "common" /\ Unread = {}
    /\ planned.count = Len(actions)
    /\ \/ ~Oversized /\ Advance("planned") /\ UNCHANGED <<plan, lookup, curr_offset, planned>>
       \/ Oversized /\ Fail("oversized")

\* The number of payloads made for the first n actions, for every n.
Sent(acts) == Sums([i \in DOMAIN acts |-> IF acts[i].type = "SEND" THEN acts[i].count ELSE 0])

\* The payload CLI::dry_run() shows for action i, a SEND: it counts through
\* the copies of the SENDs before it.
DryRunPayload(i) == 1 + Sent(plan.actions)[i - 1]

\* The payloads session s has been asked for by the first n actions, as long as
\* no FLOOD reaches it.  It takes them from the front of the list, which it
\* shares with every other session: next_payload_index_ starts at 0 and moves
\* only with the SENDs that reach the session.
Asked(s) ==
    Sums([i \in DOMAIN actions |->
             IF Touches(i, "SEND", s) THEN actions[i].count ELSE 0])

\* The payloads session s fills for action i, a SEND.
FilledBy(s, i) == Asked(s)[i - 1] + 1 .. Asked(s)[i]

Next ==
    \/ Verify
    \/ MakeFactory \/ MakeFactoryFails \/ ResolveEndpoints
    \/ ReadPacket \/ ReadPacketFails
    \/ PlanAction \/ PlanDone

Spec == Init /\ [][Next]_vars

-----------------------------------------------------------------------------
(* Properties. *)

Planned == phase = "planned"

Sends == {i \in DOMAIN actions : actions[i].type = "SEND"}

\* The payloads that were made for action i, a SEND.
MadeFor(i) == Sent(actions)[i - 1] + 1 .. Sent(actions)[i]

\* Where the bytes of the n-th operation start in the packet that is sent.
Position(ops, n) == Sums([k \in DOMAIN ops |-> ops[k].length])[n - 1]

\* What fill_payload() makes of payload p is the packet of a SEND with exactly
\* the bytes of the modifications replaced: as long as the packet, each
\* modification at its index, with one counter for each COUNTER.
ReplacesBytes(p, send) ==
    LET ops == plan.payloads[p].ops
        file == plan.packet_data[plan.payloads[p].packet]
        dynamic == {n \in DOMAIN ops : ops[n].type # "IDENTITY"}
        wanted == {[type |-> send.mods[i].type, start |-> send.mods[i].bytes.start,
                    length |-> send.mods[i].bytes.second] : i \in DOMAIN send.mods}
    IN  /\ PathOf[file] = PathOf[settings.packet_identifiers[send.packet]]
        /\ Position(ops, Len(ops) + 1) = FileSize[file]
        /\ wanted = {[type |-> ops[n].type, start |-> Position(ops, n),
                      length |-> ops[n].length] : n \in dynamic}
        /\ Cardinality(dynamic) = Len(send.mods)
        /\ Len(plan.counter_steps[p]) = Cardinality({n \in dynamic : ops[n].type = "COUNTER"})

\* Every modification starts at or after the end of the one written before it.
Ascending(mods) ==
    \A i \in 1 .. Len(mods) - 1 : end_from_length(mods[i].bytes) <= mods[i + 1].bytes.start

\* One of two names of a file is also the identifier of a packet read from
\* another file: ReadDuplicate() may then take that one instead.
Confusable ==
    LET name == settings.packet_identifiers
        path(id) == PathOf[name[id]]
    IN  \E x, y \in DOMAIN name :
            x # y /\ path(x) = path(y) /\ name[x] \in DOMAIN name /\ path(name[x]) # path(x)

\* syntax.md, TIMESTAMP: "Replace bytes of the packet with a timestamp", and
\* COUNTER likewise: every payload of an accepted script does just that.
PayloadsReplaceBytes ==
    Planned => \A i \in Sends : \A p \in MadeFor(i) : ReplacesBytes(p, actions[i])

\* Every SEND before action i reaches session s, and no FLOOD does, so that s
\* is as far in the list as the SENDs are.
InStep(s, i) ==
    \A j \in 1 .. i - 1 :
        /\ actions[j].type = "SEND" => s \in Covered(actions[j])
        /\ ~Touches(j, "FLOOD", s)

\* The plan does what the script says.  No action is scheduled before the one
\* in front of it (schedule_next_action() only ever looks at the next one),
\* as long as the offsets of the script sum to what an uint32_t holds.
\* There are as many payloads, each with a list of counters, as the SENDs have
\* copies, and the one a dry run shows for a SEND is made of its packet.
\* A session that is in step fills, for a SEND, the payloads made for it, and
\* these replace the bytes they should, unless the names of the packets can be
\* confused, for the SENDs that list their modifications in ascending order:
\* generate_plan_common() walks mod_order once, front to back.
\* Nothing of the kind holds for a session an earlier SEND left out: it still
\* has that SEND's payloads before it in the list and sends those.
PlanFollowsScript ==
    Planned =>
        /\ curr_offset < U32Mod =>
              \A i \in 2 .. Len(actions) : plan.actions[i - 1].offset <= plan.actions[i].offset
        /\ Len(plan.payloads) = Sent(actions)[Len(actions)]
        /\ Len(plan.counter_steps) = Len(plan.payloads)
        /\ \A i \in Sends :
              plan.payloads[DryRunPayload(i)].packet = lookup.identity_map[actions[i].packet]
        /\ \A i \in Sends : \A s \in Covered(actions[i]) :
              InStep(s, i) => FilledBy(s, i) = MadeFor(i)
        /\ ~Confusable =>
              \A i \in Sends : Ascending(actions[i].mods) =>
                  \A p \in MadeFor(i) : ReplacesBytes(p, actions[i])

\* The errors execution-plan.cpp calls errors of the application are not met
\* by a verified script, whatever order the packets are read in, as long as
\* no two identifiers stand for one file.  With two that do they are met: the
\* second is looked up under its file name, which is no identifier.
NoApplicationError ==
    (\A x, y \in DOMAIN settings.packet_identifiers :
        x # y => PathOf[settings.packet_identifiers[x]] # PathOf[settings.packet_identifiers[y]])
    => planned.error # "application"

\* A plan can be run, whatever block it was made of: the shards get a factory
\* that is not empty (verify_script() and generate_execution_plan() look at
\* handler_value separately), every endpoint is an address of a host of the
\* settings and none is listed twice, a TCP plan has all of them and a UDP
\* plan one, and no datagram is too large to send.
PlanIsRunnable ==
    Planned =>
        LET known == UNION {ToSet(Addresses[h]) : h \in ToSet(settings.endpoints)}
        IN  /\ plan.factory # "none"
            /\ plan.endpoints # <<>> /\ IsInjective(plan.endpoints)
            /\ ToSet(plan.endpoints) \subseteq known
            /\ CASE settings.session_protocol = "TCP" -> ToSet(plan.endpoints) = known
                 [] settings.session_protocol = "UDP" ->
                      /\ Len(plan.endpoints) = 1
                      /\ \A p \in DOMAIN plan.payloads : PayloadSize(p) <= MaxDatagram
===============================================================================
