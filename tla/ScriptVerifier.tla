---------------------------- MODULE ScriptVerifier ----------------------------
(***************************************************************************)
(* The script validator: Interpreter::set_script_defaults(),               *)
(* verify_script() and insert_mod_range() (interpreter/interpreter.cpp).   *)
(*                                                                         *)
(* verify_script() checks the SETTINGS block and then walks the actions in *)
(* order, remembering the size of the pool and, per session, whether it    *)
(* was connected and whether it was disconnected.  One step of this module *)
(* is one check of that walk; what the parser can deliver is an arbitrary  *)
(* sequence of members of ScriptActions.  The first failing check ends the *)
(* walk with an error, whose text is not modelled.                         *)
(***************************************************************************)
EXTENDS Integers, Sequences, FiniteSets, SequencesExt

CONSTANTS
    SettingsBlocks,         \* the SETTINGS blocks the parser may deliver
    ScriptActions,          \* the actions the parser may deliver
    FileSize,               \* the size of each packet file that can be resolved
    HardwareConcurrency,    \* std::thread::hardware_concurrency()
    MaxActions              \* bound: actions in a script

ActionType == {"CREATE", "CONNECT", "SEND", "FLOOD", "DRAIN", "DISCONNECT"}

\* second is the end of a range of sessions and the length of a range of bytes.
Range32(r) == r.start \in Nat /\ r.second \in Nat

Modification(m) ==
    /\ m.type \in {"COUNTER", "TIMESTAMP"}
    /\ Range32(m.bytes)
    /\ m.step \in Nat
    /\ m.format \in STRING

SettingsFields ==
    {"identifier", "settings_identifier", "session_protocol", "port", "header_size", "body_max",
     "read", "shards", "endpoints", "handler_value", "packet_identifiers"}

ASSUME ScriptAssumption ==
    /\ \A s \in SettingsBlocks :
          /\ DOMAIN s = SettingsFields
          /\ {s.shards, s.port, s.header_size, s.body_max} \subseteq Nat
          /\ s.endpoints \in Seq(STRING)
          /\ s.read \in BOOLEAN
          /\ IsFiniteSet(DOMAIN s.packet_identifiers)
    /\ \A a \in ScriptActions :
          /\ a.type \in ActionType
          /\ a.count \in Nat /\ a.offset_ms \in Nat
          /\ Range32(a.range)
          /\ a.type = "CREATE" => a.range = [start |-> 0, second |-> a.count]
          /\ a.mods \in Seq({a.mods[i] : i \in DOMAIN a.mods})
          /\ \A i \in DOMAIN a.mods : Modification(a.mods[i])
    /\ \A f \in DOMAIN FileSize : FileSize[f] \in Nat
    /\ HardwareConcurrency \in Nat
    /\ MaxActions \in Nat

VARIABLES
    phase,                      \* "settings", "actions", then "verified" or "rejected"
    settings,                   \* script_.settings
    actions,                    \* the actions accepted so far
    pool_size,
    session_active,
    session_disconnect_called

verifyVars == <<phase, settings, actions, pool_size, session_active, session_disconnect_called>>

VerifyInit ==
    /\ phase = "settings"
    /\ settings \in SettingsBlocks
    /\ actions = <<>>
    /\ pool_size = 0
    /\ session_active = <<>>
    /\ session_disconnect_called = <<>>

-----------------------------------------------------------------------------
(* Settings. *)

set_script_defaults(s) ==
    [s EXCEPT
        !.shards = IF @ = 0 THEN (IF HardwareConcurrency = 0 THEN 1 ELSE HardwareConcurrency)
                            ELSE @,
        !.handler_value = IF @ = "" THEN "NOP" ELSE @]

Resolves(file) == file \in DOMAIN FileSize

TransportValid(s) ==
    /\ s.session_protocol \in {"TCP", "UDP"}
    /\ s.port # 0
    /\ s.read => s.header_size # 0 /\ s.body_max # 0
    /\ s.shards # 0
    /\ s.endpoints # <<>>

PacketsResolve(s) ==
    \A id \in DOMAIN s.packet_identifiers : Resolves(s.packet_identifiers[id])

\* Fault: a handler that is neither NOP nor a .wasm file is let through.
HandlerValid_AnyName(s) == s.read => s.handler_value # "missing.wasm"

\* handler_value is "NOP", a .wasm file that can be resolved, one that cannot,
\* or anything else.
HandlerValid(s) == s.read => s.handler_value \in {"NOP", "found.wasm"}

OrchestratorNamesSettings(s) == s.identifier # "" /\ s.settings_identifier = s.identifier

SettingsValid(s) ==
    TransportValid(s) /\ PacketsResolve(s) /\ HandlerValid(s) /\ OrchestratorNamesSettings(s)

VerifySettings ==
    /\ phase = "settings"
    /\ settings' = set_script_defaults(settings)
    /\ phase' = IF SettingsValid(settings') THEN "actions" ELSE "rejected"
    /\ UNCHANGED <<actions, pool_size, session_active, session_disconnect_called>>

-----------------------------------------------------------------------------
(* Modifications of a SEND. *)

\* mod_ranges maps the start of each range to its length.  The code looks at
\* the first range that starts at or after the new one, and at the last one
\* before it, and compares the lengths it finds there with start indexes.
insert_mod_range(map, to_insert) ==
    LET it == {m \in map : m.start >= to_insert.start}
        before == {m \in map : m.start < to_insert.start}
        prev == CHOOSE m \in before : \A n \in before : n.start <= m.start
    IN  [success |-> /\ \A m \in it : m.start > to_insert.second
                     /\ before # {} => prev.second < to_insert.start,
         map |-> {m \in map : m.start # to_insert.start} \cup {to_insert}]

TimeFormats == {"seconds", "milliseconds", "microseconds", "nanoseconds"}

end_from_length(r) == r.start + r.second

ModValid(m, packet_size) ==
    /\ m.type = "TIMESTAMP" => m.format \in TimeFormats
    /\ m.type = "COUNTER" => m.step # 0
    /\ m.bytes.second <= 8
    /\ end_from_length(m.bytes) < packet_size

\* The timestamps are inserted before the counters, whatever their order.
InsertionOrder(mods) ==
    SelectSeq(mods, LAMBDA m : m.type = "TIMESTAMP") \o SelectSeq(mods, LAMBDA m : m.type = "COUNTER")

ModsValid(mods, packet_size) ==
    LET insert(acc, m) ==
            LET inserted == insert_mod_range(acc.map, m.bytes)
            IN  [ok |-> acc.ok /\ inserted.success, map |-> inserted.map]
    IN  /\ \A i \in DOMAIN mods : ModValid(mods[i], packet_size)
        /\ FoldLeft(insert, [ok |-> TRUE, map |-> {}], InsertionOrder(mods)).ok

-----------------------------------------------------------------------------
(* Actions. *)

Covered(a) == a.range.start .. a.range.second - 1

InPool(a) == a.range.second <= pool_size

AllActive(a) == \A j \in Covered(a) : session_active[j]

CreateOK(a) == pool_size = 0 /\ a.count >= settings.shards

ConnectOK(a) == pool_size # 0 /\ InPool(a) /\ \A j \in Covered(a) : ~session_active[j]

\* Fault: an identifier that is not in the settings is let through.
PacketOK_UnknownPacket(a) ==
    a.packet \in DOMAIN settings.packet_identifiers =>
        /\ Resolves(settings.packet_identifiers[a.packet])
        /\ LET size == FileSize[settings.packet_identifiers[a.packet]]
           IN  size # 0 /\ ModsValid(a.mods, size)

PacketOK(a) ==
    /\ a.packet \in DOMAIN settings.packet_identifiers
    /\ Resolves(settings.packet_identifiers[a.packet])
    /\ LET size == FileSize[settings.packet_identifiers[a.packet]]
       IN  size # 0 /\ ModsValid(a.mods, size)

SendOK(a) == a.count # 0 /\ InPool(a) /\ PacketOK(a) /\ AllActive(a)

FloodOK(a) == InPool(a) /\ AllActive(a)

DrainOK(a) == InPool(a) /\ AllActive(a)

DisconnectOK(a) == InPool(a) /\ \A j \in Covered(a) : ~session_disconnect_called[j]

ActionOK(a) ==
    CASE a.type = "CREATE" -> CreateOK(a)
      [] a.type = "CONNECT" -> ConnectOK(a)
      [] a.type = "SEND" -> SendOK(a)
      [] a.type = "FLOOD" -> FloodOK(a)
      [] a.type = "DRAIN" -> DrainOK(a)
      [] a.type = "DISCONNECT" -> DisconnectOK(a)

Mark(flags, a, value) == [j \in DOMAIN flags |-> IF j \in Covered(a) THEN value ELSE flags[j]]

Create(a) ==
    /\ a.type = "CREATE"
    /\ pool_size' = a.count
    /\ session_active' = [j \in 0 .. a.count - 1 |-> FALSE]
    /\ session_disconnect_called' = session_active'

Connect(a) ==
    /\ a.type = "CONNECT"
    /\ session_active' = Mark(session_active, a, TRUE)
    /\ UNCHANGED <<pool_size, session_disconnect_called>>

SendOrFlood(a) ==
    /\ a.type \in {"SEND", "FLOOD"}
    /\ UNCHANGED <<pool_size, session_active, session_disconnect_called>>

\* Fault: a drained session still counts as active.
Drain_StaysActive(a) ==
    /\ a.type = "DRAIN"
    /\ UNCHANGED <<pool_size, session_active, session_disconnect_called>>

Drain(a) ==
    /\ a.type = "DRAIN"
    /\ session_active' = Mark(session_active, a, FALSE)
    /\ UNCHANGED <<pool_size, session_disconnect_called>>

Disconnect(a) ==
    /\ a.type = "DISCONNECT"
    /\ session_disconnect_called' = Mark(session_disconnect_called, a, TRUE)
    /\ UNCHANGED <<pool_size, session_active>>

VerifyAction ==
    /\ phase = "actions"
    /\ Len(actions) < MaxActions
    /\ \E a \in ScriptActions :
          /\ ActionOK(a)
          /\ Create(a) \/ Connect(a) \/ SendOrFlood(a) \/ Drain(a) \/ Disconnect(a)
          /\ actions' = Append(actions, a)
    /\ UNCHANGED <<phase, settings>>

RejectAction ==
    /\ phase = "actions"
    /\ Len(actions) < MaxActions
    /\ \E a \in ScriptActions : ~ActionOK(a)
    /\ phase' = "rejected"
    /\ UNCHANGED <<settings, actions, pool_size, session_active, session_disconnect_called>>

\* A script without actions is an error.
EndOfScript ==
    /\ phase = "actions"
    /\ phase' = IF actions = <<>> THEN "rejected" ELSE "verified"
    /\ UNCHANGED <<settings, actions, pool_size, session_active, session_disconnect_called>>

VerifyNext == VerifySettings \/ VerifyAction \/ RejectAction \/ EndOfScript

-----------------------------------------------------------------------------
(* Properties. *)

Touches(i, type, j) == actions[i].type = type /\ j \in Covered(actions[i])

\* Session j was connected before action i, and not drained since.
ConnectedAt(i, j) ==
    \E k \in 1 .. i - 1 : Touches(k, "CONNECT", j) /\ \A d \in k .. i - 1 : ~Touches(d, "DRAIN", j)

\* The order of the actions of an accepted script, said of the script alone:
\* whatever reaches a session (the loops of verify_script()) comes after one
\* CREATE that is large enough; CONNECT is not repeated without a DRAIN in
\* between; SEND, FLOOD and DRAIN only reach sessions connected since their
\* last DRAIN; DISCONNECT reaches a session once.  It does not end what
\* CONNECT began: SEND and FLOOD after a DISCONNECT are accepted, too.
AcceptedScriptsAreOrdered ==
    \A i \in DOMAIN actions :
        /\ actions[i].type = "CREATE" =>
              actions[i].count >= settings.shards
                  /\ \A k \in 1 .. i - 1 : actions[k].type # "CREATE"
        /\ actions[i].type # "CREATE" => \A j \in Covered(actions[i]) :
              /\ \E k \in 1 .. i - 1 : actions[k].type = "CREATE" /\ j < actions[k].count
              /\ CASE actions[i].type = "CONNECT" -> ~ConnectedAt(i, j)
                   [] actions[i].type = "DISCONNECT" ->
                        \A k \in 1 .. i - 1 : ~Touches(k, "DISCONNECT", j)
                   [] OTHER -> ConnectedAt(i, j)
===============================================================================
