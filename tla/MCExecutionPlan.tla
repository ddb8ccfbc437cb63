---------------------------- MODULE MCExecutionPlan ----------------------------
(* Settings blocks, packet files and actions for checking ExecutionPlan. *)
EXTENDS ExecutionPlan

MCFileSize == [short |-> 4, long |-> 12, also_long |-> 12, empty |-> 0]
MCPathOf == [short |-> "/short", long |-> "/long", also_long |-> "/long", empty |-> "/empty"]

\* Two names that share an address, and one that does not resolve.
MCAddresses == [a |-> <<"10.0.0.1", "10.0.0.2">>, b |-> <<"10.0.0.2">>, dead |-> <<>>]

Good ==
    [identifier |-> "id", settings_identifier |-> "id", session_protocol |-> "TCP", port |-> 1,
     header_size |-> 1, body_max |-> 1, read |-> TRUE, shards |-> 2, endpoints |-> <<"a", "b", "dead">>,
     handler_value |-> "NOP", packet_identifiers |-> [p |-> "long", q |-> "short"]]

\* One good block, one that relies on the defaults, and for each check of the
\* settings a block that only that check rejects.
MCSettings ==
    {Good,
     [Good EXCEPT !.shards = 0, !.read = FALSE, !.header_size = 0, !.handler_value = "",
                  !.session_protocol = "UDP"],
     [Good EXCEPT !.session_protocol = "UDP", !.handler_value = "found.wasm",
                  !.packet_identifiers = [p |-> "short"]],
     [Good EXCEPT !.handler_value = "text"],
     [Good EXCEPT !.session_protocol = "HTTP"], [Good EXCEPT !.port = 0],
     [Good EXCEPT !.header_size = 0], [Good EXCEPT !.body_max = 0],
     [Good EXCEPT !.endpoints = <<>>], [Good EXCEPT !.handler_value = "missing.wasm"],
     [Good EXCEPT !.settings_identifier = "other"],
     [Good EXCEPT !.packet_identifiers = [p |-> "missing"]],
     [Good EXCEPT !.packet_identifiers = <<>>, !.endpoints = <<"dead">>],
     [Good EXCEPT !.packet_identifiers = [p |-> "empty"]],
     [Good EXCEPT !.packet_identifiers = [p |-> "long", q |-> "also_long"]],
     [Good EXCEPT !.packet_identifiers = [p |-> "long", long |-> "long"]]}

Mod(type, start, length) ==
    [type |-> type, bytes |-> [start |-> start, second |-> length], step |-> 1, format |-> "seconds"]

Action(type, count, start, second, mods) ==
    [type |-> type, count |-> count, range |-> [start |-> start, second |-> second],
     offset_ms |-> IF type = "CREATE" THEN 2 ELSE 1, packet |-> "p", mods |-> mods]

Setup ==
    {Action("CREATE", n, 0, n, <<>>) : n \in {1, 2, 3}}
        \cup {Action(t, 1, r[1], r[2], <<>>) : t \in {"CONNECT", "DRAIN", "DISCONNECT"},
                                               r \in {<<0, 2>>, <<1, 3>>, <<2, 1>>}}

\* Modifications in ascending order: none, one, two with and without bytes
\* between them; and some the verifier has to reject.
AscendingMods ==
    {<<>>, <<Mod("COUNTER", 0, 2)>>, <<Mod("TIMESTAMP", 3, 8)>>,
     <<Mod("COUNTER", 0, 2), Mod("TIMESTAMP", 4, 3)>>,
     <<Mod("TIMESTAMP", 1, 2), Mod("COUNTER", 3, 2)>>,
     <<Mod("COUNTER", 1, 2), Mod("COUNTER", 2, 2)>>,
     <<Mod("TIMESTAMP", 4, 8)>>,
     <<[Mod("COUNTER", 0, 2) EXCEPT !.step = 0]>>}

MCActions ==
    Setup
        \cup {Action("SEND", n, 0, 2, mods) : n \in {1, 2}, mods \in AscendingMods}
        \cup {[Action("SEND", 1, 0, 1, <<>>) EXCEPT !.packet = "q"],
              [Action("SEND", 1, 0, 1, <<>>) EXCEPT !.packet = "unknown"],
              Action("SEND", 0, 0, 1, <<>>), Action("FLOOD", 1, 0, 1, <<>>)}

\* A counter written after the timestamp it precedes in the packet.
MCDescending ==
    {Action("CREATE", 2, 0, 2, <<>>), Action("CONNECT", 1, 0, 2, <<>>),
     Action("SEND", 1, 0, 2, <<Mod("TIMESTAMP", 6, 4), Mod("COUNTER", 0, 2)>>)}
===============================================================================
