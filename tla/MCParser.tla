------------------------------ MODULE MCParser ------------------------------
(* Scripts for the parser: settings blocks and orchestrator blocks in the  *)
(* syntax of docs/syntax.md, in either order.                              *)
EXTENDS Parser

K(w) == [type |-> "Keyword", text |-> Word(w)]
I(w) == [type |-> "Identity", text |-> Word(w)]
Op(o) == [type |-> "Operator", text |-> Word(o)]
Q(w) == [type |-> "Value", text |-> Word(w)]
V(n, unit) == [type |-> "Value", text |-> [num |-> <<n>>, rest |-> unit]]
Open == [type |-> "BraceOpen", text |-> Word("{")]
Close == [type |-> "BraceClosed", text |-> Word("}")]

Line(key, value) == <<K(key), Op("="), value>>
RangeTokens(a, b) == <<V(a, ""), Op(":"), V(b, "")>>
Offset2(n, unit) == <<K("OFFSET"), V(n, unit)>>
Option(kind, a, b, endian, arg) == <<K(kind)>> \o RangeTokens(a, b) \o <<Q(endian), Op(":"), arg>>
SendLine(copies) == <<K("SEND")>> \o RangeTokens(0, 2) \o <<I("p"), K("COPIES"), V(copies, "")>>

SettingsBodies ==
    {Line("SESSION", Q("TCP")) \o Line("PORT", V(80, "")) \o Line("READ", Q("true"))
        \o Line("HEADERSIZE", V(4, "")) \o Line("BODYMAX", V(9, ""))
        \o Line("SHARDS", V(2, "")) \o Line("SHARDS", V(3, "")),
     Line("HANDLER", Q("NOP")) \o Line("REPEAT", Q("false")) \o Line("SAMPLERATE", V(5, ""))
        \o <<K("ENDPOINTS"), Open, Q("a"), Op(","), Q("b"), Close>>,
     <<K("PACKETS"), Open, I("p"), Op(":"), Q("x"), Op(","), I("q"), Op(":"), Q("y"), Op(","),
       Close>> \o <<K("ENDPOINTS"), Open, Q("a"), Op(","), Close>>}

OrchestratorBodies ==
    {<<K("CREATE"), V(2, "")>> \o Offset2(7, "s") \o <<K("CONNECT")>> \o RangeTokens(0, 2)
        \o Offset2(40, "ms"),
     SendLine(1) \o Option("COUNTER", 0, 2, "little", V(7, ""))
        \o Option("TIMESTAMP", 2, 4, "big", Q("seconds")) \o SendLine(2) \o Offset2(1, "s"),
     SendLine(1) \o <<K("DRAIN")>> \o RangeTokens(0, 1) \o <<K("FLOOD")>> \o RangeTokens(1, 2)
        \o <<K("DISCONNECT")>> \o RangeTokens(0, 2)}

Block(word, body) == <<K(word), I("s"), Open>> \o body \o <<Close>>
MCScripts ==
    UNION {{Block("SETTINGS", s) \o Block("ORCHESTRATOR", o),
            Block("ORCHESTRATOR", o) \o Block("SETTINGS", s)} :
              s \in SettingsBodies, o \in OrchestratorBodies}

(* Bounds: 3000 stands for 2^31 and 100 for 65535, so that 7 s wraps and   *)
(* 3000 is no int.                                                         *)
MCStrays ==
    {K("SEND"), K("OFFSET"), K("COPIES"), K("COUNTER"), K("PORT"), K("ENDPOINTS"),
     I("q"), Op("="), Op(","), Op(":"), Open, Close, Q("OFFSET"), Q("big"),
     V(-1, ""), V(200, ""), V(3000, ""), V(6, "xs"), V(6, "x")}
=============================================================================
