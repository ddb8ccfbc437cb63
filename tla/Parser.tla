------------------------------- MODULE Parser -------------------------------
(***************************************************************************)
(* The script parser (interpreter/parser.cpp, parser.h): the recursive     *)
(* descent over the lexer's tokens that fills DSLData.  A step of the      *)
(* model reads one entry of a script: a block header, a setting, a packet, *)
(* an endpoint, the head of an action, one option of a SEND, an offset.    *)
(*                                                                         *)
(* A token is a type and a text.  A text is a decimal number, possibly     *)
(* absent, followed by a rest: 250ms is <<250>> and "ms", a word has no    *)
(* number.  That is as much of a string as std::stoi and the tests of the  *)
(* parser tell apart.  The lexer is not modelled: a behaviour starts with  *)
(* a well-formed script or with one such script after one edit.  Which     *)
(* error an ill-formed script gets is left out, that it gets one is not.   *)
(***************************************************************************)
EXTENDS Integers, Sequences, SequencesExt

CONSTANTS Scripts,           \* well-formed scripts, as sequences of tokens
          Strays,            \* the tokens an edit may put into a script
          IntMax,            \* the largest int, 2^31 - 1 in the code
          MaxPort,           \* 65535 in the code
          MsRests,           \* the rests of a text that end with "ms"
          SecondRests,       \* the other rests that end with "s"
          DEFAULT_OFFSET_MS,
          Unset              \* a field the code leaves uninitialised

Word(w) == [num |-> <<>>, rest |-> w]
Text == [num : Seq(Int), rest : STRING \cup {""}]    \* "" named for the provers

(* A closing brace has its own text, so no keyword is one.                 *)
Token ==
    {t \in [type : STRING, text : Text] :
        /\ Len(t.text.num) <= 1
        /\ t.type = "BraceClosed" => t.text = Word("}")}

ASSUME ParserAssumption ==
    /\ IntMax \in Nat /\ MaxPort \in Nat /\ DEFAULT_OFFSET_MS \in Nat
    /\ Scripts \subseteq Seq(Token) /\ Strays \subseteq Token
    /\ \A s \in Scripts : s # <<>>

VARIABLES tokens,        \* input_tokens_
          intact,          \* tokens is one of Scripts, unedited
          token_pos,       \* the number of tokens consumed
          at,              \* the loop of the parser that reads the next token
          settings,        \* DSLData::settings
          orchestrator,    \* DSLData::orchestrator
          action           \* the local Action of parse_orchestrator
vars == <<tokens, intact, token_pos, at, settings, orchestrator, action>>

ActionWords == {"CREATE", "CONNECT", "SEND", "FLOOD", "DRAIN", "DISCONNECT"}
Formats == {"seconds", "milliseconds", "microseconds", "nanoseconds"}

NewSettings ==
    [identifier |-> Word(""), session_protocol |-> Word(""), handler_value |-> Word(""),
     header_size |-> Unset, body_max |-> Unset, read |-> FALSE, repeat |-> FALSE,
     packet_sample_rate |-> 0, shards |-> 0, port |-> 0,
     endpoints |-> <<>>, packet_identifiers |-> <<>>]
NewAction ==
    [type |-> Unset, count |-> Unset, range |-> Unset, offset_ms |-> Unset,
     packet_identifier |-> Word(""), mods |-> <<>>]

Number == 0 .. IntMax
Range2 == [start : Number, second : Number]
Modification ==
    [type : {"COUNTER", "TIMESTAMP"}, bytes : Range2, little_endian : BOOLEAN, arg : Text]
Action ==
    [type : ActionWords \cup {Unset}, count : Number \cup {Unset}, range : Range2 \cup {Unset},
     offset_ms : Nat \cup {Unset}, packet_identifier : Text, mods : Seq(Modification)]

TypeOK ==
    /\ tokens \in Seq(Token) /\ token_pos \in 0 .. Len(tokens)
    /\ at \in {"parse", "settings", "packets", "endpoints", "orchestrator", "options", "offset",
              "accepted", "rejected"}
    /\ DOMAIN settings = DOMAIN NewSettings
    /\ {settings.identifier, settings.session_protocol, settings.handler_value} \subseteq Text
    /\ {settings.header_size, settings.body_max} \subseteq Number \cup {Unset}
    /\ {settings.read, settings.repeat} \subseteq BOOLEAN
    /\ {settings.packet_sample_rate, settings.shards, settings.port} \subseteq Number
    /\ settings.endpoints \in Seq(Text)
    /\ \A p \in DOMAIN settings.packet_identifiers :
          p \in Text /\ settings.packet_identifiers[p] \in Text
    /\ orchestrator \in [settings_identifier : Text, actions : Seq(Action)]
    /\ action \in Action

(* A script after one edit: cut off, or with a token missing, put in or    *)
(* replaced.  parse_script() hands the parser no empty list.               *)
Edits(s) ==
    {SubSeq(s, 1, n) : n \in 1 .. Len(s) - 1}
    \cup {RemoveAt(s, i) : i \in 1 .. Len(s)}
    \cup {InsertAt(s, i, t) : i \in 1 .. Len(s), t \in Strays}
    \cup {ReplaceAt(s, i, t) : i \in 1 .. Len(s), t \in Strays}

Init ==
    /\ intact \in BOOLEAN
    /\ tokens \in IF intact THEN Scripts ELSE UNION {Edits(s) : s \in Scripts}
    /\ token_pos = 0
    /\ at = "parse"
    /\ settings = NewSettings
    /\ orchestrator = [settings_identifier |-> Word(""), actions |-> <<>>]
    /\ action = NewAction

-----------------------------------------------------------------------------
(* Looking at the token k places ahead, k = 1 being the next one.          *)
end_of_tokens == token_pos >= Len(tokens)
peek(k) ==
    IF token_pos + k > Len(tokens) THEN [type |-> "Value", text |-> Word("EOF")]
    ELSE tokens[token_pos + k]
is_expected(k, type) == token_pos + k <= Len(tokens) /\ peek(k).type = type
is_operator(k, op) == is_expected(k, "Operator") /\ peek(k).text = Word(op)
is_keyword(k, words) == is_expected(k, "Keyword") /\ peek(k).text.rest \in words

(* std::stoi reads the leading number and ignores what follows it; a text  *)
(* without one, a number out of range or a negative one is an error.       *)
Converts(text) == text.num # <<>> /\ text.num[1] \in 0 .. IntMax
try_convert_int(k) == is_expected(k, "Value") /\ Converts(peek(k).text)
IntAt(k) == peek(k).text.num[1]

try_parse_range(k) ==
    /\ is_operator(k + 1, ":") /\ is_expected(k + 2, "Value")
    /\ try_convert_int(k) /\ try_convert_int(k + 2)
RangeAt(k) == [start |-> IntAt(k), second |-> IntAt(k + 2)]

(* A number of milliseconds or of seconds, in unsigned 32-bit arithmetic.  *)
(* Only the ending of the text is tested, so that 5xs is five seconds.     *)
try_parse_time(k) ==
    /\ is_expected(k, "Value") /\ Converts(peek(k).text)
    /\ peek(k).text.rest \in MsRests \cup SecondRests
Milliseconds(text) ==
    (text.num[1] * (IF text.rest \in SecondRests THEN 1000 ELSE 1)) % (2 * (IntMax + 1))

-----------------------------------------------------------------------------
(* Consume n tokens and go on in loop next; or give up.                    *)
Consume(n, next) ==
    /\ token_pos' = token_pos + n
    /\ at' = next
    /\ UNCHANGED <<tokens, intact>>
Reject ==
    /\ at' = "rejected"
    /\ UNCHANGED <<tokens, intact, token_pos, settings, orchestrator, action>>

(* parse(): one block after the other, told apart by text alone.           *)
parse ==
    /\ at = "parse"
    /\ IF end_of_tokens
       THEN Consume(0, "accepted") /\ UNCHANGED <<settings, orchestrator, action>>
       ELSE /\ peek(1).text \notin {Word("SETTINGS"), Word("ORCHESTRATOR")}
            /\ Reject

BlockHeader == is_expected(2, "Identity") /\ is_expected(3, "BraceOpen")

parse_settings ==
    /\ at = "parse" /\ ~end_of_tokens /\ peek(1).text = Word("SETTINGS")
    /\ IF BlockHeader
       THEN /\ settings' = [settings EXCEPT !.identifier = peek(2).text]
            /\ Consume(3, "settings")
            /\ UNCHANGED <<orchestrator, action>>
       ELSE Reject

parse_orchestrator ==
    /\ at = "parse" /\ ~end_of_tokens /\ peek(1).text = Word("ORCHESTRATOR")
    /\ IF BlockHeader
       THEN /\ orchestrator' = [orchestrator EXCEPT !.settings_identifier = peek(2).text]
            /\ Consume(3, "orchestrator")
            /\ UNCHANGED <<settings, action>>
       ELSE Reject

CloseBlock ==
    /\ at \in {"settings", "orchestrator"} /\ is_expected(1, "BraceClosed")
    /\ Consume(1, "parse")
    /\ UNCHANGED <<settings, orchestrator, action>>

-----------------------------------------------------------------------------
(* The loop of parse_settings(): KEYWORD { ... } or KEYWORD = value.       *)
Field == [SESSION |-> "session_protocol", HANDLER |-> "handler_value", PORT |-> "port",
          HEADERSIZE |-> "header_size", BODYMAX |-> "body_max",
          SAMPLERATE |-> "packet_sample_rate", SHARDS |-> "shards", READ |-> "read",
          REPEAT |-> "repeat"]
TextKeys == {"SESSION", "HANDLER"}
BoolKeys == {"READ", "REPEAT"}

SettingOK(key, text) ==
    /\ key \in DOMAIN Field
    /\ key \in BoolKeys => text \in {Word("true"), Word("false")}
    /\ key \notin TextKeys \cup BoolKeys => Converts(text)
    /\ key = "PORT" => text.num[1] <= MaxPort
SettingValue(key, text) ==
    CASE key \in TextKeys -> text
      [] key \in BoolKeys -> text = Word("true")
      [] OTHER -> text.num[1]

OpensNested == is_expected(1, "Keyword") /\ is_expected(2, "BraceOpen")

Setting ==
    /\ at = "settings" /\ ~is_expected(1, "BraceClosed") /\ ~OpensNested
    /\ LET key == peek(1).text.rest
           text == peek(3).text
       IN IF /\ is_expected(1, "Keyword") /\ is_operator(2, "=") /\ is_expected(3, "Value")
             /\ SettingOK(key, text)
          THEN /\ settings' = [settings EXCEPT ![Field[key]] = SettingValue(key, text)]
               /\ Consume(3, "settings")
               /\ UNCHANGED <<orchestrator, action>>
          ELSE Reject

Nested ==
    /\ at = "settings" /\ OpensNested
    /\ IF is_keyword(1, {"PACKETS", "ENDPOINTS"})
       THEN /\ Consume(2, IF is_keyword(1, {"PACKETS"}) THEN "packets" ELSE "endpoints")
            /\ UNCHANGED <<settings, orchestrator, action>>
       ELSE Reject

(* An entry of n tokens is followed by a comma or by the closing brace; a  *)
(* comma before the brace is allowed.                                      *)
ListGoesOn(n) == is_operator(n + 1, ",") \/ is_expected(n + 1, "BraceClosed")
ConsumeEntry(n) == Consume(IF is_operator(n + 1, ",") THEN n + 1 ELSE n, at)

Mapped(map, key, value) ==
    [p \in DOMAIN map \cup {key} |-> IF p = key THEN value ELSE map[p]]
Packet ==
    /\ at = "packets" /\ ~is_expected(1, "BraceClosed")
    /\ IF is_expected(1, "Identity") /\ is_operator(2, ":") /\ is_expected(3, "Value")
          /\ ListGoesOn(3)
       THEN /\ settings' = [settings EXCEPT !.packet_identifiers =
                               Mapped(@, peek(1).text, peek(3).text)]
            /\ ConsumeEntry(3)
            /\ UNCHANGED <<orchestrator, action>>
       ELSE Reject

(* Fault: the end of the tokens is taken for a list that is still open.    *)
Endpoint_AwaitsBrace ==
    /\ at = "endpoints" /\ ~is_expected(1, "BraceClosed")
    /\ IF is_expected(1, "Value") /\ (ListGoesOn(1) \/ token_pos + 1 = Len(tokens))
       THEN /\ settings' = [settings EXCEPT !.endpoints = Append(@, peek(1).text)]
            /\ ConsumeEntry(1)
            /\ UNCHANGED <<orchestrator, action>>
       ELSE ~end_of_tokens /\ Reject
Endpoint ==
    /\ at = "endpoints" /\ ~is_expected(1, "BraceClosed")
    /\ IF is_expected(1, "Value") /\ ListGoesOn(1)
       THEN /\ settings' = [settings EXCEPT !.endpoints = Append(@, peek(1).text)]
            /\ ConsumeEntry(1)
            /\ UNCHANGED <<orchestrator, action>>
       ELSE Reject

CloseList ==
    /\ at \in {"packets", "endpoints"} /\ is_expected(1, "BraceClosed")
    /\ Consume(1, "settings")
    /\ UNCHANGED <<settings, orchestrator, action>>

-----------------------------------------------------------------------------
(* The loop of parse_orchestrator(): the head of an action, its options,   *)
(* its offset.  Every action starts as a new Action.                       *)
AtAction(words) ==
    at = "orchestrator" /\ is_keyword(1, words) /\ is_expected(2, "Value")

Create ==
    /\ AtAction({"CREATE"})
    /\ IF try_convert_int(2)
       THEN /\ action' = [NewAction EXCEPT !.type = "CREATE", !.count = IntAt(2),
                                            !.range = [start |-> 0, second |-> IntAt(2)]]
            /\ Consume(2, "offset")
            /\ UNCHANGED <<settings, orchestrator>>
       ELSE Reject

RangeAction ==
    /\ AtAction(ActionWords \ {"CREATE", "SEND"})
    /\ IF try_parse_range(2)
       THEN /\ action' = [NewAction EXCEPT !.type = peek(1).text.rest, !.range = RangeAt(2)]
            /\ Consume(4, "offset")
            /\ UNCHANGED <<settings, orchestrator>>
       ELSE Reject

(* Fault: the Action is declared before the loop, so that a SEND still has *)
(* the options of the SEND before it.                                      *)
Send_SameAction ==
    /\ AtAction({"SEND"})
    /\ IF /\ try_parse_range(2) /\ is_expected(5, "Identity")
          /\ is_keyword(6, {"COPIES"}) /\ try_convert_int(7)
       THEN /\ action' = [NewAction EXCEPT !.type = "SEND", !.range = RangeAt(2),
                             !.packet_identifier = peek(5).text, !.count = IntAt(7),
                             !.mods = IF orchestrator.actions = <<>> THEN <<>>
                                      ELSE Last(orchestrator.actions).mods]
            /\ Consume(7, "options")
            /\ UNCHANGED <<settings, orchestrator>>
       ELSE Reject
Send ==
    /\ AtAction({"SEND"})
    /\ IF /\ try_parse_range(2) /\ is_expected(5, "Identity")
          /\ is_keyword(6, {"COPIES"}) /\ try_convert_int(7)
       THEN /\ action' = [NewAction EXCEPT !.type = "SEND", !.range = RangeAt(2),
                                            !.packet_identifier = peek(5).text, !.count = IntAt(7)]
            /\ Consume(7, "options")
            /\ UNCHANGED <<settings, orchestrator>>
       ELSE Reject

NotAnAction ==
    /\ at = "orchestrator" /\ ~is_expected(1, "BraceClosed")
    /\ ~AtAction(ActionWords)
    /\ Reject

(* try_parse_send_option(): COUNTER or TIMESTAMP, start:length, endianness *)
(* and step or format.                                                     *)
OptionOK ==
    /\ is_expected(2, "Value") /\ try_parse_range(2)
    /\ is_expected(5, "Value") /\ is_operator(6, ":") /\ is_expected(7, "Value")
    /\ peek(5).text \in {Word("little"), Word("big")}
    /\ IF is_keyword(1, {"COUNTER"}) THEN try_convert_int(7)
       ELSE peek(7).text \in {Word(f) : f \in Formats}
OptionAt ==
    [type |-> peek(1).text.rest, bytes |-> RangeAt(2),
     little_endian |-> peek(5).text = Word("little"),
     arg |-> IF is_keyword(1, {"COUNTER"}) THEN [peek(7).text EXCEPT !.rest = ""]
             ELSE peek(7).text]

try_parse_send_option ==
    /\ at = "options" /\ is_keyword(1, {"COUNTER", "TIMESTAMP"})
    /\ IF OptionOK
       THEN /\ action' = [action EXCEPT !.mods = Append(@, OptionAt)]
            /\ Consume(7, "options")
            /\ UNCHANGED <<settings, orchestrator>>
       ELSE Reject

(* Anything else ends the options and is looked at by what follows.        *)
OptionsEnd ==
    /\ at = "options" /\ ~is_keyword(1, {"COUNTER", "TIMESTAMP"})
    /\ Consume(0, "offset")
    /\ UNCHANGED <<settings, orchestrator, action>>

(* OFFSET is told by its text alone; without one the default is used.      *)
PushAction(ms) ==
    /\ orchestrator' = [orchestrator EXCEPT
                           !.actions = Append(@, [action EXCEPT !.offset_ms = ms])]
    /\ action' = NewAction
    /\ UNCHANGED settings
Offset ==
    /\ at = "offset" /\ peek(1).text = Word("OFFSET")
    /\ IF try_parse_time(2)
       THEN PushAction(Milliseconds(peek(2).text)) /\ Consume(2, "orchestrator")
       ELSE Reject
NoOffset ==
    /\ at = "offset" /\ peek(1).text # Word("OFFSET")
    /\ PushAction(DEFAULT_OFFSET_MS) /\ Consume(0, "orchestrator")

Next ==
    \/ parse \/ parse_settings \/ parse_orchestrator \/ CloseBlock
    \/ Setting \/ Nested \/ Packet \/ Endpoint \/ CloseList
    \/ Create \/ RangeAction \/ Send \/ NotAnAction
    \/ try_parse_send_option \/ OptionsEnd \/ Offset \/ NoOffset

Spec == Init /\ [][Next]_vars /\ WF_vars(Next)

-----------------------------------------------------------------------------
(* What a script s says, read by position and without the parser: every    *)
(* keyword of an action opens one action, which goes on to the next such   *)
(* keyword or to the closing brace.                                        *)
Keyword(s, i, words) == s[i].type = "Keyword" /\ s[i].text.rest \in words
NumberAt(s, i) == s[i].text.num[1]

(* The members of S up to n, in order.                                     *)
Upto(S) ==
    LET upto[n \in Nat] == IF n = 0 THEN <<>>
                           ELSE IF n \in S THEN Append(upto[n - 1], n) ELSE upto[n - 1]
    IN  upto

Starts(s) == {i \in 1 .. Len(s) : Keyword(s, i, ActionWords)}
EndsLine(s, e) == s[e].type = "BraceClosed" \/ Keyword(s, e, ActionWords)
LineEnd(s, i) ==
    CHOOSE e \in i + 1 .. Len(s) : EndsLine(s, e) /\ \A j \in i + 1 .. e - 1 : ~EndsLine(s, j)
OptionsIn(s, i, e) == {j \in i + 1 .. e - 1 : Keyword(s, j, {"COUNTER", "TIMESTAMP"})}

WrittenOption(s, i) ==
    [type |-> s[i].text.rest,
     bytes |-> [start |-> NumberAt(s, i + 1), second |-> NumberAt(s, i + 3)],
     little_endian |-> s[i + 4].text = Word("little"),
     arg |-> IF Keyword(s, i, {"COUNTER"}) THEN [num |-> <<NumberAt(s, i + 6)>>, rest |-> ""]
             ELSE s[i + 6].text]
WrittenLine(s, i, e) ==
    LET type == s[i].text.rest
        options == Upto(OptionsIn(s, i, e))[e]
    IN [type |-> type,
        count |-> CASE type = "CREATE" -> NumberAt(s, i + 1)
                    [] type = "SEND" -> NumberAt(s, i + 6)
                    [] OTHER -> Unset,
        range |-> IF type = "CREATE" THEN [start |-> 0, second |-> NumberAt(s, i + 1)]
                  ELSE [start |-> NumberAt(s, i + 1), second |-> NumberAt(s, i + 3)],
        offset_ms |-> IF s[e - 2].text = Word("OFFSET") THEN Milliseconds(s[e - 1].text)
                      ELSE DEFAULT_OFFSET_MS,
        packet_identifier |-> IF type = "SEND" THEN s[i + 4].text ELSE Word(""),
        mods |-> [n \in DOMAIN options |-> WrittenOption(s, options[n])]]
WrittenAction(s, i) == WrittenLine(s, i, LineEnd(s, i))

(* The list a token belongs to is the one whose keyword is the last        *)
(* keyword or closing brace before it.                                     *)
Inside(s, i, word) ==
    \E k \in 1 .. i - 1 :
        /\ Keyword(s, k, {word})
        /\ \A j \in k + 1 .. i - 1 : s[j].type \notin {"Keyword", "BraceClosed"}
Uses(s, key) == {i \in 1 .. Len(s) : Keyword(s, i, {key})}
EndpointsIn(s) == {i \in 1 .. Len(s) : s[i].type = "Value" /\ Inside(s, i, "ENDPOINTS")}
PacketsIn(s) == {i \in 1 .. Len(s) : s[i].type = "Identity" /\ Inside(s, i, "PACKETS")}

(* The same of the first n tokens of s.                                    *)
WrittenSetting(s, n, key) ==
    LET uses == Upto(Uses(s, key))[n]
    IN IF uses = <<>> THEN NewSettings[Field[key]]
       ELSE SettingValue(key, s[Last(uses) + 2].text)
WrittenEndpoints(s, n) ==
    LET places == Upto(EndpointsIn(s))[n]
    IN [m \in DOMAIN places |-> s[places[m]].text]
WrittenPackets(s, n) ==
    {<<s[i].text, s[i + 2].text>> : i \in
        {i \in PacketsIn(s) \cap (1 .. n) :
            \A j \in PacketsIn(s) \cap (i + 1 .. n) : s[j].text # s[i].text}}

(* An accepted script says what the parser read: each action keyword       *)
(* became one action, in order, with its own range, packet, copies,        *)
(* options and offset (the default if it has none); a setting given twice  *)
(* has its last value, endpoints add up, a packet named twice is the last  *)
(* one.  It holds of edited scripts that are still accepted, whatever was  *)
(* dropped or put in.                                                      *)
ParsedAsWritten ==
    at = "accepted" =>
        LET starts == Upto(Starts(tokens))[Len(tokens)]
        IN /\ orchestrator.actions = [n \in DOMAIN starts |-> WrittenAction(tokens, starts[n])]
           /\ \A key \in DOMAIN Field :
                 settings[Field[key]] = WrittenSetting(tokens, Len(tokens), key)
           /\ settings.endpoints = WrittenEndpoints(tokens, Len(tokens))
           /\ {<<p, settings.packet_identifiers[p]>> :
                   p \in DOMAIN settings.packet_identifiers} = WrittenPackets(tokens, Len(tokens))

(* The parser comes to an answer on every list of tokens, each turn of     *)
(* each loop consuming a token or giving up, also where the script is cut  *)
(* off inside a list; and a script in the syntax of docs/syntax.md is      *)
(* accepted, with or without offsets, options and a last comma.            *)
ParseAnswers == <>(at = "accepted" \/ (~intact /\ at = "rejected"))
=============================================================================
