------------------------------ MODULE WasmHandler ------------------------------
(***************************************************************************)
(* One WASMMessageHandler (packets/wasm-message-handler.cpp) and the guest *)
(* module it runs.                                                         *)
(*                                                                         *)
(* A shard has one handler; its sessions call parse_header() and           *)
(* parse_message() one after the other, and each call runs to its end.     *)
(* What makes it hard is the guest: in every call of one of its functions  *)
(* it may grow its memory, which moves it, return any number, or trap.  A  *)
(* step is one call into the guest or what the host does between two of    *)
(* them.                                                                   *)
(*                                                                         *)
(* A guest of kind "honest" keeps its side of docs/wasm-modules.md, one of *)
(* kind "any" answers what it likes.  The bytes are not modelled.          *)
(***************************************************************************)
EXTENDS Naturals

CONSTANTS
    Word,           \* 2^32
    MemorySizes,    \* sizes the guest's memory may grow through, at most 2^32
    Headers,        \* header sizes: config_.header_size, 0 for a datagram
    Bodies,         \* body sizes the sessions pass on
    Guests,         \* the kinds of guest: "honest", "any"
    MaxCalls        \* bound: calls of parse_header() and parse_message()

\* "This is assumed to not overflow, any packet this large is unreasonable."
ASSUME WasmAssumption ==
    /\ Word \in Nat /\ Word > 1
    /\ MemorySizes \subseteq 0 .. Word
    /\ Headers \subseteq Nat /\ Bodies \subseteq Nat
    /\ \A h \in Headers, b \in Bodies : h + b < Word
    /\ Guests \subseteq {"honest", "any"}
    /\ MaxCalls \in Nat

VARIABLES
    handler,    \* what the constructor left: its state and parse_header_func
    guest,      \* the instance: its memory and the blocks it has handed out
    call,       \* the call of parse_header() or parse_message() under way
    log         \* what the sessions have seen

handlerVars == <<handler, guest, call, log>>

U32 == 0 .. Word - 1
Block == [index : U32, length : U32]
NoBlock == [index |-> 0, length |-> 0]
Exports == {"memory", "alloc", "dealloc", "handle_body", "handle_header"}

\* base stands for the address of the guest's memory, which growing changes.
View == [base : Nat, size : 0 .. Word]

Step == {"idle", "alloc", "copy_in", "handle", "copy_out", "dealloc_out", "dealloc_in",
         "finish", "caught"}

HandlerTypeOK ==
    /\ handler \in [state : {"none", "failed", "ready"}, header_func : BOOLEAN]
    /\ guest \in [kind : Guests, memory : View, live : SUBSET Block, bad_frees : Nat]
    /\ call \in [step : Step, func : {"parse_header", "parse_message"}, input : Block,
                 output : Block, mem_view : View,
                 response : U32, status : {"OK", "ERROR"}]
    /\ log \in [calls : 0 .. MaxCalls, messages : Nat, callbacks : Nat, answer : U32,
                status : {"OK", "ERROR"}, trapped : BOOLEAN]

\* Between two calls.
Idle == [step |-> "idle", func |-> "parse_message", input |-> NoBlock, output |-> NoBlock,
         mem_view |-> [base |-> 0, size |-> 0],
         response |-> 0, status |-> "OK"]

HandlerInit ==
    /\ handler = [state |-> "none", header_func |-> FALSE]
    /\ \E kind \in Guests, size \in MemorySizes :
          guest = [kind |-> kind, memory |-> [base |-> 0, size |-> size],
                   live |-> {}, bad_frees |-> 0]
    /\ call = Idle
    /\ log = [calls |-> 0, messages |-> 0, callbacks |-> 0, answer |-> 0,
              status |-> "OK", trapped |-> FALSE]

-----------------------------------------------------------------------------
(* The constructor: it throws unless the module exports what is needed, and *)
(* sets parse_header_func if the module can read headers.                   *)

Construct(exports) ==
    /\ handler.state = "none"
    /\ handler' = [state |-> IF Exports \ {"handle_header"} \subseteq exports
                             THEN "ready" ELSE "failed",
                   header_func |-> Exports \subseteq exports]
    /\ UNCHANGED <<guest, call, log>>

-----------------------------------------------------------------------------
(* Entering the two functions. *)

Begin(func, length) ==
    /\ handler.state = "ready"
    /\ call.step = "idle"
    /\ log.calls < MaxCalls
    /\ call' = [Idle EXCEPT !.step = "alloc", !.func = func,
                            !.input = [index |-> 0, length |-> length % Word]]

parse_message(header, body) ==
    /\ Begin("parse_message", header + body)
    /\ log' = [log EXCEPT !.calls = @ + 1, !.messages = @ + 1]
    /\ UNCHANGED <<handler, guest>>

\* Without a parser for headers every header is an error.
parse_header(header) ==
    \/ /\ handler.header_func
       /\ Begin("parse_header", header)
       /\ log' = [log EXCEPT !.calls = @ + 1]
       /\ UNCHANGED <<handler, guest>>
    \/ /\ handler.state = "ready" /\ ~handler.header_func
       /\ call.step = "idle"
       /\ log' = [log EXCEPT !.status = "ERROR", !.answer = 0]
       /\ UNCHANGED <<handler, guest, call>>

-----------------------------------------------------------------------------
(* The guest. *)

Bytes(b) == b.index .. b.index + b.length - 1

\* The guest's code ran, and may have grown the memory.
Grown(memory) ==
    {memory} \cup {[base |-> memory.base + 1, size |-> n] : n \in {m \in MemorySizes : m > memory.size}}

Valid(block, memory) == block.index + block.length <= memory.size

\* A block alloc or handle_body may give: an honest guest gives fresh memory.
Gives(block, memory) ==
    \/ guest.kind = "any"
    \/ /\ block.index # 0 /\ Valid(block, memory)
       /\ \A b \in guest.live : Bytes(b) \cap Bytes(block) = {}

Hand(block, memory) ==
    guest' = [guest EXCEPT !.memory = memory,
                           !.live = IF guest.kind = "honest" THEN @ \cup {block} ELSE @]

\* A call into the guest that traps is caught by the function that made it.
InGuest == call.step \in {"alloc", "handle", "dealloc_out", "dealloc_in"}

GuestTraps ==
    /\ InGuest
    /\ call' = [call EXCEPT !.step = "caught"]
    /\ log' = [log EXCEPT !.trapped = TRUE]
    /\ UNCHANGED <<handler, guest>>

-----------------------------------------------------------------------------
(* The body of both functions, from one call into the guest to the next. *)

\* Index 0 is a failed allocation.  The header path passes it to dealloc, the
\* message path answers at once.
CallAlloc ==
    /\ call.step = "alloc"
    /\ \E memory \in Grown(guest.memory), index \in U32 :
          LET block == [call.input EXCEPT !.index = index]
          IN  \/ /\ index # 0
                 /\ Gives(block, memory)
                 /\ Hand(block, memory)
                 /\ call' = [call EXCEPT !.step = "copy_in", !.input = block]
              \/ /\ index = 0
                 /\ guest' = [guest EXCEPT !.memory = memory]
                 /\ call' = [call EXCEPT !.status = "ERROR",
                               !.step = IF call.func = "parse_header" THEN "dealloc_in"
                                                                     ELSE "finish"]
    /\ UNCHANGED <<handler, log>>

\* The sum is made in 64 bits, where it cannot wrap.
Fits(block, view) == block.index + block.length <= view.size

\* Out of bounds: give the block back and answer with nothing.
CopyIn ==
    /\ call.step = "copy_in"
    /\ LET looked == [call EXCEPT !.mem_view = guest.memory]
       IN  \/ /\ Fits(call.input, looked.mem_view)
              /\ call' = [looked EXCEPT !.step = "handle"]
           \/ /\ ~Fits(call.input, looked.mem_view)
              /\ call' = [looked EXCEPT !.step = "dealloc_in", !.status = "ERROR"]
    /\ UNCHANGED <<handler, guest, log>>

\* The result of handle_header is signed: the upper half of U32 is negative.
CallHandleHeader ==
    /\ call.step = "handle" /\ call.func = "parse_header"
    /\ \E memory \in Grown(guest.memory), size \in U32 :
          /\ guest' = [guest EXCEPT !.memory = memory]
          /\ call' = [call EXCEPT !.step = "dealloc_in",
                                  !.status = IF size >= Word \div 2 THEN "ERROR" ELSE "OK"]
    /\ UNCHANGED <<handler, log>>

\* An output of length 0 is no block, and its index means nothing.
CallHandleBody ==
    /\ call.step = "handle" /\ call.func = "parse_message"
    /\ \E memory \in Grown(guest.memory), output \in Block :
          /\ \/ output.length = 0 /\ guest' = [guest EXCEPT !.memory = memory]
             \/ output.length > 0 /\ Gives(output, memory) /\ Hand(output, memory)
          /\ call' = [call EXCEPT !.output = output,
                                  !.step = IF output.length > 0 THEN "copy_out" ELSE "dealloc_in"]
    /\ UNCHANGED <<handler, log>>

\* memcpy out of the guest, after vec->resize(), which may throw.
Receive(looked) ==
    \/ /\ Fits(call.output, looked.mem_view)
       /\ call' = [looked EXCEPT !.step = "dealloc_out", !.response = call.output.length]
       /\ UNCHANGED log
    \/ /\ Fits(call.output, looked.mem_view)
       /\ call' = [looked EXCEPT !.step = "caught"]
       /\ log' = [log EXCEPT !.trapped = TRUE]
    \/ /\ ~Fits(call.output, looked.mem_view)
       /\ call' = [looked EXCEPT !.step = "dealloc_out", !.status = "ERROR"]
       /\ UNCHANGED log

\* Fault: the memory is still seen as it was when the input was written.
CopyOut_StaleView ==
    /\ call.step = "copy_out"
    /\ Receive(call)
    /\ UNCHANGED <<handler, guest>>

\* The view is taken anew: handle_body may have moved the memory.
CopyOut ==
    /\ call.step = "copy_out"
    /\ Receive([call EXCEPT !.mem_view = guest.memory])
    /\ UNCHANGED <<handler, guest>>

dealloc(block) ==
    \E memory \in Grown(guest.memory) :
        guest' = [guest EXCEPT
                    !.memory = memory,
                    !.live = @ \ {block},
                    !.bad_frees = IF guest.kind = "honest" /\ block.index # 0
                                                           /\ block \notin guest.live
                                  THEN @ + 1 ELSE @]

\* Fault: the input is forgotten when there was an output.
DeallocOut_ForgetsInput ==
    /\ call.step = "dealloc_out"
    /\ dealloc(call.output)
    /\ call' = [call EXCEPT !.step = "finish"]
    /\ UNCHANGED <<handler, log>>

DeallocOut ==
    /\ call.step = "dealloc_out"
    /\ dealloc(call.output)
    /\ call' = [call EXCEPT !.step = "dealloc_in"]
    /\ UNCHANGED <<handler, log>>

DeallocIn ==
    /\ call.step = "dealloc_in"
    /\ dealloc(call.input)
    /\ call' = [call EXCEPT !.step = "finish"]
    /\ UNCHANGED <<handler, log>>

Return(response, status) ==
    /\ call' = Idle
    /\ log' = [log EXCEPT
                 !.callbacks = IF call.func = "parse_message" THEN @ + 1 ELSE @,
                 !.answer = response, !.status = status]
    /\ UNCHANGED <<handler, guest>>

\* callback(vec), or the HeaderResult.
Finish == call.step = "finish" /\ Return(call.response, call.status)

\* Fault: the catch clauses only log.
Caught_Silent ==
    /\ call.step = "caught"
    /\ call' = Idle
    /\ UNCHANGED <<handler, guest, log>>

\* The catch clauses answer with nothing; what the guest had allocated stays.
Caught == call.step = "caught" /\ Return(0, "ERROR")

HandlerNext ==
    \/ \E exports \in SUBSET Exports : Construct(exports)
    \/ \E header \in Headers \ {0} : parse_header(header)
    \/ \E header \in Headers, body \in Bodies : parse_message(header, body)
    \/ CallAlloc \/ CopyIn \/ CallHandleHeader \/ CallHandleBody
    \/ CopyOut \/ DeallocOut \/ DeallocIn
    \/ Finish \/ GuestTraps \/ Caught

HandlerSpec == HandlerInit /\ [][HandlerNext]_handlerVars

-----------------------------------------------------------------------------
(* Properties. *)

\* A step that copies uses the memory the guest has at that moment.
CopiesInside ==
    /\ call.step = "copy_in" /\ call'.step = "handle" =>
          call'.mem_view = guest.memory /\ Valid(call.input, guest.memory)
    /\ call.step = "copy_out" /\ call'.response > 0 =>
          call'.mem_view = guest.memory /\ Valid(call.output, guest.memory)

\* Whatever the guest answers and however it grows or moves its memory, the
\* host only ever copies within the memory the guest has at that moment
\* ("Try to prevent OOB memory access", "Handle guests changing their memory
\* layout").  The copy is looked at in the step that made it.
HostStaysInMemory == [][CopiesInside]_handlerVars

\* A session whose message is parsed gets its callback exactly once, also when
\* the guest traps in any of its functions, and nothing but an empty response
\* after anything went wrong (contract 2.1): without it the session never
\* reads again, with two it reads twice at the same time.
AnsweredOnce ==
    call.step = "idle" =>
        /\ log.callbacks = log.messages
        /\ log.status = "ERROR" => log.answer = 0

\* The host keeps contract 7 with an honest guest: between two calls every
\* block the guest handed out has been given back, once, unless the guest
\* trapped.  Index 0, which the header path gives back too, is no block.
GuestBlocksBalanced ==
    guest.kind = "honest" =>
        /\ guest.bad_frees = 0
        /\ call.step = "idle" /\ ~log.trapped => guest.live = {}
===============================================================================
