-------------------------- MODULE AnthropicStream --------------------------
(***************************************************************************)
(* generateStreaming of internal/runtime/providers/anthropic/anthropic.go  *)
(* from the first SSE event on.  A message is a series of content blocks   *)
(* with an index each; text is passed on at once, the input of a tool_use  *)
(* block is accumulated until the block stops, and the call is passed on   *)
(* there.  The consumer may stop after any response.                       *)
(*                                                                         *)
(* The server is the environment: it sends the events that Allowed admits, *)
(* and its stream may be cut anywhere.  A piece of text, a name, a piece   *)
(* of JSON, a stop reason and a usage are the number of their event.       *)
(***************************************************************************)
EXTENDS Naturals, Sequences, Lists

CONSTANTS MaxEvents,  \* bound: events of one stream
          Blocks      \* bound: content blocks of one message

ASSUME AnthropicAssumption == MaxEvents \in Nat \ {0} /\ Blocks \in Nat \ {0}

VARIABLES sent,    \* the events read so far
          active,  \* activeBlocks (index i of the code is i + 1)
          reason,  \* stopReason: the event it came with, 0 for ""
          usage,   \* finalUsage: the event it came with, 0 for nil
          out,     \* the responses yielded
          state    \* "reading", "stopped", "ended" (EOF), "final", "error"

vars == <<sent, active, reason, usage, out, state>>

(***************************************************************************)
(* The server.  block: the content block of the event (0: none); usage: a  *)
(* message_delta has a usage.                                              *)
(***************************************************************************)
BlockEvents == {"start_text", "start_tool", "text_delta", "input_json_delta", "stop"}
Events ==
    {e \in [type : BlockEvents \cup {"message_delta", "message_stop", "ping"},
             block : 0..Blocks, usage : BOOLEAN] :
        /\ e.block # 0 <=> e.type \in BlockEvents
        /\ e.usage => e.type = "message_delta"}

Had(s, t, b) == \E i \in DOMAIN s : s[i].type = t /\ s[i].block = b
Started(s, b) == Had(s, "start_text", b) \/ Had(s, "start_tool", b)
Running(s, b) == Started(s, b) /\ ~Had(s, "stop", b)

\* Blocks start in the order of their indices; deltas fit the type of their
\* block and lie between its start and its stop; the message ends after all
\* blocks stopped and a message_delta was sent.
Allowed(s, e) ==
    /\ e.type \in {"start_text", "start_tool"} =>
          /\ ~Started(s, e.block) /\ ~Had(s, "message_delta", 0)
          /\ e.block > 1 => Started(s, e.block - 1)
    /\ e.type = "text_delta"       => Had(s, "start_text", e.block) /\ Running(s, e.block)
    /\ e.type = "input_json_delta" => Had(s, "start_tool", e.block) /\ Running(s, e.block)
    /\ e.type = "stop"             => Running(s, e.block)
    /\ e.type = "message_delta"    => \A b \in 1..Blocks : ~Running(s, b)
    /\ e.type = "message_stop"     => Had(s, "message_delta", 0)

(***************************************************************************)
(* The provider.                                                           *)
(***************************************************************************)
Response(k, n, j, r, u) == [kind |-> k, from |-> n, json |-> j, reason |-> r, usage |-> u]
Text(n)     == Response("text", n, <<>>, 0, 0)
Call(b)     == Response("call", b.name, b.json, 0, 0)
Final(r, u) == Response("final", 0, <<>>, r, u)
Error       == Response("error", 0, <<>>, 0, 0)

EmptyBlock == [type |-> "none", name |-> 0, json |-> <<>>]

ActiveBlocks == [type : {"none", "start_text", "start_tool"}, name : Nat, json : Seq(Nat)]
Responses == [kind : {"text", "call", "final", "error"}, from : Nat, json : Seq(Nat),
              reason : Nat, usage : Nat]

TypeOK ==
    /\ sent \in Seq(Events) /\ Len(sent) <= MaxEvents
    /\ active \in Seq(ActiveBlocks) /\ Len(active) <= Blocks
    /\ reason \in Nat /\ usage \in Nat
    /\ out \in Seq(Responses)
    /\ state \in {"reading", "stopped", "ended", "final", "error"}

Init == /\ sent = <<>> /\ active = <<>> /\ reason = 0 /\ usage = 0
        /\ out = <<>> /\ state = "reading"

\* content_block_start extends activeBlocks to hold the index and overwrites
\* what is there.
Opened(e, n) ==
    [i \in 1..(IF e.block > Len(active) THEN e.block ELSE Len(active)) |->
        IF i = e.block THEN [type |-> e.type, name |-> n, json |-> <<>>]
        ELSE IF i <= Len(active) THEN active[i] ELSE EmptyBlock]

\* yield: the consumer may stop.
YieldPartial(r) == out' = Append(out, r) /\ state' \in {"reading", "stopped"}

(***************************************************************************)
(* The cases of the switch, for event e, the n-th of the stream.           *)
(***************************************************************************)
ContentBlockStart(e, n) ==
    /\ e.type \in {"start_text", "start_tool"}
    /\ active' = Opened(e, n)
    /\ UNCHANGED <<reason, usage, out, state>>

\* Faulty: text counts only for the newest block.
TextDeltaOfNewest(e, n) ==
    /\ e.type = "text_delta"
    /\ IF e.block = Len(active) THEN YieldPartial(Text(n)) ELSE UNCHANGED <<out, state>>
    /\ UNCHANGED <<active, reason, usage>>

TextDelta(e, n) ==
    /\ e.type = "text_delta"
    /\ YieldPartial(Text(n))
    /\ UNCHANGED <<active, reason, usage>>

\* Faulty: input goes to the newest block.
InputDeltaToNewest(e, n) ==
    /\ e.type = "input_json_delta"
    /\ active' = [active EXCEPT ![Len(active)].json = Append(@, n)]
    /\ UNCHANGED <<reason, usage, out, state>>

InputDelta(e, n) ==
    /\ e.type = "input_json_delta"
    /\ active' = IF e.block \in DOMAIN active
                   THEN [active EXCEPT ![e.block].json = Append(@, n)] ELSE active
    /\ UNCHANGED <<reason, usage, out, state>>

IsTool(b) == b \in DOMAIN active /\ active[b].type = "start_tool"

ContentBlockStop(e, n) ==
    /\ e.type = "stop"
    /\ IF IsTool(e.block) THEN YieldPartial(Call(active[e.block]))
                          ELSE UNCHANGED <<out, state>>
    /\ UNCHANGED <<active, reason, usage>>

\* Faulty: a message_delta without usage clears it.
MessageDeltaClears(e, n) ==
    /\ e.type = "message_delta"
    /\ reason' = n
    /\ usage' = IF e.usage THEN n ELSE 0
    /\ UNCHANGED <<active, out, state>>

MessageDelta(e, n) ==
    /\ e.type = "message_delta"
    /\ reason' = n
    /\ usage' = IF e.usage THEN n ELSE usage
    /\ UNCHANGED <<active, out, state>>

\* Faulty: the return is missing.
MessageStopGoesOn(e, n) ==
    /\ e.type = "message_stop"
    /\ out' = Append(out, Final(reason, usage))
    /\ UNCHANGED <<active, reason, usage, state>>

MessageStop(e, n) ==
    /\ e.type = "message_stop"
    /\ out' = Append(out, Final(reason, usage)) /\ state' = "final"
    /\ UNCHANGED <<active, reason, usage>>

\* message_start, ping and any type the switch does not name ("error" too).
Ignored(e, n) ==
    /\ e.type = "ping"
    /\ UNCHANGED <<active, reason, usage, out, state>>

Handle(e, n) == \/ ContentBlockStart(e, n) \/ TextDelta(e, n) \/ InputDelta(e, n)
                \/ ContentBlockStop(e, n) \/ MessageDelta(e, n) \/ MessageStop(e, n)
                \/ Ignored(e, n)

Receive ==
    /\ state = "reading" /\ Len(sent) < MaxEvents
    /\ \E e \in Events : /\ Allowed(sent, e)
                         /\ sent' = Append(sent, e)
                         /\ Handle(e, Len(sent) + 1)

\* An event that is not JSON, or an error of the reader.
Fail ==
    /\ state = "reading"
    /\ out' = Append(out, Error) /\ state' = "error"
    /\ UNCHANGED <<sent, active, reason, usage>>

\* The stream ends without message_stop: the iteration just ends.
End ==
    /\ state = "reading"
    /\ state' = "ended"
    /\ UNCHANGED <<sent, active, reason, usage, out>>

Next == Receive \/ Fail \/ End

Spec == Init /\ [][Next]_vars

-----------------------------------------------------------------------------
\* Of the events of s, the numbers of those of a type, of one block or of any.
Read(s, t)      == {i \in DOMAIN s : s[i].type = t}
ReadOf(s, t, b) == {i \in Read(s, t) : s[i].block = b}

Yielded(o, k) == {r \in DOMAIN o : o[r].kind = k}

\* Every piece of text reaches the consumer once and in order, whatever blocks
\* it is interleaved with.
Texts(o) == [r \in Yielded(o, "text") |-> o[r].from]
TextFaithful == Lists(Texts(out), Read(sent, "text_delta"))

\* Response r is the call of block b: its name and all its input, in order.
CallOf(r, s, b) == /\ r.from \in ReadOf(s, "start_tool", b)
                   /\ Lists(r.json, ReadOf(s, "input_json_delta", b))

\* The events that stopped a tool_use block.
Stops(s) == {i \in Read(s, "stop") : Had(s, "start_tool", s[i].block)}

\* The tool calls yielded are the tool_use blocks that stopped, in the order
\* in which they stopped, each with its own name and all its pieces of input.
CallsOf(o, s) ==
    /\ \A r \in Yielded(o, "call") : \E i \in Stops(s) : CallOf(o[r], s, s[i].block)
    /\ \A i \in Stops(s) : \E r \in Yielded(o, "call") : CallOf(o[r], s, s[i].block)
    /\ \A q, r \in Yielded(o, "call"), i, j \in Stops(s) :
          (q < r /\ CallOf(o[q], s, s[i].block) /\ CallOf(o[r], s, s[j].block)) => i < j
CallsFaithful == CallsOf(out, sent)

\* n is the last of the numbers in S, 0 if there is none.
IsLast(n, S) == IF S = {} THEN n = 0 ELSE n \in S /\ \A i \in S : i <= n

\* The final response carries the stop reason of the last message_delta and the
\* last usage that was sent, even when a later message_delta has none.
UpToDate(r, s) == /\ Read(s, "message_delta") # {} /\ IsLast(r.reason, Read(s, "message_delta"))
                  /\ IsLast(r.usage, {i \in DOMAIN s : s[i].usage})
FinalUpToDate == TypeOK /\ \A r \in Yielded(out, "final") : UpToDate(out[r], sent)

KindOf(r) == IF r.kind \in {"final", "error"} THEN r.kind ELSE "partial"
Kinds(o) == [i \in DOMAIN o |-> KindOf(o[i])]

Abstract == INSTANCE ResponseStream WITH given <- Kinds(out), over <- state # "reading"

\* The stream of responses has one ending at most and nothing after it.
ImplementsResponseStream == Abstract!Spec
=============================================================================
