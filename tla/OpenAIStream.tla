---------------------------- MODULE OpenAIStream ----------------------------
(***************************************************************************)
(* generateStreaming of internal/runtime/providers/openai/openai.go from   *)
(* the first SSE event on: text deltas are passed on at once, tool-call    *)
(* deltas are accumulated by index until a chunk has a finish reason, and  *)
(* the consumer may stop after any text.                                   *)
(*                                                                         *)
(* The server is the environment.  It follows the protocol (Protocol       *)
(* below), but its stream may be cut anywhere.  A chunk has any number of  *)
(* tool-call deltas, one for a call.  A piece of text, a name and a        *)
(* fragment of arguments are the number of the chunk they come in.         *)
(***************************************************************************)
EXTENDS Naturals, Sequences, Lists

CONSTANTS MaxChunks,  \* bound: chunks of one stream
          Calls       \* bound: indices of the tool calls of one stream (1..n)

ASSUME StreamAssumption == MaxChunks \in Nat \ {0} /\ Calls \subseteq Nat \ {0}

VARIABLES script,  \* what the server sends
          pos,     \* how many chunks were read
          calls,   \* toolCalls, the accumulators by index (i of the code is i + 1)
          usage,   \* finalUsage: the chunk it came with, 0 for nil
          out,     \* the responses yielded
          state    \* "reading", "stopped", "ended" (EOF or [DONE]), "final", "error"

vars == <<script, pos, calls, usage, out, state>>

(***************************************************************************)
(* The server.  deltas: the indices of the chunk's tool-call deltas;       *)
(* finish: the choice has a finish reason.                                 *)
(***************************************************************************)
Chunks ==
    {c \in [choice : BOOLEAN, text : BOOLEAN, deltas : SUBSET Calls, finish : BOOLEAN,
             usage : BOOLEAN] :
        /\ ~c.choice => ~c.text /\ c.deltas = {} /\ ~c.finish
        /\ c.choice => c.text \/ c.finish \/ c.deltas # {}
        /\ c.usage => c.finish \/ ~c.choice}

\* The chunk that has nothing but the usage.
IsTally(c) == c.usage /\ ~c.choice

\* The calls that have begun with chunk n of s, and those that begin in it, whose
\* deltas have an ID and a name.
Begun(s, n) == UNION {s[i].deltas : i \in 1..n}
Named(s, n) == s[n].deltas \ Begun(s, n - 1)

\* Calls begin in the order of their indices, with none left out, and after the
\* finish reason only the tally of the usage may follow.
Protocol(s) ==
    \A i \in DOMAIN s :
        /\ \E k \in Calls \cup {0} : Begun(s, i) = 1..k
        /\ s[i].finish => \A j \in (i + 1)..Len(s) : IsTally(s[j])
        /\ IsTally(s[i]) => i = Len(s)

Scripts == {s \in UNION {[1..n -> Chunks] : n \in 0..MaxChunks} : Protocol(s)}

(***************************************************************************)
(* The provider.                                                           *)
(***************************************************************************)
\* Responses.
Text(n)      == [kind |-> "text",  text |-> n, calls |-> <<>>, usage |-> 0]
Final(cs, u) == [kind |-> "final", text |-> 0, calls |-> cs,   usage |-> u]
Error        == [kind |-> "error", text |-> 0, calls |-> <<>>, usage |-> 0]

ToolCalls == Seq([name : Nat, args : Seq(Nat)])
Responses == [kind : {"text", "final", "error"}, text : Nat, calls : ToolCalls, usage : Nat]

TypeOK ==
    /\ script \in Scripts /\ pos \in 0..Len(script)
    /\ calls \in ToolCalls /\ usage \in Nat
    /\ out \in Seq(Responses)
    /\ state \in {"reading", "stopped", "ended", "final", "error"}

Init == /\ script \in Scripts
        /\ pos = 0 /\ calls = <<>> /\ usage = 0 /\ out = <<>> /\ state = "reading"

\* Faulty: the arguments of a delta replace those before it.
AccumulateOverwrites(n) ==
    [i \in DOMAIN calls \cup UNION {1..d : d \in script[n].deltas} |->
        IF i \notin script[n].deltas THEN calls[i]
        ELSE [name |-> IF i \in Named(script, n) THEN n ELSE calls[i].name, args |-> <<n>>]]

NoCall == [name |-> 0, args |-> <<>>]

\* The loop over delta.ToolCalls of chunk n: the slice is extended to hold the
\* index, a name that is not empty is set, the arguments are appended.
Accumulate(n) ==
    [i \in DOMAIN calls \cup UNION {1..d : d \in script[n].deltas} |->
        LET a == IF i \in DOMAIN calls THEN calls[i] ELSE NoCall
        IN  IF i \notin script[n].deltas THEN a
            ELSE [name |-> IF i \in Named(script, n) THEN n ELSE a.name,
                  args |-> Append(a.args, n)]]

\* Faulty: a chunk is either text or a tool call.
WithTextExclusive(c, n) == IF c.text /\ c.deltas = {} THEN Append(out, Text(n)) ELSE out

\* The text of a chunk is yielded at once.
WithText(c, n) == IF c.text THEN Append(out, Text(n)) ELSE out

\* One chunk.  The usage is taken first; a chunk without choices does nothing
\* else; a consumer that stops at the text ends the iteration there; a
\* finish reason yields the final response and returns.
Receive ==
    LET n  == pos + 1
        c  == script[n]
        u  == IF c.usage THEN n ELSE usage
        cs == Accumulate(n)
        o  == WithText(c, n)
    IN
    /\ state = "reading" /\ pos < Len(script)
    /\ pos' = n /\ usage' = u
    /\ \/ ~c.choice /\ UNCHANGED <<calls, out, state>>
       \/ c.choice /\ c.text /\ out' = o /\ state' = "stopped" /\ UNCHANGED calls
       \/ c.choice /\ ~c.finish /\ calls' = cs /\ out' = o /\ UNCHANGED state
       \/ c.choice /\ c.finish /\ calls' = cs /\ out' = Append(o, Final(cs, u)) /\ state' = "final"
    /\ UNCHANGED script

\* Faulty: the return after the error is missing.
FailGoesOn ==
    /\ state = "reading"
    /\ out' = Append(out, Error)
    /\ UNCHANGED <<script, pos, calls, usage, state>>

\* A chunk that is not JSON, or an error of the reader.
Fail ==
    /\ state = "reading"
    /\ out' = Append(out, Error) /\ state' = "error"
    /\ UNCHANGED <<script, pos, calls, usage>>

\* [DONE], or the end of the stream: the iteration just ends.
End ==
    /\ state = "reading" /\ pos = Len(script)
    /\ state' = "ended"
    /\ UNCHANGED <<script, pos, calls, usage, out>>

Next == Receive \/ Fail \/ End

Spec == Init /\ [][Next]_vars

-----------------------------------------------------------------------------
\* Of the first n chunks of s, those with text and those with a delta of call c.
TextIn(s, n)      == {i \in 1..n : s[i].text}
DeltasIn(c, s, n) == {i \in 1..n : c \in s[i].deltas}

\* Every piece of text reaches the consumer once and in order, whatever tool
\* calls, usage or empty chunks come in between.
Texts(o) == [r \in {i \in DOMAIN o : o[i].kind = "text"} |-> o[r].text]
TextFaithful ==
    /\ TypeOK
    /\ Lists(Texts(out), TextIn(script, pos))

\* cs has every tool call of the first n chunks of s, each with the name of its
\* first delta and the arguments of all its deltas in order.
Complete(cs, s, n) ==
    /\ DOMAIN cs = Begun(s, n)
    /\ \A c \in DOMAIN cs :
          /\ Lists(cs[c].args, DeltasIn(c, s, n))
          /\ cs[c].name \in DeltasIn(c, s, n) /\ \A i \in DeltasIn(c, s, n) : cs[c].name <= i

\* The final response has every tool call of the stream, each with its own
\* name and all its argument fragments in order, however they interleave.
ToolCallsComplete ==
    \A r \in DOMAIN out : out[r].kind = "final" => Complete(out[r].calls, script, pos)

KindOf(r) == IF r.kind = "text" THEN "partial" ELSE r.kind
Kinds(o) == [i \in DOMAIN o |-> KindOf(o[i])]

Abstract == INSTANCE ResponseStream WITH given <- Kinds(out), over <- state # "reading"

\* The stream of responses has one ending at most and nothing after it, and a
\* consumer that stopped gets nothing more.
ImplementsResponseStream == Abstract!Spec

\* openai.go: "Capture usage from the final chunk (requires
\* stream_options.include_usage)".
UsageCaptured ==
    \A r \in DOMAIN out :
        (out[r].kind = "final" /\ \E i \in DOMAIN script : script[i].usage) => out[r].usage # 0
=============================================================================
