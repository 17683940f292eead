-------------------------------- MODULE SSE --------------------------------
(***************************************************************************)
(* Read of internal/sse/reader.go, from lines to events, and the loop of   *)
(* the provider that takes them.                                           *)
(*                                                                         *)
(* A line is abstracted to its kind; what it carries is its line number,   *)
(* so an event is the number of the line its type comes from (0: none) and *)
(* the numbers of the lines its data was joined from.  A data line that is *)
(* empty once trimmed adds a newline (number 0) to data that is there and  *)
(* nothing to data that is not.  What is left of a line that a read error  *)
(* cut off has the line's number with a minus.  Of what a line says only   *)
(* this is told apart: whether it announces the end of the answer, the     *)
(* lines in closing (event: message_stop of Anthropic, data: [DONE] of     *)
(* OpenAI).                                                                *)
(***************************************************************************)
EXTENDS Integers, Sequences

CONSTANT MaxLines   \* bound: lines of one stream

ASSUME SSEAssumption == MaxLines \in Nat \ {0}

VARIABLES provider, \* "openai" or "anthropic"
          outcome,  \* of the provider's loop: "reading", "ended" (it has yielded
                    \* its final response), "left" (its consumer stopped), "error",
                    \* or "silent" (neither final response nor error)
          lines,  \* the stream
          closing,  \* the lines that announce the end of the answer
          pos,    \* lines scanned
          event,  \* the event being built
          out,    \* events yielded
          state   \* "scanning", "rest" (Scan returned FALSE), "failed", "stopped", "done"

vars == <<provider, outcome, lines, closing, pos, event, out, state>>

Kinds == {"blank", "event", "data", "emptyData", "other"}
SSEEvents == [type : Int, data : Seq(Int)]
NoEvent == [type |-> 0, data |-> <<>>]

\* Where a line of s can say that the answer is complete.
ClosingLines(p, s) ==
    {n \in DOMAIN s : s[n] = IF p = "anthropic" THEN "event" ELSE "data"}

TypeOK ==
    /\ lines \in Seq(Kinds) /\ Len(lines) <= MaxLines /\ pos \in 0..Len(lines)
    /\ event \in SSEEvents /\ out \in Seq(SSEEvents)
    /\ provider \in {"openai", "anthropic"}
    /\ closing \in SUBSET ClosingLines(provider, lines)
    /\ outcome \in {"reading", "ended", "left", "error", "silent"}
    /\ state \in {"scanning", "rest", "failed", "stopped", "done"}

Init == /\ lines \in UNION {[1..n -> Kinds] : n \in 0..MaxLines}
        /\ provider \in {"openai", "anthropic"} /\ outcome = "reading"
        /\ closing \in SUBSET ClosingLines(provider, lines)
        /\ pos = 0 /\ event = NoEvent /\ out = <<>> /\ state = "scanning"

\* Faulty: a data line replaces the data before it.
FieldOverwrites(k, n) ==
    CASE k = "event" -> [event EXCEPT !.type = n]
      [] k = "data"  -> [event EXCEPT !.data = <<n>>]
      [] OTHER -> event

\* event after line n, of kind k, other than a blank one.
Field(k, n) ==
    CASE k = "event" -> [event EXCEPT !.type = n]
      [] k = "data"  -> [event EXCEPT !.data = Append(@, n)]
      [] k = "emptyData" /\ event.data # <<>> -> [event EXCEPT !.data = Append(@, 0)]
      [] OTHER -> event

\* Faulty: only the data is cleared.
AfterYieldKeepsType == [event EXCEPT !.data = <<>>]

\* event after a yield.
AfterYield == NoEvent

\* Whether a part of the event's data is cut off.
Cut(ev) == \E i \in DOMAIN ev.data : ev.data[i] < 0

\* What Anthropic's loop does with an event, by its type: message_stop ends the
\* answer whatever its data, which is not parsed; a type that is missing, torn
\* or unknown is passed over; any other has its JSON parsed, and what comes of
\* it may be yielded.
ConsumeAnthropic(ev) ==
    IF ev.type \in closing THEN {"ended"}
    ELSE IF ev.type <= 0 THEN {"reading"}
    ELSE IF Cut(ev) THEN {"reading", "error"}
    ELSE {"reading", "error", "left"}

\* What OpenAI's loop does with it: [DONE] alone leaves the loop; all else has
\* to be JSON, which [DONE] beside other lines, or a part of a line, never is.
ConsumeOpenAI(ev) ==
    IF ev.data \in {<<n>> : n \in closing} THEN {"silent"}
    ELSE IF Cut(ev) \/ \E i \in DOMAIN ev.data : ev.data[i] \in closing THEN {"error"}
    ELSE {"reading", "ended", "error", "left"}

\* What the provider's loop does with an event.
Consume(ev) ==
    IF provider = "anthropic" THEN ConsumeAnthropic(ev) ELSE ConsumeOpenAI(ev)

\* One line of the loop.  A blank line yields the event if it has data, and
\* only then, if the provider goes on, starts a new one.
ScanLine ==
    LET n == pos + 1 IN
    /\ state = "scanning" /\ pos < Len(lines)
    /\ pos' = n
    /\ \/ /\ lines[n] = "blank" /\ event.data # <<>>
          /\ out' = Append(out, event)
          /\ outcome' \in Consume(event)
          /\ \/ outcome' = "reading" /\ event' = AfterYield /\ UNCHANGED state
             \/ outcome' # "reading" /\ state' = "stopped" /\ UNCHANGED event
       \/ /\ lines[n] = "blank" /\ event.data = <<>>
          /\ UNCHANGED <<event, out, state, outcome>>
       \/ /\ lines[n] # "blank"
          /\ event' = Field(lines[n], n)
          /\ UNCHANGED <<out, state, outcome>>
    /\ UNCHANGED <<lines, closing, provider>>

\* The stream ends.
EndOfStream ==
    /\ state = "scanning" /\ pos = Len(lines)
    /\ state' = "rest"
    /\ UNCHANGED <<lines, closing, pos, event, out, provider, outcome>>

\* A read error or a line that is too long.  On a read error the scanner still
\* returns the part of the line it has, which may be too short to say much.
ReadError ==
    /\ state = "scanning"
    /\ \/ UNCHANGED event
       \/ /\ pos < Len(lines) /\ lines[pos + 1] \in {"data", "event"}
          /\ event' = Field(lines[pos + 1], -(pos + 1))
       \/ /\ pos < Len(lines) /\ lines[pos + 1] = "data"
          /\ event' = Field("emptyData", pos + 1)
    /\ state' = "failed"
    /\ UNCHANGED <<lines, closing, pos, out, provider, outcome>>

\* Faulty: the end of the stream is taken for its end whatever the reason.
RestUnchecked ==
    /\ state \in {"rest", "failed"}
    /\ out' = IF event.data # <<>> THEN Append(out, event) ELSE out
    /\ \/ /\ event.data # <<>>
          /\ outcome' \in Consume(event) \ {"reading"}
          /\ state' = "stopped"
       \/ /\ event.data # <<>> => "reading" \in Consume(event)
          /\ outcome' = "silent"
          /\ state' = "done"
    /\ UNCHANGED <<lines, closing, pos, event, provider>>

\* After the loop: what remains is yielded; if the provider goes on after it,
\* the scanner's error is, if there is one.
Rest ==
    /\ state \in {"rest", "failed"}
    /\ out' = IF event.data # <<>> THEN Append(out, event) ELSE out
    /\ \/ /\ event.data # <<>>
          /\ outcome' \in Consume(event) \ {"reading"}
          /\ state' = "stopped"
       \/ /\ event.data # <<>> => "reading" \in Consume(event)
          /\ outcome' = IF state = "failed" THEN "error" ELSE "silent"
          /\ state' = "done"
    /\ UNCHANGED <<lines, closing, pos, event, provider>>

Next == ScanLine \/ EndOfStream \/ ReadError \/ Rest

Spec == Init /\ [][Next]_vars

-----------------------------------------------------------------------------
\* Line i and line j of s are in the same block: no blank line between them.
SameBlock(s, i, j) ==
    \A k \in DOMAIN s : (i < k /\ k < j) \/ (j < k /\ k < i) => s[k] # "blank"

\* The data lines among the first p of s.
DataLines(s, p) == {n \in 1..p : s[n] = "data"}

\* The data lines that are whole in ev, by the places of its data.
Places(ev) == {a \in DOMAIN ev.data : ev.data[a] > 0}
Held(ev)   == {ev.data[a] : a \in Places(ev)}

\* The events evs hold the lines S between them, each once and in order.
Carry(evs, S) ==
    /\ UNION {Held(evs[i]) : i \in DOMAIN evs} = S
    /\ \A i \in DOMAIN evs : \A a, b \in Places(evs[i]) :
          a < b => evs[i].data[a] < evs[i].data[b]
    /\ \A i, j \in DOMAIN evs : \A m \in Held(evs[i]), n \in Held(evs[j]) :
          i < j => m < n

\* The event being built, which becomes the last to be yielded.
Building == state \in {"scanning", "rest", "failed"}

\* No data line is lost, repeated or reordered, and a blank line is never
\* crossed: each event holds the data lines of one block.
DataIntact ==
    /\ TypeOK
    /\ Carry(IF Building THEN Append(out, event) ELSE out, DataLines(lines, pos))
    /\ \A i \in DOMAIN out : \A a, b \in Held(out[i]) : SameBlock(lines, a, b)

\* Whether the stream s gives data to every block that has a type.
EveryTypeHasData(s) ==
    \A d \in DOMAIN s : s[d] = "event" =>
        \E k \in DOMAIN s : s[k] = "data" /\ SameBlock(s, d, k)

\* The event that a read error has left a part of.
Torn(ev) == Cut(ev) \/ ev.type < 0

\* The type of ev is the last event line of its block among the first p of s;
\* in streams like those of the two providers, where every typed block has
\* data, it is never taken over from another block.
OwnType(ev, s, p) ==
    ~Torn(ev) => \A n \in Held(ev) :
        /\ \A d \in 1..p : (s[d] = "event" /\ SameBlock(s, d, n)) => ev.type >= d
        /\ (EveryTypeHasData(s) /\ ev.type # 0) => SameBlock(s, ev.type, n)

\* Every event that Read yields has the type of the block its data is from.
TypeOfItsBlock == \A i \in DOMAIN out : OwnType(out[i], lines, pos)

\* Whether ev makes its provider yield the final response: Anthropic's by its
\* type alone, OpenAI's by a whole chunk.
Announces(ev) == IF provider = "anthropic" THEN ev.type \in closing ELSE ~Cut(ev)

\* A stream that breaks off is reported as an error, even though the reader
\* first yields what it has, with a torn last line in it, unless that very event
\* ends the answer: it has the final response in it, or it is OpenAI's [DONE],
\* which leaves the loop without asking for the scanner's error.  And no text is
\* ever yielded of JSON that is cut off.
BreakReported ==
    [][state = "failed" =>
         /\ outcome' # "reading"
         /\ outcome' = "ended"  => Announces(event)
         /\ outcome' = "left"   => ~Cut(event)
         /\ outcome' = "silent" => /\ provider = "openai"
                                   /\ \E n \in closing : event.data = <<n>>]_vars
=============================================================================
