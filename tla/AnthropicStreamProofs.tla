----------------------- MODULE AnthropicStreamProofs -----------------------
(***************************************************************************)
(* Proofs about AnthropicStream for streams of any length and any number   *)
(* of content blocks: what reaches the consumer is what the server sent,   *)
(* and the responses are a ResponseStream.                                 *)
(***************************************************************************)
EXTENDS AnthropicStream, SequenceTheorems, TLAPS

\* What the order of the events makes sure of: a block is of one type and has
\* started before it stops, and only tool_use blocks have input.
Ordered(s) ==
    \A b \in 1..Blocks : /\ Had(s, "stop", b) => Started(s, b)
                         /\ ~(Had(s, "start_text", b) /\ Had(s, "start_tool", b))
                         /\ Had(s, "input_json_delta", b) => Had(s, "start_tool", b)

\* activeBlocks has the blocks that started, and the tool calls among them with
\* their name and their input so far.
Accumulated(a, s) ==
    /\ \A b \in 1..Blocks : b \in DOMAIN a <=> Started(s, b)
    /\ \A b \in DOMAIN a :
          /\ a[b].type = "start_tool" <=> Had(s, "start_tool", b)
          /\ a[b].type = "start_tool" =>
                /\ a[b].name \in ReadOf(s, "start_tool", b)
                /\ Lists(a[b].json, ReadOf(s, "input_json_delta", b))

Usages(s) == {i \in DOMAIN s : s[i].usage}

\* Besides the properties to be proved: the state of the loop is what the events
\* so far make it, and the loop does not run on after a final response.
IInv ==
    /\ TypeOK /\ Ordered(sent) /\ Accumulated(active, sent)
    /\ IsLast(reason, Read(sent, "message_delta")) /\ IsLast(usage, Usages(sent))
    /\ TextFaithful /\ CallsFaithful /\ FinalUpToDate
    /\ \A r \in Yielded(out, "final") : state = "final"

-----------------------------------------------------------------------------
\* append of Go: what was there stays, the new element is the last.
LEMMA AppendFacts ==
    ASSUME NEW S, NEW s \in Seq(S), NEW e \in S
    PROVE  /\ Append(s, e) \in Seq(S) /\ Len(s) \in Nat
           /\ DOMAIN s = 1..Len(s) /\ DOMAIN Append(s, e) = DOMAIN s \cup {Len(s) + 1}
           /\ Append(s, e)[Len(s) + 1] = e
           /\ \A i \in DOMAIN s : i \in Nat /\ i < Len(s) + 1 /\ Append(s, e)[i] = s[i]
  OBVIOUS

\* A list goes on in ascending order with a number that is greater than all
\* that it lists.
LEMMA ListMore ==
    ASSUME NEW f, NEW S \in SUBSET Nat, DOMAIN f \subseteq Nat, Lists(f, S),
           NEW k \in Nat, \A i \in DOMAIN f : i < k,
           NEW n \in Nat, \A m \in S : m < n,
           NEW g, DOMAIN g = DOMAIN f \cup {k}, g[k] = n, \A i \in DOMAIN f : g[i] = f[i]
    PROVE  Lists(g, S \cup {n})
<1>1. \A i \in DOMAIN f : f[i] \in S
  BY DEF Lists
<1>2. {g[i] : i \in DOMAIN g} = S \cup {n}
  <2>1. \A x \in {g[i] : i \in DOMAIN g} : x \in S \cup {n}
    BY <1>1
  <2>2. \A x \in S : \E i \in DOMAIN f : x = f[i]
    BY DEF Lists
  <2>3. \A x \in S \cup {n} : \E i \in DOMAIN g : x = g[i]
    BY <2>2
  <2>. QED  BY <2>1, <2>3
<1>3. ASSUME NEW i \in DOMAIN g, NEW j \in DOMAIN g, i < j PROVE g[i] < g[j]
  <2>1. i \in DOMAIN f
    BY <1>3
  <2>2. CASE j = k
    BY <1>1, <2>1, <2>2
  <2>3. CASE j # k
    BY <1>3, <2>1, <2>3 DEF Lists
  <2>. QED  BY <2>2, <2>3
<1>. QED  BY <1>2, <1>3 DEF Lists

\* Events are numbered as they come.
LEMMA OneMoreEvent ==
    ASSUME NEW s \in Seq(Events), NEW e \in Events
    PROVE  /\ Append(s, e) \in Seq(Events) /\ Len(s) + 1 \in Nat
           /\ DOMAIN s \subseteq Nat /\ \A i \in DOMAIN s : i < Len(s) + 1
           /\ DOMAIN Append(s, e) = DOMAIN s \cup {Len(s) + 1}
           /\ Append(s, e)[Len(s) + 1] = e
           /\ \A i \in DOMAIN s : Append(s, e)[i] = s[i]
           /\ \A t : Read(Append(s, e), t) =
                       IF e.type = t THEN Read(s, t) \cup {Len(s) + 1} ELSE Read(s, t)
           /\ \A t, b : ReadOf(Append(s, e), t, b) =
                       IF e.type = t /\ e.block = b
                         THEN ReadOf(s, t, b) \cup {Len(s) + 1} ELSE ReadOf(s, t, b)
           /\ \A t, b : Had(Append(s, e), t, b) <=> Had(s, t, b) \/ (e.type = t /\ e.block = b)
           /\ Usages(Append(s, e)) = IF e.usage THEN Usages(s) \cup {Len(s) + 1} ELSE Usages(s)
<1>. DEFINE n == Len(s) + 1
            p == Append(s, e)
<1>1. /\ p \in Seq(Events) /\ n \in Nat /\ DOMAIN s \subseteq Nat /\ n \notin DOMAIN s
      /\ DOMAIN p = DOMAIN s \cup {n} /\ p[n] = e
      /\ \A i \in DOMAIN s : i < n /\ p[i] = s[i]
  BY AppendFacts
<1>. HIDE DEF n, p
<1>2. \A t : Read(p, t) = IF e.type = t THEN Read(s, t) \cup {n} ELSE Read(s, t)
  BY <1>1 DEF Read
<1>3. \A t, b : ReadOf(p, t, b) = IF e.type = t /\ e.block = b
                                   THEN ReadOf(s, t, b) \cup {n} ELSE ReadOf(s, t, b)
  BY <1>1 DEF Read, ReadOf
<1>4. \A t, b : Had(p, t, b) <=> Had(s, t, b) \/ (e.type = t /\ e.block = b)
  BY <1>1 DEF Had
<1>5. Usages(p) = IF e.usage THEN Usages(s) \cup {n} ELSE Usages(s)
  BY <1>1 DEF Usages
<1>. QED  BY <1>1, <1>2, <1>3, <1>4, <1>5 DEF n, p

\* The events that were read, by their numbers.
LEMMA ReadFacts ==
    ASSUME NEW s \in Seq(Events), NEW t
    PROVE  /\ Read(s, t) \in SUBSET Nat /\ \A i \in Read(s, t) : i < Len(s) + 1
           /\ \A b : /\ ReadOf(s, t, b) \in SUBSET Nat
                     /\ \A i \in ReadOf(s, t, b) : i < Len(s) + 1
                     /\ Had(s, t, b) <=> ReadOf(s, t, b) # {}
           /\ Usages(s) \in SUBSET Nat /\ \A i \in Usages(s) : i < Len(s) + 1
<1>1. Len(s) \in Nat /\ DOMAIN s = 1..Len(s)
  OBVIOUS
<1>. QED  BY <1>1 DEF Read, ReadOf, Had, Usages

\* An event of a block has its index, the others have none.
LEMMA EventFacts ==
    ASSUME NEW e \in Events
    PROVE  /\ e.type \in BlockEvents => e.block \in 1..Blocks
           /\ e.type \in BlockEvents \cup {"message_delta", "message_stop", "ping"}
           /\ e.usage => e.type = "message_delta"
<1>1. e \in [type : BlockEvents \cup {"message_delta", "message_stop", "ping"},
             block : 0..Blocks, usage : BOOLEAN]
  BY DEF Events
<1>2. e.block \in 0..Blocks /\ e.type \in BlockEvents \cup {"message_delta", "message_stop", "ping"}
  BY <1>1
<1>3. /\ e.block # 0 <=> e.type \in BlockEvents
      /\ e.usage => e.type = "message_delta"
  BY DEF Events
<1>4. Blocks \in Nat
  BY AnthropicAssumption
<1>5. e.block # 0 => e.block \in 1..Blocks
  BY <1>2, <1>4
<1>. QED  BY <1>2, <1>3, <1>5

\* The next event keeps the order.
LEMMA StaysOrdered ==
    ASSUME NEW s \in Seq(Events), NEW e \in Events, Ordered(s), Allowed(s, e)
    PROVE  Ordered(Append(s, e))
<1>. DEFINE p == Append(s, e)
<1>1. \A t, b : Had(p, t, b) <=> Had(s, t, b) \/ (e.type = t /\ e.block = b)
  BY OneMoreEvent
<1>2. e.type = "stop" => Started(s, e.block)
  BY DEF Allowed, Running
<1>3. e.type \in {"start_text", "start_tool"} => ~Started(s, e.block)
  BY DEF Allowed
<1>4. e.type = "input_json_delta" => Had(s, "start_tool", e.block)
  BY DEF Allowed
<1>. HIDE DEF p
<1>5. Ordered(p)
  BY <1>1, <1>2, <1>3, <1>4 DEF Ordered, Started
<1>. QED  BY <1>5 DEF p

-----------------------------------------------------------------------------
\* What the handling of an event does to activeBlocks keeps it accumulated.
LEMMA StaysAccumulated ==
    ASSUME NEW s \in Seq(Events), NEW e \in Events, Ordered(s), Allowed(s, e),
           active \in Seq(ActiveBlocks), Len(active) <= Blocks, Accumulated(active, s),
           Handle(e, Len(s) + 1)
    PROVE  /\ active' \in Seq(ActiveBlocks) /\ Len(active') <= Blocks
           /\ Accumulated(active', Append(s, e))
<1>. DEFINE n == Len(s) + 1
            p == Append(s, e)
            b == e.block
            T == ActiveBlocks
<1>1. /\ n \in Nat /\ \A t, d : Had(p, t, d) <=> Had(s, t, d) \/ (e.type = t /\ b = d)
      /\ \A t, d : ReadOf(p, t, d) = IF e.type = t /\ b = d THEN ReadOf(s, t, d) \cup {n}
                                                         ELSE ReadOf(s, t, d)
  BY OneMoreEvent
<1>2. /\ e.type \in BlockEvents => b \in 1..Blocks
      /\ e.type \in BlockEvents \cup {"message_delta", "message_stop", "ping"}
  BY EventFacts
<1>3. active \in Seq(T) /\ Len(active) \in Nat /\ DOMAIN active = 1..Len(active)
  OBVIOUS
<1>4. \A d \in DOMAIN active : d \in 1..Blocks /\ active[d] \in T
  <2>. HIDE DEF T
  <2>1. \A d \in DOMAIN active : active[d] \in T
    BY <1>3
  <2>2. \A d \in DOMAIN active : d \in 1..Blocks
    BY <1>3, AnthropicAssumption
  <2>. QED  BY <2>1, <2>2
<1>. HIDE DEF n, p
<1>5. CASE e.type \in {"start_text", "start_tool"}
  <2>. DEFINE blk == [type |-> e.type, name |-> n, json |-> <<>>]
  <2>1. /\ b \in 1..Blocks /\ ~Started(s, b) /\ (b > 1 => Started(s, b - 1))
        /\ b \notin DOMAIN active
    BY <1>2, <1>5 DEF BlockEvents, Allowed, Accumulated
  <2>2. b = Len(active) + 1
    <3>1. b > 1 => b - 1 \in DOMAIN active
      BY <2>1, AnthropicAssumption DEF Accumulated
    <3>. QED  BY <1>3, <2>1, <3>1
  <2>3. active' = [i \in 1..b |-> IF i = b THEN blk ELSE active[i]]
    <3>1. active' = Opened(e, n)
      BY <1>5 DEF Handle, ContentBlockStart, TextDelta, InputDelta, ContentBlockStop,
                  MessageDelta, MessageStop, Ignored, n
    <3>2. (IF b > Len(active) THEN b ELSE Len(active)) = b
      BY <1>3, <2>2
    <3>3. \A i \in 1..b : i # b => i <= Len(active)
      BY <1>3, <2>2
    <3>. QED  BY <3>1, <3>2, <3>3 DEF Opened
  <2>4. blk \in T /\ blk.type = e.type /\ blk.name = n /\ blk.json = <<>>
    BY <1>1, <1>5 DEF ActiveBlocks
  <2>. HIDE DEF blk, T
  <2>5. /\ DOMAIN active' = 1..b /\ active'[b] = blk
        /\ \A d \in DOMAIN active : d # b /\ active'[d] = active[d]
    BY <1>3, <2>2, <2>3
  <2>6. active' \in Seq(T) /\ Len(active') = b
    <3>1. \A d \in 1..b : active'[d] \in T
      BY <1>3, <1>4, <2>2, <2>4, <2>5
    <3>2. active' \in [1..b -> T]
      BY <2>3, <2>5, <3>1
    <3>. QED  BY <1>3, <2>2, <3>2, SeqDef
  <2>7. \A d \in 1..Blocks : d \in DOMAIN active' <=> Started(p, d)
    <3>1. \A d \in 1..Blocks : Started(p, d) <=> Started(s, d) \/ d = b
      BY <1>1, <1>5 DEF Started
    <3>2. \A d \in 1..Blocks : d \in DOMAIN active' <=> d \in DOMAIN active \/ d = b
      BY <1>3, <2>2, <2>5
    <3>. QED  BY <3>1, <3>2 DEF Accumulated
  <2>8. /\ blk.type = "start_tool" <=> Had(p, "start_tool", b)
        /\ blk.type = "start_tool" =>
              /\ blk.name \in ReadOf(p, "start_tool", b)
              /\ Lists(blk.json, ReadOf(p, "input_json_delta", b))
    <3>1. ~Had(s, "start_tool", b) /\ ~Had(s, "input_json_delta", b)
      BY <2>1 DEF Started, Ordered
    <3>2. ReadOf(p, "input_json_delta", b) = {}
      BY <1>1, <1>5, <3>1, ReadFacts
    <3>3. Lists(<<>>, {})
      BY DEF Lists
    <3>. QED  BY <1>1, <1>5, <2>4, <3>1, <3>2, <3>3
  <2>9. \A d \in DOMAIN active :
          /\ Had(p, "start_tool", d) <=> Had(s, "start_tool", d)
          /\ ReadOf(p, "start_tool", d) = ReadOf(s, "start_tool", d)
          /\ ReadOf(p, "input_json_delta", d) = ReadOf(s, "input_json_delta", d)
    BY <1>1, <2>5
  <2>10. \A d \in DOMAIN active' : d = b \/ d \in DOMAIN active
    BY <1>3, <2>2, <2>5
  <2>11. Accumulated(active', p)
    BY <2>5, <2>7, <2>8, <2>9, <2>10 DEF Accumulated
  <2>. QED  BY <2>1, <2>6, <2>11, AnthropicAssumption DEF T, p
<1>6. CASE e.type = "input_json_delta"
  <2>1. Had(s, "start_tool", b) /\ b \in 1..Blocks
    BY <1>2, <1>6 DEF Allowed, BlockEvents
  <2>2. b \in DOMAIN active
    BY <2>1 DEF Accumulated, Started
  <2>3. active' = [active EXCEPT ![b].json = Append(@, n)]
    BY <1>6, <2>2 DEF Handle, ContentBlockStart, TextDelta, InputDelta, ContentBlockStop,
                MessageDelta, MessageStop, Ignored, n
  <2>. DEFINE f == active[b].json
              g == Append(f, n)
              blk == [active[b] EXCEPT !.json = g]
  <2>4. active' = [active EXCEPT ![b] = blk]
    BY <2>3
  <2>5. f \in Seq(Nat)
    BY <1>4, <2>2 DEF ActiveBlocks
  <2>6. g \in Seq(Nat)
    BY <1>1, <2>5
  <2>. HIDE DEF g
  <2>7. blk \in T /\ blk.type = active[b].type /\ blk.name = active[b].name /\ blk.json = g
    BY <1>4, <2>2, <2>6 DEF ActiveBlocks
  <2>. HIDE DEF blk, T, f
  <2>8. active' \in Seq(T) /\ Len(active') = Len(active)
    BY <1>3, <2>2, <2>4, <2>7, ExceptSeq
  <2>9. /\ DOMAIN active' = DOMAIN active /\ active'[b] = blk
        /\ \A d \in DOMAIN active : d # b => active'[d] = active[d]
    BY <2>2, <2>4
  <2>10. Lists(g, ReadOf(p, "input_json_delta", b))
    <3>. DEFINE S == ReadOf(s, "input_json_delta", b)
    <3>1. S \in SUBSET Nat /\ \A m \in S : m < n
      BY ReadFacts DEF n
    <3>2. Lists(f, S)
      BY <2>1, <2>2 DEF Accumulated, f
    <3>3. /\ DOMAIN f \subseteq Nat /\ Len(f) + 1 \in Nat /\ \A i \in DOMAIN f : i < Len(f) + 1
          /\ DOMAIN g = DOMAIN f \cup {Len(f) + 1} /\ g[Len(f) + 1] = n
          /\ \A i \in DOMAIN f : g[i] = f[i]
      BY <1>1, <2>5, AppendFacts DEF g
    <3>4. ReadOf(p, "input_json_delta", b) = S \cup {n}
      BY <1>1, <1>6
    <3>. HIDE DEF S
    <3>5. Lists(g, S \cup {n})
      BY <1>1, <3>1, <3>2, <3>3, ListMore
    <3>. QED  BY <3>4, <3>5
  <2>11. \A d : /\ Started(p, d) <=> Started(s, d)
                /\ Had(p, "start_tool", d) <=> Had(s, "start_tool", d)
                /\ ReadOf(p, "start_tool", d) = ReadOf(s, "start_tool", d)
                /\ d # b => ReadOf(p, "input_json_delta", d) = ReadOf(s, "input_json_delta", d)
    BY <1>1, <1>6 DEF Started
  <2>12. Accumulated(active', p)
    BY <2>7, <2>9, <2>10, <2>11 DEF Accumulated
  <2>. QED  BY <2>8, <2>12 DEF T, p
<1>7. CASE e.type \notin {"start_text", "start_tool", "input_json_delta"}
  <2>1. active' = active
    BY <1>7 DEF Handle, ContentBlockStart, TextDelta, InputDelta, ContentBlockStop,
                MessageDelta, MessageStop, Ignored
  <2>2. \A d : /\ Started(p, d) <=> Started(s, d)
               /\ Had(p, "start_tool", d) <=> Had(s, "start_tool", d)
               /\ ReadOf(p, "start_tool", d) = ReadOf(s, "start_tool", d)
               /\ ReadOf(p, "input_json_delta", d) = ReadOf(s, "input_json_delta", d)
    BY <1>1, <1>7 DEF Started
  <2>3. Accumulated(active, p)
    BY <2>2 DEF Accumulated
  <2>. QED  BY <2>1, <2>3 DEF p
<1>. QED  BY <1>5, <1>6, <1>7

-----------------------------------------------------------------------------
\* An event that does not stop a tool call, and no call yielded for it.
LEMMA CallsStay ==
    ASSUME NEW s \in Seq(Events), NEW e \in Events, Ordered(s), Allowed(s, e),
           ~(e.type = "stop" /\ Had(s, "start_tool", e.block)),
           NEW o, CallsOf(o, s), NEW q, Yielded(q, "call") = Yielded(o, "call"),
           \A r \in Yielded(o, "call") : q[r] = o[r]
    PROVE  CallsOf(q, Append(s, e))
<1>. DEFINE n == Len(s) + 1
            p == Append(s, e)
<1>1. /\ DOMAIN p = DOMAIN s \cup {n} /\ p[n] = e /\ n \notin DOMAIN s
      /\ \A i \in DOMAIN s : p[i] = s[i]
      /\ \A t, d : Had(p, t, d) <=> Had(s, t, d) \/ (e.type = t /\ e.block = d)
      /\ \A t, d : ReadOf(p, t, d) = IF e.type = t /\ e.block = d THEN ReadOf(s, t, d) \cup {n}
                                                               ELSE ReadOf(s, t, d)
  BY OneMoreEvent
<1>. HIDE DEF n, p
<1>2. ASSUME NEW i \in DOMAIN s, s[i].type = "stop"
      PROVE  /\ Started(s, s[i].block) /\ Had(s, "stop", s[i].block)
  <2>1. s[i] \in Events /\ s[i].block \in 1..Blocks
    BY <1>2, ElementOfSeq, EventFacts DEF BlockEvents
  <2>2. Had(s, "stop", s[i].block)
    BY <1>2 DEF Had
  <2>. QED  BY <2>1, <2>2 DEF Ordered
<1>3. Stops(p) = Stops(s)
  <2>1. \A i \in Stops(s) : i \in Stops(p)
    BY <1>1 DEF Stops, Read
  <2>2. ASSUME NEW i \in Stops(p) PROVE i \in Stops(s)
    <3>1. i # n
      BY <1>1 DEF Stops, Read
    <3>2. i \in DOMAIN s /\ s[i].type = "stop" /\ Had(p, "start_tool", s[i].block)
      BY <1>1, <3>1 DEF Stops, Read
    <3>3. Had(s, "start_tool", s[i].block)
      BY <1>1, <1>2, <3>2 DEF Allowed
    <3>. QED  BY <3>2, <3>3 DEF Stops, Read
  <2>. QED  BY <2>1, <2>2
<1>4. ASSUME NEW i \in Stops(s), NEW r
      PROVE  p[i].block = s[i].block /\ (CallOf(r, p, s[i].block) <=> CallOf(r, s, s[i].block))
  <2>1. i \in DOMAIN s /\ s[i].type = "stop"
    BY DEF Stops, Read
  <2>2. Started(s, s[i].block) /\ Had(s, "stop", s[i].block)
    BY <1>2, <2>1
  <2>3. ~(e.type \in {"start_tool", "input_json_delta"} /\ e.block = s[i].block)
    BY <2>2 DEF Allowed, Running
  <2>4. /\ ReadOf(p, "start_tool", s[i].block) = ReadOf(s, "start_tool", s[i].block)
        /\ ReadOf(p, "input_json_delta", s[i].block) = ReadOf(s, "input_json_delta", s[i].block)
    BY <1>1, <2>3
  <2>. QED  BY <1>1, <2>1, <2>4 DEF CallOf
<1>5. CallsOf(q, p)
  <2>1. \A r \in Yielded(q, "call"), i \in Stops(p) :
           CallOf(q[r], p, p[i].block) <=> CallOf(o[r], s, s[i].block)
    BY <1>3, <1>4
  <2>2. ASSUME NEW r \in Yielded(q, "call")
        PROVE  \E i \in Stops(p) : CallOf(q[r], p, p[i].block)
    BY <1>3, <2>1 DEF CallsOf
  <2>3. ASSUME NEW i \in Stops(p)
        PROVE  \E r \in Yielded(q, "call") : CallOf(q[r], p, p[i].block)
    BY <1>3, <2>1 DEF CallsOf
  <2>4. ASSUME NEW g \in Yielded(q, "call"), NEW h \in Yielded(q, "call"),
               NEW i \in Stops(p), NEW j \in Stops(p), g < h,
               CallOf(q[g], p, p[i].block), CallOf(q[h], p, p[j].block)
        PROVE  i < j
    BY <1>3, <2>1, <2>4 DEF CallsOf
  <2>. QED  BY <2>2, <2>3, <2>4 DEF CallsOf
<1>. QED  BY <1>5 DEF p

\* A tool_use block stops and its call is yielded.
LEMMA CallYielded ==
    ASSUME NEW s \in Seq(Events), NEW e \in Events, Ordered(s), Allowed(s, e),
           e.type = "stop", Had(s, "start_tool", e.block),
           NEW o \in Seq(Responses), CallsOf(o, s),
           NEW c \in Responses, c.kind = "call", CallOf(c, s, e.block)
    PROVE  CallsOf(Append(o, c), Append(s, e))
<1>. DEFINE n == Len(s) + 1
            p == Append(s, e)
            k == Len(o) + 1
            q == Append(o, c)
            B(i) == p[i].block
<1>1. /\ n \in Nat /\ DOMAIN s \subseteq Nat /\ DOMAIN p = DOMAIN s \cup {n} /\ p[n] = e
      /\ \A i \in DOMAIN s : i < n /\ p[i] = s[i]
      /\ \A d : Had(p, "start_tool", d) <=> Had(s, "start_tool", d)
      /\ \A d : /\ ReadOf(p, "start_tool", d) = ReadOf(s, "start_tool", d)
                /\ ReadOf(p, "input_json_delta", d) = ReadOf(s, "input_json_delta", d)
  BY OneMoreEvent
<1>2. /\ k \in Nat /\ DOMAIN o \subseteq Nat /\ DOMAIN q = DOMAIN o \cup {k} /\ q[k] = c
      /\ \A i \in DOMAIN o : i < k /\ q[i] = o[i]
  BY AppendFacts
<1>. HIDE DEF n, p, k, q
<1>3. \A r, d : CallOf(r, p, d) <=> CallOf(r, s, d)
  BY <1>1 DEF CallOf
<1>4. Yielded(q, "call") = Yielded(o, "call") \cup {k} /\ Yielded(o, "call") \subseteq DOMAIN o
  BY <1>2 DEF Yielded
<1>5. Stops(p) = Stops(s) \cup {n} /\ Stops(s) \subseteq DOMAIN s
  BY <1>1 DEF Stops, Read
<1>6. ASSUME NEW i \in Stops(s) PROVE B(i) = s[i].block /\ B(i) # e.block
  <2>1. i \in DOMAIN s /\ s[i].type = "stop"
    BY DEF Stops, Read
  <2>2. Had(s, "stop", s[i].block) /\ ~Had(s, "stop", e.block)
    BY <2>1 DEF Had, Allowed, Running
  <2>. QED  BY <1>1, <2>1, <2>2
<1>7. B(n) = e.block
  BY <1>1
<1>8. \A r, d1, d2 : CallOf(r, s, d1) /\ CallOf(r, s, d2) => d1 = d2
  BY DEF CallOf, ReadOf
<1>. HIDE DEF B
<1>9. ASSUME NEW r \in Yielded(o, "call")
      PROVE  q[r] = o[r] /\ r < k /\ ~CallOf(o[r], s, e.block)
             /\ \E i \in Stops(s) : CallOf(o[r], s, B(i))
  <2>1. PICK i \in Stops(s) : CallOf(o[r], s, s[i].block)
    BY DEF CallsOf
  <2>. QED  BY <1>2, <1>4, <1>6, <1>8, <2>1
<1>10. ASSUME NEW r \in Yielded(q, "call")
       PROVE  \E i \in Stops(p) : CallOf(q[r], p, B(i))
  BY <1>2, <1>3, <1>4, <1>5, <1>7, <1>9
<1>11. ASSUME NEW i \in Stops(p)
       PROVE  \E r \in Yielded(q, "call") : CallOf(q[r], p, B(i))
  <2>1. CASE i = n
    BY <1>2, <1>3, <1>4, <1>7, <2>1
  <2>2. CASE i \in Stops(s)
    <3>1. PICK r \in Yielded(o, "call") : CallOf(o[r], s, s[i].block)
      BY <2>2 DEF CallsOf
    <3>. QED  BY <1>3, <1>4, <1>6, <1>9, <2>2, <3>1
  <2>. QED  BY <1>5, <2>1, <2>2
<1>12. ASSUME NEW g \in Yielded(q, "call"), NEW h \in Yielded(q, "call"),
              NEW i \in Stops(p), NEW j \in Stops(p),
              g < h, CallOf(q[g], p, B(i)), CallOf(q[h], p, B(j))
       PROVE  i < j
  <2>1. g \in Yielded(o, "call")
    BY <1>2, <1>4, <1>12
  <2>2. i \in Stops(s)
    BY <1>3, <1>5, <1>7, <1>9, <1>12, <2>1
  <2>3. CASE h = k
    <3>1. B(j) = e.block
      BY <1>2, <1>3, <1>8, <1>12, <2>3
    <3>2. j = n
      BY <1>5, <1>6, <3>1
    <3>. QED  BY <1>1, <1>5, <2>2, <3>2
  <2>4. CASE h \in Yielded(o, "call")
    <3>1. j \in Stops(s)
      BY <1>3, <1>5, <1>7, <1>9, <1>12, <2>4
    <3>2. CallOf(o[g], s, s[i].block) /\ CallOf(o[h], s, s[j].block)
      BY <1>3, <1>6, <1>9, <1>12, <2>1, <2>2, <2>4, <3>1
    <3>. QED  BY <1>12, <2>1, <2>2, <2>4, <3>1, <3>2 DEF CallsOf
  <2>. QED  BY <1>4, <2>3, <2>4
<1>13. CallsOf(q, p)
  BY <1>10, <1>11, <1>12 DEF CallsOf, B
<1>. QED  BY <1>13 DEF p, q

\* Text n is added to the texts given so far, any other response leaves them.
LEMMA TextsGrow ==
    ASSUME NEW o \in Seq(Responses), NEW r \in Responses,
           NEW S \in SUBSET Nat, Lists(Texts(o), S)
    PROVE  /\ r.kind # "text" => Lists(Texts(Append(o, r)), S)
           /\ \A n \in Nat : (r.kind = "text" /\ r.from = n /\ \A m \in S : m < n) =>
                               Lists(Texts(Append(o, r)), S \cup {n})
<1>. DEFINE k == Len(o) + 1
            p == Append(o, r)
<1>1. /\ k \in Nat /\ DOMAIN p = DOMAIN o \cup {k} /\ p[k] = r /\ DOMAIN o \subseteq Nat
      /\ \A i \in DOMAIN o : i < k /\ p[i] = o[i]
  BY AppendFacts
<1>. HIDE DEF k, p
<1>2. ASSUME r.kind # "text" PROVE Texts(p) = Texts(o)
  <2>1. Yielded(p, "text") = Yielded(o, "text") /\ Yielded(o, "text") \subseteq DOMAIN o
    BY <1>1, <1>2 DEF Yielded
  <2>. QED  BY <1>1, <2>1 DEF Texts
<1>3. ASSUME NEW n \in Nat, r.kind = "text", r.from = n, \A m \in S : m < n
      PROVE  Lists(Texts(p), S \cup {n})
  <2>. DEFINE f == Texts(o)
              g == Texts(p)
  <2>1. /\ DOMAIN f \subseteq Nat /\ \A i \in DOMAIN f : i < k
        /\ DOMAIN g = DOMAIN f \cup {k} /\ g[k] = n /\ \A i \in DOMAIN f : g[i] = f[i]
    BY <1>1, <1>3 DEF Texts, Yielded
  <2>2. Lists(f, S)
    OBVIOUS
  <2>. HIDE DEF f, g
  <2>3. S \in SUBSET Nat /\ k \in Nat /\ n \in Nat /\ \A m \in S : m < n
    BY <1>1, <1>3
  <2>4. Lists(g, S \cup {n})
    BY <2>1, <2>2, <2>3, ListMore
  <2>. QED  BY <2>4 DEF g
<1>. QED  BY <1>2, <1>3 DEF p

\* The newest number is the last.
LEMMA LastGrows ==
    ASSUME NEW S \in SUBSET Nat, NEW n \in Nat, \A i \in S : i < n
    PROVE  IsLast(n, S \cup {n})
  BY DEF IsLast

\* What the responses are.
LEMMA ResponseFacts ==
    ASSUME NEW n \in Nat, NEW r \in Nat, NEW u \in Nat, NEW b \in ActiveBlocks
    PROVE  /\ Text(n) \in Responses /\ Text(n).kind = "text" /\ Text(n).from = n
           /\ Call(b) \in Responses /\ Call(b).kind = "call"
           /\ Call(b).from = b.name /\ Call(b).json = b.json
           /\ Final(r, u) \in Responses /\ Final(r, u).kind = "final"
           /\ Final(r, u).reason = r /\ Final(r, u).usage = u
           /\ Error \in Responses /\ Error.kind = "error"
<1>1. b.name \in Nat /\ b.json \in Seq(Nat) /\ <<>> \in Seq(Nat)
  BY DEF ActiveBlocks
<1>. DEFINE J == Seq(Nat)
<1>2. b.name \in Nat /\ b.json \in J /\ <<>> \in J
  BY <1>1
<1>. HIDE DEF J
<1>. DEFINE R == [kind : {"text", "call", "final", "error"}, from : Nat, json : J,
                  reason : Nat, usage : Nat]
<1>3. Text(n) \in R /\ Text(n).kind = "text" /\ Text(n).from = n
  BY <1>2 DEF Text, Response
<1>4. Call(b) \in R /\ Call(b).kind = "call" /\ Call(b).from = b.name /\ Call(b).json = b.json
  BY <1>2 DEF Call, Response
<1>5. /\ Final(r, u) \in R /\ Final(r, u).kind = "final"
      /\ Final(r, u).reason = r /\ Final(r, u).usage = u
  BY <1>2 DEF Final, Response
<1>6. Error \in R /\ Error.kind = "error"
  BY <1>2 DEF Error, Response
<1>. QED  BY <1>3, <1>4, <1>5, <1>6 DEF Responses, J

\* A block that was not started counts as one of the active blocks.
LEMMA EmptyIsActive == EmptyBlock \in ActiveBlocks
  BY DEF EmptyBlock, ActiveBlocks

\* One more response is given.
LEMMA OutGrows ==
    ASSUME NEW o \in Seq(Responses), NEW r \in Responses
    PROVE  /\ Append(o, r) \in Seq(Responses)
           /\ \A k : /\ k # r.kind => Yielded(Append(o, r), k) = Yielded(o, k)
                     /\ Yielded(o, k) \subseteq DOMAIN o
           /\ Yielded(Append(o, r), r.kind) = Yielded(o, r.kind) \cup {Len(o) + 1}
           /\ Append(o, r)[Len(o) + 1] = r
           /\ \A i \in DOMAIN o : i # Len(o) + 1 /\ Append(o, r)[i] = o[i]
<1>. DEFINE k == Len(o) + 1
            p == Append(o, r)
<1>1. /\ p \in Seq(Responses) /\ DOMAIN p = DOMAIN o \cup {k} /\ p[k] = r
      /\ \A i \in DOMAIN o : i # k /\ p[i] = o[i]
  BY AppendFacts
<1>. HIDE DEF k, p
<1>2. /\ \A d : /\ d # r.kind => Yielded(p, d) = Yielded(o, d)
                /\ Yielded(o, d) \subseteq DOMAIN o
      /\ Yielded(p, r.kind) = Yielded(o, r.kind) \cup {k}
  BY <1>1 DEF Yielded
<1>. QED  BY <1>1, <1>2 DEF k, p

\* Every step of the provider keeps the invariant.
LEMMA Steps ==
    ASSUME IInv, [Next]_vars
    PROVE  IInv'
<1>0. /\ TypeOK /\ Ordered(sent) /\ Accumulated(active, sent)
      /\ IsLast(reason, Read(sent, "message_delta")) /\ IsLast(usage, Usages(sent))
      /\ Lists(Texts(out), Read(sent, "text_delta")) /\ CallsOf(out, sent)
      /\ \A r \in Yielded(out, "final") : UpToDate(out[r], sent) /\ state = "final"
      /\ sent \in Seq(Events) /\ active \in Seq(ActiveBlocks) /\ Len(active) <= Blocks
      /\ reason \in Nat /\ usage \in Nat /\ out \in Seq(Responses)
  BY DEF IInv, TextFaithful, CallsFaithful, FinalUpToDate, TypeOK
<1>1. ASSUME NEW e \in Events, state = "reading", Len(sent) < MaxEvents, Allowed(sent, e),
             sent' = Append(sent, e), Handle(e, Len(sent) + 1)
      PROVE  IInv'
  <2>. DEFINE n == Len(sent) + 1
              p == Append(sent, e)
              b == e.block
  <2>1. /\ p \in Seq(Events) /\ n \in Nat
        /\ \A t : Read(p, t) = IF e.type = t THEN Read(sent, t) \cup {n} ELSE Read(sent, t)
        /\ Usages(p) = IF e.usage THEN Usages(sent) \cup {n} ELSE Usages(sent)
    BY <1>0, OneMoreEvent
  <2>2. Len(p) <= MaxEvents
    BY <1>0, <1>1, AnthropicAssumption, AppendProperties
  <2>3. Ordered(p)
    BY <1>0, <1>1, StaysOrdered
  <2>4. active' \in Seq(ActiveBlocks) /\ Len(active') <= Blocks /\ Accumulated(active', p)
    BY <1>0, <1>1, StaysAccumulated
  <2>5. /\ e.type \in BlockEvents \cup {"message_delta", "message_stop", "ping"}
        /\ e.usage => e.type = "message_delta"
        /\ e.type \in BlockEvents => b \in 1..Blocks
    BY EventFacts
  <2>6. \A r \in Yielded(out, "final") : FALSE
    BY <1>0, <1>1
  <2>7. /\ \A t : Read(sent, t) \in SUBSET Nat /\ \A i \in Read(sent, t) : i < n
        /\ Usages(sent) \in SUBSET Nat /\ \A i \in Usages(sent) : i < n
    BY <1>0, ReadFacts
  <2>8. IInv' <=> /\ reason' \in Nat /\ usage' \in Nat /\ out' \in Seq(Responses)
                  /\ state' \in {"reading", "stopped", "ended", "final", "error"}
                  /\ IsLast(reason', Read(p, "message_delta")) /\ IsLast(usage', Usages(p))
                  /\ Lists(Texts(out'), Read(p, "text_delta")) /\ CallsOf(out', p)
                  /\ \A r \in Yielded(out', "final") : UpToDate(out'[r], p) /\ state' = "final"
    BY <1>1, <2>1, <2>2, <2>3, <2>4
       DEF IInv, TextFaithful, CallsFaithful, FinalUpToDate, TypeOK
  <2>. HIDE DEF n, p, b
  <2>9. e.type # "text_delta" => Read(p, "text_delta") = Read(sent, "text_delta")
    BY <2>1
  <2>10. e.type # "message_delta" => /\ Read(p, "message_delta") = Read(sent, "message_delta")
                                     /\ Usages(p) = Usages(sent)
    BY <2>1, <2>5
  <2>11. ~(e.type = "stop" /\ Had(sent, "start_tool", e.block)) =>
             \A q : (/\ Yielded(q, "call") = Yielded(out, "call")
                     /\ \A r \in Yielded(out, "call") : q[r] = out[r]) => CallsOf(q, p)
    BY <1>0, <1>1, CallsStay DEF p
  <2>12. CASE e.type \in {"start_text", "start_tool", "input_json_delta", "ping"}
    <3>1. UNCHANGED <<reason, usage, out, state>>
      BY <1>1, <2>12 DEF Handle, ContentBlockStart, TextDelta, InputDelta, ContentBlockStop,
                         MessageDelta, MessageStop, Ignored
    <3>2. CallsOf(out, p)
      BY <2>11, <2>12
    <3>. QED  BY <1>0, <1>1, <2>6, <2>8, <2>9, <2>10, <2>12, <3>1, <3>2
  <2>13. CASE e.type = "text_delta"
    <3>. DEFINE c == Text(n)
    <3>1. /\ out' = Append(out, c) /\ state' \in {"reading", "stopped"}
          /\ UNCHANGED <<reason, usage>>
      BY <1>1, <2>13 DEF Handle, ContentBlockStart, TextDelta, InputDelta, ContentBlockStop,
                         MessageDelta, MessageStop, Ignored, YieldPartial, n
    <3>2. c \in Responses /\ c.kind = "text" /\ c.from = n
      BY <2>1, <1>0, ResponseFacts, EmptyIsActive
    <3>. HIDE DEF c
    <3>3. /\ out' \in Seq(Responses) /\ Yielded(out', "final") = Yielded(out, "final")
          /\ Yielded(out', "call") = Yielded(out, "call")
          /\ \A r \in Yielded(out, "call") : out'[r] = out[r]
      BY <1>0, <3>1, <3>2, OutGrows
    <3>4. CallsOf(out', p)
      BY <2>11, <2>13, <3>3
    <3>5. Lists(Texts(out'), Read(p, "text_delta"))
      <4>. DEFINE S == Read(sent, "text_delta")
      <4>1. Read(p, "text_delta") = S \cup {n}
        BY <2>1, <2>13
      <4>2. S \in SUBSET Nat /\ \A m \in S : m < n
        BY <2>7
      <4>3. Lists(Texts(out), S)
        BY <1>0
      <4>. HIDE DEF S
      <4>4. Lists(Texts(Append(out, c)), S \cup {n})
        BY <1>0, <2>1, <3>2, <4>2, <4>3, TextsGrow
      <4>. QED  BY <3>1, <4>1, <4>4
    <3>. QED  BY <1>0, <2>6, <2>8, <2>10, <2>13, <3>1, <3>3, <3>4, <3>5
  <2>14. CASE e.type = "stop" /\ ~IsTool(b)
    <3>1. UNCHANGED <<reason, usage, out, state>>
      BY <1>1, <2>14 DEF Handle, ContentBlockStart, TextDelta, InputDelta, ContentBlockStop,
                         MessageDelta, MessageStop, Ignored, b
    <3>2. ~Had(sent, "start_tool", b)
      BY <1>0, <2>5, <2>14 DEF Accumulated, IsTool, Started, BlockEvents
    <3>3. CallsOf(out, p)
      BY <2>11, <3>2 DEF b
    <3>. QED  BY <1>0, <1>1, <2>6, <2>8, <2>9, <2>10, <2>14, <3>1, <3>3
  <2>15. CASE e.type = "stop" /\ IsTool(b)
    <3>. DEFINE c == Call(active[b])
    <3>1. /\ out' = Append(out, c) /\ state' \in {"reading", "stopped"}
          /\ UNCHANGED <<reason, usage>>
      BY <1>1, <2>15 DEF Handle, ContentBlockStart, TextDelta, InputDelta, ContentBlockStop,
                         MessageDelta, MessageStop, Ignored, YieldPartial, b
    <3>2. active[b] \in ActiveBlocks /\ b \in DOMAIN active
      BY <1>0, <2>15, ElementOfSeq DEF IsTool
    <3>3. c \in Responses /\ c.kind = "call" /\ c.from = active[b].name /\ c.json = active[b].json
      BY <2>1, <3>2, ResponseFacts
    <3>4. Had(sent, "start_tool", b) /\ CallOf(c, sent, b)
      BY <1>0, <2>15, <3>2, <3>3 DEF Accumulated, IsTool, CallOf
    <3>. HIDE DEF c
    <3>5. CallsOf(out', p)
      BY <1>0, <1>1, <2>15, <3>1, <3>3, <3>4, CallYielded DEF p, b
    <3>6. out' \in Seq(Responses) /\ Yielded(out', "final") = Yielded(out, "final")
      BY <1>0, <3>1, <3>3, OutGrows
    <3>7. Lists(Texts(out'), Read(p, "text_delta"))
      BY <1>0, <2>7, <2>9, <2>15, <3>1, <3>3, TextsGrow
    <3>. QED  BY <1>0, <2>6, <2>8, <2>10, <2>15, <3>1, <3>5, <3>6, <3>7
  <2>16. CASE e.type = "message_delta"
    <3>1. /\ reason' = n /\ usage' = IF e.usage THEN n ELSE usage
          /\ UNCHANGED <<out, state>>
      BY <1>1, <2>16 DEF Handle, ContentBlockStart, TextDelta, InputDelta, ContentBlockStop,
                         MessageDelta, MessageStop, Ignored, n
    <3>2. IsLast(reason', Read(p, "message_delta"))
      BY <2>1, <2>7, <2>16, <3>1, LastGrows
    <3>3. IsLast(usage', Usages(p))
      BY <1>0, <2>1, <2>7, <3>1, LastGrows
    <3>4. CallsOf(out, p)
      BY <2>11, <2>16
    <3>. QED  BY <1>0, <1>1, <2>1, <2>6, <2>8, <2>9, <2>16, <3>1, <3>2, <3>3, <3>4
  <2>17. CASE e.type = "message_stop"
    <3>. DEFINE f == Final(reason, usage)
    <3>1. out' = Append(out, f) /\ state' = "final" /\ UNCHANGED <<reason, usage>>
      BY <1>1, <2>17 DEF Handle, ContentBlockStart, TextDelta, InputDelta, ContentBlockStop,
                         MessageDelta, MessageStop, Ignored
    <3>2. f \in Responses /\ f.kind = "final" /\ f.reason = reason /\ f.usage = usage
      BY <1>0, ResponseFacts, EmptyIsActive
    <3>. HIDE DEF f
    <3>3. Read(p, "message_delta") # {}
      BY <1>0, <1>1, <2>10, <2>17, ReadFacts DEF Allowed, Had, Read
    <3>4. UpToDate(f, p)
      BY <1>0, <2>10, <2>17, <3>2, <3>3 DEF UpToDate, Usages
    <3>5. out' \in Seq(Responses) /\ \A r \in Yielded(out', "final") : UpToDate(out'[r], p)
      <4>1. /\ out' \in Seq(Responses) /\ out'[Len(out) + 1] = f
            /\ Yielded(out', "final") = Yielded(out, "final") \cup {Len(out) + 1}
        BY <1>0, <3>1, <3>2, OutGrows
      <4>. QED  BY <2>6, <3>4, <4>1
    <3>6. CallsOf(out', p)
      <4>1. /\ Yielded(out', "call") = Yielded(out, "call")
            /\ \A r \in Yielded(out, "call") : out'[r] = out[r]
        BY <1>0, <3>1, <3>2, OutGrows
      <4>. QED  BY <2>11, <2>17, <4>1
    <3>7. Lists(Texts(out'), Read(p, "text_delta"))
      BY <1>0, <2>7, <2>9, <2>17, <3>1, <3>2, TextsGrow
    <3>. QED  BY <1>0, <2>8, <2>10, <2>17, <3>1, <3>5, <3>6, <3>7
  <2>. QED  BY <2>5, <2>12, <2>13, <2>14, <2>15, <2>16, <2>17 DEF BlockEvents
<1>2. CASE Receive
  BY <1>1, <1>2 DEF Receive
<1>3. CASE Fail
  <2>1. /\ state = "reading" /\ out' = Append(out, Error) /\ state' = "error"
        /\ UNCHANGED <<sent, active, reason, usage>>
    BY <1>3 DEF Fail
  <2>2. Error \in Responses /\ Error.kind = "error"
    BY <1>0, ResponseFacts, EmptyIsActive
  <2>3. /\ out' \in Seq(Responses) /\ Yielded(out', "final") = {}
        /\ Yielded(out', "call") = Yielded(out, "call")
        /\ \A r \in Yielded(out, "call") : out'[r] = out[r]
    BY <1>0, <2>1, <2>2, OutGrows
  <2>4. CallsOf(out', sent)
    BY <1>0, <2>3 DEF CallsOf
  <2>5. Lists(Texts(out'), Read(sent, "text_delta"))
    BY <1>0, <2>1, <2>2, TextsGrow, ReadFacts
  <2>. QED  BY <1>0, <2>1, <2>3, <2>4, <2>5
            DEF IInv, TextFaithful, CallsFaithful, FinalUpToDate, TypeOK
<1>4. CASE End
  <2>1. state = "reading" /\ state' = "ended" /\ UNCHANGED <<sent, active, reason, usage, out>>
    BY <1>4 DEF End
  <2>. QED  BY <1>0, <2>1 DEF IInv, TextFaithful, CallsFaithful, FinalUpToDate, TypeOK
<1>5. CASE UNCHANGED vars
  <2>1. UNCHANGED <<sent, active, reason, usage, out, state>>
    BY <1>5 DEF vars
  <2>. QED  BY <1>0, <2>1 DEF IInv, TextFaithful, CallsFaithful, FinalUpToDate, TypeOK
<1>. QED  BY <1>2, <1>3, <1>4, <1>5 DEF Next

-----------------------------------------------------------------------------
\* Before the first event.
LEMMA Initially == Init => IInv
<1>. SUFFICES ASSUME Init PROVE IInv
  OBVIOUS
<1>1. /\ sent = <<>> /\ active = <<>> /\ reason = 0 /\ usage = 0 /\ out = <<>>
      /\ state = "reading"
  BY DEF Init
<1>2. TypeOK
  <2>1. Len(<<>>) = 0 /\ 0 <= MaxEvents /\ 0 <= Blocks
    BY AnthropicAssumption
  <2>. QED  BY <1>1, <2>1 DEF TypeOK
<1>3. \A t, b : Read(sent, t) = {} /\ Usages(sent) = {} /\ ~Had(sent, t, b)
  BY <1>1 DEF Read, Usages, Had
<1>4. \A k : Yielded(out, k) = {}
  BY <1>1 DEF Yielded
<1>5. Ordered(sent) /\ Accumulated(active, sent)
  BY <1>1, <1>3 DEF Ordered, Accumulated, Started
<1>6. IsLast(reason, Read(sent, "message_delta")) /\ IsLast(usage, Usages(sent))
  BY <1>1, <1>3 DEF IsLast
<1>7. TextFaithful
  BY <1>3, <1>4 DEF TextFaithful, Lists, Texts
<1>8. CallsFaithful
  BY <1>3, <1>4 DEF CallsFaithful, CallsOf, Stops
<1>. QED  BY <1>1, <1>2, <1>4, <1>5, <1>6, <1>7, <1>8 DEF IInv, FinalUpToDate

\* The invariant holds in every reachable state.
THEOREM Invariance == Spec => []IInv
<1>1. Init => IInv
  BY Initially
<1>2. IInv /\ [Next]_vars => IInv'
  BY Steps
<1>. QED  BY <1>1, <1>2, PTL DEF Spec

\* generateStreaming passes on every text_delta once and in order.
THEOREM TextsArrive == Spec => []TextFaithful
<1>1. IInv => TextFaithful
  BY DEF IInv
<1>. QED  BY <1>1, Invariance, PTL

\* A tool_use block becomes one call when it stops, with its own name and input,
\* however its deltas interleave with those of other blocks.
THEOREM CallsArrive == Spec => []CallsFaithful
<1>1. IInv => CallsFaithful
  BY DEF IInv
<1>. QED  BY <1>1, Invariance, PTL

\* The final response has the last stop reason and the last usage.
THEOREM FinalIsUpToDate == Spec => []FinalUpToDate
<1>1. IInv => FinalUpToDate
  BY DEF IInv
<1>. QED  BY <1>1, Invariance, PTL

(***************************************************************************)
(* Refinement: the kinds of the responses and whether the iteration is     *)
(* over are what ResponseStream speaks of.                                 *)
(***************************************************************************)
\* One more response is one more kind.
LEMMA KindsGrow ==
    ASSUME NEW o \in Seq(Responses), NEW r \in Responses
    PROVE  Kinds(Append(o, r)) = Append(Kinds(o), KindOf(r))
<1>. DEFINE K == {KindOf(x) : x \in Responses}
            n == Len(o)
<1>1. /\ n \in Nat /\ DOMAIN o = 1..n /\ DOMAIN Append(o, r) = 1..(n + 1)
      /\ Append(o, r)[n + 1] = r
      /\ \A i \in 1..n : o[i] \in Responses /\ Append(o, r)[i] = o[i]
  BY AppendFacts, ElementOfSeq
<1>2. Kinds(o) \in [1..n -> K] /\ KindOf(r) \in K
  BY <1>1 DEF Kinds
<1>. HIDE DEF K, n
<1>3. Kinds(o) \in Seq(K) /\ Len(Kinds(o)) = n /\ \A i \in 1..n : Kinds(o)[i] = KindOf(o[i])
  BY <1>1, <1>2, SeqDef DEF Kinds
<1>4. /\ Append(Kinds(o), KindOf(r)) \in Seq(K) /\ Len(Append(Kinds(o), KindOf(r))) = n + 1
      /\ Append(Kinds(o), KindOf(r))[n + 1] = KindOf(r)
      /\ \A i \in 1..n : Append(Kinds(o), KindOf(r))[i] = KindOf(o[i])
  BY <1>1, <1>2, <1>3, AppendProperties
<1>5. /\ DOMAIN Kinds(Append(o, r)) = 1..(n + 1)
      /\ \A i \in 1..(n + 1) : Kinds(Append(o, r))[i] = Append(Kinds(o), KindOf(r))[i]
  BY <1>1, <1>4 DEF Kinds
<1>6. Kinds(Append(o, r)) \in Seq(K) /\ Len(Kinds(Append(o, r))) = n + 1
  <2>1. Kinds(Append(o, r)) \in [1..(n + 1) -> K]
    <3>1. \A i \in 1..(n + 1) : Append(Kinds(o), KindOf(r))[i] \in K
      BY <1>1, <1>4, ElementOfSeq
    <3>. QED  BY <1>1, <1>5, <3>1 DEF Kinds
  <2>. QED  BY <1>1, <2>1, SeqDef
<1>. QED  BY <1>4, <1>5, <1>6, SeqEqual

\* Every step of the provider is a step of ResponseStream or none.
LEMMA StepRefines ==
    ASSUME IInv, [Next]_vars
    PROVE  [Abstract!Next]_<<Kinds(out), state # "reading">>
<1>1. /\ out \in Seq(Responses) /\ sent \in Seq(Events) /\ reason \in Nat /\ usage \in Nat
      /\ active \in Seq(ActiveBlocks)
  BY DEF IInv, TypeOK
<1>2. Kinds(out)' = Kinds(out')
  BY DEF Kinds
<1>3. ASSUME state = "reading", NEW r \in Responses, KindOf(r) = "partial", YieldPartial(r)
      PROVE  Abstract!Next
  <2>1. Kinds(out') = Append(Kinds(out), "partial")
    BY <1>1, <1>3, KindsGrow DEF YieldPartial
  <2>. QED  BY <1>2, <1>3, <2>1 DEF YieldPartial, Abstract!Next, Abstract!Give, Abstract!Partial
<1>4. ASSUME state = "reading", NEW r \in Responses, KindOf(r) \in {"final", "error"},
             out' = Append(out, r), state' # "reading"
      PROVE  Abstract!Next
  <2>1. Kinds(out') = Append(Kinds(out), KindOf(r))
    BY <1>1, <1>4, KindsGrow
  <2>2. Abstract!Finish
    BY <1>2, <1>4, <2>1 DEF Abstract!Finish, Abstract!Endings
  <2>. QED  BY <2>2 DEF Abstract!Next
<1>5. CASE UNCHANGED <<out, state>>
  BY <1>5 DEF Kinds
<1>6. ASSUME NEW e \in Events, state = "reading", Handle(e, Len(sent) + 1)
      PROVE  Abstract!Next \/ UNCHANGED <<out, state>>
  <2>. DEFINE n == Len(sent) + 1
  <2>1. n \in Nat
    BY <1>1
  <2>. HIDE DEF n
  <2>2. CASE TextDelta(e, n)
    <3>1. Text(n) \in Responses /\ KindOf(Text(n)) = "partial"
      BY <2>1, ResponseFacts, EmptyIsActive DEF KindOf
    <3>. QED  BY <1>3, <1>6, <2>2, <3>1 DEF TextDelta
  <2>3. CASE ContentBlockStop(e, n)
    <3>1. CASE IsTool(e.block)
      <4>1. active[e.block] \in ActiveBlocks
        BY <1>1, <3>1, ElementOfSeq DEF IsTool
      <4>2. Call(active[e.block]) \in Responses /\ KindOf(Call(active[e.block])) = "partial"
        BY <2>1, <4>1, ResponseFacts DEF KindOf
      <4>. QED  BY <1>3, <1>6, <2>3, <3>1, <4>2 DEF ContentBlockStop
    <3>2. CASE ~IsTool(e.block)
      BY <2>3, <3>2 DEF ContentBlockStop
    <3>. QED  BY <3>1, <3>2
  <2>4. CASE MessageStop(e, n)
    <3>1. Final(reason, usage) \in Responses /\ KindOf(Final(reason, usage)) = "final"
      BY <1>1, ResponseFacts, EmptyIsActive DEF KindOf
    <3>. QED  BY <1>4, <1>6, <2>4, <3>1 DEF MessageStop
  <2>5. CASE \/ ContentBlockStart(e, n) \/ InputDelta(e, n) \/ MessageDelta(e, n)
             \/ Ignored(e, n)
    BY <2>5 DEF ContentBlockStart, InputDelta, MessageDelta, Ignored
  <2>. QED  BY <1>6, <2>2, <2>3, <2>4, <2>5 DEF Handle, n
<1>7. CASE Receive
  BY <1>5, <1>6, <1>7 DEF Receive
<1>8. CASE Fail
  <2>1. Error \in Responses /\ KindOf(Error) = "error"
    BY <1>1, ResponseFacts, EmptyIsActive DEF KindOf
  <2>. QED  BY <1>4, <1>8, <2>1 DEF Fail
<1>9. CASE End
  BY <1>9 DEF End, Kinds, Abstract!Next, Abstract!Quit
<1>10. CASE UNCHANGED vars
  BY <1>5, <1>10 DEF vars
<1>. QED  BY <1>7, <1>8, <1>9, <1>10 DEF Next

\* GenerateContent keeps the contract of a streaming provider: partial
\* responses, one ending at most, nothing after it.
THEOREM Refinement == Spec => ImplementsResponseStream
<1>1. Init => Abstract!Init
  BY DEF Init, Abstract!Init, Kinds
<1>. QED  BY <1>1, StepRefines, Invariance, PTL DEF Spec, ImplementsResponseStream, Abstract!Spec
=============================================================================
