------------------------- MODULE OpenAIStreamProofs -------------------------
(***************************************************************************)
(* Proofs about OpenAIStream for streams of any length and any number of   *)
(* tool calls: what reaches the consumer is what the server sent, and the  *)
(* responses are a ResponseStream.                                         *)
(***************************************************************************)
EXTENDS OpenAIStream, SequenceTheorems, TLAPS

\* While the loop runs, the accumulators hold every tool call so far, and the
\* loop does not run on after a final response.
IInv ==
    /\ TextFaithful /\ ToolCallsComplete
    /\ state = "reading" => Complete(calls, script, pos)
    /\ \A r \in DOMAIN out : out[r].kind = "final" => state = "final"

-----------------------------------------------------------------------------
\* append of Go: what was there stays, the new element is the last.
LEMMA AppendFacts ==
    ASSUME NEW S, NEW s \in Seq(S), NEW e \in S
    PROVE  /\ Append(s, e) \in Seq(S) /\ Len(s) \in Nat
           /\ DOMAIN s = 1..Len(s) /\ DOMAIN Append(s, e) = DOMAIN s \cup {Len(s) + 1}
           /\ Append(s, e)[Len(s) + 1] = e
           /\ \A i \in DOMAIN s : i \in Nat /\ i < Len(s) + 1 /\ Append(s, e)[i] = s[i]
  OBVIOUS

\* A list goes on in ascending order with a number that is greater than all
\* that it lists.
LEMMA ListMore ==
    ASSUME NEW f, NEW S \in SUBSET Nat, DOMAIN f \subseteq Nat, Lists(f, S),
           NEW k \in Nat, \A i \in DOMAIN f : i < k,
           NEW n \in Nat, \A m \in S : m < n,
           NEW g, DOMAIN g = DOMAIN f \cup {k}, g[k] = n, \A i \in DOMAIN f : g[i] = f[i]
    PROVE  Lists(g, S \cup {n})
<1>1. \A i \in DOMAIN f : f[i] \in S
  BY DEF Lists
<1>2. {g[i] : i \in DOMAIN g} = S \cup {n}
  <2>1. \A x \in {g[i] : i \in DOMAIN g} : x \in S \cup {n}
    BY <1>1
  <2>2. \A x \in S : \E i \in DOMAIN f : x = f[i]
    BY DEF Lists
  <2>3. \A x \in S \cup {n} : \E i \in DOMAIN g : x = g[i]
    BY <2>2
  <2>. QED  BY <2>1, <2>3
<1>3. ASSUME NEW i \in DOMAIN g, NEW j \in DOMAIN g, i < j PROVE g[i] < g[j]
  <2>1. i \in DOMAIN f
    BY <1>3
  <2>2. CASE j = k
    BY <1>1, <2>1, <2>2
  <2>3. CASE j # k
    BY <1>3, <2>1, <2>3 DEF Lists
  <2>. QED  BY <2>2, <2>3
<1>. QED  BY <1>2, <1>3 DEF Lists

\* What the server may send in a chunk.
LEMMA ChunkFacts ==
    ASSUME NEW c \in Chunks
    PROVE  /\ c.text \in BOOLEAN /\ c.choice \in BOOLEAN /\ c.finish \in BOOLEAN
           /\ c.deltas \subseteq Nat \ {0}
           /\ ~c.choice => ~c.text /\ c.deltas = {}
<1>1. /\ c \in [choice : BOOLEAN, text : BOOLEAN, deltas : SUBSET Calls, finish : BOOLEAN,
               usage : BOOLEAN]
      /\ ~c.choice => ~c.text /\ c.deltas = {}
  BY DEF Chunks
<1>2. c.deltas \subseteq Nat \ {0}
  <2>1. c.deltas \in SUBSET Calls
    BY <1>1
  <2>. QED  BY <2>1, StreamAssumption
<1>. QED  BY <1>1, <1>2

\* The next chunk, and what the protocol says of the calls that have begun with
\* it.
LEMMA NextChunk ==
    ASSUME TypeOK, pos < Len(script)
    PROVE  /\ pos \in Nat /\ pos + 1 \in 1..Len(script) /\ script[pos + 1] \in Chunks
           /\ \E k \in Nat : Begun(script, pos + 1) = 1..k
           /\ Begun(script, pos + 1) = Begun(script, pos) \cup script[pos + 1].deltas
<1>1. script \in Seq(Chunks) /\ Protocol(script)
  <2>1. PICK n \in Nat : script \in [1..n -> Chunks]
    BY DEF TypeOK, Scripts
  <2>2. script \in Seq(Chunks)
    BY <2>1, SeqDef
  <2>. QED  BY <2>2 DEF TypeOK, Scripts
<1>2. Len(script) \in Nat /\ DOMAIN script = 1..Len(script) /\ pos \in 0..Len(script)
  BY <1>1 DEF TypeOK
<1>3. pos \in Nat /\ pos + 1 \in 1..Len(script) /\ 1..(pos + 1) = 1..pos \cup {pos + 1}
  BY <1>2
<1>4. script[pos + 1] \in Chunks
  BY <1>1, <1>2, <1>3
<1>5. \E k \in Nat : Begun(script, pos + 1) = 1..k
  BY <1>1, <1>2, <1>3, StreamAssumption DEF Protocol
<1>6. Begun(script, pos + 1) = Begun(script, pos) \cup script[pos + 1].deltas
  BY <1>3 DEF Begun
<1>. QED  BY <1>3, <1>4, <1>5, <1>6

-----------------------------------------------------------------------------
\* The loop over delta.ToolCalls takes complete accumulators to complete ones.
LEMMA Accumulates ==
    ASSUME TypeOK, pos < Len(script), Complete(calls, script, pos)
    PROVE  /\ Accumulate(pos + 1) \in ToolCalls
           /\ Complete(Accumulate(pos + 1), script, pos + 1)
           /\ script[pos + 1].deltas = {} => Accumulate(pos + 1) = calls
<1>. DEFINE n  == pos + 1
            D  == script[n].deltas
            cs == Accumulate(n)
            T  == [name : Nat, args : Seq(Nat)]
            a(i) == IF i \in DOMAIN calls THEN calls[i] ELSE NoCall
            P(i) == DeltasIn(i, script, pos)
            N(i) == DeltasIn(i, script, n)
<1>1. /\ n \in Nat /\ pos \in Nat /\ n - 1 = pos /\ D \subseteq Nat \ {0}
      /\ Begun(script, n) = Begun(script, pos) \cup D
  BY NextChunk, ChunkFacts
<1>2. PICK k \in Nat : Begun(script, n) = 1..k
  BY NextChunk
<1>3. calls \in Seq(T) /\ DOMAIN calls = Begun(script, pos)
  BY DEF TypeOK, ToolCalls, Complete
<1>4. \A i \in DOMAIN calls : calls[i].name \in Nat /\ calls[i].args \in Seq(Nat)
  <2>1. \A i \in DOMAIN calls : calls[i] \in T
    <3>. HIDE DEF T
    <3>. QED  BY <1>3, ElementOfSeq
  <2>. QED  BY <2>1
<1>5. /\ \A i : N(i) = IF i \in D THEN P(i) \cup {n} ELSE P(i)
      /\ \A i : P(i) \in SUBSET Nat /\ \A m \in P(i) : m < n
  BY <1>1 DEF DeltasIn
<1>6. \A i : i \in DOMAIN calls <=> P(i) # {}
  BY <1>3 DEF Begun, DeltasIn
<1>7. /\ cs = [i \in DOMAIN calls \cup UNION {1..d : d \in D} |->
                 IF i \notin D THEN a(i)
                 ELSE [name |-> IF i \in Named(script, n) THEN n ELSE a(i).name,
                       args |-> Append(a(i).args, n)]]
      /\ \A i \in D : i \in Named(script, n) <=> i \notin DOMAIN calls
  BY <1>1, <1>3 DEF Accumulate, Named
<1>8. DOMAIN calls \cup UNION {1..d : d \in D} = 1..k
  <2>1. \A d \in D : 1..d \subseteq 1..k /\ d \in 1..d
    BY <1>1, <1>2
  <2>. QED  BY <1>1, <1>2, <1>3, <2>1
<1>9. \A i : NoCall.args = <<>> /\ (i \notin DOMAIN calls => a(i) = NoCall)
             /\ (i \in DOMAIN calls => a(i) = calls[i])
  BY DEF NoCall
<1>. HIDE DEF n, D, cs, P, N, a
\* One accumulator.
<1>10. ASSUME NEW i \in 1..k
       PROVE  /\ cs[i] \in T
              /\ Lists(cs[i].args, N(i)) /\ cs[i].name \in N(i)
              /\ \A m \in N(i) : cs[i].name <= m
  <2>1. i \in DOMAIN calls =>
          /\ Lists(calls[i].args, P(i)) /\ calls[i].name \in P(i)
          /\ \A m \in P(i) : calls[i].name <= m
    BY DEF Complete, P
  <2>2. CASE i \notin D
    <3>1. i \in DOMAIN calls
      BY <1>1, <1>2, <1>3, <2>2
    <3>2. cs[i] = calls[i] /\ N(i) = P(i)
      BY <1>5, <1>7, <1>8, <1>9, <2>2, <3>1
    <3>3. calls[i] \in T
      <4>. HIDE DEF T
      <4>. QED  BY <1>3, <3>1, ElementOfSeq
    <3>. QED  BY <2>1, <3>1, <3>2, <3>3
  <2>3. CASE i \in D
    <3>. DEFINE f == a(i).args
                g == Append(f, n)
    <3>1. f \in Seq(Nat) /\ Lists(f, P(i))
      <4>1. CASE i \in DOMAIN calls
        BY <1>4, <1>9, <2>1, <4>1
      <4>2. CASE i \notin DOMAIN calls
        <5>1. f = <<>> /\ P(i) = {}
          BY <1>6, <1>9, <4>2
        <5>. QED  BY <5>1 DEF Lists
      <4>. QED  BY <4>1, <4>2
    <3>2. cs[i] = [name |-> IF i \in DOMAIN calls THEN a(i).name ELSE n, args |-> g]
      BY <1>7, <1>8, <2>3
    <3>. HIDE DEF f
    <3>3. /\ DOMAIN f \subseteq Nat /\ Len(f) + 1 \in Nat /\ \A j \in DOMAIN f : j < Len(f) + 1
          /\ DOMAIN g = DOMAIN f \cup {Len(f) + 1} /\ g[Len(f) + 1] = n
          /\ \A j \in DOMAIN f : g[j] = f[j]
          /\ g \in Seq(Nat)
      BY <1>1, <3>1, AppendFacts
    <3>. HIDE DEF g
    <3>4. N(i) = P(i) \cup {n} /\ P(i) \in SUBSET Nat /\ \A m \in P(i) : m < n
      BY <1>5, <2>3
    <3>5. Lists(g, N(i))
      <4>. DEFINE S == P(i)
                  l == Len(f) + 1
      <4>1. /\ S \in SUBSET Nat /\ Lists(f, S) /\ l \in Nat /\ n \in Nat
            /\ \A m \in S : m < n
            /\ DOMAIN f \subseteq Nat /\ \A j \in DOMAIN f : j < l
            /\ DOMAIN g = DOMAIN f \cup {l} /\ g[l] = n /\ \A j \in DOMAIN f : g[j] = f[j]
        BY <1>1, <3>1, <3>3, <3>4
      <4>. HIDE DEF S, l
      <4>2. Lists(g, S \cup {n})
        BY <4>1, ListMore
      <4>. QED  BY <3>4, <4>2 DEF S
    <3>6. CASE i \in DOMAIN calls
      <4>1. cs[i] = [name |-> calls[i].name, args |-> g] /\ calls[i].name \in Nat
        BY <1>4, <1>9, <3>2, <3>6
      <4>2. calls[i].name <= n
        BY <1>1, <2>1, <3>4, <3>6
      <4>. QED  BY <2>1, <3>3, <3>4, <3>5, <3>6, <4>1, <4>2
    <3>7. CASE i \notin DOMAIN calls
      <4>1. cs[i] = [name |-> n, args |-> g] /\ N(i) = {n}
        BY <1>6, <3>2, <3>4, <3>7
      <4>. QED  BY <1>1, <3>3, <3>5, <4>1
    <3>. QED  BY <3>6, <3>7
  <2>. QED  BY <2>2, <2>3
<1>11. DOMAIN cs = 1..k
  BY <1>7, <1>8
<1>12. cs \in ToolCalls
  <2>. HIDE DEF T
  <2>1. cs \in [1..k -> T]
    BY <1>7, <1>8, <1>10
  <2>2. cs \in Seq(T)
    BY <2>1, SeqDef
  <2>. QED  BY <2>2 DEF ToolCalls, T
<1>13. Complete(cs, script, n)
  BY <1>2, <1>10, <1>11 DEF Complete, N
<1>14. ASSUME D = {} PROVE cs = calls
  <2>1. DOMAIN calls = 1..k /\ \A i \in 1..k : cs[i] = calls[i]
    BY <1>7, <1>8, <1>9, <1>14
  <2>2. cs \in Seq(T) /\ calls \in Seq(T)
    BY <1>3, <1>12 DEF ToolCalls
  <2>. HIDE DEF T
  <2>3. Len(cs) = k /\ Len(calls) = k
    BY <1>2, <1>11, <2>1, <2>2, LenProperties
  <2>. QED  BY <2>1, <2>2, <2>3, SeqEqual
<1>. QED  BY <1>12, <1>13, <1>14 DEF n, cs, D
-----------------------------------------------------------------------------
\* A response is given after those before it.
LEMMA OutGrows ==
    ASSUME TypeOK, NEW r \in Responses
    PROVE  /\ Append(out, r) \in Seq(Responses)
           /\ Len(out) \in Nat /\ DOMAIN out = 1..Len(out)
           /\ DOMAIN Append(out, r) = DOMAIN out \cup {Len(out) + 1}
           /\ Append(out, r)[Len(out) + 1] = r
           /\ \A i \in DOMAIN out : i \in Nat /\ i < Len(out) + 1 /\ Append(out, r)[i] = out[i]
  BY AppendFacts DEF TypeOK

\* What the three responses are.
LEMMA ResponseFacts ==
    ASSUME NEW n \in Nat, NEW cs \in ToolCalls, NEW u \in Nat
    PROVE  /\ Text(n) \in Responses /\ Text(n).kind = "text" /\ Text(n).text = n
           /\ Final(cs, u) \in Responses /\ Final(cs, u).kind = "final"
           /\ Final(cs, u).calls = cs
           /\ Error \in Responses /\ Error.kind = "error"
<1>. DEFINE TC == ToolCalls
<1>1. <<>> \in TC
  BY DEF ToolCalls
<1>2. cs \in TC
  OBVIOUS
<1>. HIDE DEF TC
<1>3. /\ Text(n) \in [kind : {"text", "final", "error"}, text : Nat, calls : TC, usage : Nat]
      /\ Final(cs, u) \in [kind : {"text", "final", "error"}, text : Nat, calls : TC, usage : Nat]
      /\ Error \in [kind : {"text", "final", "error"}, text : Nat, calls : TC, usage : Nat]
  BY <1>1, <1>2 DEF Text, Final, Error
<1>. QED  BY <1>3 DEF Text, Final, Error, Responses, TC

\* Text n is added to the texts given so far, any other response leaves them.
LEMMA TextsGrow ==
    ASSUME NEW o \in Seq(Responses), NEW r \in Responses,
           NEW S \in SUBSET Nat, Lists(Texts(o), S)
    PROVE  /\ r.kind # "text" => Lists(Texts(Append(o, r)), S)
           /\ \A n \in Nat : (r.kind = "text" /\ r.text = n /\ \A m \in S : m < n) =>
                               Lists(Texts(Append(o, r)), S \cup {n})
<1>. DEFINE k == Len(o) + 1
            p == Append(o, r)
<1>1. /\ k \in Nat /\ DOMAIN p = DOMAIN o \cup {k} /\ p[k] = r /\ DOMAIN o \subseteq Nat
      /\ \A i \in DOMAIN o : i < k /\ p[i] = o[i]
  BY AppendFacts
<1>. HIDE DEF k, p
<1>2. ASSUME r.kind # "text" PROVE Texts(p) = Texts(o)
  <2>1. {i \in DOMAIN p : p[i].kind = "text"} = {i \in DOMAIN o : o[i].kind = "text"}
    BY <1>1, <1>2
  <2>. QED  BY <1>1, <2>1 DEF Texts
<1>3. ASSUME NEW n \in Nat, r.kind = "text", r.text = n, \A m \in S : m < n
      PROVE  Lists(Texts(p), S \cup {n})
  <2>. DEFINE f == Texts(o)
              g == Texts(p)
  <2>1. /\ DOMAIN f \subseteq Nat /\ \A i \in DOMAIN f : i < k
        /\ DOMAIN g = DOMAIN f \cup {k} /\ g[k] = n /\ \A i \in DOMAIN f : g[i] = f[i]
    BY <1>1, <1>3 DEF Texts
  <2>2. Lists(f, S)
    OBVIOUS
  <2>. HIDE DEF f, g
  <2>3. S \in SUBSET Nat /\ k \in Nat /\ n \in Nat /\ \A m \in S : m < n
    BY <1>1, <1>3
  <2>4. Lists(g, S \cup {n})
    BY <2>1, <2>2, <2>3, ListMore
  <2>. QED  BY <2>4 DEF g
<1>. QED  BY <1>2, <1>3 DEF p

\* Every step of the provider keeps the invariant.
LEMMA Steps ==
    ASSUME IInv, [Next]_vars
    PROVE  IInv'
<1>0. TypeOK /\ Lists(Texts(out), TextIn(script, pos))
  BY DEF IInv, TextFaithful
<1>1. CASE Receive
  <2>. DEFINE n  == pos + 1
              c  == script[n]
              u  == IF c.usage THEN n ELSE usage
              cs == Accumulate(n)
              o  == WithText(c, n)
  <2>1. /\ state = "reading" /\ pos < Len(script) /\ pos' = n /\ usage' = u /\ script' = script
        /\ \/ ~c.choice /\ UNCHANGED <<calls, out, state>>
           \/ c.choice /\ c.text /\ out' = o /\ state' = "stopped" /\ UNCHANGED calls
           \/ c.choice /\ calls' = cs /\ out' = o /\ UNCHANGED state
           \/ c.choice /\ calls' = cs /\ out' = Append(o, Final(cs, u)) /\ state' = "final"
    BY <1>1 DEF Receive
  <2>2. /\ pos \in Nat /\ n \in Nat /\ n \in 1..Len(script) /\ c \in Chunks /\ c.text \in BOOLEAN
        /\ ~c.choice => ~c.text /\ c.deltas = {}
    BY <1>0, <2>1, NextChunk, ChunkFacts
  <2>3. cs \in ToolCalls /\ Complete(cs, script, n) /\ (~c.choice => cs = calls)
    BY <1>0, <2>1, <2>2, Accumulates DEF IInv
  <2>4. u \in Nat /\ pos' \in 0..Len(script)
    BY <1>0, <2>1, <2>2 DEF TypeOK
  <2>5. ~c.text => o = out
    BY DEF WithText
  <2>. HIDE DEF c, u, cs, n
  <2>6. c.text => TextIn(script, n) = TextIn(script, pos) \cup {n}
    BY <2>2 DEF n, c, TextIn
  <2>7. ~c.text => TextIn(script, n) = TextIn(script, pos)
    BY <2>2 DEF n, c, TextIn
  <2>8. /\ o \in Seq(Responses) /\ Lists(Texts(o), TextIn(script, n))
        /\ \A r \in DOMAIN o : o[r].kind # "final"
    <3>1. \A r \in DOMAIN out : out[r].kind # "final"
      BY <2>1 DEF IInv
    <3>2. CASE ~c.text
      BY <1>0, <2>5, <2>7, <3>1, <3>2 DEF TypeOK
    <3>3. CASE c.text
      <4>1. o = Append(out, Text(n))
        BY <3>3 DEF WithText
      <4>2. Text(n) \in Responses /\ Text(n).kind = "text" /\ Text(n).text = n
        <5>1. <<>> \in ToolCalls
          BY DEF ToolCalls
        <5>. QED  BY <2>2, <5>1, ResponseFacts
      <4>. DEFINE S == TextIn(script, pos)
      <4>3. S \in SUBSET Nat /\ \A m \in S : m < n
        BY <2>2 DEF n, TextIn
      <4>. HIDE DEF S, o
      <4>4. Lists(Texts(o), S \cup {n})
        BY <1>0, <2>2, <4>1, <4>2, <4>3, TextsGrow DEF S, TypeOK
      <4>5. o \in Seq(Responses) /\ \A r \in DOMAIN o : o[r].kind # "final"
        BY <1>0, <3>1, <4>1, <4>2, OutGrows
      <4>. QED  BY <2>6, <3>3, <4>4, <4>5 DEF S
    <3>. QED  BY <3>2, <3>3
  <2>. HIDE DEF o
  <2>9. CASE (UNCHANGED calls \/ calls' = cs) /\ out' = o /\ state' \in {"reading", "stopped"}
             /\ (state' = "reading" => calls' = cs)
    <3>1. TextFaithful'
      BY <1>0, <2>1, <2>3, <2>4, <2>8, <2>9 DEF TextFaithful, TypeOK
    <3>2. \A r \in DOMAIN out' : out'[r].kind # "final"
      BY <2>8, <2>9
    <3>3. (state = "reading" => Complete(calls, script, pos))'
      <4>. SUFFICES ASSUME state' = "reading" PROVE Complete(calls, script, pos)'
        OBVIOUS
      <4>1. calls' = cs /\ pos' = n /\ script' = script
        BY <2>1, <2>9
      <4>. QED  BY <2>3, <4>1
    <3>. QED  BY <3>1, <3>2, <3>3 DEF IInv, ToolCallsComplete
  <2>10. CASE calls' = cs /\ out' = Append(o, Final(cs, u)) /\ state' = "final"
    <3>1. Final(cs, u) \in Responses /\ Final(cs, u).kind = "final" /\ Final(cs, u).calls = cs
      BY <2>2, <2>3, <2>4, ResponseFacts
    <3>. DEFINE f == Final(cs, u)
    <3>. HIDE DEF f
    <3>2. out' \in Seq(Responses) /\ Lists(Texts(out'), TextIn(script, n))
      <4>1. TextIn(script, n) \in SUBSET Nat
        BY <2>2 DEF TextIn
      <4>. QED  BY <2>8, <2>10, <3>1, <4>1, TextsGrow, AppendFacts
    <3>3. TextFaithful'
      BY <1>0, <2>1, <2>3, <2>4, <2>10, <3>2 DEF TextFaithful, TypeOK
    <3>4. \A r \in DOMAIN out' : out'[r].kind = "final" => out'[r].calls = cs
      BY <2>8, <2>10, <3>1, AppendFacts
    <3>5. ToolCallsComplete'
      <4>. SUFFICES ASSUME NEW r \in DOMAIN out', out'[r].kind = "final"
                    PROVE  Complete(out[r].calls, script, pos)'
        BY DEF ToolCallsComplete
      <4>1. out'[r].calls = cs /\ pos' = n /\ script' = script
        BY <2>1, <3>4
      <4>. QED  BY <2>3, <4>1
    <3>. QED  BY <2>10, <3>3, <3>5 DEF IInv
  <2>. QED  BY <2>1, <2>2, <2>3, <2>5, <2>9, <2>10
<1>2. CASE Fail
  <2>1. /\ state = "reading" /\ out' = Append(out, Error) /\ state' = "error"
        /\ UNCHANGED <<script, pos, calls, usage>>
    BY <1>2 DEF Fail
  <2>2. Error \in Responses /\ Error.kind = "error"
    <3>1. <<>> \in ToolCalls
      BY DEF ToolCalls
    <3>. QED  BY <3>1, ResponseFacts
  <2>3. out' \in Seq(Responses) /\ \A r \in DOMAIN out' : out'[r].kind # "final"
    BY <1>0, <2>1, <2>2, OutGrows DEF IInv
  <2>4. Lists(Texts(out'), TextIn(script, pos))
    <3>1. TextIn(script, pos) \in SUBSET Nat
      BY <1>0 DEF TypeOK, TextIn
    <3>. QED  BY <1>0, <2>1, <2>2, <3>1, TextsGrow DEF TypeOK
  <2>5. TextFaithful'
    BY <1>0, <2>1, <2>3, <2>4 DEF TextFaithful, TypeOK
  <2>. QED  BY <2>1, <2>3, <2>5 DEF IInv, ToolCallsComplete
<1>3. CASE End
  BY <1>3 DEF End, IInv, TextFaithful, TypeOK, ToolCallsComplete
<1>4. CASE UNCHANGED vars
  <2>1. script' = script /\ pos' = pos /\ calls' = calls /\ usage' = usage /\ out' = out
        /\ state' = state
    BY <1>4 DEF vars
  <2>. QED  BY <2>1 DEF IInv, TextFaithful, TypeOK, ToolCallsComplete
<1>. QED  BY <1>1, <1>2, <1>3, <1>4 DEF Next

-----------------------------------------------------------------------------
\* Before the first chunk.
LEMMA Initially == Init => IInv
<1>. SUFFICES ASSUME Init PROVE IInv
  OBVIOUS
<1>1. /\ script \in Scripts /\ pos = 0 /\ calls = <<>> /\ usage = 0 /\ out = <<>>
      /\ state = "reading"
  BY DEF Init
<1>2. TypeOK
  <2>1. PICK n \in Nat : script \in [1..n -> Chunks]
    BY <1>1 DEF Scripts
  <2>2. Len(script) \in Nat
    BY <2>1, SeqDef
  <2>3. <<>> \in ToolCalls /\ <<>> \in Seq(Responses)
    BY DEF ToolCalls
  <2>. QED  BY <1>1, <2>2, <2>3 DEF TypeOK
<1>3. Lists(Texts(out), TextIn(script, pos))
  BY <1>1 DEF Lists, Texts, TextIn
<1>4. Complete(calls, script, pos)
  BY <1>1 DEF Complete, Begun
<1>. QED  BY <1>1, <1>2, <1>3, <1>4 DEF IInv, TextFaithful, ToolCallsComplete

\* The invariant holds in every reachable state.
THEOREM Invariance == Spec => []IInv
<1>1. Init => IInv
  BY Initially
<1>2. IInv /\ [Next]_vars => IInv'
  BY Steps
<1>. QED  BY <1>1, <1>2, PTL DEF Spec

\* generateStreaming passes on every piece of text once and in order.
THEOREM TextsArrive == Spec => []TextFaithful
<1>1. IInv => TextFaithful
  BY DEF IInv
<1>. QED  BY <1>1, Invariance, PTL

\* The deltas of a tool call are put together to the whole call, and all calls
\* are in the final response.
THEOREM ToolCallsArrive == Spec => []ToolCallsComplete
<1>1. IInv => ToolCallsComplete
  BY DEF IInv
<1>. QED  BY <1>1, Invariance, PTL

(***************************************************************************)
(* Refinement: the kinds of the responses and whether the iteration is     *)
(* over are what ResponseStream speaks of.                                 *)
(***************************************************************************)
\* One more response is one more kind.
LEMMA KindsGrow ==
    ASSUME NEW o \in Seq(Responses), NEW r \in Responses
    PROVE  Kinds(Append(o, r)) = Append(Kinds(o), KindOf(r))
<1>. DEFINE K == {KindOf(x) : x \in Responses}
            n == Len(o)
<1>1. /\ n \in Nat /\ DOMAIN o = 1..n /\ DOMAIN Append(o, r) = 1..(n + 1)
      /\ Append(o, r)[n + 1] = r
      /\ \A i \in 1..n : o[i] \in Responses /\ Append(o, r)[i] = o[i]
  BY AppendFacts, ElementOfSeq
<1>2. Kinds(o) \in [1..n -> K] /\ KindOf(r) \in K
  BY <1>1 DEF Kinds
<1>. HIDE DEF K, n
<1>3. Kinds(o) \in Seq(K) /\ Len(Kinds(o)) = n /\ \A i \in 1..n : Kinds(o)[i] = KindOf(o[i])
  BY <1>1, <1>2, SeqDef DEF Kinds
<1>4. /\ Append(Kinds(o), KindOf(r)) \in Seq(K) /\ Len(Append(Kinds(o), KindOf(r))) = n + 1
      /\ Append(Kinds(o), KindOf(r))[n + 1] = KindOf(r)
      /\ \A i \in 1..n : Append(Kinds(o), KindOf(r))[i] = KindOf(o[i])
  BY <1>1, <1>2, <1>3, AppendProperties
<1>5. /\ DOMAIN Kinds(Append(o, r)) = 1..(n + 1)
      /\ \A i \in 1..(n + 1) : Kinds(Append(o, r))[i] = Append(Kinds(o), KindOf(r))[i]
  BY <1>1, <1>4 DEF Kinds
<1>6. Kinds(Append(o, r)) \in Seq(K) /\ Len(Kinds(Append(o, r))) = n + 1
  <2>1. Kinds(Append(o, r)) \in [1..(n + 1) -> K]
    <3>1. \A i \in 1..(n + 1) : Append(Kinds(o), KindOf(r))[i] \in K
      BY <1>1, <1>4, ElementOfSeq
    <3>. QED  BY <1>1, <1>5, <3>1 DEF Kinds
  <2>. QED  BY <1>1, <2>1, SeqDef
<1>. QED  BY <1>4, <1>5, <1>6, SeqEqual

\* Every step of the provider is a step of ResponseStream or none.
LEMMA StepRefines ==
    ASSUME IInv, [Next]_vars
    PROVE  [Abstract!Next]_<<Kinds(out), state # "reading">>
<1>1. TypeOK /\ out \in Seq(Responses) /\ pos \in Nat /\ <<>> \in ToolCalls
  BY DEF IInv, TextFaithful, TypeOK, ToolCalls
<1>2. Kinds(out)' = Kinds(out')
  BY DEF Kinds
<1>3. CASE Receive
  <2>. DEFINE n  == pos + 1
              c  == script[n]
              u  == IF c.usage THEN n ELSE usage
              cs == Accumulate(n)
              o  == WithText(c, n)
  <2>1. /\ state = "reading" /\ pos < Len(script)
        /\ \/ ~c.choice /\ UNCHANGED <<out, state>>
           \/ c.choice /\ c.text /\ out' = o /\ state' = "stopped"
           \/ c.choice /\ out' = o /\ UNCHANGED state
           \/ c.choice /\ out' = Append(o, Final(cs, u)) /\ state' = "final"
    BY <1>3 DEF Receive
  <2>2. n \in Nat /\ u \in Nat /\ cs \in ToolCalls
    BY <1>1, <2>1, Accumulates DEF IInv, TypeOK
  <2>3. /\ Text(n) \in Responses /\ KindOf(Text(n)) = "partial"
        /\ Final(cs, u) \in Responses /\ KindOf(Final(cs, u)) = "final"
    BY <1>1, <2>2, ResponseFacts DEF KindOf
  <2>. HIDE DEF n, u, cs
  <2>4. /\ o \in Seq(Responses)
        /\ ~c.text => o = out
        /\ c.text => Kinds(o) = Append(Kinds(out), "partial")
    BY <1>1, <2>3, AppendFacts, KindsGrow DEF WithText
  <2>. HIDE DEF c, o
  <2>5. CASE UNCHANGED <<out, state>>
    BY <2>5 DEF Kinds
  <2>6. CASE out' = o /\ state' \in {"reading", "stopped"} /\ c.text
    BY <1>2, <2>1, <2>4, <2>6 DEF Abstract!Next, Abstract!Give, Abstract!Partial
  <2>7. CASE out' = o /\ ~c.text /\ UNCHANGED state
    BY <2>4, <2>7 DEF Kinds
  <2>8. CASE out' = Append(o, Final(cs, u)) /\ state' = "final"
    <3>1. Kinds(out') = Append(Kinds(o), "final")
      BY <2>3, <2>4, <2>8, KindsGrow
    <3>2. Kinds(out') = Append(Kinds(out), "final")
            \/ Kinds(out') = Append(Append(Kinds(out), "partial"), "final")
      BY <2>4, <3>1
    <3>3. Abstract!Finish
      BY <1>2, <2>1, <2>8, <3>2 DEF Abstract!Finish, Abstract!Endings, Abstract!Partial
    <3>. QED  BY <3>3 DEF Abstract!Next
  <2>. QED  BY <2>1, <2>5, <2>6, <2>7, <2>8
<1>4. CASE Fail
  <2>1. Error \in Responses /\ KindOf(Error) = "error"
    BY <1>1, ResponseFacts DEF KindOf
  <2>2. Kinds(out') = Append(Kinds(out), "error") /\ state = "reading" /\ state' = "error"
    BY <1>1, <1>4, <2>1, KindsGrow DEF Fail
  <2>3. Abstract!Finish
    BY <1>2, <2>2 DEF Abstract!Finish, Abstract!Endings
  <2>. QED  BY <2>3 DEF Abstract!Next
<1>5. CASE End
  BY <1>5 DEF End, Kinds, Abstract!Next, Abstract!Quit
<1>6. CASE UNCHANGED vars
  BY <1>6 DEF vars, Kinds
<1>. QED  BY <1>3, <1>4, <1>5, <1>6 DEF Next

\* GenerateContent keeps the contract of a streaming provider: partial
\* responses, one ending at most, nothing after it.
THEOREM Refinement == Spec => ImplementsResponseStream
<1>1. Init => Abstract!Init
  BY DEF Init, Abstract!Init, Kinds
<1>. QED  BY <1>1, StepRefines, Invariance, PTL DEF Spec, ImplementsResponseStream, Abstract!Spec
=============================================================================
