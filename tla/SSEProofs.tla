------------------------------ MODULE SSEProofs ------------------------------
(***************************************************************************)
(* Proofs about SSE for streams of any length: what Read makes of the      *)
(* lines, and that the provider's loop reports a stream that breaks off.   *)
(***************************************************************************)
EXTENDS SSE, SequenceTheorems, TLAPS

\* No blank line of s from line i to line p.
Open(s, i, p) == \A k \in i..p : s[k] # "blank"

\* The event being built is of the block that line p is in: its data, and its
\* type unless a read error has torn that.
OfCurrentBlock(e, s, p) ==
    /\ \A n \in Held(e) : Open(s, n, p)
    /\ e.type >= 0 =>
          /\ \A d \in 1..p : (s[d] = "event" /\ Open(s, d, p)) => e.type >= d
          /\ e.type # 0 => /\ e.type \in 1..p /\ s[e.type] = "event"
                           /\ EveryTypeHasData(s) => Open(s, e.type, p)

\* The data of the events yielded is from blocks that have ended.
Closed(o, s, p) == \A i \in DOMAIN o : \A n \in Held(o[i]) : ~Open(s, n, p)

\* Every event in o is of one block.
OneBlockEach(o, s, p) ==
    \A i \in DOMAIN o : /\ \A a, b \in Held(o[i]) : SameBlock(s, a, b)
                        /\ OwnType(o[i], s, p)

\* Besides the properties to be proved: while an event is being built, it is of
\* the block of the last line, and the ones before it are of other blocks.
IInv ==
    /\ TypeOK
    /\ Carry(IF Building THEN Append(out, event) ELSE out, DataLines(lines, pos))
    /\ OneBlockEach(out, lines, pos)
    /\ Building => Closed(out, lines, pos) /\ OfCurrentBlock(event, lines, pos)
    /\ state = "scanning" => event.type >= 0

-----------------------------------------------------------------------------
\* append of Go: what was there stays, the new element is the last.
LEMMA AppendFacts ==
    ASSUME NEW S, NEW s \in Seq(S), NEW e \in S
    PROVE  /\ Append(s, e) \in Seq(S) /\ Len(s) \in Nat
           /\ DOMAIN s = 1..Len(s) /\ DOMAIN Append(s, e) = DOMAIN s \cup {Len(s) + 1}
           /\ Append(s, e)[Len(s) + 1] = e
           /\ \A i \in DOMAIN s : i \in Nat /\ i < Len(s) + 1 /\ Append(s, e)[i] = s[i]
  OBVIOUS

\* The events with one more behind them.
LEMMA OneMoreEvent ==
    ASSUME NEW o \in Seq(SSEEvents), NEW e \in SSEEvents
    PROVE  /\ Append(o, e) \in Seq(SSEEvents)
           /\ \E k \in Nat : /\ DOMAIN Append(o, e) = DOMAIN o \cup {k}
                             /\ Append(o, e)[k] = e
                             /\ \A i \in DOMAIN o : i \in Nat /\ i < k /\ Append(o, e)[i] = o[i]
<1>. DEFINE T == SSEEvents
<1>. HIDE DEF T
<1>1. o \in Seq(T) /\ e \in T
  BY DEF T
<1>2. /\ Append(o, e) \in Seq(T) /\ Len(o) + 1 \in Nat
      /\ DOMAIN Append(o, e) = DOMAIN o \cup {Len(o) + 1}
      /\ Append(o, e)[Len(o) + 1] = e
      /\ \A i \in DOMAIN o : i \in Nat /\ i < Len(o) + 1 /\ Append(o, e)[i] = o[i]
  BY <1>1, AppendFacts
<1>. QED  BY <1>2 DEF T

\* One more piece of data.
LEMMA DataGrows ==
    ASSUME NEW e \in SSEEvents, NEW d \in SSEEvents, NEW n \in Int,
           d.data = Append(e.data, n)
    PROVE  /\ Len(e.data) + 1 \in Nat /\ DOMAIN d.data = DOMAIN e.data \cup {Len(e.data) + 1}
           /\ d.data[Len(e.data) + 1] = n
           /\ \A i \in DOMAIN e.data : /\ i \in Nat /\ i < Len(e.data) + 1
                                       /\ d.data[i] = e.data[i]
<1>1. e.data \in Seq(Int)
  BY DEF SSEEvents
<1>. QED  BY <1>1, AppendFacts

\* A newline or a torn piece in the data: the lines held are the same.
LEMMA HeldStays ==
    ASSUME NEW e \in SSEEvents, NEW d \in SSEEvents, NEW n \in Int, n <= 0,
           d.data = Append(e.data, n)
    PROVE  /\ Places(d) = Places(e) /\ Held(d) = Held(e)
           /\ \A a \in Places(e) : d.data[a] = e.data[a]
<1>. DEFINE k == Len(e.data) + 1
<1>1. /\ DOMAIN d.data = DOMAIN e.data \cup {k} /\ d.data[k] = n
      /\ \A i \in DOMAIN e.data : i < k /\ d.data[i] = e.data[i]
  BY DataGrows
<1>2. Places(d) = Places(e) /\ \A a \in Places(e) : d.data[a] = e.data[a]
  BY <1>1 DEF Places
<1>. QED  BY <1>2 DEF Held

\* A whole data line is one more line held.
LEMMA HeldGrows ==
    ASSUME NEW e \in SSEEvents, NEW d \in SSEEvents, NEW n \in Nat, n > 0,
           d.data = Append(e.data, n)
    PROVE  /\ Held(d) = Held(e) \cup {n}
           /\ \A a \in Places(e) : d.data[a] = e.data[a]
           /\ Len(e.data) + 1 \in Nat /\ Places(d) = Places(e) \cup {Len(e.data) + 1}
           /\ d.data[Len(e.data) + 1] = n
           /\ \A a \in Places(e) : a \in Nat /\ a < Len(e.data) + 1
<1>. n \in Int
  OBVIOUS
<1>. DEFINE k == Len(e.data) + 1
<1>1. /\ k \in Nat /\ DOMAIN d.data = DOMAIN e.data \cup {k} /\ d.data[k] = n
      /\ \A i \in DOMAIN e.data : i \in Nat /\ i < k /\ d.data[i] = e.data[i]
  BY DataGrows
<1>. HIDE DEF k
<1>2. /\ Places(d) = Places(e) \cup {k}
      /\ \A a \in Places(e) : a \in Nat /\ a < k /\ d.data[a] = e.data[a]
  BY <1>1 DEF Places
<1>3. Held(d) = Held(e) \cup {n}
  <2>1. \A m \in Held(d) : m \in Held(e) \cup {n}
    BY <1>1, <1>2 DEF Held
  <2>2. \A m \in Held(e) : m \in Held(d)
    BY <1>2 DEF Held
  <2>3. n \in Held(d)
    BY <1>1, <1>2 DEF Held
  <2>. QED  BY <2>1, <2>2, <2>3
<1>. QED  BY <1>1, <1>2, <1>3 DEF k

\* The last event gets a data line that comes after all others.
LEMMA CarryMore ==
    ASSUME NEW o \in Seq(SSEEvents), NEW e \in SSEEvents, NEW d \in SSEEvents,
           NEW n \in Nat, n > 0, d.data = Append(e.data, n),
           NEW S \in SUBSET Nat, \A m \in S : m < n, Carry(Append(o, e), S)
    PROVE  Carry(Append(o, d), S \cup {n})
<1>. DEFINE p == Append(o, e)
            q == Append(o, d)
<1>1. PICK k \in Nat : /\ DOMAIN p = DOMAIN o \cup {k} /\ p[k] = e
                       /\ \A i \in DOMAIN o : i \in Nat /\ i < k /\ p[i] = o[i]
  BY OneMoreEvent
<1>2. PICK j \in Nat : /\ DOMAIN q = DOMAIN o \cup {j} /\ q[j] = d
                       /\ \A i \in DOMAIN o : i \in Nat /\ i < j /\ q[i] = o[i]
  BY OneMoreEvent
<1>. DEFINE l == Len(e.data) + 1
<1>3. /\ Held(d) = Held(e) \cup {n} /\ \A a \in Places(e) : d.data[a] = e.data[a]
      /\ l \in Nat /\ Places(d) = Places(e) \cup {l} /\ d.data[l] = n
      /\ \A a \in Places(e) : a \in Nat /\ a < l
  <2>1. n \in Nat /\ n > 0 /\ d.data = Append(e.data, n)
    OBVIOUS
  <2>2. Held(d) = Held(e) \cup {n}
    BY <2>1, HeldGrows
  <2>5. \A a \in Places(e) : d.data[a] = e.data[a]
    BY <2>1, HeldGrows
  <2>3. l \in Nat /\ Places(d) = Places(e) \cup {l} /\ d.data[l] = n
    BY <2>1, HeldGrows
  <2>4. \A a \in Places(e) : a \in Nat /\ a < l
    BY <2>1, HeldGrows
  <2>. QED  BY <2>2, <2>3, <2>4, <2>5
<1>4. /\ UNION {Held(p[i]) : i \in DOMAIN p} = S
      /\ \A i \in DOMAIN p : \A a, b \in Places(p[i]) : a < b => p[i].data[a] < p[i].data[b]
      /\ \A h, i \in DOMAIN p : \A a \in Held(p[h]), b \in Held(p[i]) : h < i => a < b
  BY DEF Carry
<1>. HIDE DEF p, q, l
<1>5. \A i \in DOMAIN p : Held(p[i]) \subseteq S
  BY <1>4
<1>6. UNION {Held(q[i]) : i \in DOMAIN q} = S \cup {n}
  <2>1. \A i \in DOMAIN q : Held(q[i]) \subseteq S \cup {n}
    BY <1>1, <1>2, <1>3, <1>5
  <2>2. \A m \in S : \E i \in DOMAIN p : m \in Held(p[i])
    BY <1>4
  <2>3. \A m \in S \cup {n} : \E i \in DOMAIN q : m \in Held(q[i])
    BY <1>1, <1>2, <1>3, <2>2
  <2>. QED  BY <2>1, <2>3
<1>7. ASSUME NEW i \in DOMAIN q, NEW a \in Places(q[i]), NEW b \in Places(q[i]), a < b
      PROVE  q[i].data[a] < q[i].data[b]
  <2>1. CASE i \in DOMAIN o
    BY <1>1, <1>2, <1>4, <1>7, <2>1
  <2>2. CASE i = j
    <3>1. \A x, y \in Places(e) : x < y => e.data[x] < e.data[y]
      BY <1>1, <1>4
    <3>2. \A x \in Places(e) : e.data[x] < n
      BY <1>1, <1>5 DEF Held
    <3>3. q[i] = d /\ a \in Places(e) /\ (b = l \/ b \in Places(e))
      BY <1>2, <1>3, <1>7, <2>2
    <3>. QED  BY <1>3, <1>7, <3>1, <3>2, <3>3
  <2>. QED  BY <1>2, <2>1, <2>2
<1>8. ASSUME NEW h \in DOMAIN q, NEW i \in DOMAIN q, NEW a \in Held(q[h]), NEW b \in Held(q[i]),
             h < i
      PROVE  a < b
  <2>1. h \in DOMAIN o
    BY <1>2, <1>8
  <2>2. h \in DOMAIN p /\ a \in Held(p[h]) /\ a \in S
    BY <1>1, <1>2, <1>5, <2>1
  <2>3. CASE i \in DOMAIN o
    BY <1>1, <1>2, <1>4, <1>8, <2>2, <2>3
  <2>4. CASE i = j
    BY <1>1, <1>2, <1>3, <1>4, <2>1, <2>2, <2>4
  <2>. QED  BY <1>2, <2>3, <2>4
<1>. QED  BY <1>6, <1>7, <1>8 DEF Carry, q

\* What the last event holds stays the same.
LEMMA CarrySame ==
    ASSUME NEW o \in Seq(SSEEvents), NEW e \in SSEEvents, NEW d \in SSEEvents,
           Places(d) = Places(e), Held(d) = Held(e),
           \A a \in Places(e) : d.data[a] = e.data[a],
           NEW S, Carry(Append(o, e), S)
    PROVE  Carry(Append(o, d), S)
<1>. DEFINE p == Append(o, e)
            q == Append(o, d)
<1>1. DOMAIN p = DOMAIN q
  BY AppendFacts
<1>2. \A i \in DOMAIN p : /\ Places(q[i]) = Places(p[i]) /\ Held(q[i]) = Held(p[i])
                          /\ \A a \in Places(p[i]) : q[i].data[a] = p[i].data[a]
  BY AppendFacts
<1>. HIDE DEF p, q
<1>3. Carry(p, S) => Carry(q, S)
  BY <1>1, <1>2 DEF Carry
<1>. QED  BY <1>3 DEF p, q

\* An event without data says nothing.
LEMMA CarryEmpty ==
    ASSUME NEW o \in Seq(SSEEvents), NEW e \in SSEEvents, e.data = <<>>, NEW S
    PROVE  Carry(Append(o, e), S) <=> Carry(o, S)
<1>. DEFINE p == Append(o, e)
<1>1. PICK k \in Nat : /\ DOMAIN p = DOMAIN o \cup {k} /\ p[k] = e
                       /\ \A i \in DOMAIN o : i \in Nat /\ i < k /\ p[i] = o[i]
  BY OneMoreEvent
<1>2. Places(e) = {} /\ Held(e) = {}
  BY DEF Places, Held
<1>. HIDE DEF p
<1>3. UNION {Held(p[i]) : i \in DOMAIN p} = UNION {Held(o[i]) : i \in DOMAIN o}
  BY <1>1, <1>2
<1>4. (\A i \in DOMAIN p : \A a, b \in Places(p[i]) : a < b => p[i].data[a] < p[i].data[b])
      <=> (\A i \in DOMAIN o : \A a, b \in Places(o[i]) : a < b => o[i].data[a] < o[i].data[b])
  BY <1>1, <1>2
<1>5. (\A h, i \in DOMAIN p : \A a \in Held(p[h]), b \in Held(p[i]) : h < i => a < b)
      <=> (\A h, i \in DOMAIN o : \A a \in Held(o[h]), b \in Held(o[i]) : h < i => a < b)
  BY <1>1, <1>2
<1>. QED  BY <1>3, <1>4, <1>5 DEF Carry, p

-----------------------------------------------------------------------------
\* When the block of line p ends, or the stream does, the event has its data
\* from one block and the type of that block.
LEMMA BlockEnds ==
    ASSUME NEW s \in Seq(Kinds), NEW p \in 0..Len(s), NEW e \in SSEEvents,
           Held(e) \subseteq DataLines(s, p), OfCurrentBlock(e, s, p)
    PROVE  /\ \A a, b \in Held(e) : SameBlock(s, a, b)
           /\ OwnType(e, s, p)
<1>1. /\ \A n \in Held(e) : n \in 1..p /\ s[n] = "data" /\ \A k \in n..p : s[k] # "blank"
      /\ p \in Nat /\ DOMAIN s = 1..Len(s) /\ Len(s) \in Nat
  BY DEF DataLines, OfCurrentBlock, Open
<1>2. \A a, b \in Held(e) : SameBlock(s, a, b)
  BY <1>1 DEF SameBlock
<1>3. ASSUME e.type >= 0, NEW n \in Held(e), NEW d \in 1..p, s[d] = "event", SameBlock(s, d, n)
      PROVE  e.type >= d
  <2>1. Open(s, d, p)
    BY <1>1, <1>3 DEF SameBlock, Open
  <2>. QED  BY <1>3, <2>1 DEF OfCurrentBlock
<1>4. ASSUME e.type >= 0, NEW n \in Held(e), EveryTypeHasData(s), e.type # 0
      PROVE  SameBlock(s, e.type, n)
  <2>1. e.type \in 1..p /\ \A k \in (e.type)..p : s[k] # "blank"
    BY <1>4 DEF OfCurrentBlock, Open
  <2>. QED  BY <1>1, <2>1 DEF SameBlock
<1>5. e.type \in Int
  BY DEF SSEEvents
<1>6. ~Torn(e) => e.type >= 0
  BY <1>5 DEF Torn
<1>. QED  BY <1>2, <1>3, <1>4, <1>6 DEF OwnType

\* One more line does not change what was yielded before.
LEMMA YieldedStay ==
    ASSUME NEW s \in Seq(Kinds), NEW p \in Nat, p < Len(s), NEW o,
           \A i \in DOMAIN o : Held(o[i]) \subseteq DataLines(s, p),
           OneBlockEach(o, s, p), s[p + 1] = "event" => Closed(o, s, p)
    PROVE  OneBlockEach(o, s, p + 1)
<1>1. DOMAIN s = 1..Len(s) /\ Len(s) \in Nat
  OBVIOUS
<1>2. ASSUME NEW i \in DOMAIN o, ~Torn(o[i]), NEW n \in Held(o[i]), NEW d \in 1..(p + 1),
             s[d] = "event", SameBlock(s, d, n)
      PROVE  o[i].type >= d
  <2>1. n \in 1..p /\ s[n] = "data"
    BY DEF DataLines
  <2>2. CASE d \in 1..p
    BY <1>2, <2>2 DEF OneBlockEach, OwnType
  <2>3. CASE d = p + 1
    <3>1. PICK k \in n..p : s[k] = "blank"
      BY <1>2, <2>3 DEF Closed, Open
    <3>2. k \in DOMAIN s /\ n < k /\ k < d
      BY <1>1, <2>1, <2>3, <3>1
    <3>. QED  BY <1>2, <3>1, <3>2 DEF SameBlock
  <2>. QED  BY <2>2, <2>3
<1>3. \A i \in DOMAIN o : OwnType(o[i], s, p + 1)
  BY <1>2 DEF OneBlockEach, OwnType
<1>. QED  BY <1>3 DEF OneBlockEach

\* A block that has ended stays so.
LEMMA ClosedStay ==
    ASSUME NEW s, NEW p \in Nat, NEW o, Closed(o, s, p)
    PROVE  Closed(o, s, p + 1)
<1>1. \A n : Open(s, n, p + 1) => Open(s, n, p)
  BY DEF Open
<1>. QED  BY <1>1 DEF Closed

\* One more event is yielded.
LEMMA YieldedGrow ==
    ASSUME NEW o \in Seq(SSEEvents), NEW e \in SSEEvents, NEW s, NEW p
    PROVE  /\ (OneBlockEach(o, s, p) /\ OwnType(e, s, p)
                 /\ \A a, b \in Held(e) : SameBlock(s, a, b)) => OneBlockEach(Append(o, e), s, p)
           /\ (Closed(o, s, p) /\ \A n \in Held(e) : ~Open(s, n, p)) => Closed(Append(o, e), s, p)
<1>. DEFINE q == Append(o, e)
<1>1. \A i \in DOMAIN q : (i \in DOMAIN o /\ q[i] = o[i]) \/ q[i] = e
  BY OneMoreEvent
<1>. HIDE DEF q
<1>2. (OneBlockEach(o, s, p) /\ OwnType(e, s, p)
        /\ \A a, b \in Held(e) : SameBlock(s, a, b)) => OneBlockEach(q, s, p)
  BY <1>1 DEF OneBlockEach
<1>3. (Closed(o, s, p) /\ \A n \in Held(e) : ~Open(s, n, p)) => Closed(q, s, p)
  BY <1>1 DEF Closed
<1>. QED  BY <1>2, <1>3 DEF q

\* What Carry says of each event.
LEMMA CarryFacts ==
    ASSUME NEW o \in Seq(SSEEvents), NEW e \in SSEEvents, NEW S, Carry(Append(o, e), S)
    PROVE  /\ Held(e) \subseteq S /\ \A i \in DOMAIN o : Held(o[i]) \subseteq S
           /\ \A n \in S : n \in Held(e) \/ \E i \in DOMAIN o : n \in Held(o[i])
<1>. DEFINE q == Append(o, e)
<1>1. /\ \E k \in DOMAIN q : q[k] = e
      /\ \A i \in DOMAIN o : i \in DOMAIN q /\ q[i] = o[i]
      /\ \A i \in DOMAIN q : (i \in DOMAIN o /\ q[i] = o[i]) \/ q[i] = e
  BY OneMoreEvent
<1>2. UNION {Held(q[i]) : i \in DOMAIN q} = S
  BY DEF Carry
<1>. HIDE DEF q
<1>3. \A i \in DOMAIN q : Held(q[i]) \subseteq S
  BY <1>2
<1>4. \A n \in S : \E i \in DOMAIN q : n \in Held(q[i])
  BY <1>2
<1>. QED  BY <1>1, <1>3, <1>4

-----------------------------------------------------------------------------
\* A line that is not blank, of each kind, becomes a part of the event.
LEMMA FieldKeeps ==
    ASSUME NEW s \in Seq(Kinds), NEW p \in Nat, p < Len(s), s[p + 1] # "blank",
           NEW o \in Seq(SSEEvents), event \in SSEEvents, event.type >= 0,
           Carry(Append(o, event), DataLines(s, p)), OfCurrentBlock(event, s, p),
           NEW d, d = Field(s[p + 1], p + 1)
    PROVE  /\ d \in SSEEvents /\ d.type >= 0
           /\ Carry(Append(o, d), DataLines(s, p + 1)) /\ OfCurrentBlock(d, s, p + 1)
<1>. DEFINE n == p + 1
            e == event
<1>0. Carry(Append(o, e), DataLines(s, p)) /\ OfCurrentBlock(e, s, p) /\ e.type >= 0
  OBVIOUS
<1>1. /\ DOMAIN s = 1..Len(s) /\ Len(s) \in Nat /\ n \in DOMAIN s /\ n \in Nat /\ n > 0
      /\ s[n] \in Kinds
  BY ElementOfSeq
<1>2. /\ e = [type |-> e.type, data |-> e.data] /\ e.type \in Int /\ e.data \in Seq(Int)
      /\ e \in SSEEvents
  BY DEF SSEEvents
<1>3. \A i \in 1..p : Open(s, i, n) <=> Open(s, i, p)
  BY <1>1 DEF Open
<1>4. Open(s, n, n)
  BY <1>1 DEF Open
<1>5. DataLines(s, n) = IF s[n] = "data" THEN DataLines(s, p) \cup {n} ELSE DataLines(s, p)
  BY <1>1 DEF DataLines
<1>6. Held(e) \subseteq DataLines(s, p)
  BY CarryFacts
<1>7. DataLines(s, p) \in SUBSET Nat /\ \A m \in DataLines(s, p) : m \in 1..p /\ m < n
  BY DEF DataLines
<1>8. /\ \A m \in Held(e) : Open(s, m, n)
      /\ \A i \in 1..p : (s[i] = "event" /\ Open(s, i, n)) => e.type >= i
      /\ e.type # 0 => /\ e.type \in 1..p /\ s[e.type] = "event"
                       /\ EveryTypeHasData(s) => Open(s, e.type, n)
  BY <1>3, <1>6, <1>7 DEF OfCurrentBlock
<1>. SUFFICES /\ d \in SSEEvents /\ d.type >= 0
              /\ Carry(Append(o, d), DataLines(s, n)) /\ OfCurrentBlock(d, s, n)
  OBVIOUS
<1>. HIDE DEF n, e
<1>9. CASE s[n] = "event"
  <2>1. d = [type |-> n, data |-> e.data]
    BY <1>2, <1>9 DEF Field, n, e
  <2>2. d \in SSEEvents /\ d.type = n /\ d.data = e.data
    BY <1>1, <1>2, <2>1 DEF SSEEvents
  <2>3. Places(d) = Places(e) /\ Held(d) = Held(e)
    BY <2>2 DEF Places, Held
  <2>4. Carry(Append(o, d), DataLines(s, n))
    BY <1>0, <1>2, <1>5, <1>9, <2>2, <2>3, CarrySame
  <2>5. OfCurrentBlock(d, s, n)
    BY <1>1, <1>4, <1>8, <1>9, <2>2, <2>3 DEF OfCurrentBlock, n
  <2>. QED  BY <1>1, <2>2, <2>4, <2>5
<1>10. ASSUME s[n] # "event", d \in SSEEvents, d.type = e.type,
              \A m \in Held(d) : Open(s, m, n)
       PROVE  d.type >= 0 /\ OfCurrentBlock(d, s, n)
  <2>1. \A i \in 1..n : s[i] = "event" => i \in 1..p
    BY <1>10 DEF n
  <2>2. e.type \in 1..p => e.type \in 1..n
    BY <1>2 DEF n
  <2>. QED  BY <1>8, <1>10, <2>1, <2>2 DEF OfCurrentBlock
<1>11. CASE s[n] = "data"
  <2>. DEFINE g == Append(e.data, n)
  <2>1. d = [type |-> e.type, data |-> g]
    BY <1>2, <1>11 DEF Field, n, e
  <2>0. g \in Seq(Int)
    BY <1>1, <1>2
  <2>. HIDE DEF g
  <2>2. d \in SSEEvents /\ d.type = e.type /\ d.data = g
    BY <1>2, <2>0, <2>1 DEF SSEEvents
  <2>3. Held(d) = Held(e) \cup {n}
    <3>1. d.data = Append(e.data, n)
      BY <2>2 DEF g
    <3>2. n \in Nat /\ n > 0 /\ e \in SSEEvents /\ d \in SSEEvents
      BY <1>1, <1>2, <2>2
    <3>. QED  BY ONLY <3>1, <3>2, HeldGrows
  <2>4. Carry(Append(o, d), DataLines(s, p) \cup {n})
    BY <1>0, <1>1, <1>2, <1>7, <2>2, CarryMore DEF g
  <2>5. OfCurrentBlock(d, s, n) /\ d.type >= 0
    BY <1>4, <1>8, <1>10, <1>11, <2>2, <2>3
  <2>. QED  BY <1>5, <1>11, <2>2, <2>4, <2>5
<1>12. CASE s[n] = "emptyData" /\ e.data # <<>>
  <2>. DEFINE g == Append(e.data, 0)
  <2>1. d = [type |-> e.type, data |-> g]
    BY <1>2, <1>12 DEF Field, n, e
  <2>0. g \in Seq(Int)
    BY <1>2
  <2>. HIDE DEF g
  <2>2. d \in SSEEvents /\ d.type = e.type /\ d.data = g
    BY <1>2, <2>0, <2>1 DEF SSEEvents
  <2>3. /\ Places(d) = Places(e) /\ Held(d) = Held(e)
        /\ \A a \in Places(e) : d.data[a] = e.data[a]
    <3>1. d.data = Append(e.data, 0) /\ 0 \in Int /\ 0 <= 0
      BY <2>2 DEF g
    <3>2. Places(d) = Places(e) /\ Held(d) = Held(e)
      BY <1>2, <2>2, <3>1, HeldStays
    <3>3. \A a \in Places(e) : d.data[a] = e.data[a]
      BY <1>2, <2>2, <3>1, HeldStays
    <3>. QED  BY <3>2, <3>3
  <2>4. Carry(Append(o, d), DataLines(s, n))
    BY <1>0, <1>2, <1>5, <1>12, <2>2, <2>3, CarrySame
  <2>5. OfCurrentBlock(d, s, n) /\ d.type >= 0
    BY <1>8, <1>10, <1>12, <2>2, <2>3
  <2>. QED  BY <2>2, <2>4, <2>5
<1>13. CASE s[n] = "other" \/ (s[n] = "emptyData" /\ e.data = <<>>)
  <2>1. d = e
    BY <1>13 DEF Field, n, e
  <2>2. OfCurrentBlock(d, s, n) /\ d.type >= 0
    BY <1>2, <1>8, <1>10, <1>13, <2>1
  <2>. QED  BY <1>0, <1>2, <1>5, <1>13, <2>1, <2>2
<1>14. \/ s[n] = "event" \/ s[n] = "data" \/ (s[n] = "emptyData" /\ e.data # <<>>)
       \/ (s[n] = "other" \/ (s[n] = "emptyData" /\ e.data = <<>>))
  BY <1>1 DEF Kinds, n
<1>. QED  BY <1>9, <1>11, <1>12, <1>13, <1>14

-----------------------------------------------------------------------------
\* A blank line after an event without data: the type it may have has no data
\* in its block.
LEMMA BlankSkips ==
    ASSUME NEW s \in Seq(Kinds), NEW p \in Nat, p < Len(s), s[p + 1] = "blank",
           NEW o \in Seq(SSEEvents), NEW e \in SSEEvents, e.data = <<>>, e.type >= 0,
           Carry(Append(o, e), DataLines(s, p)), OfCurrentBlock(e, s, p), Closed(o, s, p)
    PROVE  OfCurrentBlock(e, s, p + 1)
<1>1. DOMAIN s = 1..Len(s) /\ Len(s) \in Nat
  OBVIOUS
<1>2. Held(e) = {}
  BY DEF Held, Places
<1>3. \A d \in 1..(p + 1) : ~Open(s, d, p + 1)
  BY DEF Open
<1>4. ASSUME e.type # 0, EveryTypeHasData(s) PROVE FALSE
  <2>. DEFINE t == e.type
  <2>1. t \in 1..p /\ s[t] = "event" /\ Open(s, t, p) /\ t \in DOMAIN s
    BY <1>1, <1>4 DEF OfCurrentBlock
  <2>. HIDE DEF t
  <2>2. PICK k \in DOMAIN s : s[k] = "data" /\ SameBlock(s, t, k)
    BY <1>4, <2>1 DEF EveryTypeHasData
  <2>3. k \in 1..p
    <3>1. ~(t < p + 1 /\ p + 1 < k) /\ k # p + 1
      BY <1>1, <2>2 DEF SameBlock
    <3>. QED  BY <1>1, <2>1, <2>2, <3>1
  <2>4. PICK i \in DOMAIN o : k \in Held(o[i])
    <3>1. k \in DataLines(s, p)
      BY <2>2, <2>3 DEF DataLines
    <3>. QED  BY <1>2, <3>1, CarryFacts
  <2>5. PICK j \in k..p : s[j] = "blank"
    BY <2>4 DEF Closed, Open
  <2>6. j \in DOMAIN s /\ j # t /\ j # k /\ ~(t <= j)
    BY <1>1, <2>1, <2>2, <2>3, <2>5 DEF Open
  <2>. QED  BY <1>1, <2>1, <2>2, <2>3, <2>5, <2>6 DEF SameBlock
<1>5. e.type # 0 => e.type \in 1..(p + 1) /\ s[e.type] = "event"
  BY DEF OfCurrentBlock
<1>. QED  BY <1>2, <1>3, <1>4, <1>5 DEF OfCurrentBlock

\* A new event starts empty after a blank line.
LEMMA NewEvent ==
    ASSUME NEW s, NEW p \in Nat, s[p + 1] = "blank"
    PROVE  NoEvent \in SSEEvents /\ NoEvent.type = 0 /\ OfCurrentBlock(NoEvent, s, p + 1)
<1>1. NoEvent \in SSEEvents /\ NoEvent.type = 0 /\ Held(NoEvent) = {}
  BY DEF NoEvent, SSEEvents, Held, Places
<1>2. \A d \in 1..(p + 1) : ~Open(s, d, p + 1)
  BY DEF Open
<1>. QED  BY <1>1, <1>2 DEF OfCurrentBlock

\* What a read error leaves of a line is no whole data line, and no type.
LEMMA RemainderKeeps ==
    ASSUME NEW s, NEW p, NEW o \in Seq(SSEEvents), event \in SSEEvents, NEW S,
           Carry(Append(o, event), S), OfCurrentBlock(event, s, p),
           NEW k \in {"data", "event", "emptyData"}, NEW n \in Int,
           n < 0 \/ k = "emptyData", NEW d, d = Field(k, n)
    PROVE  /\ d \in SSEEvents /\ Carry(Append(o, d), S) /\ OfCurrentBlock(d, s, p)
<1>. DEFINE e == event
<1>1. /\ e = [type |-> e.type, data |-> e.data] /\ e.type \in Int /\ e.data \in Seq(Int)
      /\ e \in SSEEvents
  BY DEF SSEEvents
<1>2. Carry(Append(o, e), S) /\ OfCurrentBlock(e, s, p)
  OBVIOUS
<1>3. \/ d = e \/ (d = [type |-> n, data |-> e.data] /\ n < 0)
      \/ \E m \in Int : m <= 0 /\ d = [type |-> e.type, data |-> Append(e.data, m)]
  <2>. DEFINE G(m) == [type |-> e.type, data |-> Append(e.data, m)]
  <2>1. k = "event" => d = [type |-> n, data |-> e.data]
    BY <1>1 DEF Field
  <2>2. k = "data" => d = G(n)
    BY <1>1 DEF Field
  <2>3. k = "emptyData" => (d = e \/ d = G(0))
    BY <1>1 DEF Field
  <2>4. SUFFICES \/ d = e \/ (d = [type |-> n, data |-> e.data] /\ n < 0)
                 \/ \E m \in Int : m <= 0 /\ d = G(m)
    OBVIOUS
  <2>. HIDE DEF G
  <2>5. CASE k = "data"
    BY <2>2, <2>5
  <2>6. CASE k = "event"
    BY <2>1, <2>6
  <2>7. CASE k = "emptyData"
    BY <2>3, <2>7
  <2>. QED  BY <2>5, <2>6, <2>7
<1>. HIDE DEF e
<1>4. CASE d = e
  BY <1>1, <1>2, <1>4
<1>5. CASE d = [type |-> n, data |-> e.data] /\ n < 0
  <2>1. d \in SSEEvents /\ d.type = n /\ d.data = e.data
    BY <1>1, <1>5 DEF SSEEvents
  <2>2. Places(d) = Places(e) /\ Held(d) = Held(e)
    BY <2>1 DEF Places, Held
  <2>3. Carry(Append(o, d), S)
    BY <1>1, <1>2, <2>1, <2>2, CarrySame
  <2>. QED  BY <1>2, <1>5, <2>1, <2>2, <2>3 DEF OfCurrentBlock
<1>6. ASSUME NEW m \in Int, m <= 0, d = [type |-> e.type, data |-> Append(e.data, m)]
      PROVE  /\ d \in SSEEvents /\ Carry(Append(o, d), S) /\ OfCurrentBlock(d, s, p)
  <2>. DEFINE g == Append(e.data, m)
  <2>1. g \in Seq(Int)
    BY <1>1
  <2>2. d = [type |-> e.type, data |-> g]
    BY <1>6
  <2>. HIDE DEF g
  <2>3. d \in SSEEvents /\ d.type = e.type /\ d.data = g
    BY <1>1, <2>1, <2>2 DEF SSEEvents
  <2>4. d.data = Append(e.data, m)
    BY <2>3 DEF g
  <2>5. Places(d) = Places(e) /\ Held(d) = Held(e)
    BY <1>1, <1>6, <2>3, <2>4, HeldStays
  <2>6. \A a \in Places(e) : d.data[a] = e.data[a]
    BY <1>1, <1>6, <2>3, <2>4, HeldStays
  <2>7. Carry(Append(o, d), S)
    BY <1>1, <1>2, <2>3, <2>5, <2>6, CarrySame
  <2>. QED  BY <1>2, <2>3, <2>5, <2>7 DEF OfCurrentBlock
<1>. QED  BY <1>3, <1>4, <1>5, <1>6

-----------------------------------------------------------------------------
\* Every step of the reader and of the loop around it keeps the invariant.
LEMMA Steps ==
    ASSUME IInv, [Next]_vars
    PROVE  IInv'
<1>. DEFINE S == DataLines(lines, pos)
<1>0. /\ lines \in Seq(Kinds) /\ Len(lines) <= MaxLines /\ pos \in 0..Len(lines) /\ pos \in Nat
      /\ event \in SSEEvents /\ out \in Seq(SSEEvents) /\ Len(lines) \in Nat
      /\ provider \in {"openai", "anthropic"}
      /\ outcome \in {"reading", "ended", "left", "error", "silent"}
      /\ closing \in SUBSET ClosingLines(provider, lines)
      /\ state \in {"scanning", "rest", "failed", "stopped", "done"}
      /\ OneBlockEach(out, lines, pos)
      /\ state = "scanning" => event.type >= 0
  BY DEF IInv, TypeOK
<1>1. ASSUME state \in {"scanning", "rest", "failed"}
      PROVE  /\ Carry(Append(out, event), S) /\ Closed(out, lines, pos)
             /\ OfCurrentBlock(event, lines, pos) /\ Held(event) \subseteq S
             /\ \A i \in DOMAIN out : Held(out[i]) \subseteq S
             /\ OneBlockEach(Append(out, event), lines, pos)
  <2>1. /\ Carry(Append(out, event), S) /\ Closed(out, lines, pos)
        /\ OfCurrentBlock(event, lines, pos)
    BY <1>1 DEF IInv, Building
  <2>. HIDE DEF S
  <2>2. Held(event) \subseteq S /\ \A i \in DOMAIN out : Held(out[i]) \subseteq S
    BY <1>0, <2>1, CarryFacts
  <2>. USE DEF S
  <2>3. (\A a, b \in Held(event) : SameBlock(lines, a, b)) /\ OwnType(event, lines, pos)
    BY <1>0, <2>1, <2>2, BlockEnds
  <2>4. OneBlockEach(Append(out, event), lines, pos)
    BY <1>0, <2>3, YieldedGrow
  <2>. QED  BY <2>1, <2>2, <2>4
<1>2. \A e : Consume(e) \subseteq {"reading", "ended", "left", "error", "silent"}
  BY DEF Consume, ConsumeAnthropic, ConsumeOpenAI
<1>3. CASE ScanLine
  <2>. DEFINE n == pos + 1
  <2>1. /\ state = "scanning" /\ pos < Len(lines) /\ pos' = n /\ UNCHANGED <<lines, closing, provider>>
        /\ n \in 0..Len(lines)
    BY <1>0, <1>3 DEF ScanLine
  <2>2. /\ Carry(Append(out, event), S) /\ Closed(out, lines, pos)
        /\ OfCurrentBlock(event, lines, pos) /\ Held(event) \subseteq S
        /\ \A i \in DOMAIN out : Held(out[i]) \subseteq S
        /\ OneBlockEach(Append(out, event), lines, pos) /\ event.type >= 0
    BY <1>0, <1>1, <2>1
  <2>3. Closed(out, lines, n)
    BY <1>0, <2>2, ClosedStay
  <2>4. OneBlockEach(out, lines, n)
    BY <1>0, <2>1, <2>2, YieldedStay
  <2>5. lines[n] = "blank" => DataLines(lines, n) = S
    BY <1>0 DEF DataLines
  <2>6. ASSUME event' \in SSEEvents, event'.type >= 0, UNCHANGED <<out, state, outcome>>,
               Carry(Append(out, event'), DataLines(lines, n)), OfCurrentBlock(event', lines, n)
        PROVE  IInv'
    BY <1>0, <2>1, <2>3, <2>4, <2>6 DEF IInv, TypeOK, Building
  <2>7. CASE lines[n] # "blank"
    <3>1. event' = Field(lines[n], n) /\ UNCHANGED <<out, state, outcome>>
      BY <1>3, <2>7 DEF ScanLine
    <3>2. /\ event' \in SSEEvents /\ event'.type >= 0
          /\ Carry(Append(out, event'), DataLines(lines, n)) /\ OfCurrentBlock(event', lines, n)
      BY <1>0, <2>1, <2>2, <2>7, <3>1, FieldKeeps
    <3>. QED  BY <2>6, <3>1, <3>2
  <2>8. CASE lines[n] = "blank" /\ event.data = <<>>
    <3>1. UNCHANGED <<event, out, state, outcome>>
      BY <1>3, <2>8 DEF ScanLine
    <3>2. OfCurrentBlock(event, lines, n)
      BY <1>0, <2>1, <2>2, <2>8, BlankSkips
    <3>. QED  BY <1>0, <2>2, <2>5, <2>6, <2>8, <3>1, <3>2
  <2>9. CASE lines[n] = "blank" /\ event.data # <<>>
    <3>. DEFINE q == Append(out, event)
    <3>1. /\ out' = q /\ outcome' \in Consume(event)
          /\ \/ outcome' = "reading" /\ event' = NoEvent /\ UNCHANGED state
             \/ outcome' # "reading" /\ state' = "stopped" /\ UNCHANGED event
      BY <1>3, <2>9 DEF ScanLine, AfterYield
    <3>2. q \in Seq(SSEEvents) /\ Carry(q, S) /\ OneBlockEach(q, lines, pos)
      BY <1>0, <2>2, OneMoreEvent
    <3>3. \A i \in DOMAIN q : Held(q[i]) \subseteq S
      BY <1>0, <2>2, OneMoreEvent
    <3>4. OneBlockEach(q, lines, n)
      <4>. HIDE DEF q
      <4>. QED  BY <1>0, <2>1, <2>9, <3>2, <3>3, YieldedStay
    <3>5. Closed(q, lines, n)
      <4>1. \A m \in Held(event) : ~Open(lines, m, n)
        BY <1>0, <2>2, <2>9 DEF DataLines, Open
      <4>. QED  BY <1>0, <2>3, <4>1, YieldedGrow
    <3>6. NoEvent \in SSEEvents /\ NoEvent.type = 0 /\ OfCurrentBlock(NoEvent, lines, n)
      BY <1>0, <2>9, NewEvent
    <3>. HIDE DEF q, S
    <3>7. Carry(Append(q, NoEvent), S)
      BY <3>2, <3>6, CarryEmpty DEF NoEvent
    <3>. QED  BY <1>0, <1>2, <2>1, <2>5, <2>9, <3>1, <3>2, <3>4, <3>5, <3>6, <3>7
              DEF IInv, TypeOK, Building
  <2>. QED  BY <2>7, <2>8, <2>9
<1>4. CASE EndOfStream
  <2>1. /\ state = "scanning" /\ state' = "rest"
        /\ UNCHANGED <<lines, closing, pos, event, out, provider, outcome>>
    BY <1>4 DEF EndOfStream
  <2>. QED  BY <1>0, <1>1, <2>1 DEF IInv, TypeOK, Building
<1>5. CASE ReadError
  <2>1. /\ state = "scanning" /\ state' = "failed"
        /\ UNCHANGED <<lines, closing, pos, out, provider, outcome>>
    BY <1>5 DEF ReadError
  <2>2. /\ event' \in SSEEvents /\ Carry(Append(out, event'), S)
        /\ OfCurrentBlock(event', lines, pos)
    <3>1. \/ UNCHANGED event
          \/ \E k \in {"data", "event", "emptyData"}, n \in Int :
                (n < 0 \/ k = "emptyData") /\ event' = Field(k, n)
      BY <1>0, <1>5 DEF ReadError
    <3>2. Carry(Append(out, event), S) /\ OfCurrentBlock(event, lines, pos)
      BY <1>1, <2>1
    <3>. HIDE DEF S
    <3>. QED  BY <1>0, <3>1, <3>2, RemainderKeeps
  <2>. QED  BY <1>0, <1>1, <2>1, <2>2 DEF IInv, TypeOK, Building
<1>6. CASE Rest
  <2>1. /\ state \in {"rest", "failed"} /\ state' \in {"stopped", "done"}
        /\ out' = IF event.data # <<>> THEN Append(out, event) ELSE out
        /\ UNCHANGED <<lines, closing, pos, event, provider>>
        /\ outcome' \in {"reading", "ended", "left", "error", "silent"}
    BY <1>2, <1>6 DEF Rest
  <2>2. out' \in Seq(SSEEvents) /\ Carry(out', S) /\ OneBlockEach(out', lines, pos)
    <3>. HIDE DEF S
    <3>1. CASE event.data # <<>>
      BY <1>0, <1>1, <2>1, <3>1, OneMoreEvent
    <3>2. CASE event.data = <<>>
      BY <1>0, <1>1, <2>1, <3>2, CarryEmpty
    <3>. QED  BY <3>1, <3>2
  <2>. QED  BY <1>0, <2>1, <2>2 DEF IInv, TypeOK, Building
<1>7. CASE UNCHANGED vars
  <2>1. UNCHANGED <<provider, outcome, lines, closing, pos, event, out, state>>
    BY <1>7 DEF vars
  <2>. QED  BY <2>1 DEF IInv, TypeOK, Building
<1>. QED  BY <1>3, <1>4, <1>5, <1>6, <1>7 DEF Next

\* Before the first line.
LEMMA Initially == Init => IInv
<1>. SUFFICES ASSUME Init PROVE IInv
  OBVIOUS
<1>1. /\ pos = 0 /\ event = NoEvent /\ out = <<>> /\ state = "scanning" /\ outcome = "reading"
      /\ provider \in {"openai", "anthropic"}
      /\ closing \in SUBSET ClosingLines(provider, lines)
  BY DEF Init
<1>2. lines \in Seq(Kinds) /\ Len(lines) <= MaxLines /\ Len(lines) \in Nat
  <2>1. PICK m \in 0..MaxLines : lines \in [1..m -> Kinds]
    BY DEF Init
  <2>2. m \in Nat /\ m <= MaxLines
    BY SSEAssumption
  <2>. QED  BY <2>1, <2>2, SeqDef
<1>3. /\ NoEvent \in SSEEvents /\ NoEvent.type = 0 /\ NoEvent.data = <<>>
      /\ Held(NoEvent) = {}
  BY DEF NoEvent, SSEEvents, Held, Places
<1>4. TypeOK
  BY <1>1, <1>2, <1>3 DEF TypeOK
<1>5. DataLines(lines, pos) = {}
  BY <1>1 DEF DataLines
<1>6. Carry(out, {}) /\ OneBlockEach(out, lines, pos) /\ Closed(out, lines, pos)
  BY <1>1 DEF Carry, OneBlockEach, Closed
<1>7. Carry(Append(out, event), {})
  BY <1>1, <1>3, <1>4, <1>6, CarryEmpty DEF TypeOK
<1>8. OfCurrentBlock(event, lines, pos)
  BY <1>1, <1>3 DEF OfCurrentBlock
<1>9. Carry(IF Building THEN Append(out, event) ELSE out, DataLines(lines, pos))
  BY <1>5, <1>6, <1>7
<1>10. event.type = 0
  BY <1>1, <1>3
<1>. QED  BY <1>4, <1>6, <1>8, <1>9, <1>10 DEF IInv

\* The invariant holds in every reachable state.
THEOREM Invariance == Spec => []IInv
<1>1. Init => IInv
  BY Initially
<1>2. IInv /\ [Next]_vars => IInv'
  BY Steps
<1>. QED  BY <1>1, <1>2, PTL DEF Spec

\* Read passes on every data line once, in order and in an event of its block,
\* however the stream ends.
THEOREM DataArrives == Spec => []DataIntact
<1>1. IInv => DataIntact
  BY DEF IInv, DataIntact, OneBlockEach
<1>. QED  BY <1>1, Invariance, PTL

\* Read gives every event the type of the block its data is from.
THEOREM TypesMatch == Spec => []TypeOfItsBlock
<1>1. IInv => TypeOfItsBlock
  BY DEF IInv, TypeOfItsBlock, OneBlockEach
<1>. QED  BY <1>1, Invariance, PTL

\* A loop that an event has left with a final response, for its consumer or
\* without a word has had such an event.
LEMMA Exits ==
    ASSUME NEW out1 \in Consume(event)
    PROVE  /\ out1 = "ended"  => Announces(event)
           /\ out1 = "left"   => ~Cut(event)
           /\ out1 = "silent" => /\ provider # "anthropic"
                                 /\ \E n \in closing : event.data = <<n>>
<1>1. CASE provider = "anthropic"
  <2>1. out1 \in ConsumeAnthropic(event)
    BY <1>1 DEF Consume
  <2>2. event.type \in closing => out1 = "ended"
    BY <2>1 DEF ConsumeAnthropic
  <2>3. event.type \notin closing => out1 \in {"reading", "error"} \/ (out1 = "left" /\ ~Cut(event))
    BY <2>1 DEF ConsumeAnthropic
  <2>. QED  BY <1>1, <2>2, <2>3 DEF Announces
<1>2. CASE provider # "anthropic"
  <2>1. out1 \in ConsumeOpenAI(event)
    BY <1>2 DEF Consume
  <2>2. CASE event.data \in {<<n>> : n \in closing}
    <3>1. out1 = "silent" /\ \E n \in closing : event.data = <<n>>
      BY <2>1, <2>2 DEF ConsumeOpenAI
    <3>. QED  BY <1>2, <3>1
  <2>3. CASE event.data \notin {<<n>> : n \in closing}
    <3>1. Cut(event) => out1 = "error"
      BY <2>1, <2>3 DEF ConsumeOpenAI
    <3>2. out1 \in {"reading", "ended", "error", "left"}
      BY <2>1, <2>3 DEF ConsumeOpenAI
    <3>. QED  BY <1>2, <3>1, <3>2 DEF Announces
  <2>. QED  BY <2>2, <2>3
<1>. QED  BY <1>1, <1>2

\* The loop of a provider around Read reports a stream that broke off, unless
\* the last event it is given ends the answer.
THEOREM BreaksAreReported == Spec => BreakReported
<1>. DEFINE P == state = "failed" =>
                   /\ outcome' # "reading"
                   /\ outcome' = "ended"  => Announces(event)
                   /\ outcome' = "left"   => ~Cut(event)
                   /\ outcome' = "silent" => /\ provider = "openai"
                                             /\ \E n \in closing : event.data = <<n>>
<1>1. ASSUME IInv, [Next]_vars PROVE [P]_vars
  <2>1. ASSUME state = "failed", Rest PROVE P
    <3>1. outcome' = "error" \/ outcome' \in Consume(event) \ {"reading"}
      BY <2>1 DEF Rest
    <3>2. provider \in {"openai", "anthropic"}
      BY <1>1 DEF IInv, TypeOK
    <3>3. CASE outcome' = "error"
      BY <3>3
    <3>4. CASE outcome' \in Consume(event) \ {"reading"}
      <4>1. /\ outcome' = "ended"  => Announces(event)
            /\ outcome' = "left"   => ~Cut(event)
            /\ outcome' = "silent" => /\ provider # "anthropic"
                                      /\ \E n \in closing : event.data = <<n>>
        BY <3>4, Exits
      <4>. QED  BY <3>2, <3>4, <4>1
    <3>. QED  BY <3>1, <3>3, <3>4
  <2>2. state = "failed" => ~ScanLine /\ ~EndOfStream /\ ~ReadError
    BY DEF ScanLine, EndOfStream, ReadError
  <2>. QED  BY <1>1, <2>1, <2>2 DEF Next
<1>. QED  BY <1>1, Invariance, PTL DEF Spec, BreakReported
=============================================================================
