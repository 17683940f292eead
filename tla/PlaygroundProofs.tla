-------------------------- MODULE PlaygroundProofs --------------------------
(***************************************************************************)
(* Proofs about Playground for any number of turns, connections and        *)
(* events.  What the tab shows depends on what is still on its way to it,  *)
(* so the invariant follows a turn through the current connection: from    *)
(* the inbox (Waiting) through the goroutine and the outbox (Serving) to   *)
(* the tab's being ready again (Idle), or to a reconnect while it still    *)
(* waits for an answer of an earlier connection (Stale).  Once a turn has  *)
(* gone on after a final event, all that is on its way on that connection  *)
(* is of that turn or of later ones (Aftermath).                           *)
(***************************************************************************)
EXTENDS Playground, TLAPS

\* The tab: while it waits for an answer the bubble of that turn is current, and
\* a turn sent on the current connection was sent after it opened.
Tab ==
    /\ streaming => turns > 0 /\ bubble = turns
    /\ turns > 0 => via[turns] <= conn
    /\ (turns > 0 /\ socket = "connecting") => via[turns] < conn
    /\ (streaming /\ button) => via[turns] < conn
    /\ socket = "closed" => ~up[conn] \/ handler[conn] = "gone"

\* What history holds is of turns that were sent, on connections that were opened.
Past ==
    /\ overrun \subseteq 1..turns
    /\ \A s \in shown : s[1] <= turns
    /\ \A t \in 1..turns : via[t] <= conn

\* A connection that was cut has nothing in flight, a later one does not exist
\* yet, an earlier one was cut or never had a session.
Link(n) ==
    /\ ~up[n] => inbox[n] = <<>> /\ outbox[n] = <<>>
    /\ n > conn => ~up[n] /\ handler[n] = "none"
    /\ n < conn => ~up[n] \/ handler[n] = "gone"
    /\ n = conn => handler[n] # "none"
    /\ handler[n] # "chatting" => writes[n] = <<>>
    /\ handler[n] = "chatting" => turn[n] \in 1..turns /\ via[turn[n]] = n
    /\ handler[n] = "session" => outbox[n] = <<>>

Links == \A n \in Conns : Link(n)

\* Events of turn t none of which, or the last and only the last of which,
\* makes the tab ready again.
Final(e)     == e.type \in {"done", "error"}
Partial(s, t)  == \A i \in DOMAIN s : s[i].turn = t /\ ~Final(s[i])
Complete(s, t) == /\ s # <<>>
                  /\ \A i \in DOMAIN s : s[i].turn = t /\ (Final(s[i]) <=> i = Len(s))

\* The goroutine of n is not in the middle of an answer.
Ready(n) == /\ outbox[n] = <<>> /\ writes[n] = <<>>
            /\ handler[n] = "chatting" => finished[n]

\* What the tab and the goroutine of n are doing together.
Idle(n)    == ~streaming /\ inbox[n] = <<>> /\ Ready(n)
Stale(n)   == /\ streaming /\ via[turns] < n /\ inbox[n] = <<>> /\ Ready(n)
              /\ handler[n] # "chatting"
Waiting(n) == streaming /\ via[turns] = n /\ inbox[n] = <<turns>> /\ Ready(n)
Serving(n) ==
    /\ streaming /\ via[turns] = n /\ inbox[n] = <<>>
    /\ handler[n] \in {"chatting", "reading"}
    /\ handler[n] = "chatting" => turn[n] = turns
    /\ \/ /\ Partial(outbox[n], turns) /\ Partial(writes[n], turns)
          /\ handler[n] = "chatting" => ~finished[n]
       \/ /\ Partial(outbox[n], turns) /\ Complete(writes[n], turns)
          /\ handler[n] = "chatting" /\ finished[n]
       \/ /\ Complete(outbox[n], turns) /\ writes[n] = <<>>
          /\ handler[n] = "chatting" => finished[n]

\* No turn of n has gone on after a final event.
Clean(n) == \A u \in overrun : via[u] # n

\* Turn t of n is one that has, or comes after one.
Tainted(t, n) == t \in 1..turns /\ via[t] = n /\ \E u \in overrun : via[u] = n /\ u <= t
TaintedAll(s, n) == \A i \in DOMAIN s : Tainted(s[i].turn, n)

\* All that is on its way on n is of such turns.
Aftermath(n) ==
    /\ \A i \in DOMAIN inbox[n] : Tainted(inbox[n][i], n)
    /\ TaintedAll(outbox[n], n) /\ TaintedAll(writes[n], n)
    /\ handler[n] = "chatting" => Tainted(turn[n], n)

Pipe ==
    up[conn] =>
        IF handler[conn] = "gone"
          THEN \A i \in DOMAIN outbox[conn] : outbox[conn][i] = Message("error", 0)
          ELSE IF Clean(conn)
                 THEN Idle(conn) \/ Stale(conn) \/ Waiting(conn) \/ Serving(conn)
                 ELSE Aftermath(conn)

IInv == TypeOK /\ Tab /\ Past /\ Links /\ Pipe /\ AnswerInOwnMessage

-----------------------------------------------------------------------------
\* The tab takes the first of the events that are on their way to it.
LEMMA TakeFirst ==
    ASSUME NEW s \in Seq(Messages), s # <<>>, NEW t
    PROVE  /\ Head(s) \in Messages /\ Tail(s) \in Seq(Messages)
           /\ Partial(s, t) =>
                 Head(s).turn = t /\ ~Final(Head(s)) /\ Partial(Tail(s), t)
           /\ Complete(s, t) =>
                 /\ Head(s).turn = t
                 /\ Final(Head(s)) => Tail(s) = <<>>
                 /\ ~Final(Head(s)) => Complete(Tail(s), t)
<1>. DEFINE M == Messages
<1>1. s \in Seq(M) /\ s # <<>>
  OBVIOUS
<1>. HIDE DEF M
<1>2. /\ Len(s) \in Nat \ {0} /\ DOMAIN s = 1..Len(s) /\ Head(s) = s[1] /\ Head(s) \in M
      /\ Tail(s) \in Seq(M) /\ Len(Tail(s)) = Len(s) - 1
      /\ DOMAIN Tail(s) = 1..(Len(s) - 1)
      /\ \A i \in 1..(Len(s) - 1) : Tail(s)[i] = s[i + 1]
  BY <1>1
<1>3. Partial(s, t) => Head(s).turn = t /\ ~Final(Head(s)) /\ Partial(Tail(s), t)
  BY <1>2 DEF Partial
<1>4. ASSUME Complete(s, t)
      PROVE  /\ Head(s).turn = t
             /\ Final(Head(s)) => Tail(s) = <<>>
             /\ ~Final(Head(s)) => Complete(Tail(s), t)
  <2>1. Head(s).turn = t /\ (Final(Head(s)) <=> Len(s) = 1)
    BY <1>2, <1>4 DEF Complete
  <2>2. Len(s) = 1 => Tail(s) = <<>>
    BY <1>2
  <2>3. Len(s) # 1 => Tail(s) # <<>>
    BY <1>2
  <2>4. \A i \in DOMAIN Tail(s) : Tail(s)[i].turn = t /\ (Final(Tail(s)[i]) <=> i = Len(Tail(s)))
    BY <1>2, <1>4 DEF Complete
  <2>. QED  BY <2>1, <2>2, <2>3, <2>4 DEF Complete
<1>. QED  BY <1>2, <1>3, <1>4 DEF M

\* The goroutine writes one more event of the turn.
LEMMA PutLast ==
    ASSUME NEW s \in Seq(Messages), NEW m \in Messages, Partial(s, m.turn)
    PROVE  /\ Append(s, m) \in Seq(Messages)
           /\ ~Final(m) => Partial(Append(s, m), m.turn)
           /\ Final(m) => Complete(Append(s, m), m.turn)
<1>. DEFINE M == Messages
<1>1. s \in Seq(M) /\ m \in M
  OBVIOUS
<1>. HIDE DEF M
<1>2. /\ Append(s, m) \in Seq(M) /\ Len(Append(s, m)) = Len(s) + 1 /\ Len(s) \in Nat
      /\ DOMAIN s = 1..Len(s)
      /\ DOMAIN Append(s, m) = 1..(Len(s) + 1) /\ Append(s, m)[Len(s) + 1] = m
      /\ \A i \in 1..Len(s) : Append(s, m)[i] = s[i]
  BY <1>1
<1>3. Append(s, m) # <<>>
  BY <1>2
<1>. QED  BY <1>2, <1>3 DEF Partial, Complete, M

\* Events of a turn before others of the same turn.
LEMMA Join ==
    ASSUME NEW s \in Seq(Messages), NEW r \in Seq(Messages), NEW t, Partial(s, t)
    PROVE  /\ s \o r \in Seq(Messages)
           /\ Partial(r, t) => Partial(s \o r, t)
           /\ Complete(r, t) => Complete(s \o r, t)
<1>. DEFINE M == Messages
<1>1. s \in Seq(M) /\ r \in Seq(M)
  OBVIOUS
<1>. HIDE DEF M
<1>2. /\ s \o r \in Seq(M) /\ Len(s) \in Nat /\ Len(r) \in Nat
      /\ DOMAIN s = 1..Len(s) /\ DOMAIN r = 1..Len(r)
      /\ Len(s \o r) = Len(s) + Len(r) /\ DOMAIN (s \o r) = 1..(Len(s) + Len(r))
      /\ \A i \in 1..(Len(s) + Len(r)) :
            (s \o r)[i] = IF i <= Len(s) THEN s[i] ELSE r[i - Len(s)]
  BY <1>1
<1>3. \A i \in 1..(Len(s) + Len(r)) :
         \/ i \in DOMAIN s /\ (s \o r)[i] = s[i]
         \/ i - Len(s) \in DOMAIN r /\ (s \o r)[i] = r[i - Len(s)]
  BY <1>2
<1>4. Partial(r, t) => Partial(s \o r, t)
  BY <1>2, <1>3 DEF Partial
<1>5. ASSUME Complete(r, t) PROVE Complete(s \o r, t)
  <2>1. Len(r) > 0 /\ s \o r # <<>>
    BY <1>1, <1>2, <1>5 DEF Complete
  <2>2. ASSUME NEW i \in 1..(Len(s) + Len(r))
        PROVE (s \o r)[i].turn = t /\ (Final((s \o r)[i]) <=> i = Len(s \o r))
    <3>1. CASE i <= Len(s)
      BY <1>2, <2>1, <3>1 DEF Partial
    <3>2. CASE i > Len(s)
      <4>1. i - Len(s) \in DOMAIN r /\ (s \o r)[i] = r[i - Len(s)]
        BY <1>2, <3>2
      <4>2. r[i - Len(s)].turn = t /\ (Final(r[i - Len(s)]) <=> i - Len(s) = Len(r))
        BY <1>5, <4>1 DEF Complete
      <4>. QED  BY <1>2, <4>1, <4>2
    <3>. QED  BY <1>2, <3>1, <3>2
  <2>. QED  BY <1>2, <2>1, <2>2 DEF Complete
<1>. QED  BY <1>2, <1>4, <1>5 DEF M

\* What streamChat writes of an event: the done marker is last, if there is one.
LEMMA EventShape ==
    ASSUME NEW t \in 0..MaxTurns,
           NEW tools \in BOOLEAN, NEW text \in BOOLEAN, NEW final \in BOOLEAN
    PROVE  /\ EventWrites(t, tools, text, final) \in Seq(Messages)
           /\ ~final => Partial(EventWrites(t, tools, text, final), t)
           /\ final => Complete(EventWrites(t, tools, text, final), t)
<1>. DEFINE call == Message("tool_call", t)
            said == Message("text", t)
            done == Message("done", t)
            calls == IF tools THEN <<call>> ELSE <<>>
            texts == IF text THEN <<said>> ELSE <<>>
            dones == IF final THEN <<done>> ELSE <<>>
<1>1. /\ call \in Messages /\ call.turn = t /\ ~Final(call)
      /\ said \in Messages /\ said.turn = t /\ ~Final(said)
      /\ done \in Messages /\ done.turn = t /\ Final(done)
  BY PlaygroundAssumption DEF Message, Messages, EventTypes, Final
<1>2. EventWrites(t, tools, text, final) = (calls \o texts) \o dones
  BY DEF EventWrites
<1>. HIDE DEF call, said, done
<1>3. calls \in Seq(Messages) /\ Partial(calls, t)
  BY <1>1 DEF Partial
<1>4. texts \in Seq(Messages) /\ Partial(texts, t)
  BY <1>1 DEF Partial
<1>5. /\ dones \in Seq(Messages)
      /\ final => Complete(dones, t)
      /\ ~final => Partial(dones, t)
  BY <1>1 DEF Partial, Complete
<1>. HIDE DEF calls, texts, dones
<1>6. calls \o texts \in Seq(Messages) /\ Partial(calls \o texts, t)
  BY <1>3, <1>4, Join
<1>7. /\ (calls \o texts) \o dones \in Seq(Messages)
      /\ ~final => Partial((calls \o texts) \o dones, t)
      /\ final => Complete((calls \o texts) \o dones, t)
  BY <1>5, <1>6, Join
<1>. QED  BY <1>2, <1>7

\* A step that leaves connection m alone.
SameAt(m) ==
    /\ up'[m] = up[m] /\ inbox'[m] = inbox[m] /\ outbox'[m] = outbox[m]
    /\ handler'[m] = handler[m] /\ turn'[m] = turn[m] /\ writes'[m] = writes[m]
    /\ finished'[m] = finished[m]

\* The elements of a queue after one was taken from it or put into it.
LEMMA Elements ==
    ASSUME NEW S, NEW s \in Seq(S), NEW e \in S
    PROVE  /\ Append(s, e) \in Seq(S)
           /\ \A i \in DOMAIN Append(s, e) :
                 Append(s, e)[i] = e \/ \E j \in DOMAIN s : Append(s, e)[i] = s[j]
           /\ s # <<>> => /\ 1 \in DOMAIN s /\ Head(s) = s[1] /\ Head(s) \in S
                          /\ Tail(s) \in Seq(S)
                          /\ \A i \in DOMAIN Tail(s) : \E j \in DOMAIN s : Tail(s)[i] = s[j]
<1>1. /\ Append(s, e) \in Seq(S)
      /\ \A i \in DOMAIN Append(s, e) :
            Append(s, e)[i] = e \/ \E j \in DOMAIN s : Append(s, e)[i] = s[j]
  OBVIOUS
<1>2. ASSUME s # <<>>
      PROVE  /\ 1 \in DOMAIN s /\ Head(s) = s[1] /\ Head(s) \in S
             /\ Tail(s) \in Seq(S)
             /\ \A i \in DOMAIN Tail(s) : \E j \in DOMAIN s : Tail(s)[i] = s[j]
  <2>1. /\ Len(s) \in Nat \ {0} /\ DOMAIN s = 1..Len(s) /\ Head(s) = s[1] /\ Head(s) \in S
        /\ Tail(s) \in Seq(S) /\ DOMAIN Tail(s) = 1..(Len(s) - 1)
        /\ \A i \in 1..(Len(s) - 1) : Tail(s)[i] = s[i + 1]
    BY <1>2
  <2>2. \A i \in 1..(Len(s) - 1) : i + 1 \in 1..Len(s)
    BY <2>1
  <2>. QED  BY <2>1, <2>2
<1>. QED  BY <1>1, <1>2

\* The same of messages: what is on its way is of tainted turns.
LEMMA TaintedQueue ==
    ASSUME NEW s \in Seq(Messages), NEW n, TaintedAll(s, n)
    PROVE  /\ \A m \in Messages : Tainted(m.turn, n) => TaintedAll(Append(s, m), n)
           /\ s # <<>> => Tainted(Head(s).turn, n) /\ TaintedAll(Tail(s), n)
<1>. DEFINE M == Messages
<1>1. s \in Seq(M)
  OBVIOUS
<1>. HIDE DEF M
<1>2. ASSUME NEW m \in M, Tainted(m.turn, n) PROVE TaintedAll(Append(s, m), n)
  <2>1. \A i \in DOMAIN Append(s, m) :
           Append(s, m)[i] = m \/ \E j \in DOMAIN s : Append(s, m)[i] = s[j]
    BY <1>1, Elements
  <2>. QED  BY <1>2, <2>1 DEF TaintedAll
<1>3. ASSUME s # <<>> PROVE Tainted(Head(s).turn, n) /\ TaintedAll(Tail(s), n)
  <2>1. s[1] \in M
    BY <1>1, <1>3
  <2>2. /\ 1 \in DOMAIN s /\ Head(s) = s[1]
        /\ \A i \in DOMAIN Tail(s) : \E j \in DOMAIN s : Tail(s)[i] = s[j]
    BY <1>1, <1>3, <2>1, Elements
  <2>. QED  BY <2>2 DEF TaintedAll
<1>. QED  BY <1>2, <1>3 DEF M

\* A turn that is tainted stays so.
LEMMA TaintStays ==
    ASSUME turns \in Nat, turns' \in Nat, turns <= turns', overrun \subseteq 1..turns,
           overrun \subseteq overrun', \A t \in 1..turns : via'[t] = via[t]
    PROVE  \A t, n : Tainted(t, n) => Tainted(t, n)'
<1>. SUFFICES ASSUME NEW t, NEW n, Tainted(t, n) PROVE Tainted(t, n)'
  OBVIOUS
<1>1. t \in 1..turns /\ via[t] = n
  BY DEF Tainted
<1>2. PICK u \in overrun : via[u] = n /\ u <= t
  BY DEF Tainted
<1>3. t \in 1..turns' /\ via'[t] = n /\ u \in overrun' /\ via'[u] = n
  BY <1>1, <1>2
<1>. QED  BY <1>2, <1>3 DEF Tainted

\* What a goroutine, or the network, does to its connection is all that a step
\* of theirs can change.
LEMMA OnlyAt ==
    ASSUME Links, Pipe, Past, conn \in Conns, turns \in Nat, NEW n \in Conns,
           UNCHANGED <<conn, streaming, turns, via>>,
           overrun \subseteq overrun', \A u \in overrun' \ overrun : via[u] = n,
           \A m \in Conns \ {n} : SameAt(m),
           Link(n)', n = conn => Pipe'
    PROVE  Links' /\ Pipe'
<1>1. ASSUME NEW m \in Conns PROVE Link(m)'
  BY <1>1 DEF Links, Link, SameAt
<1>2. CASE n # conn
  <2>1. SameAt(conn)
    BY <1>2
  <2>2. Clean(conn)' <=> Clean(conn)
    BY <1>2 DEF Clean
  <2>3. \A t, m : Tainted(t, m) => Tainted(t, m)'
    BY TaintStays DEF Past
  <2>4. Aftermath(conn) => Aftermath(conn)'
    BY <2>1, <2>3 DEF Aftermath, TaintedAll, SameAt
  <2>5. (Idle(conn) \/ Stale(conn) \/ Waiting(conn) \/ Serving(conn))
            => (Idle(conn) \/ Stale(conn) \/ Waiting(conn) \/ Serving(conn))'
    BY <2>1 DEF Idle, Stale, Waiting, Serving, Ready, SameAt, Partial, Complete
  <2>. QED  BY <1>1, <2>1, <2>2, <2>4, <2>5 DEF Links, Pipe, SameAt
<1>. QED  BY <1>1, <1>2 DEF Links

\* The turns that are on their way on n while its goroutine takes an event.
OnItsWay(t, n) == \/ t = turn[n] \/ \E i \in DOMAIN inbox[n] : t = inbox[n][i]
                  \/ \E i \in DOMAIN outbox[n] : t = outbox[n][i].turn

\* When a turn goes on after a final event, or one before it has done so, what
\* is on its way on the connection is of that turn or of later ones.
LEMMA Enter ==
    ASSUME TypeOK, Tab, Past, Links, Pipe, NEW n \in Conns, n = conn, up[n],
           handler[n] = "chatting", writes[n] = <<>>,
           ~(Clean(n) /\ ~finished[n]), finished[n] => turn[n] \in overrun',
           overrun \subseteq overrun', UNCHANGED <<turns, via>>
    PROVE  \A t : OnItsWay(t, n) => Tainted(t, n)'
<1>1. turns \in Nat /\ overrun \subseteq 1..turns
  BY DEF TypeOK, BrowserTypeOK, Past
<1>2. turn[n] \in 1..turns /\ via[turn[n]] = n
  BY DEF Links, Link
<1>3. CASE Clean(n)
  <2>1. turn[n] \in overrun' /\ finished[n]
    BY <1>3
  <2>2. \A t \in 1..turns : (via[t] = n /\ t >= turn[n]) => Tainted(t, n)'
    BY <1>1, <1>2, <2>1 DEF Tainted
  <2>3. Idle(n) \/ Waiting(n) \/ Serving(n)
    BY <1>3 DEF Pipe, Stale
  <2>4. ASSUME NEW t, OnItsWay(t, n) PROVE t \in 1..turns /\ via[t] = n /\ t >= turn[n]
    <3>1. CASE Idle(n)
      BY <1>1, <1>2, <2>4, <3>1 DEF OnItsWay, Idle, Ready
    <3>2. CASE Waiting(n)
      BY <1>1, <1>2, <2>4, <3>2 DEF OnItsWay, Waiting, Ready
    <3>3. CASE Serving(n)
      BY <1>1, <1>2, <2>4, <3>3 DEF OnItsWay, Serving, Partial, Complete
    <3>. QED  BY <2>3, <3>1, <3>2, <3>3
  <2>. QED  BY <2>2, <2>4
<1>4. CASE ~Clean(n)
  <2>1. \A t, m : Tainted(t, m) => Tainted(t, m)'
    BY <1>1, TaintStays
  <2>2. \A t : OnItsWay(t, n) => Tainted(t, n)
    BY <1>4 DEF Pipe, Aftermath, TaintedAll, OnItsWay
  <2>. QED  BY <2>1, <2>2
<1>. QED  BY <1>3, <1>4

\* What each part of the invariant depends on.
LEMMA Frames ==
    /\ BrowserTypeOK /\ UNCHANGED <<conn, socket, streaming, button, bubble, turns, via,
          shown>> => BrowserTypeOK'
    /\ LinkTypeOK /\ UNCHANGED <<up, inbox, outbox>> => LinkTypeOK'
    /\ ServerTypeOK /\ UNCHANGED <<handler, turn, writes, given, finished, silent,
          overrun>> => ServerTypeOK'
    /\ Tab /\ UNCHANGED <<bubble, streaming, turns, via, conn, socket, button, up,
          handler>> => Tab'
    /\ Past /\ UNCHANGED <<overrun, turns, shown, via, conn>> => Past'
    /\ Links /\ UNCHANGED <<conn, turns, via, up, inbox, outbox, handler, turn,
          writes>> => Links'
    /\ Pipe /\ UNCHANGED <<conn, streaming, turns, via, up, inbox, outbox, handler, writes,
          turn, finished, overrun>> => Pipe'
    /\ AnswerInOwnMessage /\ UNCHANGED <<shown, overrun, via>> => AnswerInOwnMessage'
<1>1. BrowserTypeOK /\ UNCHANGED <<conn, socket, streaming, button, bubble, turns, via,
      shown>> => BrowserTypeOK'
  BY DEF BrowserTypeOK
<1>2. LinkTypeOK /\ UNCHANGED <<up, inbox, outbox>> => LinkTypeOK'
  BY DEF LinkTypeOK
<1>3. ServerTypeOK /\ UNCHANGED <<handler, turn, writes, given, finished, silent,
      overrun>> => ServerTypeOK'
  BY DEF ServerTypeOK
<1>4. Tab /\ UNCHANGED <<bubble, streaming, turns, via, conn, socket, button, up,
      handler>> => Tab'
  BY DEF Tab
<1>5. Past /\ UNCHANGED <<overrun, turns, shown, via, conn>> => Past'
  BY DEF Past
<1>6. Links /\ UNCHANGED <<conn, turns, via, up, inbox, outbox, handler, turn,
      writes>> => Links'
  BY DEF Links, Link
<1>7. Pipe /\ UNCHANGED <<conn, streaming, turns, via, up, inbox, outbox, handler, writes,
      turn, finished, overrun>> => Pipe'
  BY DEF Pipe, Idle, Stale, Waiting, Serving, Ready, Partial, Complete, Clean, Aftermath,
         TaintedAll, Tainted
<1>8. AnswerInOwnMessage /\ UNCHANGED <<shown, overrun, via>> => AnswerInOwnMessage'
  BY DEF AnswerInOwnMessage, Overrun
<1>. QED  BY <1>1, <1>2, <1>3, <1>4, <1>5, <1>6, <1>7, <1>8

\* Every step of the tab, the network and the goroutines keeps the invariant.
LEMMA Steps ==
    ASSUME IInv, [Next]_vars
    PROVE  IInv'
<1>. USE DEF TypeOK
<1>1. CASE OnOpen
  <2>1. UNCHANGED <<up, inbox, outbox, handler, turn, writes, given, finished, silent, overrun,
        conn, streaming, turns, via, shown>>
    BY <1>1 DEF OnOpen, browserVars, linkVars, serverVars
  <2>2. BrowserTypeOK'
    BY <1>1 DEF OnOpen, browserVars, linkVars, serverVars, IInv, BrowserTypeOK
  <2>3. Tab'
    BY <1>1 DEF OnOpen, browserVars, linkVars, serverVars, IInv, Tab, BrowserTypeOK
  <2>. QED  BY <2>1, <2>2, <2>3, Frames DEF IInv
<1>2. CASE SendMessage
  <2>0. /\ socket = "open" /\ ~streaming /\ turns < MaxTurns /\ turns' = turns + 1
        /\ via' = [via EXCEPT ![turns + 1] = conn]
        /\ inbox' = IF up[conn] THEN [inbox EXCEPT ![conn] = Append(@, turns + 1)] ELSE inbox
        /\ streaming' = TRUE /\ button' = FALSE /\ bubble' = turns + 1
    BY <1>2 DEF SendMessage
  <2>1. UNCHANGED <<conn, socket, shown, up, outbox, handler, turn, writes, given,
                    finished, silent, overrun>>
    BY <1>2 DEF SendMessage, serverVars
  <2>2. /\ conn \in Conns /\ turns + 1 \in 1..MaxTurns /\ turns + 1 # 0
        /\ via'[turns + 1] = conn
    BY <2>0, PlaygroundAssumption DEF IInv, BrowserTypeOK
  <2>3. BrowserTypeOK'
    <3>1. bubble' \in 0..Stray /\ turns' \in 0..MaxTurns
      BY <2>0, <2>2, PlaygroundAssumption DEF Stray
    <3>2. via' \in [1..MaxTurns -> Conns]
      BY <2>0, <2>2 DEF IInv, BrowserTypeOK
    <3>. QED  BY <2>0, <2>1, <3>1, <3>2 DEF IInv, BrowserTypeOK
  <2>4. LinkTypeOK'
    <3>1. Append(inbox[conn], turns + 1) \in Seq(1..MaxTurns)
      BY <2>2 DEF IInv, LinkTypeOK
    <3>. QED  BY <2>0, <2>1, <2>2, <3>1 DEF IInv, LinkTypeOK
  <2>5. Tab'
    BY <2>0, <2>1, <2>2 DEF Tab, Conns, IInv, BrowserTypeOK
  <2>8. /\ turns \in Nat /\ turns' \in Nat /\ turns < turns'
        /\ \A t \in 1..turns : via'[t] = via[t] /\ t \in 1..turns' /\ t \in 1..MaxTurns
    BY <2>0, PlaygroundAssumption DEF IInv, BrowserTypeOK
  <2>9. Past'
    <3>1. overrun \subseteq 1..turns' /\ \A s \in shown : s[1] <= turns'
      <4>1. \A s \in shown : s[1] \in Nat /\ s[1] <= turns
        BY DEF IInv, Past, BrowserTypeOK
      <4>. QED  BY <2>8, <4>1 DEF IInv, Past
    <3>2. ASSUME NEW t \in 1..turns' PROVE via'[t] <= conn
      <4>1. conn \in Nat
        BY <2>2, PlaygroundAssumption DEF Conns
      <4>2. CASE t = turns + 1
        BY <2>2, <4>1, <4>2
      <4>3. CASE t # turns + 1
        BY <2>0, <2>8, <4>3 DEF IInv, Past
      <4>. QED  BY <4>2, <4>3
    <3>. QED  BY <2>1, <3>1, <3>2 DEF Past
  <2>10. AnswerInOwnMessage'
    <3>1. SUFFICES ASSUME NEW s \in shown, s[1] # 0, ~(s[2] = s[1]) PROVE Overrun(s[1])'
      BY <2>1 DEF AnswerInOwnMessage
    <3>2. s[1] \in 1..turns
      BY <2>8, <3>1 DEF IInv, Past, BrowserTypeOK
    <3>3. PICK u \in overrun : via[u] = via[s[1]] /\ u <= s[1]
      BY <3>1 DEF IInv, AnswerInOwnMessage, Overrun
    <3>4. u \in overrun' /\ via'[u] = via'[s[1]]
      BY <2>1, <2>8, <3>2, <3>3 DEF IInv, Past
    <3>. QED  BY <3>3, <3>4 DEF Overrun
  <2>6. Links'
    <3>1. ASSUME NEW n \in Conns PROVE Link(n)'
      <4>1. n # conn => inbox'[n] = inbox[n]
        BY <2>0, <2>2 DEF IInv, LinkTypeOK
      <4>2. ~up[n] => inbox'[n] = <<>>
        BY <2>0, <4>1 DEF IInv, Links, Link
      <4>3. handler[n] = "chatting" => turn[n] \in 1..turns' /\ via'[turn[n]] = n
        BY <2>8 DEF IInv, Links, Link
      <4>. QED  BY <2>1, <4>2, <4>3 DEF IInv, Links, Link
    <3>. QED  BY <3>1 DEF Links
  <2>7. Pipe'
    <3>1. SUFFICES ASSUME up[conn] PROVE Pipe'
      BY <2>1 DEF Pipe
    <3>2. CASE handler[conn] = "gone"
      BY <2>1, <3>1, <3>2 DEF IInv, Pipe
    <3>3. CASE handler[conn] # "gone" /\ Clean(conn)
      <4>1. Idle(conn)
        BY <2>0, <3>1, <3>3 DEF IInv, Pipe, Stale, Waiting, Serving
      <4>2. inbox'[conn] = <<turns + 1>>
        BY <2>0, <2>2, <3>1, <4>1 DEF IInv, LinkTypeOK, Idle
      <4>3. Waiting(conn)'
        BY <2>0, <2>1, <2>2, <4>1, <4>2 DEF Idle, Waiting, Ready
      <4>4. Clean(conn)'
        BY <2>1, <2>8, <3>3 DEF IInv, Past, Clean
      <4>. QED  BY <2>1, <3>3, <4>3, <4>4 DEF Pipe
    <3>4. CASE handler[conn] # "gone" /\ ~Clean(conn)
      <4>1. Aftermath(conn)
        BY <3>1, <3>4 DEF IInv, Pipe
      <4>2. \A t, n : Tainted(t, n) => Tainted(t, n)'
        BY <2>1, <2>8, TaintStays DEF IInv, Past
      <4>3. PICK u \in overrun : via[u] = conn
        BY <3>4 DEF Clean
      <4>4. u \in 1..turns /\ u \in overrun' /\ via'[u] = conn /\ u <= turns + 1
        BY <2>1, <2>8, <4>3 DEF IInv, Past
      <4>5. \A t : t = turns + 1 => Tainted(t, conn)'
        BY <2>0, <2>1, <2>2, <2>8, <4>4 DEF Tainted
      <4>6. (\A i \in DOMAIN inbox[conn] : Tainted(inbox[conn][i], conn))'
        <5>. DEFINE T == 1..MaxTurns
        <5>1. inbox[conn] \in Seq(T) /\ turns + 1 \in T
          BY <2>2 DEF IInv, LinkTypeOK
        <5>2. inbox'[conn] = Append(inbox[conn], turns + 1)
          BY <2>0, <2>2, <3>1 DEF IInv, LinkTypeOK
        <5>. HIDE DEF T
        <5>3. \A i \in DOMAIN inbox'[conn] :
                 \/ inbox'[conn][i] = turns + 1
                 \/ \E j \in DOMAIN inbox[conn] : inbox'[conn][i] = inbox[conn][j]
          BY <5>1, <5>2, Elements
        <5>4. ASSUME NEW i \in DOMAIN inbox'[conn], NEW t, t = inbox'[conn][i]
              PROVE  Tainted(t, conn)'
          <6>1. CASE t = turns + 1
            BY <4>5, <6>1
          <6>2. CASE \E j \in DOMAIN inbox[conn] : t = inbox[conn][j]
            <7>1. Tainted(t, conn)
              BY <4>1, <6>2 DEF Aftermath
            <7>. QED  BY <2>1, <4>2, <7>1
          <6>. QED  BY <5>3, <5>4, <6>1, <6>2
        <5>. QED  BY <2>1, <5>4
      <4>7. Aftermath(conn)'
        BY <2>1, <4>1, <4>2, <4>6 DEF Aftermath, TaintedAll
      <4>8. ~Clean(conn)'
        BY <2>1, <4>4 DEF Clean
      <4>. QED  BY <2>1, <3>4, <4>7, <4>8 DEF Pipe
    <3>. QED  BY <3>2, <3>3, <3>4
  <2>. QED  BY <2>1, <2>3, <2>4, <2>5, <2>6, <2>7, <2>9, <2>10, Frames DEF IInv
<1>3. CASE OnMessage
  <2>. DEFINE e == Head(outbox[conn])
  <2>0. /\ socket = "open" /\ outbox[conn] # <<>>
        /\ outbox' = [outbox EXCEPT ![conn] = Tail(@)]
        /\ \/ /\ e.type \in {"text", "tool_call"} /\ Show(e)
              /\ bubble' = IF bubble = None THEN Stray ELSE bubble
              /\ UNCHANGED <<streaming, button>>
           \/ /\ e.type \in {"done", "error"}
              /\ IF e.type = "error" THEN Show(e) ELSE UNCHANGED shown
              /\ bubble' = None /\ streaming' = FALSE /\ button' = TRUE
    BY <1>3 DEF OnMessage
  <2>1. UNCHANGED <<conn, socket, turns, via, up, inbox, handler, turn, writes, given,
                    finished, silent, overrun>>
    BY <1>3 DEF OnMessage, serverVars
  <2>2. conn \in Conns /\ outbox[conn] \in Seq(Messages)
    BY DEF IInv, BrowserTypeOK, LinkTypeOK
  <2>3. /\ up[conn] /\ e \in Messages /\ Tail(outbox[conn]) \in Seq(Messages)
        /\ outbox'[conn] = Tail(outbox[conn])
    BY <2>0, <2>2, TakeFirst DEF IInv, Links, Link, LinkTypeOK
  <2>4. e.turn \in 0..MaxTurns /\ e.type \in EventTypes
    BY <2>3 DEF Messages
  <2>5. CASE handler[conn] = "gone"
    <3>1. \A i \in DOMAIN outbox[conn] : outbox[conn][i] = Message("error", 0)
      BY <2>3, <2>5 DEF IInv, Pipe
    <3>2. /\ e = Message("error", 0)
          /\ \A i \in DOMAIN outbox'[conn] : outbox'[conn][i] = Message("error", 0)
      <4>. DEFINE M == Messages
      <4>1. outbox[conn] \in Seq(M) /\ outbox[conn] # <<>>
        BY <2>0, <2>2
      <4>. HIDE DEF M
      <4>. QED  BY <2>3, <3>1, <4>1
    <3>3. e.type = "error" /\ e.turn = 0
      BY <3>2 DEF Message
    <3>. HIDE DEF e
    <3>4. bubble' = None /\ streaming' = FALSE /\ button' = TRUE
      BY <2>0, <3>3
    <3>5. shown' = shown \cup {<<0, IF bubble = None THEN Stray ELSE bubble>>}
      BY <2>0, <3>3 DEF Show
    <3>6. BrowserTypeOK'
      <4>1. bubble' \in 0..Stray /\ shown' \subseteq (0..MaxTurns) \X (1..Stray)
        BY <3>4, <3>5, PlaygroundAssumption DEF IInv, BrowserTypeOK, None, Stray
      <4>. QED  BY <2>1, <3>4, <4>1 DEF IInv, BrowserTypeOK
    <3>7. LinkTypeOK'
      BY <2>0, <2>1, <2>3 DEF IInv, LinkTypeOK
    <3>8. Tab'
      BY <2>0, <2>1, <3>4 DEF IInv, Tab
    <3>9. Links'
      BY <2>0, <2>1, <2>2, <2>3 DEF IInv, Links, Link, LinkTypeOK
    <3>10. Pipe'
      BY <2>1, <2>5, <3>2 DEF Pipe
    <3>11. AnswerInOwnMessage'
      BY <2>1, <3>5 DEF IInv, AnswerInOwnMessage, Overrun
    <3>12. Past'
      BY <2>1, <3>5 DEF IInv, Past, BrowserTypeOK
    <3>. QED  BY <2>1, <3>6, <3>7, <3>8, <3>9, <3>10, <3>11, <3>12, Frames DEF IInv
  <2>7. CASE handler[conn] # "gone" /\ ~Clean(conn)
    <3>1. Aftermath(conn) /\ ~Clean(conn)'
      BY <2>1, <2>3, <2>7 DEF IInv, Pipe, Clean
    <3>2. Tainted(e.turn, conn) /\ TaintedAll(outbox'[conn], conn)
      BY <2>0, <2>2, <2>3, <3>1, TaintedQueue DEF Aftermath
    <3>. HIDE DEF e
    <3>3. shown' \subseteq shown \cup {<<e.turn, IF bubble = None THEN Stray ELSE bubble>>}
      BY <2>0 DEF Show
    <3>4. (IF bubble = None THEN Stray ELSE bubble) \in 1..Stray /\ Stray \in Nat
      BY PlaygroundAssumption DEF IInv, BrowserTypeOK, None, Stray
    <3>5. \A s \in shown' : s \in shown \/ s[1] = e.turn
      BY <3>3
    <3>6. /\ BrowserTypeOK' /\ bubble' \in {None, bubble, Stray}
          /\ streaming' => streaming /\ (bubble # None => bubble' = bubble) /\ button' = button
      <4>1. shown' \subseteq (0..MaxTurns) \X (1..Stray)
        BY <2>4, <3>3, <3>4 DEF IInv, BrowserTypeOK
      <4>2. /\ bubble' \in {None, bubble, Stray} /\ streaming' \in BOOLEAN /\ button' \in BOOLEAN
            /\ streaming' => streaming /\ (bubble # None => bubble' = bubble) /\ button' = button
        <5>1. CASE /\ bubble' = IF bubble = None THEN Stray ELSE bubble
                   /\ UNCHANGED <<streaming, button>>
          BY <5>1 DEF IInv, BrowserTypeOK
        <5>2. CASE bubble' = None /\ streaming' = FALSE /\ button' = TRUE
          BY <5>2
        <5>. QED  BY <2>0, <5>1, <5>2
      <4>3. bubble' \in 0..Stray
        BY <3>4, <4>2 DEF IInv, BrowserTypeOK, None
      <4>. QED  BY <2>1, <4>1, <4>2, <4>3 DEF IInv, BrowserTypeOK
    <3>7. Tab'
      BY <2>0, <2>1, <3>6 DEF IInv, Tab, BrowserTypeOK, None
    <3>8. Past'
      BY <2>1, <3>2, <3>5 DEF IInv, Past, Tainted, BrowserTypeOK
    <3>9. AnswerInOwnMessage'
      <4>1. Overrun(e.turn)
        BY <3>2 DEF Tainted, Overrun
      <4>. QED  BY <2>1, <3>5, <4>1 DEF IInv, AnswerInOwnMessage, Overrun
    <3>10. LinkTypeOK'
      BY <2>0, <2>1, <2>3 DEF IInv, LinkTypeOK
    <3>11. Links'
      BY <2>0, <2>1, <2>2, <2>3 DEF IInv, Links, Link, LinkTypeOK
    <3>12. Aftermath(conn)'
      BY <2>1, <3>1, <3>2 DEF Aftermath, TaintedAll, Tainted
    <3>13. Pipe'
      BY <2>1, <2>7, <3>1, <3>12 DEF Pipe
    <3>. QED  BY <2>1, <3>6, <3>7, <3>8, <3>9, <3>10, <3>11, <3>13, Frames DEF IInv
  <2>6. CASE handler[conn] # "gone" /\ Clean(conn)
    <3>1. Serving(conn)
      BY <2>0, <2>3, <2>6 DEF IInv, Pipe, Idle, Stale, Waiting, Ready
    <3>2. Partial(outbox[conn], turns) \/ Complete(outbox[conn], turns)
      BY <3>1 DEF Serving
    <3>3. /\ e.turn = turns
          /\ Partial(outbox[conn], turns) => ~Final(e) /\ Partial(outbox'[conn], turns)
          /\ Complete(outbox[conn], turns) =>
                /\ Final(e) => outbox'[conn] = <<>>
                /\ ~Final(e) => Complete(outbox'[conn], turns)
      <4>1. outbox[conn] \in Seq(Messages) /\ outbox[conn] # <<>>
        BY <2>0, <2>2
      <4>. QED  BY <2>3, <3>2, <4>1, TakeFirst
    <3>. HIDE DEF e
    <3>4. streaming /\ turns > 0 /\ bubble = turns /\ bubble # None
      BY <3>1 DEF Serving, IInv, Tab, BrowserTypeOK, None
    <3>5. LinkTypeOK'
      BY <2>0, <2>1, <2>3 DEF IInv, LinkTypeOK
    <3>6. Links'
      BY <2>0, <2>1, <2>2, <2>3 DEF IInv, Links, Link, LinkTypeOK
    <3>7. shown' \subseteq shown \cup {<<turns, turns>>}
      BY <2>0, <3>3, <3>4 DEF Show
    <3>8. turns \in 0..MaxTurns /\ turns \in 1..Stray
      BY <3>4, PlaygroundAssumption DEF IInv, BrowserTypeOK, Stray
    <3>9. shown' \subseteq (0..MaxTurns) \X (1..Stray)
      BY <3>7, <3>8 DEF IInv, BrowserTypeOK
    <3>10. AnswerInOwnMessage' /\ Past' /\ Clean(conn)'
      <4>1. \A s \in shown' : s \in shown \/ s = <<turns, turns>>
        BY <3>7
      <4>2. AnswerInOwnMessage'
        BY <2>1, <4>1 DEF IInv, AnswerInOwnMessage, Overrun
      <4>3. Past' /\ Clean(conn)'
        BY <2>1, <2>6, <3>8, <4>1 DEF IInv, Past, Clean
      <4>. QED  BY <4>2, <4>3
    <3>11. CASE ~Final(e)
      <4>1. bubble' = bubble /\ UNCHANGED <<streaming, button>>
        BY <2>0, <3>4, <3>11 DEF Final
      <4>2. BrowserTypeOK' /\ Tab'
        BY <2>1, <3>9, <4>1 DEF IInv, BrowserTypeOK, Tab
      <4>3. Serving(conn)'
        BY <2>1, <3>1, <3>3, <3>11, <4>1 DEF Serving, Partial, Complete
      <4>4. Pipe'
        BY <2>1, <2>6, <3>10, <4>3 DEF Pipe
      <4>. QED  BY <2>1, <3>5, <3>6, <3>10, <4>2, <4>4, Frames DEF IInv
    <3>12. CASE Final(e)
      <4>1. bubble' = None /\ streaming' = FALSE /\ button' = TRUE
        BY <2>0, <3>12 DEF Final
      <4>2. BrowserTypeOK'
        <5>1. bubble' \in 0..Stray
          BY <4>1, PlaygroundAssumption DEF None, Stray
        <5>. QED  BY <2>1, <3>9, <4>1, <5>1 DEF IInv, BrowserTypeOK
      <4>3. Tab'
        BY <2>0, <2>1, <4>1 DEF IInv, Tab
      <4>4. Complete(outbox[conn], turns) /\ ~Partial(outbox[conn], turns)
        BY <3>2, <3>3, <3>12
      <4>5. Complete(writes[conn], turns) => writes[conn] # <<>>
        BY DEF Complete
      <4>6. outbox'[conn] = <<>> /\ writes[conn] = <<>> /\ inbox[conn] = <<>>
            /\ (handler[conn] = "chatting" => finished[conn])
        BY <3>1, <3>3, <3>12, <4>4 DEF Serving
      <4>7. Idle(conn)'
        BY <2>1, <4>1, <4>6 DEF Idle, Ready
      <4>8. Pipe'
        BY <2>1, <2>6, <3>10, <4>7 DEF Pipe
      <4>. QED  BY <2>1, <3>5, <3>6, <3>10, <4>2, <4>3, <4>8, Frames DEF IInv
    <3>. QED  BY <3>11, <3>12
  <2>. QED  BY <2>5, <2>6, <2>7
<1>4. CASE OnClose
  <2>1. UNCHANGED <<up, inbox, outbox, handler, turn, writes, given, finished, silent, overrun,
        conn, streaming, turns, via, shown>>
    BY <1>4 DEF OnClose, browserVars, linkVars, serverVars
  <2>2. BrowserTypeOK'
    BY <1>4 DEF OnClose, browserVars, linkVars, serverVars, IInv, BrowserTypeOK
  <2>3. Tab'
    BY <1>4 DEF OnClose, browserVars, linkVars, serverVars, IInv, Tab, BrowserTypeOK
  <2>. QED  BY <2>1, <2>2, <2>3, Frames DEF IInv
<1>5. CASE Connect
  <2>0. /\ socket = "closed" /\ conn < MaxConns /\ conn' = conn + 1 /\ socket' = "connecting"
        /\ up' = [up EXCEPT ![conn + 1] = TRUE]
        /\ handler' = [handler EXCEPT ![conn + 1] = "session"]
    BY <1>5 DEF Connect
  <2>1. UNCHANGED <<streaming, button, bubble, turns, via, shown, inbox, outbox, turn, writes,
                    given, finished, silent, overrun>>
    BY <1>5 DEF Connect
  <2>2. /\ conn \in Conns /\ conn + 1 \in Conns /\ conn' \in Conns /\ Conns \subseteq Nat
        /\ turns \in Nat /\ (turns > 0 => via[turns] \in Nat)
    BY <2>0, PlaygroundAssumption DEF IInv, BrowserTypeOK, Conns
  <2>3. BrowserTypeOK'
    BY <2>0, <2>1, <2>2 DEF IInv, BrowserTypeOK
  <2>4. /\ ~up[conn + 1] /\ handler[conn + 1] = "none" /\ up'[conn + 1]
        /\ handler'[conn + 1] = "session"
    BY <2>0, <2>2 DEF IInv, Links, Link, LinkTypeOK, ServerTypeOK
  <2>5. inbox[conn + 1] = <<>> /\ outbox[conn + 1] = <<>> /\ writes[conn + 1] = <<>>
    BY <2>2, <2>4 DEF IInv, Links, Link
  <2>6. LinkTypeOK' /\ ServerTypeOK'
    BY <2>0, <2>1, <2>2 DEF IInv, LinkTypeOK, ServerTypeOK
  <2>7. Tab'
    BY <2>0, <2>1, <2>2 DEF IInv, Tab
  <2>8. Links'
    <3>1. ASSUME NEW n \in Conns PROVE Link(n)'
      <4>1. CASE n = conn + 1
        BY <2>0, <2>1, <2>2, <2>4, <2>5, <4>1 DEF IInv, Links, Link
      <4>2. CASE n # conn + 1
        <5>1. up'[n] = up[n] /\ handler'[n] = handler[n]
          BY <2>0, <4>2 DEF IInv, LinkTypeOK, ServerTypeOK
        <5>4. /\ n \in Nat /\ conn \in Nat
              /\ n > conn => ~up[n] /\ handler[n] = "none"
              /\ n < conn => ~up[n] \/ handler[n] = "gone"
          BY <2>2 DEF IInv, Links, Link
        <5>2. n < conn' => ~up[n] \/ handler[n] = "gone"
          BY <2>0, <4>2, <5>4 DEF IInv, Tab
        <5>3. n > conn' => ~up[n] /\ handler[n] = "none"
          BY <2>0, <5>4
        <5>. QED  BY <2>0, <2>1, <2>2, <4>2, <5>1, <5>2, <5>3 DEF IInv, Links, Link
      <4>. QED  BY <4>1, <4>2
    <3>. QED  BY <3>1 DEF Links
  <2>9. Pipe'
    <3>. PICK n \in Conns : n = conn + 1
      BY <2>2
    <3>3. Clean(n)'
      <4>1. \A u \in overrun : u \in 1..MaxTurns /\ via[u] <= conn /\ via[u] \in Nat
        BY <2>2, PlaygroundAssumption DEF IInv, Past, BrowserTypeOK, ServerTypeOK
      <4>. QED  BY <2>1, <2>2, <4>1 DEF Clean
    <3>1. CASE streaming
      <4>1. via[turns] < n
        BY <2>2, <3>1 DEF IInv, Tab
      <4>2. Stale(n)'
        BY <2>1, <2>4, <2>5, <3>1, <4>1 DEF Stale, Ready
      <4>. QED  BY <2>0, <2>4, <3>3, <4>2 DEF Pipe
    <3>2. CASE ~streaming
      <4>1. Idle(n)'
        BY <2>1, <2>4, <2>5, <3>2 DEF Idle, Ready
      <4>. QED  BY <2>0, <2>4, <3>3, <4>1 DEF Pipe
    <3>. QED  BY <3>1, <3>2
  <2>10. Past'
    <3>1. \A t \in 1..turns : via[t] <= conn /\ via[t] \in Nat
      <4>1. \A t \in 1..turns : t \in 1..MaxTurns
        BY <2>2, PlaygroundAssumption DEF IInv, BrowserTypeOK
      <4>2. \A t \in 1..turns : via[t] \in Conns
        BY <4>1 DEF IInv, BrowserTypeOK
      <4>. QED  BY <2>2, <4>2 DEF IInv, Past
    <3>. QED  BY <2>0, <2>1, <2>2, <3>1 DEF IInv, Past
  <2>. QED  BY <2>1, <2>3, <2>6, <2>7, <2>8, <2>9, <2>10, Frames DEF IInv
<1>6. CASE \E n \in Conns : Cut(n)
  <2>0. PICK n \in Conns : Cut(n)
    BY <1>6
  <2>1. UNCHANGED <<conn, socket, streaming, button, bubble, turns, via, shown, handler, turn,
        writes, given, finished, silent, overrun>>
    BY <2>0 DEF Cut, browserVars, linkVars, serverVars
  <2>2. \A m \in Conns \ {n} : SameAt(m)
    BY <2>0 DEF Cut, browserVars, linkVars, serverVars, SameAt, IInv, LinkTypeOK, ServerTypeOK
  <2>3. ~up'[n] /\ inbox'[n] = <<>> /\ outbox'[n] = <<>>
    BY <2>0 DEF Cut, browserVars, linkVars, serverVars, IInv, LinkTypeOK, ServerTypeOK
  <2>4. LinkTypeOK'
    BY <2>0 DEF Cut, browserVars, linkVars, serverVars, IInv, LinkTypeOK
  <2>5. Link(n)'
    BY <2>0, <2>1, <2>3 DEF IInv, Links, Link
  <2>6. n = conn => Pipe'
    BY <2>1, <2>3 DEF Pipe
  <2>7. Links' /\ Pipe'
    BY <2>1, <2>2, <2>5, <2>6, OnlyAt DEF IInv, BrowserTypeOK
  <2>8. Tab'
    BY <2>1, <2>2, <2>3 DEF SameAt, IInv, Tab, BrowserTypeOK
  <2>. QED  BY <2>1, <2>4, <2>7, <2>8, Frames DEF IInv
<1>7. CASE \E n \in Conns : Session(n)
  <2>0. PICK n \in Conns : Session(n)
    BY <1>7
  <2>1. UNCHANGED <<conn, socket, streaming, button, bubble, turns, via, shown, up, inbox,
        turn, writes, given, finished, silent, overrun>>
    BY <2>0 DEF Session, Goto, Put, browserVars, linkVars, serverVars
  <2>2. \A m \in Conns \ {n} : SameAt(m)
    BY <2>0 DEF Session, Goto, Put, browserVars, linkVars, serverVars, SameAt, IInv,
         LinkTypeOK, ServerTypeOK
  <2>3. /\ handler[n] = "session" /\ handler'[n] \in {"reading", "gone"}
        /\ \/ UNCHANGED outbox /\ (handler'[n] = "reading" \/ ~up[n])
           \/ /\ handler'[n] = "gone" /\ up[n]
              /\ outbox' = [outbox EXCEPT ![n] = Append(@, Message("error", 0))]
    BY <2>0 DEF Session, Goto, Put, browserVars, linkVars, serverVars, IInv, LinkTypeOK,
         ServerTypeOK
  <2>4. LinkTypeOK'
    <3>1. Message("error", 0) \in Messages
      BY PlaygroundAssumption DEF Message, Messages, EventTypes
    <3>2. Append(outbox[n], Message("error", 0)) \in Seq(Messages)
      BY <3>1 DEF IInv, LinkTypeOK
    <3>. QED  BY <2>1, <2>3, <3>2 DEF IInv, LinkTypeOK
  <2>5. ServerTypeOK'
    BY <2>0 DEF Session, Goto, Put, browserVars, linkVars, serverVars, IInv, ServerTypeOK
  <2>6. Link(n)'
    BY <2>0, <2>1, <2>3 DEF Session, Goto, Put, browserVars, linkVars, serverVars, IInv,
         Links, Link
  <2>7. n = conn => Pipe'
    <3>1. SUFFICES ASSUME n = conn, up[n] PROVE Pipe'
      BY <2>1 DEF Pipe
    <3>4. CASE UNCHANGED outbox /\ handler'[n] = "reading" /\ ~Clean(n)
      <4>1. Aftermath(n) /\ ~Clean(n)'
        BY <2>1, <2>3, <3>1, <3>4 DEF IInv, Pipe, Clean
      <4>2. Aftermath(n)'
        BY <2>1, <3>4, <4>1 DEF Aftermath, TaintedAll, Tainted
      <4>. QED  BY <2>1, <3>1, <3>4, <4>1, <4>2 DEF Pipe
    <3>2. CASE UNCHANGED outbox /\ handler'[n] = "reading" /\ Clean(n)
      <4>1. Idle(n) \/ Stale(n) \/ Waiting(n)
        BY <2>3, <3>1, <3>2 DEF IInv, Pipe, Serving
      <4>2. (Idle(n) \/ Stale(n) \/ Waiting(n))' /\ Clean(n)'
        BY <2>1, <3>2, <4>1 DEF Idle, Stale, Waiting, Ready, Clean
      <4>. QED  BY <2>1, <3>1, <3>2, <4>2 DEF Pipe
    <3>3. CASE handler'[n] = "gone" /\ outbox' = [outbox EXCEPT ![n] = Append(@,
          Message("error", 0))]
      <4>1. outbox[n] = <<>>
        BY <2>3 DEF IInv, Links, Link
      <4>2. outbox'[n] = <<Message("error", 0)>>
        BY <3>3, <4>1 DEF IInv, LinkTypeOK
      <4>. QED  BY <2>1, <3>1, <3>3, <4>2 DEF Pipe
    <3>. QED  BY <2>3, <3>1, <3>2, <3>3, <3>4
  <2>8. Links' /\ Pipe'
    BY <2>1, <2>2, <2>6, <2>7, OnlyAt DEF IInv, BrowserTypeOK
  <2>9. Tab'
    BY <2>1, <2>2, <2>3 DEF SameAt, IInv, Tab, BrowserTypeOK
  <2>. QED  BY <2>1, <2>4, <2>5, <2>8, <2>9, Frames DEF IInv
<1>8. CASE \E n \in Conns : ReadMessage(n)
  <2>0. PICK n \in Conns : ReadMessage(n)
    BY <1>8
  <2>1. UNCHANGED <<conn, socket, streaming, button, bubble, turns, via, shown, up, outbox,
        writes, given, silent, overrun>>
    BY <2>0 DEF ReadMessage, Goto, browserVars, linkVars, serverVars
  <2>2. \A m \in Conns \ {n} : SameAt(m)
    BY <2>0 DEF ReadMessage, Goto, browserVars, linkVars, serverVars, SameAt, IInv,
         LinkTypeOK, ServerTypeOK
  <2>3. /\ handler[n] = "reading" /\ handler'[n] = "chatting" /\ inbox[n] # <<>>
        /\ inbox'[n] = Tail(inbox[n]) /\ turn'[n] = Head(inbox[n])
        /\ ~finished'[n]
    BY <2>0 DEF ReadMessage, Goto, browserVars, linkVars, serverVars, IInv, LinkTypeOK,
         ServerTypeOK
  <2>4. LinkTypeOK'
    <3>1. inbox[n] \in Seq(1..MaxTurns) /\ inbox[n] # <<>>
      BY <2>3 DEF IInv, LinkTypeOK
    <3>. DEFINE T == 1..MaxTurns
    <3>2. Tail(inbox[n]) \in Seq(T)
      <4>1. inbox[n] \in Seq(T) /\ inbox[n] # <<>>
        BY <3>1
      <4>. HIDE DEF T
      <4>. QED  BY <4>1
    <3>. QED  BY <2>0, <3>2 DEF ReadMessage, Goto, browserVars, linkVars, serverVars, IInv,
         LinkTypeOK
  <2>5. ServerTypeOK'
    <3>1. inbox[n] \in Seq(1..MaxTurns) /\ inbox[n] # <<>>
      BY <2>3 DEF IInv, LinkTypeOK
    <3>. DEFINE T == 1..MaxTurns
    <3>2. Head(inbox[n]) \in T
      <4>1. inbox[n] \in Seq(T) /\ inbox[n] # <<>>
        BY <3>1
      <4>. HIDE DEF T
      <4>. QED  BY <4>1
    <3>3. Head(inbox[n]) \in 0..MaxTurns
      BY <3>2
    <3>4. /\ handler' \in [Conns -> {"none", "session", "reading", "chatting", "gone"}]
          /\ turn' \in [Conns -> 0..MaxTurns] /\ finished' \in [Conns -> BOOLEAN]
      BY <2>0, <3>3, PlaygroundAssumption DEF ReadMessage, Goto, IInv, ServerTypeOK
    <3>. QED  BY <2>1, <3>4 DEF IInv, ServerTypeOK
  <2>10. n = conn /\ up[n]
    <3>1. up[n]
      BY <2>3 DEF IInv, Links, Link
    <3>2. n \in Nat /\ conn \in Nat
      BY PlaygroundAssumption DEF IInv, BrowserTypeOK, Conns
    <3>. QED  BY <2>3, <3>1, <3>2 DEF IInv, Links, Link
  <2>11. ASSUME Clean(n) PROVE Link(n)' /\ Pipe'
    <3>1. Waiting(n)
      BY <2>3, <2>10, <2>11 DEF IInv, Pipe, Idle, Stale, Serving
    <3>2. inbox'[n] = <<>> /\ turn'[n] = turns /\ outbox[n] = <<>> /\ writes[n] = <<>>
      BY <2>3, <3>1 DEF Waiting, Ready
    <3>3. turns \in 1..turns /\ via[turns] = n
      BY <3>1 DEF IInv, BrowserTypeOK, Tab, Waiting
    <3>4. Link(n)'
      BY <2>1, <2>3, <2>10, <3>2, <3>3 DEF IInv, Links, Link
    <3>5. Serving(n)' /\ Clean(n)'
      BY <2>1, <2>3, <2>11, <3>1, <3>2 DEF Waiting, Serving, Partial, Clean
    <3>6. Pipe'
      BY <2>1, <2>3, <2>10, <3>5 DEF Pipe
    <3>. QED  BY <3>4, <3>6
  <2>12. ASSUME ~Clean(n) PROVE Link(n)' /\ Pipe'
    <3>. DEFINE T == 1..MaxTurns
    <3>1. Aftermath(n) /\ ~Clean(n)'
      BY <2>1, <2>3, <2>10, <2>12 DEF IInv, Pipe, Clean
    <3>2. inbox[n] \in Seq(T) /\ inbox[n] # <<>>
      BY <2>3 DEF IInv, LinkTypeOK
    <3>3. inbox[n][1] \in T
      <4>. HIDE DEF T
      <4>. QED  BY <3>2
    <3>. HIDE DEF T
    <3>4. /\ 1 \in DOMAIN inbox[n] /\ turn'[n] = inbox[n][1]
          /\ \A i \in DOMAIN inbox'[n] : \E j \in DOMAIN inbox[n] : inbox'[n][i] = inbox[n][j]
      BY <2>3, <3>2, <3>3, Elements
    <3>5. Tainted(turn'[n], n) /\ \A i \in DOMAIN inbox'[n] : Tainted(inbox'[n][i], n)
      BY <3>1, <3>4 DEF Aftermath
    <3>6. Link(n)'
      BY <2>1, <2>3, <2>10, <3>5 DEF IInv, Links, Link, Tainted
    <3>7. Aftermath(n)'
      BY <2>1, <3>1, <3>5 DEF Aftermath, TaintedAll, Tainted
    <3>8. Pipe'
      BY <2>1, <2>3, <2>10, <3>1, <3>7 DEF Pipe
    <3>. QED  BY <3>6, <3>8
  <2>8. Links' /\ Pipe'
    BY <2>1, <2>2, <2>11, <2>12, OnlyAt DEF IInv, BrowserTypeOK
  <2>9. Tab'
    BY <2>1, <2>2, <2>3 DEF SameAt, IInv, Tab, BrowserTypeOK
  <2>. QED  BY <2>1, <2>4, <2>5, <2>8, <2>9, Frames DEF IInv
<1>9. CASE \E n \in Conns : ReadFails(n)
  <2>0. PICK n \in Conns : ReadFails(n)
    BY <1>9
  <2>1. UNCHANGED <<conn, socket, streaming, button, bubble, turns, via, shown, up, inbox,
        outbox, turn, writes, given, finished, silent, overrun>>
    BY <2>0 DEF ReadFails, Goto, browserVars, linkVars, serverVars
  <2>2. \A m \in Conns \ {n} : SameAt(m)
    BY <2>0 DEF ReadFails, Goto, browserVars, linkVars, serverVars, SameAt, IInv, LinkTypeOK,
         ServerTypeOK
  <2>3. handler[n] = "reading" /\ ~up[n] /\ handler'[n] = "gone"
    BY <2>0 DEF ReadFails, Goto, browserVars, linkVars, serverVars, IInv, LinkTypeOK,
         ServerTypeOK
  <2>4. ServerTypeOK'
    BY <2>0 DEF ReadFails, Goto, browserVars, linkVars, serverVars, IInv, ServerTypeOK
  <2>5. Link(n)'
    BY <2>0, <2>1, <2>3 DEF ReadFails, Goto, browserVars, linkVars, serverVars, IInv, Links,
         Link
  <2>6. n = conn => Pipe'
    BY <2>1, <2>3 DEF Pipe
  <2>7. Links' /\ Pipe'
    BY <2>1, <2>2, <2>5, <2>6, OnlyAt DEF IInv, BrowserTypeOK
  <2>8. Tab'
    BY <2>1, <2>2, <2>3 DEF SameAt, IInv, Tab, BrowserTypeOK
  <2>. QED  BY <2>1, <2>4, <2>7, <2>8, Frames DEF IInv
<1>10. CASE \E n \in Conns : RunnerEvent(n)
  <2>0. PICK n \in Conns : RunnerEvent(n)
    BY <1>10
  <2>1. UNCHANGED <<conn, socket, streaming, button, bubble, turns, via, shown, up, inbox,
        outbox, handler, turn, silent>>
    BY <2>0 DEF RunnerEvent, browserVars, linkVars, serverVars
  <2>2. \A m \in Conns \ {n} : SameAt(m)
    BY <2>0 DEF RunnerEvent, browserVars, linkVars, serverVars, SameAt, IInv, LinkTypeOK,
         ServerTypeOK
  <2>3. /\ handler[n] = "chatting" /\ writes[n] = <<>> /\ given < MaxEvents
        /\ given' = given + 1 /\ given' \in 0..MaxEvents
    BY <2>0, PlaygroundAssumption DEF RunnerEvent, IInv, ServerTypeOK
  <2>4. CASE UNCHANGED <<writes, finished, overrun>>
    <3>1. ServerTypeOK'
      BY <2>1, <2>3, <2>4 DEF IInv, ServerTypeOK
    <3>. QED  BY <2>1, <2>4, <3>1, Frames DEF IInv
  <2>5. CASE \E tools, text, final \in BOOLEAN :
                /\ writes' = [writes EXCEPT ![n] = EventWrites(turn[n], tools, text, final)]
                /\ finished' = [finished EXCEPT ![n] = @ \/ final]
                /\ Says(n)
    <3>1. PICK tools \in BOOLEAN, text \in BOOLEAN, final \in BOOLEAN :
                /\ writes' = [writes EXCEPT ![n] = EventWrites(turn[n], tools, text, final)]
                /\ finished' = [finished EXCEPT ![n] = @ \/ final]
                /\ Says(n)
      BY <2>5
    <3>. DEFINE w == EventWrites(turn[n], tools, text, final)
    <3>2. /\ w \in Seq(Messages) /\ (final => Complete(w, turn[n]))
          /\ (~final => Partial(w, turn[n]))
      <4>1. turn[n] \in 0..MaxTurns
        BY DEF IInv, ServerTypeOK
      <4>. QED  BY <4>1, EventShape
    <3>. HIDE DEF w
    <3>3. writes'[n] = w /\ finished'[n] = (finished[n] \/ final)
      BY <3>1 DEF w, IInv, ServerTypeOK
    <3>4. turn[n] \in 1..turns /\ via[turn[n]] = n /\ turn[n] \in 1..MaxTurns
      BY <2>3 DEF IInv, Links, Link, ServerTypeOK
    <3>5. /\ overrun \subseteq overrun' /\ overrun' \subseteq overrun \cup {turn[n]}
          /\ finished[n] => turn[n] \in overrun'
          /\ ~finished[n] => overrun' = overrun
      BY <3>1 DEF Says
    <3>6. ServerTypeOK'
      <4>1. writes' \in [Conns -> Seq(Messages)]
        BY <3>1, <3>2 DEF w, IInv, ServerTypeOK
      <4>2. finished' \in [Conns -> BOOLEAN]
        BY <3>1 DEF IInv, ServerTypeOK
      <4>. QED  BY <2>1, <2>3, <3>4, <3>5, <4>1, <4>2 DEF IInv, ServerTypeOK
    <3>7. Past'
      BY <2>1, <3>4, <3>5 DEF IInv, Past
    <3>8. AnswerInOwnMessage'
      BY <2>1, <3>5 DEF IInv, AnswerInOwnMessage, Overrun
    <3>9. Link(n)'
      BY <2>1, <2>3 DEF IInv, Links, Link
    <3>10. n = conn => Pipe'
      <4>. SUFFICES ASSUME n = conn, up[n] PROVE Pipe'
        BY <2>1 DEF Pipe
      <4>1. CASE Clean(n) /\ ~finished[n]
        <5>1. Serving(n) /\ Partial(outbox[n], turns) /\ turn[n] = turns
          BY <2>3, <4>1 DEF IInv, Pipe, Idle, Stale, Waiting, Serving, Ready
        <5>2. Serving(n)' /\ Clean(n)'
          BY <2>1, <2>3, <3>2, <3>3, <3>5, <4>1, <5>1 DEF Serving, Partial, Complete, Clean
        <5>. QED  BY <2>1, <2>3, <5>2 DEF Pipe
      <4>2. CASE ~(Clean(n) /\ ~finished[n])
        <5>2. \A t : OnItsWay(t, n) => Tainted(t, n)'
          BY <2>1, <2>3, <3>4, <3>5, <4>2, Enter DEF IInv
        <5>3. Tainted(turn[n], n)'
          BY <2>1, <5>2 DEF OnItsWay
        <5>4. (\A i \in DOMAIN inbox[n] : Tainted(inbox[n][i], n))' /\ TaintedAll(outbox[n], n)'
          BY <2>1, <5>2 DEF OnItsWay, TaintedAll
        <5>6. \A i \in DOMAIN w : w[i].turn = turn[n]
          BY <3>2 DEF Partial, Complete
        <5>7. TaintedAll(writes[n], n)'
          BY <2>1, <3>3, <5>3, <5>6 DEF TaintedAll
        <5>8. Aftermath(n)'
          BY <5>3, <5>4, <5>7 DEF Aftermath
        <5>5. ~Clean(n)'
          BY <5>3 DEF Tainted, Clean
        <5>. QED  BY <2>1, <2>3, <5>5, <5>8 DEF Pipe
      <4>. QED  BY <4>1, <4>2
    <3>11. Links' /\ Pipe'
      BY <2>1, <2>2, <3>4, <3>5, <3>9, <3>10, OnlyAt DEF IInv, BrowserTypeOK
    <3>. QED  BY <2>1, <3>6, <3>7, <3>8, <3>11, Frames DEF IInv
  <2>. QED  BY <2>0, <2>4, <2>5 DEF RunnerEvent
<1>11. CASE \E n \in Conns : RunnerError(n)
  <2>0. PICK n \in Conns : RunnerError(n)
    BY <1>11
  <2>1. UNCHANGED <<conn, socket, streaming, button, bubble, turns, via, shown, up, inbox,
        turn, writes, given, finished, silent>>
    BY <2>0 DEF RunnerError, Goto, Put, browserVars, linkVars, serverVars
  <2>2. \A m \in Conns \ {n} : SameAt(m)
    BY <2>0 DEF RunnerError, Goto, Put, browserVars, linkVars, serverVars, SameAt, IInv,
         LinkTypeOK, ServerTypeOK
  <2>. DEFINE m == Message("error", turn[n])
  <2>3. /\ handler[n] = "chatting" /\ writes[n] = <<>> /\ handler'[n] = "reading"
        /\ outbox' = IF up[n] THEN [outbox EXCEPT ![n] = Append(@, m)] ELSE outbox
        /\ handler' = [handler EXCEPT ![n] = "reading"] /\ Says(n)
    BY <2>0 DEF RunnerError, Goto, Put, IInv, ServerTypeOK
  <2>4. /\ m \in Messages /\ m.turn = turn[n] /\ Final(m)
    BY PlaygroundAssumption DEF Message, Messages, EventTypes, Final, IInv, ServerTypeOK
  <2>. HIDE DEF m
  <2>5. turn[n] \in 1..turns /\ via[turn[n]] = n /\ turn[n] \in 1..MaxTurns
    BY <2>3 DEF IInv, Links, Link, ServerTypeOK
  <2>6. /\ overrun \subseteq overrun' /\ overrun' \subseteq overrun \cup {turn[n]}
        /\ finished[n] => turn[n] \in overrun'
        /\ ~finished[n] => overrun' = overrun
    BY <2>3 DEF Says
  <2>7. LinkTypeOK'
    <3>1. Append(outbox[n], m) \in Seq(Messages)
      BY <2>4 DEF IInv, LinkTypeOK
    <3>. QED  BY <2>1, <2>3, <3>1 DEF IInv, LinkTypeOK
  <2>8. ServerTypeOK'
    BY <2>1, <2>3, <2>5, <2>6 DEF IInv, ServerTypeOK
  <2>9. Past'
    BY <2>1, <2>5, <2>6 DEF IInv, Past
  <2>10. AnswerInOwnMessage'
    BY <2>1, <2>6 DEF IInv, AnswerInOwnMessage, Overrun
  <2>11. Link(n)'
    BY <2>1, <2>3 DEF IInv, Links, Link
  <2>12. n = conn => Pipe'
    <3>. SUFFICES ASSUME n = conn, up[n] PROVE Pipe'
      BY <2>1 DEF Pipe
    <3>1. outbox'[n] = Append(outbox[n], m) /\ outbox[n] \in Seq(Messages)
      BY <2>3 DEF IInv, LinkTypeOK
    <3>2. CASE Clean(n) /\ ~finished[n]
      <4>1. Serving(n) /\ Partial(outbox[n], turns) /\ turn[n] = turns
        BY <2>3, <3>2 DEF IInv, Pipe, Idle, Stale, Waiting, Serving, Ready
      <4>2. Complete(outbox'[n], turns)
        BY <2>4, <3>1, <4>1, PutLast
      <4>3. Serving(n)' /\ Clean(n)'
        BY <2>1, <2>3, <2>6, <3>2, <4>1, <4>2 DEF Serving, Complete, Clean
      <4>. QED  BY <2>1, <2>3, <4>3 DEF Pipe
    <3>3. CASE ~(Clean(n) /\ ~finished[n])
      <4>1. \A t : OnItsWay(t, n) => Tainted(t, n)'
        BY <2>1, <2>3, <2>5, <2>6, <3>3, Enter DEF IInv
      <4>5. Tainted(turn[n], n)'
        BY <2>1, <4>1 DEF OnItsWay
      <4>2. TaintedAll(outbox[n], n)'
        <5>1. \A i \in DOMAIN outbox'[n] :
                 outbox'[n][i] = m \/ \E j \in DOMAIN outbox[n] : outbox'[n][i] = outbox[n][j]
          <6>. DEFINE M == Messages
          <6>1. outbox[n] \in Seq(M) /\ m \in M
            BY <2>4, <3>1
          <6>. HIDE DEF M
          <6>. QED  BY <3>1, <6>1, Elements
        <5>2. \A i \in DOMAIN outbox'[n] : OnItsWay(outbox'[n][i].turn, n)
          BY <2>4, <5>1 DEF OnItsWay
        <5>3. \A i \in DOMAIN outbox'[n] : \A t : t = outbox'[n][i].turn => Tainted(t, n)'
          BY <4>1, <5>2
        <5>. QED  BY <5>3 DEF TaintedAll
      <4>6. (\A i \in DOMAIN inbox[n] : Tainted(inbox[n][i], n))'
        BY <2>1, <4>1 DEF OnItsWay
      <4>7. writes'[n] = <<>> /\ handler'[n] = "reading"
        BY <2>1, <2>3 DEF IInv, ServerTypeOK
      <4>3. Aftermath(n)'
        BY <4>2, <4>6, <4>7 DEF Aftermath, TaintedAll
      <4>4. ~Clean(n)'
        BY <4>5 DEF Tainted, Clean
      <4>. QED  BY <2>1, <2>3, <4>3, <4>4 DEF Pipe
    <3>. QED  BY <3>2, <3>3
  <2>13. Links' /\ Pipe'
    BY <2>1, <2>2, <2>5, <2>6, <2>11, <2>12, OnlyAt DEF IInv, BrowserTypeOK
  <2>14. Tab'
    BY <2>1, <2>2, <2>3 DEF SameAt, IInv, Tab, BrowserTypeOK
  <2>. QED  BY <2>1, <2>7, <2>8, <2>9, <2>10, <2>13, <2>14, Frames DEF IInv
<1>12. CASE \E n \in Conns : RunnerEnds(n)
  <2>0. PICK n \in Conns : RunnerEnds(n)
    BY <1>12
  <2>1. UNCHANGED <<conn, socket, streaming, button, bubble, turns, via, shown, up, inbox,
        outbox, turn, writes, given, finished, overrun>>
    BY <2>0 DEF RunnerEnds, Goto, browserVars, linkVars, serverVars
  <2>2. \A m \in Conns \ {n} : SameAt(m)
    BY <2>0 DEF RunnerEnds, Goto, browserVars, linkVars, serverVars, SameAt, IInv, LinkTypeOK,
         ServerTypeOK
  <2>3. handler[n] = "chatting" /\ writes[n] = <<>> /\ handler'[n] = "reading"
    BY <2>0 DEF RunnerEnds, Goto, browserVars, linkVars, serverVars, IInv, LinkTypeOK,
         ServerTypeOK
  <2>4. ServerTypeOK'
    <3>1. silent' \subseteq silent \cup {turn[n]}
      BY <2>0 DEF RunnerEnds
    <3>2. turn[n] > 0
      BY <2>3 DEF IInv, Links, Link
    <3>3. silent' \subseteq 1..MaxTurns
      BY <3>1, <3>2 DEF IInv, ServerTypeOK
    <3>. QED  BY <2>0, <3>3 DEF RunnerEnds, Goto, browserVars, linkVars, serverVars, IInv,
         ServerTypeOK
  <2>5. Link(n)'
    BY <2>0, <2>1, <2>3 DEF RunnerEnds, Goto, browserVars, linkVars, serverVars, IInv, Links,
         Link
  <2>6. n = conn => Pipe'
    <3>1. SUFFICES ASSUME n = conn, up[n] PROVE Pipe'
      BY <2>1 DEF Pipe
    <3>5. CASE ~Clean(n)
      <4>1. Aftermath(n)' /\ ~Clean(n)'
        BY <2>1, <2>3, <3>1, <3>5 DEF IInv, Pipe, Clean, Aftermath, TaintedAll, Tainted
      <4>. QED  BY <2>1, <2>3, <3>1, <4>1 DEF Pipe
    <3>6. SUFFICES ASSUME Clean(n), Clean(n)' PROVE Pipe'
      BY <2>1, <3>5 DEF Clean
    <3>2. Idle(n) \/ Waiting(n) \/ Serving(n)
      BY <2>3, <3>1, <3>6 DEF IInv, Pipe, Stale
    <3>3. CASE Idle(n) \/ Waiting(n)
      BY <2>1, <2>3, <3>1, <3>3, <3>6 DEF Pipe, Idle, Waiting, Ready
    <3>4. CASE Serving(n)
      <4>1. ~Complete(writes[n], turns)
        BY <2>3 DEF Complete
      <4>2. Serving(n)'
        BY <2>1, <2>3, <3>4, <4>1 DEF Serving, Partial, Complete
      <4>. QED  BY <2>1, <2>3, <3>1, <3>6, <4>2 DEF Pipe
    <3>. QED  BY <3>2, <3>3, <3>4
  <2>7. Links' /\ Pipe'
    BY <2>1, <2>2, <2>5, <2>6, OnlyAt DEF IInv, BrowserTypeOK
  <2>8. Tab'
    BY <2>1, <2>2, <2>3 DEF SameAt, IInv, Tab, BrowserTypeOK
  <2>. QED  BY <2>1, <2>4, <2>7, <2>8, Frames DEF IInv
<1>13. CASE \E n \in Conns : Write(n)
  <2>0. PICK n \in Conns : Write(n)
    BY <1>13
  <2>1. UNCHANGED <<conn, socket, streaming, button, bubble, turns, via, shown, up, inbox,
        handler, turn, given, finished, silent, overrun>>
    BY <2>0 DEF Write, Put, browserVars, linkVars, serverVars
  <2>2. \A m \in Conns \ {n} : SameAt(m)
    BY <2>0 DEF Write, Put, browserVars, linkVars, serverVars, SameAt, IInv, LinkTypeOK,
         ServerTypeOK
  <2>3. /\ writes[n] # <<>> /\ writes'[n] = Tail(writes[n])
        /\ outbox'[n] = IF up[n] THEN Append(outbox[n], Head(writes[n])) ELSE outbox[n]
    BY <2>0 DEF Write, Put, browserVars, linkVars, serverVars, IInv, LinkTypeOK, ServerTypeOK
  <2>4. LinkTypeOK'
    <3>1. Head(writes[n]) \in Messages
      BY <2>3, TakeFirst DEF IInv, ServerTypeOK
    <3>2. Append(outbox[n], Head(writes[n])) \in Seq(Messages)
      BY <3>1 DEF IInv, LinkTypeOK
    <3>. QED  BY <2>0, <3>2 DEF Write, Put, browserVars, linkVars, serverVars, IInv, LinkTypeOK
  <2>5. ServerTypeOK'
    <3>1. Tail(writes[n]) \in Seq(Messages)
      BY <2>3, TakeFirst DEF IInv, ServerTypeOK
    <3>. QED  BY <2>0, <3>1 DEF Write, Put, browserVars, linkVars, serverVars, IInv,
         ServerTypeOK
  <2>6. Link(n)'
    BY <2>0, <2>1, <2>3 DEF Write, Put, browserVars, linkVars, serverVars, IInv, Links, Link
  <2>7. n = conn => Pipe'
    <3>1. SUFFICES ASSUME n = conn, up[n] PROVE Pipe'
      BY <2>1 DEF Pipe
    <3>7. handler[n] = "chatting" /\ outbox'[n] = Append(outbox[n], Head(writes[n]))
      BY <2>3, <3>1 DEF IInv, Links, Link
    <3>8. CASE ~Clean(n)
      <4>1. Aftermath(n) /\ ~Clean(n)'
        BY <2>1, <3>1, <3>7, <3>8 DEF IInv, Pipe, Clean
      <4>2. Head(writes[n]) \in Messages
        BY <2>3, TakeFirst DEF IInv, ServerTypeOK
      <4>3. Tainted(Head(writes[n]).turn, n) /\ TaintedAll(writes'[n], n)
        BY <2>3, <4>1, TaintedQueue DEF IInv, ServerTypeOK, Aftermath
      <4>4. TaintedAll(outbox'[n], n)
        BY <3>7, <4>1, <4>2, <4>3, TaintedQueue DEF IInv, LinkTypeOK, Aftermath
      <4>5. Aftermath(n)'
        BY <2>1, <4>1, <4>3, <4>4 DEF Aftermath, TaintedAll, Tainted
      <4>. QED  BY <2>1, <3>1, <3>7, <4>1, <4>5 DEF Pipe
    <3>9. SUFFICES ASSUME Clean(n), Clean(n)' PROVE Pipe'
      BY <2>1, <3>8 DEF Clean
    <3>2. /\ Serving(n) /\ handler[n] = "chatting" /\ Partial(outbox[n], turns)
          /\ \/ Partial(writes[n], turns) /\ ~finished[n]
             \/ Complete(writes[n], turns) /\ finished[n]
      <4>1. handler[n] = "chatting"
        BY <2>3 DEF IInv, Links, Link
      <4>2. Serving(n)
        BY <2>3, <3>1, <3>9, <4>1 DEF IInv, Pipe, Idle, Stale, Waiting, Ready
      <4>. QED  BY <2>3, <4>1, <4>2 DEF Serving
    <3>. DEFINE m == Head(writes[n])
    <3>3. /\ m \in Messages /\ m.turn = turns
          /\ Partial(writes[n], turns) => ~Final(m) /\ Partial(writes'[n], turns)
          /\ Complete(writes[n], turns) =>
                /\ Final(m) => writes'[n] = <<>>
                /\ ~Final(m) => Complete(writes'[n], turns)
      BY <2>3, <3>2, TakeFirst DEF IInv, ServerTypeOK
    <3>4. outbox'[n] = Append(outbox[n], m)
      BY <2>3, <3>1
    <3>. HIDE DEF m
    <3>5. /\ ~Final(m) => Partial(outbox'[n], turns)
          /\ Final(m) => Complete(outbox'[n], turns)
      BY <3>2, <3>3, <3>4, PutLast DEF IInv, LinkTypeOK
    <3>6. Serving(n)'
      BY <2>1, <3>2, <3>3, <3>5 DEF Serving, Partial, Complete
    <3>. QED  BY <2>1, <3>1, <3>2, <3>6, <3>9 DEF Pipe
  <2>8. Links' /\ Pipe'
    BY <2>1, <2>2, <2>6, <2>7, OnlyAt DEF IInv, BrowserTypeOK
  <2>. QED  BY <2>1, <2>4, <2>5, <2>8, Frames DEF IInv
<1>14. CASE \E n \in Conns : WriteFails(n)
  <2>0. PICK n \in Conns : WriteFails(n)
    BY <1>14
  <2>1. UNCHANGED <<conn, socket, streaming, button, bubble, turns, via, shown, up, inbox,
        outbox, turn, given, finished, silent, overrun>>
    BY <2>0 DEF WriteFails, Goto, browserVars, linkVars, serverVars
  <2>2. \A m \in Conns \ {n} : SameAt(m)
    BY <2>0 DEF WriteFails, Goto, browserVars, linkVars, serverVars, SameAt, IInv, LinkTypeOK,
         ServerTypeOK
  <2>3. /\ ~up[n] /\ writes[n] # <<>> /\ writes'[n] = <<>>
        /\ handler'[n] \in {"chatting", "reading"}
    BY <2>0 DEF WriteFails, Goto, browserVars, linkVars, serverVars, IInv, LinkTypeOK,
         ServerTypeOK
  <2>4. ServerTypeOK'
    BY <2>0 DEF WriteFails, Goto, browserVars, linkVars, serverVars, IInv, ServerTypeOK
  <2>5. Link(n)'
    <3>1. handler[n] = "chatting"
      BY <2>3 DEF IInv, Links, Link
    <3>. QED  BY <2>1, <2>3, <3>1 DEF IInv, Links, Link
  <2>6. n = conn => Pipe'
    BY <2>1, <2>3 DEF Pipe
  <2>7. Links' /\ Pipe'
    BY <2>1, <2>2, <2>5, <2>6, OnlyAt DEF IInv, BrowserTypeOK
  <2>8. Tab'
    BY <2>1, <2>2, <2>3 DEF SameAt, IInv, Tab, BrowserTypeOK
  <2>. QED  BY <2>1, <2>4, <2>7, <2>8, Frames DEF IInv
<1>15. CASE UNCHANGED vars
  <2>1. UNCHANGED <<conn, socket, streaming, button, bubble, turns, via, shown, up, inbox,
        outbox, handler, turn, writes, given, finished, silent, overrun>>
    BY <1>15 DEF vars, browserVars, linkVars, serverVars
  <2>. QED  BY <2>1, Frames DEF IInv
<1>. QED
  BY <1>1, <1>2, <1>3, <1>4, <1>5, <1>6, <1>7, <1>8, <1>9, <1>10, <1>11, <1>12, <1>13, <1>14,
       <1>15 DEF Next, Server

-----------------------------------------------------------------------------
\* The page has just been loaded.
LEMMA Initially == Init => IInv
<1>. SUFFICES ASSUME Init PROVE IInv
  OBVIOUS
<1>1. BrowserTypeOK
  <2>1. 0 \in 0..MaxTurns /\ 0 \in 0..Stray /\ 1 \in Conns
    BY PlaygroundAssumption DEF Stray, Conns
  <2>. QED  BY <2>1 DEF Init, BrowserTypeOK, None
<1>2. LinkTypeOK
  <2>1. <<>> \in Seq(1..MaxTurns) /\ <<>> \in Seq(Messages)
    OBVIOUS
  <2>. QED  BY <2>1 DEF Init, LinkTypeOK
<1>3. ServerTypeOK
  <2>1. <<>> \in Seq(Messages) /\ 0 \in 0..MaxTurns /\ 0 \in 0..MaxEvents
    BY PlaygroundAssumption
  <2>. QED  BY <2>1 DEF Init, ServerTypeOK
<1>4. Tab /\ Past
  BY DEF Init, Tab, Past
<1>5. Links
  <2>1. ASSUME NEW n \in Conns PROVE Link(n)
    <3>1. n \in Nat /\ (n > 1 => n # 1) /\ ~(n < 1)
      BY PlaygroundAssumption DEF Conns
    <3>2. n = 1 => up[n] /\ handler[n] = "session"
      BY DEF Init
    <3>3. n # 1 => ~up[n] /\ handler[n] = "none"
      BY DEF Init
    <3>. QED  BY <3>1, <3>2, <3>3 DEF Init, Link
  <2>. QED  BY <2>1 DEF Links
<1>6. Pipe
  BY <1>1 DEF Init, BrowserTypeOK, Pipe, Idle, Ready, Clean
<1>7. AnswerInOwnMessage
  BY DEF Init, AnswerInOwnMessage
<1>. QED  BY <1>1, <1>2, <1>3, <1>4, <1>5, <1>6, <1>7 DEF IInv, TypeOK

\* The invariant holds in every reachable state.
THEOREM Invariance == Spec => []IInv
<1>1. Init => IInv
  BY Initially
<1>2. IInv /\ [Next]_vars => IInv'
  BY Steps
<1>. QED  BY <1>1, <1>2, PTL DEF Spec

\* handleEvent appends to the current message without looking at the turn of an
\* event: it is the message of that turn all the same.
THEOREM AnswersInOwnMessage == Spec => []AnswerInOwnMessage
<1>1. IInv => AnswerInOwnMessage
  BY DEF IInv
<1>. QED  BY <1>1, Invariance, PTL

\* While the goroutine is in a turn, no more than the next message waits on the
\* connection, and only once the turn's final event was given.
THEOREM NoOverlappingTurns == Spec => []OneTurnAtATime
<1>1. IInv => OneTurnAtATime
  <2>. SUFFICES ASSUME IInv PROVE OneTurnAtATime
    OBVIOUS
  <2>1. ASSUME NEW n \in Conns, handler[n] = "chatting", inbox[n] # <<>>
        PROVE (finished[n] /\ Len(inbox[n]) = 1) \/ Overrun(turn[n])
    <3>1. up[n]
      BY <2>1 DEF IInv, Links, Link
    <3>2. n = conn
      <4>1. n \in Nat /\ conn \in Nat
        BY PlaygroundAssumption DEF IInv, TypeOK, BrowserTypeOK, Conns
      <4>. QED  BY <2>1, <3>1, <4>1 DEF IInv, Links, Link
    <3>3. ASSUME Clean(n) PROVE finished[n] /\ Len(inbox[n]) = 1
      <4>1. Waiting(n)
        BY <2>1, <3>1, <3>2, <3>3 DEF IInv, Pipe, Idle, Stale, Serving
      <4>. QED  BY <2>1, <4>1 DEF Waiting, Ready
    <3>4. ASSUME ~Clean(n) PROVE Overrun(turn[n])
      BY <2>1, <3>1, <3>2, <3>4 DEF IInv, Pipe, Aftermath, Tainted, Overrun
    <3>. QED  BY <3>3, <3>4
  <2>. QED  BY <2>1 DEF OneTurnAtATime, IInv
<1>. QED  BY <1>1, Invariance, PTL

\* onopen enables the button and leaves isStreaming: the two disagree only on a
\* connection opened after the message was sent.
THEOREM ButtonLags == Spec => []ButtonHonest
<1>1. IInv => ButtonHonest
  <2>. SUFFICES ASSUME IInv, button, streaming PROVE conn > via[turns]
    BY DEF ButtonHonest
  <2>1. turns \in 1..MaxTurns
    BY DEF IInv, TypeOK, BrowserTypeOK, Tab
  <2>2. via[turns] \in Nat /\ conn \in Nat
    BY <2>1, PlaygroundAssumption DEF IInv, TypeOK, BrowserTypeOK, Conns
  <2>. QED  BY <2>1, <2>2 DEF IInv, Tab
<1>. QED  BY <1>1, Invariance, PTL
=============================================================================
