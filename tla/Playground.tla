----------------------------- MODULE Playground -----------------------------
(***************************************************************************)
(* The web frontend: a browser tab (static/app.js), the WebSocket          *)
(* connections it opens one after the other, the goroutine that serves     *)
(* each of them (playground.go, handleWebSocket and streamChat), and       *)
(* AgentBridge.Chat (frontend.go) between that goroutine and the ADK       *)
(* runner.                                                                 *)
(*                                                                         *)
(* The runner is external and gives any events, final or not, in any order *)
(* before it ends or fails: Chat forwards all that have content and takes  *)
(* each one's word for being final.  A message and its answer are a turn,  *)
(* numbered in the order of sending; turn 0 stands for no turn.            *)
(***************************************************************************)
EXTENDS Naturals, Sequences

CONSTANTS MaxTurns,   \* bound: messages the user sends
          MaxConns,   \* bound: connections the tab opens
          MaxEvents   \* bound: events that the runner gives in all

ASSUME PlaygroundAssumption ==
    MaxTurns \in Nat \ {0} /\ MaxConns \in Nat \ {0} /\ MaxEvents \in Nat \ {0}

Conns == 1..MaxConns

VARIABLES
    conn, socket,   \* the tab's connection and its ws.readyState
    streaming,      \* isStreaming
    button,         \* the send button is enabled
    bubble,         \* currentAgentMsg: the turn it was started for, or none
    up,             \* per connection: not cut
    inbox, outbox,  \* per connection: turns and events in flight
    handler,        \* per connection: where its goroutine is
    turn,           \* per connection: the turn in Chat
    writes,         \* per connection: what streamChat still writes of an event
    given,          \* events that the runner has given
    finished,       \* per connection: a final event of the turn was given
    turns,          \* turns sent
    via,            \* history: the connection each turn was sent on (1 before that)
    silent,         \* history: turns that ended without a final event or error
    overrun,        \* history: turns that went on after a final event
    shown           \* history: <<turn of a text, tool call or error, bubble it went to>>

browserVars == <<conn, socket, streaming, button, bubble, turns, via, shown>>
linkVars    == <<up, inbox, outbox>>
serverVars  == <<handler, turn, writes, given, finished, silent, overrun>>
vars == <<browserVars, linkVars, serverVars>>

None  == 0
Stray == MaxTurns + 1   \* a bubble that was started by an event

EventTypes == {"text", "tool_call", "done", "error"}
Message(type, t) == [type |-> type, turn |-> t]
Messages == [type : EventTypes, turn : 0..MaxTurns]

BrowserTypeOK ==
    /\ conn \in Conns /\ socket \in {"connecting", "open", "closed"}
    /\ streaming \in BOOLEAN /\ button \in BOOLEAN /\ bubble \in 0..Stray
    /\ turns \in 0..MaxTurns /\ via \in [1..MaxTurns -> Conns]
    /\ shown \subseteq (0..MaxTurns) \X (1..Stray)

LinkTypeOK ==
    /\ up \in [Conns -> BOOLEAN]
    /\ inbox \in [Conns -> Seq(1..MaxTurns)] /\ outbox \in [Conns -> Seq(Messages)]

ServerTypeOK ==
    /\ handler \in [Conns -> {"none", "session", "reading", "chatting", "gone"}]
    /\ turn \in [Conns -> 0..MaxTurns] /\ writes \in [Conns -> Seq(Messages)]
    /\ given \in 0..MaxEvents /\ finished \in [Conns -> BOOLEAN]
    /\ silent \subseteq 1..MaxTurns /\ overrun \subseteq 1..MaxTurns

TypeOK == BrowserTypeOK /\ LinkTypeOK /\ ServerTypeOK

Init ==
    /\ conn = 1 /\ socket = "connecting"
    /\ streaming = FALSE /\ button = TRUE /\ bubble = None
    /\ up = [n \in Conns |-> n = 1]
    /\ inbox = [n \in Conns |-> <<>>] /\ outbox = [n \in Conns |-> <<>>]
    /\ handler = [n \in Conns |-> IF n = 1 THEN "session" ELSE "none"]
    /\ turn = [n \in Conns |-> 0] /\ writes = [n \in Conns |-> <<>>]
    /\ given = 0 /\ finished = [n \in Conns |-> FALSE]
    /\ turns = 0 /\ via = [t \in 1..MaxTurns |-> 1]
    /\ silent = {} /\ overrun = {} /\ shown = {}

(***************************************************************************)
(* The browser.                                                            *)
(***************************************************************************)
\* ws.onopen.
OnOpen ==
    /\ socket = "connecting" /\ up[conn]
    /\ socket' = "open" /\ button' = TRUE
    /\ UNCHANGED <<conn, streaming, bubble, turns, via, shown, linkVars, serverVars>>

\* Faulty: a message can be sent during an answer.
SendAnytime ==
    /\ socket = "open" /\ turns < MaxTurns
    /\ turns' = turns + 1
    /\ via' = [via EXCEPT ![turns + 1] = conn]
    /\ inbox' = IF up[conn] THEN [inbox EXCEPT ![conn] = Append(@, turns + 1)] ELSE inbox
    /\ streaming' = TRUE /\ button' = FALSE
    /\ bubble' = turns + 1
    /\ UNCHANGED <<conn, socket, shown, up, outbox, serverVars>>

\* Faulty: the button stays enabled.
SendKeepsButton ==
    /\ socket = "open" /\ ~streaming /\ turns < MaxTurns
    /\ turns' = turns + 1
    /\ via' = [via EXCEPT ![turns + 1] = conn]
    /\ inbox' = IF up[conn] THEN [inbox EXCEPT ![conn] = Append(@, turns + 1)] ELSE inbox
    /\ streaming' = TRUE
    /\ bubble' = turns + 1
    /\ UNCHANGED <<conn, socket, button, shown, up, outbox, serverVars>>

\* sendMessage with text in the field.
SendMessage ==
    /\ socket = "open" /\ ~streaming /\ turns < MaxTurns
    /\ turns' = turns + 1
    /\ via' = [via EXCEPT ![turns + 1] = conn]
    /\ inbox' = IF up[conn] THEN [inbox EXCEPT ![conn] = Append(@, turns + 1)] ELSE inbox
    /\ streaming' = TRUE /\ button' = FALSE
    /\ bubble' = turns + 1
    /\ UNCHANGED <<conn, socket, shown, up, outbox, serverVars>>

\* appendAgentText, appendToolCall and appendError start a bubble if there is
\* none.
Show(e) == shown' = shown \cup {<<e.turn, IF bubble = None THEN Stray ELSE bubble>>}

\* ws.onmessage and handleEvent; "done" and "error" end in finishAgentMessage.
OnMessage ==
    /\ socket = "open" /\ outbox[conn] # <<>>
    /\ outbox' = [outbox EXCEPT ![conn] = Tail(@)]
    /\ LET e == Head(outbox[conn]) IN
       \/ /\ e.type \in {"text", "tool_call"}
          /\ Show(e)
          /\ bubble' = IF bubble = None THEN Stray ELSE bubble
          /\ UNCHANGED <<streaming, button>>
       \/ /\ e.type \in {"done", "error"}
          /\ IF e.type = "error" THEN Show(e) ELSE UNCHANGED shown
          /\ bubble' = None /\ streaming' = FALSE /\ button' = TRUE
    /\ UNCHANGED <<conn, socket, turns, via, up, inbox, serverVars>>

\* ws.onclose, after the events that were in flight.
OnClose ==
    /\ socket # "closed"
    /\ ~up[conn] \/ (handler[conn] = "gone" /\ outbox[conn] = <<>> /\ socket = "open")
    /\ socket' = "closed" /\ button' = FALSE
    /\ UNCHANGED <<conn, streaming, bubble, turns, via, shown, linkVars, serverVars>>

\* The reconnect timer: connect().
Connect ==
    /\ socket = "closed" /\ conn < MaxConns
    /\ conn' = conn + 1 /\ socket' = "connecting"
    /\ up' = [up EXCEPT ![conn + 1] = TRUE]
    /\ handler' = [handler EXCEPT ![conn + 1] = "session"]
    /\ UNCHANGED <<streaming, button, bubble, turns, via, shown, inbox, outbox,
                   turn, writes, given, finished, silent, overrun>>

\* The network or the browser drops a connection and what is in flight on it.
Cut(n) ==
    /\ up[n] /\ up' = [up EXCEPT ![n] = FALSE]
    /\ inbox' = [inbox EXCEPT ![n] = <<>>] /\ outbox' = [outbox EXCEPT ![n] = <<>>]
    /\ UNCHANGED <<browserVars, serverVars>>

(***************************************************************************)
(* The goroutine of connection n.                                          *)
(***************************************************************************)
Goto(n, p) == handler' = [handler EXCEPT ![n] = p]

\* conn.WriteMessage: delivered, or lost on a connection that was cut.
Put(n, m) == outbox' = IF up[n] THEN [outbox EXCEPT ![n] = Append(@, m)] ELSE outbox

\* CreateSession; on an error the handler says so, returns and closes.
Session(n) ==
    /\ handler[n] = "session"
    /\ \/ Goto(n, "reading") /\ UNCHANGED outbox
       \/ Goto(n, "gone") /\ Put(n, Message("error", 0))
    /\ UNCHANGED <<browserVars, up, inbox, turn, writes, given, finished, silent, overrun>>

\* ReadJSON returns a message; Chat starts.
ReadMessage(n) ==
    /\ handler[n] = "reading" /\ inbox[n] # <<>>
    /\ Goto(n, "chatting")
    /\ inbox' = [inbox EXCEPT ![n] = Tail(@)]
    /\ turn' = [turn EXCEPT ![n] = Head(inbox[n])]
    /\ finished' = [finished EXCEPT ![n] = FALSE]
    /\ UNCHANGED <<browserVars, up, outbox, writes, given, silent, overrun>>

\* Faulty: a read error is skipped like an empty message.
ReadFailsContinues(n) ==
    /\ handler[n] = "reading" /\ ~up[n]
    /\ UNCHANGED vars

\* ReadJSON fails; the deferred Close runs.
ReadFails(n) ==
    /\ handler[n] = "reading" /\ ~up[n]
    /\ Goto(n, "gone")
    /\ UNCHANGED <<browserVars, linkVars, turn, writes, given, finished, silent,
                   overrun>>

\* Faulty: the done marker comes before the text.
EventWritesDoneFirst(t, tools, text, final) ==
    (IF tools THEN <<Message("tool_call", t)>> ELSE <<>>)
        \o (IF final THEN <<Message("done", t)>> ELSE <<>>)
        \o (IF text THEN <<Message("text", t)>> ELSE <<>>)

\* What streamChat writes of an event: tool calls, text, the done marker.
EventWrites(t, tools, text, final) ==
    (IF tools THEN <<Message("tool_call", t)>> ELSE <<>>)
        \o (IF text THEN <<Message("text", t)>> ELSE <<>>)
        \o (IF final THEN <<Message("done", t)>> ELSE <<>>)

\* The runner says something in the turn of n, after a final event or not.
Says(n) == overrun' = IF finished[n] THEN overrun \cup {turn[n]} ELSE overrun

\* The runner gives Chat an event.  Chat skips one without content and forwards
\* any other.
RunnerEvent(n) ==
    /\ handler[n] = "chatting" /\ writes[n] = <<>> /\ given < MaxEvents
    /\ given' = given + 1
    /\ \/ UNCHANGED <<writes, finished, overrun>>
       \/ \E tools, text, final \in BOOLEAN :
             /\ writes' = [writes EXCEPT ![n] = EventWrites(turn[n], tools, text, final)]
             /\ finished' = [finished EXCEPT ![n] = @ \/ final]
             /\ Says(n)
    /\ UNCHANGED <<browserVars, linkVars, handler, turn, silent>>

\* Faulty: the error is only logged.
RunnerErrorSilent(n) ==
    /\ handler[n] = "chatting" /\ writes[n] = <<>>
    /\ Goto(n, "reading") /\ Says(n)
    /\ UNCHANGED <<browserVars, linkVars, turn, writes, given, finished, silent>>

\* The runner gives an error, Chat passes it on, streamChat writes it and
\* returns.
RunnerError(n) ==
    /\ handler[n] = "chatting" /\ writes[n] = <<>>
    /\ Goto(n, "reading") /\ Says(n)
    /\ Put(n, Message("error", turn[n]))
    /\ UNCHANGED <<browserVars, up, inbox, turn, writes, given, finished, silent>>

\* The runner's iterator ends.
RunnerEnds(n) ==
    /\ handler[n] = "chatting" /\ writes[n] = <<>>
    /\ Goto(n, "reading")
    /\ silent' = IF finished[n] THEN silent ELSE silent \cup {turn[n]}
    /\ UNCHANGED <<browserVars, linkVars, turn, writes, given, finished, overrun>>

Write(n) ==
    /\ writes[n] # <<>>
    /\ Put(n, Head(writes[n]))
    /\ writes' = [writes EXCEPT ![n] = Tail(@)]
    /\ UNCHANGED <<browserVars, up, inbox, handler, turn, given, finished, silent,
                   overrun>>

\* A write fails: streamChat returns at once, unless it was the done marker.
WriteFails(n) ==
    /\ writes[n] # <<>> /\ ~up[n]
    /\ writes' = [writes EXCEPT ![n] = <<>>]
    /\ Goto(n, IF Head(writes[n]).type = "done" THEN "chatting" ELSE "reading")
    /\ UNCHANGED <<browserVars, linkVars, turn, given, finished, silent, overrun>>

-----------------------------------------------------------------------------
Server(n) == \/ Session(n) \/ ReadMessage(n) \/ ReadFails(n) \/ RunnerEvent(n)
             \/ RunnerError(n) \/ RunnerEnds(n) \/ Write(n) \/ WriteFails(n)

Next == \/ OnOpen \/ SendMessage \/ OnMessage \/ OnClose \/ Connect
        \/ \E n \in Conns : Cut(n) \/ Server(n)

Spec == Init /\ [][Next]_vars

(***************************************************************************)
(* Fairness: goroutines run, the network delivers what it does not drop,   *)
(* and a turn ends (its context has a timeout of five minutes).            *)
(***************************************************************************)
FairSpec == /\ Spec
            /\ WF_vars(OnOpen) /\ WF_vars(OnMessage) /\ WF_vars(OnClose)
            /\ \A n \in Conns : WF_vars(Server(n))

-----------------------------------------------------------------------------
\* On the connection of turn t, t or an earlier turn went on after a final event.
Overrun(t) == \E u \in overrun : via[u] = via[t] /\ u <= t

\* handleEvent appends to whatever message is current: text, tool calls and the
\* error of a turn still end up in the message that was started for that turn,
\* across errors, cuts and reconnects.  What a turn says after a final event
\* opens a message of its own or runs into the next turn's, and from there on
\* the turns of that connection may be mixed up; no other connection's are.
AnswerInOwnMessage ==
    \A s \in shown : s[1] # 0 => (s[2] = s[1] \/ Overrun(s[1]))

\* A user message waits on a connection only behind a turn whose final event
\* was given: the tab never has two answers in the making on one connection,
\* unless a turn there went on after a final event, which had freed the tab.
OneTurnAtATime ==
    /\ TypeOK
    /\ \A n \in Conns : (handler[n] = "chatting" /\ inbox[n] # <<>>) =>
                         \/ finished[n] /\ Len(inbox[n]) = 1
                         \/ Overrun(turn[n])

\* The send button is enabled during an answer only after a reconnect: onopen
\* enables it and leaves isStreaming, so that sendMessage ignores it.
ButtonHonest == (button /\ streaming) => conn > via[turns]

\* A turn whose connection lasts and which the runner brings to an end makes
\* the tab ready for the next message.
TurnReleasesTab ==
    \A t \in 1..MaxTurns :
        (streaming /\ turns = t) ~> \/ ~streaming \/ turns > t
                                    \/ t \in silent
                                    \/ ~up[via[t]] \/ handler[via[t]] = "gone"

\* A goroutine whose connection was cut ends, in the middle of a turn or not.
HandlersEnd == \A n \in Conns : (handler[n] # "none" /\ ~up[n]) ~> handler[n] = "gone"
=============================================================================
