------------------------------- MODULE Daemon -------------------------------
(***************************************************************************)
(* The crated process (cmd/crated/main.go, run): the main goroutine from   *)
(* flag parsing to the deferred calls, the shutdown-signal goroutine, the  *)
(* SIGHUP goroutine, the health server, the frontend that main blocks in,  *)
(* and the environment that edits the Agentfile and sends signals.         *)
(*                                                                         *)
(* A goroutine is a program counter.  A signal channel has room for one    *)
(* value and signal.Notify drops what does not fit.                        *)
(***************************************************************************)
EXTENDS Runtime

CONSTANTS Frontends,    \* the frontends run may be asked for
          HealthPort,   \* whether a health port is configured
          MaxShutdowns, \* bound: SIGINT and SIGTERM sent
          MaxHups,      \* bound: SIGHUP sent
          MaxEdits      \* bound: edits of the Agentfile after the first

ASSUME DaemonAssumption ==
    /\ Frontends \subseteq {"repl", "playground", "unknown"}
    /\ HealthPort \in BOOLEAN
    /\ MaxShutdowns \in Nat /\ MaxHups \in Nat /\ MaxEdits \in Nat

VARIABLES
    main,       \* where the main goroutine is in run
    at,         \* the skill Init or Close is working on
    frontend,   \* the frontend asked for
    fe,         \* where the frontend's Run is
    chat,       \* a WebSocket connection: "idle" or "running" a turn
    bridge,     \* the agent inside the AgentBridge
    ctx,        \* the context of run is done
    sigPc, sigCh,   \* the shutdown goroutine and its channel
    hupPc, hupCh,   \* the SIGHUP goroutine and its channel
    hupRead,        \* the edit it has read and validated
    ready,          \* health.Server.ready
    health,         \* the health listener
    disk,           \* the Agentfile on disk: its edit and whether it is valid (can be
                    \* read, parses, validates, has the profile, makes an agent)
    good,           \* history: the edits that are valid
    hupped,         \* history: the edit on disk when SIGHUP was last sent
    shutdowns, hups,    \* signals sent
    exit                \* how the process ended, "no" while it runs

daemonVars == <<main, at, frontend, fe, chat, bridge, ctx, sigPc, sigCh, hupPc, hupCh,
                hupRead, ready, health, disk, good, hupped, shutdowns, hups, exit>>
vars == <<runtimeVars, daemonVars>>

MainPoints == {"lookup", "wire", "probe", "load", "models", "checkEnv", "connect",
               "preload", "agent", "hup", "ready", "bridge", "serve",
               "close", "wait", "notReady", "cancel", "returned"}
FrontendPoints == {"start", "check", "stdin", "chat", "serving", "closed"}

MainTypeOK ==
    /\ main \in MainPoints /\ at \in 0..(NSkills + 1)
    /\ frontend \in Frontends /\ fe \in FrontendPoints
    /\ chat \in {"idle", "running"}
    /\ bridge \in [persona : Nat, model : Nat]
    /\ ctx \in BOOLEAN

AsideTypeOK ==
    /\ sigPc \in {"none", "first", "cancelling", "second"} /\ sigCh \in 0..1
    /\ hupPc \in {"none", "starting", "select", "read", "reload", "done"} /\ hupCh \in 0..1
    /\ hupRead \in Nat
    /\ ready \in BOOLEAN /\ health \in {"off", "starting", "serving", "stopped"}

EnvTypeOK ==
    /\ disk \in [edit : 1..(MaxEdits + 1), ok : BOOLEAN]
    /\ good \subseteq 1..(MaxEdits + 1) /\ hupped \in 0..(MaxEdits + 1)
    /\ shutdowns \in 0..MaxShutdowns /\ hups \in 0..MaxHups
    /\ exit \in {"no", "returned", "forced", "signal"}

TypeOK == RuntimeTypeOK /\ MainTypeOK /\ AsideTypeOK /\ EnvTypeOK

Init ==
    /\ RuntimeInit
    /\ main = "lookup" /\ at = 0
    /\ frontend \in Frontends
    /\ fe = "start" /\ chat = "idle" /\ bridge = NoAgent
    /\ ctx = FALSE
    /\ sigPc = "none" /\ sigCh = 0
    /\ hupPc = "none" /\ hupCh = 0 /\ hupRead = 0
    /\ ready = FALSE /\ health = "off"
    /\ \E ok \in BOOLEAN : /\ disk = [edit |-> 1, ok |-> ok]
                           /\ good = IF ok THEN {1} ELSE {}
    /\ hupped = 0
    /\ shutdowns = 0 /\ hups = 0
    /\ exit = "no"

Alive == exit = "no"

\* A step of the main goroutine from point p to point q.
Main(p, q) == Alive /\ main = p /\ main' = q

(***************************************************************************)
(* The main goroutine: startup.                                            *)
(***************************************************************************)
\* frontend.GetFrontend; nothing is deferred yet.
Lookup ==
    /\ Alive /\ main = "lookup"
    /\ IF frontend = "unknown" THEN main' = "returned" /\ exit' = "returned"
                               ELSE main' = "wire" /\ UNCHANGED exit
    /\ UNCHANGED <<runtimeVars, at, frontend, fe, chat, bridge, ctx, sigPc, sigCh, hupPc, hupCh,
                   hupRead, ready, health, disk, good, hupped, shutdowns, hups>>

\* signal.Notify and the goroutine that waits for the first signal.
WireSignals ==
    /\ Main("wire", "probe")
    /\ sigPc' = "first"
    /\ UNCHANGED <<runtimeVars, at, frontend, fe, chat, bridge, ctx, sigCh, hupPc, hupCh,
                   hupRead, ready, health, disk, good, hupped, shutdowns, hups, exit>>

\* Faulty: ready as soon as the health server starts.
StartHealthReady ==
    /\ Main("probe", "load")
    /\ health' = IF HealthPort THEN "starting" ELSE health
    /\ ready' = HealthPort
    /\ UNCHANGED <<runtimeVars, at, frontend, fe, chat, bridge, ctx, sigPc, sigCh, hupPc, hupCh,
                   hupRead, disk, good, hupped, shutdowns, hups, exit>>

\* Step 1 of run: go hs.ListenAndServe.
StartHealth ==
    /\ Main("probe", "load")
    /\ health' = IF HealthPort THEN "starting" ELSE health
    /\ UNCHANGED <<runtimeVars, at, frontend, fe, chat, bridge, ctx, sigPc, sigCh, hupPc, hupCh,
                   hupRead, ready, disk, good, hupped, shutdowns, hups, exit>>

\* What the steps of Init and the frontend leave alone.
SameElse == UNCHANGED <<frontend, chat, ctx, sigPc, sigCh, hupCh, hupRead, health, disk, good,
                        hupped, shutdowns, hups, exit>>

\* Steps 2 to 5: read, parse, validate, resolve the profile, load the runtime
\* configuration; then runtime.New and defer rt.Close.  An error returns
\* before Close is deferred.
Load ==
    /\ \/ Main("load", "models") /\ disk.ok /\ NewRuntime(disk.edit)
       \/ Main("load", "notReady") /\ UNCHANGED runtimeVars
    /\ UNCHANGED <<at, fe, bridge, hupPc, ready>> /\ SameElse

\* Init, phase 1.  An error leads to the deferred Close with no closers.
Models ==
    /\ \/ Main("models", "checkEnv") /\ at' = 1 /\ InitModels
       \/ Main("models", "close") /\ at' = 1 /\ UNCHANGED runtimeVars
    /\ UNCHANGED <<fe, bridge, hupPc, ready>> /\ SameElse

\* Init, phase 2, for skill at: the environment check.  On an error Init
\* returns (the later errors call r.Close first, this one leaves it to the
\* deferred call of main, which does the same work).
CheckEnv ==
    /\ \/ Main("checkEnv", "connect") /\ at <= NSkills /\ UNCHANGED at
       \/ Main("checkEnv", "agent") /\ at > NSkills /\ UNCHANGED at
       \/ Main("checkEnv", "close") /\ at <= NSkills /\ at' = 1
    /\ UNCHANGED <<runtimeVars, fe, bridge, hupPc, ready>> /\ SameElse

Connect ==
    /\ \/ Main("connect", "preload") /\ ConnectSkill(at) /\ UNCHANGED at
       \/ Main("connect", "close") /\ at' = 1 /\ UNCHANGED runtimeVars
    /\ UNCHANGED <<fe, bridge, hupPc, ready>> /\ SameElse

\* Tools: the launch, or a failure to launch; a handshake that fails after the
\* launch is the second disjunct of Handshake.
Preload ==
    /\ \/ Main("preload", "preload") /\ conn[at] = "none" /\ Launch(at) /\ UNCHANGED at
       \/ Main("preload", "close") /\ conn[at] = "none" /\ at' = 1 /\ UNCHANGED runtimeVars
    /\ UNCHANGED <<fe, bridge, hupPc, ready>> /\ SameElse

Handshake ==
    /\ main = "preload" /\ conn[at] # "none"
    /\ \/ Main("preload", "checkEnv") /\ at' = at + 1
       \/ Main("preload", "close") /\ at' = 1
    /\ UNCHANGED <<runtimeVars, fe, bridge, hupPc, ready>> /\ SameElse

\* Init, phases 3 and 4.
MakeAgent ==
    /\ \/ Main("agent", "hup") /\ BuildAgent /\ UNCHANGED at
       \/ Main("agent", "close") /\ at' = 1 /\ UNCHANGED runtimeVars
    /\ UNCHANGED <<fe, bridge, hupPc, ready>> /\ SameElse

StartHup ==
    /\ Main("hup", "ready")
    /\ hupPc' = "starting"
    /\ UNCHANGED <<runtimeVars, at, fe, bridge, ready>> /\ SameElse

MarkReady ==
    /\ Main("ready", "bridge")
    /\ ready' = HealthPort
    /\ UNCHANGED <<runtimeVars, at, fe, bridge, hupPc>> /\ SameElse

\* NewAgentBridge(rt.Agent()).
MakeBridge ==
    /\ \/ Main("bridge", "serve") /\ bridge' = agent /\ UNCHANGED at
       \/ Main("bridge", "close") /\ at' = 1 /\ UNCHANGED bridge
    /\ UNCHANGED <<runtimeVars, fe, hupPc, ready>> /\ SameElse

(***************************************************************************)
(* The main goroutine: inside fe.Run.                                      *)
(***************************************************************************)
In(p, q) == Alive /\ main = "serve" /\ fe = p /\ fe' = q

Stay   == main' = main /\ at' = at
Return == main' = "close" /\ at' = 1    \* Run returned; the deferred calls start

FrontendElse == UNCHANGED <<runtimeVars, bridge, hupPc, ready>> /\ SameElse

\* CreateSession of the REPL, or the port and listener of the playground.
StartFrontend ==
    /\ \/ In("start", IF frontend = "repl" THEN "check" ELSE "serving") /\ Stay
       \/ In("start", "closed") /\ Return
    /\ FrontendElse

\* Faulty: the REPL never looks at the context.
ReplCheckBlind ==
    /\ In("check", "stdin") /\ Stay
    /\ FrontendElse

\* The REPL looks at the context before it blocks in ReadString ...
ReplCheck ==
    /\ \/ In("check", "closed") /\ ctx /\ Return
       \/ In("check", "stdin") /\ ~ctx /\ Stay
    /\ FrontendElse

\* ... which ends with EOF, an error or an exit command, with a blank line,
\* or with a message.
ReplLine ==
    /\ \/ In("stdin", "closed") /\ Return
       \/ In("stdin", "check") /\ Stay
       \/ In("stdin", "chat") /\ Stay
    /\ FrontendElse

\* The turn ends, by itself or because the context it carries is done.
ReplTurnEnds ==
    /\ In("chat", "check") /\ Stay
    /\ FrontendElse

\* Faulty: Serve waits for WebSocket turns that nobody ends.
PlaygroundDrains ==
    /\ In("serving", "closed") /\ chat = "idle" /\ Return
    /\ FrontendElse

\* The playground's Serve returns once the goroutine that waits for the context
\* has called Shutdown, or with an error of the listener.
PlaygroundReturns ==
    /\ In("serving", "closed") /\ Return
    /\ FrontendElse

\* A WebSocket handler runs a turn.  Its connection is hijacked: Shutdown
\* neither closes it nor waits for it.
WsTurn ==
    /\ Alive /\ frontend = "playground"
    /\ \/ chat = "idle" /\ chat' = "running" /\ fe \in {"serving", "closed"}
       \/ chat = "running" /\ chat' = "idle"
    /\ UNCHANGED <<runtimeVars, main, at, frontend, fe, bridge, ctx, sigPc, sigCh, hupPc, hupCh,
                   hupRead, ready, health, disk, good, hupped, shutdowns, hups, exit>>

(***************************************************************************)
(* The main goroutine: the deferred calls, last registered first.          *)
(***************************************************************************)
CloseElse == UNCHANGED <<fe, bridge, hupPc, ready>> /\ SameElse

\* rt.Close runs the closers in order: SIGTERM, unless nothing was launched.
CloseNext ==
    /\ Alive /\ main = "close" /\ at <= Len(closers)
    /\ IF conn[closers[at]] = "none"
         THEN main' = "close" /\ at' = at + 1 /\ UNCHANGED runtimeVars
         ELSE main' = "wait" /\ Terminate(closers[at]) /\ UNCHANGED at
    /\ CloseElse

\* cmd.Wait returns.
CloseDone ==
    /\ Main("wait", "close")
    /\ conn[closers[at]] \in {"exited", "killed"}
    /\ at' = at + 1
    /\ UNCHANGED runtimeVars /\ CloseElse

\* Faulty: the closer gives up without SIGKILL.
CloseTimeoutGivesUp ==
    /\ Main("wait", "close")
    /\ conn[closers[at]] \in {"open", "termed"}
    /\ at' = at + 1
    /\ UNCHANGED runtimeVars /\ CloseElse

\* Five seconds passed.
CloseTimeout ==
    /\ Main("wait", "close")
    /\ Kill(closers[at])
    /\ at' = at + 1
    /\ CloseElse

CloseEnds ==
    /\ Main("close", "notReady") /\ at > Len(closers)
    /\ DropClosers
    /\ UNCHANGED at /\ CloseElse

MarkNotReady ==
    /\ Main("notReady", "cancel")
    /\ ready' = FALSE
    /\ UNCHANGED <<runtimeVars, at, fe, bridge, hupPc>> /\ SameElse

\* cancel(), and run returns to main, which ends the process.
ReturnFromRun ==
    /\ Main("cancel", "returned")
    /\ ctx' = TRUE
    /\ exit' = "returned"
    /\ UNCHANGED <<runtimeVars, at, frontend, fe, chat, bridge, sigPc, sigCh, hupPc, hupCh,
                   hupRead, ready, health, disk, good, hupped, shutdowns, hups>>

\* The steps of main that wait for a skill and nothing else.
SkillCall == Preload \/ Handshake

LocalStep == \/ Lookup \/ WireSignals \/ StartHealth \/ Load \/ Models \/ CheckEnv \/ Connect
             \/ MakeAgent \/ StartHup \/ MarkReady \/ MakeBridge
             \/ CloseNext \/ CloseDone \/ CloseTimeout \/ CloseEnds \/ MarkNotReady
             \/ ReturnFromRun

(***************************************************************************)
(* The other goroutines.                                                   *)
(***************************************************************************)
\* <-sigCh, for the first time; cancel(); <-sigCh again and os.Exit.
SigFirst ==
    /\ Alive /\ sigPc = "first" /\ sigCh = 1
    /\ sigCh' = 0 /\ sigPc' = "cancelling"
    /\ UNCHANGED <<runtimeVars, main, at, frontend, fe, chat, bridge, ctx, hupPc, hupCh,
                   hupRead, ready, health, disk, good, hupped, shutdowns, hups, exit>>

SigCancel ==
    /\ Alive /\ sigPc = "cancelling"
    /\ ctx' = TRUE /\ sigPc' = "second"
    /\ UNCHANGED <<runtimeVars, main, at, frontend, fe, chat, bridge, sigCh, hupPc, hupCh,
                   hupRead, ready, health, disk, good, hupped, shutdowns, hups, exit>>

\* Faulty: the second signal is only logged.
SigSecondIgnored ==
    /\ Alive /\ sigPc = "second" /\ sigCh = 1
    /\ sigCh' = 0
    /\ UNCHANGED <<runtimeVars, main, at, frontend, fe, chat, bridge, ctx, sigPc, hupPc, hupCh,
                   hupRead, ready, health, disk, good, hupped, shutdowns, hups, exit>>

SigSecond ==
    /\ Alive /\ sigPc = "second" /\ sigCh = 1
    /\ sigCh' = 0 /\ exit' = "forced"
    /\ UNCHANGED <<runtimeVars, main, at, frontend, fe, chat, bridge, ctx, sigPc, hupPc, hupCh,
                   hupRead, ready, health, disk, good, hupped, shutdowns, hups>>

HupElse == UNCHANGED <<main, at, frontend, fe, chat, bridge, ctx, sigPc, sigCh, ready, health,
                       disk, good, hupped, shutdowns, hups, exit>>

\* signal.Notify(ch, SIGHUP), the first thing handleSIGHUP does.
HupNotify ==
    /\ Alive /\ hupPc = "starting" /\ hupPc' = "select"
    /\ UNCHANGED <<runtimeVars, hupCh, hupRead>> /\ HupElse

\* The select; with both cases ready it takes either.
HupSelect ==
    /\ Alive /\ hupPc = "select"
    /\ \/ ctx /\ hupPc' = "done" /\ UNCHANGED hupCh
       \/ hupCh = 1 /\ hupCh' = 0 /\ hupPc' = "read"
    /\ UNCHANGED <<runtimeVars, hupRead>> /\ HupElse

\* Faulty: the result of the validation is ignored.
HupReadUnchecked ==
    /\ Alive /\ hupPc = "read" /\ hupPc' = "reload"
    /\ hupRead' = disk.edit
    /\ UNCHANGED <<runtimeVars, hupCh>> /\ HupElse

\* Faulty: an invalid file ends the goroutine.
HupReadFatal ==
    /\ Alive /\ hupPc = "read"
    /\ IF disk.ok THEN hupPc' = "reload" /\ hupRead' = disk.edit
                  ELSE hupPc' = "done" /\ UNCHANGED hupRead
    /\ UNCHANGED <<runtimeVars, hupCh>> /\ HupElse

\* Read, parse, validate and resolve the profile of what is on disk now.
HupRead ==
    /\ Alive /\ hupPc = "read"
    /\ IF disk.ok THEN hupPc' = "reload" /\ hupRead' = disk.edit
                  ELSE hupPc' = "select" /\ UNCHANGED hupRead
    /\ UNCHANGED <<runtimeVars, hupCh>> /\ HupElse

HupReload ==
    /\ Alive /\ hupPc = "reload" /\ hupPc' = "select"
    /\ Reload(hupRead)
    /\ UNCHANGED <<hupCh, hupRead>> /\ HupElse

\* ListenAndServe: the listener opens or fails; it closes with the context.
HealthElse == UNCHANGED <<runtimeVars, main, at, frontend, fe, chat, bridge, ctx, sigPc, sigCh,
                          hupPc, hupCh, hupRead, ready, disk, good, hupped, shutdowns, hups, exit>>

HealthListen ==
    /\ Alive /\ health = "starting" /\ health' \in {"serving", "stopped"}
    /\ HealthElse

HealthShutdown ==
    /\ Alive /\ health = "serving" /\ ctx /\ health' = "stopped"
    /\ HealthElse

\* exec.CommandContext kills the subprocess when the context is done; a
\* subprocess that got SIGTERM exits.
SkillElse == UNCHANGED daemonVars
ContextKill(i) == Alive /\ ctx /\ Kill(i) /\ SkillElse
SkillStops(i)  == Alive /\ SkillExits(i) /\ SkillElse

(***************************************************************************)
(* The environment.                                                        *)
(***************************************************************************)
EnvElse == UNCHANGED <<runtimeVars, main, at, frontend, fe, chat, bridge, ctx, sigPc, hupPc,
                       hupRead, ready, health>>

\* SIGINT or SIGTERM: the default action before Notify, the channel after it.
Shutdown ==
    /\ Alive /\ shutdowns < MaxShutdowns
    /\ shutdowns' = shutdowns + 1
    /\ IF sigPc = "none" THEN exit' = "signal" /\ UNCHANGED sigCh
                         ELSE sigCh' = 1 /\ UNCHANGED exit
    /\ UNCHANGED <<hupCh, disk, good, hupped, hups>> /\ EnvElse

\* Faulty: a channel without a buffer; a busy handler misses the signal.
HangupUnbuffered ==
    /\ Alive /\ hups < MaxHups
    /\ hups' = hups + 1
    /\ hupPc \notin {"none", "starting"}
    /\ hupCh' = IF hupPc = "select" THEN 1 ELSE hupCh
    /\ hupped' = disk.edit
    /\ UNCHANGED <<sigCh, disk, good, shutdowns, exit>> /\ EnvElse

\* SIGHUP: its default action is to end the process, too.
Hangup ==
    /\ Alive /\ hups < MaxHups
    /\ hups' = hups + 1
    /\ IF hupPc \in {"none", "starting"} THEN exit' = "signal" /\ UNCHANGED <<hupCh, hupped>>
                                         ELSE hupCh' = 1 /\ hupped' = disk.edit /\ UNCHANGED exit
    /\ UNCHANGED <<sigCh, disk, good, shutdowns>> /\ EnvElse

\* Someone saves the Agentfile, valid or not.
Edit ==
    /\ Alive /\ disk.edit <= MaxEdits
    /\ \E ok \in BOOLEAN :
          /\ disk' = [edit |-> disk.edit + 1, ok |-> ok]
          /\ good' = IF ok THEN good \cup {disk.edit + 1} ELSE good
    /\ UNCHANGED <<sigCh, hupCh, hupped, shutdowns, hups, exit>> /\ EnvElse

-----------------------------------------------------------------------------
FrontendStep == StartFrontend \/ ReplCheck \/ ReplLine \/ ReplTurnEnds \/ PlaygroundReturns

Next == \/ LocalStep \/ SkillCall \/ FrontendStep \/ WsTurn
        \/ SigFirst \/ SigCancel \/ SigSecond
        \/ HupNotify \/ HupSelect \/ HupRead \/ HupReload
        \/ HealthListen \/ HealthShutdown
        \/ \E i \in DOMAIN Skills : ContextKill(i) \/ SkillStops(i)
        \/ Shutdown \/ Hangup \/ Edit

Spec == Init /\ [][Next]_vars

(***************************************************************************)
(* Fairness: what the Go scheduler and the timeouts in the code ensure.    *)
(* Main's own steps are taken (each closer gives up after five seconds);   *)
(* the launch and the handshake of a skill, a REPL turn and the            *)
(* playground's Serve are only sure to end once the context is done, which *)
(* they all carry.  Nobody has to type a line, send a signal or edit a     *)
(* file.                                                                   *)
(***************************************************************************)
Fairness ==
    /\ WF_vars(LocalStep) /\ WF_vars(ctx /\ SkillCall)
    /\ WF_vars(StartFrontend) /\ WF_vars(ReplCheck)
    /\ WF_vars(ctx /\ (ReplTurnEnds \/ PlaygroundReturns))
    /\ WF_vars(SigFirst) /\ WF_vars(SigCancel) /\ WF_vars(SigSecond)
    /\ WF_vars(HupNotify) /\ WF_vars(HupSelect) /\ WF_vars(HupRead) /\ WF_vars(HupReload)
    /\ WF_vars(HealthListen) /\ WF_vars(HealthShutdown)

FairSpec == Spec /\ Fairness

-----------------------------------------------------------------------------
(***************************************************************************)
(* Properties that hold.                                                   *)
(***************************************************************************)
\* /readyz answers 200 only after every skill is connected and the agent is
\* built, whatever failed or was signalled on the way.
ReadyAfterInit == ready => agent # NoAgent /\ toolsets = NSkills

\* The runtime never runs an Agentfile that was invalid when it was read: a
\* failed reload keeps the agent, and r.agent and r.af move together.
OnlyValidConfigs ==
    agent # NoAgent => agent.persona = af /\ af \in good

\* A SIGHUP that arrives while an earlier one is handled is not lost: once the
\* handler is idle, a valid file that was on disk at the last SIGHUP and did
\* not change since is the one that runs.
CoalescedReload ==
    (hupPc = "select" /\ hupCh = 0 /\ hupped = disk.edit /\ disk.ok) => af = disk.edit

\* When run returns, for whatever reason and from whichever phase, no
\* subprocess of a stdio skill that it launched is left running; and until then
\* each has its closer in r.closers, from before it is launched and for as long
\* as it may run, so that a failure at any later step reaches it.
NoOrphans ==
    /\ TypeOK
    /\ \A i \in DOMAIN Skills : Skills[i] = "stdio" /\ conn[i] \in {"open", "termed"} =>
          /\ exit # "returned"
          /\ Alive => \E k \in DOMAIN closers : closers[k] = i

\* An invalid Agentfile does not end the SIGHUP goroutine: it takes the next
\* signal, unless the process is shutting down.
HupHandled == hupCh = 1 ~> (hupCh = 0 \/ ctx \/ ~Alive)

\* A signal that finds the shutdown goroutine waiting for its second one ends
\* the process, even with the REPL blocked on standard input.
SecondSignalForces == (sigPc = "second" /\ sigCh = 1) ~> ~Alive

\* A done context ends the REPL when it is inside a turn.
TurnInterrupted == (ctx /\ fe = "chat") ~> (fe = "closed" \/ ~Alive)

\* With the playground the first SIGINT or SIGTERM that the process handles
\* ends it, through every deferred call, whatever the subprocesses do.  (With
\* the REPL it does so only once a line is typed.)
ShutdownEnds == (frontend = "playground" /\ sigPc = "second") ~> ~Alive

(***************************************************************************)
(* Statements of the documentation that the code does not keep.            *)
(***************************************************************************)
\* ARCHITECTURE.md: SIGHUP rebuilds the agent.  Users talk to bridge.
ServedAgentIsCurrent == main = "serve" => bridge.persona = af

\* runtime.go, connectSkill: the closer sends SIGTERM before any SIGKILL.
TermBeforeKill ==
    [][\A i \in DOMAIN Skills : conn[i] = "open" => conn'[i] # "killed"]_vars
=============================================================================
