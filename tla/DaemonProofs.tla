---------------------------- MODULE DaemonProofs ----------------------------
(***************************************************************************)
(* Proofs about Daemon for every sequence of skills, every frontend, any   *)
(* number of signals and edits.  main only goes forward, so the invariant  *)
(* says for the phases of run what has happened so far: how far Init has   *)
(* come (Progress), what may be ready (ReadyLate), which Agentfiles are in *)
(* use (FilesValid), where the last SIGHUP is (HangupKept), and who will   *)
(* stop each subprocess (Covered).                                         *)
(***************************************************************************)
EXTENDS Daemon, TLAPS

\* The points of run before Init has a skill, while it has some, once the agent
\* is built, in rt.Close, and after it.
Early   == {"lookup", "wire", "probe", "load", "models"}
Filling == {"checkEnv", "connect", "preload"}
Built   == {"hup", "ready", "bridge", "serve"}
Closing == {"close", "wait"}
Over    == {"notReady", "cancel", "returned"}

\* Init has appended the toolsets of the skills before at, or up to it.
Progress ==
    /\ main \in Early => toolsets = 0
    /\ main \in {"checkEnv", "connect"} => at > 0 /\ toolsets = at - 1
    /\ main = "connect" => at <= NSkills
    /\ main = "preload" => at > 0 /\ toolsets = at
    /\ main \in Built \cup {"agent"} => toolsets = NSkills
    /\ main \in Built => agent # NoAgent
    /\ main \in Early \cup Filling \cup {"agent"} => agent = NoAgent

\* Nothing is ready before MarkReady, and the SIGHUP goroutine does not run
\* before the agent is built.
ReadyLate ==
    /\ ready => agent # NoAgent /\ toolsets = NSkills
    /\ main \in Early \cup Filling \cup {"agent", "hup", "ready"} => ~ready
    /\ main \in Early \cup Filling \cup {"agent", "hup"} => hupPc = "none"

\* The files in use were valid when they were read.
FilesValid ==
    /\ disk.ok => disk.edit \in good
    /\ main \in Filling \cup Built \cup {"models", "agent"} => af \in good
    /\ agent # NoAgent => agent.persona = af /\ af \in good
    /\ hupPc = "reload" => hupRead \in good

\* A valid file that was there at the last SIGHUP runs, or is about to be read
\* or used, or the SIGHUP goroutine has ended.
HangupKept ==
    /\ hupped <= disk.edit
    /\ hupPc \in {"none", "starting"} => hupped = 0
    /\ (hupped = disk.edit /\ disk.ok) =>
          \/ hupCh = 1
          \/ hupPc \in {"read", "done"}
          \/ hupPc = "reload" /\ hupRead = disk.edit
          \/ hupPc = "select" /\ af = disk.edit

\* A subprocess that Close has to stop.
Runs(i) == Skills[i] = "stdio" /\ conn[i] \in {"open", "termed"}

\* Every subprocess that runs has a closer which Close has still to run or is
\* running.
Covered ==
    /\ Len(closers) <= toolsets
    /\ \A i \in DOMAIN Skills : Runs(i) => \E k \in DOMAIN closers : closers[k] = i
    /\ main \in Closing =>
          /\ at > 0
          /\ \A i \in DOMAIN Skills : Runs(i) =>
                \E k \in DOMAIN closers : closers[k] = i /\ at <= k
    /\ main = "wait" => at <= Len(closers)
    /\ (main = "preload" /\ Skills[at] = "stdio") =>
          \E k \in DOMAIN closers : closers[k] = at
    /\ main \in Early \cup Over => \A i \in DOMAIN Skills : ~Runs(i)
    /\ exit = "returned" => main = "returned"

IInv == TypeOK /\ Progress /\ ReadyLate /\ FilesValid /\ HangupKept /\ Covered

-----------------------------------------------------------------------------
\* Skills is a sequence, so it has a length and its domain goes from 1 to it.
LEMMA SkillsDomain == NSkills \in Nat /\ DOMAIN Skills = 1..NSkills
BY RuntimeAssumption DEF NSkills


\* r.closers is a sequence of skills, at most one for each toolset.
LEMMA ClosersFacts ==
    ASSUME RuntimeTypeOK, Covered
    PROVE  /\ Len(closers) \in 0..NSkills
           /\ DOMAIN closers = 1..Len(closers)
           /\ \A k \in 1..Len(closers) : closers[k] \in DOMAIN Skills
<1>1. closers \in Seq(DOMAIN Skills) /\ toolsets \in 0..NSkills /\ Len(closers) <= toolsets
  BY DEF RuntimeTypeOK, Covered
<1>. QED  BY <1>1, SkillsDomain

\* What each part of the invariant depends on.
LEMMA Frames ==
    /\ RuntimeTypeOK /\ UNCHANGED runtimeVars => RuntimeTypeOK'
    /\ MainTypeOK /\ UNCHANGED <<main, at, frontend, fe, chat, bridge, ctx>> => MainTypeOK'
    /\ AsideTypeOK /\ UNCHANGED <<sigPc, sigCh, hupPc, hupCh, hupRead, ready,
          health>> => AsideTypeOK'
    /\ EnvTypeOK /\ UNCHANGED <<disk, good, hupped, shutdowns, hups, exit>> => EnvTypeOK'
    /\ Progress /\ UNCHANGED <<main, at, toolsets, agent>> => Progress'
    /\ ReadyLate /\ UNCHANGED <<ready, agent, toolsets, main, hupPc>> => ReadyLate'
    /\ FilesValid /\ UNCHANGED <<disk, good, main, af, agent, hupPc, hupRead>> => FilesValid'
    /\ HangupKept /\ UNCHANGED <<hupped, disk, hupPc, hupCh, hupRead, af>> => HangupKept'
    /\ Covered /\ UNCHANGED <<closers, toolsets, conn, main, at, exit>> => Covered'
<1>1. RuntimeTypeOK /\ UNCHANGED runtimeVars => RuntimeTypeOK'
  BY DEF RuntimeTypeOK, runtimeVars
<1>2. MainTypeOK /\ UNCHANGED <<main, at, frontend, fe, chat, bridge, ctx>> => MainTypeOK'
  BY DEF MainTypeOK
<1>3. AsideTypeOK /\ UNCHANGED <<sigPc, sigCh, hupPc, hupCh, hupRead, ready,
      health>> => AsideTypeOK'
  BY DEF AsideTypeOK
<1>4. EnvTypeOK /\ UNCHANGED <<disk, good, hupped, shutdowns, hups, exit>> => EnvTypeOK'
  BY DEF EnvTypeOK
<1>5. Progress /\ UNCHANGED <<main, at, toolsets, agent>> => Progress'
  BY DEF Progress
<1>6. ReadyLate /\ UNCHANGED <<ready, agent, toolsets, main, hupPc>> => ReadyLate'
  BY DEF ReadyLate
<1>7. FilesValid /\ UNCHANGED <<disk, good, main, af, agent, hupPc, hupRead>> => FilesValid'
  BY DEF FilesValid
<1>8. HangupKept /\ UNCHANGED <<hupped, disk, hupPc, hupCh, hupRead, af>> => HangupKept'
  BY DEF HangupKept
<1>9. Covered /\ UNCHANGED <<closers, toolsets, conn, main, at, exit>> => Covered'
  BY DEF Covered, Runs
<1>. QED  BY <1>1, <1>2, <1>3, <1>4, <1>5, <1>6, <1>7, <1>8, <1>9

\* Every step of the process keeps the invariant.  A part whose variables the
\* step leaves alone is kept by Frames.
LEMMA Steps ==
    ASSUME IInv, [Next]_vars
    PROVE  IInv'
<1>. USE SkillsDomain, DaemonAssumption DEF Main, Alive, SameElse, runtimeVars, TypeOK
<1>1. CASE Lookup
  <2>1. UNCHANGED <<registry, af, agent, toolsets, closers, conn, sigPc, sigCh, hupPc, hupCh,
        hupRead, ready, health, hupped, disk>>
    BY <1>1 DEF Lookup
  <2>2. MainTypeOK'
    BY <1>1 DEF Lookup, IInv, MainTypeOK, MainPoints
  <2>3. EnvTypeOK'
    BY <1>1 DEF Lookup, IInv, EnvTypeOK
  <2>4. Progress'
    BY <1>1 DEF Lookup, IInv, Progress, Early, Filling, Built
  <2>5. ReadyLate'
    BY <1>1 DEF Lookup, IInv, ReadyLate, Early, Filling, Built
  <2>6. FilesValid'
    BY <1>1 DEF Lookup, IInv, FilesValid, Early, Filling, Built
  <2>7. Covered'
    BY <1>1 DEF Lookup, IInv, Covered, Early, Closing, Over, Runs
  <2>. QED  BY <2>1, <2>2, <2>3, <2>4, <2>5, <2>6, <2>7, Frames DEF IInv
<1>2. CASE WireSignals
  <2>1. UNCHANGED <<registry, af, agent, toolsets, closers, conn, disk, good, hupped,
        shutdowns, hups, exit, hupPc, hupCh, hupRead>>
    BY <1>2 DEF WireSignals
  <2>2. MainTypeOK'
    BY <1>2 DEF WireSignals, IInv, MainTypeOK, MainPoints
  <2>3. AsideTypeOK'
    BY <1>2 DEF WireSignals, IInv, AsideTypeOK
  <2>4. Progress'
    BY <1>2 DEF WireSignals, IInv, Progress, Early, Filling, Built
  <2>5. ReadyLate'
    BY <1>2 DEF WireSignals, IInv, ReadyLate, Early, Filling, Built
  <2>6. FilesValid'
    BY <1>2 DEF WireSignals, IInv, FilesValid, Early, Filling, Built
  <2>7. Covered'
    BY <1>2 DEF WireSignals, IInv, Covered, Early, Closing, Over, Runs
  <2>. QED  BY <2>1, <2>2, <2>3, <2>4, <2>5, <2>6, <2>7, Frames DEF IInv
<1>3. CASE StartHealth
  <2>1. UNCHANGED <<registry, af, agent, toolsets, closers, conn, disk, good, hupped,
        shutdowns, hups, exit, hupPc, hupCh, hupRead>>
    BY <1>3 DEF StartHealth
  <2>2. MainTypeOK'
    BY <1>3 DEF StartHealth, IInv, MainTypeOK, MainPoints
  <2>3. AsideTypeOK'
    BY <1>3 DEF StartHealth, IInv, AsideTypeOK
  <2>4. Progress'
    BY <1>3 DEF StartHealth, IInv, Progress, Early, Filling, Built
  <2>5. ReadyLate'
    BY <1>3 DEF StartHealth, IInv, ReadyLate, Early, Filling, Built
  <2>6. FilesValid'
    BY <1>3 DEF StartHealth, IInv, FilesValid, Early, Filling, Built
  <2>7. Covered'
    BY <1>3 DEF StartHealth, IInv, Covered, Early, Closing, Over, Runs
  <2>. QED  BY <2>1, <2>2, <2>3, <2>4, <2>5, <2>6, <2>7, Frames DEF IInv
<1>4. CASE Load
  <2>1. UNCHANGED <<sigPc, sigCh, hupPc, hupCh, hupRead, ready, health, disk, good, hupped,
        shutdowns, hups, exit>>
    BY <1>4 DEF Load, NewRuntime
  <2>2. RuntimeTypeOK'
    BY <1>4 DEF Load, NewRuntime, IInv, RuntimeTypeOK, EnvTypeOK
  <2>3. MainTypeOK'
    BY <1>4 DEF Load, NewRuntime, IInv, MainTypeOK, MainPoints
  <2>4. Progress'
    BY <1>4 DEF Load, NewRuntime, IInv, Progress, Early, Filling, Built
  <2>5. ReadyLate'
    BY <1>4 DEF Load, NewRuntime, IInv, ReadyLate, Early, Filling, Built
  <2>6. FilesValid'
    BY <1>4 DEF Load, NewRuntime, IInv, FilesValid, Progress, Early, Filling, Built
  <2>7. HangupKept'
    BY <1>4 DEF Load, NewRuntime, IInv, HangupKept, EnvTypeOK
  <2>8. Covered'
    BY <1>4 DEF Load, NewRuntime, IInv, Covered, Early, Closing, Over, Runs
  <2>. QED  BY <2>1, <2>2, <2>3, <2>4, <2>5, <2>6, <2>7, <2>8, Frames DEF IInv
<1>5. CASE Models
  <2>1. UNCHANGED <<sigPc, sigCh, hupPc, hupCh, hupRead, ready, health, disk, good, hupped,
        shutdowns, hups, exit, af>>
    BY <1>5 DEF Models, InitModels
  <2>2. RuntimeTypeOK'
    BY <1>5 DEF Models, InitModels, IInv, RuntimeTypeOK
  <2>3. MainTypeOK'
    BY <1>5 DEF Models, InitModels, IInv, MainTypeOK, MainPoints
  <2>4. Progress'
    BY <1>5 DEF Models, InitModels, IInv, Progress, Early, Filling, Built
  <2>5. ReadyLate'
    BY <1>5 DEF Models, InitModels, IInv, ReadyLate, Early, Filling, Built
  <2>6. FilesValid'
    BY <1>5 DEF Models, InitModels, IInv, FilesValid, Early, Filling, Built
  <2>7. Covered'
    BY <1>5 DEF Models, InitModels, IInv, Covered, Early, Closing, Over, Runs
  <2>. QED  BY <2>1, <2>2, <2>3, <2>4, <2>5, <2>6, <2>7, Frames DEF IInv
<1>6. CASE CheckEnv
  <2>1. UNCHANGED <<registry, af, agent, toolsets, closers, conn, sigPc, sigCh, hupPc, hupCh,
        hupRead, ready, health, disk, good, hupped, shutdowns, hups, exit>>
    BY <1>6 DEF CheckEnv
  <2>2. MainTypeOK'
    BY <1>6 DEF CheckEnv, IInv, MainTypeOK, MainPoints
  <2>3. Progress'
    BY <1>6 DEF CheckEnv, IInv, Progress, MainTypeOK, RuntimeTypeOK, Early, Filling, Built
  <2>4. ReadyLate'
    BY <1>6 DEF CheckEnv, IInv, ReadyLate, Early, Filling, Built
  <2>5. FilesValid'
    BY <1>6 DEF CheckEnv, IInv, FilesValid, Early, Filling, Built
  <2>6. Covered'
    BY <1>6 DEF CheckEnv, IInv, Covered, Early, Closing, Over, Runs
  <2>. QED  BY <2>1, <2>2, <2>3, <2>4, <2>5, <2>6, Frames DEF IInv
<1>7. CASE Connect
  <2>1. UNCHANGED <<sigPc, sigCh, hupPc, hupCh, hupRead, ready, health, disk, good, hupped,
        shutdowns, hups, exit, af>>
    BY <1>7 DEF Connect, ConnectSkill
  <2>2. RuntimeTypeOK'
    <3>1. CASE UNCHANGED runtimeVars
      BY <3>1, Frames DEF IInv
    <3>2. CASE ConnectSkill(at) /\ main = "connect"
      <4>1. at \in DOMAIN Skills /\ toolsets + 1 \in 0..NSkills
        BY <3>2 DEF IInv, Progress, MainTypeOK, RuntimeTypeOK
      <4>2. closers \in Seq(DOMAIN Skills)
        BY DEF IInv, RuntimeTypeOK
      <4>3. Append(closers, at) \in Seq(DOMAIN Skills)
        BY <4>1, <4>2
      <4>4. closers' \in Seq(DOMAIN Skills)
        BY <3>2, <4>2, <4>3 DEF ConnectSkill
      <4>. QED  BY <3>2, <4>1, <4>4 DEF ConnectSkill, IInv, RuntimeTypeOK
    <3>. QED  BY <1>7, <3>1, <3>2 DEF Connect
  <2>3. MainTypeOK'
    BY <1>7 DEF Connect, ConnectSkill, IInv, MainTypeOK, MainPoints
  <2>4. Progress'
    BY <1>7 DEF Connect, ConnectSkill, IInv, Progress, MainTypeOK, RuntimeTypeOK, Early,
         Filling, Built
  <2>5. ReadyLate'
    BY <1>7 DEF Connect, ConnectSkill, IInv, ReadyLate, Early, Filling, Built
  <2>6. FilesValid'
    BY <1>7 DEF Connect, ConnectSkill, IInv, FilesValid, Early, Filling, Built
  <2>7. Covered'
    <3>1. Len(closers) \in Nat /\ DOMAIN closers = 1..Len(closers)
      BY ClosersFacts DEF IInv
    <3>2. toolsets \in Nat /\ closers \in Seq(DOMAIN Skills)
      BY DEF IInv, RuntimeTypeOK
    <3>3. CASE UNCHANGED runtimeVars /\ main' = "close" /\ at' = 1
      BY <1>7, <3>1, <3>3 DEF Connect, IInv, Covered, Runs, Early, Closing, Over
    <3>4. CASE main = "connect" /\ main' = "preload" /\ at' = at /\ ConnectSkill(at)
      <4>1. CASE Skills[at] = "stdio"
        <5>1. closers' = Append(closers, at)
          BY <3>4, <4>1 DEF ConnectSkill
        <5>2. /\ Len(closers') = Len(closers) + 1
              /\ DOMAIN closers' = 1..(Len(closers) + 1)
              /\ \A k \in 1..Len(closers) : closers'[k] = closers[k]
              /\ closers'[Len(closers) + 1] = at
          BY <3>1, <3>2, <5>1, <3>4 DEF IInv, Progress, MainTypeOK
        <5>. QED  BY <1>7, <3>1, <3>2, <3>4, <5>2
                  DEF Connect, ConnectSkill, IInv, Covered, Runs, Early, Closing, Over
      <4>2. CASE Skills[at] # "stdio"
        BY <1>7, <3>1, <3>2, <3>4, <4>2 DEF Connect, ConnectSkill, IInv, Covered, Runs, Early,
             Closing, Over
      <4>. QED  BY <4>1, <4>2
    <3>. QED  BY <1>7, <3>3, <3>4 DEF Connect
  <2>. QED  BY <2>1, <2>2, <2>3, <2>4, <2>5, <2>6, <2>7, Frames DEF IInv
<1>8. CASE Preload
  <2>1. UNCHANGED <<sigPc, sigCh, hupPc, hupCh, hupRead, ready, health, disk, good, hupped,
        shutdowns, hups, exit, af>>
    BY <1>8 DEF Preload, Launch
  <2>2. RuntimeTypeOK'
    <3>1. conn' \in [DOMAIN Skills -> ConnStates]
      BY <1>8 DEF Preload, Launch, IInv, RuntimeTypeOK, ConnStates
    <3>. QED  BY <1>8, <3>1 DEF Preload, Launch, IInv, RuntimeTypeOK
  <2>3. MainTypeOK'
    BY <1>8 DEF Preload, Launch, IInv, MainTypeOK, MainPoints
  <2>4. Progress'
    BY <1>8 DEF Preload, Launch, IInv, Progress, Early, Filling, Built
  <2>5. ReadyLate'
    BY <1>8 DEF Preload, Launch, IInv, ReadyLate, Early, Filling, Built
  <2>6. FilesValid'
    BY <1>8 DEF Preload, Launch, IInv, FilesValid, Early, Filling, Built
  <2>7. Covered'
    <3>1. Len(closers) \in Nat /\ DOMAIN closers = 1..Len(closers)
      BY ClosersFacts DEF IInv
    <3>2. CASE UNCHANGED runtimeVars /\ main' = "close" /\ at' = 1
      BY <1>8, <3>1, <3>2 DEF Preload, IInv, Covered, Runs, Early, Closing, Over
    <3>3. CASE main = "preload" /\ main' = "preload" /\ at' = at /\ Launch(at)
      <4>1. \A i \in DOMAIN Skills : i # at => conn'[i] = conn[i]
        BY <3>3 DEF Launch, IInv, RuntimeTypeOK
      <4>2. \A i \in DOMAIN Skills : Runs(i)' => Runs(i) \/ (i = at /\ Skills[at] = "stdio")
        BY <4>1 DEF Runs
      <4>. QED  BY <1>8, <3>3, <4>2 DEF Preload, Launch, IInv, Covered, Early, Closing, Over
    <3>. QED  BY <1>8, <3>2, <3>3 DEF Preload
  <2>. QED  BY <2>1, <2>2, <2>3, <2>4, <2>5, <2>6, <2>7, Frames DEF IInv
<1>9. CASE Handshake
  <2>1. UNCHANGED <<registry, af, agent, toolsets, closers, conn, sigPc, sigCh, hupPc, hupCh,
        hupRead, ready, health, disk, good, hupped, shutdowns, hups, exit>>
    BY <1>9 DEF Handshake
  <2>2. MainTypeOK'
    BY <1>9 DEF Handshake, IInv, MainTypeOK, Progress, RuntimeTypeOK, MainPoints
  <2>3. Progress'
    <3>1. toolsets \in Nat /\ at \in Nat
      BY DEF IInv, RuntimeTypeOK, MainTypeOK
    <3>. QED  BY <1>9, <2>1, <3>1 DEF Handshake, IInv, Progress, Early, Filling, Built
  <2>4. ReadyLate'
    BY <1>9 DEF Handshake, IInv, ReadyLate, Early, Filling, Built
  <2>5. FilesValid'
    BY <1>9 DEF Handshake, IInv, FilesValid, Early, Filling, Built
  <2>6. Covered'
    BY <1>9 DEF Handshake, IInv, Covered, Early, Closing, Over, Runs
  <2>. QED  BY <2>1, <2>2, <2>3, <2>4, <2>5, <2>6, Frames DEF IInv
<1>10. CASE MakeAgent
  <2>1. UNCHANGED <<sigPc, sigCh, hupPc, hupCh, hupRead, ready, health, disk, good, hupped,
        shutdowns, hups, exit, af>>
    BY <1>10 DEF MakeAgent, BuildAgent
  <2>2. RuntimeTypeOK'
    BY <1>10 DEF MakeAgent, BuildAgent, IInv, RuntimeTypeOK
  <2>3. MainTypeOK'
    BY <1>10 DEF MakeAgent, BuildAgent, IInv, MainTypeOK, MainPoints
  <2>4. Progress'
    BY <1>10 DEF MakeAgent, BuildAgent, IInv, Progress, FilesValid, EnvTypeOK, NoAgent, Early,
         Filling, Built
  <2>5. ReadyLate'
    BY <1>10 DEF MakeAgent, BuildAgent, IInv, ReadyLate, Early, Filling, Built
  <2>6. FilesValid'
    BY <1>10 DEF MakeAgent, BuildAgent, IInv, FilesValid, Early, Filling, Built
  <2>7. Covered'
    <3>1. Len(closers) \in Nat /\ DOMAIN closers = 1..Len(closers)
      BY ClosersFacts DEF IInv
    <3>. QED  BY <1>10, <3>1 DEF MakeAgent, BuildAgent, IInv, Covered, Runs, Early, Closing,
         Over
  <2>. QED  BY <2>1, <2>2, <2>3, <2>4, <2>5, <2>6, <2>7, Frames DEF IInv
<1>11. CASE StartHup
  <2>1. UNCHANGED <<registry, af, agent, toolsets, closers, conn, disk, good, hupped,
        shutdowns, hups, exit>>
    BY <1>11 DEF StartHup
  <2>2. MainTypeOK'
    BY <1>11 DEF StartHup, IInv, MainTypeOK, MainPoints
  <2>3. AsideTypeOK'
    BY <1>11 DEF StartHup, IInv, AsideTypeOK
  <2>4. Progress'
    BY <1>11 DEF StartHup, IInv, Progress, Early, Filling, Built
  <2>5. ReadyLate'
    BY <1>11 DEF StartHup, IInv, ReadyLate, Early, Filling, Built
  <2>6. FilesValid'
    BY <1>11 DEF StartHup, IInv, FilesValid, Early, Filling, Built
  <2>7. HangupKept'
    BY <1>11 DEF StartHup, IInv, HangupKept, ReadyLate, EnvTypeOK
  <2>8. Covered'
    BY <1>11 DEF StartHup, IInv, Covered, Early, Closing, Over, Runs
  <2>. QED  BY <2>1, <2>2, <2>3, <2>4, <2>5, <2>6, <2>7, <2>8, Frames DEF IInv
<1>12. CASE MarkReady
  <2>1. UNCHANGED <<registry, af, agent, toolsets, closers, conn, disk, good, hupped,
        shutdowns, hups, exit, hupPc, hupCh, hupRead>>
    BY <1>12 DEF MarkReady
  <2>2. MainTypeOK'
    BY <1>12 DEF MarkReady, IInv, MainTypeOK, MainPoints
  <2>3. AsideTypeOK'
    BY <1>12 DEF MarkReady, IInv, AsideTypeOK
  <2>4. Progress'
    BY <1>12 DEF MarkReady, IInv, Progress, Early, Filling, Built
  <2>5. ReadyLate'
    BY <1>12 DEF MarkReady, IInv, ReadyLate, Progress, Early, Filling, Built
  <2>6. FilesValid'
    BY <1>12 DEF MarkReady, IInv, FilesValid, Early, Filling, Built
  <2>7. Covered'
    BY <1>12 DEF MarkReady, IInv, Covered, Early, Closing, Over, Runs
  <2>. QED  BY <2>1, <2>2, <2>3, <2>4, <2>5, <2>6, <2>7, Frames DEF IInv
<1>13. CASE MakeBridge
  <2>1. UNCHANGED <<registry, af, agent, toolsets, closers, conn, sigPc, sigCh, hupPc, hupCh,
        hupRead, ready, health, disk, good, hupped, shutdowns, hups, exit>>
    BY <1>13 DEF MakeBridge
  <2>2. MainTypeOK'
    BY <1>13 DEF MakeBridge, IInv, MainTypeOK, MainPoints, RuntimeTypeOK
  <2>3. Progress'
    BY <1>13 DEF MakeBridge, IInv, Progress, Early, Filling, Built
  <2>4. ReadyLate'
    BY <1>13 DEF MakeBridge, IInv, ReadyLate, Early, Filling, Built
  <2>5. FilesValid'
    BY <1>13 DEF MakeBridge, IInv, FilesValid, Early, Filling, Built
  <2>6. Covered'
    BY <1>13 DEF MakeBridge, IInv, Covered, Early, Closing, Over, Runs
  <2>. QED  BY <2>1, <2>2, <2>3, <2>4, <2>5, <2>6, Frames DEF IInv
<1>14. CASE FrontendStep
  <2>1. UNCHANGED <<registry, af, agent, toolsets, closers, conn, sigPc, sigCh, hupPc, hupCh,
        hupRead, ready, health, disk, good, hupped, shutdowns, hups, exit>>
    BY <1>14 DEF FrontendStep, StartFrontend, ReplCheck, ReplLine, ReplTurnEnds,
         PlaygroundReturns, In, Stay, Return, FrontendElse
  <2>2. MainTypeOK'
    BY <1>14 DEF FrontendStep, StartFrontend, ReplCheck, ReplLine, ReplTurnEnds,
         PlaygroundReturns, In, Stay, Return, FrontendElse, IInv, MainTypeOK, MainPoints,
         FrontendPoints
  <2>3. Progress'
    BY <1>14 DEF FrontendStep, StartFrontend, ReplCheck, ReplLine, ReplTurnEnds,
         PlaygroundReturns, In, Stay, Return, FrontendElse, IInv, Progress, Early, Filling,
         Built
  <2>4. ReadyLate'
    BY <1>14 DEF FrontendStep, StartFrontend, ReplCheck, ReplLine, ReplTurnEnds,
         PlaygroundReturns, In, Stay, Return, FrontendElse, IInv, ReadyLate, Early, Filling,
         Built
  <2>5. FilesValid'
    BY <1>14 DEF FrontendStep, StartFrontend, ReplCheck, ReplLine, ReplTurnEnds,
         PlaygroundReturns, In, Stay, Return, FrontendElse, IInv, FilesValid, Early, Filling,
         Built
  <2>6. Covered'
    <3>1. Len(closers) \in Nat /\ DOMAIN closers = 1..Len(closers)
      BY ClosersFacts DEF IInv
    <3>2. CASE Stay
      BY <2>1, <3>2, Frames DEF Stay, IInv
    <3>3. CASE main = "serve" /\ Return
      BY <2>1, <3>1, <3>3 DEF Return, IInv, Covered, Runs, Early, Closing, Over
    <3>. QED  BY <1>14, <3>2, <3>3 DEF FrontendStep, StartFrontend, ReplCheck, ReplLine,
                ReplTurnEnds, PlaygroundReturns, In
  <2>. QED  BY <2>1, <2>2, <2>3, <2>4, <2>5, <2>6, Frames DEF IInv
<1>15. CASE WsTurn
  <2>1. UNCHANGED <<registry, af, agent, toolsets, closers, conn, sigPc, sigCh, hupPc, hupCh,
        hupRead, ready, health, disk, good, hupped, shutdowns, hups, exit, main, at>>
    BY <1>15 DEF WsTurn
  <2>2. MainTypeOK'
    BY <1>15 DEF WsTurn, IInv, MainTypeOK, MainPoints
  <2>. QED  BY <2>1, <2>2, Frames DEF IInv
<1>16. CASE CloseNext
  <2>1. UNCHANGED <<sigPc, sigCh, hupPc, hupCh, hupRead, ready, health, disk, good, hupped,
        shutdowns, hups, exit, af>>
    BY <1>16 DEF CloseNext, Terminate, CloseElse
  <2>2. RuntimeTypeOK'
    BY <1>16 DEF CloseNext, Terminate, CloseElse, IInv, RuntimeTypeOK, ConnStates
  <2>3. MainTypeOK'
    <3>1. Len(closers) \in 0..NSkills
      BY ClosersFacts DEF IInv
    <3>2. at \in Nat /\ (at <= Len(closers) => at + 1 \in 0..(NSkills + 1))
      BY <3>1 DEF IInv, MainTypeOK
    <3>3. main' \in MainPoints /\ at' \in 0..(NSkills + 1)
      BY <1>16, <3>2 DEF CloseNext, CloseElse, IInv, MainTypeOK, MainPoints, Covered
    <3>. QED  BY <2>1, <1>16, <3>3 DEF CloseNext, CloseElse, IInv, MainTypeOK
  <2>4. Progress'
    BY <1>16 DEF CloseNext, Terminate, CloseElse, IInv, Progress, Early, Filling, Built
  <2>5. ReadyLate'
    BY <1>16 DEF CloseNext, Terminate, CloseElse, IInv, ReadyLate, Early, Filling, Built
  <2>6. FilesValid'
    BY <1>16 DEF CloseNext, Terminate, CloseElse, IInv, FilesValid, Early, Filling, Built
  <2>7. Covered'
    <3>1. Len(closers) \in Nat /\ DOMAIN closers = 1..Len(closers) /\ at \in Nat
      BY ClosersFacts DEF IInv, MainTypeOK
    <3>2. closers[at] \in DOMAIN Skills /\ UNCHANGED <<closers, toolsets, exit>>
      BY <1>16, <3>1, ClosersFacts DEF CloseNext, CloseElse, Terminate, IInv, Covered, Closing
    <3>3. \A i \in DOMAIN Skills : Runs(i)' => Runs(i)
      BY <1>16, <3>2 DEF CloseNext, Terminate, Runs, IInv, RuntimeTypeOK
    <3>4. CASE conn[closers[at]] = "none"
      <4>1. ~Runs(closers[at])
        BY <3>4 DEF Runs
      <4>. QED  BY <1>16, <3>1, <3>2, <3>3, <3>4, <4>1 DEF CloseNext, IInv, Covered, Early,
           Closing, Over
    <3>5. CASE conn[closers[at]] # "none"
      BY <1>16, <3>1, <3>2, <3>3, <3>5 DEF CloseNext, IInv, Covered, Early, Closing, Over
    <3>. QED  BY <3>4, <3>5
  <2>. QED  BY <2>1, <2>2, <2>3, <2>4, <2>5, <2>6, <2>7, Frames DEF IInv
<1>17. CASE CloseDone
  <2>1. UNCHANGED <<registry, af, agent, toolsets, closers, conn, sigPc, sigCh, hupPc, hupCh,
        hupRead, ready, health, disk, good, hupped, shutdowns, hups, exit>>
    BY <1>17 DEF CloseDone, CloseElse
  <2>2. MainTypeOK'
    <3>1. Len(closers) \in 0..NSkills
      BY ClosersFacts DEF IInv
    <3>2. at \in Nat /\ (at <= Len(closers) => at + 1 \in 0..(NSkills + 1))
      BY <3>1 DEF IInv, MainTypeOK
    <3>3. main' \in MainPoints /\ at' \in 0..(NSkills + 1)
      BY <1>17, <3>2 DEF CloseDone, CloseElse, IInv, MainTypeOK, MainPoints, Covered
    <3>. QED  BY <2>1, <1>17, <3>3 DEF CloseDone, CloseElse, IInv, MainTypeOK
  <2>3. Progress'
    BY <1>17 DEF CloseDone, CloseElse, IInv, Progress, Early, Filling, Built
  <2>4. ReadyLate'
    BY <1>17 DEF CloseDone, CloseElse, IInv, ReadyLate, Early, Filling, Built
  <2>5. FilesValid'
    BY <1>17 DEF CloseDone, CloseElse, IInv, FilesValid, Early, Filling, Built
  <2>6. Covered'
    BY <1>17 DEF CloseDone, CloseElse, IInv, Covered, MainTypeOK, RuntimeTypeOK, Early,
         Closing, Over, Runs
  <2>. QED  BY <2>1, <2>2, <2>3, <2>4, <2>5, <2>6, Frames DEF IInv
<1>18. CASE CloseTimeout
  <2>1. UNCHANGED <<sigPc, sigCh, hupPc, hupCh, hupRead, ready, health, disk, good, hupped,
        shutdowns, hups, exit, af>>
    BY <1>18 DEF CloseTimeout, Kill, CloseElse
  <2>2. RuntimeTypeOK'
    BY <1>18 DEF CloseTimeout, Kill, CloseElse, IInv, RuntimeTypeOK, ConnStates
  <2>3. MainTypeOK'
    <3>1. Len(closers) \in 0..NSkills
      BY ClosersFacts DEF IInv
    <3>2. at \in Nat /\ (at <= Len(closers) => at + 1 \in 0..(NSkills + 1))
      BY <3>1 DEF IInv, MainTypeOK
    <3>3. main' \in MainPoints /\ at' \in 0..(NSkills + 1)
      BY <1>18, <3>2 DEF CloseTimeout, CloseElse, IInv, MainTypeOK, MainPoints, Covered
    <3>. QED  BY <2>1, <1>18, <3>3 DEF CloseTimeout, CloseElse, IInv, MainTypeOK
  <2>4. Progress'
    BY <1>18 DEF CloseTimeout, Kill, CloseElse, IInv, Progress, Early, Filling, Built
  <2>5. ReadyLate'
    BY <1>18 DEF CloseTimeout, Kill, CloseElse, IInv, ReadyLate, Early, Filling, Built
  <2>6. FilesValid'
    BY <1>18 DEF CloseTimeout, Kill, CloseElse, IInv, FilesValid, Early, Filling, Built
  <2>7. Covered'
    BY <1>18 DEF CloseTimeout, Kill, CloseElse, IInv, Covered, MainTypeOK, RuntimeTypeOK,
         Early, Closing, Over, Runs
  <2>. QED  BY <2>1, <2>2, <2>3, <2>4, <2>5, <2>6, <2>7, Frames DEF IInv
<1>19. CASE CloseEnds
  <2>1. UNCHANGED <<sigPc, sigCh, hupPc, hupCh, hupRead, ready, health, disk, good, hupped,
        shutdowns, hups, exit, af>>
    BY <1>19 DEF CloseEnds, DropClosers, CloseElse
  <2>2. RuntimeTypeOK'
    BY <1>19 DEF CloseEnds, DropClosers, CloseElse, IInv, RuntimeTypeOK
  <2>3. MainTypeOK'
    BY <1>19 DEF CloseEnds, DropClosers, CloseElse, IInv, MainTypeOK, MainPoints
  <2>4. Progress'
    BY <1>19 DEF CloseEnds, DropClosers, CloseElse, IInv, Progress, Early, Filling, Built
  <2>5. ReadyLate'
    BY <1>19 DEF CloseEnds, DropClosers, CloseElse, IInv, ReadyLate, Early, Filling, Built
  <2>6. FilesValid'
    BY <1>19 DEF CloseEnds, DropClosers, CloseElse, IInv, FilesValid, Early, Filling, Built
  <2>7. Covered'
    <3>1. DOMAIN closers = 1..Len(closers) /\ Len(closers) \in Nat /\ at \in Nat /\ toolsets \in Nat
      BY ClosersFacts DEF IInv, MainTypeOK, RuntimeTypeOK
    <3>2. \A i \in DOMAIN Skills : ~Runs(i)
      BY <1>19, <3>1 DEF CloseEnds, IInv, Covered, Closing
    <3>. QED  BY <1>19, <3>1, <3>2 DEF CloseEnds, DropClosers, CloseElse, IInv, Covered,
                Runs, Early, Closing, Over
  <2>. QED  BY <2>1, <2>2, <2>3, <2>4, <2>5, <2>6, <2>7, Frames DEF IInv
<1>20. CASE MarkNotReady
  <2>1. UNCHANGED <<registry, af, agent, toolsets, closers, conn, disk, good, hupped,
        shutdowns, hups, exit, hupPc, hupCh, hupRead>>
    BY <1>20 DEF MarkNotReady
  <2>2. MainTypeOK'
    BY <1>20 DEF MarkNotReady, IInv, MainTypeOK, MainPoints
  <2>3. AsideTypeOK'
    BY <1>20 DEF MarkNotReady, IInv, AsideTypeOK
  <2>4. Progress'
    BY <1>20 DEF MarkNotReady, IInv, Progress, Early, Filling, Built
  <2>5. ReadyLate'
    BY <1>20 DEF MarkNotReady, IInv, ReadyLate, Early, Filling, Built
  <2>6. FilesValid'
    BY <1>20 DEF MarkNotReady, IInv, FilesValid, Early, Filling, Built
  <2>7. Covered'
    BY <1>20 DEF MarkNotReady, IInv, Covered, Early, Closing, Over, Runs
  <2>. QED  BY <2>1, <2>2, <2>3, <2>4, <2>5, <2>6, <2>7, Frames DEF IInv
<1>21. CASE ReturnFromRun
  <2>1. UNCHANGED <<registry, af, agent, toolsets, closers, conn, sigPc, sigCh, hupPc, hupCh,
        hupRead, ready, health, hupped, disk>>
    BY <1>21 DEF ReturnFromRun
  <2>2. MainTypeOK'
    BY <1>21 DEF ReturnFromRun, IInv, MainTypeOK, MainPoints
  <2>3. EnvTypeOK'
    BY <1>21 DEF ReturnFromRun, IInv, EnvTypeOK
  <2>4. Progress'
    BY <1>21 DEF ReturnFromRun, IInv, Progress, Early, Filling, Built
  <2>5. ReadyLate'
    BY <1>21 DEF ReturnFromRun, IInv, ReadyLate, Early, Filling, Built
  <2>6. FilesValid'
    BY <1>21 DEF ReturnFromRun, IInv, FilesValid, Early, Filling, Built
  <2>7. Covered'
    BY <1>21 DEF ReturnFromRun, IInv, Covered, Early, Closing, Over, Runs
  <2>. QED  BY <2>1, <2>2, <2>3, <2>4, <2>5, <2>6, <2>7, Frames DEF IInv
<1>22. CASE SigFirst
  <2>1. UNCHANGED <<registry, af, agent, toolsets, closers, conn, main, at, frontend, fe,
        chat, bridge, ctx, disk, good, hupped, shutdowns, hups, exit, ready, hupPc, hupRead,
        hupCh>>
    BY <1>22 DEF SigFirst
  <2>2. AsideTypeOK'
    BY <1>22 DEF SigFirst, IInv, AsideTypeOK
  <2>. QED  BY <2>1, <2>2, Frames DEF IInv
<1>23. CASE SigCancel
  <2>1. UNCHANGED <<registry, af, agent, toolsets, closers, conn, disk, good, hupped,
        shutdowns, hups, exit, main, at, ready, hupPc, hupRead, hupCh>>
    BY <1>23 DEF SigCancel
  <2>2. MainTypeOK'
    BY <1>23 DEF SigCancel, IInv, MainTypeOK, MainPoints
  <2>3. AsideTypeOK'
    BY <1>23 DEF SigCancel, IInv, AsideTypeOK
  <2>. QED  BY <2>1, <2>2, <2>3, Frames DEF IInv
<1>24. CASE SigSecond
  <2>1. UNCHANGED <<registry, af, agent, toolsets, closers, conn, main, at, frontend, fe,
        chat, bridge, ctx, ready, hupPc, disk, good, hupRead, hupped, hupCh>>
    BY <1>24 DEF SigSecond
  <2>2. AsideTypeOK'
    BY <1>24 DEF SigSecond, IInv, AsideTypeOK
  <2>3. EnvTypeOK'
    BY <1>24 DEF SigSecond, IInv, EnvTypeOK
  <2>4. Covered'
    BY <1>24 DEF SigSecond, IInv, Covered, Early, Closing, Over, Runs
  <2>. QED  BY <2>1, <2>2, <2>3, <2>4, Frames DEF IInv
<1>25. CASE HupNotify
  <2>1. UNCHANGED <<registry, af, agent, toolsets, closers, conn, main, at, frontend, fe,
        chat, bridge, ctx, disk, good, hupped, shutdowns, hups, exit>>
    BY <1>25 DEF HupNotify, HupElse
  <2>2. AsideTypeOK'
    BY <1>25 DEF HupNotify, HupElse, IInv, AsideTypeOK
  <2>3. ReadyLate'
    BY <1>25 DEF HupNotify, HupElse, IInv, ReadyLate, Early, Filling, Built
  <2>4. FilesValid'
    BY <1>25 DEF HupNotify, HupElse, IInv, FilesValid, Early, Filling, Built
  <2>5. HangupKept'
    BY <1>25 DEF HupNotify, HupElse, IInv, HangupKept, EnvTypeOK
  <2>. QED  BY <2>1, <2>2, <2>3, <2>4, <2>5, Frames DEF IInv
<1>26. CASE HupSelect
  <2>1. UNCHANGED <<registry, af, agent, toolsets, closers, conn, main, at, frontend, fe,
        chat, bridge, ctx, disk, good, hupped, shutdowns, hups, exit>>
    BY <1>26 DEF HupSelect, HupElse
  <2>2. AsideTypeOK'
    BY <1>26 DEF HupSelect, HupElse, IInv, AsideTypeOK
  <2>3. ReadyLate'
    BY <1>26 DEF HupSelect, HupElse, IInv, ReadyLate, Early, Filling, Built
  <2>4. FilesValid'
    BY <1>26 DEF HupSelect, HupElse, IInv, FilesValid, Early, Filling, Built
  <2>5. HangupKept'
    BY <1>26 DEF HupSelect, HupElse, IInv, HangupKept, EnvTypeOK
  <2>. QED  BY <2>1, <2>2, <2>3, <2>4, <2>5, Frames DEF IInv
<1>27. CASE HupRead
  <2>1. UNCHANGED <<registry, af, agent, toolsets, closers, conn, main, at, frontend, fe,
        chat, bridge, ctx, disk, good, hupped, shutdowns, hups, exit>>
    BY <1>27 DEF HupRead, HupElse
  <2>2. AsideTypeOK'
    BY <1>27 DEF HupRead, HupElse, IInv, AsideTypeOK, EnvTypeOK
  <2>3. ReadyLate'
    BY <1>27 DEF HupRead, HupElse, IInv, ReadyLate, Early, Filling, Built
  <2>4. FilesValid'
    BY <1>27 DEF HupRead, HupElse, IInv, FilesValid, Early, Filling, Built
  <2>5. HangupKept'
    BY <1>27 DEF HupRead, HupElse, IInv, HangupKept, EnvTypeOK
  <2>. QED  BY <2>1, <2>2, <2>3, <2>4, <2>5, Frames DEF IInv
<1>28. CASE HupReload
  <2>1. UNCHANGED <<main, at, frontend, fe, chat, bridge, ctx, disk, good, hupped, shutdowns,
        hups, exit, closers, toolsets, conn>>
    BY <1>28 DEF HupReload, Reload, HupElse
  <2>2. RuntimeTypeOK'
    BY <1>28 DEF HupReload, Reload, HupElse, IInv, RuntimeTypeOK, AsideTypeOK
  <2>3. AsideTypeOK'
    BY <1>28 DEF HupReload, Reload, HupElse, IInv, AsideTypeOK
  <2>4. Progress'
    BY <1>28 DEF HupReload, Reload, HupElse, IInv, Progress, ReadyLate, FilesValid, EnvTypeOK,
         NoAgent, Early, Filling, Built
  <2>5. ReadyLate'
    BY <1>28 DEF HupReload, Reload, HupElse, IInv, ReadyLate, FilesValid, EnvTypeOK, NoAgent,
         Early, Filling, Built
  <2>6. FilesValid'
    BY <1>28 DEF HupReload, Reload, HupElse, IInv, FilesValid, Early, Filling, Built
  <2>7. HangupKept'
    BY <1>28 DEF HupReload, Reload, HupElse, IInv, HangupKept, EnvTypeOK
  <2>. QED  BY <2>1, <2>2, <2>3, <2>4, <2>5, <2>6, <2>7, Frames DEF IInv
<1>29. CASE HealthListen
  <2>1. UNCHANGED <<registry, af, agent, toolsets, closers, conn, main, at, frontend, fe,
        chat, bridge, ctx, disk, good, hupped, shutdowns, hups, exit, ready, hupPc, hupRead,
        hupCh>>
    BY <1>29 DEF HealthListen, HealthElse
  <2>2. AsideTypeOK'
    BY <1>29 DEF HealthListen, HealthElse, IInv, AsideTypeOK
  <2>. QED  BY <2>1, <2>2, Frames DEF IInv
<1>30. CASE HealthShutdown
  <2>1. UNCHANGED <<registry, af, agent, toolsets, closers, conn, main, at, frontend, fe,
        chat, bridge, ctx, disk, good, hupped, shutdowns, hups, exit, ready, hupPc, hupRead,
        hupCh>>
    BY <1>30 DEF HealthShutdown, HealthElse
  <2>2. AsideTypeOK'
    BY <1>30 DEF HealthShutdown, HealthElse, IInv, AsideTypeOK
  <2>. QED  BY <2>1, <2>2, Frames DEF IInv
<1>31. CASE Shutdown
  <2>1. UNCHANGED <<registry, af, agent, toolsets, closers, conn, main, at, frontend, fe,
        chat, bridge, ctx, ready, hupPc, disk, good, hupRead, hupped, hupCh>>
    BY <1>31 DEF Shutdown, EnvElse
  <2>2. AsideTypeOK'
    BY <1>31 DEF Shutdown, EnvElse, IInv, AsideTypeOK
  <2>3. EnvTypeOK'
    BY <1>31 DEF Shutdown, EnvElse, IInv, EnvTypeOK
  <2>4. Covered'
    BY <1>31 DEF Shutdown, EnvElse, IInv, Covered, Early, Closing, Over, Runs
  <2>. QED  BY <2>1, <2>2, <2>3, <2>4, Frames DEF IInv
<1>32. CASE Hangup
  <2>1. UNCHANGED <<registry, af, agent, toolsets, closers, conn, main, at, frontend, fe,
        chat, bridge, ctx, ready, hupPc, disk, good, hupRead>>
    BY <1>32 DEF Hangup, EnvElse
  <2>2. AsideTypeOK'
    BY <1>32 DEF Hangup, EnvElse, IInv, AsideTypeOK
  <2>3. EnvTypeOK'
    BY <1>32 DEF Hangup, EnvElse, IInv, EnvTypeOK
  <2>4. HangupKept'
    BY <1>32 DEF Hangup, EnvElse, IInv, HangupKept, EnvTypeOK
  <2>5. Covered'
    BY <1>32 DEF Hangup, EnvElse, IInv, Covered, Early, Closing, Over, Runs
  <2>. QED  BY <2>1, <2>2, <2>3, <2>4, <2>5, Frames DEF IInv
<1>33. CASE Edit
  <2>1. UNCHANGED <<registry, af, agent, toolsets, closers, conn, main, at, frontend, fe,
        chat, bridge, ctx, sigPc, sigCh, hupPc, hupCh, hupRead, ready, health, exit>>
    BY <1>33 DEF Edit, EnvElse
  <2>2. EnvTypeOK'
    <3>1. disk.edit \in 1..MaxEdits /\ disk.edit + 1 \in 1..(MaxEdits + 1)
      BY <1>33 DEF Edit, IInv, EnvTypeOK
    <3>2. PICK ok \in BOOLEAN :
             /\ disk' = [edit |-> disk.edit + 1, ok |-> ok]
             /\ good' = IF ok THEN good \cup {disk.edit + 1} ELSE good
      BY <1>33 DEF Edit
    <3>3. disk' \in [edit : 1..(MaxEdits + 1), ok : BOOLEAN]
      BY <3>1, <3>2
    <3>4. good' \subseteq 1..(MaxEdits + 1)
      BY <3>1, <3>2 DEF IInv, EnvTypeOK
    <3>. QED  BY <1>33, <3>3, <3>4 DEF Edit, EnvElse, IInv, EnvTypeOK
  <2>3. FilesValid'
    BY <1>33 DEF Edit, EnvElse, IInv, FilesValid, Early, Filling, Built
  <2>4. HangupKept'
    BY <1>33 DEF Edit, EnvElse, IInv, HangupKept, EnvTypeOK
  <2>. QED  BY <2>1, <2>2, <2>3, <2>4, Frames DEF IInv
<1>34. CASE \E i \in DOMAIN Skills : ContextKill(i) \/ SkillStops(i)
  <2>1. UNCHANGED <<main, at, frontend, fe, chat, bridge, ctx, sigPc, sigCh, hupPc, hupCh,
        hupRead, ready, health, disk, good, hupped, shutdowns, hups, exit, toolsets, agent, af>>
    BY <1>34 DEF ContextKill, SkillStops, Kill, SkillExits, SkillElse, daemonVars
  <2>2. RuntimeTypeOK'
    <3>1. conn' \in [DOMAIN Skills -> ConnStates]
      BY <1>34 DEF ContextKill, SkillStops, Kill, SkillExits, IInv, RuntimeTypeOK, ConnStates
    <3>2. UNCHANGED <<registry, af, agent, toolsets, closers>>
      BY <1>34 DEF ContextKill, SkillStops, Kill, SkillExits
    <3>. QED  BY <3>1, <3>2 DEF IInv, RuntimeTypeOK
  <2>3. Covered'
    <3>1. UNCHANGED <<closers, toolsets, main, at, exit>>
      BY <1>34 DEF ContextKill, SkillStops, Kill, SkillExits, SkillElse, daemonVars
    <3>2. \A i \in DOMAIN Skills : Runs(i)' => Runs(i)
      BY <1>34 DEF ContextKill, SkillStops, Kill, SkillExits, Runs, IInv, RuntimeTypeOK
    <3>. QED  BY <3>1, <3>2 DEF IInv, Covered
  <2>. QED  BY <2>1, <2>2, <2>3, Frames DEF IInv
<1>35. CASE UNCHANGED vars
  <2>1. UNCHANGED <<registry, af, agent, toolsets, closers, conn, main, at, frontend, fe,
        chat, bridge, ctx, sigPc, sigCh, hupPc, hupCh, hupRead, ready, health, disk, good,
        hupped, shutdowns, hups, exit>>
    BY <1>35 DEF vars, daemonVars
  <2>. QED  BY <2>1, Frames DEF IInv
<1>. QED
  BY <1>1, <1>2, <1>3, <1>4, <1>5, <1>6, <1>7, <1>8, <1>9, <1>10, <1>11, <1>12, <1>13, <1>14,
       <1>15, <1>16, <1>17, <1>18, <1>19, <1>20, <1>21, <1>22, <1>23, <1>24, <1>25, <1>26,
       <1>27, <1>28, <1>29, <1>30, <1>31, <1>32, <1>33, <1>34, <1>35 DEF Next, LocalStep,
       SkillCall

\* Nothing runs, nothing is ready and no file is in use before run starts.
LEMMA Initially == Init => IInv
<1>. SUFFICES ASSUME Init PROVE IInv
  OBVIOUS
<1>1. RuntimeTypeOK
  BY SkillsDomain DEF Init, RuntimeInit, RuntimeTypeOK, NoAgent, ConnStates
<1>2. MainTypeOK
  <2>1. bridge \in [persona : Nat, model : Nat]
    BY DEF Init, NoAgent
  <2>2. at \in 0..(NSkills + 1)
    BY SkillsDomain DEF Init
  <2>. QED  BY <2>1, <2>2 DEF Init, MainTypeOK, MainPoints, FrontendPoints
<1>3. AsideTypeOK
  <2>1. ready \in BOOLEAN
    BY DEF Init
  <2>2. sigCh \in 0..1 /\ hupCh \in 0..1 /\ hupRead \in Nat
    BY DEF Init
  <2>. QED  BY <2>1, <2>2 DEF Init, AsideTypeOK
<1>4. EnvTypeOK
  <2>1. PICK ok \in BOOLEAN : disk = [edit |-> 1, ok |-> ok] /\ good = IF ok THEN {1} ELSE {}
    BY DEF Init
  <2>2. 1 \in 1..(MaxEdits + 1) /\ 0 \in 0..(MaxEdits + 1)
    BY DaemonAssumption
  <2>3. 0 \in 0..MaxShutdowns /\ 0 \in 0..MaxHups
    BY DaemonAssumption
  <2>. QED  BY <2>1, <2>2, <2>3 DEF Init, EnvTypeOK
<1>5. Progress /\ ReadyLate
  BY DEF Init, RuntimeInit, Progress, ReadyLate, Early, Filling, Built
<1>6. FilesValid /\ HangupKept
  BY DEF Init, RuntimeInit, FilesValid, HangupKept, Filling, Built, NoAgent
<1>7. Covered
  BY DEF Init, RuntimeInit, Covered, Runs, Early, Closing, Over
<1>. QED  BY <1>1, <1>2, <1>3, <1>4, <1>5, <1>6, <1>7 DEF IInv, TypeOK

-----------------------------------------------------------------------------
\* The invariant holds in every behaviour of the process, whenever signals
\* arrive, skills fail and the Agentfile is edited.
THEOREM Invariance == Spec => []IInv
<1>1. Init => IInv
  BY Initially
<1>2. IInv /\ [Next]_vars => IInv'
  BY Steps
<1>. QED  BY <1>1, <1>2, PTL DEF Spec

\* /readyz answers 200 only after run connected every skill and built the
\* agent, whatever failed or was signalled on the way.
THEOREM ReadyIsLate == Spec => []ReadyAfterInit
<1>1. IInv => ReadyAfterInit
  BY DEF IInv, ReadyLate, ReadyAfterInit
<1>. QED  BY <1>1, Invariance, PTL

\* The runtime never runs an Agentfile that was invalid when it was read, and
\* r.agent and r.af change together.
THEOREM RunsValidConfigs == Spec => []OnlyValidConfigs
<1>1. IInv => OnlyValidConfigs
  BY DEF IInv, FilesValid, OnlyValidConfigs
<1>. QED  BY <1>1, Invariance, PTL

\* A SIGHUP that handleSIGHUP is too busy to take is not lost: the valid file
\* that was on disk at the last one runs once the goroutine is idle.
THEOREM HangupsCoalesce == Spec => []CoalescedReload
<1>1. IInv => CoalescedReload
  BY DEF IInv, TypeOK, AsideTypeOK, HangupKept, CoalescedReload
<1>. QED  BY <1>1, Invariance, PTL

\* However run ends by returning, its deferred Close has stopped every
\* subprocess that connectSkill launched; until then each has its closer.
THEOREM NoSkillIsOrphaned == Spec => []NoOrphans
<1>1. ASSUME IInv PROVE NoOrphans
  <2>1. TypeOK
    BY <1>1 DEF IInv
  <2>2. ASSUME NEW i \in DOMAIN Skills, Runs(i)
        PROVE  exit # "returned" /\ \E k \in DOMAIN closers : closers[k] = i
    <3>1. exit # "returned"
      BY <1>1, <2>2 DEF IInv, Covered, Over
    <3>. QED  BY <1>1, <2>2, <3>1 DEF IInv, Covered
  <2>. QED  BY <2>1, <2>2 DEF NoOrphans, Runs
<1>. QED  BY <1>1, Invariance, PTL
=============================================================================
