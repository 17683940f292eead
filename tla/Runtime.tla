------------------------------ MODULE Runtime ------------------------------
(***************************************************************************)
(* internal/runtime/runtime.go: the state a Runtime owns and what each of  *)
(* its operations does to it.  The operations are called by main, by the   *)
(* deferred Close and by the SIGHUP goroutine; Daemon.tla decides when.    *)
(*                                                                         *)
(* An Agentfile is abstracted to the number of the edit that produced it.  *)
(* Its persona and its brain both change with every edit, so an agent is   *)
(* the pair of the edits its prompt and its model come from.               *)
(***************************************************************************)
EXTENDS Naturals, Sequences

CONSTANT Skills   \* the declared skills: a sequence of their types

SkillTypes == {"stdio", "http", "sse", "mcp"}

ASSUME RuntimeAssumption == Skills \in Seq(SkillTypes)

NSkills == Len(Skills)

VARIABLES registry,  \* the edit whose brain the model registry was built from
          af,        \* the edit r.af holds
          agent,     \* r.agent: [persona, model], or NoAgent before Init ends
          toolsets,  \* how many skills were appended to r.toolsets
          closers,   \* r.closers, as the skills they belong to
          conn       \* per skill, its connection and (stdio) its subprocess

runtimeVars == <<registry, af, agent, toolsets, closers, conn>>

NoAgent == [persona |-> 0, model |-> 0]

\* none: not connected; open: connected, its subprocess (if stdio) running;
\* termed: SIGTERM was sent; exited: gone by itself; killed: by SIGKILL.
ConnStates == {"none", "open", "termed", "exited", "killed"}

RuntimeTypeOK ==
    /\ registry \in Nat /\ af \in Nat
    /\ agent \in [persona : Nat, model : Nat]
    /\ toolsets \in 0..NSkills
    /\ closers \in Seq(DOMAIN Skills)
    /\ conn \in [DOMAIN Skills -> ConnStates]

RuntimeInit ==
    /\ registry = 0 /\ af = 0
    /\ agent = NoAgent
    /\ toolsets = 0 /\ closers = <<>>
    /\ conn = [i \in DOMAIN Skills |-> "none"]

\* New, with the Agentfile the main goroutine parsed.
NewRuntime(v) ==
    /\ af' = v
    /\ UNCHANGED <<registry, agent, toolsets, closers, conn>>

\* NewModelRegistry over r.af.Brain succeeded.
InitModels ==
    /\ registry' = af
    /\ UNCHANGED <<af, agent, toolsets, closers, conn>>

\* Faulty: the closer is dropped.
ConnectSkillNoCloser(i) ==
    /\ Skills[i] # "mcp"
    /\ toolsets' = toolsets + 1
    /\ UNCHANGED <<registry, af, agent, closers, conn>>

\* connectSkill and the appends that follow it.  Nothing is launched yet; only
\* a stdio skill has a closer.  The types "mcp" and unknown are errors.
ConnectSkill(i) ==
    /\ Skills[i] # "mcp"
    /\ toolsets' = toolsets + 1
    /\ closers' = IF Skills[i] = "stdio" THEN Append(closers, i) ELSE closers
    /\ UNCHANGED <<registry, af, agent, conn>>

\* ts.Tools opens the MCP session, which launches the subprocess of a stdio
\* skill; after that the handshake may still fail.
Launch(i) ==
    /\ conn' = [conn EXCEPT ![i] = "open"]
    /\ UNCHANGED <<registry, af, agent, toolsets, closers>>

\* Default() and llmagent.New of Init.
BuildAgent ==
    /\ agent' = [persona |-> af, model |-> registry]
    /\ UNCHANGED <<registry, af, toolsets, closers, conn>>

\* Reload: the default model comes from the registry that Init built, the
\* instruction from the new Agentfile; r.agent and r.af change under r.mu.
Reload(v) ==
    /\ agent' = [persona |-> v, model |-> registry]
    /\ af' = v
    /\ UNCHANGED <<registry, toolsets, closers, conn>>

\* A closer's SIGTERM.  A process that never started has no closer to run and
\* one that is gone cannot be signalled; neither changes anything.
Terminate(i) ==
    /\ conn' = [conn EXCEPT ![i] = IF @ = "open" THEN "termed" ELSE @]
    /\ UNCHANGED <<registry, af, agent, toolsets, closers>>

\* The subprocess reacts to SIGTERM, or crashes.
SkillExits(i) ==
    /\ Skills[i] = "stdio" /\ conn[i] \in {"open", "termed"}
    /\ conn' = [conn EXCEPT ![i] = "exited"]
    /\ UNCHANGED <<registry, af, agent, toolsets, closers>>

\* Process.Kill: by a closer whose five seconds are over, or by
\* exec.CommandContext once its context is done.
Kill(i) ==
    /\ Skills[i] = "stdio" /\ conn[i] \in {"open", "termed"}
    /\ conn' = [conn EXCEPT ![i] = "killed"]
    /\ UNCHANGED <<registry, af, agent, toolsets, closers>>

\* The end of Close: r.closers = nil.
DropClosers ==
    /\ closers' = <<>>
    /\ UNCHANGED <<registry, af, agent, toolsets, conn>>
=============================================================================
