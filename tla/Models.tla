------------------------------- MODULE Models -------------------------------
(***************************************************************************)
(* internal/runtime/models.go with the CreateModel functions of the three  *)
(* providers, and Lookup of internal/runtimecfg/config.go: which models of *)
(* the Agentfile come up, and where each of them sends its requests.       *)
(*                                                                         *)
(* "" is the empty string of the code: a field that is not set.  A set     *)
(* environment variable has its own name for a value.  A model string      *)
(* "prefix/id" is a record; its prefix is "" when it has no slash.         *)
(***************************************************************************)
EXTENDS Integers, Sequences, FiniteSets

CONSTANTS Setups,  \* [brain, rc, env, sdk]: the Agentfile's brain, the connections
                   \* of runtime.json, the environment variables that are set, and
                   \* whether the genai SDK can make a client here
          Edits    \* brains a reload may bring

VARIABLES setup,     \* what the process was started with
          brain,     \* brain of the Agentfile the runtime holds now
          next,      \* the entry of brain.models the loop is at
          registry,  \* the instance of each name, or NoModel
          warned,    \* names with a warning
          stage      \* "creating", "connecting" the skills, "serving" or "failed"

modelVars == <<setup, brain, next, registry, warned, stage>>

Params == {"temperature", "max_tokens", "top_p"}

Entries == {setup.brain.models[i] : i \in DOMAIN setup.brain.models}
Names   == {e.name : e \in Entries}

\* A connection of runtime.json.
Connection == [apiType : STRING, base : STRING, auth : STRING, host : STRING, slots : Nat]
NoConnection == [apiType |-> "", base |-> "", auth |-> "", host |-> "", slots |-> 0]

\* No instance.  An instance is its provider, where its requests go, and what
\* they carry; slots is what ratelimit.New is called with.
NoModel == [provider |-> "", id |-> "", key |-> "", endpoint |-> "",
            tuning |-> {}, slots |-> 0]

\* The public endpoints of the providers.
OpenAIBase    == "https://api.openai.com/v1"
AnthropicBase == "https://api.anthropic.com/v1"
GoogleBase    == "the SDK's endpoint"

PublicBase(provider) == CASE provider = "openai"    -> OpenAIBase
                          [] provider = "anthropic" -> AnthropicBase
                          [] OTHER                  -> GoogleBase

\* The address that the value of a host variable stands for.
HostURL(host) == IF host = "" THEN "" ELSE host \o "/v1"

\* Configured addresses, those of the environment and GoogleBase differ, so that
\* an address tells where it is from.
ASSUME ModelsAssumption ==
    /\ \A s \in Setups :
          /\ s.brain.models \in Seq([name : STRING, tuning : SUBSET Params,
                                     model : [prefix : STRING, id : STRING]])
          /\ \A m \in DOMAIN s.rc : s.rc[m] \in Connection
          /\ s.env \subseteq STRING \ {""} /\ s.sdk \in BOOLEAN
          /\ \A v \in s.env : HostURL(v) \notin {"", OpenAIBase, AnthropicBase, GoogleBase}
          /\ \A m \in DOMAIN s.rc :
                s.rc[m].base # GoogleBase /\ \A v \in s.env : s.rc[m].base # HostURL(v)
    /\ Edits \subseteq {s.brain : s \in Setups}

\* The first of two strings that is set.
Or(a, b) == IF a # "" THEN a ELSE b

Getenv(env, v) == IF v \in env THEN v ELSE ""

-----------------------------------------------------------------------------
(***************************************************************************)
(* The providers.                                                          *)
(***************************************************************************)
\* Faulty: the configured base comes before the host variable.
OpenAIBaseFirst(e, c, env) ==
    LET key      == Getenv(env, Or(c.auth, "OPENAI_API_KEY"))
        endpoint == Or(Or(c.base, HostURL(Getenv(env, c.host))), OpenAIBase)
    IN  IF key = "" /\ endpoint = OpenAIBase THEN NoModel
        ELSE [provider |-> "openai", id |-> e.model.id, key |-> key,
              endpoint |-> endpoint, tuning |-> e.tuning, slots |-> c.slots]

\* CreateModel of the OpenAI provider for entry e with connection c.
OpenAI(e, c, env) ==
    LET key      == Getenv(env, Or(c.auth, "OPENAI_API_KEY"))
        endpoint == Or(Or(HostURL(Getenv(env, c.host)), c.base), OpenAIBase)
    IN  IF key = "" /\ endpoint = OpenAIBase THEN NoModel
        ELSE [provider |-> "openai", id |-> e.model.id, key |-> key,
              endpoint |-> endpoint, tuning |-> e.tuning, slots |-> c.slots]

\* CreateModel of the Anthropic provider; it does not look at c.host.
Anthropic(e, c, env) ==
    LET key      == Getenv(env, Or(c.auth, "ANTHROPIC_API_KEY"))
        endpoint == Or(c.base, AnthropicBase)
    IN  IF key = "" /\ endpoint = AnthropicBase THEN NoModel
        ELSE [provider |-> "anthropic", id |-> e.model.id, key |-> key,
              endpoint |-> endpoint, tuning |-> e.tuning, slots |-> c.slots]

\* CreateModel of the Gemini provider; it looks at neither c.host nor c.base,
\* the variable of the connection is only the first of a chain, and the SDK may
\* fail to make a client.
Gemini(e, c, env, sdk) ==
    LET key == Or(Getenv(env, c.auth),
                  Or(Getenv(env, "GOOGLE_API_KEY"), Getenv(env, "GEMINI_API_KEY")))
    IN  IF key = "" \/ ~sdk THEN NoModel
        ELSE [provider |-> "gemini", id |-> e.model.id, key |-> key,
              endpoint |-> GoogleBase, tuning |-> e.tuning, slots |-> c.slots]

\* The registered providers; "google" is an alias of "gemini".
Registered == {"openai", "anthropic", "gemini", "google"}

\* Lookup of runtime.json; nil is the connection with nothing set.
Lookup(rc, model) == IF model \in DOMAIN rc THEN rc[model] ELSE NoConnection

\* createModel: the API type of the connection comes before the prefix.
CreateModel(e, s) ==
    LET c    == Lookup(s.rc, e.model)
        name == Or(c.apiType, e.model.prefix)
    IN  CASE name \notin Registered -> NoModel
          [] name = "openai"        -> OpenAI(e, c, s.env)
          [] name = "anthropic"     -> Anthropic(e, c, s.env)
          [] OTHER                  -> Gemini(e, c, s.env, s.sdk)

-----------------------------------------------------------------------------
(***************************************************************************)
(* The registry.                                                           *)
(***************************************************************************)
ModelsInit ==
    /\ setup \in Setups
    /\ brain = setup.brain
    /\ next = 1
    /\ registry = [n \in Names |-> NoModel]
    /\ warned = {}
    /\ stage = "creating"

Entry == setup.brain.models[next]

\* Faulty: any model that fails is skipped.
CreateNextLenient ==
    LET m == CreateModel(Entry, setup) IN
    /\ stage = "creating" /\ next <= Len(setup.brain.models)
    /\ next' = next + 1
    /\ registry' = [registry EXCEPT ![Entry.name] = m]
    /\ warned' = IF m = NoModel THEN warned \cup {Entry.name} ELSE warned
    /\ UNCHANGED <<setup, brain, stage>>

\* One iteration of NewModelRegistry's loop.
CreateNext ==
    LET m == CreateModel(Entry, setup) IN
    /\ stage = "creating" /\ next <= Len(setup.brain.models)
    /\ \/ /\ m # NoModel
          /\ registry' = [registry EXCEPT ![Entry.name] = m]
          /\ next' = next + 1
          /\ UNCHANGED <<warned, stage>>
       \/ /\ m = NoModel /\ Entry.name # setup.brain.default
          /\ warned' = warned \cup {Entry.name}
          /\ next' = next + 1
          /\ UNCHANGED <<registry, stage>>
       \/ /\ m = NoModel /\ Entry.name = setup.brain.default
          /\ stage' = "failed"
          /\ UNCHANGED <<registry, warned, next>>
    /\ UNCHANGED <<setup, brain>>

RegistryComplete ==
    /\ stage = "creating" /\ next > Len(setup.brain.models)
    /\ stage' = "connecting"
    /\ UNCHANGED <<setup, brain, next, registry, warned>>

\* Default of the registry: the name it was created with, whatever the runtime
\* holds by now.
Default ==
    IF setup.brain.default \in Names THEN registry[setup.brain.default] ELSE NoModel

\* Init asks for the default model only after the skills are connected.
UseDefault ==
    /\ stage = "connecting"
    /\ stage' = IF Default = NoModel THEN "failed" ELSE "serving"
    /\ UNCHANGED <<setup, brain, next, registry, warned>>

\* Reload: the new Agentfile replaces the old one, the registry stays.
ReloadBrain(b) ==
    /\ stage = "serving" /\ b # brain
    /\ brain' = b
    /\ UNCHANGED <<setup, next, registry, warned, stage>>

ModelsNext == \/ CreateNext \/ RegistryComplete \/ UseDefault
              \/ \E b \in Edits : ReloadBrain(b)

-----------------------------------------------------------------------------
ModelsTypeOK ==
    /\ setup \in Setups /\ brain \in {s.brain : s \in Setups}
    /\ next \in 1..(Len(setup.brain.models) + 1)
    /\ registry \in [Names -> {NoModel} \cup {CreateModel(e, setup) : e \in Entries}]
    /\ warned \subseteq Names
    /\ stage \in {"creating", "connecting", "serving", "failed"}

\* The entries whose provider is known, which are not a public endpoint without
\* its key, and for which the SDK, if it is its part, can make a client.  (Of an
\* OpenAI-compatible server or a proxy no key is asked.)
Usable(e) == CreateModel(e, setup) # NoModel

\* NewModelRegistry ("graceful degradation"): startup is refused exactly when
\* no entry has the default's name or one that has it cannot be created, and in
\* the second case before any skill is connected; every other entry that cannot
\* be created costs a warning and nothing else.  Names may repeat.
DegradesGracefully ==
    LET default == {e \in Entries : e.name = setup.brain.default} IN
    /\ stage \in {"connecting", "serving"} => \A e \in default : Usable(e)
    /\ stage = "serving" => default # {}
    /\ stage = "failed"  => default = {} \/ \E e \in default : ~Usable(e)
    /\ stage \in {"connecting", "serving"} =>
          \A n \in Names :
             LET named == {e \in Entries : e.name = n} IN
             /\ registry[n] # NoModel <=> \E e \in named : Usable(e)
             /\ n \in warned         <=> \E e \in named : ~Usable(e)
=============================================================================
