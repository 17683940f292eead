--------------------------- MODULE MCConversation ---------------------------
(* Two models: "smart", whose provider, connection and environment vary so *)
(* that it comes up or not, by every rule of the three providers, and      *)
(* "fast", which needs ANTHROPIC_API_KEY.  Either is the default, and      *)
(* "smart" may be there twice.                                             *)
EXTENDS Conversation

Smart(prefix) == [name |-> "smart", model |-> [prefix |-> prefix, id |-> "m1"],
                  tuning |-> {"temperature", "max_tokens"}]
Fast == [name |-> "fast", model |-> [prefix |-> "anthropic", id |-> "m2"], tuning |-> {}]

ABrain(prefix, default) == [models |-> <<Fast, Smart(prefix)>>, default |-> default]

\* An Agentfile with two entries of the same name.
Twice(default) == [models |-> <<Fast, Smart("openai"), Smart("anthropic")>>,
                   default |-> default]

Conn(apiType, base, auth, host) ==
    [apiType |-> apiType, base |-> base, auth |-> auth, host |-> host, slots |-> 1]

Unconnected == [m \in {} |-> NoConnection]
Connected(prefix, c) == [m \in {Smart(prefix).model} |-> c]

\* The prefix of "smart" and the connections of runtime.json.
Wirings ==
    {[prefix |-> p, rc |-> Unconnected] : p \in {"openai", "anthropic", "google", "ollama", ""}}
    \cup {[prefix |-> "ollama", rc |-> Connected("ollama", c)] :
             c \in {Conn("openai", "http://local/v1", "", "HOST"), Conn("openai", "", "", "HOST"),
                    Conn("openai", OpenAIBase, "MY_KEY", ""),
                    Conn("anthropic", "https://proxy", "", "HOST"),
                    Conn("anthropic", "", "MY_KEY", "HOST"),
                    Conn("gemini", "https://proxy", "MY_KEY", "HOST")}}
    \cup {[prefix |-> "openai", rc |-> Connected("openai", Conn("", "https://proxy", "MY_KEY", ""))]}

Environments == {{}, {"OPENAI_API_KEY", "HOST"}, {"ANTHROPIC_API_KEY", "GEMINI_API_KEY"},
                 {"MY_KEY", "HOST", "GOOGLE_API_KEY"}}

Setup(abrain, rc, env, sdk) == [brain |-> abrain, rc |-> rc, env |-> env, sdk |-> sdk]
MCSetups ==
    {Setup(ABrain(w.prefix, "smart"), w.rc, env, TRUE) : w \in Wirings, env \in Environments}
    \cup {Setup(ABrain("google", d), Unconnected, env, FALSE) :
             d \in {"fast", "smart"}, env \in Environments}
    \cup {Setup(ABrain("openai", d), Unconnected, env, TRUE) :
             d \in {"fast", "none"}, env \in Environments}
    \cup {Setup(Twice(d), Unconnected, env, TRUE) :
             d \in {"fast", "smart"}, env \in Environments}

MCEdits == {ABrain("openai", "fast")}

\* Runners that differ in what the providers are sensitive to.
ARunner(ids, merged, role, prompt, own) ==
    [ids |-> ids, merged |-> merged, role |-> role, prompt |-> prompt, own |-> own]
MCRunners ==
    {ARunner(ids, merged, "tool", "content", {}) : ids, merged \in BOOLEAN}
    \cup {ARunner(ids, TRUE, "user", "config", {"temperature"}) : ids \in BOOLEAN}
=============================================================================
