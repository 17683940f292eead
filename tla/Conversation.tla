---------------------------- MODULE Conversation ----------------------------
(***************************************************************************)
(* A conversation with the default model: what the provider makes of the   *)
(* history when it builds a request (convertContents and buildRequest of   *)
(* both providers), and what it makes of the reply (convertSyncResponse,   *)
(* and the responses of the streams, which OpenAIStream and                *)
(* AnthropicStream look into).                                             *)
(*                                                                         *)
(* The runner between the two is external: it appends every content that   *)
(* a provider yields to the history, runs the calls of a content, and      *)
(* appends their results before it asks again.  How it does that is a      *)
(* member of Runners:                                                      *)
(*   ids     it gives calls an ID, which their results carry               *)
(*   merged  the results of one content's calls are one content            *)
(*   role    the role of results                                           *)
(*   prompt  the system prompt is a content, or is in req.Config           *)
(*   own     parameters that it sets in req.Config itself                  *)
(*                                                                         *)
(* A part is known by its number n, given in the order in which things are *)
(* said; a result has the number of its call.                              *)
(***************************************************************************)
EXTENDS Models

CONSTANTS Runners,      \* the runners to consider
          Tools,        \* names of the tools
          MaxRequests,  \* bound: requests of a conversation
          MaxSaid       \* bound: replies add nothing to a conversation this long

Roles == {"system", "user", "model", "tool"}

ASSUME ConversationAssumption ==
    /\ Runners \subseteq [ids : BOOLEAN, merged : BOOLEAN, role : Roles \ {"system"},
                          prompt : {"content", "config"}, own : SUBSET Params]
    /\ Tools \subseteq STRING \ {""}
    /\ MaxRequests \in Nat /\ MaxSaid \in Nat

VARIABLES runner,     \* the runner of this process
          streaming,  \* the argument of GenerateContent
          history,    \* the contents so far
          said,       \* who said what: [by, kind]
          sent,       \* the request under way
          requests,   \* number of requests
          turn,       \* "user" or "model" to speak; "waiting" for the reply, "reading"
                      \* one, or "calling": reading one that had a call
          held,       \* parts of the reply that the provider has not yielded
          due         \* calls whose results the history does not have

talk == <<runner, streaming, history, said, sent, requests, turn, held, due>>
vars == <<modelVars, talk>>

-----------------------------------------------------------------------------
(***************************************************************************)
(* Contents.                                                               *)
(***************************************************************************)
Part    == [kind : {"text", "call", "result"}, tool : Tools \cup {""}, id : Nat, n : Nat]
Content == [role : Roles, parts : Seq(Part)]

\* The parts of a kind, at their places.
At(parts, kind) == {i \in DOMAIN parts : parts[i].kind = kind}
Of(parts, kind) == [i \in At(parts, kind) |-> parts[i]]

Text(n)    == [kind |-> "text", tool |-> "", id |-> 0, n |-> n]
Prompt     == [role |-> "system", parts |-> <<Text(0)>>]
Said(role, n) == [role |-> role, parts |-> <<Text(n)>>]

\* What the model says, as a part.  Of a call NewPartFromFunctionCall leaves out
\* the ID that the API gave it.
NewPart(item, n) == [kind |-> item.kind, tool |-> item.tool, id |-> 0, n |-> n]

\* The ID a runner gives a call; its result has the same.
Identified(p) == IF runner.ids /\ p.kind = "call" THEN [p EXCEPT !.id = p.n] ELSE p
Result(p)     == [Identified(p) EXCEPT !.kind = "result"]

-----------------------------------------------------------------------------
(***************************************************************************)
(* Requests.  A message is a role and its blocks, a block a part with the  *)
(* key by which the API relates a result to its call.                      *)
(***************************************************************************)
NoKey      == [id |-> 0, name |-> ""]
IdKey(p)   == [id |-> p.id, name |-> ""]
NameKey(p) == [id |-> 0, name |-> p.tool]
IdOrName(p) == IF p.id # 0 THEN IdKey(p) ELSE NameKey(p)

Block(p, key) == [type |-> p.kind, n |-> p.n, key |-> key]
Blocks(parts, Key(_)) == [i \in DOMAIN parts |-> Block(parts[i], Key(parts[i]))]
Plain(p) == NoKey

MapRole(role) == IF role = "model" THEN "assistant" ELSE role

\* Faulty: calls are matched by name even if they have an ID.
OpenAIMessageByName(c) ==
    [role |-> MapRole(c.role),
     blocks |->
        IF c.role = "tool" /\ c.parts # <<>> /\ c.parts[1].kind = "result"
          THEN Blocks(<<c.parts[1]>>, IdOrName)
        ELSE IF c.role = "model" /\ At(c.parts, "call") # {}
          THEN Blocks(Of(c.parts, "call"), NameKey)
        ELSE Blocks(Of(c.parts, "text"), Plain)]

\* convertContents of OpenAI, one content.  Of a tool's content only the first
\* part counts; beside calls there is no text.
OpenAIMessage(c) ==
    [role |-> MapRole(c.role),
     blocks |->
        IF c.role = "tool" /\ c.parts # <<>> /\ c.parts[1].kind = "result"
          THEN Blocks(<<c.parts[1]>>, IdOrName)
        ELSE IF c.role = "model" /\ At(c.parts, "call") # {}
          THEN Blocks(Of(c.parts, "call"), IdOrName)
        ELSE Blocks(Of(c.parts, "text"), Plain)]

OpenAIMessages(h) == [i \in DOMAIN h |-> OpenAIMessage(h[i])]

\* The keys of Anthropic: a call has its ID only, a result falls back on the
\* name of its tool.
AnthropicKey(p) == CASE p.kind = "text" -> NoKey
                     [] p.kind = "call" -> IdKey(p)
                     [] OTHER           -> IdOrName(p)

\* convertContents of Anthropic, one content that is not the system's.
AnthropicMessage(c) ==
    [role |-> IF c.parts[1].kind = "result" THEN "user" ELSE MapRole(c.role),
     blocks |-> Blocks(c.parts, AnthropicKey)]

\* The messages of Anthropic: system contents and empty ones are left out.
AnthropicMessages(h) ==
    LET kept == {i \in DOMAIN h : h[i].role # "system" /\ h[i].parts # <<>>}
    IN  [i \in kept |-> AnthropicMessage(h[i])]

\* The SDK takes the contents as they are.
GeminiMessages(h) == [i \in DOMAIN h |-> [role |-> h[i].role,
                                          blocks |-> Blocks(h[i].parts, IdOrName)]]

Messages(provider, h) == CASE provider = "openai"    -> OpenAIMessages(h)
                           [] provider = "anthropic" -> AnthropicMessages(h)
                           [] OTHER                  -> GeminiMessages(h)

\* The system prompt in a request.  OpenAI has it as a message, Anthropic in a
\* field of its own; neither reads req.Config.SystemInstruction.
HasPrompt(provider, h) ==
    \/ \E i \in DOMAIN h : h[i].role = "system"
    \/ provider = "gemini" /\ runner.prompt = "config"

\* Where the value of parameter p in a request comes from.  Two providers look
\* at the Agentfile only, and Anthropic's API has to be given a max_tokens.
OpenAITuning(m, p) == IF p \in m.tuning THEN "agentfile" ELSE "unset"

AnthropicTuning(m, p) == IF p \in m.tuning THEN "agentfile"
                         ELSE IF p = "max_tokens" THEN "default" ELSE "unset"

\* configuredModel of Gemini fills in what the request leaves open.
GeminiTuning(m, p) == IF p \in runner.own THEN "request"
                      ELSE IF p \in m.tuning THEN "agentfile" ELSE "unset"

Tuning(m, p) == CASE m.provider = "openai"    -> OpenAITuning(m, p)
                  [] m.provider = "anthropic" -> AnthropicTuning(m, p)
                  [] OTHER                    -> GeminiTuning(m, p)

\* buildRequest, with the address and the header of the HTTP request.
Request(m, h) ==
    [provider |-> m.provider, id |-> m.id, key |-> m.key, endpoint |-> m.endpoint,
     stream |-> streaming, prompt |-> HasPrompt(m.provider, h),
     tuning |-> [p \in Params |-> Tuning(m, p)],
     messages |-> Messages(m.provider, h)]

NoRequest == [provider |-> ""]

-----------------------------------------------------------------------------
(***************************************************************************)
(* Replies.  A reply is a sequence of texts and calls that arrive one by   *)
(* one; in OpenAI's a text, if there is one, comes before the calls.       *)
(***************************************************************************)
Item == [kind : {"text"}, tool : {""}] \cup [kind : {"call"}, tool : Tools]

\* Faulty: the calls of Anthropic's stream are kept for its end, as OpenAI's are.
KeptBackLikeOpenAI(item) == ~streaming \/ sent.provider = "gemini" \/ item.kind = "call"

\* Whether a provider keeps an item for the end of the reply: without streaming
\* all of them, in OpenAI's stream the calls.  (Of the SDK's stream only the
\* response that ends it counts.)
KeptBack(item) == \/ ~streaming
                  \/ sent.provider = "gemini"
                  \/ sent.provider = "openai" /\ item.kind = "call"

\* A content of the model, as the runner puts it into the history.
ModelContent(parts) ==
    [role |-> "model", parts |-> [i \in DOMAIN parts |-> Identified(parts[i])]]

\* The content that ends a reply: convertSyncResponse of either provider, and
\* the final response of OpenAI's stream.  In OpenAI's with calls is no text.
LastContent == ModelContent(IF sent.provider = "openai" /\ due # <<>> THEN due ELSE held)

\* The results of calls as a content, as the runner makes it.
ResultContent(calls) ==
    [role |-> runner.role, parts |-> [i \in DOMAIN calls |-> Result(calls[i])]]

\* The runner runs the calls of a content before it takes the next response.
Answering == held = <<>> /\ due # <<>>
Replying  == turn \in {"waiting", "reading", "calling"} /\ ~Answering

-----------------------------------------------------------------------------
Init ==
    /\ ModelsInit
    /\ runner \in Runners /\ streaming \in BOOLEAN
    /\ history = IF runner.prompt = "content" THEN <<Prompt>> ELSE <<>>
    /\ said = <<>>
    /\ sent = NoRequest /\ requests = 0
    /\ turn = "user" /\ held = <<>> /\ due = <<>>

UserSays ==
    /\ stage = "serving" /\ turn = "user" /\ due = <<>> /\ requests < MaxRequests
    /\ history' = Append(history, Said("user", Len(said) + 1))
    /\ said' = Append(said, [by |-> "user", kind |-> "text"])
    /\ turn' = "model"
    /\ UNCHANGED <<modelVars, runner, streaming, sent, requests, held, due>>

\* The runner asks the model it was given; the provider builds the request.
GenerateContent ==
    /\ turn = "model" /\ due = <<>> /\ requests < MaxRequests
    /\ sent' = Request(Default, history)
    /\ requests' = requests + 1
    /\ turn' = "waiting"
    /\ UNCHANGED <<modelVars, runner, streaming, history, said, held, due>>

\* The next item of the reply reaches the provider, which yields it at once or
\* keeps it.
Arrives(item) ==
    LET p == NewPart(item, Len(said) + 1) IN
    /\ Replying /\ Len(said) < MaxSaid
    /\ (sent.provider = "openai" /\ item.kind = "text") => turn = "waiting"
    /\ said' = Append(said, [by |-> "model", kind |-> item.kind])
    /\ turn' = IF item.kind = "call" \/ turn = "calling" THEN "calling" ELSE "reading"
    /\ due' = IF item.kind = "call" THEN Append(due, p) ELSE due
    /\ IF KeptBack(item)
         THEN held' = Append(held, p) /\ UNCHANGED history
         ELSE history' = Append(history, ModelContent(<<p>>)) /\ UNCHANGED held
    /\ UNCHANGED <<modelVars, runner, streaming, sent, requests>>

\* The reply ends, with a last content unless everything was yielded.  After
\* calls it is up to the runner whether it asks again at once.
Finish ==
    /\ Replying
    /\ history' = IF streaming /\ held = <<>> THEN history ELSE Append(history, LastContent)
    /\ turn' \in IF turn = "calling" THEN {"user", "model"} ELSE {"user"}
    /\ sent' = NoRequest /\ held' = <<>>
    /\ UNCHANGED <<modelVars, runner, streaming, said, requests, due>>

\* The request fails, or its stream breaks off: what the provider has kept is
\* not heard.
BreaksOff ==
    /\ Replying
    /\ said' = SubSeq(said, 1, Len(said) - Len(held))
    /\ turn' = "user" /\ sent' = NoRequest /\ held' = <<>> /\ due' = <<>>
    /\ UNCHANGED <<modelVars, runner, streaming, history, requests>>

\* The runner has run the calls of a content: their results go into the history
\* together, or one by one.
Answer ==
    /\ Answering
    /\ LET calls == IF runner.merged THEN due ELSE <<Head(due)>> IN
         /\ history' = Append(history, ResultContent(calls))
         /\ due' = IF runner.merged THEN <<>> ELSE Tail(due)
    /\ UNCHANGED <<modelVars, runner, streaming, said, sent, requests, turn, held>>

Next == \/ ModelsNext /\ UNCHANGED talk
        \/ UserSays \/ GenerateContent \/ Finish \/ BreaksOff \/ Answer
        \/ \E item \in Item : Arrives(item)

Spec == Init /\ [][Next]_vars

-----------------------------------------------------------------------------
(***************************************************************************)
(* Properties.                                                             *)
(***************************************************************************)
Waiting == turn = "waiting"

TypeOK ==
    /\ ModelsTypeOK
    /\ runner \in Runners /\ streaming \in BOOLEAN
    /\ history \in Seq(Content)
    /\ said \in Seq([by : {"user", "model"}, kind : {"text", "call"}])
    /\ requests \in 0..MaxRequests
    /\ turn \in {"user", "model", "waiting", "reading", "calling"}
    /\ held \in Seq(Part) /\ due \in Seq(Part)
    /\ Waiting => sent.provider \in {"openai", "anthropic", "gemini"}

\* Where the requests to entry e with connection c may go: a host that the
\* environment names, else the configured base, else the provider's own endpoint.
HostsOf(c) == {HostURL(v) : v \in {c.host} \cap setup.env}
BasesOf(c) == {c.base} \ {""}

\* createModel and CreateModel of the providers, against runtimecfg: every
\* request goes to the default of the Agentfile (while a reload has not brought
\* another one), with the key the configuration names if it is set, and never
\* without a key to the provider's own endpoint; to no address that is not
\* configured, of OpenAI's in the order of the documentation; with each parameter
\* of the Agentfile and as many slots as configured; and with the system prompt
\* if it is a content, or with Gemini.
RequestsAsConfigured ==
    Waiting =>
      \E e \in Entries :
        LET c == Lookup(setup.rc, e.model) IN
        /\ brain.default = setup.brain.default => e.name = brain.default
        /\ sent.id = e.model.id
        /\ c.apiType \notin {"", "google"} => sent.provider = c.apiType
        /\ c.auth \in setup.env => sent.key = c.auth
        /\ sent.endpoint = PublicBase(sent.provider) => sent.key # ""
        /\ sent.endpoint \in HostsOf(c) \cup BasesOf(c) \cup {PublicBase(sent.provider)}
        /\ (sent.provider = "openai" /\ HostsOf(c) # {}) => sent.endpoint \in HostsOf(c)
        /\ (sent.provider # "gemini" /\ HostsOf(c) = {} /\ BasesOf(c) # {}) =>
              sent.endpoint \in BasesOf(c)
        /\ \A p \in Params : (sent.tuning[p] = "agentfile")
              <=> (p \in e.tuning /\ (sent.provider = "gemini" => p \notin runner.own))
        /\ Default.slots = c.slots
        /\ (sent.provider = "gemini" \/ runner.prompt = "content") => sent.prompt

HasType(m, type) == \E b \in DOMAIN m.blocks : m.blocks[b].type = type

\* Whether message j is among the results that directly follow message i.
Follows(ms, i, j) ==
    /\ i < j
    /\ \A k \in DOMAIN ms : (i < k /\ k <= j) =>
          HasType(ms[k], "result") /\ ~HasType(ms[k], "call")

\* Block b of message j is the only one among the results following message i
\* that has this key.
OnlyResult(ms, i, j, b, key) ==
    /\ Follows(ms, i, j)
    /\ \A k \in DOMAIN ms : Follows(ms, i, k) =>
          \A c \in DOMAIN ms[k].blocks :
             ms[k].blocks[c].key = key <=> (k = j /\ c = b)

\* Every call has a key, and exactly one of the results that follow has it:
\* that of this call.
Paired(ms) ==
    \A i \in DOMAIN ms : \A a \in DOMAIN ms[i].blocks :
        LET call == ms[i].blocks[a] IN
        call.type = "call" =>
            /\ call.key # NoKey
            /\ \E j \in DOMAIN ms : \E b \in DOMAIN ms[j].blocks :
                  ms[j].blocks[b].n = call.n /\ OnlyResult(ms, i, j, b, call.key)

\* Whether calls and results of the content can be related: OpenAI keys them by
\* ID or name and takes one result from a tool's content, Anthropic keys calls
\* by ID only.
Relatable(c) ==
    LET calls == At(c.parts, "call") IN
    calls # {} =>
        IF sent.provider = "openai"
        THEN /\ runner.role = "tool"
             /\ runner.merged => \A i, j \in calls : i = j
             /\ runner.ids \/ \A i, j \in calls : c.parts[i].tool = c.parts[j].tool => i = j
        ELSE runner.ids

\* convertContents: the API can relate the results in a request to their calls
\* exactly with a runner that gives calls IDs (OpenAI: or never calls a tool
\* twice at once) and, for OpenAI, gives each result a content of the role
\* "tool"; that holds over the whole history, broken streams included.
PairingExact ==
    (Waiting /\ sent.provider # "gemini") =>
        (Paired(sent.messages) <=> \A i \in DOMAIN history : Relatable(history[i]))

\* The blocks of a message that user or model speak in.
Spoken(m) == {a \in DOMAIN m.blocks : m.role # "system" /\ m.blocks[a].type # "result"}

Before(i, a, j, b) == i < j \/ (i = j /\ a < b)

\* Texts that convertSyncResponse of OpenAI leaves out, because calls follow.
LeftOut(n) == /\ sent.provider = "openai" /\ ~streaming
              /\ said[n] = [by |-> "model", kind |-> "text"]
              /\ n < Len(said) /\ said[n + 1].kind = "call"

\* convertContents and the conversions of replies: a request holds everything
\* that user and model said so far, in that order and from the right side, but
\* for text beside calls in OpenAI's responses without streaming.
NothingLost ==
    /\ TypeOK
    /\ Waiting =>
        LET ms      == sent.messages
            N(i, a) == ms[i].blocks[a].n
        IN  /\ \A n \in DOMAIN said :
                  LeftOut(n) \/ \E i \in DOMAIN ms : \E a \in Spoken(ms[i]) : N(i, a) = n
            /\ \A i \in DOMAIN ms : \A a \in Spoken(ms[i]) :
                  /\ N(i, a) \in DOMAIN said /\ ~LeftOut(N(i, a))
                  /\ ms[i].role \in IF said[N(i, a)].by = "user" THEN {"user"}
                                     ELSE {"model", "assistant"}
            /\ \A i, j \in DOMAIN ms : \A a \in Spoken(ms[i]), b \in Spoken(ms[j]) :
                  Before(i, a, j, b) => N(i, a) < N(j, b)
=============================================================================
