------------------------- MODULE ConversationProofs -------------------------
(***************************************************************************)
(* Proofs about a Conversation: about its models for every Agentfile,      *)
(* runtime.json and environment, and about its requests and replies for    *)
(* every runner, history and length.                                       *)
(*                                                                         *)
(* ModelsInv says what is known of the entries that the loop of            *)
(* NewModelRegistry has passed, those before next.  IInv, which extends it *)
(* to the conversation, says of the history what its contents are, what is *)
(* still missing of its results, and that it is what was said.             *)
(***************************************************************************)
EXTENDS Conversation, TLAPS

\* The entries that the loop has passed, and those with the default's name.
Passed   == {setup.brain.models[i] : i \in 1..(next - 1)}
Defaults == {e \in Entries : e.name = setup.brain.default}

\* The part of ModelsTypeOK that the argument needs.
Shape ==
    /\ setup \in Setups
    /\ next \in 1..(Len(setup.brain.models) + 1)
    /\ registry = [n \in Names |-> registry[n]]
    /\ stage \in {"creating", "connecting", "serving", "failed"}

\* The registry holds the models of the entries passed, and no other.
RegistryExact ==
    \A n \in Names : registry[n] # NoModel <=> \E e \in Passed : e.name = n /\ Usable(e)

\* There is a warning for each entry passed that is not usable, and no other.
WarnedExact ==
    \A n \in Names : n \in warned <=> \E e \in Passed : e.name = n /\ ~Usable(e)

\* What each stage says of the default.
DefaultKnown ==
    /\ stage # "failed" => \A e \in Passed \cap Defaults : Usable(e)
    /\ stage \in {"connecting", "serving"} => next = Len(setup.brain.models) + 1
    /\ stage = "serving" => Defaults # {}
    /\ stage = "failed"  => Defaults = {} \/ \E e \in Defaults : ~Usable(e)

ModelsInv == Shape /\ RegistryExact /\ WarnedExact /\ DefaultKnown

-----------------------------------------------------------------------------
\* brain.models is a sequence, whatever the Agentfile.
LEMMA ModelsSequence ==
    ASSUME setup \in Setups
    PROVE  /\ Len(setup.brain.models) \in Nat
           /\ DOMAIN setup.brain.models = 1..Len(setup.brain.models)
<1>. DEFINE T == [name : STRING, tuning : SUBSET Params,
                  model : [prefix : STRING, id : STRING]]
<1>1. setup.brain.models \in Seq(T)
  BY ModelsAssumption
<1>. HIDE DEF T
<1>. QED  BY <1>1

\* Once the loop is over it has passed every entry.
LEMMA AllPassed ==
    ASSUME Shape, next = Len(setup.brain.models) + 1
    PROVE  Passed = Entries
<1>1. Len(setup.brain.models) \in Nat /\ DOMAIN setup.brain.models = 1..Len(setup.brain.models)
  BY ModelsSequence DEF Shape
<1>2. 1..(next - 1) = DOMAIN setup.brain.models
  BY <1>1
<1>. QED  BY <1>2 DEF Passed, Entries

\* An iteration of the loop passes one more entry, Entry.
LEMMA OneMorePassed ==
    ASSUME Shape, next <= Len(setup.brain.models), UNCHANGED setup, next' = next + 1
    PROVE  /\ Entry \in Entries
           /\ Passed' = Passed \cup {Entry}
           /\ next' \in 1..(Len(setup.brain.models) + 1)
<1>1. /\ Len(setup.brain.models) \in Nat
      /\ DOMAIN setup.brain.models = 1..Len(setup.brain.models)
  BY ModelsSequence DEF Shape
<1>2. next \in 1..Len(setup.brain.models) /\ next \in Nat
  BY <1>1 DEF Shape
<1>3. Entry \in Entries
  BY <1>1, <1>2 DEF Entry, Entries
<1>4. 1..(next' - 1) = 1..(next - 1) \cup {next}
  BY <1>2
<1>5. Passed' = {setup.brain.models[i] : i \in 1..(next - 1) \cup {next}}
  BY <1>4 DEF Passed
<1>6. Passed' = Passed \cup {Entry}
  BY <1>5 DEF Passed, Entry
<1>. QED  BY <1>1, <1>2, <1>3, <1>6

\* NewModelRegistry starts with an empty registry and no warnings.
LEMMA InitModelsInv == ModelsInit => ModelsInv
<1>. SUFFICES ASSUME ModelsInit PROVE ModelsInv
  OBVIOUS
<1>1. Passed = {}
  BY DEF ModelsInit, Passed
<1>2. Len(setup.brain.models) \in Nat
  BY ModelsSequence DEF ModelsInit
<1>3. Shape
  BY <1>2 DEF ModelsInit, Shape
<1>4. RegistryExact
  BY <1>1 DEF ModelsInit, RegistryExact
<1>5. WarnedExact
  BY <1>1 DEF ModelsInit, WarnedExact
<1>6. DefaultKnown
  BY <1>1 DEF ModelsInit, DefaultKnown
<1>. QED  BY <1>3, <1>4, <1>5, <1>6 DEF ModelsInv

-----------------------------------------------------------------------------
\* The entry is created: its name has a model, whatever it had before.
LEMMA CreatedKeepsInv ==
    ASSUME ModelsInv, CreateNext, CreateModel(Entry, setup) # NoModel
    PROVE  ModelsInv'
<1>. DEFINE m == CreateModel(Entry, setup)
<1>1. /\ stage = "creating" /\ next <= Len(setup.brain.models)
      /\ registry' = [registry EXCEPT ![Entry.name] = m]
      /\ next' = next + 1
      /\ UNCHANGED <<setup, brain, warned, stage>>
  BY DEF CreateNext
<1>2. /\ Entry \in Entries
      /\ Passed' = Passed \cup {Entry}
      /\ next' \in 1..(Len(setup.brain.models) + 1)
  BY <1>1, OneMorePassed DEF ModelsInv
<1>3. Names' = Names /\ Defaults' = Defaults /\ Entry.name \in Names
  BY <1>1, <1>2 DEF Names, Entries, Defaults
<1>4. Usable(Entry) /\ \A e : Usable(e)' = Usable(e)
  BY <1>1 DEF Usable
<1>5. \A n \in Names : registry'[n] = IF n = Entry.name THEN m ELSE registry[n]
  BY <1>1 DEF ModelsInv, Shape
<1>6. Shape'
  <2>1. registry' = [n \in Names |-> registry'[n]]
    BY <1>1, <1>3 DEF ModelsInv, Shape
  <2>. QED  BY <1>1, <1>2, <1>3, <2>1 DEF ModelsInv, Shape
<1>7. RegistryExact'
  <2>. SUFFICES ASSUME NEW n \in Names
                PROVE  registry'[n] # NoModel
                          <=> \E e \in Passed \cup {Entry} : e.name = n /\ Usable(e)
    BY <1>2, <1>3, <1>4 DEF RegistryExact
  <2>. QED  BY <1>4, <1>5 DEF ModelsInv, RegistryExact
<1>8. WarnedExact'
  BY <1>1, <1>2, <1>3, <1>4 DEF ModelsInv, WarnedExact
<1>9. DefaultKnown'
  BY <1>1, <1>2, <1>3, <1>4 DEF ModelsInv, DefaultKnown
<1>. QED  BY <1>6, <1>7, <1>8, <1>9 DEF ModelsInv

\* An entry that is not the default's is skipped with a warning.
LEMMA SkippedKeepsInv ==
    ASSUME ModelsInv, CreateNext, CreateModel(Entry, setup) = NoModel,
           Entry.name # setup.brain.default
    PROVE  ModelsInv'
<1>1. /\ stage = "creating" /\ next <= Len(setup.brain.models)
      /\ warned' = warned \cup {Entry.name}
      /\ next' = next + 1
      /\ UNCHANGED <<setup, brain, registry, stage>>
  BY DEF CreateNext
<1>2. /\ Entry \in Entries
      /\ Passed' = Passed \cup {Entry}
      /\ next' \in 1..(Len(setup.brain.models) + 1)
  BY <1>1, OneMorePassed DEF ModelsInv
<1>3. Names' = Names /\ Defaults' = Defaults
  BY <1>1 DEF Names, Entries, Defaults
<1>4. ~Usable(Entry) /\ \A e : Usable(e)' = Usable(e)
  BY <1>1 DEF Usable
<1>5. Shape'
  BY <1>1, <1>2, <1>3 DEF ModelsInv, Shape
<1>6. RegistryExact'
  BY <1>1, <1>2, <1>3, <1>4 DEF ModelsInv, RegistryExact
<1>7. WarnedExact'
  BY <1>1, <1>2, <1>3, <1>4 DEF ModelsInv, WarnedExact
<1>8. Entry \notin Defaults
  BY DEF Defaults
<1>9. DefaultKnown'
  BY <1>1, <1>2, <1>3, <1>4, <1>8 DEF ModelsInv, DefaultKnown
<1>. QED  BY <1>5, <1>6, <1>7, <1>9 DEF ModelsInv

\* The default's entry cannot be created: the loop ends, startup fails.
LEMMA RefusedKeepsInv ==
    ASSUME ModelsInv, CreateNext, CreateModel(Entry, setup) = NoModel,
           Entry.name = setup.brain.default
    PROVE  ModelsInv'
<1>1. /\ stage = "creating" /\ next <= Len(setup.brain.models)
      /\ stage' = "failed"
      /\ UNCHANGED <<setup, brain, registry, warned, next>>
  BY DEF CreateNext
<1>2. /\ Passed' = Passed /\ Names' = Names /\ Defaults' = Defaults
      /\ \A e : Usable(e)' = Usable(e)
  BY <1>1 DEF Passed, Names, Entries, Defaults, Usable
<1>3. Entry \in Defaults /\ ~Usable(Entry)
  <2>1. /\ Len(setup.brain.models) \in Nat
        /\ DOMAIN setup.brain.models = 1..Len(setup.brain.models)
    BY ModelsSequence DEF ModelsInv, Shape
  <2>2. Entry \in Entries
    BY <1>1, <2>1 DEF ModelsInv, Shape, Entry, Entries
  <2>. QED  BY <2>2 DEF Defaults, Usable
<1>4. Shape'
  BY <1>1, <1>2 DEF ModelsInv, Shape
<1>5. RegistryExact' /\ WarnedExact'
  BY <1>1, <1>2 DEF ModelsInv, RegistryExact, WarnedExact
<1>6. DefaultKnown'
  BY <1>1, <1>2, <1>3 DEF DefaultKnown
<1>. QED  BY <1>4, <1>5, <1>6 DEF ModelsInv

\* The other steps leave setup, registry and warnings alone.
LEMMA ElseKeepsInv ==
    ASSUME ModelsInv, UNCHANGED <<setup, next, registry, warned>>,
           \/ UNCHANGED stage
           \/ RegistryComplete
           \/ UseDefault
    PROVE  ModelsInv'
<1>1. /\ Passed' = Passed /\ Names' = Names /\ Defaults' = Defaults /\ Entries' = Entries
      /\ \A e : Usable(e)' = Usable(e)
  BY DEF Passed, Names, Entries, Defaults, Usable
<1>2. Shape'
  BY <1>1 DEF ModelsInv, Shape, RegistryComplete, UseDefault
<1>3. RegistryExact' /\ WarnedExact'
  BY <1>1 DEF ModelsInv, RegistryExact, WarnedExact
<1>4. DefaultKnown'
  <2>1. CASE UNCHANGED stage
    BY <1>1, <2>1 DEF ModelsInv, DefaultKnown
  <2>2. CASE RegistryComplete
    <3>1. next = Len(setup.brain.models) + 1
      BY <2>2, ModelsSequence DEF RegistryComplete, ModelsInv, Shape
    <3>. QED  BY <1>1, <2>2, <3>1 DEF ModelsInv, DefaultKnown, RegistryComplete
  <2>3. CASE UseDefault
    <3>1. Passed = Entries
      BY <2>3, AllPassed DEF UseDefault, ModelsInv, DefaultKnown
    <3>2. \A e \in Defaults : Usable(e)
      BY <2>3, <3>1 DEF UseDefault, ModelsInv, DefaultKnown, Defaults
    <3>3. Default # NoModel <=> Defaults # {}
      BY <3>1, <3>2 DEF Default, Defaults, Names, ModelsInv, RegistryExact
    <3>. QED  BY <1>1, <2>3, <3>3 DEF ModelsInv, DefaultKnown, UseDefault
  <2>. QED  BY <2>1, <2>2, <2>3
<1>. QED  BY <1>2, <1>3, <1>4 DEF ModelsInv

-----------------------------------------------------------------------------
\* ModelsInv is an inductive invariant of the conversation, whose own steps do
\* not touch the models.
THEOREM ModelsInvariance == Spec => []ModelsInv
<1>1. Init => ModelsInv
  BY InitModelsInv DEF Init
<1>2. ModelsInv /\ [Next]_vars => ModelsInv'
  <2>. SUFFICES ASSUME ModelsInv, [Next]_vars PROVE ModelsInv'
    OBVIOUS
  <2>1. CASE CreateNext
    BY <2>1, CreatedKeepsInv, SkippedKeepsInv, RefusedKeepsInv
  <2>2. CASE RegistryComplete
    BY <2>2, ElseKeepsInv DEF RegistryComplete
  <2>3. CASE UseDefault
    BY <2>3, ElseKeepsInv DEF UseDefault
  <2>4. ASSUME NEW b \in Edits, ReloadBrain(b) PROVE ModelsInv'
    BY <2>4, ElseKeepsInv DEF ReloadBrain
  <2>5. CASE UNCHANGED modelVars
    BY <2>5, ElseKeepsInv DEF modelVars
  <2>. QED
    BY <2>1, <2>2, <2>3, <2>4, <2>5
    DEF Next, ModelsNext, UserSays, GenerateContent, Arrives, Finish, BreaksOff, Answer, vars
<1>. QED  BY <1>1, <1>2, PTL DEF Spec

\* NewModelRegistry degrades gracefully, for every Agentfile, runtime.json and
\* environment: only the default can refuse startup, and does so when it cannot
\* be created or is missing; the others come up or cost a warning.
THEOREM DegradesGracefullyHolds == Spec => []DegradesGracefully
<1>1. ModelsInv => DegradesGracefully
  <2>. SUFFICES ASSUME ModelsInv PROVE DegradesGracefully
    OBVIOUS
  <2>1. stage \in {"connecting", "serving"} => Passed = Entries
    BY AllPassed DEF ModelsInv, DefaultKnown
  <2>2. stage \in {"connecting", "serving"} => \A e \in Defaults : Usable(e)
    BY <2>1 DEF ModelsInv, DefaultKnown, Defaults
  <2>3. /\ stage = "serving" => Defaults # {}
        /\ stage = "failed"  => Defaults = {} \/ \E e \in Defaults : ~Usable(e)
    BY DEF ModelsInv, DefaultKnown
  <2>4. ASSUME stage \in {"connecting", "serving"}, NEW n \in Names
        PROVE  /\ registry[n] # NoModel
                     <=> \E e \in {x \in Entries : x.name = n} : Usable(e)
               /\ n \in warned <=> \E e \in {x \in Entries : x.name = n} : ~Usable(e)
    BY <2>1, <2>4 DEF ModelsInv, RegistryExact, WarnedExact
  <2>. QED  BY <2>2, <2>3, <2>4 DEF DegradesGracefully, Defaults
<1>. QED  BY <1>1, ModelsInvariance, PTL
-----------------------------------------------------------------------------
(***************************************************************************)
(* The history.  These say of a sequence h of contents                     *)
(*   ShapedBy     what kinds of contents there are                         *)
(*   NumberedBy   which IDs and names calls and results have               *)
(*   Answered     which results follow which calls; open has the numbers   *)
(*                of the calls in h whose results are still due            *)
(*   Heard        that its texts and calls are the first m things of s,    *)
(*                in order, but for the texts that are left out            *)
(***************************************************************************)
Results(c) == c.parts # <<>> /\ \A a \in DOMAIN c.parts : c.parts[a].kind = "result"
Calls(c)   == At(c.parts, "call")

\* Contents of the system, of the user and of the model have no results, only
\* the model's have calls, those from OpenAI's API either calls or texts.
Speech(c, openai) ==
    /\ c.role \in {"system", "user", "model"}
    /\ \A a \in DOMAIN c.parts : c.parts[a].kind # "result"
    /\ c.role # "model" => Calls(c) = {}
    /\ openai => Calls(c) = {} \/ \A a \in DOMAIN c.parts : c.parts[a].kind = "call"

ResultsBy(c, r) == Results(c) /\ c.role = r.role /\ (~r.merged => Len(c.parts) = 1)

ShapedBy(h, r, openai) == \A i \in DOMAIN h : Speech(h[i], openai) \/ ResultsBy(h[i], r)

KeyedBy(p, r) == /\ p.tool \in Tools
                 /\ p.n \in Nat \ {0}
                 /\ p.id = (IF r.ids THEN p.n ELSE 0)

NumberedBy(h, r) == \A i \in DOMAIN h : \A a \in DOMAIN h[i].parts :
                       h[i].parts[a].kind # "text" => KeyedBy(h[i].parts[a], r)

\* Contents i + 1 to j are results.
Upto(h, i, j) == i < j /\ \A k \in DOMAIN h : (i < k /\ k <= j) => Results(h[k])

SameCall(p, q) == p.n = q.n /\ p.tool = q.tool /\ p.id = q.id

\* Results come after calls, answer those, and each call has one.
HaveCalls(h) ==
    \A j \in DOMAIN h : Results(h[j]) => \E i \in DOMAIN h : Calls(h[i]) # {} /\ Upto(h, i, j)

AnswerCalls(h) ==
    \A i, j \in DOMAIN h : (Calls(h[i]) # {} /\ Upto(h, i, j)) =>
       \A b \in DOMAIN h[j].parts :
          \E a \in Calls(h[i]) : SameCall(h[j].parts[b], h[i].parts[a])

HaveResults(h, open) ==
    \A i \in DOMAIN h : \A a \in Calls(h[i]) :
       \/ h[i].parts[a].n \in open
       \/ \E j \in DOMAIN h : \E b \in DOMAIN h[j].parts :
             Upto(h, i, j) /\ SameCall(h[j].parts[b], h[i].parts[a])

OneResult(h, open) ==
    \A j, k \in DOMAIN h : \A b \in DOMAIN h[j].parts : \A c \in DOMAIN h[k].parts :
       (h[j].parts[b].kind = "result" /\ h[k].parts[c].kind = "result") =>
          /\ h[j].parts[b].n \notin open
          /\ h[j].parts[b].n = h[k].parts[c].n => j = k /\ b = c

Together(h, r) ==
    r.merged => \A i, j, k \in DOMAIN h :
       (Calls(h[i]) # {} /\ Upto(h, i, j) /\ Upto(h, i, k)) => j = k

Answered(h, open, r) == /\ HaveCalls(h) /\ AnswerCalls(h) /\ HaveResults(h, open)
                        /\ OneResult(h, open) /\ Together(h, r)

\* The calls of d are the ones of the last content but results, or of those.
Pending(h, d, r) ==
    \E i \in DOMAIN h :
       /\ r.merged => i = Len(h)
       /\ \A k \in DOMAIN h : i < k => Results(h[k])
       /\ \A x \in DOMAIN d : \E a \in Calls(h[i]) :
             h[i].parts[a].n = d[x].n /\ h[i].parts[a].tool = d[x].tool

\* The parts that user or model speak in.
Own(c) == {a \in DOMAIN c.parts : c.role # "system" /\ c.parts[a].kind # "result"}

Skipped(s, n, lossy) == /\ lossy /\ s[n] = [by |-> "model", kind |-> "text"]
                        /\ n < Len(s) /\ s[n + 1].kind = "call"

Heard(h, s, m, lossy) ==
    /\ \A i \in DOMAIN h : \A a \in Own(h[i]) :
          LET n == h[i].parts[a].n IN
          /\ n \in 1..m /\ ~Skipped(s, n, lossy)
          /\ s[n] = [by |-> h[i].role, kind |-> h[i].parts[a].kind]
    /\ \A i, j \in DOMAIN h : \A a \in Own(h[i]), b \in Own(h[j]) :
          Before(i, a, j, b) => h[i].parts[a].n < h[j].parts[b].n
    /\ \A n \in 1..m :
          Skipped(s, n, lossy) \/ \E i \in DOMAIN h : \E a \in Own(h[i]) : h[i].parts[a].n = n

-----------------------------------------------------------------------------
(***************************************************************************)
(* The invariant.                                                          *)
(***************************************************************************)
\* A model of the registry is that of an entry with its name.
Provenance == \A n \in Names : registry[n] # NoModel =>
                 \E e \in Entries : e.name = n /\ registry[n] = CreateModel(e, setup)

OfOpenAI == Default.provider = "openai"
Lossy    == OfOpenAI /\ ~streaming
Open     == IF held = <<>> THEN {due[x].n : x \in DOMAIN due} ELSE {}
Now      == Len(said) - Len(held)   \* the last thing the history knows of

\* What is asked of whom, and when.
Phases ==
    /\ stage # "serving" => /\ turn = "user" /\ said = <<>> /\ due = <<>>
                            /\ history = IF runner.prompt = "content" THEN <<Prompt>> ELSE <<>>
    /\ turn \in {"waiting", "reading", "calling"} => sent.provider = Default.provider
    /\ turn = "waiting" => sent = Request(Default, history)
    /\ turn \in {"user", "model", "waiting"} => held = <<>>
    /\ turn \in {"waiting", "reading"} => due = <<>>
    /\ (turn # "user" /\ Lossy /\ Now > 0) => said[Now] # [by |-> "model", kind |-> "text"]

Prompted ==
    IF runner.prompt = "content" THEN \E i \in DOMAIN history : history[i].role = "system"
    ELSE \A i \in DOMAIN history : history[i].role # "system"

\* The items q that the provider keeps are the last ones of s, from m + 1 on.
HeldFrom(q, m, s, openai) ==
    \A a \in DOMAIN q :
       /\ q[a].n = m + a /\ q[a].id = 0
       /\ s[q[a].n] = [by |-> "model", kind |-> q[a].kind]
       /\ q[a].kind = "text" \/ (q[a].kind = "call" /\ q[a].tool \in Tools)
       /\ openai => a = 1 \/ q[a].kind = "call"

\* The calls d that are due are things said, in that order; while items are kept,
\* the calls among those.
DueOf(d, q, m) ==
    /\ \A x \in DOMAIN d : /\ d[x].kind = "call" /\ d[x].tool \in Tools
                           /\ d[x].id = 0 /\ d[x].n \in 1..m
    /\ \A x, y \in DOMAIN d : x < y => d[x].n < d[y].n
    /\ q # <<>> => {d[x] : x \in DOMAIN d} = {q[a] : a \in At(q, "call")}

Kept ==
    /\ Now \in Nat
    /\ HeldFrom(held, Now, said, OfOpenAI) /\ DueOf(due, held, Len(said))
    /\ \A a \in DOMAIN held : KeptBack(held[a])
    /\ (turn = "calling" /\ Lossy) => held # <<>> /\ held[Len(held)].kind = "call"

TalkInv ==
    /\ Phases /\ Prompted /\ Kept
    /\ ShapedBy(history, runner, OfOpenAI) /\ NumberedBy(history, runner)
    /\ Answered(history, Open, runner)
    /\ Open # {} => Pending(history, due, runner)
    /\ Heard(history, said, Now, Lossy)

IInv == ModelsInv /\ TypeOK /\ Provenance /\ TalkInv
-----------------------------------------------------------------------------
(***************************************************************************)
(* What appending a content does to the history.                           *)
(***************************************************************************)
\* append of Go: what was there stays, the new element is the last.
LEMMA AppendFacts ==
    ASSUME NEW S, NEW s \in Seq(S), NEW e \in S
    PROVE  /\ Append(s, e) \in Seq(S) /\ Len(s) \in Nat /\ Len(Append(s, e)) = Len(s) + 1
           /\ DOMAIN s = 1..Len(s) /\ DOMAIN Append(s, e) = DOMAIN s \cup {Len(s) + 1}
           /\ Append(s, e)[Len(s) + 1] = e
           /\ \A i \in DOMAIN s : i \in Nat /\ i < Len(s) + 1 /\ Append(s, e)[i] = s[i]
  OBVIOUS

\* A content has not both calls and results.
LEMMA CallsOrResults == ASSUME NEW c PROVE ~(Calls(c) # {} /\ Results(c))
BY DEF Calls, At, Results

\* Between contents of h, Append(h, c) has the results that h has.
LEMMA UptoOld ==
    ASSUME NEW h \in Seq(Content), NEW c \in Content,
           NEW i \in DOMAIN h, NEW j \in DOMAIN h
    PROVE  Upto(Append(h, c), i, j) <=> Upto(h, i, j)
<1>. DEFINE g == Append(h, c)
<1>1. /\ Len(h) \in Nat /\ DOMAIN h = 1..Len(h) /\ DOMAIN g = DOMAIN h \cup {Len(h) + 1}
      /\ \A k \in DOMAIN h : g[k] = h[k]
  BY AppendFacts
<1>2. ~(Len(h) + 1 <= j)
  BY <1>1
<1>. HIDE DEF g
<1>3. Upto(g, i, j) <=> Upto(h, i, j)
  BY <1>1, <1>2 DEF Upto
<1>. QED  BY <1>3 DEF g

\* The new content follows on i if it is results and all from i on are.
LEMMA UptoNew ==
    ASSUME NEW h \in Seq(Content), NEW c \in Content, NEW i \in DOMAIN h
    PROVE  Upto(Append(h, c), i, Len(h) + 1)
              <=> Results(c) /\ \A k \in DOMAIN h : i < k => Results(h[k])
<1>. DEFINE g == Append(h, c)
            L == Len(h) + 1
<1>1. /\ Len(h) \in Nat /\ DOMAIN h = 1..Len(h) /\ DOMAIN g = DOMAIN h \cup {L}
      /\ \A k \in DOMAIN h : k \in Nat /\ k < L /\ g[k] = h[k]
      /\ g[L] = c
  BY AppendFacts
<1>2. \A k \in DOMAIN h : k <= L
  BY <1>1
<1>3. L <= L /\ i < L
  BY <1>1
<1>. HIDE DEF g, L
<1>4. Upto(g, i, L) <=> Results(c) /\ \A k \in DOMAIN h : i < k => Results(h[k])
  BY <1>1, <1>2, <1>3 DEF Upto
<1>. QED  BY <1>4 DEF g, L

\* Nothing follows the last content.
LEMMA UptoLast ==
    ASSUME NEW h \in Seq(Content), NEW c \in Content, NEW j \in DOMAIN Append(h, c)
    PROVE  ~Upto(Append(h, c), Len(h) + 1, j)
<1>1. Len(h) \in Nat /\ DOMAIN h = 1..Len(h) /\ DOMAIN Append(h, c) = DOMAIN h \cup {Len(h) + 1}
  BY AppendFacts
<1>2. ~(Len(h) + 1 < j)
  BY <1>1
<1>. QED  BY <1>2 DEF Upto

\* A content without results: its calls are open.
LEMMA SpeechAppended ==
    ASSUME NEW h \in Seq(Content), NEW c \in Content, NEW r, NEW open, Answered(h, {}, r),
           \A a \in DOMAIN c.parts : c.parts[a].kind # "result",
           \A a \in Calls(c) : c.parts[a].n \in open,
           \A j \in DOMAIN h : \A b \in DOMAIN h[j].parts :
              h[j].parts[b].kind = "result" => h[j].parts[b].n \notin open
    PROVE  Answered(Append(h, c), open, r)
<1>. DEFINE g == Append(h, c)
            L == Len(h) + 1
<1>1. /\ DOMAIN g = DOMAIN h \cup {L} /\ g[L] = c
      /\ \A k \in DOMAIN h : g[k] = h[k] /\ k # L
  BY AppendFacts
<1>2. c.parts \in Seq(Part)
  BY DEF Content
<1>3. ~Results(c)
  <2>1. c.parts # <<>> => 1 \in DOMAIN c.parts
    BY <1>2
  <2>. QED  BY <2>1 DEF Results
<1>4. /\ \A i, j \in DOMAIN h : Upto(g, i, j) <=> Upto(h, i, j)
      /\ \A i \in DOMAIN h : ~Upto(g, i, L)
      /\ \A j \in DOMAIN g : ~Upto(g, L, j)
  BY <1>3, UptoOld, UptoNew, UptoLast
<1>. HIDE DEF g, L
<1>5. HaveCalls(g)
  BY <1>1, <1>3, <1>4 DEF HaveCalls, Answered
<1>6. AnswerCalls(g)
  <2>. SUFFICES ASSUME NEW i \in DOMAIN g, NEW j \in DOMAIN g, Calls(g[i]) # {}, Upto(g, i, j),
                       NEW b \in DOMAIN g[j].parts
                PROVE  \E a \in Calls(g[i]) : SameCall(g[j].parts[b], g[i].parts[a])
    BY DEF AnswerCalls
  <2>1. i \in DOMAIN h /\ j \in DOMAIN h /\ g[i] = h[i] /\ g[j] = h[j] /\ Upto(h, i, j)
    BY <1>1, <1>4
  <2>. QED  BY <2>1 DEF AnswerCalls, Answered
<1>7. HaveResults(g, open)
  <2>. SUFFICES ASSUME NEW i \in DOMAIN g, NEW a \in Calls(g[i]), g[i].parts[a].n \notin open
                PROVE  \E j \in DOMAIN g : \E b \in DOMAIN g[j].parts :
                          Upto(g, i, j) /\ SameCall(g[j].parts[b], g[i].parts[a])
    BY DEF HaveResults
  <2>1. i \in DOMAIN h /\ g[i] = h[i]
    BY <1>1
  <2>2. PICK j \in DOMAIN h : \E b \in DOMAIN h[j].parts :
                Upto(h, i, j) /\ SameCall(h[j].parts[b], h[i].parts[a])
    BY <2>1 DEF HaveResults, Answered
  <2>3. j \in DOMAIN g /\ g[j] = h[j] /\ Upto(g, i, j)
    BY <1>1, <1>4, <2>1, <2>2
  <2>. QED  BY <2>1, <2>2, <2>3
<1>8. OneResult(g, open)
  <2>. SUFFICES ASSUME NEW j \in DOMAIN g, NEW k \in DOMAIN g, NEW b \in DOMAIN g[j].parts,
                       NEW d \in DOMAIN g[k].parts,
                       g[j].parts[b].kind = "result", g[k].parts[d].kind = "result"
                PROVE  /\ g[j].parts[b].n \notin open
                       /\ g[j].parts[b].n = g[k].parts[d].n => j = k /\ b = d
    BY DEF OneResult
  <2>1. j \in DOMAIN h /\ k \in DOMAIN h /\ g[j] = h[j] /\ g[k] = h[k]
    BY <1>1
  <2>. QED  BY <2>1 DEF OneResult, Answered
<1>9. Together(g, r)
  <2>. SUFFICES ASSUME r.merged, NEW i \in DOMAIN g, NEW j \in DOMAIN g, NEW k \in DOMAIN g,
                       Calls(g[i]) # {}, Upto(g, i, j), Upto(g, i, k)
                PROVE  j = k
    BY DEF Together
  <2>1. i \in DOMAIN h /\ j \in DOMAIN h /\ k \in DOMAIN h /\ g[i] = h[i]
    BY <1>1, <1>4
  <2>. QED  BY <1>4, <2>1 DEF Together, Answered
<1>. QED  BY <1>5, <1>6, <1>7, <1>8, <1>9 DEF Answered, g

\* No two calls have the same number.
OneCall(h) == \A i, k \in DOMAIN h : \A a \in Calls(h[i]), b \in Calls(h[k]) :
                 h[i].parts[a].n = h[k].parts[b].n => i = k /\ a = b

\* A content of results, for calls of content i: what remains open is open2.
LEMMA ResultsAppended ==
    ASSUME NEW h \in Seq(Content), NEW c \in Content, NEW r, NEW open, NEW open2,
           Answered(h, open, r), OneCall(h), Results(c),
           NEW i \in DOMAIN h, Calls(h[i]) # {}, r.merged => i = Len(h),
           \A k \in DOMAIN h : i < k => Results(h[k]),
           \A b \in DOMAIN c.parts : \E a \in Calls(h[i]) : SameCall(c.parts[b], h[i].parts[a]),
           open \subseteq open2 \cup {c.parts[b].n : b \in DOMAIN c.parts}, open2 \subseteq open,
           \A b \in DOMAIN c.parts : c.parts[b].n \in open /\ c.parts[b].n \notin open2,
           \A b, d \in DOMAIN c.parts : c.parts[b].n = c.parts[d].n => b = d
    PROVE  Answered(Append(h, c), open2, r)
<1>. DEFINE g == Append(h, c)
            L == Len(h) + 1
<1>1. /\ DOMAIN g = DOMAIN h \cup {L} /\ g[L] = c /\ DOMAIN h = 1..Len(h) /\ Len(h) \in Nat
      /\ \A k \in DOMAIN h : g[k] = h[k] /\ k # L /\ k \in Nat /\ k < L
  BY AppendFacts
<1>2. /\ \A m, j \in DOMAIN h : Upto(g, m, j) <=> Upto(h, m, j)
      /\ \A m \in DOMAIN h : Upto(g, m, L) <=> \A k \in DOMAIN h : m < k => Results(h[k])
      /\ \A j \in DOMAIN g : ~Upto(g, L, j)
  BY UptoOld, UptoNew, UptoLast
<1>3. Upto(g, i, L)
  BY <1>2
<1>4. Calls(c) = {}
  BY CallsOrResults
<1>5. \A m \in DOMAIN g : \A j \in DOMAIN g :
         (Calls(g[m]) # {} /\ Upto(g, m, j) /\ j = L) => m = i
  <2>. SUFFICES ASSUME NEW m \in DOMAIN g, Calls(g[m]) # {}, Upto(g, m, L) PROVE m = i
    OBVIOUS
  <2>1. m \in DOMAIN h /\ g[m] = h[m]
    BY <1>1, <1>4
  <2>2. ~(m < i)
    BY <1>2, <2>1, CallsOrResults
  <2>3. ~(i < m)
    BY <2>1, CallsOrResults
  <2>. QED  BY <1>1, <2>1, <2>2, <2>3
<1>6. /\ HaveCalls(h) /\ AnswerCalls(h) /\ HaveResults(h, open)
      /\ OneResult(h, open) /\ Together(h, r)
  BY DEF Answered
<1>. HIDE DEF g, L
<1>7. HaveCalls(g)
  <2>. SUFFICES ASSUME NEW j \in DOMAIN g, Results(g[j])
                PROVE  \E m \in DOMAIN g : Calls(g[m]) # {} /\ Upto(g, m, j)
    BY DEF HaveCalls
  <2>1. CASE j = L
    BY <1>1, <1>3, <2>1
  <2>2. CASE j \in DOMAIN h
    <3>1. PICK m \in DOMAIN h : Calls(h[m]) # {} /\ Upto(h, m, j)
      BY <1>1, <1>6, <2>2 DEF HaveCalls
    <3>. QED  BY <1>1, <1>2, <2>2, <3>1
  <2>. QED  BY <1>1, <2>1, <2>2
<1>8. AnswerCalls(g)
  <2>. SUFFICES ASSUME NEW m \in DOMAIN g, NEW j \in DOMAIN g, Calls(g[m]) # {}, Upto(g, m, j),
                       NEW b \in DOMAIN g[j].parts
                PROVE  \E a \in Calls(g[m]) : SameCall(g[j].parts[b], g[m].parts[a])
    BY DEF AnswerCalls
  <2>1. CASE j = L
    BY <1>1, <1>5, <2>1
  <2>2. CASE j \in DOMAIN h
    <3>1. m \in DOMAIN h /\ g[m] = h[m] /\ g[j] = h[j] /\ Upto(h, m, j)
      BY <1>1, <1>2, <2>2
    <3>. QED  BY <1>6, <2>2, <3>1 DEF AnswerCalls
  <2>. QED  BY <1>1, <2>1, <2>2
<1>9. HaveResults(g, open2)
  <2>. SUFFICES ASSUME NEW m \in DOMAIN g, NEW a \in Calls(g[m]), g[m].parts[a].n \notin open2
                PROVE  \E j \in DOMAIN g : \E b \in DOMAIN g[j].parts :
                          Upto(g, m, j) /\ SameCall(g[j].parts[b], g[m].parts[a])
    BY DEF HaveResults
  <2>1. m \in DOMAIN h /\ g[m] = h[m]
    BY <1>1, <1>4
  <2>2. CASE h[m].parts[a].n \in open
    <3>1. PICK b \in DOMAIN c.parts : c.parts[b].n = h[m].parts[a].n
      BY <2>1, <2>2
    <3>2. PICK e \in Calls(h[i]) : SameCall(c.parts[b], h[i].parts[e])
      OBVIOUS
    <3>3. h[m].parts[a].n = h[i].parts[e].n /\ a \in Calls(h[m])
      BY <2>1, <3>1, <3>2 DEF SameCall
    <3>4. m = i /\ a = e
      BY <2>1, <3>3 DEF OneCall
    <3>. QED  BY <1>1, <1>3, <2>1, <3>2, <3>4
  <2>3. CASE h[m].parts[a].n \notin open
    <3>1. PICK j \in DOMAIN h : \E b \in DOMAIN h[j].parts :
                  Upto(h, m, j) /\ SameCall(h[j].parts[b], h[m].parts[a])
      BY <1>6, <2>1, <2>3 DEF HaveResults
    <3>2. j \in DOMAIN g /\ g[j] = h[j] /\ Upto(g, m, j)
      BY <1>1, <1>2, <2>1, <3>1
    <3>. QED  BY <2>1, <3>1, <3>2
  <2>. QED  BY <2>2, <2>3
<1>10. OneResult(g, open2)
  <2>. SUFFICES ASSUME NEW j \in DOMAIN g, NEW k \in DOMAIN g, NEW b \in DOMAIN g[j].parts,
                       NEW d \in DOMAIN g[k].parts,
                       g[j].parts[b].kind = "result", g[k].parts[d].kind = "result"
                PROVE  /\ g[j].parts[b].n \notin open2
                       /\ g[j].parts[b].n = g[k].parts[d].n => j = k /\ b = d
    BY DEF OneResult
  <2>1. CASE j \in DOMAIN h /\ k \in DOMAIN h
    BY <1>1, <1>6, <2>1 DEF OneResult
  <2>2. CASE j = L /\ k = L
    BY <1>1, <2>2
  <2>3. CASE j \in DOMAIN h /\ k = L
    <3>1. g[j].parts[b].n \notin open /\ g[k].parts[d].n \in open
      BY <1>1, <1>6, <2>3 DEF OneResult
    <3>. QED  BY <3>1
  <2>4. CASE j = L /\ k \in DOMAIN h
    <3>1. g[j].parts[b].n \in open /\ g[j].parts[b].n \notin open2 /\ g[k].parts[d].n \notin open
      BY <1>1, <1>6, <2>4 DEF OneResult
    <3>. QED  BY <3>1
  <2>. QED  BY <1>1, <2>1, <2>2, <2>3, <2>4
<1>11. Together(g, r)
  <2>. SUFFICES ASSUME r.merged, NEW m \in DOMAIN g, NEW j \in DOMAIN g, NEW k \in DOMAIN g,
                       Calls(g[m]) # {}, Upto(g, m, j), Upto(g, m, k)
                PROVE  j = k
    BY DEF Together
  <2>1. m \in DOMAIN h /\ g[m] = h[m] /\ m < j /\ m < k
    BY <1>1, <1>2, <1>4 DEF Upto
  <2>2. CASE j \in DOMAIN h /\ k \in DOMAIN h
    BY <1>2, <1>6, <2>1, <2>2 DEF Together
  <2>3. CASE j = L \/ k = L
    <3>1. m = i /\ m = Len(h)
      BY <1>5, <2>3
    <3>2. j = L /\ k = L
      BY <1>1, <2>1, <3>1
    <3>. QED  BY <3>2
  <2>. QED  BY <1>1, <2>2, <2>3
<1>. QED  BY <1>7, <1>8, <1>9, <1>10, <1>11 DEF Answered, g

-----------------------------------------------------------------------------
(***************************************************************************)
(* What was heard.                                                         *)
(***************************************************************************)
\* What was heard stays so when more is said, if that leaves out no other text.
LEMMA HeardMore ==
    ASSUME NEW h, NEW s, NEW t, NEW m \in Nat, NEW lossy, Heard(h, s, m, lossy),
           \A n \in 1..m : t[n] = s[n] /\ (Skipped(t, n, lossy) <=> Skipped(s, n, lossy))
    PROVE  Heard(h, t, m, lossy)
<1>1. \A i \in DOMAIN h : \A a \in Own(h[i]) :
         /\ h[i].parts[a].n \in 1..m /\ ~Skipped(t, h[i].parts[a].n, lossy)
         /\ t[h[i].parts[a].n] = [by |-> h[i].role, kind |-> h[i].parts[a].kind]
  BY DEF Heard
<1>2. /\ \A i, j \in DOMAIN h : \A a \in Own(h[i]), b \in Own(h[j]) :
            Before(i, a, j, b) => h[i].parts[a].n < h[j].parts[b].n
      /\ \A n \in 1..m : Skipped(t, n, lossy)
            \/ \E i \in DOMAIN h : \E a \in Own(h[i]) : h[i].parts[a].n = n
  BY DEF Heard
<1>. QED  BY <1>1, <1>2 DEF Heard

\* Results and the system's prompt are not heard.
LEMMA NothingHeard ==
    ASSUME NEW h \in Seq(Content), NEW c \in Content, Own(c) = {},
           NEW s, NEW m \in Nat, NEW lossy, Heard(h, s, m, lossy)
    PROVE  Heard(Append(h, c), s, m, lossy)
<1>. DEFINE g == Append(h, c)
            L == Len(h) + 1
<1>1. /\ DOMAIN g = DOMAIN h \cup {L} /\ g[L] = c
      /\ \A k \in DOMAIN h : g[k] = h[k]
  BY AppendFacts
<1>. HIDE DEF g, L
<1>2. \A i \in DOMAIN g : \A a \in Own(g[i]) : i \in DOMAIN h /\ g[i] = h[i]
  BY <1>1
<1>3. /\ \A i \in DOMAIN g : \A a \in Own(g[i]) :
            /\ g[i].parts[a].n \in 1..m /\ ~Skipped(s, g[i].parts[a].n, lossy)
            /\ s[g[i].parts[a].n] = [by |-> g[i].role, kind |-> g[i].parts[a].kind]
  BY <1>2 DEF Heard
<1>4. \A i, j \in DOMAIN g : \A a \in Own(g[i]), b \in Own(g[j]) :
         Before(i, a, j, b) => g[i].parts[a].n < g[j].parts[b].n
  BY <1>2 DEF Heard
<1>5. \A n \in 1..m :
         Skipped(s, n, lossy) \/ \E i \in DOMAIN g : \E a \in Own(g[i]) : g[i].parts[a].n = n
  BY <1>1 DEF Heard
<1>. QED  BY <1>3, <1>4, <1>5 DEF Heard, g

\* A content with the things said after m, up to m2.
LEMMA MoreHeard ==
    ASSUME NEW h \in Seq(Content), NEW c \in Content, c.role # "system",
           NEW s, NEW m \in Nat, NEW m2 \in Nat, m <= m2, NEW lossy, Heard(h, s, m, lossy),
           \A a \in DOMAIN c.parts :
              /\ c.parts[a].kind # "result"
              /\ c.parts[a].n \in (m + 1)..m2 /\ ~Skipped(s, c.parts[a].n, lossy)
              /\ s[c.parts[a].n] = [by |-> c.role, kind |-> c.parts[a].kind],
           \A a, b \in DOMAIN c.parts : a < b => c.parts[a].n < c.parts[b].n,
           \A n \in (m + 1)..m2 : Skipped(s, n, lossy)
                                    \/ \E a \in DOMAIN c.parts : c.parts[a].n = n
    PROVE  Heard(Append(h, c), s, m2, lossy)
<1>. DEFINE g == Append(h, c)
            L == Len(h) + 1
<1>1. /\ DOMAIN g = DOMAIN h \cup {L} /\ g[L] = c /\ DOMAIN h = 1..Len(h) /\ Len(h) \in Nat
      /\ \A k \in DOMAIN h : g[k] = h[k] /\ k \in Nat /\ k < L
  BY AppendFacts
<1>2. Own(c) = DOMAIN c.parts
  BY DEF Own
<1>3. /\ \A i \in DOMAIN h : \A a \in Own(h[i]) :
            /\ h[i].parts[a].n \in 1..m /\ ~Skipped(s, h[i].parts[a].n, lossy)
            /\ s[h[i].parts[a].n] = [by |-> h[i].role, kind |-> h[i].parts[a].kind]
      /\ \A i, j \in DOMAIN h : \A a \in Own(h[i]), b \in Own(h[j]) :
            Before(i, a, j, b) => h[i].parts[a].n < h[j].parts[b].n
      /\ \A n \in 1..m : Skipped(s, n, lossy)
            \/ \E i \in DOMAIN h : \E a \in Own(h[i]) : h[i].parts[a].n = n
  BY DEF Heard
<1>4. 1..m2 = 1..m \cup (m + 1)..m2
  OBVIOUS
<1>. HIDE DEF g
<1>5. \A i \in DOMAIN g : \A a \in Own(g[i]) :
         /\ g[i].parts[a].n \in 1..m2 /\ ~Skipped(s, g[i].parts[a].n, lossy)
         /\ s[g[i].parts[a].n] = [by |-> g[i].role, kind |-> g[i].parts[a].kind]
  <2>. SUFFICES ASSUME NEW i \in DOMAIN g, NEW a \in Own(g[i])
                PROVE  /\ g[i].parts[a].n \in 1..m2 /\ ~Skipped(s, g[i].parts[a].n, lossy)
                       /\ s[g[i].parts[a].n]
                             = [by |-> g[i].role, kind |-> g[i].parts[a].kind]
    OBVIOUS
  <2>1. CASE i \in DOMAIN h
    BY <1>1, <1>3, <1>4, <2>1
  <2>2. CASE i = L
    BY <1>1, <1>2, <1>4, <2>2
  <2>. QED  BY <1>1, <2>1, <2>2
<1>6. ASSUME NEW i \in DOMAIN g, NEW j \in DOMAIN g, NEW a \in Own(g[i]), NEW b \in Own(g[j]),
             Before(i, a, j, b)
      PROVE  g[i].parts[a].n < g[j].parts[b].n
  <2>1. CASE i \in DOMAIN h /\ j \in DOMAIN h
    BY <1>1, <1>3, <1>6, <2>1
  <2>2. CASE i \in DOMAIN h /\ j = L
    <3>1. g[i].parts[a].n \in 1..m /\ g[j].parts[b].n \in (m + 1)..m2
      BY <1>1, <1>2, <1>3, <2>2
    <3>. QED  BY <3>1
  <2>3. CASE i = L /\ j = L
    <3>1. a < b
      BY <1>1, <1>6, <2>3 DEF Before
    <3>. QED  BY <1>1, <1>2, <2>3, <3>1
  <2>4. CASE i = L /\ j \in DOMAIN h
    BY <1>1, <1>6, <2>4 DEF Before
  <2>. QED  BY <1>1, <2>1, <2>2, <2>3, <2>4
<1>7. ASSUME NEW n \in 1..m2
      PROVE  Skipped(s, n, lossy) \/ \E i \in DOMAIN g : \E a \in Own(g[i]) : g[i].parts[a].n = n
  <2>1. CASE n \in 1..m
    BY <1>1, <1>3, <2>1
  <2>2. CASE n \in (m + 1)..m2
    BY <1>1, <1>2, <2>2
  <2>. QED  BY <1>4, <2>1, <2>2
<1>. QED  BY <1>5, <1>6, <1>7 DEF Heard, g

\* The calls of what was heard have numbers of their own.
LEMMA CallsDistinct ==
    ASSUME NEW h \in Seq(Content), NEW r, NEW openai, ShapedBy(h, r, openai),
           NEW s, NEW m, NEW lossy, Heard(h, s, m, lossy)
    PROVE  OneCall(h) /\ \A i \in DOMAIN h : \A a \in Calls(h[i]) : h[i].parts[a].n \in 1..m
<1>1. \A i \in DOMAIN h : Calls(h[i]) \subseteq Own(h[i])
  BY CallsOrResults DEF ShapedBy, Speech, ResultsBy, Calls, At, Own
<1>2. \A i \in DOMAIN h : \A a \in Calls(h[i]) : h[i].parts[a].n \in 1..m
  BY <1>1 DEF Heard
<1>3. ASSUME NEW i \in DOMAIN h, NEW k \in DOMAIN h, NEW a \in Calls(h[i]), NEW b \in Calls(h[k]),
             h[i].parts[a].n = h[k].parts[b].n
      PROVE  i = k /\ a = b
  <2>1. ~Before(i, a, k, b) /\ ~Before(k, b, i, a)
    <3>1. a \in Own(h[i]) /\ b \in Own(h[k])
      BY <1>1
    <3>2. h[i].parts[a].n \in 1..m
      BY <1>2
    <3>. QED  BY <1>3, <3>1, <3>2 DEF Heard
  <2>2. i \in Nat /\ k \in Nat
    OBVIOUS
  <2>3. a \in Nat /\ b \in Nat
    <3>1. h[i] \in Content /\ h[k] \in Content
      OBVIOUS
    <3>2. h[i].parts \in Seq(Part) /\ h[k].parts \in Seq(Part)
      BY <3>1 DEF Content
    <3>. QED  BY <3>2 DEF Calls, At
  <2>. QED  BY <2>1, <2>2, <2>3 DEF Before
<1>. QED  BY <1>2, <1>3 DEF OneCall

\* A part of a content that is a result makes the content one of results.
LEMMA ResultsOnly ==
    ASSUME NEW h, NEW r, NEW openai, ShapedBy(h, r, openai),
           NEW j \in DOMAIN h, NEW b \in DOMAIN h[j].parts, h[j].parts[b].kind = "result"
    PROVE  ResultsBy(h[j], r)
BY DEF ShapedBy, Speech

\* Only calls that were heard have results.
LEMMA ResultsHeard ==
    ASSUME NEW h \in Seq(Content), NEW r, NEW openai, ShapedBy(h, r, openai),
           NEW s, NEW m, NEW lossy, Heard(h, s, m, lossy), NEW open, Answered(h, open, r),
           NEW j \in DOMAIN h, NEW b \in DOMAIN h[j].parts, h[j].parts[b].kind = "result"
    PROVE  h[j].parts[b].n \in 1..m
<1>1. Results(h[j])
  BY ResultsOnly DEF ResultsBy
<1>2. PICK i \in DOMAIN h : Calls(h[i]) # {} /\ Upto(h, i, j)
  BY <1>1 DEF Answered, HaveCalls
<1>3. PICK a \in Calls(h[i]) : SameCall(h[j].parts[b], h[i].parts[a])
  BY <1>2 DEF Answered, AnswerCalls
<1>. QED  BY <1>3, CallsDistinct DEF SameCall

-----------------------------------------------------------------------------
(***************************************************************************)
(* The models.                                                             *)
(***************************************************************************)
\* What CreateModel makes is of one of the three providers.
LEMMA ThreeProviders ==
    ASSUME NEW e, NEW s, CreateModel(e, s) # NoModel
    PROVE  CreateModel(e, s).provider \in {"openai", "anthropic", "gemini"}
<1>. DEFINE c == Lookup(s.rc, e.model)
<1>1. \/ CreateModel(e, s) = OpenAI(e, c, s.env)
      \/ CreateModel(e, s) = Anthropic(e, c, s.env)
      \/ CreateModel(e, s) = Gemini(e, c, s.env, s.sdk)
  BY DEF CreateModel, Registered
<1>2. CASE CreateModel(e, s) = OpenAI(e, c, s.env)
  <2>1. OpenAI(e, c, s.env) # NoModel => OpenAI(e, c, s.env).provider = "openai"
    BY DEF OpenAI
  <2>. QED  BY <1>2, <2>1
<1>3. CASE CreateModel(e, s) = Anthropic(e, c, s.env)
  <2>1. Anthropic(e, c, s.env) # NoModel => Anthropic(e, c, s.env).provider = "anthropic"
    BY DEF Anthropic
  <2>. QED  BY <1>3, <2>1
<1>4. CASE CreateModel(e, s) = Gemini(e, c, s.env, s.sdk)
  <2>1. Gemini(e, c, s.env, s.sdk) # NoModel =>
          Gemini(e, c, s.env, s.sdk).provider = "gemini"
    BY DEF Gemini
  <2>. QED  BY <1>4, <2>1
<1>. QED  BY <1>1, <1>2, <1>3, <1>4

\* The process serves with the model of an entry that has the default's name.
LEMMA DefaultServes ==
    ASSUME ModelsInv, Provenance, stage = "serving"
    PROVE  /\ Default # NoModel
           /\ Default.provider \in {"openai", "anthropic", "gemini"}
           /\ \E e \in Entries : e.name = setup.brain.default /\ Default = CreateModel(e, setup)
<1>1. Passed = Entries
  BY AllPassed DEF ModelsInv, DefaultKnown
<1>2. PICK d \in Entries : d.name = setup.brain.default /\ Usable(d)
  BY <1>1 DEF ModelsInv, DefaultKnown, Defaults
<1>3. setup.brain.default \in Names
  BY <1>2 DEF Names
<1>4. Default # NoModel
  BY <1>1, <1>2, <1>3 DEF Default, ModelsInv, RegistryExact
<1>5. PICK e \in Entries : e.name = setup.brain.default /\ Default = CreateModel(e, setup)
  BY <1>3, <1>4 DEF Provenance, Default
<1>6. Default.provider \in {"openai", "anthropic", "gemini"}
  BY <1>4, <1>5, ThreeProviders
<1>. QED  BY <1>4, <1>5, <1>6

\* The steps of the models keep their types and the registry's provenance.
LEMMA ModelsSteps ==
    ASSUME ModelsInv, ModelsTypeOK, Provenance, ModelsNext
    PROVE  /\ ModelsTypeOK' /\ Provenance' /\ setup' = setup
           /\ stage = "serving" => UNCHANGED <<stage, registry>>
<1>1. Len(setup.brain.models) \in Nat /\ DOMAIN setup.brain.models = 1..Len(setup.brain.models)
  BY ModelsSequence DEF ModelsTypeOK
<1>2. CASE CreateNext
  <2>1. /\ setup' = setup /\ brain' = brain
        /\ stage = "creating" /\ next <= Len(setup.brain.models)
        /\ stage' \in {"creating", "failed"}
    BY <1>2 DEF CreateNext
  <2>2. Names' = Names /\ Entries' = Entries
    BY <2>1 DEF Names, Entries
  <2>3. Entry \in Entries /\ Entry.name \in Names
    <3>1. next \in DOMAIN setup.brain.models
      BY <1>1, <2>1 DEF ModelsTypeOK
    <3>. QED  BY <3>1 DEF Entry, Entries, Names
  <2>4. next' \in 1..(Len(setup.brain.models) + 1)
    BY <1>1, <1>2, <2>1 DEF CreateNext, ModelsTypeOK
  <2>5. /\ registry' \in [Names -> {NoModel} \cup {CreateModel(e, setup) : e \in Entries}]
        /\ warned' \subseteq Names
        /\ registry' = registry \/ registry' = [registry EXCEPT ![Entry.name]
                                                  = CreateModel(Entry, setup)]
    <3>. DEFINE m == CreateModel(Entry, setup)
    <3>1. m \in {CreateModel(e, setup) : e \in Entries}
      BY <2>3
    <3>2. \/ registry' = [registry EXCEPT ![Entry.name] = m] /\ warned' = warned
          \/ registry' = registry /\ warned' = warned \cup {Entry.name}
          \/ registry' = registry /\ warned' = warned
      BY <1>2 DEF CreateNext
    <3>. HIDE DEF m
    <3>. QED  BY <2>3, <3>1, <3>2 DEF ModelsTypeOK, m
  <2>6. ModelsTypeOK'
    BY <2>1, <2>2, <2>4, <2>5 DEF ModelsTypeOK
  <2>7. Provenance'
    <3>. SUFFICES ASSUME NEW n \in Names, registry'[n] # NoModel
                  PROVE  \E e \in Entries : e.name = n /\ registry'[n] = CreateModel(e, setup)
      BY <2>1, <2>2 DEF Provenance
    <3>1. registry'[n] = registry[n] \/ (n = Entry.name /\ registry'[n] = CreateModel(Entry, setup))
      BY <2>3, <2>5 DEF ModelsTypeOK
    <3>2. CASE registry'[n] = registry[n]
      BY <3>2 DEF Provenance
    <3>3. CASE n = Entry.name /\ registry'[n] = CreateModel(Entry, setup)
      BY <2>3, <3>3
    <3>. QED  BY <3>1, <3>2, <3>3
  <2>. QED  BY <2>1, <2>6, <2>7
<1>3. CASE RegistryComplete \/ UseDefault \/ \E b \in Edits : ReloadBrain(b)
  <2>1. /\ UNCHANGED <<setup, next, registry, warned>>
        /\ stage' \in {"creating", "connecting", "serving", "failed"}
        /\ stage = "serving" => stage' = stage
    BY <1>3 DEF RegistryComplete, UseDefault, ReloadBrain, ModelsTypeOK
  <2>2. brain' \in {s.brain : s \in Setups}
    BY <1>3, ModelsAssumption DEF RegistryComplete, UseDefault, ReloadBrain, ModelsTypeOK
  <2>3. Names' = Names /\ Entries' = Entries
    BY <2>1 DEF Names, Entries
  <2>. QED  BY <2>1, <2>2, <2>3 DEF ModelsTypeOK, Provenance
<1>. QED  BY <1>2, <1>3 DEF ModelsNext, CreateNext

-----------------------------------------------------------------------------
(***************************************************************************)
(* The steps of the conversation.                                          *)
(***************************************************************************)
\* What the steps do not change.
LEMMA Frames ==
    ASSUME UNCHANGED <<setup, registry, runner, streaming>>
    PROVE  /\ Default' = Default /\ OfOpenAI' = OfOpenAI /\ Lossy' = Lossy
           /\ Names' = Names /\ Entries' = Entries
           /\ \A m, h : Request(m, h)' = Request(m, h)
           /\ Provenance' = Provenance
<1>1. Default' = Default /\ Names' = Names /\ Entries' = Entries
  BY DEF Default, Names, Entries
<1>2. OfOpenAI' = OfOpenAI /\ Lossy' = Lossy
  BY <1>1 DEF OfOpenAI, Lossy
<1>3. \A m, h : Request(m, h)' = Request(m, h)
  BY DEF Request, HasPrompt, Tuning, GeminiTuning
<1>. QED  BY <1>1, <1>2, <1>3 DEF Provenance

\* A content of parts is one.
LEMMA ContentTypes ==
    ASSUME NEW parts \in Seq(Part), TypeOK
    PROVE  /\ ModelContent(parts) \in Content /\ ModelContent(parts).role = "model"
           /\ ResultContent(parts) \in Content /\ ResultContent(parts).role = runner.role
           /\ DOMAIN ModelContent(parts).parts = DOMAIN parts
           /\ DOMAIN ResultContent(parts).parts = DOMAIN parts
           /\ Len(ModelContent(parts).parts) = Len(parts)
           /\ Len(ResultContent(parts).parts) = Len(parts)
           /\ \A a \in DOMAIN parts :
                 LET p == ModelContent(parts).parts[a]
                     q == ResultContent(parts).parts[a]
                 IN  /\ p.kind = parts[a].kind /\ p.tool = parts[a].tool /\ p.n = parts[a].n
                     /\ p.id = (IF runner.ids /\ parts[a].kind = "call"
                                  THEN parts[a].n ELSE parts[a].id)
                     /\ q.kind = "result" /\ q.tool = p.tool /\ q.n = p.n /\ q.id = p.id
<1>1. Len(parts) \in Nat /\ DOMAIN parts = 1..Len(parts) /\ \A a \in DOMAIN parts : parts[a] \in Part
  OBVIOUS
<1>2. \A a \in DOMAIN parts :
         LET p == Identified(parts[a])
             q == Result(parts[a])
         IN  /\ p \in Part /\ q \in Part
             /\ p.kind = parts[a].kind /\ p.tool = parts[a].tool /\ p.n = parts[a].n
             /\ p.id = (IF runner.ids /\ parts[a].kind = "call" THEN parts[a].n ELSE parts[a].id)
             /\ q.kind = "result" /\ q.tool = p.tool /\ q.n = p.n /\ q.id = p.id
  <2>. SUFFICES ASSUME NEW p \in Part
                PROVE  /\ Identified(p) \in Part /\ Result(p) \in Part
                       /\ Identified(p).kind = p.kind /\ Identified(p).tool = p.tool
                       /\ Identified(p).n = p.n
                       /\ Identified(p).id = (IF runner.ids /\ p.kind = "call" THEN p.n ELSE p.id)
                       /\ Result(p).kind = "result" /\ Result(p).tool = Identified(p).tool
                       /\ Result(p).n = Identified(p).n /\ Result(p).id = Identified(p).id
    BY <1>1
  <2>1. /\ Identified(p) \in Part
        /\ Identified(p).kind = p.kind /\ Identified(p).tool = p.tool
        /\ Identified(p).n = p.n
        /\ Identified(p).id = (IF runner.ids /\ p.kind = "call" THEN p.n ELSE p.id)
    BY DEF Identified, Part
  <2>. HIDE DEF Identified
  <2>2. /\ Result(p) \in Part
        /\ Result(p).kind = "result" /\ Result(p).tool = Identified(p).tool
        /\ Result(p).n = Identified(p).n /\ Result(p).id = Identified(p).id
    BY <2>1 DEF Result, Part
  <2>. QED  BY <2>1, <2>2
<1>3. runner.role \in Roles
  BY ConversationAssumption DEF TypeOK
<1>4. /\ ModelContent(parts).role = "model"
      /\ ModelContent(parts).parts = [a \in DOMAIN parts |-> Identified(parts[a])]
      /\ ResultContent(parts).role = runner.role
      /\ ResultContent(parts).parts = [a \in DOMAIN parts |-> Result(parts[a])]
  BY DEF ModelContent, ResultContent
<1>5. /\ ModelContent(parts).parts \in Seq(Part) /\ ResultContent(parts).parts \in Seq(Part)
      /\ Len(ModelContent(parts).parts) = Len(parts)
      /\ Len(ResultContent(parts).parts) = Len(parts)
  BY <1>1, <1>2, <1>4
<1>6. ModelContent(parts) \in Content /\ ResultContent(parts) \in Content
  BY <1>3, <1>4, <1>5 DEF ModelContent, ResultContent, Content, Roles
<1>. QED  BY <1>2, <1>4, <1>5, <1>6

\* An item that arrives is a part of the model's, and a content of its own.
LEMMA PartTypes ==
    ASSUME NEW item \in Item, NEW n \in Nat
    PROVE  /\ NewPart(item, n) \in Part
           /\ NewPart(item, n).kind = item.kind /\ NewPart(item, n).n = n
           /\ NewPart(item, n).id = 0 /\ NewPart(item, n).tool = item.tool
           /\ item.kind = "text" \/ (item.kind = "call" /\ item.tool \in Tools)
BY DEF NewPart, Part, Item

\* The types.
LEMMA TypesKept ==
    ASSUME TypeOK, ModelsInv, Provenance, Phases, Kept, [Next]_vars
    PROVE  TypeOK'
<1>1. ModelsTypeOK'
  <2>1. CASE ModelsNext
    BY <2>1, ModelsSteps DEF TypeOK
  <2>2. CASE UNCHANGED modelVars
    <3>1. UNCHANGED <<setup, brain, next, registry, warned, stage>>
      BY <2>2 DEF modelVars
    <3>2. Names' = Names /\ Entries' = Entries
      BY <3>1 DEF Names, Entries
    <3>3. {CreateModel(e, setup) : e \in Entries}' = {CreateModel(e, setup) : e \in Entries}
      BY <3>1, <3>2
    <3>. QED  BY <3>1, <3>2, <3>3 DEF TypeOK, ModelsTypeOK
  <2>. QED  BY <2>1, <2>2 DEF Next, UserSays, GenerateContent, Finish, BreaksOff, Answer, Arrives, vars
<1>2. runner' \in Runners /\ streaming' \in BOOLEAN
  BY DEF Next, UserSays, GenerateContent, Finish, BreaksOff, Answer, Arrives, vars, talk, TypeOK
<1>. DEFINE S == [by : {"user", "model"}, kind : {"text", "call"}]
<1>3. /\ history \in Seq(Content) /\ said \in Seq(S) /\ Len(said) \in Nat
      /\ held \in Seq(Part) /\ due \in Seq(Part)
      /\ requests \in 0..MaxRequests /\ MaxRequests \in Nat
  <2>1. /\ history \in Seq(Content) /\ said \in Seq(S)
        /\ held \in Seq(Part) /\ due \in Seq(Part) /\ requests \in 0..MaxRequests
    BY DEF TypeOK
  <2>2. Len(said) \in Nat
    BY <2>1
  <2>3. MaxRequests \in Nat
    BY ConversationAssumption
  <2>. QED  BY <2>1, <2>2, <2>3
<1>4. CASE UNCHANGED talk
  BY <1>1, <1>4 DEF TypeOK, talk, Waiting
<1>5. CASE UserSays
  <2>1. Said("user", Len(said) + 1) \in Content
    <3>1. Len(said) + 1 \in Nat
      BY <1>3
    <3>3. Text(Len(said) + 1) \in Part
      BY ONLY <3>1 DEF Text, Part
    <3>2. <<Text(Len(said) + 1)>> \in Seq(Part)
      BY <3>3
    <3>. QED  BY <3>2 DEF Said, Content, Roles
  <2>2. history' \in Seq(Content)
    BY <1>3, <1>5, <2>1 DEF UserSays
  <2>3. said' \in Seq(S)
    BY <1>3, <1>5, AppendFacts DEF UserSays
  <2>. QED  BY <1>1, <1>2, <1>3, <1>5, <2>2, <2>3 DEF UserSays, TypeOK, Waiting
<1>6. CASE GenerateContent
  <2>1. stage = "serving"
    BY <1>6 DEF GenerateContent, Phases
  <2>2. sent'.provider \in {"openai", "anthropic", "gemini"}
    BY <1>6, <2>1, DefaultServes DEF GenerateContent, Request
  <2>3. requests' \in 0..MaxRequests
    BY <1>3, <1>6 DEF GenerateContent
  <2>. QED  BY <1>1, <1>2, <1>3, <1>6, <2>2, <2>3 DEF GenerateContent, TypeOK, Waiting
<1>7. ASSUME NEW item \in Item, Arrives(item) PROVE TypeOK'
  <2>. DEFINE p == NewPart(item, Len(said) + 1)
  <2>1. p \in Part /\ item.kind \in {"text", "call"}
    BY <1>3, PartTypes
  <2>. HIDE DEF p
  <2>2. /\ said' = Append(said, [by |-> "model", kind |-> item.kind])
        /\ turn' \in {"reading", "calling"} /\ requests' = requests
        /\ due' = due \/ due' = Append(due, p)
        /\ held' = held \/ held' = Append(held, p)
        /\ history' = history \/ history' = Append(history, ModelContent(<<p>>))
    BY <1>7 DEF Arrives, p
  <2>3. said' \in Seq(S)
    BY <1>3, <2>1, <2>2
  <2>4. Append(due, p) \in Seq(Part) /\ Append(held, p) \in Seq(Part) /\ <<p>> \in Seq(Part)
    BY <1>3, <2>1
  <2>5. ModelContent(<<p>>) \in Content
    BY <2>4, ContentTypes
  <2>6. due' \in Seq(Part) /\ held' \in Seq(Part) /\ history' \in Seq(Content)
    <3>1. Append(history, ModelContent(<<p>>)) \in Seq(Content)
      BY <1>3, <2>5
    <3>. QED  BY <1>3, <2>2, <2>4, <3>1
  <2>. QED  BY <1>1, <1>2, <1>3, <2>2, <2>3, <2>6 DEF TypeOK, Waiting
<1>8. CASE Finish
  <2>1. LastContent \in Content
    BY <1>3, ContentTypes DEF LastContent
  <2>2. history' \in Seq(Content)
    BY <1>3, <1>8, <2>1 DEF Finish
  <2>3. turn' \in {"user", "model"} /\ held' = <<>>
    BY <1>8 DEF Finish
  <2>. QED  BY <1>1, <1>2, <1>3, <1>8, <2>2, <2>3 DEF Finish, TypeOK, Waiting
<1>9. CASE BreaksOff
  <2>1. Len(said) - Len(held) \in 0..Len(said)
    BY <1>3 DEF Kept, Now
  <2>2. SubSeq(said, 1, Len(said) - Len(held)) \in Seq(S)
    <3>. HIDE DEF S
    <3>. QED  BY <1>3, <2>1
  <2>. QED  BY <1>1, <1>2, <1>3, <1>9, <2>2 DEF BreaksOff, TypeOK, Waiting
<1>10. CASE Answer
  <2>1. due # <<>>
    BY <1>10 DEF Answer, Answering
  <2>2. Head(due) \in Part /\ Tail(due) \in Seq(Part)
    BY <1>3, <2>1
  <2>3. <<Head(due)>> \in Seq(Part)
    BY <2>2
  <2>4. ResultContent(due) \in Content /\ ResultContent(<<Head(due)>>) \in Content
    BY <1>3, <2>3, ContentTypes
  <2>5. history' \in Seq(Content) /\ due' \in Seq(Part)
    BY <1>3, <1>10, <2>2, <2>4 DEF Answer
  <2>. QED  BY <1>1, <1>2, <1>3, <1>10, <2>5 DEF Answer, TypeOK, Waiting
<1>. QED  BY <1>4, <1>5, <1>6, <1>7, <1>8, <1>9, <1>10 DEF Next, vars

\* A content that is speech or results leaves the history one of both.
LEMMA ShapedMore ==
    ASSUME NEW h \in Seq(Content), NEW c \in Content, NEW r, NEW openai, ShapedBy(h, r, openai),
           Speech(c, openai) \/ ResultsBy(c, r)
    PROVE  ShapedBy(Append(h, c), r, openai)
<1>1. /\ DOMAIN Append(h, c) = DOMAIN h \cup {Len(h) + 1} /\ Append(h, c)[Len(h) + 1] = c
      /\ \A k \in DOMAIN h : Append(h, c)[k] = h[k]
  BY AppendFacts
<1>. QED  BY <1>1 DEF ShapedBy

\* A content with IDs and names of the runner leaves the history such.
LEMMA NumberedMore ==
    ASSUME NEW h \in Seq(Content), NEW c \in Content, NEW r, NumberedBy(h, r),
           \A a \in DOMAIN c.parts : c.parts[a].kind # "text" => KeyedBy(c.parts[a], r)
    PROVE  NumberedBy(Append(h, c), r)
<1>1. /\ DOMAIN Append(h, c) = DOMAIN h \cup {Len(h) + 1} /\ Append(h, c)[Len(h) + 1] = c
      /\ \A k \in DOMAIN h : Append(h, c)[k] = h[k]
  BY AppendFacts
<1>. QED  BY <1>1 DEF NumberedBy

\* The prompt stays the only content of the system.
LEMMA PromptedMore ==
    ASSUME TypeOK, Prompted, NEW c \in Content, c.role # "system",
           history' = Append(history, c), runner' = runner
    PROVE  Prompted'
<1>1. /\ DOMAIN history' = DOMAIN history \cup {Len(history) + 1}
      /\ history'[Len(history) + 1] = c
      /\ \A k \in DOMAIN history : history'[k] = history[k]
  BY AppendFacts DEF TypeOK
<1>. QED  BY <1>1 DEF Prompted

\* Before the process serves, the history is at most the prompt.
LEMMA OpeningFacts ==
    ASSUME NEW h, h = <<Prompt>> \/ h = <<>>, NEW r, NEW openai, NEW lossy
    PROVE  /\ ShapedBy(h, r, openai) /\ NumberedBy(h, r) /\ Answered(h, {}, r)
           /\ Heard(h, <<>>, 0, lossy)
<1>1. /\ \A i \in DOMAIN h : h[i] = Prompt
      /\ DOMAIN Prompt.parts = {1} /\ Prompt.parts[1] = Text(0) /\ Prompt.role = "system"
      /\ Text(0).kind = "text"
  <2>1. \A i \in DOMAIN h : h[i] = Prompt
    OBVIOUS
  <2>2. Prompt.parts = <<Text(0)>> /\ Prompt.role = "system" /\ Text(0).kind = "text"
    BY DEF Prompt, Text
  <2>3. DOMAIN <<Text(0)>> = {1} /\ <<Text(0)>>[1] = Text(0)
    OBVIOUS
  <2>. QED  BY <2>1, <2>2, <2>3
<1>2. Calls(Prompt) = {} /\ ~Results(Prompt) /\ Own(Prompt) = {}
  BY <1>1 DEF Calls, At, Results, Own
<1>3. ShapedBy(h, r, openai) /\ NumberedBy(h, r)
  BY <1>1, <1>2 DEF ShapedBy, Speech, NumberedBy
<1>4. \A i \in DOMAIN h : Calls(h[i]) = {} /\ ~Results(h[i]) /\ Own(h[i]) = {}
  BY <1>1, <1>2
<1>5. \A i \in DOMAIN h : \A a \in DOMAIN h[i].parts : h[i].parts[a].kind # "result"
  BY <1>1
<1>6. Answered(h, {}, r)
  BY <1>4, <1>5 DEF Answered, HaveCalls, AnswerCalls, HaveResults, OneResult, Together
<1>7. Heard(h, <<>>, 0, lossy)
  <2>1. 1..0 = {}
    OBVIOUS
  <2>. QED  BY <1>4, <2>1 DEF Heard
<1>. QED  BY <1>3, <1>6, <1>7

\* At the opening TalkInv holds whatever the models are.
Opening == /\ turn = "user" /\ said = <<>> /\ held = <<>> /\ due = <<>>
           /\ history = IF runner.prompt = "content" THEN <<Prompt>> ELSE <<>>

\* What holds before the process serves gives the invariant.
LEMMA OpeningInv == Opening => TalkInv
<1>. SUFFICES ASSUME Opening PROVE TalkInv
  OBVIOUS
<1>. USE DEF Opening
<1>1. Now = 0 /\ Open = {}
  BY DEF Now, Open
<1>2. Prompted
  BY DEF Prompted, Prompt
<1>3. Phases
  BY DEF Phases
<1>4. Kept
  BY <1>1 DEF Kept, HeldFrom, DueOf
<1>5. history = <<Prompt>> \/ history = <<>>
  OBVIOUS
<1>. QED  BY <1>1, <1>2, <1>3, <1>4, <1>5, OpeningFacts DEF TalkInv

\* Nothing happens to the conversation, nor to what it depends on.
LEMMA UnchangedKeeps ==
    ASSUME IInv, UNCHANGED <<runner, streaming, history, said, sent, requests, turn, held, due>>,
           UNCHANGED <<setup, registry, stage>>
    PROVE  TalkInv'
<1>1. /\ Default' = Default /\ OfOpenAI' = OfOpenAI /\ Lossy' = Lossy
  BY Frames
<1>2. Now' = Now /\ Open' = Open
  BY DEF Now, Open
<1>3. Request(Default, history)' = Request(Default, history)
  BY <1>1 DEF Request, HasPrompt, Tuning, GeminiTuning
<1>4. Phases'
  BY <1>1, <1>2, <1>3 DEF IInv, TalkInv, Phases
<1>5. Prompted'
  BY DEF IInv, TalkInv, Prompted
<1>6. Kept'
  <2>1. Kept
    BY DEF IInv, TalkInv
  <2>2. (\A a \in DOMAIN held : KeptBack(held[a]))'
    BY <2>1 DEF Kept, KeptBack
  <2>. QED  BY <1>1, <1>2, <2>1, <2>2 DEF Kept
<1>7. (Open # {} => Pending(history, due, runner))'
  BY <1>2 DEF IInv, TalkInv, Pending
<1>. QED  BY <1>1, <1>2, <1>4, <1>5, <1>6, <1>7 DEF IInv, TalkInv

\* The steps of the models.
LEMMA ModelsKeepTalk ==
    ASSUME IInv, ModelsNext, UNCHANGED talk
    PROVE  TalkInv'
<1>1. UNCHANGED <<runner, streaming, history, said, sent, requests, turn, held, due>>
  BY DEF talk
<1>2. setup' = setup /\ (stage = "serving" => UNCHANGED <<stage, registry>>)
  BY ModelsSteps DEF IInv, TypeOK
<1>3. CASE stage = "serving"
  BY <1>1, <1>2, <1>3, UnchangedKeeps
<1>4. CASE stage # "serving"
  <2>1. Opening'
    BY <1>1, <1>4 DEF IInv, TalkInv, Phases, Opening
  <2>. QED  BY <2>1, OpeningInv, PTL
<1>. QED  BY <1>3, <1>4

\* What TypeOK and Kept say of the lengths, and the assumption of the runner.
LEMMA TalkFacts ==
    ASSUME IInv
    PROVE  /\ history \in Seq(Content) /\ held \in Seq(Part) /\ due \in Seq(Part)
           /\ said \in Seq([by : {"user", "model"}, kind : {"text", "call"}])
           /\ Len(said) \in Nat /\ Len(held) \in Nat /\ Now \in Nat
           /\ Len(said) = Now + Len(held) /\ DOMAIN held = 1..Len(held)
           /\ held = <<>> => Now = Len(said)
           /\ held # <<>> => Open = {}
           /\ held = <<>> => Open = {due[x].n : x \in DOMAIN due}
           /\ due = <<>> => Open = {}
           /\ runner.role \in {"user", "model", "tool"}
<1>1. /\ history \in Seq(Content) /\ held \in Seq(Part) /\ due \in Seq(Part)
      /\ said \in Seq([by : {"user", "model"}, kind : {"text", "call"}])
      /\ Now \in Nat /\ runner \in Runners
  BY DEF IInv, TypeOK, TalkInv, Kept
<1>2. Len(said) \in Nat /\ Len(held) \in Nat /\ DOMAIN held = 1..Len(held)
  BY <1>1
<1>3. Len(said) = Now + Len(held)
  BY <1>1, <1>2 DEF Now
<1>4. held = <<>> => Now = Len(said)
  <2>1. held = <<>> => Len(held) = 0
    BY <1>1
  <2>. QED  BY <1>1, <1>2, <1>3, <2>1
<1>5. runner.role \in {"user", "model", "tool"}
  BY <1>1, ConversationAssumption DEF Roles
<1>. QED  BY <1>1, <1>2, <1>3, <1>4, <1>5 DEF Open

\* Saying more leaves out no other text, unless a call follows a text.
LEMMA SkippedMore ==
    ASSUME NEW S, NEW s \in Seq(S), NEW e \in S, NEW lossy, NEW n \in 1..Len(s),
           (lossy /\ n = Len(s) /\ e.kind = "call") => s[n] # [by |-> "model", kind |-> "text"]
    PROVE  /\ Append(s, e)[n] = s[n]
           /\ Skipped(Append(s, e), n, lossy) <=> Skipped(s, n, lossy)
<1>. DEFINE t == Append(s, e)
<1>1. /\ Len(s) \in Nat /\ Len(t) = Len(s) + 1 /\ t[Len(s) + 1] = e
      /\ \A k \in 1..Len(s) : t[k] = s[k]
  OBVIOUS
<1>. HIDE DEF t
<1>2. CASE n < Len(s)
  <2>1. n + 1 \in 1..Len(s) /\ n < Len(t)
    BY <1>1, <1>2
  <2>2. t[n] = s[n] /\ t[n + 1] = s[n + 1]
    BY <1>1, <2>1
  <2>. QED  BY <1>2, <2>1, <2>2 DEF Skipped, t
<1>3. CASE n = Len(s)
  <2>1. n < Len(t) /\ ~(n < Len(s)) /\ t[n] = s[n] /\ t[n + 1] = e
    BY <1>1, <1>3
  <2>. QED  BY <1>3, <2>1 DEF Skipped, t
<1>. QED  BY <1>1, <1>2, <1>3

\* A content for which nobody has to run anything.
LEMMA NoCallsMore ==
    ASSUME NEW h \in Seq(Content), NEW c \in Content, NEW r, Answered(h, {}, r),
           \A a \in DOMAIN c.parts : c.parts[a].kind = "text"
    PROVE  Answered(Append(h, c), {}, r)
<1>1. \A a \in DOMAIN c.parts : c.parts[a].kind # "result"
  OBVIOUS
<1>2. \A a \in Calls(c) : c.parts[a].n \in {}
  BY DEF Calls, At
<1>3. \A j \in DOMAIN h : \A b \in DOMAIN h[j].parts :
         h[j].parts[b].kind = "result" => h[j].parts[b].n \notin {}
  OBVIOUS
<1>. QED  BY <1>1, <1>2, <1>3, SpeechAppended

\* The user says something.
LEMMA UserSaysKeeps ==
    ASSUME IInv, UserSays
    PROVE  TalkInv'
<1>. DEFINE n == Len(said) + 1
            c == Said("user", n)
            e == [by |-> "user", kind |-> "text"]
            S == [by : {"user", "model"}, kind : {"text", "call"}]
<1>1. /\ stage = "serving" /\ turn = "user" /\ due = <<>> /\ turn' = "model"
      /\ history' = Append(history, c) /\ said' = Append(said, e)
      /\ UNCHANGED <<modelVars, runner, streaming, sent, requests, held, due>>
  BY DEF UserSays
<1>2. /\ UNCHANGED <<setup, registry, stage>>
  BY <1>1 DEF modelVars
<1>3. Default' = Default /\ OfOpenAI' = OfOpenAI /\ Lossy' = Lossy
  BY <1>1, <1>2, Frames
<1>4. held = <<>> /\ Open = {} /\ Now = Len(said) /\ n \in Nat /\ Now \in Nat
  BY <1>1, TalkFacts DEF IInv, TalkInv, Phases
<1>5. /\ c \in Content /\ c.role = "user" /\ DOMAIN c.parts = {1}
      /\ c.parts[1].kind = "text" /\ c.parts[1].n = n
  <2>1. Text(n) \in Part /\ Text(n).kind = "text" /\ Text(n).n = n
    BY <1>4 DEF Text, Part
  <2>2. <<Text(n)>> \in Seq(Part) /\ DOMAIN <<Text(n)>> = {1} /\ <<Text(n)>>[1] = Text(n)
    BY <2>1
  <2>3. c.parts = <<Text(n)>> /\ c.role = "user" /\ c \in Content
    BY <2>2 DEF Said, Content, Roles
  <2>. QED  BY <2>1, <2>2, <2>3
<1>6. said \in Seq(S) /\ e \in S /\ history \in Seq(Content)
  BY TalkFacts
<1>7. Len(said') = n /\ said'[n] = e /\ \A k \in 1..Len(said) : said'[k] = said[k]
  <2>. HIDE DEF S, e
  <2>. QED  BY <1>1, <1>6
<1>. HIDE DEF c, S
<1>8. Now' = n /\ Open' = {}
  <2>1. Len(held) = 0
    BY <1>4
  <2>. QED  BY <1>1, <1>4, <1>7, <2>1 DEF Now, Open
<1>9. Phases'
  <2>1. said'[Now'] # [by |-> "model", kind |-> "text"]
    BY <1>7, <1>8
  <2>. QED  BY <1>1, <1>2, <1>4, <2>1 DEF Phases
<1>10. Prompted'
  <2>1. TypeOK /\ Prompted /\ runner' = runner
    BY <1>1 DEF IInv, TalkInv
  <2>. QED  BY <1>1, <1>5, <2>1, PromptedMore
<1>11. Kept'
  BY <1>1, <1>4, <1>8 DEF Kept, HeldFrom, DueOf
<1>12. ShapedBy(history', runner, OfOpenAI) /\ NumberedBy(history', runner)
  <2>1. Speech(c, OfOpenAI)
    BY <1>5 DEF Speech, Calls, At
  <2>2. \A a \in DOMAIN c.parts : c.parts[a].kind # "text" => KeyedBy(c.parts[a], runner)
    BY <1>5
  <2>. QED  BY <1>1, <1>5, <1>6, <2>1, <2>2, ShapedMore, NumberedMore DEF IInv, TalkInv
<1>13. Answered(history', {}, runner)
  <2>1. Answered(history, {}, runner) /\ \A a \in DOMAIN c.parts : c.parts[a].kind = "text"
    BY <1>4, <1>5 DEF IInv, TalkInv
  <2>. QED  BY <1>1, <1>5, <1>6, <2>1, NoCallsMore
<1>14. Heard(history', said', n, Lossy)
  <2>1. Heard(history, said, Now, Lossy)
    BY DEF IInv, TalkInv
  <2>2. \A k \in 1..Now : said'[k] = said[k] /\ (Skipped(said', k, Lossy) <=> Skipped(said, k, Lossy))
    <3>1. e.kind # "call"
      OBVIOUS
    <3>. HIDE DEF e
    <3>. QED  BY <1>1, <1>4, <1>6, <3>1, SkippedMore
  <2>3. Heard(history, said', Now, Lossy)
    BY <1>4, <2>1, <2>2, HeardMore
  <2>4. ~Skipped(said', n, Lossy)
    BY <1>7 DEF Skipped
  <2>5. /\ Now <= n /\ c.role # "system" /\ (Now + 1)..n = {n}
    BY <1>4, <1>5
  <2>6. \A a \in DOMAIN c.parts :
           /\ c.parts[a].kind # "result"
           /\ c.parts[a].n \in (Now + 1)..n /\ ~Skipped(said', c.parts[a].n, Lossy)
           /\ said'[c.parts[a].n] = [by |-> c.role, kind |-> c.parts[a].kind]
    BY <1>5, <1>7, <2>4, <2>5
  <2>7. /\ \A a, b \in DOMAIN c.parts : a < b => c.parts[a].n < c.parts[b].n
        /\ \A k \in (Now + 1)..n : Skipped(said', k, Lossy) \/ \E a \in DOMAIN c.parts : c.parts[a].n = k
    BY <1>5, <2>5
  <2>8. Heard(Append(history, c), said', n, Lossy)
    BY <1>4, <1>5, <1>6, <2>3, <2>5, <2>6, <2>7, MoreHeard
  <2>. QED  BY <1>1, <2>8
<1>. QED
  BY <1>1, <1>3, <1>8, <1>9, <1>10, <1>11, <1>12, <1>13, <1>14 DEF TalkInv

\* The runner asks the model.
LEMMA GenerateContentKeeps ==
    ASSUME IInv, GenerateContent
    PROVE  TalkInv'
<1>1. /\ turn = "model" /\ due = <<>> /\ sent' = Request(Default, history) /\ turn' = "waiting"
      /\ UNCHANGED <<modelVars, runner, streaming, history, said, held, due>>
  BY DEF GenerateContent
<1>2. UNCHANGED <<setup, registry, stage>>
  BY <1>1 DEF modelVars
<1>3. /\ Default' = Default /\ OfOpenAI' = OfOpenAI /\ Lossy' = Lossy
      /\ \A m, h : Request(m, h)' = Request(m, h)
  BY <1>1, <1>2, Frames
<1>4. held = <<>> /\ stage = "serving"
  BY <1>1 DEF IInv, TalkInv, Phases
<1>5. Now' = Now /\ Open' = Open
  BY <1>1 DEF Now, Open
<1>6. Phases'
  <2>1. Request(Default, history)' = Request(Default, history)
    BY <1>1, <1>3 DEF Request, HasPrompt, Tuning, GeminiTuning
  <2>2. sent'.provider = Default.provider
    BY <1>1 DEF Request
  <2>3. Lossy /\ Now > 0 => said[Now] # [by |-> "model", kind |-> "text"]
    BY <1>1 DEF IInv, TalkInv, Phases
  <2>. QED  BY <1>1, <1>2, <1>3, <1>4, <1>5, <2>1, <2>2, <2>3 DEF Phases
<1>7. Prompted'
  BY <1>1 DEF IInv, TalkInv, Prompted
<1>8. Kept'
  <2>1. Kept
    BY DEF IInv, TalkInv
  <2>2. (\A a \in DOMAIN held : KeptBack(held[a]))'
    BY <1>1, <1>4
  <2>. QED  BY <1>1, <1>3, <1>5, <2>1, <2>2 DEF Kept
<1>9. (Open # {} => Pending(history, due, runner))'
  BY <1>1, <1>5 DEF IInv, TalkInv, Pending
<1>. QED  BY <1>1, <1>3, <1>5, <1>6, <1>7, <1>8, <1>9 DEF IInv, TalkInv

\* One more item is kept.
LEMMA HeldMore ==
    ASSUME NEW S, NEW s \in Seq(S), NEW q \in Seq(Part), NEW m \in Nat, Len(s) = m + Len(q),
           NEW openai, HeldFrom(q, m, s, openai), NEW p \in Part, p.n = Len(s) + 1, p.id = 0,
           p.kind = "text" \/ (p.kind = "call" /\ p.tool \in Tools),
           [by |-> "model", kind |-> p.kind] \in S,
           openai => q = <<>> \/ p.kind = "call"
    PROVE  HeldFrom(Append(q, p), m, Append(s, [by |-> "model", kind |-> p.kind]), openai)
<1>. DEFINE e == [by |-> "model", kind |-> p.kind]
            q2 == Append(q, p)
            t == Append(s, e)
<1>1. /\ DOMAIN q2 = DOMAIN q \cup {Len(q) + 1} /\ q2[Len(q) + 1] = p /\ Len(q) \in Nat
      /\ \A a \in DOMAIN q : a \in Nat /\ a < Len(q) + 1 /\ 1 <= a /\ q2[a] = q[a]
  BY AppendFacts
<1>2. t[Len(s) + 1] = e /\ Len(s) \in Nat /\ \A k \in 1..Len(s) : t[k] = s[k]
  <2>1. e \in S
    OBVIOUS
  <2>. HIDE DEF e
  <2>. QED  BY <2>1, AppendFacts
<1>3. q = <<>> => Len(q) = 0
  OBVIOUS
<1>. HIDE DEF q2, t
<1>4. ASSUME NEW a \in DOMAIN q2
      PROVE  /\ q2[a].n = m + a /\ q2[a].id = 0
             /\ t[q2[a].n] = [by |-> "model", kind |-> q2[a].kind]
             /\ q2[a].kind = "text" \/ (q2[a].kind = "call" /\ q2[a].tool \in Tools)
             /\ openai => a = 1 \/ q2[a].kind = "call"
  <2>1. CASE a \in DOMAIN q
    <3>1. m + a \in 1..Len(s)
      BY <1>1, <2>1
    <3>. QED  BY <1>1, <1>2, <2>1, <3>1 DEF HeldFrom
  <2>2. CASE a = Len(q) + 1
    <3>1. m + a = Len(s) + 1
      BY <1>1, <2>2
    <3>2. q = <<>> => a = 1
      BY <1>3, <2>2
    <3>. QED  BY <1>1, <1>2, <2>2, <3>1, <3>2
  <2>. QED  BY <1>1, <2>1, <2>2
<1>. QED  BY <1>4 DEF HeldFrom, q2, t

\* One more item is kept, with a call that is due from now on.
LEMMA DueMore ==
    ASSUME NEW d \in Seq(Part), NEW q \in Seq(Part), NEW m \in Nat, DueOf(d, q, m),
           q = <<>> => d = <<>>, NEW p \in Part, p.n = m + 1, p.id = 0,
           p.kind = "text" \/ (p.kind = "call" /\ p.tool \in Tools)
    PROVE  DueOf(IF p.kind = "call" THEN Append(d, p) ELSE d, Append(q, p), m + 1)
<1>. DEFINE d2 == IF p.kind = "call" THEN Append(d, p) ELSE d
            q2 == Append(q, p)
<1>1. /\ DOMAIN q2 = DOMAIN q \cup {Len(q) + 1} /\ q2[Len(q) + 1] = p
      /\ \A a \in DOMAIN q : q2[a] = q[a]
  BY AppendFacts
<1>2. /\ d2 = d /\ p.kind = "text"
      \/ /\ DOMAIN d2 = DOMAIN d \cup {Len(d) + 1} /\ d2[Len(d) + 1] = p /\ Len(d) \in Nat
         /\ \A x \in DOMAIN d : x \in Nat /\ x < Len(d) + 1 /\ d2[x] = d[x]
         /\ p.kind = "call"
  BY AppendFacts
<1>3. q = <<>> => DOMAIN q = {} /\ DOMAIN d = {}
  OBVIOUS
<1>. HIDE DEF d2, q2
<1>4. {d[x] : x \in DOMAIN d} = {q[a] : a \in At(q, "call")}
  BY <1>3 DEF DueOf, At
<1>5. {d2[x] : x \in DOMAIN d2} = {d[x] : x \in DOMAIN d} \cup (IF p.kind = "call" THEN {p} ELSE {})
  BY <1>2
<1>6. {q2[a] : a \in At(q2, "call")}
         = {q[a] : a \in At(q, "call")} \cup (IF p.kind = "call" THEN {p} ELSE {})
  <2>1. \A a \in DOMAIN q : a \in At(q2, "call") <=> a \in At(q, "call")
    BY <1>1 DEF At
  <2>2. Len(q) + 1 \in At(q2, "call") <=> p.kind = "call"
    BY <1>1 DEF At
  <2>3. At(q2, "call") \subseteq DOMAIN q2 /\ At(q, "call") \subseteq DOMAIN q
    BY DEF At
  <2>. QED  BY <1>1, <2>1, <2>2, <2>3
<1>7. /\ \A x \in DOMAIN d2 : /\ d2[x].kind = "call" /\ d2[x].tool \in Tools
                              /\ d2[x].id = 0 /\ d2[x].n \in 1..(m + 1)
      /\ \A x, y \in DOMAIN d2 : x < y => d2[x].n < d2[y].n
  <2>1. /\ \A x \in DOMAIN d : /\ d[x].kind = "call" /\ d[x].tool \in Tools
                               /\ d[x].id = 0 /\ d[x].n \in 1..m
        /\ \A x, y \in DOMAIN d : x < y => d[x].n < d[y].n
    BY DEF DueOf
  <2>2. CASE d2 = d
    <3>1. \A x \in DOMAIN d : d[x].n \in 1..(m + 1)
      BY <2>1
    <3>. QED  BY <2>1, <2>2, <3>1
  <2>3. CASE d2 # d
    <3>1. /\ DOMAIN d2 = DOMAIN d \cup {Len(d) + 1} /\ d2[Len(d) + 1] = p
          /\ \A x \in DOMAIN d : x \in Nat /\ x < Len(d) + 1 /\ d2[x] = d[x]
          /\ Len(d) \in Nat /\ p.kind = "call" /\ p.tool \in Tools
      BY <1>2, <2>3
    <3>2. \A x \in DOMAIN d : d2[x].n \in 1..m
      BY <2>1, <3>1
    <3>3. d2[Len(d) + 1].n = m + 1
      BY <3>1
    <3>4. \A x, y \in DOMAIN d2 : x < y => x \in DOMAIN d
      BY <3>1
    <3>5. \A x, y \in DOMAIN d2 : x < y => d2[x].n < d2[y].n
      <4>. SUFFICES ASSUME NEW x \in DOMAIN d2, NEW y \in DOMAIN d2, x < y
                    PROVE  d2[x].n < d2[y].n
        OBVIOUS
      <4>1. CASE y \in DOMAIN d
        BY <2>1, <3>1, <3>4, <4>1
      <4>2. CASE y = Len(d) + 1
        BY <3>2, <3>3, <3>4, <4>2
      <4>. QED  BY <3>1, <4>1, <4>2
    <3>6. \A x \in DOMAIN d2 : d2[x].n \in 1..(m + 1)
      BY <3>1, <3>2, <3>3
    <3>7. \A x \in DOMAIN d2 : d2[x].kind = "call" /\ d2[x].tool \in Tools /\ d2[x].id = 0
      BY <2>1, <3>1
    <3>. QED  BY <3>5, <3>6, <3>7
  <2>. QED  BY <2>2, <2>3
<1>8. DueOf(d2, q2, m + 1)
  BY <1>4, <1>5, <1>6, <1>7 DEF DueOf
<1>. QED  BY <1>8 DEF d2, q2

\* What is so whenever an item arrives or a reply ends: no call is open.
LEMMA ReplyingFacts ==
    ASSUME IInv, Replying
    PROVE  /\ stage = "serving" /\ turn # "user" /\ Open = {} /\ (held = <<>> => due = <<>>)
           /\ sent.provider = Default.provider
           /\ Default.provider \in {"openai", "anthropic", "gemini"}
           /\ Answered(history, {}, runner)
           /\ Lossy /\ Now > 0 => said[Now] # [by |-> "model", kind |-> "text"]
<1>1. turn \in {"waiting", "reading", "calling"} /\ (held = <<>> => due = <<>>)
  BY DEF Replying, Answering
<1>2. stage = "serving" /\ turn # "user" /\ sent.provider = Default.provider
  BY <1>1 DEF IInv, TalkInv, Phases
<1>3. Open = {}
  BY <1>1, TalkFacts
<1>4. Default.provider \in {"openai", "anthropic", "gemini"}
  BY <1>2, DefaultServes DEF IInv
<1>5. Answered(history, {}, runner)
  BY <1>3 DEF IInv, TalkInv
<1>6. Lossy /\ Now > 0 => said[Now] # [by |-> "model", kind |-> "text"]
  BY <1>2 DEF IInv, TalkInv, Phases
<1>. QED  BY <1>1, <1>2, <1>3, <1>4, <1>5, <1>6

\* An item arrives that the provider keeps.
LEMMA KeptItemKeeps ==
    ASSUME IInv, NEW item \in Item, Arrives(item), KeptBack(item)
    PROVE  TalkInv'
<1>. DEFINE p == NewPart(item, Len(said) + 1)
            e == [by |-> "model", kind |-> item.kind]
            S == [by : {"user", "model"}, kind : {"text", "call"}]
<1>1. /\ Replying /\ ((sent.provider = "openai" /\ item.kind = "text") => turn = "waiting")
      /\ said' = Append(said, e) /\ held' = Append(held, p) /\ history' = history
      /\ turn' = IF item.kind = "call" \/ turn = "calling" THEN "calling" ELSE "reading"
      /\ due' = IF item.kind = "call" THEN Append(due, p) ELSE due
      /\ UNCHANGED <<modelVars, runner, streaming, sent, requests>>
  BY DEF Arrives
<1>2. UNCHANGED <<setup, registry, stage>>
  BY <1>1 DEF modelVars
<1>3. Default' = Default /\ OfOpenAI' = OfOpenAI /\ Lossy' = Lossy
  BY <1>1, <1>2, Frames
<1>4. /\ stage = "serving" /\ turn # "user" /\ Open = {} /\ (held = <<>> => due = <<>>)
      /\ sent.provider = Default.provider
      /\ Answered(history, {}, runner)
      /\ Lossy /\ Now > 0 => said[Now] # [by |-> "model", kind |-> "text"]
  BY <1>1, ReplyingFacts
<1>5. /\ history \in Seq(Content) /\ held \in Seq(Part) /\ due \in Seq(Part) /\ said \in Seq(S)
      /\ Len(said) \in Nat /\ Len(held) \in Nat /\ Now \in Nat /\ Len(said) = Now + Len(held)
  BY TalkFacts
<1>6. /\ p \in Part /\ p.kind = item.kind /\ p.n = Len(said) + 1 /\ p.id = 0
      /\ item.kind = "text" \/ (item.kind = "call" /\ p.tool \in Tools)
  <2>1. Len(said) + 1 \in Nat
    BY <1>5
  <2>. QED  BY <2>1, PartTypes
<1>7. e \in S
  BY <1>6
<1>. HIDE DEF p, S
<1>8. Len(said') = Len(said) + 1 /\ \A k \in 1..Len(said) : said'[k] = said[k]
  <2>. HIDE DEF e
  <2>. QED  BY <1>1, <1>5, <1>7
<1>9. /\ Len(held') = Len(held) + 1 /\ held' # <<>> /\ held'[Len(held')] = p
      /\ DOMAIN held' = DOMAIN held \cup {Len(held) + 1}
      /\ \A a \in DOMAIN held : held'[a] = held[a]
  <2>1. /\ held' \in Seq(Part) /\ Len(held') = Len(held) + 1 /\ held'[Len(held) + 1] = p
        /\ DOMAIN held' = DOMAIN held \cup {Len(held) + 1}
        /\ \A a \in DOMAIN held : held'[a] = held[a]
    BY <1>1, <1>5, <1>6, AppendFacts
  <2>2. held' # <<>>
    BY <1>5, <2>1
  <2>. QED  BY <2>1, <2>2
<1>10. Now' = Now /\ Open' = {}
  BY <1>5, <1>8, <1>9 DEF Now, Open
<1>11. OfOpenAI /\ item.kind = "text" => turn = "waiting" /\ held = <<>>
  <2>1. turn = "waiting" => held = <<>>
    BY DEF IInv, TalkInv, Phases
  <2>. QED  BY <1>1, <1>4, <2>1 DEF OfOpenAI
<1>12. Phases'
  <2>1. turn' \in {"reading", "calling"}
    BY <1>1
  <2>2. turn' = "reading" => due' = <<>>
    <3>1. turn \in {"waiting", "reading"} => due = <<>>
      BY DEF IInv, TalkInv, Phases
    <3>2. turn \in {"waiting", "reading", "calling"}
      BY <1>1 DEF Replying
    <3>. QED  BY <1>1, <1>6, <3>1, <3>2
  <2>3. Lossy' /\ Now' > 0 => said'[Now'] # [by |-> "model", kind |-> "text"]
    <3>1. Now > 0 => said'[Now] = said[Now]
      BY <1>5, <1>8
    <3>. QED  BY <1>3, <1>4, <1>10, <3>1
  <2>. QED  BY <1>1, <1>2, <1>3, <1>4, <2>1, <2>2, <2>3 DEF Phases
<1>13. Prompted'
  BY <1>1 DEF IInv, TalkInv, Prompted
<1>14. Kept'
  <2>1. HeldFrom(held', Now, said', OfOpenAI)
    <3>1. HeldFrom(held, Now, said, OfOpenAI)
      BY DEF IInv, TalkInv, Kept
    <3>2. [by |-> "model", kind |-> p.kind] \in S /\ (OfOpenAI => held = <<>> \/ p.kind = "call")
      BY <1>6, <1>7, <1>11
    <3>. QED  BY <1>1, <1>5, <1>6, <3>1, <3>2, HeldMore
  <2>2. DueOf(due', held', Len(said'))
    <3>1. DueOf(due, held, Len(said))
      BY DEF IInv, TalkInv, Kept
    <3>. QED  BY <1>1, <1>4, <1>5, <1>6, <1>8, <3>1, DueMore
  <2>3. (\A a \in DOMAIN held : KeptBack(held[a]))'
    <3>1. (\A a \in DOMAIN held : KeptBack(held[a])) /\ KeptBack(p)
      BY <1>6 DEF IInv, TalkInv, Kept, KeptBack
    <3>. QED  BY <1>1, <1>5, <1>9, <3>1 DEF KeptBack
  <2>4. (turn' = "calling" /\ Lossy') => held'[Len(held')].kind = "call"
    BY <1>1, <1>3, <1>6, <1>9, <1>11 DEF Lossy
  <2>. QED  BY <1>3, <1>5, <1>9, <1>10, <2>1, <2>2, <2>3, <2>4 DEF Kept
<1>15. Heard(history, said', Now, Lossy)
  <2>1. Heard(history, said, Now, Lossy)
    BY DEF IInv, TalkInv
  <2>2. ASSUME NEW n \in 1..Now
        PROVE  said'[n] = said[n] /\ (Skipped(said', n, Lossy) <=> Skipped(said, n, Lossy))
    <3>1. n \in 1..Len(said)
      BY <1>5
    <3>2. (Lossy /\ n = Len(said) /\ e.kind = "call") => said[n] # [by |-> "model", kind |-> "text"]
      <4>1. n = Len(said) => n = Now /\ Now > 0
        BY <1>5
      <4>. QED  BY <1>4, <4>1
    <3>. HIDE DEF e
    <3>. QED  BY <1>1, <1>5, <1>7, <3>1, <3>2, SkippedMore
  <2>. QED  BY <1>5, <2>1, <2>2, HeardMore
<1>16. ShapedBy(history, runner, OfOpenAI) /\ NumberedBy(history, runner)
  BY DEF IInv, TalkInv
<1>. QED
  BY <1>1, <1>3, <1>4, <1>10, <1>12, <1>13, <1>14, <1>15, <1>16 DEF TalkInv

\* An item arrives that the provider yields, as a content of its own.
LEMMA YieldedItemKeeps ==
    ASSUME IInv, NEW item \in Item, Arrives(item), ~KeptBack(item)
    PROVE  TalkInv'
<1>. DEFINE n == Len(said) + 1
            p == NewPart(item, n)
            c == ModelContent(<<p>>)
            e == [by |-> "model", kind |-> item.kind]
            S == [by : {"user", "model"}, kind : {"text", "call"}]
<1>1. /\ Replying /\ ((sent.provider = "openai" /\ item.kind = "text") => turn = "waiting")
      /\ said' = Append(said, e) /\ history' = Append(history, c) /\ held' = held
      /\ turn' = IF item.kind = "call" \/ turn = "calling" THEN "calling" ELSE "reading"
      /\ due' = IF item.kind = "call" THEN Append(due, p) ELSE due
      /\ UNCHANGED <<modelVars, runner, streaming, sent, requests>>
  BY DEF Arrives
<1>2. UNCHANGED <<setup, registry, stage>>
  BY <1>1 DEF modelVars
<1>3. Default' = Default /\ OfOpenAI' = OfOpenAI /\ Lossy' = Lossy
  BY <1>1, <1>2, Frames
<1>4. /\ stage = "serving" /\ turn # "user" /\ Open = {} /\ (held = <<>> => due = <<>>)
      /\ sent.provider = Default.provider
      /\ Answered(history, {}, runner)
  BY <1>1, ReplyingFacts
<1>5. /\ history \in Seq(Content) /\ held \in Seq(Part) /\ due \in Seq(Part) /\ said \in Seq(S)
      /\ Len(said) \in Nat /\ Len(held) \in Nat /\ Now \in Nat /\ DOMAIN held = 1..Len(held)
      /\ held = <<>> => Now = Len(said)
  BY TalkFacts
<1>6. /\ p \in Part /\ p.kind = item.kind /\ p.n = n /\ p.id = 0 /\ n \in Nat
      /\ item.kind = "text" \/ (item.kind = "call" /\ p.tool \in Tools)
  <2>1. n \in Nat
    BY <1>5
  <2>. QED  BY <2>1, PartTypes
<1>7. e \in S
  BY <1>6
<1>8. ~Lossy /\ held = <<>> /\ due = <<>>
  <2>1. /\ streaming /\ sent.provider # "gemini"
        /\ sent.provider = "openai" => item.kind = "text" /\ turn = "waiting"
    BY <1>1, <1>6 DEF KeptBack
  <2>2. turn = "waiting" => held = <<>>
    BY DEF IInv, TalkInv, Phases
  <2>3. sent.provider # "openai" => held = <<>>
    <3>1. \A a \in DOMAIN held : KeptBack(held[a])
      BY DEF IInv, TalkInv, Kept
    <3>2. sent.provider # "openai" => DOMAIN held = {}
      BY <2>1, <3>1 DEF KeptBack
    <3>3. held # <<>> => 1 \in DOMAIN held
      BY <1>5
    <3>. QED  BY <3>2, <3>3
  <2>. QED  BY <1>4, <2>1, <2>2, <2>3 DEF Lossy
<1>9. /\ c \in Content /\ c.role = "model" /\ DOMAIN c.parts = {1}
      /\ c.parts[1].kind = item.kind /\ c.parts[1].n = n /\ c.parts[1].tool = p.tool
      /\ c.parts[1].id = (IF runner.ids /\ item.kind = "call" THEN n ELSE 0)
  <2>. DEFINE ps == <<p>>
  <2>1. ps \in Seq(Part) /\ DOMAIN ps = {1} /\ ps[1] = p
    BY <1>6
  <2>2. TypeOK
    BY DEF IInv
  <2>. HIDE DEF ps, p
  <2>3. /\ ModelContent(ps) \in Content /\ ModelContent(ps).role = "model"
        /\ DOMAIN ModelContent(ps).parts = DOMAIN ps
    BY <2>1, <2>2, ContentTypes
  <2>4. \A a \in DOMAIN ps :
           LET q == ModelContent(ps).parts[a]
           IN  /\ q.kind = ps[a].kind /\ q.tool = ps[a].tool /\ q.n = ps[a].n
               /\ q.id = (IF runner.ids /\ ps[a].kind = "call" THEN ps[a].n ELSE ps[a].id)
    BY <2>1, <2>2, ContentTypes
  <2>5. c = ModelContent(ps)
    BY DEF ps
  <2>. HIDE DEF c
  <2>. QED  BY <1>6, <2>1, <2>3, <2>4, <2>5
<1>. HIDE DEF p, c, S
<1>10. Len(said') = n /\ said'[n] = e /\ \A k \in 1..Len(said) : said'[k] = said[k]
  <2>. HIDE DEF e
  <2>. QED  BY <1>1, <1>5, <1>7
<1>11. /\ DOMAIN due' = (IF item.kind = "call" THEN {1} ELSE {})
       /\ item.kind = "call" => due'[1] = p
       /\ item.kind # "call" => due' = <<>>
  BY <1>1, <1>6, <1>8
<1>12. Now = Len(said) /\ Now' = n /\ Open' = (IF item.kind = "call" THEN {n} ELSE {})
  <2>1. Len(held) = 0 /\ held' = <<>>
    BY <1>1, <1>8
  <2>2. Now = Len(said) /\ Now' = n
    BY <1>1, <1>5, <1>8, <1>10, <2>1 DEF Now
  <2>. QED  BY <1>6, <1>11, <2>1, <2>2 DEF Open
<1>13. Phases'
  <2>1. turn' \in {"reading", "calling"}
    BY <1>1
  <2>2. turn' = "reading" => due' = <<>>
    BY <1>1, <1>11
  <2>. QED  BY <1>1, <1>2, <1>3, <1>4, <1>8, <2>1, <2>2 DEF Phases
<1>14. Prompted'
  <2>1. TypeOK /\ Prompted /\ runner' = runner /\ c.role # "system"
    BY <1>1, <1>9 DEF IInv, TalkInv
  <2>. QED  BY <1>1, <1>9, <2>1, PromptedMore
<1>15. Kept'
  <2>1. held' = <<>> /\ DOMAIN held' = {}
    BY <1>1, <1>8
  <2>2. HeldFrom(held', Now', said', OfOpenAI')
    BY <2>1 DEF HeldFrom
  <2>3. DueOf(due', held', Len(said'))
    <3>1. n \in 1..n
      BY <1>5
    <3>2. p.kind = "call" => p.tool \in Tools
      BY <1>6
    <3>. QED  BY <1>6, <1>10, <1>11, <2>1, <3>1, <3>2 DEF DueOf
  <2>. QED  BY <1>3, <1>6, <1>8, <1>12, <2>1, <2>2, <2>3 DEF Kept
<1>16. ShapedBy(history', runner, OfOpenAI) /\ NumberedBy(history', runner)
  <2>1. Speech(c, OfOpenAI)
    BY <1>6, <1>9 DEF Speech, Calls, At
  <2>2. n \in Nat \ {0}
    BY <1>5
  <2>3. \A a \in DOMAIN c.parts : c.parts[a].kind # "text" => KeyedBy(c.parts[a], runner)
    BY <1>6, <1>9, <2>2 DEF KeyedBy
  <2>. QED  BY <1>1, <1>5, <1>9, <2>1, <2>3, ShapedMore, NumberedMore DEF IInv, TalkInv
<1>17. Answered(history', Open', runner)
  <2>1. \A a \in DOMAIN c.parts : c.parts[a].kind # "result"
    BY <1>6, <1>9
  <2>2. \A a \in Calls(c) : c.parts[a].n \in Open'
    BY <1>9, <1>12 DEF Calls, At
  <2>3. ASSUME NEW j \in DOMAIN history, NEW b \in DOMAIN history[j].parts,
               history[j].parts[b].kind = "result"
        PROVE  history[j].parts[b].n \notin Open'
    <3>1. history[j].parts[b].n \in 1..Now
      <4>1. ShapedBy(history, runner, OfOpenAI) /\ Heard(history, said, Now, Lossy)
        BY DEF IInv, TalkInv
      <4>. QED  BY <1>4, <1>5, <2>3, <4>1, ResultsHeard
    <3>. QED  BY <1>5, <1>12, <3>1
  <2>. QED  BY <1>1, <1>4, <1>5, <1>9, <2>1, <2>2, <2>3, SpeechAppended
<1>18. Open' # {} => Pending(history', due', runner)
  <2>. SUFFICES ASSUME item.kind = "call" PROVE Pending(history', due', runner)
    BY <1>12
  <2>1. /\ DOMAIN history' = DOMAIN history \cup {Len(history) + 1} /\ Len(history) \in Nat
        /\ history'[Len(history) + 1] = c /\ Len(history') = Len(history) + 1
        /\ \A k \in DOMAIN history : k < Len(history) + 1 /\ k \in Nat
    BY <1>1, <1>5, <1>9, AppendFacts
  <2>2. 1 \in Calls(c) /\ c.parts[1].n = due'[1].n /\ c.parts[1].tool = due'[1].tool
    BY <1>6, <1>9, <1>11 DEF Calls, At
  <2>3. \A k \in DOMAIN history' : ~(Len(history) + 1 < k)
    BY <2>1
  <2>4. \A x \in DOMAIN due' : \E a \in Calls(c) : c.parts[a].n = due'[x].n
                                                    /\ c.parts[a].tool = due'[x].tool
    BY <1>11, <2>2
  <2>. QED  BY <2>1, <2>3, <2>4 DEF Pending
<1>19. Heard(history', said', n, Lossy)
  <2>1. Heard(history, said, Now, Lossy)
    BY DEF IInv, TalkInv
  <2>2. \A k \in 1..Now : said'[k] = said[k] /\ (Skipped(said', k, Lossy) <=> Skipped(said, k, Lossy))
    BY <1>8, <1>10, <1>12 DEF Skipped
  <2>3. Heard(history, said', Now, Lossy)
    BY <1>5, <2>1, <2>2, HeardMore
  <2>4. /\ Now <= n /\ c.role # "system" /\ (Now + 1)..n = {n}
        /\ \A k : ~Skipped(said', k, Lossy)
    BY <1>5, <1>8, <1>9, <1>12 DEF Skipped
  <2>5. \A a \in DOMAIN c.parts :
           /\ c.parts[a].kind # "result"
           /\ c.parts[a].n \in (Now + 1)..n /\ ~Skipped(said', c.parts[a].n, Lossy)
           /\ said'[c.parts[a].n] = [by |-> c.role, kind |-> c.parts[a].kind]
    BY <1>6, <1>9, <1>10, <2>4
  <2>6. /\ \A a, b \in DOMAIN c.parts : a < b => c.parts[a].n < c.parts[b].n
        /\ \A k \in (Now + 1)..n : Skipped(said', k, Lossy) \/ \E a \in DOMAIN c.parts : c.parts[a].n = k
    BY <1>9, <2>4
  <2>7. Heard(Append(history, c), said', n, Lossy)
    BY <1>5, <1>6, <1>9, <2>3, <2>4, <2>5, <2>6, MoreHeard
  <2>. QED  BY <1>1, <2>7
<1>. QED
  BY <1>1, <1>3, <1>12, <1>13, <1>14, <1>15, <1>16, <1>17, <1>18, <1>19 DEF TalkInv

\* What the last content of a reply is made of.
LastParts == IF sent.provider = "openai" /\ due # <<>> THEN due ELSE held

\* It has all that was kept and is not left out, and what is due of that.
LEMMA LastPartsFacts ==
    ASSUME IInv, Replying
    PROVE  /\ LastParts \in Seq(Part) /\ DOMAIN LastParts \subseteq Nat
           /\ \A a \in DOMAIN LastParts :
                 /\ LastParts[a].kind = "text" \/ (/\ LastParts[a].kind = "call"
                                                   /\ LastParts[a].tool \in Tools
                                                   /\ \E x \in DOMAIN due : due[x] = LastParts[a])
                 /\ LastParts[a].id = 0 /\ LastParts[a].n \in (Now + 1)..Len(said)
                 /\ said[LastParts[a].n] = [by |-> "model", kind |-> LastParts[a].kind]
                 /\ ~Skipped(said, LastParts[a].n, Lossy)
           /\ \A a, b \in DOMAIN LastParts : a < b => LastParts[a].n < LastParts[b].n
           /\ \A n \in (Now + 1)..Len(said) :
                 Skipped(said, n, Lossy) \/ \E a \in DOMAIN LastParts : LastParts[a].n = n
           /\ OfOpenAI => \/ \A a \in DOMAIN LastParts : LastParts[a].kind = "call"
                          \/ \A a \in DOMAIN LastParts : LastParts[a].kind = "text"
           /\ \A x \in DOMAIN due : /\ \E a \in DOMAIN LastParts : LastParts[a] = due[x]
                                    /\ due[x].kind = "call" /\ due[x].n \in (Now + 1)..Len(said)
<1>1. /\ held = <<>> => due = <<>>
      /\ sent.provider = "openai" <=> OfOpenAI
  BY ReplyingFacts DEF OfOpenAI
<1>2. /\ held \in Seq(Part) /\ due \in Seq(Part) /\ DOMAIN held = 1..Len(held)
      /\ Len(said) \in Nat /\ Len(held) \in Nat /\ Now \in Nat /\ Len(said) = Now + Len(held)
  BY TalkFacts
<1>3. /\ \A a \in DOMAIN held :
            /\ held[a].n = Now + a /\ held[a].id = 0
            /\ said[held[a].n] = [by |-> "model", kind |-> held[a].kind]
            /\ held[a].kind = "text" \/ (held[a].kind = "call" /\ held[a].tool \in Tools)
            /\ OfOpenAI => a = 1 \/ held[a].kind = "call"
      /\ \A a \in DOMAIN held : held[a].n \in (Now + 1)..Len(said)
      /\ \A n \in (Now + 1)..Len(said) : n - Now \in DOMAIN held /\ held[n - Now].n = n
  <2>1. HeldFrom(held, Now, said, OfOpenAI)
    BY DEF IInv, TalkInv, Kept
  <2>2. \A a \in DOMAIN held : Now + a \in (Now + 1)..Len(said)
    BY <1>2
  <2>3. \A n \in (Now + 1)..Len(said) : n - Now \in DOMAIN held /\ Now + (n - Now) = n
    BY <1>2
  <2>. QED  BY <2>1, <2>2, <2>3 DEF HeldFrom
<1>10. /\ \A a \in DOMAIN held : held[a].n = Now + a /\ said[held[a].n].kind = held[a].kind
       /\ \A a, b \in DOMAIN held : a < b => Now + a < Now + b
       /\ OfOpenAI => \A a \in DOMAIN held : a = 1 \/ held[a].kind = "call"
  <2>1. \A a, b \in DOMAIN held : a < b => Now + a < Now + b
    BY <1>2
  <2>2. ASSUME NEW a \in DOMAIN held
        PROVE  held[a].n = Now + a /\ said[held[a].n].kind = held[a].kind
    <3>1. said[held[a].n] = [by |-> "model", kind |-> held[a].kind]
      BY <1>3
    <3>2. said[held[a].n].kind = held[a].kind
      BY <3>1
    <3>. QED  BY <1>3, <3>2
  <2>. QED  BY <1>3, <2>1, <2>2
<1>4. /\ \A x \in DOMAIN due : due[x].kind = "call" /\ due[x].id = 0
      /\ \A x, y \in DOMAIN due : x < y => due[x].n < due[y].n
      /\ {due[x] : x \in DOMAIN due} = {held[a] : a \in At(held, "call")}
  <2>1. DueOf(due, held, Len(said))
    BY DEF IInv, TalkInv, Kept
  <2>2. due = <<>> => DOMAIN due = {}
    OBVIOUS
  <2>3. held = <<>> => At(held, "call") = {}
    BY DEF At
  <2>. QED  BY <1>1, <2>1, <2>2, <2>3 DEF DueOf
<1>5. \A x \in DOMAIN due : \E a \in DOMAIN held : held[a].kind = "call" /\ due[x] = held[a]
  BY <1>4 DEF At
<1>6. \A a \in DOMAIN held : held[a].kind = "call" => \E x \in DOMAIN due : due[x] = held[a]
  BY <1>4 DEF At
<1>7. \A x \in DOMAIN due : due[x].kind = "call" /\ due[x].n \in (Now + 1)..Len(said)
  BY <1>3, <1>4, <1>5
<1>8. CASE sent.provider = "openai" /\ due # <<>>
  <2>1. LastParts = due
    BY <1>8 DEF LastParts
  <2>2. ASSUME NEW n \in (Now + 1)..Len(said), \A x \in DOMAIN due : due[x].n # n
        PROVE  Skipped(said, n, Lossy)
    <3>1. /\ n - Now \in DOMAIN held /\ held[n - Now].n = n
          /\ held[n - Now].kind = "text" /\ n - Now = 1
      <4>1. n - Now \in DOMAIN held /\ held[n - Now].n = n
        BY <1>3
      <4>2. held[n - Now].kind # "call"
        BY <1>6, <2>2, <4>1
      <4>. QED  BY <1>1, <1>3, <1>8, <4>1, <4>2
    <3>2. said[n] = [by |-> "model", kind |-> "text"]
      BY <1>3, <3>1
    <3>3. Lossy
      <4>1. KeptBack(held[n - Now])
        BY <3>1 DEF IInv, TalkInv, Kept
      <4>. QED  BY <1>1, <1>8, <3>1, <4>1 DEF KeptBack, Lossy
    <3>4. 2 \in DOMAIN held
      <4>1. 1 \in DOMAIN due
        BY <1>2, <1>8
      <4>2. PICK a \in DOMAIN held : held[a].kind = "call"
        BY <1>5, <4>1
      <4>. QED  BY <1>2, <3>1, <4>2
    <3>5. Now + 2 = n + 1 /\ held[2].n = n + 1 /\ held[2].kind = "call" /\ n < Len(said)
      <4>1. Now + 2 = n + 1
        BY <1>2, <3>1
      <4>2. held[2].n = Now + 2 /\ held[2].kind = "call"
        BY <1>1, <1>8, <1>10, <3>4
      <4>3. Now + 2 <= Len(said) /\ n = Now + 1
        BY <1>2, <3>1, <3>4
      <4>. QED  BY <1>2, <4>1, <4>2, <4>3
    <3>6. said[n + 1].kind = "call"
      BY <1>10, <3>4, <3>5
    <3>. QED  BY <3>2, <3>3, <3>5, <3>6 DEF Skipped
  <2>3. \A x \in DOMAIN due : /\ due[x].tool \in Tools
                              /\ said[due[x].n] = [by |-> "model", kind |-> due[x].kind]
    BY <1>3, <1>5
  <2>4. \A x \in DOMAIN due : ~Skipped(said, due[x].n, Lossy)
    <3>1. \A x \in DOMAIN due : said[due[x].n].kind = "call"
      BY <1>4, <1>5, <1>10
    <3>. QED  BY <3>1 DEF Skipped
  <2>. QED  BY <1>2, <1>4, <1>7, <2>1, <2>2, <2>3, <2>4
<1>9. CASE ~(sent.provider = "openai" /\ due # <<>>)
  <2>1. LastParts = held
    BY <1>9 DEF LastParts
  <2>2. OfOpenAI => \A a \in DOMAIN held : held[a].kind = "text"
    <3>1. due = <<>> => DOMAIN due = {}
      OBVIOUS
    <3>. QED  BY <1>1, <1>3, <1>6, <1>9, <3>1
  <2>3. \A a \in DOMAIN held : ~Skipped(said, held[a].n, Lossy)
    <3>. SUFFICES ASSUME NEW a \in DOMAIN held, Skipped(said, held[a].n, Lossy) PROVE FALSE
      OBVIOUS
    <3>1. OfOpenAI /\ held[a].n < Len(said) /\ said[held[a].n + 1].kind = "call"
      BY DEF Skipped, Lossy
    <3>2. a + 1 \in DOMAIN held /\ held[a + 1].n = held[a].n + 1
      <4>1. held[a].n = Now + a
        BY <1>10
      <4>2. a + 1 \in DOMAIN held /\ a \in Nat
        BY <1>2, <3>1, <4>1
      <4>3. held[a + 1].n = Now + (a + 1)
        BY <1>10, <4>2
      <4>. QED  BY <1>2, <4>1, <4>2, <4>3
    <3>3. held[a + 1].kind = "text" /\ said[held[a + 1].n].kind = "text"
      BY <1>10, <2>2, <3>1, <3>2
    <3>. QED  BY <3>1, <3>2, <3>3
  <2>4. \A a, b \in DOMAIN held : a < b => held[a].n < held[b].n
    BY <1>10
  <2>5. \A a \in DOMAIN held :
           /\ held[a].kind = "text" \/ (/\ held[a].kind = "call" /\ held[a].tool \in Tools
                                        /\ \E x \in DOMAIN due : due[x] = held[a])
           /\ held[a].id = 0 /\ held[a].n \in (Now + 1)..Len(said)
           /\ said[held[a].n] = [by |-> "model", kind |-> held[a].kind]
    BY <1>3, <1>6
  <2>6. \A n \in (Now + 1)..Len(said) : \E a \in DOMAIN held : held[a].n = n
    BY <1>3
  <2>7. \A x \in DOMAIN due : /\ \E a \in DOMAIN held : held[a] = due[x]
                              /\ due[x].kind = "call" /\ due[x].n \in (Now + 1)..Len(said)
    BY <1>5, <1>7
  <2>. QED  BY <1>2, <2>1, <2>2, <2>3, <2>4, <2>5, <2>6, <2>7
<1>. QED  BY <1>8, <1>9

\* The reply ends and everything was yielded.
LEMMA NothingLeftKeeps ==
    ASSUME IInv, Finish, streaming /\ held = <<>>
    PROVE  TalkInv'
<1>1. /\ Replying /\ turn' \in {"user", "model"} /\ held' = <<>> /\ history' = history
      /\ UNCHANGED <<modelVars, runner, streaming, said, requests, due>>
  BY DEF Finish
<1>2. UNCHANGED <<setup, registry, stage>>
  BY <1>1 DEF modelVars
<1>3. Default' = Default /\ OfOpenAI' = OfOpenAI /\ Lossy' = Lossy
  BY <1>1, <1>2, Frames
<1>4. stage = "serving" /\ Open = {} /\ due = <<>> /\ ~Lossy
  BY <1>1, ReplyingFacts DEF Lossy
<1>5. Now' = Now /\ Open' = {}
  BY <1>1, <1>4 DEF Now, Open
<1>6. Phases' /\ Prompted'
  BY <1>1, <1>2, <1>3, <1>4 DEF Phases, IInv, TalkInv, Prompted
<1>7. Kept'
  BY <1>1, <1>3, <1>4, <1>5 DEF IInv, TalkInv, Kept
<1>. QED  BY <1>1, <1>3, <1>4, <1>5, <1>6, <1>7 DEF IInv, TalkInv

\* The reply ends with a last content.
LEMMA LastContentKeeps ==
    ASSUME IInv, Finish, ~(streaming /\ held = <<>>)
    PROVE  TalkInv'
<1>. DEFINE c == ModelContent(LastParts)
            m == Len(said)
<1>1. /\ Replying /\ turn' \in (IF turn = "calling" THEN {"user", "model"} ELSE {"user"})
      /\ held' = <<>> /\ history' = Append(history, c)
      /\ UNCHANGED <<modelVars, runner, streaming, said, requests, due>>
  BY DEF Finish, LastContent, LastParts
<1>2. UNCHANGED <<setup, registry, stage>>
  BY <1>1 DEF modelVars
<1>3. Default' = Default /\ OfOpenAI' = OfOpenAI /\ Lossy' = Lossy
  BY <1>1, <1>2, Frames
<1>4. stage = "serving" /\ Answered(history, {}, runner)
  BY <1>1, ReplyingFacts
<1>5. /\ history \in Seq(Content) /\ held \in Seq(Part) /\ due \in Seq(Part)
      /\ m \in Nat /\ Len(held) \in Nat /\ Now \in Nat /\ m = Now + Len(held)
      /\ DOMAIN held = 1..Len(held)
  BY TalkFacts
<1>. DEFINE P == LastParts
<1>6. /\ P \in Seq(Part) /\ DOMAIN P \subseteq Nat
      /\ \A a \in DOMAIN P :
            /\ P[a].kind = "text" \/ (/\ P[a].kind = "call" /\ P[a].tool \in Tools
                                      /\ \E x \in DOMAIN due : due[x] = P[a])
            /\ P[a].id = 0 /\ P[a].n \in (Now + 1)..m
            /\ said[P[a].n] = [by |-> "model", kind |-> P[a].kind]
            /\ ~Skipped(said, P[a].n, Lossy)
      /\ \A a, b \in DOMAIN P : a < b => P[a].n < P[b].n
      /\ \A n \in (Now + 1)..m : Skipped(said, n, Lossy) \/ \E a \in DOMAIN P : P[a].n = n
      /\ OfOpenAI => \/ \A a \in DOMAIN P : P[a].kind = "call"
                     \/ \A a \in DOMAIN P : P[a].kind = "text"
      /\ \A x \in DOMAIN due : /\ \E a \in DOMAIN P : P[a] = due[x]
                               /\ due[x].kind = "call" /\ due[x].n \in (Now + 1)..m
  BY <1>1, LastPartsFacts
<1>. HIDE DEF P
<1>7. /\ c \in Content /\ c.role = "model" /\ DOMAIN c.parts = DOMAIN P
      /\ \A a \in DOMAIN P :
            /\ c.parts[a].kind = P[a].kind /\ c.parts[a].tool = P[a].tool /\ c.parts[a].n = P[a].n
            /\ c.parts[a].id = (IF runner.ids /\ P[a].kind = "call" THEN P[a].n ELSE P[a].id)
  <2>1. TypeOK /\ c = ModelContent(P)
    BY DEF IInv, P
  <2>2. /\ ModelContent(P) \in Content /\ ModelContent(P).role = "model"
        /\ DOMAIN ModelContent(P).parts = DOMAIN P
    BY <1>6, <2>1, ContentTypes
  <2>3. \A a \in DOMAIN P :
           LET q == ModelContent(P).parts[a]
           IN  /\ q.kind = P[a].kind /\ q.tool = P[a].tool /\ q.n = P[a].n
               /\ q.id = (IF runner.ids /\ P[a].kind = "call" THEN P[a].n ELSE P[a].id)
    BY <1>6, <2>1, ContentTypes
  <2>. HIDE DEF c
  <2>. QED  BY <2>1, <2>2, <2>3
<1>. HIDE DEF c
<1>8. Now' = m /\ Open' = {due[x].n : x \in DOMAIN due}
  <2>1. Len(held') = 0
    BY <1>1
  <2>. QED  BY <1>1, <1>5, <2>1 DEF Now, Open
<1>9. Phases'
  <2>1. turn' \in {"user", "model"}
    BY <1>1
  <2>2. (turn' # "user" /\ Lossy /\ m > 0) => said[m] # [by |-> "model", kind |-> "text"]
    <3>. SUFFICES ASSUME turn' # "user", Lossy PROVE said[m].kind = "call"
      OBVIOUS
    <3>1. held # <<>> /\ held[Len(held)].kind = "call"
      BY <1>1 DEF IInv, TalkInv, Kept
    <3>2. Len(held) \in DOMAIN held
      BY <1>5, <3>1
    <3>3. HeldFrom(held, Now, said, OfOpenAI)
      BY DEF IInv, TalkInv, Kept
    <3>4. /\ held[Len(held)].n = m
          /\ said[held[Len(held)].n] = [by |-> "model", kind |-> held[Len(held)].kind]
      BY <1>5, <3>2, <3>3 DEF HeldFrom
    <3>. QED  BY <3>1, <3>4
  <2>. QED  BY <1>1, <1>2, <1>3, <1>4, <1>8, <2>1, <2>2 DEF Phases
<1>10. Prompted'
  <2>1. TypeOK /\ Prompted /\ runner' = runner /\ c.role # "system"
    BY <1>1, <1>7 DEF IInv, TalkInv
  <2>. QED  BY <1>1, <1>7, <2>1, PromptedMore
<1>11. Kept'
  <2>1. held' = <<>> /\ DOMAIN held' = {} /\ turn' # "calling"
    BY <1>1
  <2>2. HeldFrom(held', Now', said', OfOpenAI')
    BY <2>1 DEF HeldFrom
  <2>3. DueOf(due', held', Len(said'))
    BY <1>1, <2>1 DEF DueOf, IInv, TalkInv, Kept
  <2>. QED  BY <1>5, <1>8, <2>1, <2>2, <2>3 DEF Kept
<1>12. ShapedBy(history', runner, OfOpenAI) /\ NumberedBy(history', runner)
  <2>1. Speech(c, OfOpenAI)
    <3>1. /\ c.role = "model" /\ DOMAIN c.parts = DOMAIN P
          /\ \A a \in DOMAIN P : c.parts[a].kind = P[a].kind
      BY ONLY <1>7
    <3>2. /\ \A a \in DOMAIN P : P[a].kind \in {"text", "call"}
          /\ OfOpenAI => \/ \A a \in DOMAIN P : P[a].kind = "call"
                         \/ \A a \in DOMAIN P : P[a].kind = "text"
      BY ONLY <1>6
    <3>3. /\ c.role = "model" /\ \A a \in DOMAIN c.parts : c.parts[a].kind \in {"text", "call"}
          /\ OfOpenAI => \/ \A a \in DOMAIN c.parts : c.parts[a].kind = "call"
                         \/ \A a \in DOMAIN c.parts : c.parts[a].kind = "text"
      BY ONLY <3>1, <3>2
    <3>4. (\A a \in DOMAIN c.parts : c.parts[a].kind = "text") => Calls(c) = {}
      BY DEF Calls, At
    <3>5. OfOpenAI => Calls(c) = {} \/ \A a \in DOMAIN c.parts : c.parts[a].kind = "call"
      BY <3>3, <3>4
    <3>6. \A a \in DOMAIN c.parts : c.parts[a].kind # "result"
      BY <3>3
    <3>. QED  BY ONLY <3>3, <3>5, <3>6 DEF Speech
  <2>2. ASSUME NEW a \in DOMAIN c.parts, c.parts[a].kind # "text"
        PROVE  KeyedBy(c.parts[a], runner)
    <3>1. a \in DOMAIN P /\ c.parts[a].kind = P[a].kind
      BY <1>7, <2>2
    <3>4. P[a].kind = "call" /\ P[a].tool \in Tools
      BY <1>6, <2>2, <3>1
    <3>3. P[a].n \in (Now + 1)..m
      BY <1>6, <3>1
    <3>2. P[a].n \in Nat \ {0}
      BY <1>5, <3>3
    <3>5. /\ c.parts[a].tool = P[a].tool /\ c.parts[a].n = P[a].n
          /\ c.parts[a].id = (IF runner.ids THEN P[a].n ELSE P[a].id) /\ P[a].id = 0
      BY <1>6, <1>7, <3>1, <3>4
    <3>. QED  BY <3>2, <3>4, <3>5 DEF KeyedBy
  <2>. QED  BY <1>1, <1>5, <1>7, <2>1, <2>2, ShapedMore, NumberedMore DEF IInv, TalkInv
<1>13. Answered(history', Open', runner)
  <2>1. \A a \in DOMAIN c.parts : c.parts[a].kind # "result"
    BY <1>6, <1>7
  <2>2. ASSUME NEW a \in Calls(c) PROVE c.parts[a].n \in Open'
    <3>1. a \in DOMAIN P /\ P[a].kind = "call" /\ c.parts[a].n = P[a].n
      BY <1>7 DEF Calls, At
    <3>2. \E x \in DOMAIN due : due[x] = P[a]
      BY <1>6, <3>1
    <3>. QED  BY <1>8, <3>1, <3>2
  <2>3. ASSUME NEW j \in DOMAIN history, NEW b \in DOMAIN history[j].parts,
               history[j].parts[b].kind = "result"
        PROVE  history[j].parts[b].n \notin Open'
    <3>1. history[j].parts[b].n \in 1..Now
      <4>1. ShapedBy(history, runner, OfOpenAI) /\ Heard(history, said, Now, Lossy)
        BY DEF IInv, TalkInv
      <4>. QED  BY <1>4, <1>5, <2>3, <4>1, ResultsHeard
    <3>2. \A n \in Open' : n \in (Now + 1)..m
      BY <1>6, <1>8
    <3>. QED  BY <1>5, <3>1, <3>2
  <2>. QED  BY <1>1, <1>4, <1>5, <1>7, <2>1, <2>2, <2>3, SpeechAppended
<1>14. Open' # {} => Pending(history', due', runner)
  <2>1. /\ DOMAIN history' = DOMAIN history \cup {Len(history) + 1} /\ Len(history) \in Nat
        /\ history'[Len(history) + 1] = c /\ Len(history') = Len(history) + 1
        /\ \A k \in DOMAIN history : k < Len(history) + 1 /\ k \in Nat
    BY <1>1, <1>5, <1>7, AppendFacts
  <2>2. \A k \in DOMAIN history' : ~(Len(history) + 1 < k)
    BY <2>1
  <2>3. \A x \in DOMAIN due : \E a \in Calls(c) : c.parts[a].n = due[x].n
                                                   /\ c.parts[a].tool = due[x].tool
    BY <1>6, <1>7 DEF Calls, At
  <2>. QED  BY <1>1, <2>1, <2>2, <2>3 DEF Pending
<1>15. Heard(history', said', m, Lossy)
  <2>1. Heard(history, said, Now, Lossy)
    BY DEF IInv, TalkInv
  <2>2. Now <= m /\ c.role # "system"
    BY <1>5, <1>7
  <2>3. \A a \in DOMAIN c.parts :
           /\ c.parts[a].kind # "result"
           /\ c.parts[a].n \in (Now + 1)..m /\ ~Skipped(said, c.parts[a].n, Lossy)
           /\ said[c.parts[a].n] = [by |-> c.role, kind |-> c.parts[a].kind]
    BY <1>6, <1>7
  <2>4. /\ \A a, b \in DOMAIN c.parts : a < b => c.parts[a].n < c.parts[b].n
        /\ \A n \in (Now + 1)..m : Skipped(said, n, Lossy) \/ \E a \in DOMAIN c.parts : c.parts[a].n = n
    BY <1>6, <1>7
  <2>5. Heard(Append(history, c), said, m, Lossy)
    BY <1>5, <1>7, <2>1, <2>2, <2>3, <2>4, MoreHeard
  <2>. QED  BY <1>1, <2>5
<1>. QED
  BY <1>1, <1>3, <1>8, <1>9, <1>10, <1>11, <1>12, <1>13, <1>14, <1>15 DEF TalkInv

\* The reply breaks off.
LEMMA BreaksOffKeeps ==
    ASSUME IInv, BreaksOff
    PROVE  TalkInv'
<1>. DEFINE S == [by : {"user", "model"}, kind : {"text", "call"}]
<1>1. /\ Replying /\ turn' = "user" /\ held' = <<>> /\ due' = <<>> /\ history' = history
      /\ said' = SubSeq(said, 1, Now)
      /\ UNCHANGED <<modelVars, runner, streaming, history, requests>>
  BY DEF BreaksOff, Now
<1>2. UNCHANGED <<setup, registry, stage>>
  BY <1>1 DEF modelVars
<1>3. Default' = Default /\ OfOpenAI' = OfOpenAI /\ Lossy' = Lossy
  BY <1>1, <1>2, Frames
<1>4. /\ stage = "serving" /\ Answered(history, {}, runner)
      /\ Lossy /\ Now > 0 => said[Now] # [by |-> "model", kind |-> "text"]
  BY <1>1, ReplyingFacts
<1>5. said \in Seq(S) /\ Now \in Nat /\ Len(said) \in Nat /\ Now <= Len(said)
  <2>1. said \in Seq(S) /\ Now \in Nat /\ Len(said) \in Nat /\ Len(held) \in Nat /\ Len(said) = Now + Len(held)
    BY TalkFacts
  <2>. QED  BY <2>1
<1>6. Len(said') = Now /\ \A k \in 1..Now : said'[k] = said[k]
  <2>. HIDE DEF S
  <2>. QED  BY <1>1, <1>5
<1>. HIDE DEF S
<1>7. Now' = Now /\ Open' = {}
  <2>1. Len(held') = 0
    BY <1>1
  <2>. QED  BY <1>1, <1>5, <1>6, <2>1 DEF Now, Open
<1>8. Phases' /\ Prompted'
  BY <1>1, <1>2, <1>4 DEF Phases, IInv, TalkInv, Prompted
<1>9. Kept'
  <2>1. held' = <<>> /\ DOMAIN held' = {} /\ due' = <<>> /\ DOMAIN due' = {} /\ turn' # "calling"
    BY <1>1
  <2>2. HeldFrom(held', Now', said', OfOpenAI') /\ DueOf(due', held', Len(said'))
    BY <2>1 DEF HeldFrom, DueOf
  <2>. QED  BY <1>5, <1>7, <2>1, <2>2 DEF Kept
<1>10. Heard(history, said', Now, Lossy)
  <2>1. Heard(history, said, Now, Lossy)
    BY DEF IInv, TalkInv
  <2>2. ASSUME NEW n \in 1..Now
        PROVE  Skipped(said', n, Lossy) <=> Skipped(said, n, Lossy)
    <3>1. CASE n < Now
      <4>1. n + 1 \in 1..Now /\ n < Len(said) /\ n < Len(said')
        BY <1>5, <1>6, <3>1
      <4>. QED  BY <1>6, <4>1 DEF Skipped
    <3>2. CASE n = Now
      <4>1. Now > 0 /\ ~(n < Len(said'))
        BY <1>5, <1>6, <3>2
      <4>. QED  BY <1>4, <3>2, <4>1 DEF Skipped
    <3>. QED  BY <1>5, <3>1, <3>2
  <2>. QED  BY <1>5, <1>6, <2>1, <2>2, HeardMore
<1>. QED
  BY <1>1, <1>3, <1>4, <1>7, <1>8, <1>9, <1>10 DEF IInv, TalkInv

\* The calls d whose results are given now, all or the first, and the rest of them.
GivenOf(d, r) == IF r.merged THEN d ELSE <<Head(d)>>
RestOf(d, r)  == IF r.merged THEN <<>> ELSE Tail(d)

\* The calls d are p and then q.
SplitInto(d, p, q) ==
    /\ \A b \in DOMAIN p : \E x \in DOMAIN d : p[b] = d[x]
    /\ \A y \in DOMAIN q : \E x \in DOMAIN d : q[y] = d[x]
    /\ \A x \in DOMAIN d : (\E b \in DOMAIN p : p[b] = d[x]) \/ (\E y \in DOMAIN q : q[y] = d[x])
    /\ \A b \in DOMAIN p, y \in DOMAIN q : p[b].n # q[y].n
    /\ \A b, e \in DOMAIN p : p[b].n = p[e].n => b = e
    /\ \A x, y \in DOMAIN q : x < y => q[x].n < q[y].n

\* The runner gives results of some calls that are due; the rest stay due.
LEMMA GivenFacts ==
    ASSUME NEW d \in Seq(Part), d # <<>>, NEW r, \A x, y \in DOMAIN d : x < y => d[x].n < d[y].n,
           \A x \in DOMAIN d : d[x].n \in Nat
    PROVE  /\ GivenOf(d, r) \in Seq(Part) /\ 1 \in DOMAIN GivenOf(d, r)
           /\ ~r.merged => Len(GivenOf(d, r)) = 1
           /\ RestOf(d, r) \in Seq(Part) /\ (r.merged => RestOf(d, r) = <<>>)
           /\ SplitInto(d, GivenOf(d, r), RestOf(d, r))
<1>1. /\ Len(d) \in Nat /\ DOMAIN d = 1..Len(d) /\ 1 \in DOMAIN d
  OBVIOUS
<1>2. \A b, e \in DOMAIN d : d[b].n = d[e].n => b = e
  <2>1. \A b, e \in DOMAIN d : b < e \/ e < b \/ b = e
    BY <1>1
  <2>2. \A b, e \in DOMAIN d : b < e => d[b].n # d[e].n
    OBVIOUS
  <2>. QED  BY <2>1, <2>2
<1>3. CASE r.merged
  <2>1. GivenOf(d, r) = d /\ RestOf(d, r) = <<>>
    BY <1>3 DEF GivenOf, RestOf
  <2>2. <<>> \in Seq(Part) /\ DOMAIN <<>> = {}
    OBVIOUS
  <2>3. SplitInto(d, d, <<>>)
    BY <1>2, <2>2 DEF SplitInto
  <2>. QED  BY <1>1, <1>3, <2>1, <2>2, <2>3
<1>4. CASE ~r.merged
  <2>1. GivenOf(d, r) = <<Head(d)>> /\ RestOf(d, r) = Tail(d)
    BY <1>4 DEF GivenOf, RestOf
  <2>2. Head(d) = d[1] /\ d[1] \in Part
    BY <1>1
  <2>3. <<Head(d)>> \in Seq(Part) /\ DOMAIN <<Head(d)>> = {1} /\ <<Head(d)>>[1] = d[1]
        /\ Len(<<Head(d)>>) = 1
    BY <2>2
  <2>4. /\ Tail(d) \in Seq(Part) /\ Len(Tail(d)) = Len(d) - 1
        /\ \A y \in 1..(Len(d) - 1) : Tail(d)[y] = d[y + 1]
    OBVIOUS
  <2>5. DOMAIN Tail(d) = 1..(Len(d) - 1)
    BY <2>4
  <2>6. \A y \in DOMAIN Tail(d) : y + 1 \in DOMAIN d /\ Tail(d)[y] = d[y + 1] /\ 1 < y + 1
    BY <1>1, <2>4, <2>5
  <2>7. \A x \in DOMAIN d : x = 1 \/ (x - 1 \in DOMAIN Tail(d) /\ Tail(d)[x - 1] = d[x])
    <3>. SUFFICES ASSUME NEW x \in DOMAIN d, x # 1
                  PROVE  x - 1 \in DOMAIN Tail(d) /\ Tail(d)[x - 1] = d[x]
      OBVIOUS
    <3>1. x - 1 \in 1..(Len(d) - 1) /\ (x - 1) + 1 = x
      BY <1>1
    <3>. QED  BY <2>4, <2>5, <3>1
  <2>8. \A y \in DOMAIN Tail(d) : d[1].n # Tail(d)[y].n
    <3>. SUFFICES ASSUME NEW y \in DOMAIN Tail(d) PROVE d[1].n < d[y + 1].n
      BY <2>6
    <3>. QED  BY <1>1, <2>6
  <2>9. \A x, y \in DOMAIN Tail(d) : x < y => Tail(d)[x].n < Tail(d)[y].n
    <3>. SUFFICES ASSUME NEW x \in DOMAIN Tail(d), NEW y \in DOMAIN Tail(d), x < y
                  PROVE  d[x + 1].n < d[y + 1].n
      BY <2>6
    <3>1. x + 1 < y + 1
      BY <2>5
    <3>. QED  BY <2>6, <3>1
  <2>. DEFINE P == <<Head(d)>>
              T == Tail(d)
  <2>10. /\ \A b \in DOMAIN P : \E x \in DOMAIN d : P[b] = d[x]
         /\ \A y \in DOMAIN T : \E x \in DOMAIN d : T[y] = d[x]
         /\ \A x \in DOMAIN d : \/ \E b \in DOMAIN P : P[b] = d[x]
                                \/ \E y \in DOMAIN T : T[y] = d[x]
    <3>. HIDE DEF P, T
    <3>1. \A b \in DOMAIN P : P[b] = d[1]
      BY <2>3 DEF P
    <3>2. \A y \in DOMAIN T : \E x \in DOMAIN d : T[y] = d[x]
      BY <2>6 DEF T
    <3>3. \A x \in DOMAIN d : x = 1 \/ (x - 1 \in DOMAIN T /\ T[x - 1] = d[x])
      BY <2>7 DEF T
    <3>4. 1 \in DOMAIN P
      BY <2>3 DEF P
    <3>. QED  BY <1>1, <3>1, <3>2, <3>3, <3>4
  <2>11. /\ \A b \in DOMAIN P, y \in DOMAIN T : P[b].n # T[y].n
         /\ \A b, e \in DOMAIN P : P[b].n = P[e].n => b = e
    BY <2>3, <2>8
  <2>12. \A x, y \in DOMAIN T : x < y => T[x].n < T[y].n
    BY <2>9
  <2>. HIDE DEF P, T
  <2>13. SplitInto(d, P, T)
    BY <2>10, <2>11, <2>12 DEF SplitInto
  <2>. QED  BY <1>4, <2>1, <2>3, <2>4, <2>13 DEF P, T
<1>. QED  BY <1>3, <1>4

\* The runner gives results.
LEMMA AnswerKeeps ==
    ASSUME IInv, Answer
    PROVE  TalkInv'
<1>. DEFINE P == GivenOf(due, runner)
            d == RestOf(due, runner)
            c == ResultContent(P)
            m == Len(said)
<1>1. /\ held = <<>> /\ due # <<>> /\ history' = Append(history, c) /\ due' = d
      /\ UNCHANGED <<modelVars, runner, streaming, said, sent, requests, turn, held>>
  BY DEF Answer, Answering, GivenOf, RestOf
<1>2. UNCHANGED <<setup, registry, stage>>
  BY <1>1 DEF modelVars
<1>3. Default' = Default /\ OfOpenAI' = OfOpenAI /\ Lossy' = Lossy
  BY <1>1, <1>2, Frames
<1>4. /\ stage = "serving" /\ turn \notin {"waiting", "reading"}
      /\ ~(turn = "calling" /\ Lossy)
  BY <1>1 DEF IInv, TalkInv, Phases, Kept
<1>5. /\ history \in Seq(Content) /\ due \in Seq(Part) /\ m \in Nat /\ Now = m
      /\ Open = {due[x].n : x \in DOMAIN due}
      /\ runner.role \in {"user", "model", "tool"}
  BY <1>1, TalkFacts
<1>6. /\ \A x \in DOMAIN due : /\ due[x].kind = "call" /\ due[x].tool \in Tools
                               /\ due[x].id = 0 /\ due[x].n \in 1..m
      /\ \A x, y \in DOMAIN due : x < y => due[x].n < due[y].n
  BY DEF IInv, TalkInv, Kept, DueOf
<1>7. /\ P \in Seq(Part) /\ 1 \in DOMAIN P /\ (~runner.merged => Len(P) = 1)
      /\ d \in Seq(Part) /\ (runner.merged => d = <<>>)
      /\ \A b \in DOMAIN P : \E x \in DOMAIN due : P[b] = due[x]
      /\ \A y \in DOMAIN d : \E x \in DOMAIN due : d[y] = due[x]
      /\ \A x \in DOMAIN due : (\E b \in DOMAIN P : P[b] = due[x]) \/ (\E y \in DOMAIN d : d[y] = due[x])
      /\ \A b \in DOMAIN P, y \in DOMAIN d : P[b].n # d[y].n
      /\ \A b, e \in DOMAIN P : P[b].n = P[e].n => b = e
      /\ \A x, y \in DOMAIN d : x < y => d[x].n < d[y].n
  <2>1. /\ due \in Seq(Part) /\ due # <<>>
        /\ \A x, y \in DOMAIN due : x < y => due[x].n < due[y].n
        /\ \A x \in DOMAIN due : due[x].n \in Nat
    BY <1>1, <1>5, <1>6
  <2>2. /\ P \in Seq(Part) /\ 1 \in DOMAIN P /\ (~runner.merged => Len(P) = 1)
        /\ d \in Seq(Part) /\ (runner.merged => d = <<>>)
        /\ SplitInto(due, P, d)
    BY <2>1, GivenFacts
  <2>. HIDE DEF P, d
  <2>. QED  BY <2>2 DEF SplitInto
<1>. HIDE DEF P, d
<1>8. /\ c \in Content /\ c.role = runner.role /\ DOMAIN c.parts = DOMAIN P
      /\ Len(c.parts) = Len(P)
      /\ \A b \in DOMAIN P :
            /\ c.parts[b].kind = "result" /\ c.parts[b].tool = P[b].tool /\ c.parts[b].n = P[b].n
            /\ P[b].kind = "call" /\ P[b].tool \in Tools /\ P[b].n \in 1..m
            /\ c.parts[b].id = (IF runner.ids THEN P[b].n ELSE 0)
  <2>1. TypeOK
    BY DEF IInv
  <2>2. /\ ResultContent(P) \in Content /\ ResultContent(P).role = runner.role
        /\ DOMAIN ResultContent(P).parts = DOMAIN P /\ Len(ResultContent(P).parts) = Len(P)
    BY <1>7, <2>1, ContentTypes
  <2>3. \A b \in DOMAIN P :
           LET q == ResultContent(P).parts[b]
           IN  /\ q.kind = "result" /\ q.tool = P[b].tool /\ q.n = P[b].n
               /\ q.id = (IF runner.ids /\ P[b].kind = "call" THEN P[b].n ELSE P[b].id)
    BY <1>7, <2>1, ContentTypes
  <2>4. \A b \in DOMAIN P : /\ P[b].kind = "call" /\ P[b].tool \in Tools
                            /\ P[b].id = 0 /\ P[b].n \in 1..m
    BY <1>6, <1>7
  <2>. HIDE DEF c
  <2>5. c = ResultContent(P)
    BY DEF c
  <2>. QED  BY <2>2, <2>3, <2>4, <2>5
<1>. HIDE DEF c
<1>9. Now' = m /\ Open' = {d[y].n : y \in DOMAIN d}
  BY <1>1, <1>5 DEF Now, Open
<1>10. Phases'
  BY <1>1, <1>2, <1>3, <1>4, <1>5, <1>9 DEF IInv, TalkInv, Phases
<1>11. Prompted'
  <2>1. TypeOK /\ Prompted /\ runner' = runner /\ c.role # "system"
    BY <1>1, <1>5, <1>8 DEF IInv, TalkInv
  <2>. QED  BY <1>1, <1>8, <2>1, PromptedMore
<1>12. Kept'
  <2>1. held' = <<>> /\ DOMAIN held' = {} /\ ~(turn' = "calling" /\ Lossy')
    BY <1>1, <1>3, <1>4
  <2>2. HeldFrom(held', Now', said', OfOpenAI')
    BY <2>1 DEF HeldFrom
  <2>3. DueOf(due', held', Len(said'))
    <3>1. \A y \in DOMAIN d : /\ d[y].kind = "call" /\ d[y].tool \in Tools
                              /\ d[y].id = 0 /\ d[y].n \in 1..m
      BY <1>6, <1>7
    <3>. QED  BY <1>1, <1>7, <2>1, <3>1 DEF DueOf
  <2>. QED  BY <1>5, <1>9, <2>1, <2>2, <2>3 DEF Kept
<1>13. Results(c) /\ (~runner.merged => Len(c.parts) = 1)
  <2>1. c.parts # <<>>
    BY <1>7, <1>8
  <2>. QED  BY <1>7, <1>8, <2>1 DEF Results
<1>14. ShapedBy(history', runner, OfOpenAI) /\ NumberedBy(history', runner)
  <2>1. ResultsBy(c, runner)
    BY <1>8, <1>13 DEF ResultsBy
  <2>2. ASSUME NEW b \in DOMAIN c.parts PROVE KeyedBy(c.parts[b], runner)
    <3>1. P[b].n \in Nat \ {0}
      BY <1>5, <1>8
    <3>. QED  BY <1>8, <3>1 DEF KeyedBy
  <2>. QED  BY <1>1, <1>5, <1>8, <2>1, <2>2, ShapedMore, NumberedMore DEF IInv, TalkInv
<1>15. PICK i \in DOMAIN history :
          /\ runner.merged => i = Len(history)
          /\ \A k \in DOMAIN history : i < k => Results(history[k])
          /\ \A x \in DOMAIN due : \E a \in Calls(history[i]) :
                history[i].parts[a].n = due[x].n /\ history[i].parts[a].tool = due[x].tool
  <2>1. Open # {}
    <3>1. 1 \in DOMAIN due
      BY <1>1, <1>5
    <3>2. due[1].n \in Open
      BY <1>5, <3>1
    <3>. QED  BY <3>2
  <2>2. Pending(history, due, runner)
    BY <2>1 DEF IInv, TalkInv
  <2>. QED  BY <2>2 DEF Pending
<1>16. Answered(history', Open', runner)
  <2>1. Answered(history, Open, runner) /\ OneCall(history)
    <3>1. /\ ShapedBy(history, runner, OfOpenAI) /\ Heard(history, said, Now, Lossy)
          /\ Answered(history, Open, runner)
      BY DEF IInv, TalkInv
    <3>. QED  BY <1>5, <3>1, CallsDistinct
  <2>2. ASSUME NEW b \in DOMAIN c.parts
        PROVE  \E a \in Calls(history[i]) : SameCall(c.parts[b], history[i].parts[a])
    <3>1. PICK x \in DOMAIN due : P[b] = due[x]
      BY <1>7, <1>8
    <3>2. PICK a \in Calls(history[i]) :
              history[i].parts[a].n = due[x].n /\ history[i].parts[a].tool = due[x].tool
      BY <1>15
    <3>3. history[i].parts[a].id = (IF runner.ids THEN history[i].parts[a].n ELSE 0)
      <4>1. a \in DOMAIN history[i].parts /\ history[i].parts[a].kind = "call"
        BY DEF Calls, At
      <4>2. KeyedBy(history[i].parts[a], runner)
        BY <4>1 DEF IInv, TalkInv, NumberedBy
      <4>. QED  BY <4>2 DEF KeyedBy
    <3>4. SameCall(c.parts[b], history[i].parts[a])
      BY <1>8, <3>1, <3>2, <3>3 DEF SameCall
    <3>. QED  BY <3>4
  <2>3. Calls(history[i]) # {}
    BY <1>7, <1>15
  <2>4. /\ \A n \in Open : n \in Open' \/ \E b \in DOMAIN c.parts : c.parts[b].n = n
        /\ \A n \in Open' : n \in Open
        /\ \A b \in DOMAIN c.parts : c.parts[b].n \in Open /\ c.parts[b].n \notin Open'
        /\ \A b, e \in DOMAIN c.parts : c.parts[b].n = c.parts[e].n => b = e
    <3>1. ASSUME NEW n \in Open PROVE n \in Open' \/ \E b \in DOMAIN c.parts : c.parts[b].n = n
      <4>1. PICK x \in DOMAIN due : n = due[x].n
        BY <1>5
      <4>2. CASE \E b \in DOMAIN P : P[b] = due[x]
        BY <1>8, <4>1, <4>2
      <4>3. CASE \E y \in DOMAIN d : d[y] = due[x]
        BY <1>9, <4>1, <4>3
      <4>. QED  BY <1>7, <4>2, <4>3
    <3>2. \A n \in Open' : n \in Open
      BY <1>5, <1>7, <1>9
    <3>3. ASSUME NEW b \in DOMAIN c.parts PROVE c.parts[b].n \in Open /\ c.parts[b].n \notin Open'
      <4>1. c.parts[b].n = P[b].n /\ b \in DOMAIN P
        BY <1>8
      <4>. QED  BY <1>5, <1>7, <1>9, <4>1
    <3>4. \A b, e \in DOMAIN c.parts : c.parts[b].n = c.parts[e].n => b = e
      BY <1>7, <1>8
    <3>. QED  BY <3>1, <3>2, <3>3, <3>4
  <2>5. Open \subseteq Open' \cup {c.parts[b].n : b \in DOMAIN c.parts} /\ Open' \subseteq Open
    BY <2>4
  <2>. QED  BY <1>1, <1>5, <1>8, <1>13, <1>15, <2>1, <2>2, <2>3, <2>4, <2>5, ResultsAppended
<1>17. Open' # {} => Pending(history', due', runner)
  <2>. SUFFICES ASSUME Open' # {} PROVE Pending(history', due', runner)
    OBVIOUS
  <2>1. ~runner.merged
    BY <1>7, <1>9
  <2>2. /\ DOMAIN history' = DOMAIN history \cup {Len(history) + 1}
        /\ history'[Len(history) + 1] = c
        /\ \A k \in DOMAIN history : history'[k] = history[k]
    BY <1>1, <1>5, <1>8, AppendFacts
  <2>3. \A k \in DOMAIN history' : i < k => Results(history'[k])
    BY <1>13, <1>15, <2>2
  <2>4. \A y \in DOMAIN d : \E a \in Calls(history[i]) :
           history[i].parts[a].n = d[y].n /\ history[i].parts[a].tool = d[y].tool
    BY <1>7, <1>15
  <2>. QED  BY <1>1, <2>1, <2>2, <2>3, <2>4 DEF Pending
<1>18. Heard(history', said', m, Lossy)
  <2>1. Heard(history, said, m, Lossy)
    BY <1>5 DEF IInv, TalkInv
  <2>2. Own(c) = {}
    BY <1>8 DEF Own
  <2>3. Heard(Append(history, c), said, m, Lossy)
    BY <1>5, <1>8, <2>1, <2>2, NothingHeard
  <2>. QED  BY <1>1, <2>3
<1>. QED
  BY <1>1, <1>3, <1>9, <1>10, <1>11, <1>12, <1>14, <1>16, <1>17, <1>18 DEF TalkInv

-----------------------------------------------------------------------------
(***************************************************************************)
(* The theorems.                                                           *)
(***************************************************************************)
\* A process starts with IInv.
LEMMA Initially == Init => IInv
<1>. SUFFICES ASSUME Init PROVE IInv
  OBVIOUS
<1>1. ModelsInv
  BY InitModelsInv DEF Init
<1>2. Len(setup.brain.models) \in Nat
  BY ModelsSequence DEF Init, ModelsInit
<1>3. ModelsTypeOK
  <2>1. 1 \in 1..(Len(setup.brain.models) + 1)
    BY <1>2
  <2>. QED  BY <2>1 DEF Init, ModelsInit, ModelsTypeOK
<1>4. Provenance
  BY DEF Init, ModelsInit, Provenance
<1>5. TypeOK
  <2>1. Text(0) \in Part /\ <<>> \in Seq(Part)
    BY DEF Text, Part
  <2>2. <<Text(0)>> \in Seq(Part)
    BY <2>1
  <2>3. Prompt \in Content
    BY <2>2 DEF Prompt, Content, Roles
  <2>4. history \in Seq(Content)
    <3>1. <<Prompt>> \in Seq(Content) /\ <<>> \in Seq(Content)
      BY <2>3
    <3>. QED  BY <3>1 DEF Init
  <2>5. 0 \in 0..MaxRequests
    <3>1. MaxRequests \in Nat
      BY ConversationAssumption
    <3>. QED  BY <3>1
  <2>. QED  BY <1>3, <2>1, <2>4, <2>5 DEF Init, TypeOK, Waiting
<1>6. Opening
  BY DEF Init, Opening
<1>. QED  BY <1>1, <1>4, <1>5, <1>6, OpeningInv DEF IInv

\* IInv is an inductive invariant of the conversation.
THEOREM Invariance == Spec => []IInv
<1>1. IInv /\ [Next]_vars => TypeOK' /\ Provenance' /\ TalkInv'
  <2>. SUFFICES ASSUME IInv, [Next]_vars PROVE TypeOK' /\ Provenance' /\ TalkInv'
    OBVIOUS
  <2>1. TypeOK'
    BY TypesKept DEF IInv, TalkInv
  <2>2. Provenance'
    <3>1. CASE ModelsNext
      BY <3>1, ModelsSteps DEF IInv, TypeOK
    <3>2. CASE UNCHANGED modelVars
      BY <3>2 DEF modelVars, IInv, Provenance, Names, Entries
    <3>. QED
      BY <3>1, <3>2
      DEF Next, UserSays, GenerateContent, Finish, BreaksOff, Answer, Arrives, vars
  <2>3. CASE ModelsNext /\ UNCHANGED talk
    BY <2>1, <2>2, <2>3, ModelsKeepTalk
  <2>4. CASE UserSays
    BY <2>1, <2>2, <2>4, UserSaysKeeps
  <2>5. CASE GenerateContent
    BY <2>1, <2>2, <2>5, GenerateContentKeeps
  <2>6. ASSUME NEW item \in Item, Arrives(item) PROVE TalkInv'
    BY <2>6, KeptItemKeeps, YieldedItemKeeps
  <2>7. CASE Finish
    BY <2>1, <2>2, <2>7, NothingLeftKeeps, LastContentKeeps
  <2>8. CASE BreaksOff
    BY <2>1, <2>2, <2>8, BreaksOffKeeps
  <2>9. CASE Answer
    BY <2>1, <2>2, <2>9, AnswerKeeps
  <2>10. CASE UNCHANGED vars
    <3>1. UNCHANGED <<runner, streaming, history, said, sent, requests, turn, held, due>>
      BY <2>10 DEF vars, talk
    <3>2. UNCHANGED <<setup, registry, stage>>
      BY <2>10 DEF vars, modelVars
    <3>3. TalkInv'
      BY <3>1, <3>2, UnchangedKeeps
    <3>. QED  BY <2>1, <2>2, <3>3
  <2>. QED  BY <2>1, <2>2, <2>3, <2>4, <2>5, <2>6, <2>7, <2>8, <2>9, <2>10 DEF Next
<1>. QED  BY <1>1, Initially, ModelsInvariance, PTL DEF Spec, IInv

\* What CreateModel takes from the Agentfile, the connection and the environment.
LEMMA CreateFacts ==
    ASSUME setup \in Setups, NEW e, CreateModel(e, setup) # NoModel
    PROVE  LET c == Lookup(setup.rc, e.model)
               m == CreateModel(e, setup)
           IN  /\ m.id = e.model.id /\ m.tuning = e.tuning /\ m.slots = c.slots
               /\ c.apiType \notin {"", "google"} => m.provider = c.apiType
               /\ c.auth \in setup.env => m.key = c.auth
               /\ m.endpoint = PublicBase(m.provider) => m.key # ""
               /\ m.endpoint \in HostsOf(c) \cup BasesOf(c) \cup {PublicBase(m.provider)}
               /\ (m.provider = "openai" /\ HostsOf(c) # {}) => m.endpoint \in HostsOf(c)
               /\ (m.provider # "gemini" /\ HostsOf(c) = {} /\ BasesOf(c) # {}) =>
                     m.endpoint \in BasesOf(c)
<1>. DEFINE c   == Lookup(setup.rc, e.model)
            m   == CreateModel(e, setup)
            env == setup.env
<1>1. "" \notin env /\ \A v \in env : HostURL(v) # ""
  BY ModelsAssumption
<1>2. /\ HostsOf(c) = IF c.host \in env THEN {HostURL(c.host)} ELSE {}
      /\ BasesOf(c) = IF c.base = "" THEN {} ELSE {c.base}
  BY DEF HostsOf, BasesOf
<1>3. HostURL("") = ""
  BY DEF HostURL
<1>4. \/ m = OpenAI(e, c, env) /\ Or(c.apiType, e.model.prefix) = "openai"
      \/ m = Anthropic(e, c, env) /\ Or(c.apiType, e.model.prefix) = "anthropic"
      \/ m = Gemini(e, c, env, setup.sdk) /\ Or(c.apiType, e.model.prefix) \in {"gemini", "google"}
  BY DEF CreateModel, Registered
<1>5. m # NoModel
  OBVIOUS
<1>. HIDE DEF c, m, env
<1>6. CASE m = OpenAI(e, c, env) /\ Or(c.apiType, e.model.prefix) = "openai"
  <2>. DEFINE key      == Getenv(env, Or(c.auth, "OPENAI_API_KEY"))
              endpoint == Or(Or(HostURL(Getenv(env, c.host)), c.base), OpenAIBase)
  <2>1. /\ ~(key = "" /\ endpoint = OpenAIBase)
        /\ m = [provider |-> "openai", id |-> e.model.id, key |-> key,
                endpoint |-> endpoint, tuning |-> e.tuning, slots |-> c.slots]
    BY <1>5, <1>6 DEF OpenAI
  <2>2. c.auth \in env => key = c.auth
    BY <1>1 DEF Getenv, Or
  <2>3. /\ HostsOf(c) # {} => endpoint \in HostsOf(c)
        /\ (HostsOf(c) = {} /\ BasesOf(c) # {}) => endpoint \in BasesOf(c)
        /\ (HostsOf(c) = {} /\ BasesOf(c) = {}) => endpoint = OpenAIBase
    <3>1. CASE c.host \in env
      BY <1>1, <1>2, <3>1 DEF Getenv, Or
    <3>2. CASE c.host \notin env
      BY <1>2, <1>3, <3>2 DEF Getenv, Or
    <3>. QED  BY <3>1, <3>2
  <2>. HIDE DEF key, endpoint
  <2>4. /\ m.provider = "openai" /\ m.id = e.model.id /\ m.key = key /\ m.endpoint = endpoint
        /\ m.tuning = e.tuning /\ m.slots = c.slots
    BY <2>1
  <2>5. c.apiType # "" => m.provider = c.apiType
    BY <1>6, <2>4 DEF Or
  <2>6. m.endpoint = PublicBase(m.provider) => m.key # ""
    BY <2>1, <2>4 DEF PublicBase
  <2>7. PublicBase(m.provider) = OpenAIBase
    BY <2>4 DEF PublicBase
  <2>. QED  BY <2>2, <2>3, <2>4, <2>5, <2>6, <2>7 DEF c, m, env
<1>7. CASE m = Anthropic(e, c, env) /\ Or(c.apiType, e.model.prefix) = "anthropic"
  <2>. DEFINE key      == Getenv(env, Or(c.auth, "ANTHROPIC_API_KEY"))
              endpoint == Or(c.base, AnthropicBase)
  <2>1. /\ ~(key = "" /\ endpoint = AnthropicBase)
        /\ m = [provider |-> "anthropic", id |-> e.model.id, key |-> key,
                endpoint |-> endpoint, tuning |-> e.tuning, slots |-> c.slots]
    BY <1>5, <1>7 DEF Anthropic
  <2>2. c.auth \in env => key = c.auth
    BY <1>1 DEF Getenv, Or
  <2>3. /\ BasesOf(c) # {} => endpoint \in BasesOf(c)
        /\ BasesOf(c) = {} => endpoint = AnthropicBase
    BY <1>2 DEF Or
  <2>. HIDE DEF key, endpoint
  <2>4. /\ m.provider = "anthropic" /\ m.id = e.model.id /\ m.key = key /\ m.endpoint = endpoint
        /\ m.tuning = e.tuning /\ m.slots = c.slots
    BY <2>1
  <2>5. c.apiType # "" => m.provider = c.apiType
    BY <1>7, <2>4 DEF Or
  <2>6. m.endpoint = PublicBase(m.provider) => m.key # ""
    BY <2>1, <2>4 DEF PublicBase
  <2>7. PublicBase(m.provider) = AnthropicBase
    BY <2>4 DEF PublicBase
  <2>. QED  BY <2>2, <2>3, <2>4, <2>5, <2>6, <2>7 DEF c, m, env
<1>8. CASE m = Gemini(e, c, env, setup.sdk) /\ Or(c.apiType, e.model.prefix) \in {"gemini", "google"}
  <2>. DEFINE key == Or(Getenv(env, c.auth),
                        Or(Getenv(env, "GOOGLE_API_KEY"), Getenv(env, "GEMINI_API_KEY")))
  <2>1. /\ key # ""
        /\ m = [provider |-> "gemini", id |-> e.model.id, key |-> key,
                endpoint |-> GoogleBase, tuning |-> e.tuning, slots |-> c.slots]
    BY <1>5, <1>8 DEF Gemini
  <2>2. c.auth \in env => key = c.auth
    BY <1>1 DEF Getenv, Or
  <2>. HIDE DEF key
  <2>4. /\ m.provider = "gemini" /\ m.id = e.model.id /\ m.key = key /\ m.endpoint = GoogleBase
        /\ m.tuning = e.tuning /\ m.slots = c.slots
    BY <2>1
  <2>5. c.apiType \notin {"", "google"} => m.provider = c.apiType
    BY <1>8, <2>4 DEF Or
  <2>6. PublicBase(m.provider) = GoogleBase
    BY <2>4 DEF PublicBase
  <2>. QED  BY <2>1, <2>2, <2>4, <2>5, <2>6 DEF c, m, env
<1>. QED  BY <1>4, <1>6, <1>7, <1>8

\* A request goes to no address that is not configured, with the key, the
\* parameters and the prompt that RequestsAsConfigured says, and to the Agentfile's
\* default until a reload names another, for every Agentfile, runtime.json,
\* environment and runner.
THEOREM RequestsAsConfiguredHolds == Spec => []RequestsAsConfigured
<1>1. IInv => RequestsAsConfigured
  <2>. SUFFICES ASSUME IInv, Waiting PROVE RequestsAsConfigured
    BY DEF RequestsAsConfigured
  <2>1. sent = Request(Default, history) /\ stage = "serving"
    BY DEF Waiting, IInv, TalkInv, Phases
  <2>2. /\ Default # NoModel /\ Default.provider \in {"openai", "anthropic", "gemini"}
        /\ \E e \in Entries : e.name = setup.brain.default /\ Default = CreateModel(e, setup)
    BY <2>1, DefaultServes DEF IInv
  <2>3. PICK e \in Entries : e.name = setup.brain.default /\ Default = CreateModel(e, setup)
    BY <2>2
  <2>. DEFINE c == Lookup(setup.rc, e.model)
  <2>4. /\ Default.id = e.model.id /\ Default.tuning = e.tuning /\ Default.slots = c.slots
        /\ c.apiType \notin {"", "google"} => Default.provider = c.apiType
        /\ c.auth \in setup.env => Default.key = c.auth
        /\ Default.endpoint = PublicBase(Default.provider) => Default.key # ""
        /\ Default.endpoint \in HostsOf(c) \cup BasesOf(c) \cup {PublicBase(Default.provider)}
        /\ (Default.provider = "openai" /\ HostsOf(c) # {}) => Default.endpoint \in HostsOf(c)
        /\ (Default.provider # "gemini" /\ HostsOf(c) = {} /\ BasesOf(c) # {}) =>
              Default.endpoint \in BasesOf(c)
    <3>1. setup \in Setups
      BY DEF IInv, ModelsInv, Shape
    <3>. QED  BY <2>2, <2>3, <3>1, CreateFacts
  <2>5. /\ sent.provider = Default.provider /\ sent.id = Default.id /\ sent.key = Default.key
        /\ sent.endpoint = Default.endpoint /\ sent.prompt = HasPrompt(Default.provider, history)
        /\ \A p \in Params : sent.tuning[p] = Tuning(Default, p)
    BY <2>1 DEF Request
  <2>6. \A p \in Params : (Tuning(Default, p) = "agentfile")
           <=> (p \in e.tuning /\ (Default.provider = "gemini" => p \notin runner.own))
    BY <2>2, <2>4 DEF Tuning, OpenAITuning, AnthropicTuning, GeminiTuning
  <2>7. (Default.provider = "gemini" \/ runner.prompt = "content")
           => HasPrompt(Default.provider, history)
    <3>1. runner.prompt \in {"content", "config"}
      BY ConversationAssumption DEF IInv, TypeOK
    <3>2. Prompted
      BY DEF IInv, TalkInv
    <3>. QED  BY <3>1, <3>2 DEF Prompted, HasPrompt
  <2>. HIDE DEF c
  <2>8. /\ sent.id = e.model.id
        /\ c.apiType \notin {"", "google"} => sent.provider = c.apiType
        /\ c.auth \in setup.env => sent.key = c.auth
        /\ sent.endpoint = PublicBase(sent.provider) => sent.key # ""
        /\ sent.endpoint \in HostsOf(c) \cup BasesOf(c) \cup {PublicBase(sent.provider)}
        /\ (sent.provider = "openai" /\ HostsOf(c) # {}) => sent.endpoint \in HostsOf(c)
        /\ (sent.provider # "gemini" /\ HostsOf(c) = {} /\ BasesOf(c) # {}) =>
              sent.endpoint \in BasesOf(c)
    BY <2>4, <2>5
  <2>9. \A p \in Params : (sent.tuning[p] = "agentfile")
           <=> (p \in e.tuning /\ (sent.provider = "gemini" => p \notin runner.own))
    BY <2>5, <2>6
  <2>10. (sent.provider = "gemini" \/ runner.prompt = "content") => sent.prompt
    BY <2>5, <2>7
  <2>. QED  BY <2>3, <2>4, <2>8, <2>9, <2>10 DEF RequestsAsConfigured, c
<1>. QED  BY <1>1, Invariance, PTL

-----------------------------------------------------------------------------
(***************************************************************************)
(* The messages of a request.                                              *)
(***************************************************************************)
\* What message m shows of content c: all of it, but for results in OpenAI's API,
\* of which the first is shown, and only in a content of the role "tool".
Renders(m, c, provider) ==
    /\ DOMAIN m.blocks \subseteq DOMAIN c.parts
    /\ \A a \in DOMAIN m.blocks :
          /\ m.blocks[a].type = c.parts[a].kind /\ m.blocks[a].n = c.parts[a].n
          /\ c.parts[a].kind = "result" => m.blocks[a].key = IdOrName(c.parts[a])
          /\ c.parts[a].kind = "call" =>
                m.blocks[a].key = IF provider = "anthropic" THEN IdKey(c.parts[a])
                                  ELSE IdOrName(c.parts[a])
    /\ ~Results(c) =>
          /\ DOMAIN m.blocks = DOMAIN c.parts
          /\ m.role = IF provider = "gemini" THEN c.role ELSE MapRole(c.role)
    /\ Results(c) =>
          DOMAIN m.blocks = IF provider # "openai" THEN DOMAIN c.parts
                            ELSE IF c.role = "tool" THEN {1} ELSE {}

\* The block of a part.
LEMMA BlockFacts ==
    \A p, key : Block(p, key).type = p.kind /\ Block(p, key).n = p.n /\ Block(p, key).key = key
BY DEF Block

\* A message of OpenAI shows its content.
LEMMA OpenAIRenders ==
    ASSUME NEW c \in Content, NEW r, Speech(c, TRUE) \/ ResultsBy(c, r)
    PROVE  Renders(OpenAIMessage(c), c, "openai")
<1>. DEFINE m == OpenAIMessage(c)
<1>1. c.parts \in Seq(Part) /\ \A a \in DOMAIN c.parts : c.parts[a].kind \in {"text", "call", "result"}
  <2>1. c.parts \in Seq(Part)
    BY DEF Content
  <2>2. \A a \in DOMAIN c.parts : c.parts[a] \in Part
    BY <2>1
  <2>. QED  BY <2>1, <2>2 DEF Part
<1>2. m.role = MapRole(c.role)
  BY DEF OpenAIMessage
<1>3. CASE Results(c) /\ c.role = "tool"
  <2>1. c.parts # <<>> /\ 1 \in DOMAIN c.parts /\ c.parts[1].kind = "result"
    BY <1>1, <1>3 DEF Results
  <2>2. m.blocks = Blocks(<<c.parts[1]>>, IdOrName)
    BY <1>3, <2>1 DEF OpenAIMessage
  <2>3. DOMAIN m.blocks = {1} /\ m.blocks[1] = Block(c.parts[1], IdOrName(c.parts[1]))
    BY <2>2 DEF Blocks
  <2>4. /\ m.blocks[1].type = c.parts[1].kind /\ m.blocks[1].n = c.parts[1].n
        /\ m.blocks[1].key = IdOrName(c.parts[1])
    BY <2>3, BlockFacts
  <2>. HIDE DEF m
  <2>. QED  BY <1>3, <2>1, <2>3, <2>4 DEF Renders, m
<1>4. CASE Results(c) /\ c.role # "tool"
  <2>1. At(c.parts, "call") = {} /\ At(c.parts, "text") = {}
    BY <1>4 DEF At, Results
  <2>2. m.blocks = Blocks(Of(c.parts, "text"), Plain)
    BY <1>4, <2>1 DEF OpenAIMessage
  <2>3. DOMAIN m.blocks = {}
    BY <2>1, <2>2 DEF Blocks, Of
  <2>. HIDE DEF m
  <2>. QED  BY <1>4, <2>3 DEF Renders, m
<1>5. CASE ~Results(c) /\ At(c.parts, "call") # {}
  <2>1. /\ c.role = "model" /\ \A a \in DOMAIN c.parts : c.parts[a].kind = "call"
    BY <1>5 DEF Speech, ResultsBy, Calls
  <2>2. m.blocks = Blocks(Of(c.parts, "call"), IdOrName) /\ At(c.parts, "call") = DOMAIN c.parts
    BY <1>5, <2>1 DEF OpenAIMessage, At
  <2>3. /\ DOMAIN m.blocks = DOMAIN c.parts
        /\ \A a \in DOMAIN c.parts : m.blocks[a] = Block(c.parts[a], IdOrName(c.parts[a]))
    BY <2>2 DEF Blocks, Of
  <2>4. \A a \in DOMAIN c.parts : /\ m.blocks[a].type = c.parts[a].kind
                                  /\ m.blocks[a].n = c.parts[a].n
                                  /\ m.blocks[a].key = IdOrName(c.parts[a])
    BY <2>3, BlockFacts
  <2>. HIDE DEF m
  <2>. QED  BY <1>2, <1>5, <2>3, <2>4 DEF Renders, m
<1>6. CASE ~Results(c) /\ At(c.parts, "call") = {}
  <2>1. \A a \in DOMAIN c.parts : c.parts[a].kind = "text"
    BY <1>1, <1>6 DEF Speech, ResultsBy, At
  <2>2. ~(c.role = "tool" /\ c.parts # <<>> /\ c.parts[1].kind = "result")
    BY <1>1, <2>1
  <2>3. m.blocks = Blocks(Of(c.parts, "text"), Plain) /\ At(c.parts, "text") = DOMAIN c.parts
    BY <1>6, <2>1, <2>2 DEF OpenAIMessage, At
  <2>4. /\ DOMAIN m.blocks = DOMAIN c.parts
        /\ \A a \in DOMAIN c.parts : m.blocks[a] = Block(c.parts[a], Plain(c.parts[a]))
    BY <2>3 DEF Blocks, Of
  <2>5. \A a \in DOMAIN c.parts : m.blocks[a].type = c.parts[a].kind /\ m.blocks[a].n = c.parts[a].n
    BY <2>4, BlockFacts
  <2>. HIDE DEF m
  <2>. QED  BY <1>2, <1>6, <2>1, <2>4, <2>5 DEF Renders, m
<1>. QED  BY <1>3, <1>4, <1>5, <1>6

\* A message of Anthropic shows its content.
LEMMA AnthropicRenders ==
    ASSUME NEW c \in Content, c.parts # <<>>, c.role # "system",
           NEW r, Speech(c, FALSE) \/ ResultsBy(c, r)
    PROVE  Renders(AnthropicMessage(c), c, "anthropic") /\ AnthropicMessage(c).role # "system"
<1>. DEFINE m == AnthropicMessage(c)
<1>1. c.parts \in Seq(Part) /\ 1 \in DOMAIN c.parts /\ c.role \in Roles
  BY DEF Content
<1>2. /\ DOMAIN m.blocks = DOMAIN c.parts
      /\ \A a \in DOMAIN c.parts : m.blocks[a] = Block(c.parts[a], AnthropicKey(c.parts[a]))
  BY DEF AnthropicMessage, Blocks
<1>3. \A a \in DOMAIN c.parts :
         /\ m.blocks[a].type = c.parts[a].kind /\ m.blocks[a].n = c.parts[a].n
         /\ m.blocks[a].key = AnthropicKey(c.parts[a])
  BY <1>2, BlockFacts
<1>4. m.role = IF c.parts[1].kind = "result" THEN "user" ELSE MapRole(c.role)
  BY DEF AnthropicMessage
<1>5. ~Results(c) => c.parts[1].kind # "result"
  BY <1>1 DEF Speech, ResultsBy
<1>. HIDE DEF m
<1>6. Renders(m, c, "anthropic")
  BY <1>2, <1>3, <1>4, <1>5 DEF Renders, AnthropicKey
<1>7. c.role # "system" => m.role # "system"
  BY <1>1, <1>4 DEF MapRole, Roles
<1>. QED  BY <1>6, <1>7 DEF m

\* Each message of a request shows a content; left out are contents that are
\* empty or the system's.
LEMMA MessagesShow ==
    ASSUME IInv, Waiting
    PROVE  /\ DOMAIN sent.messages \subseteq DOMAIN history
           /\ \A i \in DOMAIN history :
                 i \in DOMAIN sent.messages \/ history[i].role = "system" \/ history[i].parts = <<>>
           /\ \A i \in DOMAIN sent.messages : Renders(sent.messages[i], history[i], sent.provider)
           /\ sent.provider = "anthropic" => \A i \in DOMAIN sent.messages :
                 history[i].role # "system" /\ sent.messages[i].role # "system"
<1>. DEFINE h == history
            ms == sent.messages
<1>1. /\ sent = Request(Default, h) /\ h \in Seq(Content)
      /\ sent.provider \in {"openai", "anthropic", "gemini"}
  <2>1. sent = Request(Default, h) /\ h \in Seq(Content)
    BY DEF Waiting, IInv, TalkInv, Phases, TypeOK
  <2>2. sent.provider \in {"openai", "anthropic", "gemini"}
    BY DEF IInv, TypeOK
  <2>. QED  BY <2>1, <2>2
<1>2. sent.provider = Default.provider /\ ms = Messages(sent.provider, h)
  BY <1>1 DEF Request
<1>3. /\ \A i \in DOMAIN h : h[i] \in Content
      /\ \A i \in DOMAIN h : Speech(h[i], OfOpenAI) \/ ResultsBy(h[i], runner)
  BY <1>1 DEF IInv, TalkInv, ShapedBy
<1>. HIDE DEF h, ms
<1>4. CASE sent.provider = "openai"
  <2>1. ms = [i \in DOMAIN h |-> OpenAIMessage(h[i])]
    BY <1>2, <1>4 DEF Messages, OpenAIMessages
  <2>2. \A i \in DOMAIN h : Renders(OpenAIMessage(h[i]), h[i], "openai")
    <3>1. OfOpenAI = TRUE
      BY <1>2, <1>4 DEF OfOpenAI
    <3>. QED  BY <1>3, <3>1, OpenAIRenders
  <2>. QED  BY <1>4, <2>1, <2>2 DEF h, ms
<1>5. CASE sent.provider = "anthropic"
  <2>. DEFINE kept == {i \in DOMAIN h : h[i].role # "system" /\ h[i].parts # <<>>}
  <2>1. ms = [i \in kept |-> AnthropicMessage(h[i])]
    BY <1>2, <1>5 DEF Messages, AnthropicMessages
  <2>2. \A i \in kept : /\ Renders(AnthropicMessage(h[i]), h[i], "anthropic")
                        /\ AnthropicMessage(h[i]).role # "system" /\ h[i].role # "system"
    <3>1. OfOpenAI = FALSE
      BY <1>2, <1>5 DEF OfOpenAI
    <3>. QED  BY <1>3, <3>1, AnthropicRenders
  <2>. QED  BY <1>5, <2>1, <2>2 DEF h, ms
<1>6. CASE sent.provider = "gemini"
  <2>1. ms = [i \in DOMAIN h |-> [role |-> h[i].role, blocks |-> Blocks(h[i].parts, IdOrName)]]
    BY <1>2, <1>6 DEF Messages, GeminiMessages
  <2>2. ASSUME NEW i \in DOMAIN h PROVE Renders(ms[i], h[i], "gemini")
    <3>1. /\ ms[i].role = h[i].role /\ DOMAIN ms[i].blocks = DOMAIN h[i].parts
          /\ \A a \in DOMAIN h[i].parts :
                ms[i].blocks[a] = Block(h[i].parts[a], IdOrName(h[i].parts[a]))
      BY <2>1 DEF Blocks
    <3>2. \A a \in DOMAIN h[i].parts : /\ ms[i].blocks[a].type = h[i].parts[a].kind
                                       /\ ms[i].blocks[a].n = h[i].parts[a].n
                                       /\ ms[i].blocks[a].key = IdOrName(h[i].parts[a])
      BY <3>1, BlockFacts
    <3>. QED  BY <3>1, <3>2 DEF Renders
  <2>. QED  BY <1>6, <2>1, <2>2 DEF h, ms
<1>. QED  BY <1>1, <1>4, <1>5, <1>6

\* User and model speak in the same parts of a content and blocks of its message.
LEMMA SpokenIsOwn ==
    ASSUME IInv, Waiting, NEW i \in DOMAIN sent.messages
    PROVE  LET m == sent.messages[i] IN
           /\ Spoken(m) = Own(history[i])
           /\ \A a \in Own(history[i]) :
                 /\ m.blocks[a].n = history[i].parts[a].n
                 /\ m.role = IF sent.provider = "gemini" THEN history[i].role
                             ELSE MapRole(history[i].role)
<1>. DEFINE m == sent.messages[i]
            c == history[i]
<1>1. /\ i \in DOMAIN history /\ Renders(m, c, sent.provider)
      /\ sent.provider = "anthropic" => c.role # "system" /\ m.role # "system"
  BY MessagesShow
<1>2. c \in Content /\ (Speech(c, OfOpenAI) \/ ResultsBy(c, runner))
  <2>1. history \in Seq(Content)
    BY DEF IInv, TypeOK
  <2>. QED  BY <1>1, <2>1 DEF IInv, TalkInv, ShapedBy
<1>. HIDE DEF m, c
<1>3. CASE Results(c)
  <2>1. Own(c) = {}
    BY <1>3 DEF Own, Results
  <2>2. Spoken(m) = {}
    BY <1>1, <1>3 DEF Spoken, Renders, Results
  <2>. QED  BY <2>1, <2>2 DEF m, c
<1>4. CASE ~Results(c)
  <2>1. /\ DOMAIN m.blocks = DOMAIN c.parts
        /\ m.role = IF sent.provider = "gemini" THEN c.role ELSE MapRole(c.role)
        /\ \A a \in DOMAIN c.parts : m.blocks[a].type = c.parts[a].kind /\ m.blocks[a].n = c.parts[a].n
    BY <1>1, <1>4 DEF Renders
  <2>2. m.role = "system" <=> c.role = "system"
    BY <2>1 DEF MapRole
  <2>3. Spoken(m) = Own(c)
    BY <2>1, <2>2 DEF Spoken, Own
  <2>. QED  BY <2>1, <2>3 DEF Own, m, c
<1>. QED  BY <1>3, <1>4

\* A request holds all that was said, in that order, whatever was said, by whom,
\* with whatever provider and runner.
THEOREM NothingLostHolds == Spec => []NothingLost
<1>1. IInv => NothingLost
  <2>. SUFFICES ASSUME IInv, Waiting PROVE NothingLost
    <3>1. ~Waiting /\ IInv => NothingLost
      BY DEF NothingLost, IInv
    <3>. QED  BY <3>1
  <2>. DEFINE ms == sent.messages
              h == history
              S == [by : {"user", "model"}, kind : {"text", "call"}]
  <2>1. /\ TypeOK /\ said \in Seq(S) /\ Now = Len(said) /\ sent.provider = Default.provider
        /\ Heard(h, said, Now, Lossy) /\ DOMAIN said = 1..Now
    <3>1. held = <<>> /\ sent.provider = Default.provider
      BY DEF Waiting, IInv, TalkInv, Phases
    <3>2. TypeOK /\ said \in Seq(S) /\ Heard(h, said, Now, Lossy)
      BY DEF IInv, TypeOK, TalkInv
    <3>3. Now = Len(said)
      BY <3>1, TalkFacts
    <3>. QED  BY <3>1, <3>2, <3>3
  <2>2. \A n : LeftOut(n) <=> Skipped(said, n, Lossy)
    BY <2>1 DEF LeftOut, Skipped, Lossy, OfOpenAI
  <2>3. /\ DOMAIN ms \subseteq DOMAIN h
        /\ \A i \in DOMAIN ms : /\ Spoken(ms[i]) = Own(h[i])
                                /\ \A a \in Own(h[i]) :
                                      /\ ms[i].blocks[a].n = h[i].parts[a].n
                                      /\ ms[i].role = IF sent.provider = "gemini" THEN h[i].role
                                                      ELSE MapRole(h[i].role)
    BY MessagesShow, SpokenIsOwn
  <2>4. \A i \in DOMAIN h : Own(h[i]) # {} => i \in DOMAIN ms
    <3>1. \A i \in DOMAIN h : i \in DOMAIN ms \/ h[i].role = "system" \/ h[i].parts = <<>>
      BY MessagesShow
    <3>. QED  BY <3>1 DEF Own
  <2>. HIDE DEF ms, h, S
  <2>5. \A n \in DOMAIN said :
           LeftOut(n) \/ \E i \in DOMAIN ms : \E a \in Spoken(ms[i]) : ms[i].blocks[a].n = n
    <3>. SUFFICES ASSUME NEW n \in DOMAIN said, ~LeftOut(n)
                  PROVE  \E i \in DOMAIN ms : \E a \in Spoken(ms[i]) : ms[i].blocks[a].n = n
      OBVIOUS
    <3>1. PICK i \in DOMAIN h : \E a \in Own(h[i]) : h[i].parts[a].n = n
      BY <2>1, <2>2 DEF Heard
    <3>. QED  BY <2>3, <2>4, <3>1
  <2>6. ASSUME NEW i \in DOMAIN ms, NEW a \in Spoken(ms[i])
        PROVE  /\ ms[i].blocks[a].n \in DOMAIN said /\ ~LeftOut(ms[i].blocks[a].n)
               /\ ms[i].role \in IF said[ms[i].blocks[a].n].by = "user" THEN {"user"}
                                 ELSE {"model", "assistant"}
    <3>1. i \in DOMAIN h /\ a \in Own(h[i]) /\ ms[i].blocks[a].n = h[i].parts[a].n
      BY <2>3
    <3>2. /\ h[i].parts[a].n \in 1..Now /\ ~Skipped(said, h[i].parts[a].n, Lossy)
          /\ said[h[i].parts[a].n] = [by |-> h[i].role, kind |-> h[i].parts[a].kind]
      BY <2>1, <3>1 DEF Heard
    <3>3. said[h[i].parts[a].n].by = h[i].role /\ said[h[i].parts[a].n] \in S
      BY <2>1, <3>2
    <3>4. h[i].role \in {"user", "model"}
      BY <3>3 DEF S
    <3>. QED  BY <2>1, <2>2, <2>3, <3>1, <3>2, <3>3, <3>4 DEF MapRole
  <2>7. \A i, j \in DOMAIN ms : \A a \in Spoken(ms[i]), b \in Spoken(ms[j]) :
           Before(i, a, j, b) => ms[i].blocks[a].n < ms[j].blocks[b].n
    BY <2>1, <2>3 DEF Heard
  <2>. QED  BY <2>1, <2>5, <2>6, <2>7 DEF NothingLost, ms
<1>. QED  BY <1>1, Invariance, PTL

\* Whether the results of this runner are shown at all.
Shown == sent.provider = "openai" => runner.role = "tool"

\* The key of a call.
CallKey(p) == IF sent.provider = "anthropic" THEN IdKey(p) ELSE IdOrName(p)

\* What the messages of a request show of calls and results.
LEMMA CallsShown ==
    ASSUME IInv, Waiting
    PROVE  LET ms == sent.messages
               h  == history
           IN  /\ DOMAIN ms \subseteq DOMAIN h
               /\ \A i \in DOMAIN ms : \A a \in DOMAIN ms[i].blocks :
                     /\ a \in DOMAIN h[i].parts
                     /\ ms[i].blocks[a].type = h[i].parts[a].kind
                     /\ ms[i].blocks[a].n = h[i].parts[a].n
               /\ \A i \in DOMAIN h : Calls(h[i]) # {} => i \in DOMAIN ms
               /\ \A i \in DOMAIN ms : \A a \in Calls(h[i]) :
                     a \in DOMAIN ms[i].blocks /\ ms[i].blocks[a].key = CallKey(h[i].parts[a])
               /\ \A i \in DOMAIN h : (Results(h[i]) /\ Shown) =>
                     /\ i \in DOMAIN ms
                     /\ DOMAIN ms[i].blocks
                           = IF sent.provider = "openai" THEN {1} ELSE DOMAIN h[i].parts
                     /\ \A a \in DOMAIN ms[i].blocks :
                           ms[i].blocks[a].key = IdOrName(h[i].parts[a])
               /\ \A i \in DOMAIN ms : HasType(ms[i], "result") => Results(h[i]) /\ Shown
<1>. DEFINE ms == sent.messages
            h  == history
<1>1. /\ DOMAIN ms \subseteq DOMAIN h
      /\ \A i \in DOMAIN h : i \in DOMAIN ms \/ h[i].role = "system" \/ h[i].parts = <<>>
      /\ \A i \in DOMAIN ms : Renders(ms[i], h[i], sent.provider)
  BY MessagesShow
<1>2. \A i \in DOMAIN h : Speech(h[i], OfOpenAI) \/ ResultsBy(h[i], runner)
  BY DEF IInv, TalkInv, ShapedBy
<1>3. runner.role # "system"
  BY TalkFacts
<1>. HIDE DEF ms, h
<1>4. \A i \in DOMAIN ms : \A a \in DOMAIN ms[i].blocks :
         /\ a \in DOMAIN h[i].parts
         /\ ms[i].blocks[a].type = h[i].parts[a].kind
         /\ ms[i].blocks[a].n = h[i].parts[a].n
  BY <1>1 DEF Renders
<1>5. \A i \in DOMAIN h : Calls(h[i]) # {} => i \in DOMAIN ms /\ ~Results(h[i])
  <2>. SUFFICES ASSUME NEW i \in DOMAIN h, Calls(h[i]) # {} PROVE i \in DOMAIN ms /\ ~Results(h[i])
    OBVIOUS
  <2>1. ~Results(h[i])
    BY CallsOrResults
  <2>2. h[i].role = "model"
    BY <1>2, <2>1 DEF Speech, ResultsBy
  <2>3. h[i].parts # <<>>
    BY DEF Calls, At
  <2>. QED  BY <1>1, <2>1, <2>2, <2>3
<1>6. \A i \in DOMAIN ms : \A a \in Calls(h[i]) :
         a \in DOMAIN ms[i].blocks /\ ms[i].blocks[a].key = CallKey(h[i].parts[a])
  <2>. SUFFICES ASSUME NEW i \in DOMAIN ms, NEW a \in Calls(h[i])
                PROVE  a \in DOMAIN ms[i].blocks /\ ms[i].blocks[a].key = CallKey(h[i].parts[a])
    OBVIOUS
  <2>1. a \in DOMAIN h[i].parts /\ h[i].parts[a].kind = "call" /\ ~Results(h[i])
    BY <1>1, <1>5 DEF Calls, At
  <2>. QED  BY <1>1, <2>1 DEF Renders, CallKey
<1>7. \A i \in DOMAIN h : (Results(h[i]) /\ Shown) =>
         /\ i \in DOMAIN ms
         /\ DOMAIN ms[i].blocks = IF sent.provider = "openai" THEN {1} ELSE DOMAIN h[i].parts
         /\ \A a \in DOMAIN ms[i].blocks : ms[i].blocks[a].key = IdOrName(h[i].parts[a])
  <2>. SUFFICES ASSUME NEW i \in DOMAIN h, Results(h[i]), Shown
                PROVE  /\ i \in DOMAIN ms
                       /\ DOMAIN ms[i].blocks
                             = IF sent.provider = "openai" THEN {1} ELSE DOMAIN h[i].parts
                       /\ \A a \in DOMAIN ms[i].blocks :
                             ms[i].blocks[a].key = IdOrName(h[i].parts[a])
    OBVIOUS
  <2>1. /\ h[i].parts # <<>> /\ \A a \in DOMAIN h[i].parts : h[i].parts[a].kind = "result"
    BY DEF Results
  <2>2. ResultsBy(h[i], runner)
    <3>1. ~Speech(h[i], OfOpenAI)
      <4>1. h[i] \in Content
        BY <1>1 DEF IInv, TypeOK, h
      <4>2. h[i].parts \in Seq(Part)
        BY <4>1 DEF Content
      <4>3. 1 \in DOMAIN h[i].parts
        BY <2>1, <4>2
      <4>. QED  BY <2>1, <4>3 DEF Speech
    <3>. QED  BY <1>2, <3>1
  <2>3. h[i].role = runner.role
    BY <2>2 DEF ResultsBy
  <2>4. i \in DOMAIN ms
    BY <1>1, <1>3, <2>1, <2>3
  <2>. QED  BY <1>1, <2>1, <2>3, <2>4 DEF Renders, Shown
<1>8. \A i \in DOMAIN ms : HasType(ms[i], "result") => Results(h[i]) /\ Shown
  <2>. SUFFICES ASSUME NEW i \in DOMAIN ms, HasType(ms[i], "result") PROVE Results(h[i]) /\ Shown
    OBVIOUS
  <2>1. PICK a \in DOMAIN ms[i].blocks : ms[i].blocks[a].type = "result"
    BY DEF HasType
  <2>2. a \in DOMAIN h[i].parts /\ h[i].parts[a].kind = "result" /\ i \in DOMAIN h
    BY <1>1, <1>4, <2>1
  <2>3. Results(h[i]) /\ h[i].role = runner.role
    BY <1>2, <2>2 DEF Speech, ResultsBy
  <2>4. Shown
    BY <1>1, <2>1, <2>3 DEF Renders, Shown
  <2>. QED  BY <2>3, <2>4
<1>. QED  BY <1>1, <1>4, <1>5, <1>6, <1>7, <1>8 DEF ms, h

\* The results that follow a call in the messages are those that follow it in the
\* history.
LEMMA FollowsUpto ==
    ASSUME IInv, Waiting, NEW i \in DOMAIN history, Calls(history[i]) # {},
           NEW j \in DOMAIN sent.messages
    PROVE  Follows(sent.messages, i, j) <=> Upto(history, i, j) /\ Shown
<1>. DEFINE ms == sent.messages
            h  == history
<1>1. /\ DOMAIN ms \subseteq DOMAIN h /\ i \in DOMAIN ms /\ j \in DOMAIN ms
      /\ \A k \in DOMAIN ms : HasType(ms[k], "result") => Results(h[k]) /\ Shown
      /\ \A k \in DOMAIN h : Calls(h[k]) # {} => k \in DOMAIN ms
  BY CallsShown
<1>2. \A k \in DOMAIN ms : Calls(h[k]) # {} => HasType(ms[k], "call")
  <2>. SUFFICES ASSUME NEW k \in DOMAIN ms, NEW a \in Calls(h[k]) PROVE HasType(ms[k], "call")
    OBVIOUS
  <2>1. a \in DOMAIN ms[k].blocks /\ ms[k].blocks[a].type = h[k].parts[a].kind
    BY CallsShown
  <2>. QED  BY <2>1 DEF Calls, At, HasType
<1>3. \A k \in DOMAIN ms : Results(h[k]) /\ Shown => HasType(ms[k], "result") /\ ~HasType(ms[k], "call")
  <2>. SUFFICES ASSUME NEW k \in DOMAIN ms, Results(h[k]), Shown
                PROVE  HasType(ms[k], "result") /\ ~HasType(ms[k], "call")
    OBVIOUS
  <2>1. /\ DOMAIN ms[k].blocks = IF sent.provider = "openai" THEN {1} ELSE DOMAIN h[k].parts
        /\ \A a \in DOMAIN ms[k].blocks :
              a \in DOMAIN h[k].parts /\ ms[k].blocks[a].type = h[k].parts[a].kind
    BY <1>1, CallsShown
  <2>2. \A a \in DOMAIN ms[k].blocks : ms[k].blocks[a].type = "result"
    BY <2>1 DEF Results
  <2>3. DOMAIN ms[k].blocks # {}
    <3>1. h[k].parts # <<>> /\ h[k] \in Content
      BY <1>1 DEF Results, IInv, TypeOK
    <3>2. h[k].parts \in Seq(Part)
      BY <3>1 DEF Content
    <3>3. 1 \in DOMAIN h[k].parts
      BY <3>1, <3>2
    <3>. QED  BY <2>1, <3>3
  <2>. QED  BY <2>2, <2>3 DEF HasType
<1>4. h \in Seq(Content) /\ HaveCalls(h) /\ DOMAIN h \subseteq Nat
  <2>1. h \in Seq(Content) /\ HaveCalls(h)
    BY DEF IInv, TypeOK, TalkInv, Answered
  <2>. QED  BY <2>1
<1>. HIDE DEF ms, h
<1>5. ASSUME Upto(h, i, j), Shown PROVE Follows(ms, i, j)
  BY <1>1, <1>3, <1>5 DEF Upto, Follows
<1>6. ASSUME Follows(ms, i, j) PROVE Upto(h, i, j) /\ Shown
  <2>1. i < j /\ j <= j /\ j \in DOMAIN h
    BY <1>1, <1>4, <1>6 DEF Follows
  <2>2. Results(h[j]) /\ Shown
    BY <1>1, <1>6, <2>1 DEF Follows
  <2>3. PICK m \in DOMAIN h : Calls(h[m]) # {} /\ Upto(h, m, j)
    BY <1>4, <2>1, <2>2 DEF HaveCalls
  <2>4. m \in DOMAIN ms /\ HasType(ms[m], "call") /\ m < j
    BY <1>1, <1>2, <2>3 DEF Upto
  <2>5. ~(i < m)
    <3>1. m <= j
      BY <1>1, <1>4, <2>1, <2>4
    <3>. QED  BY <1>6, <2>4, <3>1 DEF Follows
  <2>6. ~(m < i)
    <3>1. i <= j
      BY <1>1, <1>4, <2>1
    <3>2. ~Results(h[i])
      BY CallsOrResults DEF h
    <3>. QED  BY <1>1, <2>3, <3>1, <3>2 DEF Upto
  <2>7. m = i
    BY <1>1, <1>4, <2>5, <2>6
  <2>. QED  BY <2>2, <2>3, <2>7
<1>. QED  BY <1>5, <1>6 DEF ms, h

\* What the history says of calls and results when a request is made.
LEMMA WaitingFacts ==
    ASSUME IInv, Waiting
    PROVE  LET h == history IN
           /\ h \in Seq(Content) /\ DOMAIN h \subseteq Nat
           /\ \A i \in DOMAIN h : \A a \in DOMAIN h[i].parts :
                 h[i].parts[a].kind # "text" => KeyedBy(h[i].parts[a], runner)
           /\ AnswerCalls(h) /\ HaveResults(h, {}) /\ OneResult(h, {}) /\ Together(h, runner)
           /\ OneCall(h)
           /\ \A i, j \in DOMAIN h : Upto(h, i, j) => ResultsBy(h[j], runner)
           /\ "" \notin Tools
<1>1. history \in Seq(Content) /\ ShapedBy(history, runner, OfOpenAI) /\ NumberedBy(history, runner)
  BY DEF IInv, TypeOK, TalkInv
<1>2. Answered(history, {}, runner)
  <2>1. due = <<>>
    BY DEF Waiting, IInv, TalkInv, Phases
  <2>. QED  BY <2>1, TalkFacts DEF IInv, TalkInv
<1>3. OneCall(history)
  <2>1. Heard(history, said, Now, Lossy)
    BY DEF IInv, TalkInv
  <2>. QED  BY <1>1, <2>1, CallsDistinct
<1>4. \A i, j \in DOMAIN history : Upto(history, i, j) => ResultsBy(history[j], runner)
  <2>. SUFFICES ASSUME NEW i \in DOMAIN history, NEW j \in DOMAIN history, Upto(history, i, j)
                PROVE  ResultsBy(history[j], runner)
    OBVIOUS
  <2>1. j <= j
    BY <1>1
  <2>2. Results(history[j])
    BY <2>1 DEF Upto
  <2>3. history[j] \in Content
    BY <1>1
  <2>4. history[j].parts \in Seq(Part) /\ history[j].parts # <<>>
    BY <2>2, <2>3 DEF Content, Results
  <2>5. 1 \in DOMAIN history[j].parts
    BY <2>4
  <2>. QED  BY <1>1, <2>2, <2>5 DEF ShapedBy, Speech, Results
<1>5. "" \notin Tools
  BY ConversationAssumption
<1>6. DOMAIN history \subseteq Nat
  BY <1>1
<1>. QED  BY <1>1, <1>2, <1>3, <1>4, <1>5, <1>6 DEF NumberedBy, Answered

\* The content can be related: each of its calls has the only result with its key.
LEMMA RelatablePairs ==
    ASSUME IInv, Waiting, sent.provider # "gemini",
           NEW i \in DOMAIN history, NEW a \in Calls(history[i]), Relatable(history[i])
    PROVE  LET ms   == sent.messages
               call == ms[i].blocks[a]
           IN  /\ call.key # NoKey
               /\ \E j \in DOMAIN ms : \E b \in DOMAIN ms[j].blocks :
                     ms[j].blocks[b].n = call.n /\ OnlyResult(ms, i, j, b, call.key)
<1>. DEFINE ms == sent.messages
            h  == history
            p  == h[i].parts[a]
            openai == sent.provider = "openai"
<1>1. /\ h \in Seq(Content) /\ DOMAIN h \subseteq Nat
      /\ \A k \in DOMAIN h : \A e \in DOMAIN h[k].parts :
            h[k].parts[e].kind # "text" => KeyedBy(h[k].parts[e], runner)
      /\ AnswerCalls(h) /\ HaveResults(h, {}) /\ OneResult(h, {}) /\ Together(h, runner)
      /\ OneCall(h)
      /\ \A k, j \in DOMAIN h : Upto(h, k, j) => ResultsBy(h[j], runner)
      /\ "" \notin Tools
  BY WaitingFacts
<1>2. /\ DOMAIN ms \subseteq DOMAIN h /\ i \in DOMAIN ms /\ a \in DOMAIN ms[i].blocks
      /\ ms[i].blocks[a].key = CallKey(p) /\ ms[i].blocks[a].n = p.n
      /\ \A k \in DOMAIN ms : \A e \in DOMAIN ms[k].blocks :
            e \in DOMAIN h[k].parts /\ ms[k].blocks[e].n = h[k].parts[e].n
      /\ \A k \in DOMAIN h : (Results(h[k]) /\ Shown) =>
            /\ k \in DOMAIN ms
            /\ DOMAIN ms[k].blocks = IF openai THEN {1} ELSE DOMAIN h[k].parts
            /\ \A e \in DOMAIN ms[k].blocks : ms[k].blocks[e].key = IdOrName(h[k].parts[e])
  BY CallsShown
<1>3. \A j \in DOMAIN ms : Follows(ms, i, j) <=> Upto(h, i, j) /\ Shown
  BY FollowsUpto
<1>18. \A k \in DOMAIN h : h[k] \in Content
  BY DEF IInv, TypeOK
<1>4. /\ Shown /\ (~openai => runner.ids)
      /\ openai /\ runner.merged => \A e, f \in Calls(h[i]) : e = f
      /\ openai => (runner.ids \/ \A e, f \in Calls(h[i]) :
                                     h[i].parts[e].tool = h[i].parts[f].tool => e = f)
  BY DEF Relatable, Shown, Calls
<1>5. sent.provider \in {"openai", "anthropic"}
  BY DEF IInv, TypeOK
<1>. HIDE DEF ms, h, openai
<1>6. \A e \in Calls(h[i]) : KeyedBy(h[i].parts[e], runner)
  BY <1>1, <1>2 DEF Calls, At
<1>7. KeyedBy(p, runner)
  BY <1>6 DEF h
<1>8. /\ runner.ids  => CallKey(p) = [id |-> p.n, name |-> ""]
      /\ ~runner.ids => CallKey(p) = [id |-> 0, name |-> p.tool]
  <2>1. CASE runner.ids
    BY <1>7, <2>1 DEF CallKey, IdOrName, IdKey, NameKey, KeyedBy
  <2>2. CASE ~runner.ids
    <3>1. sent.provider # "anthropic"
      BY <1>4, <1>5, <2>2 DEF openai
    <3>. QED  BY <1>7, <2>2, <3>1 DEF CallKey, IdOrName, IdKey, NameKey, KeyedBy
  <2>. QED  BY <2>1, <2>2
<1>9. CallKey(p) # NoKey
  <2>1. p.n # 0 /\ p.tool # ""
    BY <1>1, <1>7 DEF KeyedBy
  <2>. HIDE DEF p
  <2>. DEFINE key == CallKey(p)
  <2>4. NoKey.id = 0 /\ NoKey.name = ""
    BY DEF NoKey
  <2>5. CASE runner.ids
    <3>1. key = [id |-> p.n, name |-> ""]
      BY <1>8, <2>5
    <3>. HIDE DEF key
    <3>2. key.id = p.n
      BY <3>1
    <3>. QED  BY <2>1, <2>4, <3>2 DEF key
  <2>6. CASE ~runner.ids
    <3>1. key = [id |-> 0, name |-> p.tool]
      BY <1>8, <2>6
    <3>. HIDE DEF key
    <3>2. key.name = p.tool
      BY <3>1
    <3>. QED  BY <2>1, <2>4, <3>2 DEF key
  <2>. QED  BY <2>5, <2>6
<1>10. PICK j \in DOMAIN h : \E b \in DOMAIN h[j].parts :
          Upto(h, i, j) /\ SameCall(h[j].parts[b], h[i].parts[a])
  <2>1. i \in DOMAIN h /\ a \in Calls(h[i])
    BY DEF h
  <2>. QED  BY <1>1, <2>1 DEF HaveResults
<1>11. PICK b \in DOMAIN h[j].parts : SameCall(h[j].parts[b], p)
  BY <1>10 DEF h
<1>12. Upto(h, i, j) /\ ResultsBy(h[j], runner) /\ Results(h[j]) /\ i \in DOMAIN h /\ a \in Calls(h[i])
  BY <1>1, <1>2, <1>10 DEF ResultsBy, h
<1>13. \A k \in DOMAIN h : Upto(h, i, k) =>
          \A c \in DOMAIN h[k].parts :
             /\ h[k].parts[c].kind = "result"
             /\ h[k].parts[c].n = p.n => k = j /\ c = b
  <2>. SUFFICES ASSUME NEW k \in DOMAIN h, Upto(h, i, k), NEW c \in DOMAIN h[k].parts
                PROVE  /\ h[k].parts[c].kind = "result"
                       /\ h[k].parts[c].n = p.n => k = j /\ c = b
    OBVIOUS
  <2>1. h[k].parts[c].kind = "result" /\ h[j].parts[b].kind = "result"
    BY <1>1, <1>12 DEF ResultsBy, Results
  <2>2. h[j].parts[b].n = p.n
    BY <1>11 DEF SameCall
  <2>3. h[k].parts[c].n = h[j].parts[b].n => k = j /\ c = b
    <3>1. OneResult(h, {})
      BY <1>1
    <3>. QED  BY <2>1, <3>1 DEF OneResult
  <2>. HIDE DEF p
  <2>. QED  BY <2>1, <2>2, <2>3
<1>14. b \in DOMAIN ms[j].blocks
  <2>1. CASE openai
    <3>1. CASE runner.merged
      <4>1. 1 \in DOMAIN h[j].parts
        <5>1. h[j] \in Content /\ h[j].parts # <<>>
          BY <1>12, <1>18 DEF Results
        <5>2. h[j].parts \in Seq(Part)
          BY <5>1 DEF Content
        <5>. QED  BY <5>1, <5>2
      <4>2. PICK e \in Calls(h[i]) : SameCall(h[j].parts[1], h[i].parts[e])
        BY <1>1, <1>12, <4>1 DEF AnswerCalls
      <4>3. e = a
        BY <1>4, <1>12, <2>1, <3>1
      <4>4. h[j].parts[1].n = p.n
        BY <4>2, <4>3 DEF SameCall, h
      <4>5. b = 1
        BY <1>12, <1>13, <4>1, <4>4
      <4>. QED  BY <1>2, <1>4, <1>12, <2>1, <4>5
    <3>2. CASE ~runner.merged
      <4>1. Len(h[j].parts) = 1
        BY <1>12, <3>2 DEF ResultsBy
      <4>2. h[j] \in Content
        BY <1>18
      <4>3. h[j].parts \in Seq(Part)
        BY <4>2 DEF Content
      <4>4. b = 1
        BY <4>1, <4>3
      <4>. QED  BY <1>2, <1>4, <1>12, <2>1, <4>4
    <3>. QED  BY <3>1, <3>2
  <2>2. CASE ~openai
    BY <1>2, <1>4, <1>12, <2>2
  <2>. QED  BY <2>1, <2>2
<1>15. j \in DOMAIN ms /\ ms[j].blocks[b].n = p.n
  <2>1. j \in DOMAIN ms
    BY <1>2, <1>4, <1>12
  <2>. QED  BY <1>2, <1>11, <1>14, <2>1 DEF SameCall
<1>16. ASSUME NEW k \in DOMAIN ms, Follows(ms, i, k), NEW c \in DOMAIN ms[k].blocks
       PROVE  ms[k].blocks[c].key = CallKey(p) <=> (k = j /\ c = b)
  <2>1. k \in DOMAIN h /\ Upto(h, i, k) /\ c \in DOMAIN h[k].parts
    BY <1>2, <1>3, <1>16
  <2>. DEFINE q == h[k].parts[c]
  <2>2. /\ q.kind = "result" /\ (q.n = p.n => k = j /\ c = b)
        /\ Results(h[k])
    <3>1. q.kind = "result" /\ (q.n = p.n => k = j /\ c = b)
      BY <1>13, <2>1
    <3>2. ResultsBy(h[k], runner)
      BY <1>1, <1>12, <2>1
    <3>. QED  BY <3>1, <3>2 DEF ResultsBy
  <2>3. PICK e \in Calls(h[i]) : SameCall(q, h[i].parts[e])
    BY <1>1, <1>12, <2>1 DEF AnswerCalls
  <2>4. KeyedBy(q, runner)
    BY <1>1, <2>1, <2>2
  <2>5. ms[k].blocks[c].key = IdOrName(q)
    BY <1>2, <1>4, <1>16, <2>1, <2>2
  <2>6. /\ runner.ids  => IdOrName(q) = [id |-> q.n, name |-> ""]
        /\ ~runner.ids => IdOrName(q) = [id |-> 0, name |-> q.tool]
    BY <2>4 DEF IdOrName, IdKey, NameKey, KeyedBy
  <2>7. (k = j /\ c = b) => q.n = p.n /\ q.tool = p.tool
    BY <1>11 DEF SameCall
  <2>8. ~runner.ids /\ q.tool = p.tool => q.n = p.n
    <3>. SUFFICES ASSUME ~runner.ids, q.tool = p.tool PROVE q.n = p.n
      OBVIOUS
    <3>1. h[i].parts[e].tool = h[i].parts[a].tool
      BY <2>3 DEF SameCall, h
    <3>2. e = a
      BY <1>4, <1>12, <3>1
    <3>. QED  BY <2>3, <3>2 DEF SameCall, h
  <2>9. IdOrName(q) = CallKey(p) <=> IF runner.ids THEN q.n = p.n ELSE q.tool = p.tool
    <3>. HIDE DEF q, p
    <3>1. CASE runner.ids
      <4>1. IdOrName(q) = [id |-> q.n, name |-> ""] /\ CallKey(p) = [id |-> p.n, name |-> ""]
        BY <1>8, <2>6, <3>1
      <4>2. [id |-> q.n, name |-> ""] = [id |-> p.n, name |-> ""] => q.n = p.n
        OBVIOUS
      <4>. QED  BY <3>1, <4>1, <4>2
    <3>2. CASE ~runner.ids
      <4>1. IdOrName(q) = [id |-> 0, name |-> q.tool] /\ CallKey(p) = [id |-> 0, name |-> p.tool]
        BY <1>8, <2>6, <3>2
      <4>2. IdOrName(q).name = q.tool /\ CallKey(p).name = p.tool
        BY <4>1
      <4>. QED  BY <3>2, <4>1, <4>2
    <3>. QED  BY <3>1, <3>2
  <2>. HIDE DEF q, p
  <2>. QED  BY <2>2, <2>5, <2>7, <2>8, <2>9
<1>17. OnlyResult(ms, i, j, b, CallKey(p))
  <2>1. Follows(ms, i, j)
    BY <1>3, <1>4, <1>12, <1>15
  <2>. QED  BY <1>16, <2>1 DEF OnlyResult
<1>. QED  BY <1>2, <1>9, <1>14, <1>15, <1>17 DEF ms

\* The calls of a content are paired: it can be related.
LEMMA PairsRelatable ==
    ASSUME IInv, Waiting, sent.provider # "gemini", Paired(sent.messages),
           NEW i \in DOMAIN history
    PROVE  Relatable(history[i])
<1>. DEFINE ms == sent.messages
            h  == history
            K(a) == ms[i].blocks[a].key
<1>. SUFFICES ASSUME Calls(h[i]) # {} PROVE Relatable(h[i])
  BY DEF Relatable, Calls
<1>1. /\ h \in Seq(Content)
      /\ \A k \in DOMAIN h : \A e \in DOMAIN h[k].parts :
            h[k].parts[e].kind # "text" => KeyedBy(h[k].parts[e], runner)
      /\ Together(h, runner) /\ OneCall(h)
  BY WaitingFacts
<1>2. /\ DOMAIN ms \subseteq DOMAIN h /\ i \in DOMAIN ms
      /\ \A a \in Calls(h[i]) : /\ a \in DOMAIN ms[i].blocks
                                /\ ms[i].blocks[a].type = "call"
                                /\ ms[i].blocks[a].n = h[i].parts[a].n
                                /\ K(a) = CallKey(h[i].parts[a])
      /\ \A k \in DOMAIN h : (Results(h[k]) /\ Shown) =>
            DOMAIN ms[k].blocks = IF sent.provider = "openai" THEN {1} ELSE DOMAIN h[k].parts
      /\ \A k \in DOMAIN ms : HasType(ms[k], "result") => Results(h[k]) /\ Shown
  BY CallsShown DEF Calls, At
<1>3. \A j \in DOMAIN ms : Follows(ms, i, j) <=> Upto(h, i, j) /\ Shown
  BY FollowsUpto
<1>4. sent.provider \in {"openai", "anthropic"}
  BY DEF IInv, TypeOK
<1>5. \A a \in Calls(h[i]) :
         /\ K(a) # NoKey
         /\ \E j \in DOMAIN ms : \E b \in DOMAIN ms[j].blocks :
               ms[j].blocks[b].n = ms[i].blocks[a].n /\ OnlyResult(ms, i, j, b, K(a))
  BY <1>2 DEF Paired
<1>6. PICK a \in Calls(h[i]) : TRUE
  OBVIOUS
<1>. HIDE DEF ms, h, K
<1>7. Shown
  BY <1>3, <1>5, <1>6 DEF OnlyResult
<1>8. CASE sent.provider = "anthropic"
  <2>1. CallKey(h[i].parts[a]) # NoKey
    BY <1>2, <1>5, <1>6
  <2>2. h[i].parts[a].id # 0
    BY <1>8, <2>1 DEF CallKey, IdKey, NoKey
  <2>3. KeyedBy(h[i].parts[a], runner)
    BY <1>1, <1>2 DEF Calls, At
  <2>4. runner.ids
    BY <2>2, <2>3 DEF KeyedBy
  <2>. QED  BY <1>8, <2>4 DEF Relatable, h
<1>9. CASE sent.provider = "openai"
  <2>1. runner.role = "tool"
    BY <1>7, <1>9 DEF Shown
  <2>2. ASSUME runner.merged, NEW e \in Calls(h[i]), NEW f \in Calls(h[i]) PROVE e = f
    <3>1. PICK j \in DOMAIN ms : \E b \in DOMAIN ms[j].blocks :
             ms[j].blocks[b].n = h[i].parts[e].n /\ OnlyResult(ms, i, j, b, K(e))
      BY <1>2, <1>5
    <3>2. PICK k \in DOMAIN ms : \E b \in DOMAIN ms[k].blocks :
             ms[k].blocks[b].n = h[i].parts[f].n /\ OnlyResult(ms, i, k, b, K(f))
      BY <1>2, <1>5
    <3>3. Upto(h, i, j) /\ Upto(h, i, k) /\ Follows(ms, i, j)
      BY <1>3, <3>1, <3>2 DEF OnlyResult
    <3>4. j = k
      BY <1>1, <1>2, <2>2, <3>3 DEF Together
    <3>5. DOMAIN ms[j].blocks = {1}
      <4>1. j <= j /\ i < j
        BY <1>1, <1>2, <3>3 DEF Upto
      <4>2. Results(h[j])
        BY <1>2, <3>3, <4>1 DEF Upto
      <4>. QED  BY <1>2, <1>7, <1>9, <4>2
    <3>6. h[i].parts[e].n = h[i].parts[f].n
      BY <3>1, <3>2, <3>4, <3>5
    <3>. QED  BY <1>1, <1>2, <3>6 DEF OneCall
  <2>3. ASSUME ~runner.ids, NEW e \in Calls(h[i]), NEW f \in Calls(h[i]),
               h[i].parts[e].tool = h[i].parts[f].tool
        PROVE  e = f
    <3>1. PICK j \in DOMAIN ms : \E b \in DOMAIN ms[j].blocks :
             ms[j].blocks[b].n = h[i].parts[e].n /\ OnlyResult(ms, i, j, b, K(e))
      BY <1>2, <1>5
    <3>2. PICK b \in DOMAIN ms[j].blocks :
             ms[j].blocks[b].n = h[i].parts[e].n /\ OnlyResult(ms, i, j, b, K(e))
      BY <3>1
    <3>3. PICK k \in DOMAIN ms : \E d \in DOMAIN ms[k].blocks :
             ms[k].blocks[d].n = h[i].parts[f].n /\ OnlyResult(ms, i, k, d, K(f))
      BY <1>2, <1>5
    <3>4. PICK d \in DOMAIN ms[k].blocks :
             ms[k].blocks[d].n = h[i].parts[f].n /\ OnlyResult(ms, i, k, d, K(f))
      BY <3>3
    <3>5. K(e) = K(f)
      <4>1. KeyedBy(h[i].parts[e], runner) /\ KeyedBy(h[i].parts[f], runner)
        BY <1>1, <1>2 DEF Calls, At
      <4>2. CallKey(h[i].parts[e]) = CallKey(h[i].parts[f])
        BY <1>9, <2>3, <4>1 DEF CallKey, IdOrName, NameKey, KeyedBy
      <4>. QED  BY <1>2, <4>2
    <3>6. ms[k].blocks[d].key = K(e)
      BY <3>4, <3>5 DEF OnlyResult
    <3>7. k = j /\ d = b
      BY <3>2, <3>4, <3>6 DEF OnlyResult
    <3>8. h[i].parts[e].n = h[i].parts[f].n
      BY <3>2, <3>4, <3>7
    <3>. QED  BY <1>1, <1>2, <3>8 DEF OneCall
  <2>4. /\ runner.merged => \A e, f \in At(h[i].parts, "call") : e = f
        /\ runner.ids \/ \A e, f \in At(h[i].parts, "call") :
                            h[i].parts[e].tool = h[i].parts[f].tool => e = f
    BY <2>2, <2>3 DEF Calls
  <2>. QED  BY <1>9, <2>1, <2>4 DEF Relatable, h
<1>. QED  BY <1>4, <1>8, <1>9

\* The APIs can relate results to calls with just the runners that Relatable says,
\* over every history that a conversation can have.
THEOREM PairingExactHolds == Spec => []PairingExact
<1>1. IInv => PairingExact
  <2>. SUFFICES ASSUME IInv, Waiting, sent.provider # "gemini"
                PROVE  Paired(sent.messages) <=> \A i \in DOMAIN history : Relatable(history[i])
    BY DEF PairingExact
  <2>1. ASSUME Paired(sent.messages), NEW i \in DOMAIN history PROVE Relatable(history[i])
    BY <2>1, PairsRelatable
  <2>2. ASSUME \A i \in DOMAIN history : Relatable(history[i]) PROVE Paired(sent.messages)
    <3>. DEFINE ms == sent.messages
    <3>. SUFFICES ASSUME NEW i \in DOMAIN ms, NEW a \in DOMAIN ms[i].blocks,
                         ms[i].blocks[a].type = "call"
                  PROVE  /\ ms[i].blocks[a].key # NoKey
                         /\ \E j \in DOMAIN ms : \E b \in DOMAIN ms[j].blocks :
                               /\ ms[j].blocks[b].n = ms[i].blocks[a].n
                               /\ OnlyResult(ms, i, j, b, ms[i].blocks[a].key)
      BY DEF Paired
    <3>1. i \in DOMAIN history /\ a \in Calls(history[i])
      BY CallsShown DEF Calls, At
    <3>. QED  BY <2>2, <3>1, RelatablePairs
  <2>. QED  BY <2>1, <2>2
<1>. QED  BY <1>1, Invariance, PTL
=============================================================================
