-------------------------- MODULE FrameworkAgents --------------------------
(***************************************************************************)
(* The framework frontend: aiscan/frontends/framework/engine.py, with the  *)
(* tools of frontends/common.py and their side effects                     *)
(* (sinks/side_effects.py), and the usages of frontends/bespoke/           *)
(* call_sites.py.                                                          *)
(*                                                                         *)
(* A tree is [text, config]: for each module [imports, body], its body a   *)
(* sequence of constructs, and the MCP servers its configuration files     *)
(* declare.  A construct stands for what the rules of a pack match, with   *)
(* its arguments; a reference [mod, var] in one of them is what the        *)
(* symbolic resolver makes of the argument over the whole program.  A site *)
(* is <<module, position>>: a span, and as evidence its file and line.     *)
(*                                                                         *)
(* Prompts are bound as models are, and are left out; so are the bespoke   *)
(* agents, found by their shape, and the wrappers' own call sites.         *)
(***************************************************************************)
EXTENDS Naturals, FiniteSets, Lists

CONSTANTS
    ModuleOrder,    \* the module names as sorted() puts them, which is the order of their files
    Slug,           \* slug: what is kept of a name
    ModelNames,     \* the strings that _MODEL_NAME_RE takes for models
    ClassifyHops    \* _CLASSIFY_HOPS

ASSUME HopsAssumption == ClassifyHops \in Nat
ASSUME OrderAssumption ==
    /\ IsList(ModuleOrder)
    /\ \A i, j \in DOMAIN ModuleOrder : ModuleOrder[i] = ModuleOrder[j] => i = j

Modules(tree) == Filtered(ModuleOrder, DOMAIN tree.text)
Sites(tree) == UNION {{<<m, i>> : i \in DOMAIN tree.text[m].body} : m \in DOMAIN tree.text}
At(tree, site) == tree.text[site[1]].body[site[2]]

(* The construct of a kind that a reference resolves to: {} or one site.   *)
Lookup(tree, ref, kind) ==
    IF ref.mod \notin DOMAIN tree.text THEN {}
    ELSE LET body == tree.text[ref.mod].body
             hits == {i \in DOMAIN body : body[i].c = kind /\ body[i].var = ref.var}
         IN  {<<ref.mod, i>> : i \in {j \in hits : \A k \in hits : k <= j}}
The(set) == CHOOSE x \in set : TRUE

(***************************************************************************)
(* Models: a literal, a constant, or an adapter that carries one           *)
(***************************************************************************)
Unresolved == [n |-> "unresolved"]
Value(tree, e) ==
    IF e.n # "ref" THEN e
    ELSE LET sites == Lookup(tree, e, "const")
         IN  IF sites = {} THEN Unresolved ELSE At(tree, The(sites)).e

(* The identity of a model is its API style, its name and its endpoint; a  *)
(* class no table knows that has no model argument is named by the class.  *)
ModelId(v, style) ==
    CASE v.n = "lit"     -> <<"model", style, v.s, "">>
      [] v.n = "adapter" -> <<"model", IF v.chat THEN v.cls ELSE style,
                              IF v.model # "" THEN v.model ELSE IF v.chat THEN "unresolved" ELSE v.cls,
                              v.endpoint>>
      [] OTHER           -> <<"model", style, "unresolved", "">>
ModelFact(tree, e, style, site) ==
    [k |-> "model", id |-> ModelId(Value(tree, e), style), method |-> "model", ev |-> <<site>>, src |-> site[1]]

IsModelValue(v) == \/ v.n = "adapter" /\ v.model # ""
                   \/ v.n = "lit" /\ v.s \in ModelNames

(* Any keyword may hold the model of an agent no pack knows; those that    *)
(* are named for models are tried first.                                   *)
AgentModel(tree, x) ==
    LET models == {a \in ToSet(x.kwargs) : IsModelValue(Value(tree, a.e))}
        InRole(role) == Filtered(x.kwargs, {a \in models : a.role = role})
    IN  InRole("model") \o InRole("other")

(***************************************************************************)
(* Tools: what the body of a function does, and what the functions it      *)
(* calls do, a few calls deep, none of them twice.  A call that is a known *)
(* model call is no effect.                                                *)
(***************************************************************************)
OwnEffects(tree, llmSpans, site) ==
    At(tree, site).effects
        \cup (IF At(tree, site).sink = "http" /\ site \notin llmSpans THEN {"external_send"} ELSE {})

Descend(tree, deeper, acc, ref) ==
    LET found == Lookup(tree, ref, "def")
        sub == deeper[<<The(found), acc.visited \cup found>>]
    IN  IF found \subseteq acc.visited THEN acc
        ELSE [effects |-> acc.effects \cup sub.effects, visited |-> sub.visited]

CallEffects(tree, llmSpans, deeper, site, visited) ==
    LET calls == At(tree, site).calls
        after[i \in 0..Len(calls)] ==
            IF i = 0 THEN [effects |-> OwnEffects(tree, llmSpans, site), visited |-> visited]
            ELSE Descend(tree, deeper, after[i - 1], calls[i])
    IN  after[Len(calls)]

Classify(tree, llmSpans) ==
    LET body[hops \in 0..ClassifyHops] ==
            [work \in Sites(tree) \X SUBSET Sites(tree) |->
                IF hops = 0 THEN [effects |-> OwnEffects(tree, llmSpans, work[1]), visited |-> work[2]]
                ELSE CallEffects(tree, llmSpans, body[hops - 1], work[1], work[2])]
    IN  [site \in Sites(tree) |-> body[ClassifyHops][<<site, {}>>].effects]

ToolFact(tree, llmSpans, site, name, user, method) ==
    [k |-> "tool", id |-> <<"tool", site[1], At(tree, site).var>>, name |-> name,
     effects |-> Classify(tree, llmSpans)[site],
     method |-> method, ev |-> <<site>>, src |-> user]

(* An MCP server, and the approval policy attached to it.                  *)
ServerFact(label, ev, src) ==
    [k |-> "mcp", id |-> <<"mcp", label>>, method |-> "mcp", ev |-> <<ev>>, src |-> src]
Edge(type, from, to, guard, site) ==
    [k |-> "edge", type |-> type, from |-> from, to |-> to, guard |-> guard, ev |-> <<site>>, src |-> site[1]]
ApprovalFacts(x, site) ==
    LET policy == <<"policy", "approval", x.label>>
    IN  IF ~x.approval THEN <<>>
        ELSE <<[k |-> "policy", id |-> policy, method |-> "mcp", ev |-> <<site>>, src |-> site[1]],
               Edge("attach_policy", policy, <<"mcp", x.label>>, "", site)>>

(***************************************************************************)
(* The state of one run: the facts so far, the owners of the undecorated   *)
(* agent ids, and what the post-passes collect.                            *)
(***************************************************************************)
NewRun(ids) == [facts |-> <<>>, ids |-> ids, marks |-> <<>>, cands |-> <<>>, routes |-> <<>>,
                crews |-> <<>>, consumed |-> {}]
Emit(run, facts) == [run EXCEPT !.facts = @ \o facts]

BareId(name) == <<"agent", Slug[name]>>
IsBare(id) == Len(id) = 2

(* The first site of a name owns its bare id; another site gets its file   *)
(* and line behind it.                                                     *)
AgentId(run, name, site) ==
    IF Slug[name] \in DOMAIN run.ids /\ run.ids[Slug[name]] # site THEN BareId(name) \o site ELSE BareId(name)
Registered(run, name, site) ==
    IF AgentId(run, name, site) # BareId(name) THEN run
    ELSE [run EXCEPT !.ids = [s \in DOMAIN @ \cup {Slug[name]} |-> IF s = Slug[name] THEN site ELSE @[s]]]

Unseeded(carried) == <<>>

(* The bare ids of carried agents stay theirs.                             *)
Seeded(carried) ==
    LET bare == {i \in DOMAIN carried : carried[i].k = "agent" /\ IsBare(carried[i].id)}
        Of(slug) == {i \in bare : carried[i].id[2] = slug}
        Latest(slug) == CHOOSE i \in Of(slug) : \A j \in Of(slug) : j <= i
    IN  [slug \in {carried[i].id[2] : i \in bare} |-> carried[Latest(slug)].ev[1]]

AgentFact(id, name, method, ev, src) ==
    [k |-> "agent", id |-> id, name |-> name, entry |-> FALSE, method |-> method, ev |-> ev, src |-> src]
AgentNamed(tree, ref) == {At(tree, s).name : s \in Lookup(tree, ref, "agent")} \ {""}

BoundTool(tree, llmSpans, ref, agent, site, method) ==
    FlattenSeq(Listed({<<ToolFact(tree, llmSpans, s, ref.var, site[1], method),
                           Edge("bind_tool", agent, <<"tool", ref.mod, ref.var>>, "", site)>>
                         : s \in Lookup(tree, ref, "def")}))
BoundServer(tree, ref, agent, site) ==
    FlattenSeq(Listed({<<ServerFact(At(tree, s).label, site, site[1]),
                           Edge("bind_mcp", agent, <<"mcp", At(tree, s).label>>, "", site)>>
                         : s \in Lookup(tree, ref, "server")}))
SideFacts(tree, refs, site) ==
    FlattenSeq([i \in DOMAIN refs |->
        FlattenSeq(Listed({ApprovalFacts(At(tree, s), site) : s \in Lookup(tree, refs[i], "server")}))])
WithBinding(model, agent, ev) ==
    <<model, [Edge("bind_model", agent, model.id, "", ev[1]) EXCEPT !.ev = ev]>>
BoundModel(tree, e, agent, style, site) == WithBinding(ModelFact(tree, e, style, site), agent, <<site>>)

(***************************************************************************)
(* The rules, by what they emit                                            *)
(***************************************************************************)
EmitAgent(tree, llmSpans, run, site) ==
    LET x  == At(tree, site)
        id == AgentId(run, x.name, site)
        Handoff(ref) == Listed({Edge("transfer:handoff", id, BareId(n), "", site) : n \in AgentNamed(tree, ref)})
    IN  IF x.name = "" THEN run
        ELSE Emit(Registered(run, x.name, site),
                  <<AgentFact(id, x.name, "ctor", <<site>>, site[1])>>
                  \o (IF x.model = <<>> THEN <<>> ELSE BoundModel(tree, x.model[1], id, "framework", site))
                  \o SideFacts(tree, x.tools, site)
                  \o FlattenSeq([i \in DOMAIN x.tools |->
                        BoundTool(tree, llmSpans, x.tools[i], id, site, "ctor")
                        \o BoundServer(tree, x.tools[i], id, site)])
                  \o FlattenSeq([i \in DOMAIN x.handoffs |-> Handoff(x.handoffs[i])]))

(* A construction that no pack claims is an agent if a model resolves and  *)
(* a companion, tools or instructions, resolves with it.                   *)
EmitGeneric(tree, llmSpans, run, site) ==
    LET x  == At(tree, site)
        id == AgentId(run, x.name, site)
        models == AgentModel(tree, x)
        Resolves(ref) == \E kind \in {"def", "server", "agent"} : Lookup(tree, ref, kind) # {}
        companion == x.prompt \/ \E i \in DOMAIN x.tools : Resolves(x.tools[i])
    IN  IF models = <<>> \/ ~companion THEN run
        ELSE Emit(Registered(run, x.name, site),
                  <<AgentFact(id, x.name, "shape", <<site>>, site[1])>>
                  \o BoundModel(tree, models[1].e, id, "generic", site)
                  \o SideFacts(tree, x.tools, site)
                  \o FlattenSeq([i \in DOMAIN x.tools |->
                        BoundTool(tree, llmSpans, x.tools[i], id, site, "shape")]))

EmitTask(tree, llmSpans, run, site) ==
    LET x == At(tree, site)
        names == AgentNamed(tree, x.agent)
    IN  IF names = {} THEN run
        ELSE Emit(run, FlattenSeq([i \in DOMAIN x.tools |->
                            BoundTool(tree, llmSpans, x.tools[i], BareId(The(names)), site, "task")]))

(* The agents of a crew in the order of its tasks.                         *)
CrewNames(tree, x) == FlattenSeq([i \in DOMAIN x.agents |-> Listed(AgentNamed(tree, x.agents[i]))])

(* A node without a name bears that of its function.                       *)
NodeName(x) == IF x.name = "" THEN x.fn.var ELSE x.name

CallRules(tree, llmSpans, run, site) ==
    LET x == At(tree, site)
    IN  CASE x.c = "agent"   -> EmitAgent(tree, llmSpans, run, site)
          [] x.c = "generic" -> EmitGeneric(tree, llmSpans, run, site)
          [] x.c = "task"    -> EmitTask(tree, llmSpans, run, site)
          [] x.c = "mark"    ->
                [run EXCEPT !.marks = @ \o Listed({<<n, site[1]>> : n \in AgentNamed(tree, x.agent)})]
          [] x.c = "node"    ->
                [run EXCEPT !.cands = Append(@, [name |-> NodeName(x), fn |-> x.fn, site |-> site])]
          [] x.c = "route"   ->
                [run EXCEPT !.routes = @ \o [i \in DOMAIN x.to |->
                    [from |-> x.from, to |-> x.to[i], guard |-> x.guard, site |-> site]]]
          [] x.c = "crew"    ->
                [run EXCEPT !.crews = Append(@, [names |-> CrewNames(tree, x), site |-> site,
                                                 hierarchical |-> x.hierarchical])]
          [] x.c = "tools"   ->
                Emit(run, FlattenSeq([i \in DOMAIN x.tools |->
                    Listed({ToolFact(tree, llmSpans, s, x.tools[i].var, site[1], "refs")
                              : s \in Lookup(tree, x.tools[i], "def")})]))
          [] x.c = "state"   ->
                Emit(run, <<[k |-> "state", id |-> <<"state">> \o site, method |-> "state",
                             ev |-> <<site>>, src |-> site[1]]>>)
          [] x.c = "server"  ->
                Emit(run, <<ServerFact(x.label, site, site[1])>> \o ApprovalFacts(x, site))
          [] OTHER -> run

(* One module: its calls in order, then its decorated functions, then its  *)
(* tool classes.                                                           *)
ModuleRules(tree, llmSpans, run, m) ==
    LET body == tree.text[m].body
        after[i \in 0..Len(body)] ==
            IF i = 0 THEN run ELSE CallRules(tree, llmSpans, after[i - 1], <<m, i>>)
        Declared(c) == FlattenSeq([i \in DOMAIN body |->
            IF body[i].c # c \/ body[i].tool = "" THEN <<>>
            ELSE <<ToolFact(tree, llmSpans, <<m, i>>, body[i].tool, m, "declared")>>])
    IN  Emit(after[Len(body)], Declared("def") \o Declared("class"))

ConfigFacts(tree) ==
    LET labels == Listed(tree.config)
    IN  [i \in DOMAIN labels |-> ServerFact(labels[i], <<"config", 1>>, "config")]

(***************************************************************************)
(* The post-passes, over all facts of the run                              *)
(***************************************************************************)
SinkSites(tree, mods) ==
    UNION {{<<m, i>> : i \in {j \in DOMAIN tree.text[m].body : tree.text[m].body[j].c = "def"
                                                                /\ tree.text[m].body[j].sink # "none"}}
           : m \in mods \cap DOMAIN tree.text}

(* A candidate becomes an agent if its function holds a known model call.  *)
Promoted(tree, sinks, run, cand) ==
    LET anchors == {s \in sinks \cap Lookup(tree, cand.fn, "def") : At(tree, s).sink # "embedding"}
        sink    == The(anchors)
        id      == AgentId(run, cand.name, sink)
    IN  IF anchors = {} THEN run
        ELSE Emit([Registered(run, cand.name, sink) EXCEPT !.consumed = @ \cup anchors],
                  <<AgentFact(id, cand.name, "promotion", <<cand.site, sink>>, cand.site[1])>>
                  \o WithBinding(ModelFact(tree, At(tree, sink).model, "sink", sink), id, <<cand.site, sink>>))
Promote(tree, sinks, run) ==
    LET after[i \in 0..Len(run.cands)] ==
            IF i = 0 THEN run ELSE Promoted(tree, sinks, after[i - 1], run.cands[i])
    IN  after[Len(run.cands)]

AgentIds(run) == {run.facts[i].id : i \in {j \in DOMAIN run.facts : run.facts[j].k = "agent"}}

(* A route joins two names; both must be agents by their bare ids.         *)
EmitRoutes(run) ==
    Emit(run, FlattenSeq([i \in DOMAIN run.routes |->
        LET r == run.routes[i]
        IN  IF {BareId(r.from), BareId(r.to)} \subseteq AgentIds(run)
            THEN <<Edge("transfer:route", BareId(r.from), BareId(r.to), r.guard, r.site)>> ELSE <<>>]))

EmitCrews(run) ==
    LET Chain(crew) == Filtered(crew.names, {n \in ToSet(crew.names) : BareId(n) \in AgentIds(run)})
        Links(crew) ==
            FlattenSeq([i \in 1..Len(Chain(crew)) - 1 |->
                LET from == BareId(Chain(crew)[i])
                    to   == BareId(Chain(crew)[i + 1])
                IN  IF from = to THEN <<>> ELSE <<Edge("transfer:route", from, to, "", crew.site)>>])
    IN  Emit(run, FlattenSeq([c \in DOMAIN run.crews |->
            IF run.crews[c].hierarchical THEN <<>> ELSE Links(run.crews[c])]))

OnlyFlagged(run, reset) ==
    LET marked == {Slug[mark[1]] : mark \in ToSet(run.marks)}
        Want(f) == IF f.k = "agent" /\ Slug[f.name] \in marked THEN [f EXCEPT !.entry = TRUE] ELSE f
    IN  [run EXCEPT !.facts = [i \in DOMAIN @ |-> Want(@[i])]]

(* A carried agent bears the flag of the scan it was carried from, which   *)
(* a mark that has gone since must not keep alive.                         *)
ApplyEntrypoints(run, reset) ==
    LET marked == {Slug[mark[1]] : mark \in ToSet(run.marks)}
        Want(f) == IF f.k = "agent" THEN [f EXCEPT !.entry = Slug[f.name] \in marked] ELSE f
    IN  IF marked = {} /\ ~reset THEN run
        ELSE [run EXCEPT !.facts = [i \in DOMAIN @ |-> Want(@[i])]]

(* run: only the modules of `only` emit; what was carried joins before the *)
(* post-passes.                                                            *)
Run(tree, only, carried, marks, reset) ==
    LET sinks  == SinkSites(tree, only)
        mods   == Filtered(Modules(tree), only)
        after[i \in 0..Len(mods)] ==
            IF i = 0 THEN NewRun(Seeded(carried)) ELSE ModuleRules(tree, sinks, after[i - 1], mods[i])
        merged == [Emit(after[Len(mods)], ConfigFacts(tree) \o carried) EXCEPT !.marks = @ \o marks]
    IN  ApplyEntrypoints(EmitCrews(EmitRoutes(Promote(tree, sinks, merged))), reset)

(* A model call that belongs to no agent and to no wrapper is a usage.     *)
UsageFacts(tree, sinks, consumed) ==
    LET sites == {s \in sinks \ consumed : ~At(tree, s).wrapper}
        Facts(s) == LET model == ModelFact(tree, At(tree, s).model, "sink", s)
                    IN  <<model, [k |-> "usage", id |-> <<"usage">> \o s, model |-> model.id,
                                  method |-> "usage", ev |-> <<s>>, src |-> s[1]]>>
    IN  FlattenSeq(Listed({Facts(s) : s \in sites}))
=============================================================================
