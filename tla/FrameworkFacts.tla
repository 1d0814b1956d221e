--------------------------- MODULE FrameworkFacts ---------------------------
(***************************************************************************)
(* The terms in which FrameworkProofs speaks of FrameworkScan: what a fact *)
(* is like, what one construct, one module and one tree contribute to the  *)
(* facts of a scan, and the invariants of a run and of the specification.  *)
(* Nothing here changes what is modelled.                                  *)
(***************************************************************************)
EXTENDS FrameworkScan

(***************************************************************************)
(* What a work list reaches                                                *)
(***************************************************************************)

\* The transfers of every agent lead to agents of the record.
WellLinked(agents) ==
    /\ IsFiniteSet(DOMAIN agents)
    /\ \A a \in DOMAIN agents : agents[a].handoffs \cup agents[a].routes \subseteq DOMAIN agents

NextOf(agents, a) == IF a \in DOMAIN agents THEN TransfersOf(agents[a]) ELSE <<>>
To(agents, a) == agents[a].handoffs \cup agents[a].routes

\* The sets that hold what was seen and what is on the stack, and what follows from
\* their members that were not seen.
Holding(agents, stack, seen) ==
    {S \in SUBSET DOMAIN agents :
        seen \cup ToSet(stack) \subseteq S /\ \A a \in S \ seen : To(agents, a) \subseteq S}
InAll(agents, stack, seen) ==
    {b \in DOMAIN agents : \A S \in Holding(agents, stack, seen) : b \in S}

Taken(agents, stack, seen) ==
    IF Last(stack) \in seen THEN <<Front(stack), seen>>
    ELSE <<Front(stack) \o NextOf(agents, Last(stack)), seen \cup {Last(stack)}>>

IsWalk(agents, D, f) ==
    f = [work \in Seq(D) \X SUBSET D |->
            IF work[1] = <<>> THEN work[2] ELSE f[Taken(agents, work[1], work[2])]]

\* The smallest set that holds start and whatever a member transfers to.
LeastOf(agents, start) ==
    {b \in DOMAIN agents :
        \A S \in SUBSET DOMAIN agents :
            start \subseteq S /\ (\A a \in S : To(agents, a) \subseteq S) => b \in S}

(***************************************************************************)
(* From facts to the record                                                *)
(***************************************************************************)

\* The kinds of what an edge of a type joins.
Joins(type, from, to) ==
    CASE type = "bind_model"    -> from = "agent" /\ to = "model"
      [] type = "bind_tool"     -> from = "agent" /\ to = "tool"
      [] type = "bind_mcp"      -> from = "agent" /\ to = "mcp"
      [] type = "attach_policy" -> from = "policy" /\ to = "mcp"
      [] type = "uses_model"    -> from = "usage" /\ to = "model"
      [] OTHER                  -> from = "agent" /\ to = "agent"

\* An id begins with the kind of what it names.
Kinded(f) ==
    IF f.k = "edge" THEN Joins(f.type, f.from[1], f.to[1])
    ELSE /\ {"k", "id", "method", "ev", "src"} \subseteq DOMAIN f
         /\ f.id[1] = f.k
         /\ f.method \in {Methods[i] : i \in DOMAIN Methods}
         /\ f.k = "usage" => "model" \in DOMAIN f /\ f.model[1] = "model"
         /\ f.k = "agent" => {"name", "entry"} \subseteq DOMAIN f

AllKinded(facts) == IsList(facts) /\ \A f \in ToSet(facts) : Kinded(f)

Same(facts, id) == {i \in DOMAIN facts : facts[i].k # "edge" /\ facts[i].id = id}
IsFirst(facts, same, i) ==
    \A j \in same \ {i} :
        Rank(facts[i]) < Rank(facts[j]) \/ (Rank(facts[i]) = Rank(facts[j]) /\ i < j)

(***************************************************************************)
(* What the rules emit                                                     *)
(***************************************************************************)

\* A fact that is no agent, and a list of them.
PlainFact(f) == Kinded(f) /\ f.k # "agent"
Plain(s) == IsList(s) /\ \A f \in ToSet(s) : PlainFact(f)

MethodNames == {Methods[i] : i \in DOMAIN Methods}

\* The trees that scans are about.
GoodTree(t) ==
    /\ IsFiniteSet(t.config)
    /\ DOMAIN t.text \subseteq ToSet(ModuleOrder) \ {"config"}
    /\ \A m \in DOMAIN t.text :
          IsList(t.text[m].body) /\ \A i \in DOMAIN t.text[m].body : Construct(m, t.text[m], t.text[m].body[i])

(***************************************************************************)
(* What a run keeps                                                        *)
(***************************************************************************)

\* A run, by its parts.
RunOf(facts, ids, marks, cands, routes, crews, consumed) ==
    [facts |-> facts, ids |-> ids, marks |-> marks, cands |-> cands, routes |-> routes, crews |-> crews,
     consumed |-> consumed]
IsRun(run) ==
    /\ run = RunOf(run.facts, run.ids, run.marks, run.cands, run.routes, run.crews, run.consumed)
    /\ IsList(run.facts) /\ IsList(run.marks) /\ IsList(run.cands)
    /\ IsList(run.routes) /\ IsList(run.crews)
    /\ \A crew \in ToSet(run.crews) : IsList(crew.names)

Pair(site) == site = <<site[1], site[2]>>

\* What is true of every agent: the file it belongs to is that of its evidence, and its
\* id is its name's or its name's with its origin.
AgentOK(f) ==
    /\ Kinded(f) /\ f.k = "agent"
    /\ DOMAIN f = {"k", "id", "name", "entry", "method", "ev", "src"}
    /\ f.src = f.ev[1][1]
    /\ Pair(Origin(f))
    /\ f.id = BareId(f.name) \/ f.id = BareId(f.name) \o Origin(f)

\* An agent of the modules that a run analyses: a bare id is owned by its origin.
Fresh(ids, only, f) ==
    /\ AgentOK(f) /\ f.entry = FALSE
    /\ Origin(f)[1] \in only
    /\ f.id = BareId(f.name) => Slug[f.name] \in DOMAIN ids /\ ids[Slug[f.name]] = Origin(f)

Extended(ids, by) == \A s \in DOMAIN ids : s \in DOMAIN by /\ by[s] = ids[s]

RunInv(only, carried, run) ==
    /\ IsRun(run)
    /\ \A f \in ToSet(run.facts) :
          Kinded(f) /\ (f.k = "agent" => f \in ToSet(carried) \/ Fresh(run.ids, only, f))
    /\ Extended(Seeded(carried), run.ids)

\* A list of one agent and of facts that are no agents.
Around(f, s) == IsList(s) /\ \A g \in ToSet(s) : g = f \/ PlainFact(g)

(***************************************************************************)
(* The rules                                                               *)
(***************************************************************************)

MarksOn(t, site) ==
    IF At(t, site).c # "mark" THEN {}
    ELSE {<<n, site[1]>> : n \in AgentNamed(t, At(t, site).agent)}

\* What a rule does to a run: it keeps the invariant and adds the marks of its construct.
RuleKeeps(t, only, carried, run, site, next) ==
    /\ RunInv(only, carried, next)
    /\ ToSet(next.marks) = ToSet(run.marks) \cup MarksOn(t, site)

ReferredTools(t, llmSpans, refs, site) ==
    FlattenSeq([i \in DOMAIN refs |->
        Listed({ToolFact(t, llmSpans, s, refs[i].var, site[1], "refs") : s \in Lookup(t, refs[i], "def")})])

WithMarks(run, list)  == [run EXCEPT !.marks = @ \o list]
WithCand(run, cand)   == [run EXCEPT !.cands = Append(@, cand)]
WithRoutes(run, list) == [run EXCEPT !.routes = @ \o list]
WithCrew(run, crew)   == [run EXCEPT !.crews = Append(@, crew)]

MarksAt(t, ref, m) == {<<n, m>> : n \in AgentNamed(t, ref)}

\* The rules of a module, one after the other.
IsRules(t, llmSpans, run, m, n, f) ==
    f = [i \in 0..n |-> IF i = 0 THEN run ELSE CallRules(t, llmSpans, f[i - 1], <<m, i>>)]

MarksUpTo(t, m, k) == UNION {MarksOn(t, <<m, i>>) : i \in 1..k}

MarksIn(t, m) == UNION {MarksOn(t, <<m, i>>) : i \in DOMAIN t.text[m].body}

(***************************************************************************)
(* A run                                                                   *)
(***************************************************************************)

IsModules(t, sinks, run, mods, n, f) ==
    f = [i \in 0..n |-> IF i = 0 THEN run ELSE ModuleRules(t, sinks, f[i - 1], mods[i])]

MarksFrom(t, mods, k) == UNION {MarksIn(t, mods[i]) : i \in 1..k}

IsPromotion(t, sinks, run, cands, n, f) ==
    f = [i \in 0..n |-> IF i = 0 THEN run ELSE Promoted(t, sinks, f[i - 1], cands[i])]

\* The marks of some modules.
MarksOfAll(t, mods) == UNION {MarksIn(t, m) : m \in mods}

\* What a scan carries: facts of modules that it does not analyse.
GoodCarried(carried) ==
    IsList(carried) /\ \A f \in ToSet(carried) : Kinded(f) /\ (f.k = "agent" => AgentOK(f))

\* A run before the flags are set.
Unflagged(t, only, carried, marks) ==
    LET sinks  == SinkSites(t, only)
        mods   == Filtered(Modules(t), only)
        after  == CHOOSE f : f = [i \in 0..Len(mods) |->
                                    IF i = 0 THEN NewRun(Seeded(carried))
                                    ELSE ModuleRules(t, sinks, f[i - 1], mods[i])]
        merged == [Emit(after[Len(mods)], ConfigFacts(t) \o carried) EXCEPT !.marks = @ \o marks]
    IN  EmitCrews(EmitRoutes(Promote(t, sinks, merged)))

\* Where an agent of a scan comes from: from a module that was analysed, or from the cache.
Owned(ids, only, f) ==
    /\ Origin(f)[1] \in only
    /\ f.id = BareId(f.name) => Slug[f.name] \in DOMAIN ids /\ ids[Slug[f.name]] = Origin(f)
CarriedAs(carried, f) == \E c \in ToSet(carried) : c.k = "agent" /\ c.id = f.id /\ Origin(c) = Origin(f)

SlugsOf(marks) == {Slug[mark[1]] : mark \in marks}

FactsAre(ids, only, carried, slugs, facts) ==
    /\ IsList(facts)
    /\ \A f \in ToSet(facts) :
          /\ Kinded(f)
          /\ f.k = "agent" =>
                /\ AgentOK(f)
                /\ f.entry <=> Slug[f.name] \in slugs
                /\ Owned(ids, only, f) \/ CarriedAs(carried, f)

Flag(f, b) == [f EXCEPT !.entry = b]

Unique(facts) ==
    \A f \in facts, g \in facts : f.k = "agent" /\ g.k = "agent" /\ f.id = g.id => Origin(f) = Origin(g)

(***************************************************************************)
(* A scan                                                                  *)
(***************************************************************************)

FactsHold(t, facts) ==
    /\ \A f \in facts :
          /\ Kinded(f)
          /\ f.k = "agent" => AgentOK(f) /\ (f.entry <=> Slug[f.name] \in Marked(t))
    /\ Unique(facts)

ScanHolds(t, s) ==
    /\ IsList(s.facts) /\ IsList(s.marks)
    /\ ToSet(s.marks) = MarksOfAll(t, DOMAIN t.text)
    /\ FactsHold(t, ToSet(s.facts))
    /\ \E n : s.record = Record(s.facts, n)

(***************************************************************************)
(* The specification                                                       *)
(***************************************************************************)

OfRepo(r, t) ==
    /\ DOMAIN t = {"text", "config"} /\ t.config \in r.configs
    /\ DOMAIN t.text \subseteq DOMAIN r.texts
    /\ \A m \in DOMAIN t.text : t.text[m] \in r.texts[m] \ {Absent}

\* The record comes from a list of the facts that the cache holds as a set.
RecordOfCache(c, l) ==
    \E facts, n : /\ AllKinded(facts) /\ ToSet(facts) = ToSet(c.facts)
                  /\ l.record = Record(facts, n) /\ l.derived = Derived(l.record)

CacheHolds(t, c) ==
    /\ IsList(c.facts) /\ IsList(c.marks)
    /\ ToSet(c.marks) = MarksOfAll(t, DOMAIN t.text)
    /\ FactsHold(t, ToSet(c.facts))

IInv ==
    /\ repo \in Repositories /\ OfRepo(repo, tree) /\ OfRepo(repo, base)
    /\ ~HasRecord => cache = NoFacts
    /\ HasRecord => CacheHolds(base, cache) /\ RecordOfCache(cache, last)

\* What an incremental scan carries is unique, and of modules that it does not analyse.
Scan(t, carried, marks) == Scanned(t, Affected(t), carried, marks, "incremental")
CarriesWell(t) ==
    /\ GoodCarried(CarriedFacts(t)) /\ IsList(CarriedMarks(t))
    /\ ToSet(CarriedMarks(t)) \cup MarksOfAll(t, Affected(t)) = MarksOfAll(t, DOMAIN t.text)
    /\ ScanHolds(t, Scan(t, CarriedFacts(t), CarriedMarks(t)))

(***************************************************************************)
(* Two trees, or two sets of known sinks, that a module cannot tell apart  *)
(***************************************************************************)

\* The modules R are the same in both trees, what they import lies in R or in neither tree,
\* and of their functions that call a model over HTTP both sets know the same.
SameView(t1, sp1, t2, sp2, R) ==
    /\ R \subseteq DOMAIN t1.text /\ R \subseteq DOMAIN t2.text
    /\ \A m \in R : t1.text[m] = t2.text[m]
    /\ \A m \in R : \A n \in t1.text[m].imports : n \in DOMAIN t1.text \cup DOMAIN t2.text => n \in R
    /\ \A m \in R : \A i \in DOMAIN t1.text[m].body :
          t1.text[m].body[i].sink = "http" => (<<m, i>> \in sp1 <=> <<m, i>> \in sp2)

Viewed(t1, t2, R, ref) == ref.mod \in R \/ ref.mod \notin DOMAIN t1.text \cup DOMAIN t2.text

(***************************************************************************)
(* Side effects                                                            *)
(***************************************************************************)

\* What the calls of a body add, one after the other.
IsCalls(t, sp, deeper, site, visited, n, f) ==
    f = [i \in 0..n |->
            IF i = 0 THEN [effects |-> OwnEffects(t, sp, site), visited |-> visited]
            ELSE Descend(t, deeper, f[i - 1], At(t, site).calls[i])]
IsBodies(t, sp, n, f) ==
    f = [hops \in 0..n |->
            [work \in Sites(t) \X SUBSET Sites(t) |->
                IF hops = 0 THEN [effects |-> OwnEffects(t, sp, work[1]), visited |-> work[2]]
                ELSE CallEffects(t, sp, f[hops - 1], work[1], work[2])]]

\* The functions and classes of the modules in view.
Bodies(t, R) ==
    {s \in Sites(t) : s[1] \in R /\ s[2] \in DOMAIN t.text[s[1]].body /\ Pair(s) /\ At(t, s).c \in {"def", "class"}}

\* Two readings agree on what they do to these, and know of nothing but these.
Agree(t, R, d1, d2) ==
    \A s \in Bodies(t, R), V \in SUBSET Bodies(t, R) :
        d1[<<s, V>>] = d2[<<s, V>>] /\ d1[<<s, V>>].visited \subseteq Bodies(t, R)

\* They agree on what a list of references brings along.
SameOver(t1, sp1, t2, sp2, refs, site) ==
    /\ SideFacts(t1, refs, site) = SideFacts(t2, refs, site)
    /\ ReferredTools(t1, sp1, refs, site) = ReferredTools(t2, sp2, refs, site)
    /\ \A agent, method :
          /\ FlattenSeq([i \in DOMAIN refs |-> BoundTool(t1, sp1, refs[i], agent, site, method)])
             = FlattenSeq([i \in DOMAIN refs |-> BoundTool(t2, sp2, refs[i], agent, site, method)])
          /\ FlattenSeq([i \in DOMAIN refs |-> BoundTool(t1, sp1, refs[i], agent, site, method)
                                               \o BoundServer(t1, refs[i], agent, site)])
             = FlattenSeq([i \in DOMAIN refs |-> BoundTool(t2, sp2, refs[i], agent, site, method)
                                                 \o BoundServer(t2, refs[i], agent, site)])
    /\ \A agent :
          FlattenSeq([i \in DOMAIN refs |->
              Listed({Edge("transfer:handoff", agent, BareId(n), "", site) : n \in AgentNamed(t1, refs[i])})])
          = FlattenSeq([i \in DOMAIN refs |->
              Listed({Edge("transfer:handoff", agent, BareId(n), "", site) : n \in AgentNamed(t2, refs[i])})])
    /\ FlattenSeq([i \in DOMAIN refs |-> Listed(AgentNamed(t1, refs[i]))])
       = FlattenSeq([i \in DOMAIN refs |-> Listed(AgentNamed(t2, refs[i]))])

(***************************************************************************)
(* What the rules add for one construct, given the id of its agent         *)
(***************************************************************************)

Companion(t, x) == x.prompt \/ \E i \in DOMAIN x.tools : \E kind \in {"def", "server", "agent"} : Lookup(t, x.tools[i], kind) # {}

\* Whether a construct is an agent.
Makes(t, s) ==
    \/ At(t, s).c = "agent" /\ At(t, s).name # ""
    \/ At(t, s).c = "generic" /\ AgentModel(t, At(t, s)) # <<>> /\ Companion(t, At(t, s))

AgentAdds(t, sp, s, id) ==
    LET x == At(t, s)
    IN  <<AgentFact(id, x.name, "ctor", <<s>>, s[1])>>
        \o (IF x.model = <<>> THEN <<>> ELSE BoundModel(t, x.model[1], id, "framework", s))
        \o SideFacts(t, x.tools, s)
        \o FlattenSeq([i \in DOMAIN x.tools |->
              BoundTool(t, sp, x.tools[i], id, s, "ctor") \o BoundServer(t, x.tools[i], id, s)])
        \o FlattenSeq([i \in DOMAIN x.handoffs |->
              Listed({Edge("transfer:handoff", id, BareId(n), "", s) : n \in AgentNamed(t, x.handoffs[i])})])
GenericAdds(t, sp, s, id) ==
    LET x == At(t, s)
    IN  <<AgentFact(id, x.name, "shape", <<s>>, s[1])>>
        \o BoundModel(t, AgentModel(t, x)[1].e, id, "generic", s)
        \o SideFacts(t, x.tools, s)
        \o FlattenSeq([i \in DOMAIN x.tools |-> BoundTool(t, sp, x.tools[i], id, s, "shape")])
TaskAdds(t, sp, s) ==
    LET x == At(t, s)
    IN  FlattenSeq([i \in DOMAIN x.tools |->
            BoundTool(t, sp, x.tools[i], BareId(The(AgentNamed(t, x.agent))), s, "task")])
StateAdds(s) == <<[k |-> "state", id |-> <<"state">> \o s, method |-> "state", ev |-> <<s>>, src |-> s[1]]>>

Emits(t, sp, s, id) ==
    LET x == At(t, s)
    IN  CASE x.c = "agent"   -> IF Makes(t, s) THEN AgentAdds(t, sp, s, id) ELSE <<>>
          [] x.c = "generic" -> IF Makes(t, s) THEN GenericAdds(t, sp, s, id) ELSE <<>>
          [] x.c = "task"    -> IF AgentNamed(t, x.agent) = {} THEN <<>> ELSE TaskAdds(t, sp, s)
          [] x.c = "tools"   -> ReferredTools(t, sp, x.tools, s)
          [] x.c = "state"   -> StateAdds(s)
          [] x.c = "server"  -> <<ServerFact(x.label, s, s[1])>> \o ApprovalFacts(x, s)
          [] OTHER           -> <<>>

NewMarks(t, s) ==
    IF At(t, s).c # "mark" THEN <<>> ELSE Listed({<<n, s[1]>> : n \in AgentNamed(t, At(t, s).agent)})
NewCands(t, s) ==
    IF At(t, s).c # "node" THEN <<>> ELSE <<[name |-> NodeName(At(t, s)), fn |-> At(t, s).fn, site |-> s]>>
NewRoutes(t, s) ==
    IF At(t, s).c # "route" THEN <<>>
    ELSE [i \in DOMAIN At(t, s).to |->
             [from |-> At(t, s).from, to |-> At(t, s).to[i], guard |-> At(t, s).guard, site |-> s]]
NewCrews(t, s) ==
    IF At(t, s).c # "crew" THEN <<>>
    ELSE <<[names |-> CrewNames(t, At(t, s)), site |-> s, hierarchical |-> At(t, s).hierarchical]>>

Stepped(t, sp, run, s) ==
    RunOf(run.facts \o Emits(t, sp, s, AgentId(run, At(t, s).name, s)),
          IF Makes(t, s) THEN Registered(run, At(t, s).name, s).ids ELSE run.ids, run.marks \o NewMarks(t, s),
          run.cands \o NewCands(t, s), run.routes \o NewRoutes(t, s), run.crews \o NewCrews(t, s), run.consumed)

\* The tools that a module declares.
DeclaredAs(t, sp, m, c) ==
    FlattenSeq([i \in DOMAIN t.text[m].body |->
        IF t.text[m].body[i].c # c \/ t.text[m].body[i].tool = "" THEN <<>>
        ELSE <<ToolFact(t, sp, <<m, i>>, t.text[m].body[i].tool, m, "declared")>>])
DeclaredFacts(t, sp, m) == DeclaredAs(t, sp, m, "def") \o DeclaredAs(t, sp, m, "class")

\* The rules of a module are those of its constructs, one after the other, and its declared tools.
RuledThrough(t, sp, run, m, n, f) ==
    /\ n \in Nat /\ n = Len(t.text[m].body) /\ DOMAIN t.text[m].body = 1..n
    /\ f[0] = run
    /\ \A i \in 1..n : f[i] = CallRules(t, sp, f[i - 1], <<m, i>>)
    /\ ModuleRules(t, sp, run, m) = Emit(f[n], DeclaredFacts(t, sp, m))

\* The known model calls of a candidate's function, and what its promotion adds.
Anchors(t, sp, cand) == {s \in sp \cap Lookup(t, cand.fn, "def") : At(t, s).sink # "embedding"}
PromotionAdds(t, sp, cand, id) ==
    LET sink == The(Anchors(t, sp, cand))
    IN  <<AgentFact(id, cand.name, "promotion", <<cand.site, sink>>, cand.site[1])>>
        \o WithBinding(ModelFact(t, At(t, sink).model, "sink", sink), id, <<cand.site, sink>>)
PromotedWith(t, sp, run, cand) ==
    LET sink == The(Anchors(t, sp, cand))
    IN  RunOf(run.facts \o PromotionAdds(t, sp, cand, AgentId(run, cand.name, sink)),
              Registered(run, cand.name, sink).ids, run.marks, run.cands, run.routes, run.crews,
              run.consumed \cup Anchors(t, sp, cand))

\* Promoting goes through the candidates, one after the other.
PromotedThrough(t, sp, run, n, f) ==
    /\ n \in Nat /\ n = Len(run.cands) /\ DOMAIN run.cands = 1..n
    /\ f[0] = run
    /\ \A i \in 1..n : f[i] = Promoted(t, sp, f[i - 1], run.cands[i])
    /\ Promote(t, sp, run) = f[n]

(***************************************************************************)
(* The facts of a module                                                   *)
(***************************************************************************)

\* A tool is called as the reference says, or as its declaration.
RefTo(id) == [mod |-> id[2], var |-> id[3]]
ToolSettled(t, sp, g) ==
    /\ DOMAIN g = {"k", "id", "name", "effects", "method", "ev", "src"}
    /\ \/ /\ g.method # "declared" /\ g.name = g.id[3]
          /\ \E d \in Lookup(t, RefTo(g.id), "def") : g.effects = Classify(t, sp)[d]
       \/ /\ g.method = "declared"
          /\ \E d \in DeclaredSites(t) : /\ g.id = <<"tool", d[1], At(t, d).var>>
                                         /\ g.name = At(t, d).tool /\ g.effects = Classify(t, sp)[d]
UsageSettled(t, g) ==
    /\ DOMAIN g = {"k", "id", "model", "method", "ev", "src"}
    /\ \E i \in DOMAIN t.text[g.src].body :
          /\ g.id = <<"usage">> \o <<g.src, i>>
          /\ g.model = ModelFact(t, At(t, <<g.src, i>>).model, "sink", <<g.src, i>>).id

\* A fact of a module other than an agent: its evidence lies in the module or in what it imports,
\* and its id tells what it says.
Near(t, m, ev) == \A e \in ToSet(ev) : e[1] \in DOMAIN t.text /\ e[1] \in t.text[m].imports \cup {m}
Settled(t, sp, m, g) ==
    /\ Kinded(g) /\ g.k # "agent"
    /\ g.src = m /\ Near(t, m, g.ev)
    /\ CASE g.k = "edge"  -> TRUE
         [] g.k = "tool"  -> ToolSettled(t, sp, g)
         [] g.k = "usage" -> UsageSettled(t, g)
         [] OTHER         -> DOMAIN g = {"k", "id", "method", "ev", "src"}
Sound(t, sp, m, list) == IsList(list) /\ \A g \in ToSet(list) : Settled(t, sp, m, g)

\* The approvals that a reference brings along, and the tools it names.
ApprovalsOf(t, ref, site) == FlattenSeq(Listed({ApprovalFacts(At(t, s), site) : s \in Lookup(t, ref, "server")}))
ToolsOf(t, sp, ref, m, method) == Listed({ToolFact(t, sp, s, ref.var, m, method) : s \in Lookup(t, ref, "def")})

\* What a list of references brings along is settled.
SoundOver(t, sp, m, s, refs) ==
    /\ Sound(t, sp, m, SideFacts(t, refs, s))
    /\ Sound(t, sp, m, ReferredTools(t, sp, refs, s))
    /\ \A agent, method : agent[1] = "agent" /\ method \in MethodNames \ {"declared"} =>
          /\ Sound(t, sp, m, FlattenSeq([i \in DOMAIN refs |-> BoundTool(t, sp, refs[i], agent, s, method)]))
          /\ Sound(t, sp, m, FlattenSeq([i \in DOMAIN refs |-> BoundTool(t, sp, refs[i], agent, s, method)
                                                               \o BoundServer(t, refs[i], agent, s)]))
    /\ \A agent : agent[1] = "agent" =>
          Sound(t, sp, m, FlattenSeq([i \in DOMAIN refs |->
              Listed({Edge("transfer:handoff", agent, BareId(n), "", s) : n \in AgentNamed(t, refs[i])})]))

\* The agent that a construct makes, and a list that holds it among settled facts.
AgentOf(t, s, id) ==
    AgentFact(id, At(t, s).name, IF At(t, s).c = "agent" THEN "ctor" ELSE "shape", <<s>>, s[1])
WithAgent(t, sp, m, a, list) ==
    IsList(list) /\ a \in ToSet(list) /\ \A g \in ToSet(list) : g = a \/ Settled(t, sp, m, g)

(***************************************************************************)
(* What a module contributes to the facts of a scan, without the flags of  *)
(* entrypoints: sp are the sinks that the scan knows.                      *)
(***************************************************************************)

SitesOf(t, m) == {<<m, i>> : i \in DOMAIN t.text[m].body}

CandAt(t, s) == [name |-> NodeName(At(t, s)), fn |-> At(t, s).fn, site |-> s]
AnchorsAt(t, sp, s) == IF At(t, s).c = "node" THEN Anchors(t, sp, CandAt(t, s)) ELSE {}
SinkOf(t, sp, s) == The(AnchorsAt(t, sp, s))

\* The constructs that make an agent of a slug, and those whose function is promoted to one:
\* the first of them owns the bare id.
MakersOf(t, m, k) == {i \in DOMAIN t.text[m].body : Makes(t, <<m, i>>) /\ Slug[At(t, <<m, i>>).name] = k}
PromotersOf(t, sp, m, k) ==
    {i \in DOMAIN t.text[m].body : AnchorsAt(t, sp, <<m, i>>) # {} /\ Slug[NodeName(At(t, <<m, i>>))] = k}
Earliest(I) == CHOOSE i \in I : \A j \in I : i <= j
Claimed(t, sp, m, k) == MakersOf(t, m, k) # {} \/ PromotersOf(t, sp, m, k) # {}
Owner(t, sp, m, k) ==
    IF MakersOf(t, m, k) # {} THEN <<m, Earliest(MakersOf(t, m, k))>>
    ELSE IF PromotersOf(t, sp, m, k) # {} THEN SinkOf(t, sp, <<m, Earliest(PromotersOf(t, sp, m, k))>>)
    ELSE <<>>
IdOf(t, sp, m, name, site) ==
    IF Owner(t, sp, m, Slug[name]) = site THEN BareId(name) ELSE BareId(name) \o site

RuleFacts(t, sp, s) == ToSet(Emits(t, sp, s, IdOf(t, sp, s[1], At(t, s).name, s)))
PromotionFacts(t, sp, s) ==
    IF AnchorsAt(t, sp, s) = {} THEN {}
    ELSE ToSet(PromotionAdds(t, sp, CandAt(t, s), IdOf(t, sp, s[1], NodeName(At(t, s)), SinkOf(t, sp, s))))

RouteFacts(t, sp, s) ==
    {Edge("transfer:route", BareId(r.from), BareId(r.to), r.guard, r.site) :
        r \in {x \in ToSet(NewRoutes(t, s)) : Claimed(t, sp, s[1], Slug[x.from]) /\ Claimed(t, sp, s[1], Slug[x.to])}}
LinksOf(crew) ==
    {Edge("transfer:route", BareId(crew.names[i]), BareId(crew.names[i + 1]), "", crew.site) :
        i \in {j \in 1..Len(crew.names) - 1 : BareId(crew.names[j]) # BareId(crew.names[j + 1])}}
CrewFacts(t, s) == UNION {LinksOf(crew) : crew \in {c \in ToSet(NewCrews(t, s)) : ~c.hierarchical}}

Spent(t, sp, m) == UNION {AnchorsAt(t, sp, s) : s \in SitesOf(t, m)}
UsageAt(t, s) ==
    {ModelFact(t, At(t, s).model, "sink", s),
     [k |-> "usage", id |-> <<"usage">> \o s, model |-> ModelFact(t, At(t, s).model, "sink", s).id,
      method |-> "usage", ev |-> <<s>>, src |-> s[1]]}
UsagesOf(t, sp, m) == UNION {UsageAt(t, s) : s \in (SitesOf(t, m) \cap sp) \ Spent(t, sp, m)}

AtFacts(t, sp, s) == RuleFacts(t, sp, s) \cup PromotionFacts(t, sp, s) \cup RouteFacts(t, sp, s) \cup CrewFacts(t, s)
ModuleFacts(t, sp, m) ==
    (UNION {AtFacts(t, sp, s) : s \in SitesOf(t, m)}) \cup ToSet(DeclaredFacts(t, sp, m)) \cup UsagesOf(t, sp, m)

(***************************************************************************)
(* Modules that cannot tell two trees apart contribute the same            *)
(***************************************************************************)

LocalNodes(t, m) == \A i \in DOMAIN t.text[m].body : t.text[m].body[i].c = "node" => t.text[m].body[i].fn.mod = m
SameSinks(t, sp1, sp2, m) == \A i \in DOMAIN t.text[m].body : <<m, i>> \in sp1 <=> <<m, i>> \in sp2

\* What two trees agree on at a construct.
SameAt(t1, sp1, t2, sp2, s) ==
    /\ At(t1, s) = At(t2, s) /\ (Makes(t1, s) <=> Makes(t2, s))
    /\ AnchorsAt(t1, sp1, s) = AnchorsAt(t2, sp2, s)
    /\ \A id : Emits(t1, sp1, s, id) = Emits(t2, sp2, s, id)
    /\ NewRoutes(t1, s) = NewRoutes(t2, s) /\ NewCrews(t1, s) = NewCrews(t2, s)
    /\ \A id : AnchorsAt(t1, sp1, s) # {} =>
                 PromotionAdds(t1, sp1, CandAt(t1, s), id) = PromotionAdds(t2, sp2, CandAt(t2, s), id)

(***************************************************************************)
(* What a module contributes is settled, and its agents are those of its   *)
(* constructs                                                              *)
(***************************************************************************)

PromotedAgent(t, sp, s) ==
    AgentFact(IdOf(t, sp, s[1], NodeName(At(t, s)), SinkOf(t, sp, s)), NodeName(At(t, s)), "promotion",
              <<s, SinkOf(t, sp, s)>>, s[1])
MadeAgent(t, sp, s) == AgentOf(t, s, IdOf(t, sp, s[1], At(t, s).name, s))
MadeBy(t, sp, s, g) ==
    \/ Makes(t, s) /\ g = MadeAgent(t, sp, s)
    \/ AnchorsAt(t, sp, s) # {} /\ g = PromotedAgent(t, sp, s)
SettledIn(t, sp, m, g) == Settled(t, sp, m, g) \/ \E s \in SitesOf(t, m) : MadeBy(t, sp, s, g)

(***************************************************************************)
(* What the rules of the analysed modules give, in any order of modules    *)
(***************************************************************************)

AllSites(t, D) == UNION {SitesOf(t, m) : m \in D}
RulesOf(t, sp, S) == UNION {RuleFacts(t, sp, s) : s \in S}
DeclaredOf(t, sp, D) == UNION {ToSet(DeclaredFacts(t, sp, m)) : m \in D}
RoutesOf(t, S) == UNION {ToSet(NewRoutes(t, s)) : s \in S}
CrewsOf(t, S) == UNION {ToSet(NewCrews(t, s)) : s \in S}

\* The candidates are the nodes, those of a module in order.
CandsAre(t, S, cands) ==
    /\ \A c \in ToSet(cands) : \E s \in S : At(t, s).c = "node" /\ c = CandAt(t, s)
    /\ \A s \in S : At(t, s).c = "node" => CandAt(t, s) \in ToSet(cands)
    /\ \A a, b \in DOMAIN cands :
          a < b /\ cands[a].site[1] = cands[b].site[1] => cands[a].site[2] < cands[b].site[2]

\* The names of the modules have their first makers for owners.
IdsAre(t, only, S, ids) ==
    \A k : \A m \in only : <<k, m>> \in NameUses(t) =>
        /\ k \in DOMAIN ids <=> \E i \in MakersOf(t, m, k) : <<m, i>> \in S
        /\ k \in DOMAIN ids => ids[k] = <<m, Earliest(MakersOf(t, m, k))>>

RulesAre(t, sp, only, S, D, run) ==
    /\ IsRun(run)
    /\ ToSet(run.facts) = RulesOf(t, sp, S) \cup DeclaredOf(t, sp, D)
    /\ ToSet(run.routes) = RoutesOf(t, S)
    /\ ToSet(run.crews) = CrewsOf(t, S)
    /\ run.consumed = {}
    /\ CandsAre(t, S, run.cands)
    /\ IdsAre(t, only, S, run.ids)

\* One more construct.
MoreSites(t, sp, S, s) ==
    /\ RulesOf(t, sp, S \cup {s}) = RulesOf(t, sp, S) \cup RuleFacts(t, sp, s)
    /\ RoutesOf(t, S \cup {s}) = RoutesOf(t, S) \cup ToSet(NewRoutes(t, s))
    /\ CrewsOf(t, S \cup {s}) = CrewsOf(t, S) \cup ToSet(NewCrews(t, s))

\* One more module.
MoreModules(t, sp, D, m) ==
    /\ DeclaredOf(t, sp, D \cup {m}) = DeclaredOf(t, sp, D) \cup ToSet(DeclaredFacts(t, sp, m))
    /\ AllSites(t, D \cup {m}) = AllSites(t, D) \cup SitesOf(t, m)

\* The first maker of a name finds it free, the later ones find it taken.
Placed(t, sp, S, run, m, i, k) ==
    /\ AgentId(run, At(t, <<m, i>>).name, <<m, i>>) = IdOf(t, sp, m, At(t, <<m, i>>).name, <<m, i>>)
    /\ i \in MakersOf(t, m, k)
    /\ k \in DOMAIN run.ids => run.ids[k] # <<m, i>> /\ \E j \in MakersOf(t, m, k) : <<m, j>> \in S
    /\ k \notin DOMAIN run.ids => Earliest(MakersOf(t, m, k)) = i

Scanning(t, sp, only, carried, S, D, run) == RunInv(only, carried, run) /\ RulesAre(t, sp, only, S, D, run)

\* The constructs of a module before one of them are among some constructs, and no other of the module is.
UpTo(t, S, m, i) ==
    /\ \A j \in DOMAIN t.text[m].body : <<m, j>> \in S <=> j < i
    /\ \A s \in S : s[1] = m => s[2] < i

FirstSites(m, k) == {<<m, j>> : j \in 1..k}

\* The first constructs of a module, one more of them, and all of them.
Enough(t, m, n, D, k) ==
    /\ FirstSites(m, k + 1) = FirstSites(m, k) \cup {<<m, k + 1>>}
    /\ FirstSites(m, n) = SitesOf(t, m)
    /\ UpTo(t, AllSites(t, D) \cup FirstSites(m, k), m, k + 1)

\* The agents that are carried bear names that the analysed modules do not use.
Foreign(t, only, carried) ==
    \A c \in ToSet(carried) : c.k = "agent" => \A m \in only : <<c.id[2], m>> \notin NameUses(t)

(***************************************************************************)
(* The promotions                                                          *)
(***************************************************************************)

PromotionsOf(t, sp, S) == UNION {PromotionFacts(t, sp, s) : s \in S}
SpentAt(t, sp, S) == UNION {AnchorsAt(t, sp, s) : s \in S}

\* The names of the modules have their owners, as far as the nodes have been promoted.
OwnersAre(t, sp, only, S, ids) ==
    \A k : \A m \in only : <<k, m>> \in NameUses(t) =>
        /\ k \in DOMAIN ids <=> MakersOf(t, m, k) # {} \/ \E i \in PromotersOf(t, sp, m, k) : <<m, i>> \in S
        /\ k \in DOMAIN ids => ids[k] = Owner(t, sp, m, k)

Promoting(t, sp, only, carried, B, start, S, run) ==
    /\ RunInv(only, carried, run)
    /\ ToSet(run.facts) = B \cup PromotionsOf(t, sp, S)
    /\ run.consumed = SpentAt(t, sp, S)
    /\ run.routes = start.routes /\ run.crews = start.crews
    /\ OwnersAre(t, sp, only, S, run.ids)

\* The nodes of a module before one of them are among some constructs.
NodesUpTo(t, S, m, i) ==
    \A j \in DOMAIN t.text[m].body : At(t, <<m, j>>).c = "node" /\ j < i => <<m, j>> \in S

\* The owner that a promotion meets or makes.
Promotes(t, sp, run, m, s, name) ==
    /\ AgentId(run, name, SinkOf(t, sp, s)) = IdOf(t, sp, m, name, SinkOf(t, sp, s))
    /\ Slug[name] \in DOMAIN run.ids => run.ids[Slug[name]] = Owner(t, sp, m, Slug[name])
    /\ Slug[name] \notin DOMAIN run.ids => SinkOf(t, sp, s) = Owner(t, sp, m, Slug[name])

\* One more node.
MorePromotions(t, sp, S, s) ==
    /\ PromotionsOf(t, sp, S \cup {s}) = PromotionsOf(t, sp, S) \cup PromotionFacts(t, sp, s)
    /\ SpentAt(t, sp, S \cup {s}) = SpentAt(t, sp, S) \cup AnchorsAt(t, sp, s)

\* A promotion does to the run what PromotedWith says, by its parts.
PartsAre(t, sp, run, cand, sink, adds, next) ==
    /\ next.facts = run.facts \o adds
    /\ next.ids = Registered(run, cand.name, sink).ids
    /\ next.routes = run.routes /\ next.crews = run.crews
    /\ next.consumed = run.consumed \cup Anchors(t, sp, cand)

\* The sites of the first candidates.
FirstCands(cands, k) == {cands[b].site : b \in 1..k}

\* A candidate and the nodes before it.
IsNext(t, only, cands, k, m, i) ==
    /\ m \in only /\ i \in DOMAIN t.text[m].body /\ At(t, <<m, i>>).c = "node"
    /\ cands[k + 1] = CandAt(t, <<m, i>>)
    /\ NodesUpTo(t, FirstCands(cands, k), m, i)
    /\ FirstCands(cands, k + 1) = FirstCands(cands, k) \cup {<<m, i>>}

\* All promotions.
Promotings(t, sp, only, carried, B, start, run) ==
    Promoting(t, sp, only, carried, B, start, AllSites(t, only), run)

(***************************************************************************)
(* The run before the flags                                                *)
(***************************************************************************)

\* The agents that are carried bear names that the analysed modules use nowhere.
Distant(t, only, carried) ==
    \A c \in ToSet(carried) : c.k = "agent" => \A m \in only : <<c.id[2], m>> \notin NameUses(t) \cup RouteUses(t)

\* The agents that modules make which are not analysed are carried.
Backed(t, only, carried) ==
    \A m \in DOMAIN t.text \ only : \A k :
        MakersOf(t, m, k) # {} => \E c \in ToSet(carried) : c.k = "agent" /\ c.id = <<"agent", k>>

ScannedFacts(t, sp, only, carried) ==
    RulesOf(t, sp, AllSites(t, only)) \cup DeclaredOf(t, sp, only) \cup ToSet(ConfigFacts(t)) \cup ToSet(carried)

Gathered(t, sp, only, carried, run) ==
    /\ RunInv(only, carried, run)
    /\ ToSet(run.facts) = ScannedFacts(t, sp, only, carried)
    /\ ToSet(run.routes) = RoutesOf(t, AllSites(t, only))
    /\ ToSet(run.crews) = CrewsOf(t, AllSites(t, only))
    /\ run.consumed = {}
    /\ CandsAre(t, AllSites(t, only), run.cands)
    /\ IdsAre(t, only, AllSites(t, only), run.ids)

\* Who has the bare id of a name.
ClaimIs(t, sp, m, k) ==
    /\ MakersOf(t, m, k) # {} =>
          \E s \in SitesOf(t, m) : Makes(t, s) /\ MadeAgent(t, sp, s).id = <<"agent", k>>
    /\ MakersOf(t, m, k) = {} /\ PromotersOf(t, sp, m, k) # {} =>
          \E s \in SitesOf(t, m) : AnchorsAt(t, sp, s) # {} /\ PromotedAgent(t, sp, s).id = <<"agent", k>>

\* The agents that the routes and the crews of the analysed modules ask for.
Known(t, sp, only, run) ==
    /\ \A k : \A m \in only :
          <<k, m>> \in RouteUses(t) => (<<"agent", k>> \in AgentIds(run) <=> Claimed(t, sp, m, k))
    /\ \A k : \A m \in DOMAIN t.text : MakersOf(t, m, k) # {} => <<"agent", k>> \in AgentIds(run)

\* The routes whose ends are agents.
RouteEdge(r) == Edge("transfer:route", BareId(r.from), BareId(r.to), r.guard, r.site)
RoutesOutcome(only, carried, run, next) ==
    /\ RunInv(only, carried, next)
    /\ \A g : g \in ToSet(next.facts) <=>
          \/ g \in ToSet(run.facts)
          \/ \E r \in ToSet(run.routes) :
                g = RouteEdge(r) /\ BareId(r.from) \in AgentIds(run) /\ BareId(r.to) \in AgentIds(run)
    /\ next.ids = run.ids /\ next.crews = run.crews /\ next.consumed = run.consumed

\* The links of crews whose members are agents.
CrewsOutcome(only, carried, run, next) ==
    /\ RunInv(only, carried, next)
    /\ \A g : g \in ToSet(next.facts) <=>
          g \in ToSet(run.facts) \/ \E crew \in ToSet(run.crews) : ~crew.hierarchical /\ g \in LinksOf(crew)
    /\ next.ids = run.ids /\ next.consumed = run.consumed

\* The links of one crew.
LinkAt(crew, chain, i) ==
    LET from == BareId(chain[i])
        to   == BareId(chain[i + 1])
    IN  IF from = to THEN <<>> ELSE <<Edge("transfer:route", from, to, "", crew.site)>>
LinkList(crew, chain) == FlattenSeq([i \in 1..Len(chain) - 1 |-> LinkAt(crew, chain, i)])
LinksAre(crew) == IsList(LinkList(crew, crew.names)) /\ ToSet(LinkList(crew, crew.names)) = LinksOf(crew)

\* The facts of a run before the flags.
RawFacts(t, sp, only, carried) ==
    ScannedFacts(t, sp, only, carried) \cup PromotionsOf(t, sp, AllSites(t, only))
    \cup (UNION {RouteFacts(t, sp, s) : s \in AllSites(t, only)})
    \cup (UNION {CrewFacts(t, s) : s \in AllSites(t, only)})

Raw(t, sp, only, carried, run) ==
    /\ RunInv(only, carried, run)
    /\ ToSet(run.facts) = RawFacts(t, sp, only, carried)
    /\ run.consumed = SpentAt(t, sp, AllSites(t, only))

\* What a scan may carry.
Fit(t, only, carried) ==
    /\ GoodTree(t) /\ Separated(t) /\ only \in SUBSET DOMAIN t.text
    /\ GoodCarried(carried) /\ Distant(t, only, carried) /\ Backed(t, only, carried)

RawRun(t, only, carried, run) == Raw(t, SinkSites(t, only), only, carried, run)

\* The usages of a scan are those of the model calls that no agent took.
UsedAt(t, sp, consumed, list) ==
    /\ IsList(list)
    /\ \A g : g \in ToSet(list) <=> \E s \in sp \ consumed : g \in UsageAt(t, s)

\* What a scan reports before the flags.
ScanFacts(t, only, carried) ==
    (UNION {ModuleFacts(t, SinkSites(t, only), m) : m \in only}) \cup ToSet(ConfigFacts(t)) \cup ToSet(carried)

(***************************************************************************)
(* The flags                                                               *)
(***************************************************************************)

FlagAt(t, f) == IF f.k = "agent" THEN Flag(f, Slug[f.name] \in Marked(t)) ELSE f
Flagged(t, F) == {FlagAt(t, f) : f \in F}

Applied(t, run, next) ==
    /\ IsList(next.facts) /\ next.consumed = run.consumed
    /\ ToSet(next.facts) = Flagged(t, ToSet(run.facts))

IsAgentFact(f) ==
    f.k = "agent" => \E id, name, method, ev, src : f = AgentFact(id, name, method, ev, src)

\* What a scan gives.
ScanGives(t, only, carried, s) ==
    /\ IsList(s.facts)
    /\ ToSet(s.facts) = Flagged(t, ScanFacts(t, only, carried))
    /\ s.record = Record(s.facts, Cardinality(SinkSites(t, only)))

(***************************************************************************)
(* What a module contributes, whichever modules are analysed with it, and  *)
(* in whichever tree that it cannot tell from this one                     *)
(***************************************************************************)

AllSinks(t) == SinkSites(t, DOMAIN t.text)

Untouched(t) == DOMAIN t.text \ Affected(t)

(***************************************************************************)
(* What is carried                                                         *)
(***************************************************************************)

FactsOf(t, D) == UNION {ModuleFacts(t, AllSinks(t), m) : m \in D}
TreeFacts(t) == FactsOf(t, DOMAIN t.text) \cup ToSet(ConfigFacts(t))

\* Where a fact lies.
Lies(t, m, g) == g.src = m /\ Near(t, m, g.ev)

\* A flag changes the entry only.
FlaggedAs(g, f) ==
    /\ f.k = g.k /\ f.id = g.id /\ f.method = g.method /\ f.src = g.src /\ f.ev = g.ev
    /\ g.k = "agent" => f.name = g.name
    /\ g.k # "agent" => f = g

(***************************************************************************)
(* The order of the facts                                                  *)
(***************************************************************************)

OfId(S, id) == {f \in S : f.k # "edge" /\ f.id = id}
United(f, S) == [f EXCEPT !.ev = UNION {ToSet(g.ev) : g \in S},
                          !.method = {g.method : g \in S},
                          !.src = {g.src : g \in S}]
MergedFrom(S, id, node) ==
    \E f \in OfId(S, id) : (\A g \in OfId(S, id) : Rank(f) <= Rank(g)) /\ node = United(f, OfId(S, id))

\* What two facts say beside their evidence.
Alike(f, g) == DOMAIN f = DOMAIN g /\ \A x \in DOMAIN f \ {"ev", "method", "src"} : f[x] = g[x]
Determined(S) ==
    \A f \in S, g \in S : f.k # "edge" /\ g.k # "edge" /\ f.id = g.id /\ f.method = g.method => Alike(f, g)

\* What a construct tells of the agent that it makes.
MadeTells(t, s, f) ==
    /\ f.k = "agent" /\ DOMAIN f = {"k", "id", "name", "entry", "method", "ev", "src"}
    /\ f.entry = (Slug[f.name] \in Marked(t))
    /\ f.method # "promotion" => Origin(f) = s /\ f.name = At(t, s).name
    /\ f.method = "promotion" => /\ At(t, s).c = "node" /\ f.name = NodeName(At(t, s)) /\ f.id[2] = Slug[f.name]
                                 /\ Origin(f) \in Lookup(t, At(t, s).fn, "def")

\* What the tree tells of a fact.
FactTells(t, f) ==
    CASE f.k = "edge"  -> TRUE
      [] f.k = "agent" -> \E m \in DOMAIN t.text : \E s \in SitesOf(t, m) : MadeTells(t, s, f)
      [] f.k = "tool"  -> ToolSettled(t, AllSinks(t), f)
      [] f.k = "usage" -> UsageSettled(t, f)
      [] OTHER         -> DOMAIN f = {"k", "id", "method", "ev", "src"}

(***************************************************************************)
(* An incremental scan is a full scan                                      *)
(***************************************************************************)

\* What a scan of a tree is to give, however it came about.
GivesTree(t, s) ==
    /\ IsList(s.facts) /\ ToSet(s.facts) = Flagged(t, TreeFacts(t))
    /\ \E only \in SUBSET DOMAIN t.text : s.record = Record(s.facts, Cardinality(SinkSites(t, only)))

\* While the trees scanned are separated the cache holds the facts of the last of them, in whatever chain
\* of scans it came about, and the record is that of a full scan.
ApartInv ==
    HasRecord /\ separated =>
        Separated(base) /\ ToSet(cache.facts) = Flagged(base, TreeFacts(base)) /\ LikeFull
=============================================================================
