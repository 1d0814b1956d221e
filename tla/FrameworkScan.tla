--------------------------- MODULE FrameworkScan ---------------------------
(***************************************************************************)
(* Scans of one repository over its commits: the part of aiscan/core.py    *)
(* between the modules and the record, with the carrying of                *)
(* incremental/factcache.py.                                               *)
(*                                                                         *)
(* A repository offers some texts for each module and some sets of         *)
(* configured servers; a commit replaces one of them.  Whether a scan may  *)
(* be incremental at all is the business of ScanCache: here the cache is   *)
(* always that of the last scan, and no source file was deleted since.     *)
(***************************************************************************)
EXTENDS RecordGraph

CONSTANTS
    Repositories,   \* [texts: module -> possible texts, configs: possible sets of servers]
    Absent          \* the text of a module that does not exist

(* What a construct lists it lists in order, and what it refers to lies in *)
(* its module or in a module that this one imports: the resolver follows   *)
(* imports.  A construction no pack claims bears the name of its variable  *)
(* or its class.  A configuration file is no module.                       *)
Follows(m, text, refs) == \A ref \in refs : ref.mod \in text.imports \cup {m}
RefsAmong(values) == {e \in values : e.n = "ref"}
Construct(m, text, x) ==
    /\ x.c \in {"agent", "generic", "task", "tools"} => IsList(x.tools) /\ Follows(m, text, ToSet(x.tools))
    /\ x.c = "agent" => /\ IsList(x.handoffs) /\ Follows(m, text, ToSet(x.handoffs))
                        /\ IsList(x.model) /\ Follows(m, text, RefsAmong(ToSet(x.model)))
    /\ x.c = "generic" => /\ x.name # ""
                          /\ IsList(x.kwargs) /\ Follows(m, text, RefsAmong({a.e : a \in ToSet(x.kwargs)}))
    /\ x.c \in {"task", "mark"} => Follows(m, text, {x.agent})
    /\ x.c = "node" => Follows(m, text, {x.fn})
    /\ x.c = "crew" => IsList(x.agents) /\ Follows(m, text, ToSet(x.agents))
    /\ x.c = "route" => IsList(x.to)
    /\ x.c \in {"def", "class"} => IsList(x.calls) /\ Follows(m, text, ToSet(x.calls))
    /\ x.c = "def" => Follows(m, text, RefsAmong({x.model}))

ASSUME RepositoriesAssumption ==
    \A r \in Repositories :
        /\ DOMAIN r.texts \subseteq ToSet(ModuleOrder) \ {"config"}
        /\ \A config \in r.configs : IsFiniteSet(config)
        /\ \A m \in DOMAIN r.texts : \A text \in r.texts[m] \ {Absent} :
              IsList(text.body) /\ \A i \in DOMAIN text.body : Construct(m, text, text.body[i])

VARIABLES
    repo,
    tree,           \* the tree at HEAD
    base,           \* the tree of the last scan
    cache,          \* facts.jsonl and entrypoint_marks.jsonl of the last scan
    last,           \* "none", "full" or "incremental", and the record it gave
    separated       \* since the last full scan every tree scanned was separated (see below)

vars == <<repo, tree, base, cache, last, separated>>

TreeOf(texts, config) ==
    [text |-> [m \in {n \in DOMAIN texts : texts[n] # Absent} |-> texts[m]], config |-> config]
NoFacts == [facts |-> <<>>, marks |-> <<>>]

Init ==
    /\ repo \in Repositories
    /\ \E texts \in [DOMAIN repo.texts -> UNION {repo.texts[m] : m \in DOMAIN repo.texts}],
          config \in repo.configs :
            /\ \A m \in DOMAIN texts : texts[m] \in repo.texts[m]
            /\ tree = TreeOf(texts, config)
    /\ base = tree
    /\ cache = NoFacts
    /\ last = [kind |-> "none"]
    /\ separated = TRUE

Texts(t) == [m \in DOMAIN repo.texts |-> IF m \in DOMAIN t.text THEN t.text[m] ELSE Absent]
Commit ==
    /\ \/ \E m \in DOMAIN repo.texts : \E x \in repo.texts[m] \ {Texts(tree)[m]} :
            tree' = TreeOf([Texts(tree) EXCEPT ![m] = x], tree.config)
       \/ \E c \in repo.configs \ {tree.config} : tree' = [tree EXCEPT !.config = c]
    /\ UNCHANGED <<repo, base, cache, last, separated>>

(***************************************************************************)
(* What an incremental scan analyses and what it carries                   *)
(***************************************************************************)
ChangedModules(t) == {m \in DOMAIN t.text : m \notin DOMAIN base.text \/ t.text[m] # base.text[m]}
ChangedFiles(t) == ChangedModules(t) \cup (IF t.config # base.config THEN {"config"} ELSE {})

Importers(t, mods) == {m \in DOMAIN t.text : t.text[m].imports \cap mods # {}}

(* The closure under importers: what the loop computes, see DepGraph.      *)
Closure(t, mods) ==
    {m \in DOMAIN t.text : \A S \in SUBSET DOMAIN t.text : mods \cup Importers(t, S) \subseteq S => m \in S}
OnlyChanged(t) == ChangedModules(t)
Affected(t) == Closure(t, ChangedModules(t))

(* A fact belongs to its file; it is kept if that is a module that is not  *)
(* analysed again, and none of its evidence lies in a changed file.        *)
Keeps(t, f) ==
    /\ f.src \in DOMAIN t.text \ Affected(t)
    /\ {s[1] : s \in ToSet(f.ev)} \cap ChangedFiles(t) = {}
CarriedFacts(t) == Filtered(cache.facts, {f \in ToSet(cache.facts) : Keeps(t, f)})
CarriedMarks(t) == Filtered(cache.marks, {mark \in ToSet(cache.marks) : mark[2] \notin Affected(t)})

(***************************************************************************)
(* scan                                                                    *)
(***************************************************************************)
Outcome(run, usages, sinkCount) ==
    [facts |-> run.facts \o usages, marks |-> run.marks, record |-> Record(run.facts \o usages, sinkCount)]
WithUsages(t, sinks, run) == Outcome(run, UsageFacts(t, sinks, run.consumed), Cardinality(sinks))
Scanned(t, only, carried, marks, kind) ==
    WithUsages(t, SinkSites(t, only), Run(t, only, carried, marks, kind = "incremental"))

FullOf(t) == Scanned(t, DOMAIN t.text, <<>>, <<>>, "full")
(* A file of facts is sorted, and no line is in it twice.                  *)
Finish(kind, s) ==
    /\ cache' = [facts |-> Listed(ToSet(s.facts)), marks |-> Listed(ToSet(s.marks))]
    /\ last' = [kind |-> kind, record |-> s.record, derived |-> Derived(s.record)]
    /\ base' = tree
    /\ UNCHANGED <<repo, tree>>

(***************************************************************************)
(* A tree is separated if no two of its modules meet by anything but what  *)
(* the resolver follows, and no two constructs of one module make the same *)
(* component differently: each agent name is used in one module, nodes and *)
(* routes are about functions and agents of their own module, nodes of one *)
(* function and one slug are spelled alike, no two declared tools have one *)
(* name, no wrapper waits for a call, and a function that calls a model    *)
(* over HTTP lies in a module that no other imports.                       *)
(***************************************************************************)
SitesIn(t, kinds) ==
    UNION {{<<m, i>> : i \in {j \in DOMAIN t.text[m].body : t.text[m].body[j].c \in kinds}} : m \in DOMAIN t.text}
NameUses(t) ==
    {<<Slug[At(t, s).name], s[1]>> : s \in {x \in SitesIn(t, {"agent", "generic"}) : At(t, x).name # ""}}
    \cup {<<Slug[NodeName(At(t, s))], s[1]>> : s \in SitesIn(t, {"node"})}
RouteUses(t) ==
    UNION {{<<Slug[n], s[1]>> : n \in {At(t, s).from} \cup ToSet(At(t, s).to)} : s \in SitesIn(t, {"route"})}
DeclaredSites(t) == {s \in SitesIn(t, {"def", "class"}) : At(t, s).tool # ""}
Separated(t) ==
    /\ \A u \in NameUses(t), v \in NameUses(t) \cup RouteUses(t) : u[1] = v[1] => u[2] = v[2]
    /\ \A s \in SitesIn(t, {"node"}) :
            /\ At(t, s).fn.mod = s[1]
            /\ \A r \in SitesIn(t, {"node"}) :
                    /\ At(t, r).fn.mod = At(t, s).fn.mod /\ At(t, r).fn.var = At(t, s).fn.var
                    /\ Slug[NodeName(At(t, r))] = Slug[NodeName(At(t, s))]
                    => NodeName(At(t, r)) = NodeName(At(t, s))
    /\ \A s \in DeclaredSites(t), r \in DeclaredSites(t) :
            s[1] = r[1] /\ At(t, s).var = At(t, r).var => s = r
    /\ \A s \in SinkSites(t, DOMAIN t.text) : ~At(t, s).wrapper
    /\ \A s \in SinkSites(t, DOMAIN t.text) :
            At(t, s).sink = "http" => \A m \in DOMAIN t.text : s[1] \notin t.text[m].imports

FullScan ==
    /\ Finish("full", FullOf(tree))
    /\ separated' = Separated(tree)

IncrementalScan ==
    /\ last.kind # "none"
    /\ DOMAIN base.text \subseteq DOMAIN tree.text
    /\ tree # base
    /\ Finish("incremental", Scanned(tree, Affected(tree), CarriedFacts(tree), CarriedMarks(tree), "incremental"))
    /\ separated' = (separated /\ Separated(tree))

Next == Commit \/ FullScan \/ IncrementalScan

Spec == Init /\ [][Next]_vars
-----------------------------------------------------------------------------
HasRecord == last.kind # "none"

(* The graph is well formed: every edge joins two nodes, an agent is bound *)
(* to models, tools and servers only, and transfers join agents.           *)
WellFormed(g) ==
    LET Ends(e, from, to) == g.nodes[e.from].k = from /\ g.nodes[e.to].k = to
    IN  /\ \A id \in DOMAIN g.nodes : g.nodes[id].id = id
        /\ \A e \in DOMAIN g.edges :
             /\ {e.from, e.to} \subseteq DOMAIN g.nodes
             /\ CASE e.type = "bind_model"    -> Ends(e, "agent", "model")
                  [] e.type = "bind_tool"     -> Ends(e, "agent", "tool")
                  [] e.type = "bind_mcp"      -> Ends(e, "agent", "mcp")
                  [] e.type = "attach_policy" -> Ends(e, "policy", "mcp")
                  [] e.type = "uses_model"    -> Ends(e, "usage", "model")
                  [] OTHER                    -> Ends(e, "agent", "agent")
TypeOK == HasRecord => WellFormed(last.record.graph)

(* No two agents of the repository share an identity, through any chain of *)
(* incremental scans: facts with one id come from one construct or from    *)
(* candidates of one function.                                             *)
Origin(f) == IF f.method = "promotion" THEN f.ev[2] ELSE f.ev[1]
AgentIdsAreUnique ==
    \A f \in ToSet(cache.facts), g \in ToSet(cache.facts) :
        f.k = "agent" /\ g.k = "agent" /\ f.id = g.id => Origin(f) = Origin(g)

(* An agent is an entrypoint exactly if some module of the tree runs an    *)
(* agent of its name, whichever modules were analysed again.               *)
Marked(t) == UNION {{Slug[n] : n \in AgentNamed(t, At(t, s).agent)} : s \in SitesIn(t, {"mark"})}
EntrypointsAreMarked ==
    HasRecord => \A id \in OfKind(last.record.graph.nodes, "agent") :
                    LET node == last.record.graph.nodes[id]
                    IN  node.entry <=> Slug[node.name] \in Marked(base)

(* The record of an incremental scan is that of a full scan of its tree.   *)
LikeFull == last.record = FullOf(base).record
IncrementalIsFullApart == HasRecord /\ separated => LikeFull
IncrementalIsFull == HasRecord => LikeFull

(* What is derived from transfers is what they reach, however they wind:   *)
(* the smallest set of agents that holds the start and everything its      *)
(* members transfer to.                                                    *)
Successors(a) == last.record.agents[a].handoffs \cup last.record.agents[a].routes
Closed(set) == \A a \in set : Successors(a) \subseteq set
SmallestClosed(start) ==
    {b \in DOMAIN last.record.agents :
        \A set \in SUBSET DOMAIN last.record.agents : start \subseteq set /\ Closed(set) => b \in set}
DerivedFollowsTransfers ==
    HasRecord =>
        LET agents == last.record.agents
            live   == SmallestClosed({a \in DOMAIN agents : agents[a].entry})
        IN  \A a \in DOMAIN agents :
                LET d == last.derived.agents[a]
                IN  /\ d.tools = UNION {agents[b].tools : b \in SmallestClosed({a})}
                    /\ d.liveness = "defined" <=> a \notin live
=============================================================================
