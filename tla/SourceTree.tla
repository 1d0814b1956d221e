----------------------------- MODULE SourceTree -----------------------------
(***************************************************************************)
(* The repository tree as the scanner sees it, and what an analysis of it  *)
(* depends on (aiscan/core.py, aiscan/incremental, aiscan/modules/graph.py)*)
(*                                                                         *)
(* A tree gives every source module a text (or Absent) and has one         *)
(* content for its global resolution inputs (lockfiles, tsconfig).  The    *)
(* result of analysing a module is represented by exactly what the         *)
(* analysis reads: the texts of the modules it can reach over imports, the *)
(* source-root layout, the global inputs and the version of the analysis.  *)
(* Two analyses agree iff they read the same things.                       *)
(*                                                                         *)
(* What a text makes the resolver read (ImportsOf) and what the dependency *)
(* graph knows of it (EdgesOf) are two constants: depgraph.py approximates *)
(* the first by the second, and misses reads in nested packages (DepGraph).*)
(* Facts that modules share without importing one another (the order in    *)
(* which agents take identities, the registry of wrappers, the sinks of    *)
(* modules that are not analysed) are the subject of FrameworkScan and     *)
(* WrapperRegistry, not of this module.                                    *)
(***************************************************************************)
EXTENDS Integers, FiniteSets, FiniteSetsExt

CONSTANTS
    Modules,      \* source modules of the repository
    Texts,        \* contents a source file can have
    Absent,       \* the module's file does not exist
    ImportsOf,    \* [Texts -> SUBSET Modules]: what the resolver reads for a text
    EdgesOf,      \* [Texts -> SUBSET Modules]: where the edges of a text lead
    Parsable,     \* the texts a parser accepts
    Signalling,   \* the texts that contain an AI signal for the triage
    LocOf,        \* [Texts -> Nat]: lines of code
    SrcInits,     \* the modules whose file is src/<pkg>/__init__.py
    GlobalInputs, \* contents of the dependency manifests and tsconfig files
    MaxFiles,     \* Settings.max_files
    MaxLoc        \* Settings.max_loc

ASSUME AbsentAssumption == Absent \notin Texts
ASSUME ImportsAssumption == {ImportsOf, EdgesOf} \subseteq [Texts -> SUBSET Modules]
ASSUME LocAssumption == LocOf \in [Texts -> Nat]
ASSUME FiniteAssumption == IsFiniteSet(Modules)

Trees == [mods : [Modules -> Texts \cup {Absent}], deps : GlobalInputs]

\* The files the source discovery lists.
Present(t) == {m \in Modules : t.mods[m] # Absent}

\* The modules of the module graph: the files that also parsed.
Live(t) == {m \in Present(t) : t.mods[m] \in Parsable}

\* detect_source_roots over a set of files.
SourceRoots(files) == IF files \cap SrcInits = {} THEN {"root"} ELSE {"root", "src"}

-----------------------------------------------------------------------------
(* Dependencies between modules *)

Imports(t, m) == ImportsOf[t.mods[m]] \cap Live(t)

\* The edges of build_dependency_edges that start at m.
Edges(t, m) == EdgesOf[t.mods[m]] \cap Live(t)

\* No import leads out of S.
ClosedUnderImports(t, S) == \A m \in S : Imports(t, m) \subseteq S

\* Everything the analysis of m can read: the least set that holds m and is
\* closed under the imports of t.
Reach(t, m) ==
    {n \in Live(t) :
        \A S \in SUBSET Live(t) :
            (m \in S /\ ClosedUnderImports(t, S)) => n \in S}

\* Whoever has an edge into S is in S.
HoldsDependents(t, S) == \A m \in Live(t) : Edges(t, m) \cap S # {} => m \in S

\* The reverse closure of the changed modules over the edges.
AffectedModules(t, changed) ==
    {m \in Live(t) :
        \A S \in SUBSET Live(t) :
            (changed \subseteq S /\ HoldsDependents(t, S)) => m \in S}

\* git diff --name-only between two trees, restricted to source modules.
ChangedModules(t, u) == {m \in Modules : t.mods[m] # u.mods[m]}

-----------------------------------------------------------------------------
(* What a full scan of a tree produces *)

\* The facts of module m; tier tells the rule-derived facts from the ones the
\* adjudicating model adds.
AnalysisOf(t, version, m, tier) ==
    [mod     |-> m,
     tier    |-> tier,
     version |-> version,
     deps    |-> t.deps,
     roots   |-> SourceRoots(Live(t)),
     reads   |-> [n \in Reach(t, m) |-> t.mods[n]]]

Analyses(t, version, mods, tier) == {AnalysisOf(t, version, m, tier) : m \in mods}

HasSignals(t) == \E m \in Present(t) : t.mods[m] \in Signalling

Loc(t) == MapThenSumSet(LAMBDA m : LocOf[t.mods[m]], Live(t))

\* A limit of zero is no limit.
OverBudget(t) ==
    \/ MaxFiles # 0 /\ Cardinality(Present(t)) > MaxFiles
    \/ MaxLoc # 0 /\ Loc(t) > MaxLoc

\* The outcome of the triage and of the size budgets, in the order of scan().
ScanKind(t) ==
    IF ~HasSignals(t) THEN "no_ai"
    ELSE IF OverBudget(t) THEN "bounded"
    ELSE "full"

AdjudicatedFacts(t, version, adjudicate) ==
    IF adjudicate THEN Analyses(t, version, Live(t), "llm") ELSE {}

FullFacts(t, version, adjudicate) ==
    IF ScanKind(t) = "full"
    THEN Analyses(t, version, Live(t), "rules") \cup AdjudicatedFacts(t, version, adjudicate)
    ELSE {}

\* The enrichment note of a record: the early returns of scan() leave the one
\* for no_ai, and none for a bounded scan.
EnrichmentNote(kind, enrich) ==
    IF ~enrich \/ kind = "bounded" THEN "not requested"
    ELSE IF kind = "no_ai" THEN "skipped"
    ELSE "drafted"

RecordOf(t, facts, enrich) ==
    [kind       |-> ScanKind(t),
     deps       |-> t.deps,
     facts      |-> facts,
     enrichment |-> EnrichmentNote(ScanKind(t), enrich)]

\* The record after enrich-in-place, which refuses only a no_ai verdict.
Enriched(record) ==
    [record EXCEPT !.enrichment = IF record.kind = "no_ai" THEN "skipped" ELSE "drafted"]

\* The part of a record that detection decides.
Detected(record) == <<record.kind, record.deps, record.facts>>

\* What a scan from scratch with options [adjudicate, enrich] returns.
FullRecord(t, version, options) ==
    RecordOf(t, FullFacts(t, version, options.adjudicate), options.enrich)

-----------------------------------------------------------------------------
(* The incremental scan's merge of carried and fresh facts *)

\* A merge that drops only what changed, and forgets what depends on it.
KeptUnlessChanged(prior, t, changed, affected) ==
    {f \in prior : f.mod \in Live(t) /\ f.mod \notin changed}

\* The facts that keep_unaffected_facts keeps.
KeptFacts(prior, t, changed, affected) ==
    {f \in prior : f.mod \in Live(t) /\ f.mod \notin affected /\ f.mod \notin changed}

IncrementalFacts(prior, t, changed, version, adjudicate) ==
    LET affected == AffectedModules(t, changed \cap Live(t))
    IN  KeptFacts(prior, t, changed, affected)
            \cup Analyses(t, version, affected, "rules")
            \cup AdjudicatedFacts(t, version, adjudicate)

-----------------------------------------------------------------------------
(* When the merge can be right *)

\* The edges know of everything the resolver reads.
EdgesCoverReads(t) == \A m \in Live(t) : Imports(t, m) \subseteq Edges(t, m)

\* Facts of a full scan of t may be carried into a scan of u.  The gate looks at
\* none of this: t was analysed, it named modules after the roots the manifest
\* bears, what was parsed there and has changed is still parsed, and the edges
\* miss nothing.
Carriable(t, u) ==
    /\ ScanKind(t) = "full" \/ Live(t) = {}
    /\ SourceRoots(Live(t)) = SourceRoots(Present(t))
    /\ ChangedModules(t, u) \cap Live(t) \subseteq Live(u)
    /\ EdgesCoverReads(u)

\* No model has contributed.
ByRule(facts) == \A f \in facts : f.tier = "rules"

=============================================================================
