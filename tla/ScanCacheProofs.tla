--------------------------- MODULE ScanCacheProofs ---------------------------
(***************************************************************************)
(* Proofs about ScanCache for every repository, history, set of options    *)
(* and sequence of mishaps.  First, about SourceTree, when an incremental  *)
(* scan may carry facts over: a module whose edges do not lead to a        *)
(* changed one is analysed to the same facts in both trees, and the merge  *)
(* of carried and fresh facts is the fact set of a full scan.  Then, of    *)
(* ScanCache, type correctness and the inductive invariant CacheInv.       *)
(***************************************************************************)
EXTENDS ScanCache, TLAPS

-----------------------------------------------------------------------------
(* Reach *)

LEMMA ReachFacts ==
    ASSUME NEW t \in Trees, NEW m \in Live(t)
    PROVE  /\ m \in Reach(t, m)
           /\ Reach(t, m) \subseteq Live(t)
           /\ ClosedUnderImports(t, Reach(t, m))
<1>1. m \in Reach(t, m)
  BY DEF Reach
<1>2. Reach(t, m) \subseteq Live(t)
  BY DEF Reach
<1>3. ASSUME NEW n \in Reach(t, m), NEW x \in Imports(t, n)
      PROVE  x \in Reach(t, m)
  <2>1. x \in Live(t)
    BY <1>3 DEF Imports
  <2>2. ASSUME NEW S \in SUBSET Live(t), m \in S, ClosedUnderImports(t, S)
        PROVE  x \in S
    <3>1. n \in S
      BY <2>2, <1>3 DEF Reach
    <3> QED
      BY <3>1, <2>2, <1>3 DEF ClosedUnderImports
  <2> QED
    BY <2>1, <2>2 DEF Reach
<1> QED
  BY <1>1, <1>2, <1>3 DEF ClosedUnderImports

\* Reach is contained in every closed set that holds the module.
LEMMA ReachIsLeast ==
    ASSUME NEW t \in Trees, NEW m,
           NEW S \in SUBSET Live(t), m \in S, ClosedUnderImports(t, S)
    PROVE  Reach(t, m) \subseteq S
BY DEF Reach

-----------------------------------------------------------------------------
(* A module that reaches no changed module *)

LEMMA UnchangedTexts ==
    ASSUME NEW t, NEW u, NEW n \in Modules, n \notin ChangedModules(t, u)
    PROVE  t.mods[n] = u.mods[n]
BY DEF ChangedModules

LEMMA LiveFacts ==
    ASSUME NEW t
    PROVE  /\ Live(t) \subseteq Present(t)
           /\ Present(t) \subseteq Modules
           /\ \A n \in Live(t) : t.mods[n] # Absent /\ t.mods[n] \in Parsable
BY DEF Live, Present

LEMMA ReachStable ==
    ASSUME NEW t \in Trees, NEW u \in Trees, NEW m \in Live(u),
           ChangedModules(t, u) \cap Live(t) \subseteq Live(u),
           Reach(u, m) \cap ChangedModules(t, u) = {}
    PROVE  /\ m \in Live(t)
           /\ Reach(t, m) = Reach(u, m)
           /\ \A n \in Reach(u, m) : t.mods[n] = u.mods[n]
<1> DEFINE R == Reach(u, m)
           Q == Reach(t, m)
<1>1. m \in R /\ R \subseteq Live(u) /\ ClosedUnderImports(u, R)
  BY ReachFacts
<1>2. \A n \in R : n \in Modules /\ t.mods[n] = u.mods[n]
  BY <1>1, LiveFacts, UnchangedTexts
<1>3. R \subseteq Live(t)
  BY <1>1, <1>2, LiveFacts DEF Live, Present
<1>4. ClosedUnderImports(t, R)
  <2> SUFFICES ASSUME NEW n \in R, NEW x \in Imports(t, n)
               PROVE  x \in R
    BY DEF ClosedUnderImports
  <2>1. x \in ImportsOf[u.mods[n]] /\ x \in Live(t)
    BY <1>2 DEF Imports
  <2>2. x \in Modules /\ t.mods[x] # Absent /\ t.mods[x] \in Parsable
    BY <2>1, LiveFacts
  <2>3. x \in Live(u)
    BY <2>1, <2>2, UnchangedTexts DEF Live, Present
  <2> QED
    BY <2>1, <2>3, <1>1 DEF Imports, ClosedUnderImports
<1>5. Q \subseteq R
  BY <1>1, <1>3, <1>4, ReachIsLeast
<1>6. m \in Q /\ ClosedUnderImports(t, Q)
  BY <1>1, <1>3, ReachFacts
<1>7. ClosedUnderImports(u, Q)
  <2> SUFFICES ASSUME NEW n \in Q, NEW x \in Imports(u, n)
               PROVE  x \in Q
    BY DEF ClosedUnderImports
  <2>1. n \in R /\ x \in R
    BY <1>1, <1>5 DEF ClosedUnderImports
  <2>2. x \in ImportsOf[t.mods[n]] /\ x \in Live(t)
    BY <2>1, <1>2, <1>3 DEF Imports
  <2> QED
    BY <2>2, <1>6 DEF Imports, ClosedUnderImports
<1>8. R \subseteq Q
  <2>1. Q \subseteq Live(u)
    BY <1>1, <1>5
  <2> HIDE DEF Q
  <2> QED
    BY <1>6, <1>7, <2>1, ReachIsLeast
<1> QED
  BY <1>1, <1>2, <1>3, <1>5, <1>8

\* The affected modules are the changed ones and whoever has an edge to an
\* affected one.
LEMMA AffectedFacts ==
    ASSUME NEW u \in Trees, NEW changed \in SUBSET Live(u)
    PROVE  /\ changed \subseteq AffectedModules(u, changed)
           /\ AffectedModules(u, changed) \subseteq Live(u)
           /\ HoldsDependents(u, AffectedModules(u, changed))
<1> DEFINE affected == AffectedModules(u, changed)
<1>1. changed \subseteq affected /\ affected \subseteq Live(u)
  BY DEF AffectedModules
<1>2. ASSUME NEW m \in Live(u), NEW x \in Edges(u, m) \cap affected
      PROVE  m \in affected
  <2>1. ASSUME NEW S \in SUBSET Live(u), changed \subseteq S, HoldsDependents(u, S)
        PROVE  m \in S
    <3>1. x \in S
      BY <2>1, <1>2 DEF AffectedModules
    <3> QED
      BY <3>1, <2>1, <1>2 DEF HoldsDependents
  <2> QED
    BY <2>1 DEF AffectedModules
<1> QED
  BY <1>1, <1>2 DEF HoldsDependents

\* If the edges miss no read, a module that is not affected reaches none that is.
LEMMA UnaffectedReach ==
    ASSUME NEW u \in Trees, NEW changed \in SUBSET Live(u), EdgesCoverReads(u),
           NEW m \in Live(u) \ AffectedModules(u, changed)
    PROVE  Reach(u, m) \cap AffectedModules(u, changed) = {}
<1> DEFINE affected == AffectedModules(u, changed)
           Rest == Live(u) \ affected
<1>1. HoldsDependents(u, affected)
  BY AffectedFacts
<1>2. ClosedUnderImports(u, Rest)
  <2> SUFFICES ASSUME NEW n \in Rest, NEW x \in Imports(u, n)
               PROVE  x \in Rest
    BY DEF ClosedUnderImports
  <2>1. x \in Live(u) /\ x \in Edges(u, n)
    BY DEF Imports, EdgesCoverReads
  <2> QED
    BY <2>1, <1>1 DEF HoldsDependents
<1>3. m \in Rest /\ Rest \in SUBSET Live(u)
  OBVIOUS
<1> HIDE DEF Rest
<1>4. Reach(u, m) \subseteq Rest
  BY <1>2, <1>3, ReachIsLeast
<1> QED
  BY <1>4 DEF Rest

-----------------------------------------------------------------------------
(* Facts *)

\* What the analysis of a stable module depends on is the same in both trees.
LEMMA StableAnalysis ==
    ASSUME NEW t \in Trees, NEW u \in Trees, NEW m \in Live(u),
           ChangedModules(t, u) \cap Live(t) \subseteq Live(u),
           Reach(u, m) \cap ChangedModules(t, u) = {},
           t.deps = u.deps, SourceRoots(Live(t)) = SourceRoots(Live(u)),
           NEW v, NEW tier
    PROVE  AnalysisOf(t, v, m, tier) = AnalysisOf(u, v, m, tier)
<1>1. /\ Reach(t, m) = Reach(u, m)
      /\ \A n \in Reach(u, m) : t.mods[n] = u.mods[n]
  BY ReachStable
<1>2. [n \in Reach(t, m) |-> t.mods[n]] = [n \in Reach(u, m) |-> u.mods[n]]
  BY <1>1
<1> QED
  BY <1>2 DEF AnalysisOf

\* The tiers a full scan fills in.
Tiers(adjudicate) == IF adjudicate THEN {"rules", "llm"} ELSE {"rules"}

\* The fact set of a tree that was analysed is that of every live module and
\* tier, and so is that of a tree in which nothing is live.
LEMMA FactsOf ==
    ASSUME NEW t \in Trees, ScanKind(t) = "full" \/ Live(t) = {},
           NEW v, NEW adjudicate \in BOOLEAN
    PROVE  FullFacts(t, v, adjudicate) =
               {AnalysisOf(t, v, m, tier) : m \in Live(t), tier \in Tiers(adjudicate)}
<1> DEFINE A(m, tier) == AnalysisOf(t, v, m, tier)
<1>1. CASE ScanKind(t) = "full"
  <2> HIDE DEF A
  <2>1. FullFacts(t, v, adjudicate) =
            {A(m, "rules") : m \in Live(t)}
                \cup IF adjudicate THEN {A(m, "llm") : m \in Live(t)} ELSE {}
    BY <1>1 DEF FullFacts, Analyses, AdjudicatedFacts, A
  <2>2. FullFacts(t, v, adjudicate) =
            {A(m, tier) : m \in Live(t), tier \in Tiers(adjudicate)}
    BY <2>1 DEF Tiers
  <2> QED
    BY <2>2 DEF A
<1>2. CASE ScanKind(t) # "full"
  <2>1. Live(t) = {}
    BY <1>2
  <2> QED
    BY <1>2, <2>1 DEF FullFacts
<1> QED
  BY <1>1, <1>2

\* The incremental scan's merge is exact where facts can be carried: those of the
\* modules that neither changed nor have edges that lead to a changed one, with
\* the fresh facts of the rest, are the fact set of a full scan of the new tree.
\* The base may have been scanned with another adjudicate flag, as long as no fact
\* of a model is carried into a scan that asked for none.
THEOREM MergeIsExact ==
    ASSUME NEW t \in Trees, NEW u \in Trees, Carriable(t, u), ScanKind(u) = "full",
           t.deps = u.deps, SourceRoots(Live(t)) = SourceRoots(Live(u)),
           NEW v, NEW asked \in BOOLEAN, NEW adjudicate \in BOOLEAN,
           adjudicate \/ ByRule(FullFacts(t, v, asked))
    PROVE  IncrementalFacts(FullFacts(t, v, asked), u, ChangedModules(t, u),
                            v, adjudicate)
               = FullFacts(u, v, adjudicate)
<1> DEFINE changed == ChangedModules(t, u)
           affected == AffectedModules(u, changed \cap Live(u))
           Old(m, tier) == AnalysisOf(t, v, m, tier)
           Fresh(m, tier) == AnalysisOf(u, v, m, tier)
           prior == FullFacts(t, v, asked)
           tiers == IF Live(t) = {} THEN {"rules"} ELSE Tiers(asked)
           kept == KeptFacts(prior, u, changed, affected)
           full == FullFacts(u, v, adjudicate)
<1>1. /\ ScanKind(t) = "full" \/ Live(t) = {}
      /\ ChangedModules(t, u) \cap Live(t) \subseteq Live(u)
      /\ EdgesCoverReads(u)
  BY DEF Carriable
<1>2. changed \cap Live(u) \subseteq affected /\ affected \subseteq Live(u)
  BY AffectedFacts
<1>3. ASSUME NEW m \in Live(u) \ affected
      PROVE  /\ m \notin changed
             /\ m \in Live(t)
             /\ \A tier : Old(m, tier) = Fresh(m, tier)
  <2>1. m \in Reach(u, m) /\ Reach(u, m) \subseteq Live(u)
    BY <1>3, ReachFacts
  <2>2. Reach(u, m) \cap affected = {}
    BY <1>1, <1>3, UnaffectedReach
  <2>3. Reach(u, m) \cap changed = {}
    BY <1>2, <2>1, <2>2
  <2> QED
    BY <2>1, <2>3, <1>1, <1>3, ReachStable, StableAnalysis
<1>4. \A m, tier : Old(m, tier).mod = m /\ Old(m, tier).tier = tier
  BY DEF AnalysisOf
<1>5. prior = {Old(m, tier) : m \in Live(t), tier \in tiers}
  <2>1. prior = {Old(m, tier) : m \in Live(t), tier \in Tiers(asked)}
    BY <1>1, FactsOf
  <2>2. Live(t) # {} => tiers = Tiers(asked)
    OBVIOUS
  <2> HIDE DEF prior, Old, tiers
  <2> QED
    BY <2>1, <2>2
<1>6. "rules" \in tiers /\ tiers \subseteq Tiers(adjudicate)
  <2>1. CASE adjudicate
    BY <2>1 DEF Tiers
  <2>2. CASE ~adjudicate
    <3>1. \A f \in prior : f.tier = "rules"
      BY <2>2 DEF ByRule
    <3>2. ASSUME asked, Live(t) # {} PROVE FALSE
      <4>1. PICK m \in Live(t) : TRUE
        BY <3>2
      <4> HIDE DEF prior, Old
      <4>2. Old(m, "llm") \in prior
        BY <3>2, <4>1, <1>5 DEF Tiers
      <4>3. Old(m, "llm").tier = "llm"
        BY <1>4
      <4> QED
        BY <4>2, <4>3, <3>1
    <3> QED
      BY <3>2 DEF Tiers
  <2> QED
    BY <2>1, <2>2
<1>7. full = {Fresh(m, tier) : m \in Live(u), tier \in Tiers(adjudicate)}
  BY FactsOf
<1>8. IncrementalFacts(prior, u, changed, v, adjudicate) =
          kept \cup {Fresh(m, "rules") : m \in affected}
               \cup (IF adjudicate THEN {Fresh(m, "llm") : m \in Live(u)} ELSE {})
  BY DEF IncrementalFacts, Analyses, AdjudicatedFacts
<1>9. kept = {f \in prior : f.mod \in Live(u) \ affected /\ f.mod \notin changed}
  BY DEF KeptFacts
<1> HIDE DEF Old, Fresh, prior, tiers, kept, full, changed, affected
<1>10. kept = {Fresh(m, tier) : m \in Live(u) \ affected, tier \in tiers}
  BY <1>3, <1>4, <1>5, <1>9
<1>11. kept \cup {Fresh(m, "rules") : m \in affected}
            \cup (IF adjudicate THEN {Fresh(m, "llm") : m \in Live(u)} ELSE {}) = full
  BY <1>2, <1>6, <1>7, <1>10 DEF Tiers
<1>12. IncrementalFacts(prior, u, changed, v, adjudicate) = full
  BY <1>8, <1>11
<1> QED
  BY <1>12 DEF prior, full, changed

-----------------------------------------------------------------------------
(* Types of what a scan produces *)

LEMMA RootsType == ASSUME NEW files PROVE SourceRoots(files) \in SUBSET {"root", "src"}
BY DEF SourceRoots

LEMMA AnalysisType ==
    ASSUME NEW t \in Trees, NEW v \in Versions, NEW m \in Modules,
           NEW tier \in {"rules", "llm"}
    PROVE  AnalysisOf(t, v, m, tier) \in Facts
<1>1. Reach(t, m) \in SUBSET Modules
  BY DEF Reach, Live, Present
<1>2. \A n \in Reach(t, m) : t.mods[n] \in Texts
  BY DEF Reach, Live, Present, Trees
<1>3. [n \in Reach(t, m) |-> t.mods[n]] \in UNION {[S -> Texts] : S \in SUBSET Modules}
  BY <1>1, <1>2
<1>4. t.deps \in GlobalInputs /\ SourceRoots(Live(t)) \in SUBSET {"root", "src"}
  BY RootsType DEF Trees
<1> QED
  BY <1>3, <1>4 DEF AnalysisOf, Facts

LEMMA FullFactsType ==
    ASSUME NEW t \in Trees, NEW v \in Versions, NEW adjudicate
    PROVE  FullFacts(t, v, adjudicate) \in SUBSET Facts
<1>1. Live(t) \subseteq Modules
  BY DEF Live, Present
<1> QED
  BY <1>1, AnalysisType DEF FullFacts, Analyses, AdjudicatedFacts

LEMMA IncrementalFactsType ==
    ASSUME NEW t \in Trees, NEW v \in Versions, NEW adjudicate,
           NEW prior \in SUBSET Facts, NEW changed
    PROVE  IncrementalFacts(prior, t, changed, v, adjudicate) \in SUBSET Facts
<1>1. Live(t) \subseteq Modules
  BY DEF Live, Present
<1>2. AffectedModules(t, changed \cap Live(t)) \subseteq Modules
  BY <1>1 DEF AffectedModules
<1> QED
  BY <1>1, <1>2, AnalysisType DEF IncrementalFacts, KeptFacts, Analyses, AdjudicatedFacts

LEMMA RecordType ==
    ASSUME NEW t \in Trees, NEW facts \in SUBSET Facts, NEW enrich
    PROVE  RecordOf(t, facts, enrich) \in Records
BY DEF RecordOf, Records, ScanKind, EnrichmentNote, Trees

LEMMA EnrichedType ==
    ASSUME NEW record \in Records
    PROVE  /\ Enriched(record) \in Records
           /\ Detected(Enriched(record)) = Detected(record)
BY DEF Enriched, Records, Detected

LEMMA ScanFactsType ==
    ASSUME TypeOK, run \in StartedRuns, NEW t \in Trees, NEW diffed \in BOOLEAN
    PROVE  ScanFacts(run, t, diffed) \in SUBSET Facts
<1> DEFINE prior == PriorFacts(run, t, diffed)
<1>1. run.version \in Versions
  BY DEF StartedRuns
<1>2. FullFacts(t, run.version, run.options.adjudicate) \in SUBSET Facts
  BY <1>1, FullFactsType
<1>3. ASSUME prior # None
      PROVE  prior.facts \in SUBSET Facts
  <2>1. run.cached \in Manifests
    BY <1>3 DEF PriorFacts, StartedRuns
  <2>2. /\ store[run.cached.commit].facts \notin {None, Torn}
        /\ prior.facts = store[run.cached.commit].facts
    BY <1>3 DEF PriorFacts
  <2>3. run.cached.commit \in Commits
    BY <2>1 DEF Manifests
  <2>4. store[run.cached.commit].facts \in (SUBSET Facts) \cup {None, Torn}
    BY <2>3 DEF TypeOK
  <2> QED
    BY <2>2, <2>4
<1> HIDE DEF prior
<1>4. ASSUME prior # None
      PROVE  IncrementalFacts(prior.facts, t, prior.changed, run.version,
                              run.options.adjudicate) \in SUBSET Facts
  BY <1>1, <1>3, <1>4, IncrementalFactsType
<1> QED
  BY <1>2, <1>4 DEF ScanFacts, prior

-----------------------------------------------------------------------------
(* Type correctness *)

LEMMA RunTypes ==
    ASSUME TypeOK
    PROVE  /\ run.pc = "analyse" => run \in StartedRuns
           /\ run.pc \in {"record", "facts", "log", "manifest"} => run \in AnalysedRuns
           /\ ~Idle /\ run.pc # "analyse" => run \in AnalysedRuns
           /\ ~Idle => run.commit \in Commits
BY DEF TypeOK, Runs, StartedRuns, AnalysedRuns, IdleRun, Idle

LEMMA FinishType ==
    ASSUME TypeOK, run \in AnalysedRuns, store[run.commit].record \in Records \cup {None, Torn},
           Finish
    PROVE  run' \in Runs \cup {IdleRun} /\ answer' \in Answers \cup {None}
BY DEF Finish, Answers, AnalysedRuns

\* What disturbs a run changes nothing else in it.
LEMMA DisturbedType ==
    ASSUME run \in Runs PROVE [run EXCEPT !.sound = FALSE] \in Runs
BY DEF Runs, StartedRuns, AnalysedRuns

LEMMA TreeChangesType ==
    ASSUME TypeOK, TreeChanges
    PROVE  run' \in Runs \cup {IdleRun} /\ mishaps' \in 0..MaxMishaps
<1>1. CASE Idle
  BY <1>1 DEF TreeChanges, TypeOK
<1>2. CASE ~Idle
  <2>1. run \in Runs
    BY <1>2 DEF Idle, TypeOK
  <2>2. run' = [run EXCEPT !.sound = FALSE] /\ Mishap("edit")
    BY <1>2 DEF TreeChanges
  <2>3. run' \in Runs
    BY <2>1, <2>2, DisturbedType
  <2>4. mishaps' \in 0..MaxMishaps
    BY <2>2, BoundsAssumption DEF Mishap, TypeOK
  <2> QED
    BY <2>3, <2>4
<1> QED
  BY <1>1, <1>2

\* An enricher that is told it is stale is an enricher still.
LEMMA OutdatedType ==
    ASSUME NEW e \in Enrichers \cup {None} PROVE Outdated(e) \in Enrichers \cup {None}
BY DEF Outdated, Enrichers

LEMMA InitType == Init => TypeOK
<1> SUFFICES ASSUME Init PROVE TypeOK
  OBVIOUS
<1>1. 1 \in Commits /\ 1 \in 1..1
  BY BoundsAssumption DEF Commits
<1>2. 0 \in 0..MaxMishaps
  BY BoundsAssumption
<1>3. history \in [Commits -> Trees] /\ work \in Trees
  BY DEF Init
<1> QED
  BY <1>1, <1>2, <1>3 DEF Init, TypeOK

LEMMA NextType == TypeOK /\ [Next]_vars => TypeOK'
<1> SUFFICES ASSUME TypeOK, [Next]_vars PROVE TypeOK'
  OBVIOUS
<1> USE DEF repoVars, storeVars
<1>1. ASSUME NEW m \in Modules, NEW text \in Contents[m], EditSource(m, text)
      PROVE  TypeOK'
  <2>a. text \in Texts \cup {Absent}
    BY <1>1, ContentsAssumption
  <2>1. work' \in Trees
    BY <1>1, <2>a DEF EditSource, TypeOK, Trees
  <2> QED
    BY <1>1, <2>1, TreeChangesType DEF EditSource, TypeOK
<1>2. ASSUME NEW d \in GlobalInputs, EditGlobalInput(d)
      PROVE  TypeOK'
  <2>1. work' \in Trees
    BY <1>2 DEF EditGlobalInput, TypeOK, Trees
  <2> QED
    BY <1>2, <2>1, TreeChangesType DEF EditGlobalInput, TypeOK
<1>3. ASSUME Commit PROVE TypeOK'
  <2>1. tip' \in Commits /\ head' \in 1..tip'
    BY <1>3, BoundsAssumption DEF Commit, TypeOK, Commits
  <2>2. history' \in [Commits -> Trees]
    BY <1>3 DEF Commit, TypeOK
  <2> QED
    BY <1>3, <2>1, <2>2 DEF Commit, TypeOK
<1>4. ASSUME NEW c \in 1..tip, Checkout(c) PROVE TypeOK'
  <2>1. c \in Commits
    BY <1>4, BoundsAssumption DEF TypeOK, Commits
  <2> QED
    BY <1>4, <2>1, TreeChangesType DEF Checkout, TypeOK
<1>5. ASSUME NEW v \in Versions, Upgrade(v) PROVE TypeOK'
  BY <1>5 DEF Upgrade, TypeOK
<1>6. ASSUME NEW c \in Commits, StartEnrich(c) PROVE TypeOK'
  <2>1. store[c].record \in Records
    BY <1>6 DEF StartEnrich, TypeOK
  <2>2. enricher' \in Enrichers
    BY <1>6, <2>1, EnrichedType DEF StartEnrich, Enrichers
  <2> QED
    BY <1>6, <2>2, BoundsAssumption DEF StartEnrich, Mishap, TypeOK
<1>7. ASSUME FinishEnrich PROVE TypeOK'
  <2>1. enricher.commit \in Commits /\ enricher.record \in Records
    BY <1>7 DEF FinishEnrich, TypeOK, Enrichers
  <2>2. run' \in Runs \cup {IdleRun}
    BY <1>7, DisturbedType DEF FinishEnrich, TypeOK, Idle
  <2>3. intact' \in BOOLEAN
    BY <1>7, Zenon DEF FinishEnrich
  <2> QED
    BY <1>7, <2>1, <2>2, <2>3 DEF FinishEnrich, TypeOK
<1>8. ASSUME Crash PROVE TypeOK'
  <2>1. run.commit \in Commits
    BY <1>8, RunTypes DEF Crash
  <2>2. mishaps' \in 0..MaxMishaps
    BY <1>8, BoundsAssumption DEF Crash, Mishap, TypeOK
  <2>3. /\ store' \in [Commits -> [record : Records \cup {None, Torn},
                                   facts : (SUBSET Facts) \cup {None, Torn}]]
        /\ manifest' \in Manifests \cup {None}
        /\ intact' \in BOOLEAN
        /\ enricher' \in Enrichers \cup {None}
    <3>1. CASE UNCHANGED <<storeVars, enricher>>
      BY <3>1 DEF TypeOK
    <3>2. CASE run.pc = "record" /\ CutOffWrite
      <4>1. /\ store' = [store EXCEPT ![run.commit].record = Torn] /\ UNCHANGED manifest
            /\ enricher' = Outdated(enricher)
        BY <3>2 DEF CutOffWrite
      <4>2. intact' \in BOOLEAN
        BY <3>2, Zenon DEF CutOffWrite
      <4> QED
        BY <4>1, <4>2, <2>1, OutdatedType DEF TypeOK
    <3>3. CASE run.pc = "facts" /\ CutOffWrite
      <4>1. PICK rest \in {Torn} \cup SUBSET run.record.facts :
                /\ store' = [store EXCEPT ![run.commit].facts = rest]
                /\ UNCHANGED <<manifest, intact, enricher>>
        BY <3>3 DEF CutOffWrite
      <4>2. run.record.facts \in SUBSET Facts
        BY <3>3, RunTypes DEF AnalysedRuns, Records
      <4>3. rest \in (SUBSET Facts) \cup {None, Torn}
        BY <4>2
      <4> QED
        BY <4>1, <4>3, <2>1 DEF TypeOK
    <3>4. CASE run.pc = "manifest" /\ CutOffWrite
      BY <3>4 DEF CutOffWrite, TypeOK
    <3>5. CASE run.pc \notin {"record", "facts", "manifest"} /\ CutOffWrite
      BY <3>5, <3>1 DEF CutOffWrite
    <3> QED
      BY <1>8, <3>1, <3>2, <3>3, <3>4, <3>5 DEF Crash
  <2> QED
    BY <1>8, <2>2, <2>3 DEF Crash, TypeOK
<1>9. ASSUME NEW full \in BOOLEAN, NEW options \in Options, Skip(full, options)
      PROVE  TypeOK'
  <2>1. head \in Commits
    BY BoundsAssumption DEF TypeOK, Commits
  <2>2. store[head].record \in Records \cup {Torn}
    <3>1. HasRecord(head)
      BY <1>9 DEF Skip, ShouldSkip
    <3> QED
      BY <2>1, <3>1 DEF HasRecord, TypeOK
  <2>3. (intact /\ Serves(store[head].record, options)) \in BOOLEAN
    BY Zenon
  <2>4. answer' \in Answers
    BY <1>9, <2>2, <2>3 DEF Skip, Answers, TypeOK
  <2> QED
    BY <1>9, <2>4 DEF Skip, TypeOK
<1>10. ASSUME NEW full \in BOOLEAN, NEW options \in Options, NEW base \in {None} \cup (Bases \cap 1..tip),
              StartScan(full, options, base)
       PROVE  TypeOK'
  <2>1. head \in Commits /\ base \in Commits \cup {None}
    BY BoundsAssumption DEF TypeOK, Commits
  <2>2. CachedManifest(full) \in Manifests \cup {None} /\ Dirty \in BOOLEAN
    BY DEF CachedManifest, Dirty, TypeOK
  <2>3. run' \in StartedRuns
    BY <1>10, <2>1, <2>2 DEF StartScan, StartedRuns, TypeOK
  <2>4. mishaps' \in 0..MaxMishaps
    BY <1>10, BoundsAssumption DEF StartScan, Mishap, TypeOK
  <2> QED
    BY <1>10, <2>3, <2>4 DEF StartScan, TypeOK, Runs
<1>11. ASSUME Analyse PROVE TypeOK'
  <2>1. run \in StartedRuns
    BY <1>11, RunTypes DEF Analyse
  <2>2. PICK diffed \in BOOLEAN, t \in TreesSeen(run) :
          run' = [pc |-> "record", commit |-> run.commit, dirty |-> run.dirty,
                  version |-> run.version, options |-> run.options, tree |-> run.tree,
                  sound |-> run.sound /\ SoundPrior(run, t, PriorFacts(run, t, diffed)),
                  record |-> RecordOf(t, ScanFacts(run, t, diffed), run.options.enrich)]
    BY <1>11 DEF Analyse
  <2>3. t \in Trees
    BY DEF TreesSeen
  <2>4. RecordOf(t, ScanFacts(run, t, diffed), run.options.enrich) \in Records
    BY <2>1, <2>3, ScanFactsType, RecordType
  <2>5. (run.sound /\ SoundPrior(run, t, PriorFacts(run, t, diffed))) \in BOOLEAN
    BY Zenon
  <2>6. run' \in AnalysedRuns
    BY <2>1, <2>2, <2>4, <2>5 DEF StartedRuns, AnalysedRuns
  <2> QED
    BY <1>11, <2>6 DEF Analyse, TypeOK, Runs
<1>12. ASSUME WriteRecord PROVE TypeOK'
  <2>1. run \in AnalysedRuns
    BY <1>12, RunTypes DEF WriteRecord
  <2>2. run.commit \in Commits /\ run.record \in Records
    BY <2>1 DEF AnalysedRuns
  <2>3. run' \in AnalysedRuns
    BY <1>12, <2>1 DEF WriteRecord, AnalysedRuns
  <2>4. intact' \in BOOLEAN
    BY <1>12, Zenon DEF WriteRecord
  <2> QED
    BY <1>12, <2>2, <2>3, <2>4, OutdatedType DEF WriteRecord, TypeOK, Runs
<1>13. ASSUME WriteFacts PROVE TypeOK'
  <2>1. run \in AnalysedRuns
    BY <1>13, RunTypes DEF WriteFacts
  <2>2. run.commit \in Commits /\ run.record.facts \in SUBSET Facts
    BY <2>1 DEF AnalysedRuns, Records
  <2>3. run' \in AnalysedRuns
    BY <1>13, <2>1 DEF WriteFacts, AnalysedRuns
  <2> QED
    BY <1>13, <2>2, <2>3 DEF WriteFacts, TypeOK, Runs
<1>14. ASSUME LogRun PROVE TypeOK'
  <2>1. run \in AnalysedRuns
    BY <1>14, RunTypes DEF LogRun
  <2>2. run.commit \in Commits /\ store[run.commit].record \in Records \cup {None, Torn}
    BY <2>1 DEF AnalysedRuns, TypeOK
  <2>3. run' \in Runs \cup {IdleRun} /\ answer' \in Answers \cup {None}
    <3>1. CASE run.dirty
      BY <1>14, <2>1, <2>2, <3>1, FinishType DEF LogRun
    <3>2. CASE ~run.dirty
      BY <1>14, <2>1, <3>2 DEF LogRun, AnalysedRuns, Runs
    <3> QED
      BY <3>1, <3>2
  <2> QED
    BY <1>14, <2>3 DEF LogRun, TypeOK
<1>15. ASSUME WriteManifest PROVE TypeOK'
  <2>1. run \in AnalysedRuns
    BY <1>15, RunTypes DEF WriteManifest
  <2>2. run.commit \in Commits /\ store[run.commit].record \in Records \cup {None, Torn}
    BY <2>1 DEF AnalysedRuns, TypeOK
  <2>3. run' \in Runs \cup {IdleRun} /\ answer' \in Answers \cup {None}
    BY <1>15, <2>1, <2>2, FinishType DEF WriteManifest
  <2>4. manifest' \in Manifests
    BY <1>15, <2>1, RootsType DEF WriteManifest, AnalysedRuns, Manifests, TypeOK, Trees
  <2> QED
    BY <1>15, <2>1, <2>3, <2>4 DEF WriteManifest, AnalysedRuns, TypeOK
<1>16. CASE UNCHANGED vars
  BY <1>16 DEF vars, TypeOK
<1> QED
  BY <1>1, <1>2, <1>3, <1>4, <1>5, <1>6, <1>7, <1>8, <1>9, <1>10, <1>11, <1>12,
     <1>13, <1>14, <1>15, <1>16 DEF Next, Environment, Launch, RunStep

\* Every state of every run is well typed, whatever befalls it.
THEOREM TypeCorrect == Spec => []TypeOK
BY InitType, NextType, PTL DEF Spec

-----------------------------------------------------------------------------
(* The inductive invariant *)

Analysed == run.pc \in {"record", "facts", "log", "manifest"}

\* A run keeps to the commit it was started for; if nothing disturbed it, the tree
\* is still the one it was asked to scan.
RunHoldsTree ==
    ~Idle =>
        /\ run.commit <= tip
        /\ ~run.dirty => run.tree = history[run.commit]
        /\ run.pc = "manifest" => ~run.dirty
        /\ run.sound => run.tree = work

\* The manifest a run was given is still the one on disk.
CachedIsManifest ==
    run.pc = "analyse" => run.cached = None \/ (run.cached = manifest /\ ~run.dirty)

RecordIsFull ==
    Analysed /\ run.sound => run.record = FullRecord(run.tree, run.version, run.options)

\* What a run has written is there; an enrichment may have redrafted the record,
\* and only one that was stale has changed what was detected.
StoreHoldsRun ==
    run.pc \in {"facts", "log", "manifest"} =>
        /\ store[run.commit].record \in Records
        /\ run.sound => Detected(store[run.commit].record) = Detected(run.record)
        /\ run.pc # "facts" => store[run.commit].facts = run.record.facts
        /\ Vouched(run.commit) => ~intact

\* FactCacheAligned, and what else the manifest says of its commit.
ManifestVouches ==
    manifest # None =>
        /\ manifest.commit <= tip
        /\ intact =>
              /\ manifest.roots = SourceRoots(Present(history[manifest.commit]))
              /\ store[manifest.commit].record \in Records
              /\ \E options \in Options :
                    /\ store[manifest.commit].facts =
                           FullFacts(history[manifest.commit], manifest.version,
                                     options.adjudicate)
                    /\ Detected(store[manifest.commit].record) =
                           Detected(FullRecord(history[manifest.commit], manifest.version,
                                               options))

\* Enriching changes nothing that detection decided, unless the record was
\* rewritten meanwhile.
EnricherKeepsRecord ==
    enricher # None /\ ~enricher.stale =>
        /\ store[enricher.commit].record \in Records
        /\ Detected(enricher.record) = Detected(store[enricher.commit].record)

CacheInv ==
    /\ TypeOK
    /\ RunHoldsTree
    /\ CachedIsManifest
    /\ RecordIsFull
    /\ StoreHoldsRun
    /\ ManifestVouches
    /\ EnricherKeepsRecord
    /\ SoundAnswersExact

-----------------------------------------------------------------------------
(* Facts about the steps *)

LEMMA IdleKeepsRunInv ==
    /\ Idle => ~Analysed /\ run.pc # "analyse"
    /\ Idle' => RunHoldsTree' /\ CachedIsManifest' /\ RecordIsFull' /\ StoreHoldsRun'
BY DEF Idle, IdleRun, Analysed, RunHoldsTree, CachedIsManifest, RecordIsFull, StoreHoldsRun

\* What a run that nothing disturbed sees is the tree it was asked to scan.
LEMMA UndisturbedView ==
    ASSUME TypeOK, ~Idle, run.tree = work, NEW t \in TreesSeen(run)
    PROVE  t = work
<1>1. t \in Trees /\ work \in Trees
  BY DEF TreesSeen, TypeOK
<1>2. t.deps = work.deps /\ \A m \in Modules : t.mods[m] = work.mods[m]
  BY DEF TreesSeen
<1>3. t.mods = work.mods
  BY <1>1, <1>2 DEF Trees
<1> QED
  BY <1>1, <1>2, <1>3 DEF Trees

\* A run that is sound after the core scan has what a full scan would give it.
LEMMA AnalyseIsExact ==
    ASSUME CacheInv, run.pc = "analyse", run.sound,
           NEW diffed \in BOOLEAN, NEW t \in TreesSeen(run),
           SoundPrior(run, t, PriorFacts(run, t, diffed))
    PROVE  /\ t = run.tree
           /\ ScanFacts(run, t, diffed) = FullFacts(t, run.version, run.options.adjudicate)
<1> DEFINE prior == PriorFacts(run, t, diffed)
           old == history[manifest.commit]
           changed == ChangedModules(old, t)
<1>1. run \in StartedRuns /\ ~Idle
  BY RunTypes DEF CacheInv, Idle, IdleRun
<1>2. run.tree = work /\ t = work /\ t \in Trees
  BY <1>1, UndisturbedView DEF CacheInv, RunHoldsTree, TreesSeen
<1>3. CASE prior = None \/ ScanKind(t) # "full"
  BY <1>2, <1>3 DEF ScanFacts
<1>4. CASE prior # None /\ ScanKind(t) = "full"
  <2>1. /\ run.cached # None
        /\ CanIncremental(run.cached, run.version, t)
        /\ history[run.cached.commit].deps = history[run.commit].deps
        /\ prior = [facts   |-> store[run.cached.commit].facts,
                     changed |-> ChangedModules(history[run.cached.commit],
                                                history[run.commit])]
    BY <1>4 DEF PriorFacts, DiffSince
  <2>2. /\ intact
        /\ Carriable(history[run.cached.commit], t)
        /\ run.options.adjudicate \/ ByRule(prior.facts)
    BY <1>4 DEF SoundPrior
  <2>3. run.cached = manifest /\ ~run.dirty
    BY <2>1 DEF CacheInv, CachedIsManifest
  <2>4. history[run.commit] = t
    BY <1>1, <1>2, <2>3 DEF CacheInv, RunHoldsTree
  <2>5. manifest # None /\ manifest.commit \in Commits
    BY <2>1, <2>3 DEF CacheInv, TypeOK, Manifests
  <2>6. old \in Trees
    BY <2>5 DEF CacheInv, TypeOK
  <2>7. PICK options \in Options :
            store[manifest.commit].facts =
                FullFacts(old, manifest.version, options.adjudicate)
    BY <2>2, <2>5 DEF CacheInv, ManifestVouches
  <2>8. options.adjudicate \in BOOLEAN /\ run.options.adjudicate \in BOOLEAN
    BY <1>1, OptionsAssumption DEF StartedRuns
  <2>9. manifest.version = run.version /\ SourceRoots(Live(old)) = SourceRoots(Live(t))
    BY <2>1, <2>2, <2>3, <2>5 DEF CanIncremental, Carriable, CacheInv, ManifestVouches
  <2>10. /\ prior.facts = FullFacts(old, run.version, options.adjudicate)
         /\ prior.changed = changed
         /\ old.deps = t.deps
         /\ Carriable(old, t)
    BY <2>1, <2>2, <2>3, <2>4, <2>7, <2>9
  <2>11. ScanFacts(run, t, diffed) =
            IncrementalFacts(prior.facts, t, prior.changed, run.version,
                             run.options.adjudicate)
    BY <1>4 DEF ScanFacts
  <2> HIDE DEF prior, changed, old
  <2>12. run.options.adjudicate \/ ByRule(FullFacts(old, run.version, options.adjudicate))
    BY <2>2, <2>10
  <2>13. IncrementalFacts(FullFacts(old, run.version, options.adjudicate), t,
                          ChangedModules(old, t), run.version, run.options.adjudicate)
             = FullFacts(t, run.version, run.options.adjudicate)
    BY <1>2, <1>4, <2>6, <2>8, <2>9, <2>10, <2>12, MergeIsExact
  <2> QED
    BY <1>2, <2>10, <2>11, <2>13 DEF changed
<1> QED
  BY <1>2, <1>3, <1>4

LEMMA InitInv == Init => CacheInv
<1> SUFFICES ASSUME Init PROVE CacheInv
  OBVIOUS
<1>1. TypeOK
  BY InitType
<1>2. Idle /\ manifest = None /\ enricher = None /\ answer = None
  BY DEF Init, Idle
<1>3. RunHoldsTree /\ CachedIsManifest /\ RecordIsFull /\ StoreHoldsRun
  BY <1>2 DEF Idle, IdleRun, Analysed, RunHoldsTree, CachedIsManifest, RecordIsFull,
              StoreHoldsRun
<1> QED
  BY <1>1, <1>2, <1>3 DEF CacheInv, ManifestVouches, EnricherKeepsRecord, SoundAnswersExact

\* A step that leaves the manifest, the store and the enricher alone.
LEMMA StoreKept ==
    ASSUME CacheInv, UNCHANGED <<storeVars, enricher>>,
           tip <= tip', tip' \in Nat, \A c \in 1..tip : history'[c] = history[c]
    PROVE  ManifestVouches' /\ EnricherKeepsRecord'
<1> USE DEF storeVars
<1>1. EnricherKeepsRecord'
  BY DEF CacheInv, EnricherKeepsRecord
<1>2. CASE manifest = None
  BY <1>1, <1>2 DEF ManifestVouches
<1>3. CASE manifest # None
  <2>1. manifest.commit \in 1..tip /\ tip \in Nat
    BY <1>3 DEF CacheInv, ManifestVouches, TypeOK, Manifests, Commits
  <2>2. history'[manifest.commit] = history[manifest.commit]
    BY <2>1
  <2> QED
    BY <1>1, <1>3, <2>1, <2>2 DEF CacheInv, ManifestVouches
<1> QED
  BY <1>2, <1>3

\* A step of the repository: it may disturb the run in progress, and does if it
\* changes the tree.
LEMMA RepositoryStep ==
    ASSUME CacheInv, TypeOK', UNCHANGED <<storeVars, enricher>>, answer' = None,
           tip <= tip', tip' \in Nat, \A c \in 1..tip : history'[c] = history[c],
           \/ Idle /\ UNCHANGED run
           \/ ~Idle /\ run' = [run EXCEPT !.sound = FALSE]
           \/ UNCHANGED <<run, work>>
    PROVE  CacheInv'
<1>1. ManifestVouches' /\ EnricherKeepsRecord'
  BY StoreKept
<1>2. SoundAnswersExact'
  BY DEF SoundAnswersExact
<1>3. RunHoldsTree' /\ CachedIsManifest' /\ RecordIsFull' /\ StoreHoldsRun'
  <2>1. CASE Idle'
    BY <2>1, IdleKeepsRunInv
  <2>2. CASE ~Idle'
    <3>1. ~Idle /\ run \in Runs
      BY <2>2 DEF Idle, CacheInv, TypeOK
    <3>2. /\ run'.pc = run.pc /\ run'.commit = run.commit /\ run'.dirty = run.dirty
          /\ run'.tree = run.tree
          /\ run'.sound => UNCHANGED <<run, work>>
          /\ run'.pc = "analyse" => run'.cached = run.cached
          /\ Analysed => run'.record = run.record
      <4>1. CASE UNCHANGED <<run, work>>
        BY <4>1
      <4>2. CASE run' = [run EXCEPT !.sound = FALSE] /\ run \in StartedRuns
        BY <4>2 DEF StartedRuns, Analysed
      <4>3. CASE run' = [run EXCEPT !.sound = FALSE] /\ run \in AnalysedRuns
        BY <4>3 DEF AnalysedRuns, Analysed
      <4> QED
        BY <3>1, <4>1, <4>2, <4>3 DEF Runs
    <3>3. run.commit \in 1..tip /\ tip \in Nat /\ run.commit <= tip'
      BY <3>1, RunTypes DEF CacheInv, RunHoldsTree, TypeOK, Commits
    <3>4. RunHoldsTree'
      BY <3>1, <3>2, <3>3 DEF CacheInv, RunHoldsTree
    <3>5. CachedIsManifest'
      BY <3>2 DEF CacheInv, CachedIsManifest, storeVars
    <3>6. RecordIsFull'
      BY <3>2 DEF CacheInv, RecordIsFull, Analysed
    <3>7. StoreHoldsRun'
      BY <3>2 DEF CacheInv, StoreHoldsRun, Analysed, Vouched, storeVars
    <3> QED
      BY <3>4, <3>5, <3>6, <3>7
  <2> QED
    BY <2>1, <2>2
<1> QED
  BY <1>1, <1>2, <1>3 DEF CacheInv

\* What a finished run returns.
LEMMA FinishIsExact ==
    ASSUME CacheInv, run.pc \in {"log", "manifest"}, Finish
    PROVE  /\ SoundAnswersExact'
           /\ Idle'
           /\ answer'.sound =>
                  /\ answer'.tree = work
                  /\ Detected(answer'.record) =
                         Detected(FullRecord(work, answer'.version, answer'.options))
<1>1. run \in AnalysedRuns /\ ~Idle /\ Analysed
  BY RunTypes DEF CacheInv, Analysed, Idle, IdleRun
<1>2. /\ answer' = [tree |-> run.tree, version |-> run.version, options |-> run.options,
                    sound |-> run.sound, record |-> store[run.commit].record]
      /\ run' = IdleRun
  BY DEF Finish
<1>3. run.sound =>
          /\ run.tree = work
          /\ store[run.commit].record # Torn
          /\ Detected(store[run.commit].record) =
                 Detected(FullRecord(run.tree, run.version, run.options))
  BY <1>1, NoneAssumption DEF CacheInv, RunHoldsTree, StoreHoldsRun, RecordIsFull
<1> QED
  BY <1>2, <1>3 DEF SoundAnswersExact, AnswersExact, Idle

\* Asking for the flag a record was made with gives what it holds.
LEMMA ServedIsDetected ==
    ASSUME NEW t \in Trees, NEW v, NEW record, NEW asked \in Options, NEW options \in Options,
           Detected(record) = Detected(FullRecord(t, v, asked)), Serves(record, options)
    PROVE  Detected(record) = Detected(FullRecord(t, v, options))
<1>1. asked.adjudicate \in BOOLEAN /\ options.adjudicate \in BOOLEAN
  BY OptionsAssumption
<1>2. record.facts = FullFacts(t, v, asked.adjudicate)
  BY DEF Detected, FullRecord, RecordOf
<1>3. FullFacts(t, v, asked.adjudicate) = FullFacts(t, v, options.adjudicate)
  <2>1. CASE asked.adjudicate = options.adjudicate
    BY <2>1
  <2>2. CASE Live(t) = {} \/ ScanKind(t) # "full"
    BY <2>2 DEF FullFacts, Analyses, AdjudicatedFacts
  <2>3. CASE Live(t) # {} /\ ScanKind(t) = "full" /\ asked.adjudicate
    <3>1. PICK m \in Live(t) : TRUE
      BY <2>3
    <3>2. AnalysisOf(t, v, m, "llm") \in record.facts
      BY <1>2, <2>3, <3>1 DEF FullFacts, AdjudicatedFacts, Analyses
    <3>3. AnalysisOf(t, v, m, "llm").tier = "llm"
      BY DEF AnalysisOf
    <3>4. ~ByRule(record.facts) /\ record.facts # {}
      BY <3>2, <3>3 DEF ByRule
    <3> QED
      BY <1>1, <2>3, <3>4 DEF Serves
  <2>4. CASE Live(t) # {} /\ ScanKind(t) = "full" /\ ~asked.adjudicate
    <3>1. PICK m \in Live(t) : TRUE
      BY <2>4
    <3>2. record.facts = {AnalysisOf(t, v, n, "rules") : n \in Live(t)}
      BY <1>2, <2>4 DEF FullFacts, AdjudicatedFacts, Analyses
    <3>3. \A n : AnalysisOf(t, v, n, "rules").tier = "rules"
      BY DEF AnalysisOf
    <3>4. ByRule(record.facts) /\ record.facts # {}
      BY <3>1, <3>2, <3>3 DEF ByRule
    <3> QED
      BY <1>1, <2>4, <3>4 DEF Serves
  <2> QED
    BY <1>1, <2>1, <2>2, <2>3, <2>4
<1>4. FullRecord(t, v, asked).kind = FullRecord(t, v, options).kind
      /\ FullRecord(t, v, asked).deps = FullRecord(t, v, options).deps
      /\ FullRecord(t, v, asked).facts = FullRecord(t, v, options).facts
  BY <1>3 DEF FullRecord, RecordOf
<1> QED
  BY <1>4 DEF Detected

\* A skip returns the record of a full scan of the tree it was asked about.
LEMMA SkipIsExact ==
    ASSUME CacheInv, NEW full \in BOOLEAN, NEW options \in Options, Skip(full, options)
    PROVE  /\ SoundAnswersExact'
           /\ answer'.sound =>
                  /\ answer'.tree = work
                  /\ Detected(answer'.record) =
                         Detected(FullRecord(work, answer'.version, answer'.options))
<1>1. /\ Idle /\ ~Dirty
      /\ manifest # None /\ manifest.commit = head /\ manifest.version = version
      /\ answer' = [tree |-> work, version |-> version, options |-> options,
                    sound |-> intact /\ Serves(store[head].record, options),
                    record |-> store[head].record]
  BY DEF Skip, ShouldSkip, CachedManifest
<1>2. CASE ~answer'.sound
  BY <1>2 DEF SoundAnswersExact
<1>3. CASE answer'.sound
  <2>1. intact /\ Serves(store[head].record, options)
    BY <1>1, <1>3
  <2>2. PICK asked \in Options :
            Detected(store[head].record) = Detected(FullRecord(history[head], version, asked))
    BY <1>1, <2>1 DEF CacheInv, ManifestVouches
  <2>3. history[head] = work /\ work \in Trees
    BY <1>1 DEF Dirty, CacheInv, TypeOK
  <2>4. Detected(store[head].record) = Detected(FullRecord(work, version, options))
    BY <2>1, <2>2, <2>3, ServedIsDetected
  <2>5. store[head].record # Torn
    BY <1>1, <2>1, NoneAssumption DEF CacheInv, ManifestVouches
  <2> QED
    BY <1>1, <2>4, <2>5 DEF SoundAnswersExact, AnswersExact
<1> QED
  BY <1>2, <1>3

\* An enricher that still holds what was detected does so after another record was
\* written, because it is told if that is the one it read.
LEMMA OutdatedKeeps ==
    ASSUME TypeOK, EnricherKeepsRecord, run.commit \in Commits, enricher' = Outdated(enricher),
           \A c \in Commits : c # run.commit => store'[c] = store[c]
    PROVE  EnricherKeepsRecord'
<1>1. CASE enricher = None
  BY <1>1 DEF Outdated, EnricherKeepsRecord
<1>2. CASE enricher # None /\ enricher.commit = run.commit
  <2>1. enricher \in Enrichers
    BY <1>2 DEF TypeOK
  <2>2. enricher'.stale
    BY <1>2, <2>1 DEF Outdated, Enrichers
  <2> QED
    BY <2>2 DEF EnricherKeepsRecord
<1>3. CASE enricher # None /\ enricher.commit # run.commit
  <2>1. enricher' = enricher /\ enricher.commit \in Commits
    BY <1>3 DEF Outdated, TypeOK, Enrichers
  <2>2. store'[enricher.commit] = store[enricher.commit]
    BY <1>3, <2>1
  <2> QED
    BY <2>1, <2>2 DEF EnricherKeepsRecord
<1> QED
  BY <1>1, <1>2, <1>3

LEMMA NextInv == CacheInv /\ [Next]_vars => CacheInv'
<1> SUFFICES ASSUME CacheInv, [Next]_vars PROVE CacheInv'
  OBVIOUS
<1> USE DEF repoVars, storeVars
<1>a. TypeOK /\ TypeOK'
  BY NextType DEF CacheInv
<1>b. tip \in Nat /\ tip + 1 \notin 1..tip /\ \A c \in 1..tip : c \in Commits
  BY <1>a, BoundsAssumption DEF TypeOK, Commits
<1>c. manifest # None => manifest.commit \in Commits
  BY <1>a DEF TypeOK, Manifests
<1>1. ASSUME NEW m \in Modules, NEW text \in Contents[m], EditSource(m, text)
      PROVE  CacheInv'
  BY <1>1, <1>a, <1>b, RepositoryStep DEF EditSource, TreeChanges
<1>2. ASSUME NEW d \in GlobalInputs, EditGlobalInput(d) PROVE CacheInv'
  BY <1>2, <1>a, <1>b, RepositoryStep DEF EditGlobalInput, TreeChanges
<1>3. ASSUME Commit PROVE CacheInv'
  <2>1. \A c \in 1..tip : history'[c] = history[c]
    BY <1>3, <1>a, <1>b DEF Commit, TypeOK
  <2>2. tip' \in Nat /\ tip <= tip'
    BY <1>3, <1>b DEF Commit
  <2> QED
    BY <1>3, <1>a, <2>1, <2>2, RepositoryStep DEF Commit
<1>4. ASSUME NEW c \in 1..tip, Checkout(c) PROVE CacheInv'
  BY <1>4, <1>a, <1>b, RepositoryStep DEF Checkout, TreeChanges
<1>5. ASSUME NEW v \in Versions, Upgrade(v) PROVE CacheInv'
  BY <1>5, <1>a, <1>b, RepositoryStep DEF Upgrade
<1>6. ASSUME NEW c \in Commits, StartEnrich(c) PROVE CacheInv'
  <2>1. store[c].record \in Records
    BY <1>6, <1>a DEF StartEnrich, TypeOK
  <2>2. enricher' = [commit |-> c, record |-> Enriched(store[c].record), stale |-> FALSE]
    BY <1>6 DEF StartEnrich
  <2>3. EnricherKeepsRecord'
    BY <1>6, <2>1, <2>2, EnrichedType DEF StartEnrich, EnricherKeepsRecord
  <2>4. UNCHANGED <<history, tip, work, manifest, store, intact, run>> /\ answer' = None
    BY <1>6 DEF StartEnrich
  <2> QED
    BY <1>a, <2>3, <2>4 DEF CacheInv, Idle, RunHoldsTree, CachedIsManifest, RecordIsFull,
       Analysed, StoreHoldsRun, Vouched, ManifestVouches, SoundAnswersExact
<1>7. ASSUME FinishEnrich PROVE CacheInv'
  <2> DEFINE c == enricher.commit
  <2>1. /\ enricher # None
        /\ c \in Commits /\ enricher.record \in Records
        /\ store' = [store EXCEPT ![c].record = enricher.record]
        /\ intact' = (intact /\ ~(enricher.stale /\ Vouched(c)))
        /\ run' = IF ~Idle /\ enricher.stale /\ c = run.commit
                  THEN [run EXCEPT !.sound = FALSE]
                  ELSE run
        /\ UNCHANGED <<history, tip, work, manifest>>
        /\ enricher' = None /\ answer' = None
    BY <1>7, <1>a DEF FinishEnrich, TypeOK, Enrichers
  <2>2. /\ \A d \in Commits : store'[d].facts = store[d].facts
        /\ \A d \in Commits : d # c => store'[d] = store[d]
        /\ store'[c].record = enricher.record
    BY <2>1, <1>a DEF TypeOK
  <2>3. ASSUME NEW d \in Commits, d # c \/ ~enricher.stale, store[d].record \in Records
        PROVE  /\ store'[d].record \in Records
               /\ Detected(store'[d].record) = Detected(store[d].record)
    BY <2>1, <2>2, <2>3 DEF CacheInv, EnricherKeepsRecord
  <2>4. ManifestVouches'
    <3>1. CASE manifest # None /\ intact'
      <4>1. intact /\ (manifest.commit # c \/ ~enricher.stale)
        BY <2>1, <3>1 DEF Vouched
      <4>2. store[manifest.commit].record \in Records
        BY <3>1, <4>1 DEF CacheInv, ManifestVouches
      <4>3. /\ store'[manifest.commit].facts = store[manifest.commit].facts
            /\ store'[manifest.commit].record \in Records
            /\ Detected(store'[manifest.commit].record) = Detected(store[manifest.commit].record)
        BY <1>c, <2>2, <2>3, <3>1, <4>1, <4>2
      <4> QED
        BY <2>1, <3>1, <4>1, <4>3 DEF CacheInv, ManifestVouches
    <3>2. CASE manifest = None \/ ~intact'
      BY <2>1, <3>2 DEF CacheInv, ManifestVouches
    <3> QED
      BY <3>1, <3>2
  <2>5. RunHoldsTree' /\ CachedIsManifest' /\ RecordIsFull' /\ StoreHoldsRun'
    <3>1. CASE Idle'
      BY <3>1, IdleKeepsRunInv
    <3>2. CASE ~Idle'
      <4>1. ~Idle /\ run \in Runs /\ run.commit \in Commits
        BY <2>1, <3>2, <1>a, RunTypes DEF Idle, TypeOK
      <4>2. /\ run'.pc = run.pc /\ run'.commit = run.commit /\ run'.dirty = run.dirty
            /\ run'.tree = run.tree
            /\ run'.sound => run' = run /\ ~(enricher.stale /\ c = run.commit)
            /\ run'.pc = "analyse" => run'.cached = run.cached
            /\ Analysed => run'.record = run.record
        <5>1. CASE run' = run
          <6>1. ~(enricher.stale /\ c = run.commit) \/ ~run.sound
            <7>1. CASE run.sound /\ enricher.stale /\ c = run.commit
              <8>1. run' = [run EXCEPT !.sound = FALSE]
                BY <2>1, <4>1, <7>1
              <8>2. run'.sound = FALSE
                BY <4>1, <8>1 DEF Runs, StartedRuns, AnalysedRuns
              <8> QED
                BY <5>1, <7>1, <8>2
            <7> QED
              BY <7>1
          <6> QED
            BY <5>1, <6>1
        <5>2. CASE run' = [run EXCEPT !.sound = FALSE] /\ run \in StartedRuns
          BY <5>2 DEF StartedRuns, Analysed
        <5>3. CASE run' = [run EXCEPT !.sound = FALSE] /\ run \in AnalysedRuns
          BY <5>3 DEF AnalysedRuns, Analysed
        <5> QED
          BY <2>1, <4>1, <5>1, <5>2, <5>3 DEF Runs
      <4>3. RunHoldsTree' /\ CachedIsManifest' /\ RecordIsFull'
        BY <2>1, <4>1, <4>2 DEF CacheInv, RunHoldsTree, CachedIsManifest, RecordIsFull, Analysed
      <4>4. StoreHoldsRun'
        <5> SUFFICES ASSUME run.pc \in {"facts", "log", "manifest"} PROVE StoreHoldsRun'
          BY <4>2 DEF StoreHoldsRun
        <5>1. Analysed
          BY DEF Analysed
        <5>2. store'[run.commit].record \in Records
          BY <2>1, <2>2, <4>1 DEF CacheInv, StoreHoldsRun
        <5>3. run'.sound => Detected(store'[run.commit].record) = Detected(run.record)
          BY <2>3, <4>1, <4>2 DEF CacheInv, StoreHoldsRun
        <5>4. run.pc # "facts" => store'[run.commit].facts = run.record.facts
          BY <2>2, <4>1 DEF CacheInv, StoreHoldsRun
        <5>5. Vouched(run.commit)' => ~intact'
          BY <2>1, <4>2 DEF CacheInv, StoreHoldsRun, Vouched
        <5> QED
          BY <2>1, <4>2, <5>1, <5>2, <5>3, <5>4, <5>5 DEF StoreHoldsRun, Vouched
      <4> QED
        BY <4>3, <4>4
    <3> QED
      BY <3>1, <3>2
  <2> QED
    BY <1>a, <2>1, <2>4, <2>5 DEF CacheInv, EnricherKeepsRecord, SoundAnswersExact
<1>8. ASSUME Crash PROVE CacheInv'
  <2>1. Idle' /\ ~Idle /\ answer' = None /\ UNCHANGED <<history, tip>>
    BY <1>8 DEF Crash, Idle
  <2>2. run.commit \in Commits
    BY <2>1, <1>a, RunTypes
  <2>3. ManifestVouches' /\ EnricherKeepsRecord'
    <3>1. CASE UNCHANGED <<storeVars, enricher>>
      BY <2>1, <3>1, <1>b, StoreKept
    <3>2. CASE run.pc = "record" /\ CutOffWrite
      <4>1. /\ store' = [store EXCEPT ![run.commit].record = Torn]
            /\ intact' = (intact /\ ~Vouched(run.commit))
            /\ enricher' = Outdated(enricher)
            /\ UNCHANGED manifest
        BY <3>2 DEF CutOffWrite
      <4>2. \A d \in Commits : d # run.commit => store'[d] = store[d]
        BY <4>1, <1>a DEF TypeOK
      <4>3. ManifestVouches'
        BY <1>c, <2>1, <2>2, <4>1, <4>2 DEF CacheInv, ManifestVouches, Vouched
      <4>4. EnricherKeepsRecord'
        BY <1>a, <2>2, <4>1, <4>2, OutdatedKeeps DEF CacheInv
      <4> QED
        BY <4>3, <4>4
    <3>3. CASE run.pc = "facts" /\ CutOffWrite
      <4>1. PICK rest : /\ store' = [store EXCEPT ![run.commit].facts = rest]
                        /\ UNCHANGED <<manifest, intact, enricher>>
        BY <3>3 DEF CutOffWrite
      <4>2. /\ \A d \in Commits : d # run.commit => store'[d] = store[d]
            /\ \A d \in Commits : store'[d].record = store[d].record
        BY <4>1, <1>a DEF TypeOK
      <4>3. Vouched(run.commit) => ~intact
        BY <3>3 DEF CacheInv, StoreHoldsRun
      <4>4. ManifestVouches'
        BY <1>c, <2>1, <2>2, <4>1, <4>2, <4>3 DEF CacheInv, ManifestVouches, Vouched
      <4>5. EnricherKeepsRecord'
        BY <1>a, <4>1, <4>2 DEF CacheInv, EnricherKeepsRecord, TypeOK, Enrichers
      <4> QED
        BY <4>4, <4>5
    <3>4. CASE run.pc = "manifest" /\ CutOffWrite
      BY <3>4 DEF CutOffWrite, ManifestVouches, CacheInv, EnricherKeepsRecord
    <3>5. CASE run.pc \notin {"record", "facts", "manifest"} /\ CutOffWrite
      BY <3>5, <3>1 DEF CutOffWrite
    <3> QED
      BY <1>8, <3>1, <3>2, <3>3, <3>4, <3>5 DEF Crash
  <2> QED
    BY <1>a, <2>1, <2>3, IdleKeepsRunInv DEF CacheInv, SoundAnswersExact
<1>9. ASSUME NEW full \in BOOLEAN, NEW options \in Options, Skip(full, options)
      PROVE  CacheInv'
  <2>1. SoundAnswersExact'
    BY <1>9, SkipIsExact
  <2>2. Idle' /\ ManifestVouches' /\ EnricherKeepsRecord'
    BY <1>9, <1>b, StoreKept DEF Skip, Idle
  <2> QED
    BY <1>a, <2>1, <2>2, IdleKeepsRunInv DEF CacheInv
<1>10. ASSUME NEW full \in BOOLEAN, NEW options \in Options, NEW base \in {None} \cup (Bases \cap 1..tip),
              StartScan(full, options, base)
       PROVE  CacheInv'
  <2>1. /\ run' = [pc |-> "analyse", commit |-> head, dirty |-> Dirty,
                   version |-> version, options |-> options, tree |-> work, sound |-> TRUE,
                   cached |-> CachedManifest(full), base |-> base]
        /\ UNCHANGED <<repoVars, storeVars, enricher>>
        /\ answer' = None
    BY <1>10 DEF StartScan
  <2>2. /\ CachedManifest(full) = None \/ (CachedManifest(full) = manifest /\ ~Dirty)
        /\ ~Dirty => work = history[head]
        /\ head <= tip
    BY <1>a, <1>b DEF CachedManifest, Dirty, TypeOK
  <2>3. RunHoldsTree' /\ CachedIsManifest' /\ RecordIsFull' /\ StoreHoldsRun'
    BY <2>1, <2>2 DEF RunHoldsTree, CachedIsManifest, RecordIsFull, Analysed, StoreHoldsRun
  <2>4. ManifestVouches' /\ EnricherKeepsRecord'
    BY <2>1, <1>b, StoreKept
  <2> QED
    BY <1>a, <2>1, <2>3, <2>4 DEF CacheInv, SoundAnswersExact
<1>11. ASSUME Analyse PROVE CacheInv'
  <2>1. PICK diffed \in BOOLEAN, t \in TreesSeen(run) :
          run' = [pc |-> "record", commit |-> run.commit, dirty |-> run.dirty,
                  version |-> run.version, options |-> run.options, tree |-> run.tree,
                  sound |-> run.sound /\ SoundPrior(run, t, PriorFacts(run, t, diffed)),
                  record |-> RecordOf(t, ScanFacts(run, t, diffed), run.options.enrich)]
    BY <1>11 DEF Analyse
  <2>2. run.pc = "analyse" /\ ~Idle
    BY <1>11 DEF Analyse, Idle, IdleRun
  <2>3. UNCHANGED <<repoVars, storeVars, enricher>> /\ answer' = None
    BY <1>11 DEF Analyse
  <2>4. RecordIsFull'
    <3> SUFFICES ASSUME run'.sound
                 PROVE  run'.record = FullRecord(run'.tree, run'.version, run'.options)
      BY DEF RecordIsFull
    <3>1. run.sound /\ SoundPrior(run, t, PriorFacts(run, t, diffed))
      BY <2>1
    <3>2. /\ t = run.tree
          /\ ScanFacts(run, t, diffed) = FullFacts(t, run.version, run.options.adjudicate)
      BY <2>2, <3>1, AnalyseIsExact
    <3> QED
      BY <2>1, <3>2 DEF FullRecord
  <2>5. RunHoldsTree' /\ CachedIsManifest' /\ StoreHoldsRun'
    BY <2>1, <2>2, <2>3 DEF CacheInv, RunHoldsTree, CachedIsManifest, StoreHoldsRun
  <2>6. ManifestVouches' /\ EnricherKeepsRecord'
    BY <2>3, <1>b, StoreKept
  <2> QED
    BY <1>a, <2>3, <2>4, <2>5, <2>6 DEF CacheInv, SoundAnswersExact
<1>12. ASSUME WriteRecord PROVE CacheInv'
  <2>1. /\ run.pc = "record" /\ ~Idle
        /\ run' = [run EXCEPT !.pc = "facts"]
        /\ store' = [store EXCEPT ![run.commit].record = run.record]
        /\ intact' = (intact /\ ~Vouched(run.commit))
        /\ enricher' = Outdated(enricher)
        /\ UNCHANGED <<repoVars, manifest>> /\ answer' = None
    BY <1>12 DEF WriteRecord, Idle, IdleRun
  <2>2. run \in AnalysedRuns /\ run.commit \in Commits /\ run.record \in Records /\ Analysed
    BY <2>1, <1>a, RunTypes DEF AnalysedRuns, Analysed
  <2>3. /\ run'.pc = "facts" /\ run'.commit = run.commit /\ run'.record = run.record
        /\ run'.tree = run.tree /\ run'.dirty = run.dirty /\ run'.version = run.version
        /\ run'.options = run.options /\ run'.sound = run.sound
    BY <2>1, <2>2 DEF AnalysedRuns
  <2>4. /\ store'[run.commit].record = run.record
        /\ \A c \in Commits : c # run.commit => store'[c] = store[c]
    BY <2>1, <2>2, <1>a DEF TypeOK
  <2>5. RunHoldsTree' /\ CachedIsManifest' /\ RecordIsFull' /\ StoreHoldsRun'
    BY <2>1, <2>2, <2>3, <2>4 DEF CacheInv, RunHoldsTree, CachedIsManifest,
       RecordIsFull, Analysed, StoreHoldsRun, Vouched
  <2>6. ManifestVouches'
    BY <1>c, <2>1, <2>4 DEF CacheInv, ManifestVouches, Vouched
  <2>7. EnricherKeepsRecord'
    BY <1>a, <2>1, <2>2, <2>4, OutdatedKeeps DEF CacheInv
  <2> QED
    BY <1>a, <2>1, <2>5, <2>6, <2>7 DEF CacheInv, SoundAnswersExact
<1>13. ASSUME WriteFacts PROVE CacheInv'
  <2>1. /\ run.pc = "facts" /\ ~Idle
        /\ run' = [run EXCEPT !.pc = "log"]
        /\ store' = [store EXCEPT ![run.commit].facts = run.record.facts]
        /\ UNCHANGED <<repoVars, manifest, intact, enricher>> /\ answer' = None
    BY <1>13 DEF WriteFacts, Idle, IdleRun
  <2>2. run \in AnalysedRuns /\ run.commit \in Commits /\ Analysed
    BY <2>1, <1>a, RunTypes DEF Analysed
  <2>3. /\ run'.pc = "log" /\ run'.commit = run.commit /\ run'.record = run.record
        /\ run'.tree = run.tree /\ run'.dirty = run.dirty /\ run'.version = run.version
        /\ run'.options = run.options /\ run'.sound = run.sound
    BY <2>1, <2>2 DEF AnalysedRuns
  <2>4. /\ store'[run.commit].facts = run.record.facts
        /\ \A c \in Commits : store'[c].record = store[c].record
        /\ \A c \in Commits : c # run.commit => store'[c] = store[c]
    BY <2>1, <2>2, <1>a DEF TypeOK
  <2>5. RunHoldsTree' /\ CachedIsManifest' /\ RecordIsFull' /\ StoreHoldsRun'
    BY <2>1, <2>2, <2>3, <2>4 DEF CacheInv, RunHoldsTree, CachedIsManifest,
       RecordIsFull, Analysed, StoreHoldsRun, Vouched
  <2>6. Vouched(run.commit) => ~intact
    BY <2>1 DEF CacheInv, StoreHoldsRun
  <2>7. ManifestVouches'
    BY <1>c, <2>1, <2>4, <2>6 DEF CacheInv, ManifestVouches, Vouched
  <2>8. EnricherKeepsRecord'
    BY <1>a, <2>1, <2>4 DEF CacheInv, EnricherKeepsRecord, TypeOK, Enrichers
  <2> QED
    BY <1>a, <2>1, <2>5, <2>7, <2>8 DEF CacheInv, SoundAnswersExact
<1>14. ASSUME LogRun PROVE CacheInv'
  <2>1. /\ run.pc = "log" /\ ~Idle /\ Analysed
        /\ UNCHANGED <<repoVars, storeVars, enricher>>
    BY <1>14 DEF LogRun, Idle, IdleRun, Analysed
  <2>2. ManifestVouches' /\ EnricherKeepsRecord'
    BY <2>1, <1>b, StoreKept
  <2>3. CASE run.dirty
    <3>1. Finish
      BY <1>14, <2>3 DEF LogRun
    <3>2. Idle' /\ SoundAnswersExact'
      BY <2>1, <3>1, FinishIsExact
    <3> QED
      BY <1>a, <2>2, <3>2, IdleKeepsRunInv DEF CacheInv
  <2>4. CASE ~run.dirty
    <3>1. run' = [run EXCEPT !.pc = "manifest"] /\ answer' = None
      BY <1>14, <2>4 DEF LogRun
    <3>2. /\ run'.pc = "manifest" /\ run'.commit = run.commit /\ run'.record = run.record
          /\ run'.tree = run.tree /\ run'.dirty = run.dirty /\ run'.version = run.version
          /\ run'.options = run.options /\ run'.sound = run.sound
      BY <2>1, <3>1, <1>a, RunTypes DEF AnalysedRuns
    <3>3. RunHoldsTree' /\ CachedIsManifest' /\ RecordIsFull' /\ StoreHoldsRun'
      BY <2>1, <2>4, <3>2 DEF CacheInv, RunHoldsTree, CachedIsManifest,
         RecordIsFull, Analysed, StoreHoldsRun, Vouched
    <3> QED
      BY <1>a, <2>2, <3>1, <3>3 DEF CacheInv, SoundAnswersExact
  <2> QED
    BY <2>3, <2>4
<1>15. ASSUME WriteManifest PROVE CacheInv'
  <2>1. /\ run.pc = "manifest" /\ ~Idle /\ Analysed /\ Finish
        /\ manifest' = [commit |-> run.commit, version |-> run.version,
                        deps |-> work.deps, roots |-> SourceRoots(Present(work))]
        /\ intact' = run.sound
        /\ UNCHANGED <<repoVars, store, enricher>>
    BY <1>15 DEF WriteManifest, Idle, IdleRun, Analysed
  <2>2. run \in AnalysedRuns /\ run.options \in Options
    BY <2>1, <1>a, RunTypes DEF AnalysedRuns
  <2>3. Idle' /\ SoundAnswersExact'
    BY <2>1, FinishIsExact
  <2>4. /\ run.commit <= tip /\ run.tree = history[run.commit]
        /\ run.sound => run.tree = work
    BY <2>1 DEF CacheInv, RunHoldsTree
  <2>5. run.sound =>
            /\ store[run.commit].record \in Records
            /\ Detected(store[run.commit].record) =
                   Detected(FullRecord(run.tree, run.version, run.options))
            /\ store[run.commit].facts =
                   FullFacts(run.tree, run.version, run.options.adjudicate)
    BY <2>1 DEF CacheInv, StoreHoldsRun, RecordIsFull, FullRecord, RecordOf
  <2>6. ManifestVouches'
    BY <2>1, <2>2, <2>4, <2>5 DEF ManifestVouches
  <2>7. EnricherKeepsRecord'
    BY <2>1 DEF CacheInv, EnricherKeepsRecord
  <2> QED
    BY <1>a, <2>3, <2>6, <2>7, IdleKeepsRunInv DEF CacheInv
<1>16. CASE UNCHANGED vars
  BY <1>16, <1>a DEF vars, CacheInv, Idle, RunHoldsTree, CachedIsManifest,
     RecordIsFull, Analysed, StoreHoldsRun, Vouched, ManifestVouches,
     EnricherKeepsRecord, SoundAnswersExact, AnswersExact
<1> QED
  BY <1>1, <1>2, <1>3, <1>4, <1>5, <1>6, <1>7, <1>8, <1>9, <1>10, <1>11, <1>12,
     <1>13, <1>14, <1>15, <1>16 DEF Next, Environment, Launch, RunStep

-----------------------------------------------------------------------------
(* The results *)

LEMMA CacheInvariant == Spec => []CacheInv
BY InitInv, NextInv, PTL DEF Spec

\* As long as the artifacts that the manifest vouches for are intact, they are
\* those of a full scan of the commit it names, whatever is edited, committed,
\* upgraded, enriched, rescanned or killed.
THEOREM CacheStaysAligned == Spec => []FactCacheAligned
<1>1. CacheInv => FactCacheAligned
  BY DEF CacheInv, ManifestVouches, FactCacheAligned
<1> QED
  BY <1>1, CacheInvariant, PTL

\* Every run that nothing disturbed returns what a scan from scratch detects,
\* whether it skipped, carried facts over or analysed the whole tree.
THEOREM RunsAnswerExactly == Spec => []SoundAnswersExact
<1>1. CacheInv => SoundAnswersExact
  BY DEF CacheInv
<1> QED
  BY <1>1, CacheInvariant, PTL

\* The manifest only moves to a commit whose artifacts are complete and those of
\* one run that was asked to scan exactly that commit's tree; if nothing disturbed
\* the run, the manifest describes that tree.
THEOREM ManifestMovesRight == Spec => ManifestMovesToFinishedScan
<1> DEFINE Moves ==
      manifest' # manifest /\ manifest' # None =>
          LET tree == history[manifest'.commit]
              made == store[manifest'.commit]
          IN  /\ made.record # None
              /\ run.tree = tree
              /\ made.facts = run.record.facts
              /\ run.sound => /\ Detected(made.record) = Detected(run.record)
                             /\ manifest'.deps = tree.deps
                             /\ manifest'.roots = SourceRoots(Present(tree))
<1>1. ASSUME CacheInv, [Next]_vars, manifest' # manifest, manifest' # None
      PROVE  Moves
  <2>1. WriteManifest
    BY <1>1 DEF Next, Environment, Launch, RunStep, EditSource, EditGlobalInput, Commit,
       Checkout, Upgrade, StartEnrich, FinishEnrich, Crash, CutOffWrite, Skip, StartScan,
       Analyse, WriteRecord, WriteFacts, LogRun, vars, storeVars
  <2>2. /\ run.pc = "manifest"
        /\ manifest' = [commit |-> run.commit, version |-> run.version,
                        deps |-> work.deps, roots |-> SourceRoots(Present(work))]
    BY <2>1 DEF WriteManifest
  <2>3. ~Idle
    BY <2>2 DEF Idle, IdleRun
  <2>4. /\ run.tree = history[run.commit]
        /\ run.sound => run.tree = work
        /\ store[run.commit].record \in Records
        /\ run.sound => Detected(store[run.commit].record) = Detected(run.record)
        /\ store[run.commit].facts = run.record.facts
    BY <1>1, <2>2, <2>3 DEF CacheInv, RunHoldsTree, StoreHoldsRun
  <2> QED
    BY <2>2, <2>4, NoneAssumption
<1>2. CacheInv /\ [Next]_vars => [Moves]_vars
  BY <1>1 DEF vars, storeVars
<1> QED
  BY <1>2, CacheInvariant, PTL DEF Spec, ManifestMovesToFinishedScan

\* For runs that nothing disturbs, run_scan implements the scanner that has no
\* cache.
THEOREM CacheImplementsService == Spec => CacheIsTransparent
<1>1. Init => Service!Init
  <2> SUFFICES ASSUME Init PROVE Service!Init
    OBVIOUS
  <2>1. TypeOK
    BY InitType
  <2> QED
    BY <2>1 DEF Init, TypeOK, Service!Init
<1>2. ASSUME CacheInv, CacheInv', [Next]_vars
      PROVE  [Service!Next]_<<work, version, answer>>
  <2>1. work' \in Trees /\ version' \in Versions
    BY <1>2 DEF CacheInv, TypeOK
  <2>2. CASE answer' = None
    BY <2>1, <2>2 DEF Service!Next, Service!Change
  <2>3. CASE answer' # None /\ ~UNCHANGED vars
    <3> USE DEF repoVars
    <3>1. \/ \E full \in BOOLEAN, options \in Options : Skip(full, options)
          \/ LogRun \/ WriteManifest
      BY <1>2, <2>3 DEF Next, Environment, Launch, RunStep, EditSource, EditGlobalInput, Commit,
         Checkout, Upgrade, StartEnrich, FinishEnrich, Crash, StartScan,
         Analyse, WriteRecord, WriteFacts
    <3>2. UNCHANGED <<work, version>>
      BY <3>1 DEF Skip, LogRun, WriteManifest
    <3>3. answer'.sound =>
              /\ answer'.tree = work
              /\ Detected(answer'.record) =
                     Detected(FullRecord(work, answer'.version, answer'.options))
      <4>1. CASE \E full \in BOOLEAN, options \in Options : Skip(full, options)
        BY <1>2, <4>1, SkipIsExact
      <4>2. CASE LogRun
        BY <1>2, <2>3, <4>2, FinishIsExact DEF LogRun
      <4>3. CASE WriteManifest
        BY <1>2, <4>3, FinishIsExact DEF WriteManifest
      <4> QED
        BY <3>1, <4>1, <4>2, <4>3
    <3> QED
      BY <2>3, <3>2, <3>3 DEF Service!Next, Service!Answer
  <2>4. CASE UNCHANGED vars
    BY <2>4 DEF vars, repoVars
  <2> QED
    BY <1>2, <2>2, <2>3, <2>4
<1> QED
  BY <1>1, <1>2, CacheInvariant, PTL DEF Spec, CacheIsTransparent, Service!Spec

=============================================================================
