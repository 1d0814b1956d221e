------------------------------ MODULE ScanCache ------------------------------
(***************************************************************************)
(* The life of one bundle under repeated scans: run_scan (aiscan/cli.py)   *)
(* with the cache gate (aiscan/incremental), the core scan (aiscan/core.py)*)
(* and the local store (aiscan/store.py, aiscan/inventory/emit.py).        *)
(*                                                                         *)
(* The environment edits the working tree, commits, checks commits out and *)
(* upgrades the scanner.  A run reads HEAD and the manifest, and either    *)
(* returns the prior output or analyses the tree, writes the record, then  *)
(* the fact cache, then logs the run, then writes the manifest.  It can    *)
(* crash between any two of those steps, or in the middle of a write.      *)
(*                                                                         *)
(* Nothing stops the tree from being edited, or a record from being        *)
(* enriched, while a run is under way; a dirty tree is scanned into the    *)
(* directory of HEAD; a killed run leaves what it had written.  The model  *)
(* allows all of it at any time, MaxMishaps times altogether.  Two         *)
(* auxiliary values say what came of it, and no step depends on them:      *)
(* intact, whether the artifacts that the manifest vouches for are still   *)
(* those of the run that wrote it, and run.sound, whether anything         *)
(* disturbed the run in progress.                                          *)
(***************************************************************************)
EXTENDS SourceTree

CONSTANTS
    Versions,            \* scanner, analysis, rulepack and org-pack versions
    Options,             \* the [adjudicate, enrich] flags that runs are given
    MaxCommits,          \* bound on the length of the history
    Bases,               \* the commits that a run may be given as its base
    Contents,            \* the contents that edits give to each module's file
    Mishaps,             \* the kinds of mishap that happen
    MaxMishaps,          \* bound on the number of mishaps
    None,                \* no commit, no manifest, no stored artifact
    Torn                 \* a file that was cut off while it was written

MishapKinds == {"dirty_run", "crash", "edit", "enrichment"}

ASSUME OptionsAssumption == Options \subseteq [adjudicate : BOOLEAN, enrich : BOOLEAN]
ASSUME ContentsAssumption == Contents \in [Modules -> SUBSET (Texts \cup {Absent})]
ASSUME BoundsAssumption ==
    /\ MaxCommits \in Nat \ {0}
    /\ Bases \subseteq 1..MaxCommits
    /\ Mishaps \subseteq MishapKinds
    /\ MaxMishaps \in Nat

Commits == 1..MaxCommits

VARIABLES
    history,   \* history[c]: the tree commit c names
    tip,       \* the newest commit
    head,      \* the commit checked out
    work,      \* the working tree
    version,   \* the installed scanner and its packs
    manifest,  \* <out>/_cache/<bundle>.json
    store,     \* store[c]: the artifacts at location(bundle, c)
    run,       \* the run in progress
    enricher,  \* an enrich-in-place of a prior output in progress
    mishaps,   \* dirty runs, crashes, edits during a run and enrichments so far
    intact,    \* auxiliary: nothing rewrote what the manifest vouches for
    answer     \* what a run that just finished returned, for the properties

repoVars == <<history, tip, head, work, version>>
storeVars == <<manifest, store, intact>>
vars == <<repoVars, storeVars, run, enricher, mishaps, answer>>

-----------------------------------------------------------------------------
Facts ==
    [mod : Modules, tier : {"rules", "llm"}, version : Versions, deps : GlobalInputs,
     roots : SUBSET {"root", "src"}, reads : UNION {[S -> Texts] : S \in SUBSET Modules}]

Records ==
    [kind : {"no_ai", "bounded", "full"}, deps : GlobalInputs, facts : SUBSET Facts,
     enrichment : {"not requested", "skipped", "drafted"}]

Manifests ==
    [commit : Commits, version : Versions, deps : GlobalInputs, roots : SUBSET {"root", "src"}]

IdleRun == [pc |-> "idle"]

ASSUME NoneAssumption == None \notin Records /\ Torn \notin Records /\ None # Torn

\* A run before and after the core scan.  The tree it was asked to scan is kept
\* in .tree, for the properties.
StartedRuns ==
    [pc : {"analyse"}, commit : Commits, dirty : BOOLEAN, version : Versions,
     options : Options, tree : Trees, sound : BOOLEAN,
     cached : Manifests \cup {None}, base : Commits \cup {None}]

AnalysedRuns ==
    [pc : {"record", "facts", "log", "manifest"}, commit : Commits, dirty : BOOLEAN,
     version : Versions, options : Options, tree : Trees, sound : BOOLEAN,
     record : Records]

Runs == StartedRuns \cup AnalysedRuns

\* The enricher is stale once the record it has read was rewritten.
Enrichers == [commit : Commits, record : Records, stale : BOOLEAN]

Answers ==
    [tree : Trees, version : Versions, options : Options, sound : BOOLEAN,
     record : Records \cup {None, Torn}]

TypeOK ==
    /\ history \in [Commits -> Trees]
    /\ tip \in Commits /\ head \in 1..tip
    /\ work \in Trees
    /\ version \in Versions
    /\ manifest \in Manifests \cup {None}
    /\ store \in [Commits -> [record : Records \cup {None, Torn},
                              facts : (SUBSET Facts) \cup {None, Torn}]]
    /\ run \in Runs \cup {IdleRun}
    /\ enricher \in Enrichers \cup {None}
    /\ mishaps \in 0..MaxMishaps
    /\ intact \in BOOLEAN
    /\ answer \in Answers \cup {None}

Init ==
    /\ \E t \in Trees :
          /\ \A m \in Modules : t.mods[m] \in Contents[m]
          /\ history = [c \in Commits |-> t]
          /\ work = t
    /\ tip = 1 /\ head = 1
    /\ version \in Versions
    /\ manifest = None
    /\ store = [c \in Commits |-> [record |-> None, facts |-> None]]
    /\ run = IdleRun
    /\ enricher = None
    /\ mishaps = 0
    /\ intact = TRUE
    /\ answer = None

Idle == run = IdleRun

Mishap(kind) ==
    /\ kind \in Mishaps
    /\ mishaps < MaxMishaps
    /\ mishaps' = mishaps + 1

-----------------------------------------------------------------------------
(* The repository's own life *)

\* A change of the working tree, which a run in progress may or may not see.
TreeChanges ==
    IF Idle THEN UNCHANGED <<run, mishaps>>
    ELSE Mishap("edit") /\ run' = [run EXCEPT !.sound = FALSE]

\* Write, add or delete one source file.
EditSource(m, text) ==
    /\ work.mods[m] # text
    /\ work' = [work EXCEPT !.mods[m] = text]
    /\ TreeChanges
    /\ UNCHANGED <<history, tip, head, version, storeVars, enricher>>
    /\ answer' = None

EditGlobalInput(d) ==
    /\ work.deps # d
    /\ work' = [work EXCEPT !.deps = d]
    /\ TreeChanges
    /\ UNCHANGED <<history, tip, head, version, storeVars, enricher>>
    /\ answer' = None

Dirty == work # history[head]

Commit ==
    /\ Dirty
    /\ tip < MaxCommits
    /\ tip' = tip + 1
    /\ head' = tip + 1
    /\ history' = [history EXCEPT ![tip + 1] = work]
    /\ UNCHANGED <<work, version, storeVars, run, enricher, mishaps>>
    /\ answer' = None

Checkout(c) ==
    /\ ~Dirty
    /\ c # head
    /\ head' = c
    /\ work' = history[c]
    /\ TreeChanges
    /\ UNCHANGED <<history, tip, version, storeVars, enricher>>
    /\ answer' = None

Upgrade(v) ==
    /\ v # version
    /\ version' = v
    /\ UNCHANGED <<history, tip, head, work, storeVars, run, enricher, mishaps>>
    /\ answer' = None

-----------------------------------------------------------------------------
(* The gate *)

HasRecord(c) == store[c].record # None

\* A gate that does not look at the scanner's version.
SkipAnyVersion(m) ==
    /\ m # None
    /\ m.commit = head
    /\ HasRecord(m.commit)

ShouldSkip(m) ==
    /\ m # None
    /\ m.commit = head
    /\ m.version = version
    /\ HasRecord(m.commit)

\* A gate that does not ask whether the tree is dirty.
ManifestOfAnyTree(full) == IF full THEN None ELSE manifest

\* The manifest a run may use: never that of a dirty tree, none under --full.
CachedManifest(full) == IF full \/ Dirty THEN None ELSE manifest

\* A record that another run made serves a request for these options.
Serves(record, options) ==
    record.facts = {} \/ options.adjudicate = ~ByRule(record.facts)

Skip(full, options) ==
    /\ Idle
    /\ ShouldSkip(CachedManifest(full))
    /\ answer' = [tree |-> work, version |-> version, options |-> options,
                  sound |-> intact /\ Serves(store[head].record, options),
                  record |-> store[head].record]
    /\ UNCHANGED <<repoVars, storeVars, run, enricher, mishaps>>

StartScan(full, options, base) ==
    /\ Idle
    /\ ~ShouldSkip(CachedManifest(full))
    /\ run' = [pc |-> "analyse", commit |-> head, dirty |-> Dirty,
               version |-> version, options |-> options, tree |-> work, sound |-> TRUE,
               cached |-> CachedManifest(full), base |-> base]
    /\ IF Dirty THEN Mishap("dirty_run") ELSE UNCHANGED mishaps
    /\ UNCHANGED <<repoVars, storeVars, enricher>>
    /\ answer' = None

\* An incremental scan over facts of another version.
IncrementalAnyVersion(m, v, t) ==
    /\ m.deps = t.deps
    /\ m.roots = SourceRoots(Live(t))

\* can_incremental, after the diff between the two commits was computed.
CanIncremental(m, v, t) ==
    /\ m.version = v
    /\ m.deps = t.deps
    /\ m.roots = SourceRoots(Live(t))

\* A diff against the parent of the scanned commit.
DiffSinceParent(m, r) ==
    ChangedModules(history[IF r.commit > 1 THEN r.commit - 1 ELSE 1], history[r.commit])

\* git diff from the commit the manifest names.
DiffSince(m, r) == ChangedModules(history[m.commit], history[r.commit])

\* What _plan_incremental carries into the run, or None for a full scan.
PriorFacts(r, t, diffed) ==
    LET m == r.cached
    IN  IF /\ m # None
           /\ r.base \in {None, m.commit}
           /\ diffed
           /\ CanIncremental(m, r.version, t)
           /\ history[m.commit].deps = history[r.commit].deps
           /\ \A x \in DiffSince(m, r) : t.mods[x] # Absent
           /\ store[m.commit].facts \notin {None, Torn}
        THEN [facts |-> store[m.commit].facts, changed |-> DiffSince(m, r)]
        ELSE None

ScanFacts(r, t, diffed) ==
    LET prior == PriorFacts(r, t, diffed)
    IN  IF ScanKind(t) = "full" /\ prior # None
        THEN IncrementalFacts(prior.facts, t, prior.changed, r.version, r.options.adjudicate)
        ELSE FullFacts(t, r.version, r.options.adjudicate)

\* What is carried may be: it is what a full scan of the base found, and the
\* two trees allow it.
SoundPrior(r, t, prior) ==
    prior # None =>
        /\ intact
        /\ Carriable(history[r.cached.commit], t)
        /\ r.options.adjudicate \/ ByRule(prior.facts)

-----------------------------------------------------------------------------
(* The steps of a run *)

\* The files are read one after the other: of a tree that changes meanwhile a run
\* sees some as they were and some as they are.
TreesSeen(r) ==
    {t \in Trees :
        /\ t.deps \in {r.tree.deps, work.deps}
        /\ \A m \in Modules : t.mods[m] \in {r.tree.mods[m], work.mods[m]}}

\* The result of the core scan is dropped.
AnalyseWithoutResult ==
    /\ run.pc = "analyse"
    /\ run' = [run EXCEPT !.pc = "record"]
    /\ UNCHANGED <<repoVars, storeVars, enricher, mishaps>>
    /\ answer' = None

\* The core scan.  git diff may fail: the commit is gone, or git timed out.
Analyse ==
    /\ run.pc = "analyse"
    /\ \E diffed \in BOOLEAN, t \in TreesSeen(run) :
          run' = [pc |-> "record", commit |-> run.commit, dirty |-> run.dirty,
                  version |-> run.version, options |-> run.options, tree |-> run.tree,
                  sound |-> run.sound /\ SoundPrior(run, t, PriorFacts(run, t, diffed)),
                  record |-> RecordOf(t, ScanFacts(run, t, diffed), run.options.enrich)]
    /\ UNCHANGED <<repoVars, storeVars, enricher, mishaps>>
    /\ answer' = None

\* The manifest vouches for the directory of c.
Vouched(c) == manifest # None /\ manifest.commit = c

\* The record in the directory of the run has changed behind an enricher's back.
Outdated(e) ==
    IF e # None /\ e.commit = run.commit THEN [e EXCEPT !.stale = TRUE] ELSE e

WriteRecord ==
    /\ run.pc = "record"
    /\ store' = [store EXCEPT ![run.commit].record = run.record]
    /\ intact' = (intact /\ ~Vouched(run.commit))
    /\ enricher' = Outdated(enricher)
    /\ run' = [run EXCEPT !.pc = "facts"]
    /\ UNCHANGED <<repoVars, manifest, mishaps>>
    /\ answer' = None

WriteFacts ==
    /\ run.pc = "facts"
    /\ store' = [store EXCEPT ![run.commit].facts = run.record.facts]
    /\ run' = [run EXCEPT !.pc = "log"]
    /\ UNCHANGED <<repoVars, manifest, intact, enricher, mishaps>>
    /\ answer' = None

Finish ==
    /\ answer' = [tree |-> run.tree, version |-> run.version, options |-> run.options,
                  sound |-> run.sound, record |-> store[run.commit].record]
    /\ run' = IdleRun

\* A dirty run goes on to write the manifest.
LogRunThenManifest ==
    /\ run.pc = "log"
    /\ run' = [run EXCEPT !.pc = "manifest"]
    /\ answer' = None
    /\ UNCHANGED <<repoVars, storeVars, enricher, mishaps>>

\* upsert_record and append_audit_entry; a dirty run ends here.
LogRun ==
    /\ run.pc = "log"
    /\ IF run.dirty
       THEN Finish
       ELSE run' = [run EXCEPT !.pc = "manifest"] /\ answer' = None
    /\ UNCHANGED <<repoVars, storeVars, enricher, mishaps>>

WriteManifest ==
    /\ run.pc = "manifest"
    /\ manifest' = [commit |-> run.commit, version |-> run.version,
                    deps |-> work.deps, roots |-> SourceRoots(Present(work))]
    /\ intact' = run.sound
    /\ Finish
    /\ UNCHANGED <<repoVars, store, enricher, mishaps>>

-----------------------------------------------------------------------------
(* Enrich-in-place: another process rewrites the record of a prior output *)

StartEnrich(c) ==
    /\ \E options \in Options : options.enrich
    /\ enricher = None
    /\ Mishap("enrichment")
    /\ store[c].record \notin {None, Torn}
    /\ enricher' = [commit |-> c, record |-> Enriched(store[c].record), stale |-> FALSE]
    /\ UNCHANGED <<repoVars, storeVars, run>>
    /\ answer' = None

\* A stale enricher undoes what was written since it read the record.
FinishEnrich ==
    /\ enricher # None
    /\ store' = [store EXCEPT ![enricher.commit].record = enricher.record]
    /\ intact' = (intact /\ ~(enricher.stale /\ Vouched(enricher.commit)))
    /\ run' = IF ~Idle /\ enricher.stale /\ enricher.commit = run.commit
              THEN [run EXCEPT !.sound = FALSE]
              ELSE run
    /\ enricher' = None
    /\ UNCHANGED <<repoVars, manifest, mishaps>>
    /\ answer' = None

-----------------------------------------------------------------------------
(* Crashes: the process dies, or a database error ends the run early *)

\* A write that was cut off leaves a torn file, or a shorter one that reads well.
CutOffWrite ==
    CASE run.pc = "record" ->
           /\ store' = [store EXCEPT ![run.commit].record = Torn]
           /\ intact' = (intact /\ ~Vouched(run.commit))
           /\ enricher' = Outdated(enricher)
           /\ UNCHANGED manifest
      [] run.pc = "facts" ->
           /\ \E rest \in {Torn} \cup SUBSET run.record.facts :
                 store' = [store EXCEPT ![run.commit].facts = rest]
           /\ UNCHANGED <<manifest, intact, enricher>>
      [] run.pc = "manifest" -> manifest' = None /\ UNCHANGED <<store, intact, enricher>>
      [] OTHER -> UNCHANGED <<storeVars, enricher>>

Crash ==
    /\ ~Idle
    /\ Mishap("crash")
    /\ CutOffWrite \/ UNCHANGED <<storeVars, enricher>>
    /\ run' = IdleRun
    /\ UNCHANGED repoVars
    /\ answer' = None

-----------------------------------------------------------------------------
Environment ==
    \/ \E m \in Modules : \E text \in Contents[m] : EditSource(m, text)
    \/ \E d \in GlobalInputs : EditGlobalInput(d)
    \/ Commit
    \/ \E c \in 1..tip : Checkout(c)
    \/ \E v \in Versions : Upgrade(v)
    \/ \E c \in Commits : StartEnrich(c)
    \/ FinishEnrich
    \/ Crash

Launch ==
    \E full \in BOOLEAN, options \in Options :
        \/ Skip(full, options)
        \/ \E base \in {None} \cup (Bases \cap 1..tip) : StartScan(full, options, base)

RunStep == Analyse \/ WriteRecord \/ WriteFacts \/ LogRun \/ WriteManifest

Next == Environment \/ Launch \/ RunStep

Spec == Init /\ [][Next]_vars

\* Ordinary runs, without --full, are launched again and again, and a run that is
\* not killed goes on.
OrdinaryLaunch ==
    \E options \in Options :
        \/ Skip(FALSE, options)
        \/ \E base \in {None} \cup (Bases \cap 1..tip) : StartScan(FALSE, options, base)

FairSpec == Spec /\ WF_vars(RunStep) /\ WF_vars(OrdinaryLaunch) /\ WF_vars(FinishEnrich)

-----------------------------------------------------------------------------
(* Properties *)

\* The fact cache the manifest vouches for is the fact set of a full scan of the
\* manifest's commit with the manifest's inputs, and the record beside it says
\* the same: what a skip returns and what an incremental scan carries is right
\* whatever was edited, committed, upgraded or killed in between, until a run, or
\* an enrichment of an older record, writes into that very directory and does not
\* come to write the manifest, undisturbed, in its turn.
FactCacheAligned ==
    manifest # None /\ intact =>
        LET tree == history[manifest.commit]
            prior == store[manifest.commit]
        IN  \E options \in Options :
                /\ prior.facts = FullFacts(tree, manifest.version, options.adjudicate)
                /\ Detected(prior.record) =
                       Detected(FullRecord(tree, manifest.version, options))

\* Whatever path a run took (skip, incremental or full) and whatever ran before
\* it, it returns what a scan from scratch of the tree it was given detects.
AnswersExact ==
    answer # None =>
        /\ answer.record # Torn
        /\ Detected(answer.record) =
               Detected(FullRecord(answer.tree, answer.version, answer.options))

\* The same of the runs that nothing disturbed: the tree held still, no enrichment
\* undid the record, and what was skipped to or carried was in order.  A run over
\* a cache that an earlier mishap has left behind is exact again as soon as it
\* does not use it, and a full scan never does.
SoundAnswersExact == answer # None /\ answer.sound => AnswersExact

\* The cache is transparent: what the users of run_scan see, as long as their run
\* is not disturbed, is a scanner that has none.
Service == INSTANCE ScanService WITH
               Trees <- Trees, Versions <- Versions, None <- None,
               FullRecord <- FullRecord, Detected <- Detected,
               work <- work, version <- version, answer <- answer
CacheIsTransparent == Service!Spec

\* A scan that was not asked to adjudicate reports nothing a model decided.
PlainScanDerivesByRule ==
    ~Idle /\ run.pc # "analyse" /\ ~run.options.adjudicate =>
        \A f \in run.record.facts : f.tier = "rules"

\* A record says enrichment was not requested only to a run that did not.
EnrichmentIsVisible ==
    answer # None /\ answer.options.enrich =>
        answer.record.enrichment # "not requested"

\* The manifest is only ever moved to a commit whose artifacts are complete, were
\* asked of exactly the tree that commit names, never of a dirty one, and are those
\* of one run; if nothing disturbed that run, it describes that tree.
ManifestMovesToFinishedScan ==
    [][manifest' # manifest /\ manifest' # None =>
          LET tree == history[manifest'.commit]
              made == store[manifest'.commit]
          IN  /\ made.record # None
              /\ run.tree = tree
              /\ made.facts = run.record.facts
              /\ run.sound => /\ Detected(made.record) = Detected(run.record)
                             /\ manifest'.deps = tree.deps
                             /\ manifest'.roots = SourceRoots(Present(tree))]_vars

\* If the repository and the scanner stop changing, the cache catches up: the
\* manifest comes to name HEAD, scanned with the installed version.
Quiet(c, v) == head = c /\ version = v /\ ~Dirty

CacheConverges ==
    \A c \in Commits, v \in Versions :
        <>[]Quiet(c, v) => <>[](manifest # None /\ manifest.commit = c /\ manifest.version = v)

=============================================================================
