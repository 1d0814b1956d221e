# TLA+ models of AutoInventory (`aiscan`)

`aiscan` scans a source repository for AI components without executing it and
writes a record (a bill of materials), a graph and the facts both were derived
from. Scans are repeated on every push, so a large part of the program is about
*not* analysing again what cannot have changed, and another part is about
keeping an organisation-wide database of what was found. This directory models
the program in TLA+, checks the models with TLC on small instances and proves
the properties that matter most with TLAPS.

## 1. The system

| Part | State it keeps | Operations | Talks to |
|---|---|---|---|
| Run driver (`cli.py`) | none of its own | `run_scan`, `_write_scan_manifest`, `_enrich_in_place` | ingest, gate, core, store, dataset |
| Core scan (`core.py`) | a `ScanContext` per run | `scan`, `_plan_incremental` | every analysis stage, the store for prior facts |
| Ingestion (`ingest/`) | a temporary clone | `fetch_source`, `changed_files`, `run_triage` | git |
| Gate, manifest, fact cache (`incremental/`) | `_cache/<bundle>.json`, `facts.jsonl` and its companions | `should_skip`, `can_incremental`, `keep_unaffected_*` | driver, core, store |
| Dependency graph (`incremental/depgraph.py`) | none | `build_dependency_edges`, `affected_modules` | symbol tables |
| Module graph and symbol tables (`modules/`) | built per run | `ModuleGraph`, `build_symbol_table` | parsers, resolver |
| Resolver (`resolve/`) | a memo and budgets per run | `resolve` | module graph, every frontend |
| Sinks (`sinks/`) | per run | scoring of calls that reach a model | resolver |
| Frontends (`frontends/`) | per run; the org wrapper registry across runs | wrapper fixed point, framework packs, agent shapes | resolver, sinks, registry |
| Adjudicator, enrichment (`adjudicate/`, `enrich/`) | response caches | calls to a model, with budgets and retries | core, `llm.py` |
| Derivation, graph, record, reports | none | pure functions of the facts | core |
| State store (`store.py`, `inventory/emit.py`) | artifacts per (bundle, commit), manifest per bundle, org registry | `put_artifacts`, `put_manifest`, `get_prior_facts`, `has_record` | driver, core |
| Dataset (`dataset/store.py`) | `inventory.db`: rows, audit ledger, governance register | `upsert_record`, `append_audit_entry`, `verify_audit_log`, `set_governance` | driver; any number of processes |
| Fleet runner (`fleet/`) | a report | scans of many repositories with one registry | driver |

What makes it correct, and what is hard about it:

* **The cache.** A run may skip, carry facts or start over, and each answer must be
  what a scan from scratch gives. The danger lies in sequences: edits, commits,
  checkouts, upgrades, dirty runs, crashes between the writes of three artifacts,
  an enrichment that rewrites a record behind a scan's back.
* **The re-analysed set.** The dependency edges approximate what the resolver
  reads. A read without an edge leaves a stale fact, and nothing else notices.
* **The database.** SQLite serialises writers, but the program reads before its
  write transaction begins, so decisions are taken on values that are already old.
* **The analysis.** Fixed points, memo tables, budgets and identities that depend
  on the order in which modules are visited, while an incremental scan visits
  only some of them.

## 2. The modules

| Module | Models | Proofs in |
|---|---|---|
| `SourceTree` | trees, imports, what an analysis reads, the outcome of a full scan, the merge of an incremental one | `ScanCacheProofs` |
| `ScanService` | the abstract scanner: every answer is that of a scan from scratch | |
| `ScanCache` | one bundle under repeated runs, crashes and enrichment; implements `ScanService` | `ScanCacheProofs` |
| `DepGraph` | the edges and the closure that choose the modules to re-analyse, against the resolver's reads | `DepGraphProofs` |
| `AuditLedger` | the hash chain of `inventory.db` under concurrent runs | `AuditLedgerProofs` |
| `Governance` | the governance register and its audit trail under concurrent decisions | `GovernanceProofs` |
| `WrapperRegistry` | the wrapper fixed point and the registry that all repositories share | `WrapperRegistryProofs` |
| `ModelService` | a file of replies by question, shared by the two tiers below | |
| `Adjudicator` | admission, budget, cache and promotion of the adjudicating model | |
| `Enrichment` | plan, worker pool, retry, cache and drafts of the enriching model | |
| `ModelTiers` | composes both with a scan, the directories of the commits and an enrichment in place | `ModelTiersProofs` |
| `ResolverValues` | the values of the symbolic resolver, templates, environments, walks over the IR | |
| `ResolverEval` | one query: scopes, statements, calls, classes, imports, containers, memo and budgets | |
| `Resolver` | one resolver under the queries of a scan, and what its answers promise | |
| `FrameworkAgents` | the framework frontend: agents, tools, servers, tasks, crews, nodes, routes, promotion, identities; the call sites of wrappers and the effects of tool bodies | |
| `RecordGraph` | from facts to the graph, the record, its ids and verdict, and what is derived from it | |
| `FrameworkScan` | composes both with commits, the carrying of facts and marks, full and incremental scans | `FrameworkProofs` |
| `Lists` | sequences as the lists of a program: what is filtered from one, a set written out | `Foundations` |
| `FrameworkFacts` | no part of the program: what a construct, a module and a tree contribute to the facts of a scan, and the invariants, in which `FrameworkProofs` argues | `FrameworkProofs` |
| `Foundations` | no part of the program: induction over numbers, functions defined by recursion, lists that are joined, filtered and folded, for the proofs | itself |

`MC*` modules give the constants of each model small values.

### SourceTree and ScanCache

*State.* `history`, `tip`, `head` and `work` are the git repository; `version`
stands for everything the gate compares by equality and that is not in the tree
(scanner version, `ANALYSIS_VERSION`, rule packs, org pack). `manifest` is the one
file per bundle; `store[c]` holds the record and the fact cache in the directory
of commit `c`. `run` is the run in progress with the program counter of
`run_scan`: `analyse` (the core scan), `record` and `facts` (the two halves of
`put_artifacts`), `log` (rows and ledger), `manifest`. `enricher` is an
enrich-in-place that has read a record and not yet written it back.

*Facts.* A fact is represented by what its analysis read: the texts of the
modules it reaches, the source roots, the lockfiles, the version. Two facts are
equal exactly when nothing they depend on differs. That is the strictest reading
of "an incremental scan must never produce a BOM that differs from a full scan".

*Actions.* `EditSource`, `EditGlobalInput`, `Commit`, `Checkout` and `Upgrade` are
the world; `Skip` and `StartScan` are the two outcomes of the gate; `Analyse`,
`WriteRecord`, `WriteFacts`, `LogRun` and `WriteManifest` are the steps of a run
in the order of the code; `Crash` ends a run before or in the middle of a
write (a cut-off JSON file is `Torn`; a cut-off line file may also be a shorter
one that reads well; a manifest that does not read is no manifest);
`StartEnrich` and `FinishEnrich` are the other process. The files of a tree are read one
after the other: of a tree that changes under a run, `Analyse` sees each file as it
was or as it is (`TreesSeen`).

*Mishaps.* Nothing in the code stops the tree from being edited while a run is under
way, a dirty tree from being scanned into the directory of HEAD, a run from dying in
or between any two of its writes, or a prior record from being enriched at any
moment. The model has no guard against any of it either; the four kinds are allowed in
every state, `MaxMishaps` times altogether. What the code then promises is said with
auxiliary values, on which no step of the program depends:

* `intact`: the artifacts that the manifest vouches for are still those of the run that
  wrote it. A run that rewrites that record, or an enricher that puts an older one
  back, ends it; the next manifest restores it.
* `run.sound`: no edit came while the run read the tree, no stale enricher wrote over its
  record, and what it carried could be carried (`SoundPrior`). `answer.sound` is
  the same of an answer; for a skip it asks that the record is intact and serves the
  options.
* `enricher.stale`: the record was rewritten since the enricher read it.

`Carriable` is the condition under which facts of one tree may be carried into the
scan of another. The gate looks at none of it: the base was analysed in full (no size
budget, no triage verdict cut it short), its root layout is the one the manifest
bears, changed modules still parse, and the edges cover what the resolver reads. A run
for which it does not hold is in the model, with everything it does to the cache;
its answer is not sound. Each of the four conditions is needed: with any
one dropped TLC finds `FactCacheAligned` violated (the roots condition in
`ScanCacheLive`, the others in `ScanCacheSafety`).

*Limits.* A fact here depends on what the resolver reads (`ImportsOf`), the roots, the
lockfiles and the version; the edges that choose what to re-analyse are a second
relation (`EdgesOf`). Facts that depend on modules they do not import (the order in
which agents take identities, the registry of wrappers, the sinks of modules that are
not analysed) are not in this module but in `FrameworkScan` and `WrapperRegistry`,
where incremental scans do differ.

*Refinement.* `CacheIsTransparent` is `ScanService!Spec` under an identity mapping of
the tree, the version and the answer: the abstract scanner has no cache, no
manifest and no crash. It is free in answers that are not sound.

### DepGraph

A module name is the sequence of its dotted parts, a symbol table its imports.
`Visit` is one iteration of the work list, in any order because the code pops
from a list filled in set order; `WidenLazy` is the final widening. `Reads` is
written from the resolver, not from the edges: what an import binding and the
attribute walk after it can look up.

### AuditLedger and Governance

Every run, or decision, is a process with a program counter: the SELECT, the
statements that take the write lock, the commit. A conflict on the primary key
and a lock time-out end it; a crash rolls an open transaction back. A hash is
represented by what is hashed: the number, the text of the columns joined with bars, and
the previous hash. `Rendered` is that text. It does not keep values apart: NULL reads
like the text `None`, and a bar may belong to either of two columns. A run whose
entry is committed has still to write the manifest before it reports (`Report`); if it
dies there it is `unreported`.

### WrapperRegistry

A module holds one top-level definition or none; its code is the sequence of its
call sites. `Expand` is one round of the work list of `fixed_point`: it takes the
first pending definition by name, rates it, and turns its call sites into sinks of
their own. `Save` replaces the registry after a full scan, `Finish` merges what an
incremental scan found with what it carried. The reference is `Least`, the least
fixed point with all definitions at once; it is what the results of both kinds of
scan are compared with. Names are numbers, because the code sorts them.

The comparison needs three conditions, which the properties state: the rating of a
definition must not depend on which of its calls are known to be sinks at its turn
(`Steady`), registry entries of wrappers of wrappers must be right
(`SecondOrderEntriesRight`), and an incremental scan must not be the one that gives
an unaffected wrapper its first call or takes its last. The last condition is where
the program fails (section 4). An incremental scan also needs the registry to hold
the wrappers that affected modules call. It is not enough that the names are there:
a definition of the same name in another repository displaces the entry, and the
proof of `IncrementalIsExact` fails without the condition that the entry is seeded.
The second repository of the run has such a definition.

### Adjudicator, Enrichment and ModelTiers

A valid reply carries, as a ghost, the question it was given to; a malformed one is
a value of its own and is kept like any other. An adjudicated place is named by a
number in the order of the findings, because the budget is spent in that order.
`OverBudget`, `CacheHit`, `CallAnswered` and `CallFailed` are the outcomes for the
finding whose turn it is. In `Enrichment` a free worker takes the next node
(`CallStarts`), and calls end in any order, in an answer or in an exception that is
followed by one second attempt. All tables of the code are keyed by record id
(`LastWith`): an agent and a tool with the same id share a hash and a draft. Which of
them is last follows the order of the code: system, production agents and tools, then
those of `Examples`, the nodes of example code.

`ModelTiers` puts both inside a scan (`StartScan`, `Adjudicate`, `EndAdjudication`,
`BuildRecord`, `EnrichCall`, `EndEnrichment`, `WriteScan`), keeps both caches in the
directory of the commit, as the driver does, and lets a second process enrich a
record on disk at the same time (`StartInPlace`, `EndInPlace`, `WriteInPlace`).
A process that dies may cut off the cache it is writing, which then reads as empty.

### ResolverValues, ResolverEval and Resolver

A query is a recursive evaluation without concurrency, but what it leaves behind
(memo entries, local definitions a walk has passed) is state that later queries
meet, in an order that depends on which modules a scan visits. `ResolverEval`
therefore threads one record `st` through every operator: the memo, the
definitions, the steps left before the deadline, the depth of the interpreter's
stack, and whether a budget has cut anything. The operators have the names of the
methods they stand for; the mutual recursion of `_resolve`, `_walk_to`,
`_call_function_body` and the rest goes through one operator, `Evaluate`. A dotted
name is the sequence of its parts and a string the sequence of its atoms, so that
what a conversion does (concatenation, templates with holes, folding of case) is
kept and characters are not. An iteration over a `frozenset` takes one arbitrary
fixed order.

`Resolver` has the actions of a scan: `Ask` (a site, in its scope, with some time
limit), `AskDefault` (the default a rule pack names, outside any time limit),
`AskRebound` (a site in a function whose parameters only its callers know,
asked again under what they bind) and `SpendBudget` (the time of the whole scan is
over). `Exact` is a second instance of `ResolverEval` with budgets nothing exhausts
but imports in a circle; it answers each query with an empty memo and is what
answers are compared with. For generated functions the reference is instead an
evaluator of what Python computes (`Eval`, `Exec` in `MCResolver`).

The evaluator was compared with the real resolver on eleven programs that go through
every kind of expression and statement, over a hundred queries, with equal answers.

### FrameworkAgents, RecordGraph and FrameworkScan

A module is a sequence of constructs, each standing for what a rule of a pack
matches (an agent's constructor, a node, a route, a task, a crew, a decorated
tool), and a reference in an argument is what the resolver makes of it.
`FrameworkAgents` gives the facts of the modules that are analysed: candidates
first, then identities in the sorted order of files (`_unique_agent_id`), handoffs,
tasks, crews, nodes with the promotion of their functions, routes, and what is
left to the end of the pass. `RecordGraph` merges facts with equal ids, drops
edges without ends, and builds the agents of the record and what is derived from
their transfers. `FrameworkScan` has the actions `Commit`, `FullScan` and
`IncrementalScan`; the last two run the whole pipeline, over all modules or over
the affected ones with the facts and marks that are carried, and seeded with the
identities of carried agents (`_seed_agent_ids`).

Incremental scans do differ from full ones (section 4). `Separated` describes the
trees for which they do not: each agent name used in one module, nodes and routes
about their own module, nodes of one function spelled alike, one declared tool to a
name of a module, no wrapper that waits for its first call, and functions that
call a model over HTTP in modules no other imports. `IncrementalIsFullApart` says
that nothing else is needed, which `FrameworkProofs` proves; `IncrementalIsFull` drops
the condition and fails. Two of the conditions (the spelling of nodes, the names of
tools) are what the proof asked for: without them two facts of one identity and one
method may differ in content, and the order in which a scan meets them decides. None of
the conditions is idle: for each of them `FrameworkRuns` has a repository that lacks only
it (`NotApart`), and with the condition dropped from `Separated` TLC finds
`IncrementalIsFullApart` violated there.

## 3. The runs

Passing runs:

| Run | Question | Properties |
|---|---|---|
| `ScanCacheSafety` | two modules that may import each other, with and without an edge that says so, one of which may stop parsing or give no reason to scan, over three commits: is what the manifest vouches for that of a full scan, and does every sound run answer like one? | `TypeOK`, `FactCacheAligned`, `CacheIsTransparent` |
| `ScanCacheLive` | lockfiles, source roots and the scanner change, and one mishap strikes anywhere: a dirty run over any commit, a crash in or between any two writes, an edit or an enrichment in the middle of a run. Which answers are still exact, and does the cache catch up? | `FactCacheAligned`, `SoundAnswersExact`, `ManifestMovesToFinishedScan`, `CacheConverges` |
| `DepGraphFlat` | every table and change set over flat packages: is the affected set the closure, and is every reader in it? | `TypeOK`, `ClosureIsExact`, `ReadersAreAffected` |
| `AuditLedgerRuns` | three runs append concurrently, lose the race, time out and die, and rows, some of whose values read alike, are edited and deleted behind the program's back: what does a chain that verifies tell? | `TypeOK`, `ChainVerifies`, `SuccessIsLogged`, `TamperEvident` |
| `GovernanceRaces` | three decisions overlap in any way: what survives of them in the register and its trail? | `TypeOK`, `RegisterHoldsDecisions`, `RegisterIsReplay`, `AuditTrailLinks`, `SerialDecisionsChangeWhatTheyPass` |
| `WrapperRegistryRuns` | thirty-two programs and a second repository, which has a definition of its own under a name of theirs, are scanned in full and incrementally with the registry their past left: do scans find the least fixed point? | `TypeOK`, `FixedPointClosed`, `FullScanIsFresh`, `IncrementalIsExact`, `EveryRoundAdvances` |
| `ModelTiersRuns` | full and incremental scans under a budget of one call, with a pool of two workers, an enrichment in place, and a failing call, a malformed reply or a crash: are replies kept, matched and in the end complete? | `TypeOK`, `RepliesFitQuestions`, `VerdictsOfPresentText`, `DraftsOfTheirNodes`, `PaidRepliesAreKept`, `EverythingAdjudicated`, `EverythingDrafted` |
| `ResolverRuns` | eight written programs and all functions of three statements from a list, with tests on names that are never assigned: queries in every order, with every time limit, with the scan's time spent, and under what callers bind | `TypeOK`, `AnswersCoverExact`, `UncutAnswersAreExact`, `AnswersCoverRuns` |
| `FrameworkRuns` | five families of repositories, and six that are separated but for one condition, over their commits, scanned in full and incrementally in every order: are identities unique, marks followed, derived data right, and is the incremental record the full one? | `TypeOK`, `AgentIdsAreUnique`, `EntrypointsAreMarked`, `IncrementalIsFullApart`, `DerivedFollowsTransfers` |

Runs that end in a counterexample, each a place where the program does not do
what its documentation says:

| Run | What TLC shows |
|---|---|
| `ScanCacheDirty` | a dirty run overwrites the artifacts of HEAD that a manifest vouches for |
| `ResolverReturns` | a test on a parameter that was assigned since is decided with what the caller passed, and the return that is taken is not among the answers |
| `FrameworkIncremental` | two agents of one name in two modules: the incremental scan gives the bare identity to the other one, and a handoff by name follows it |

### Bounds

* `MaxCommits` (2 or 3) bounds the history; three commits are what a chain of two
  incremental scans needs. Two modules are enough for an importer and its import in
  both directions and for cycles; texts are chosen so that each effect has one that
  causes it and one that does not (`Contents` says which module may have which).
* `MaxMishaps` (0 or 1) bounds dirty runs, crashes, edits during a run and
  enrichments, together: each counterexample of section 4 needs at most one of them, it
  may come at any moment of any run, and any number of ordinary runs may follow.
  `ScanCacheSafety` has none and longer chains of commits, and its runs may also be
  given any commit as their base (`Bases`), which at most refuses what the manifest
  allows. In
  `ModelTiers` it also counts calls that raise and malformed replies; the second
  attempt of a call that raised is free, so a node may fail altogether.
* `MaxTampers` is 2: an edit and a deletion, or an edit that is put back. The entries of
  `AuditLedger` have two columns and four values, two pairs of which read alike.
* Names in `DepGraph` have up to three parts: the edges look one level down, so a
  missing level shows at depth three. The run has names of two parts and meets
  `ReadsOneLevel`, the hypothesis of the theorem (`FlatIsShallow`, evaluated by TLC).
* `WrapperRegistry`: four modules are a wrapper, a wrapper of it, a caller and one
  more name between them in the order; `MaxEdits` is 1, since scans may be repeated
  before and after the edit in either repository.
* `ModelTiers`: two places and a budget of one are the least for which one place has
  to wait; one name that is both an agent's and a tool's gives the shared key;
  `MaxInPlace` bounds the enrichments in place to one, which may begin and end at any
  moment of any scan. `Examples` is empty: the agents of the run are named by the model,
  whose location is production by default. TLC also passes with the agents of
  the first place as examples, and the theorems hold for every set.
* `Resolver`: `MaxQueries` is 3: one query leaves an entry behind, one is misled by it,
  and one more may come between; a time limit is 1 or 3 steps or none, which cuts a
  query at its first step, in its middle or not at all. `MaxDepth` 4 and `MaxHops` 2 are
  smaller than the program's 8 and 4, so that short programs reach them; `StackLimit`
  stands for the interpreter's stack. `KRet` 2 and `KRetLift` 3 are exceeded by a
  function of four returns. Generated functions have three statements out of eight
  kinds: an assignment before, in and after a branch.
* `Framework`: two or three modules with two or three texts each, and one choice of
  configured servers: enough for an owner of a name, a second claimant and an importer of
  either, and for each way in which two modules can get at one another without an import. `ClassifyHops` is 1, so that a tool's helper is inside the bound and the
  helper's helper outside it.

### Fairness

`FairSpec` of `ScanCache` assumes that a run which is not killed goes on
(`WF(RunStep)`), that ordinary runs, without `--full`, are launched again and again
(a push or a schedule launches them) and that an enrichment ends (its calls have
time-outs). `FairSpec` of `ModelTiers` assumes that a scan goes on (a call ends: it
answers or its time-out raises) and that full scans are asked for again and again:
an ordinary scan of a commit that was scanned is skipped, so findings over the
budget are retried only with `--full` or after a change of the inputs. Nothing is
assumed about the environment, nor about which reply the model gives.

Where deadlock is not checked, the modelled activity really ends (every process
of the database models and the closure ends; a tree that stays dirty may leave no
bounded run enabled; a scan has only `MaxQueries` queries). `Resolver` and
`FrameworkScan` state safety only, without fairness: that a query ends is seen from
its evaluation ending in every state.

## 4. What is known to fail

These follow from the same models but have no run of their own. The first eight
entries are behaviours of `ScanCache`: with the named mishap, texts or options
`AnswersExact`, which is the promise without the word *sound*, fails, or the property named
there does. The runs of section 3 contain most of them and show how far they reach.

* A crash: a `--full` rescan of the commit the manifest names dies inside
  `put_artifacts`; the manifest stays valid and the next run skips to a torn record.
* The roots: a package that did not parse counts for the layout the manifest bears
  (`_write_scan_manifest` lists files) and not for that of the analysis, so modules are
  carried under names that a full scan no longer gives them.
* `broken` text: a changed module that no longer parses is not in the module graph
  (`core.py:262`), so its importers keep their facts and nothing escalates.
* `bulky` text: a scan over the size budget caches no facts; once the tree is small
  again an incremental scan carries the empty set. `quiet` text: the same for a tree
  without triage signals.
* Adjudicated facts are cached with the others and carried into runs without
  `--adjudicate` (`README.md:225-226` says the output is then that of a plain scan):
  `PlainScanDerivesByRule`.
* `--enrich` on a commit that is already scanned is dropped silently
  (`README.md:231`): `EnrichmentIsVisible`.
* An edit during a scan: dirtiness is decided once, before the sources are read; an edit
  in between is cached under HEAD (`SPEC-8.md:57`).
* An overlapping enrichment: an enrichment in place puts the old record back beside the
  manifest of a newer scan.
* `DepGraph`: an import of a package within a package makes the resolver read
  modules to which there is no edge (`depgraph.py:44`; `SPEC-8.md:32-33`): with names of
  three parts `ReadersAreAffected` fails; what the widening for lazy packages adds is not closed under dependents
  (`depgraph.py:84-85`): `AffectedIsClosed`.
* `Governance`: a decision writes back the fields it was not given as it read them, so a
  concurrent decision is silently undone (`dataset/store.py:279` against 255-256, "Only
  the fields passed are updated; the rest are preserved."): `OnlyPassedFieldsChange`.
* `AuditLedger`: a run that loses the race for a number has already published its
  rows (`dataset/store.py:191`): `PublishedRunsAreLogged`. A `NULL` and the text `None`
  are hashed alike, and so is text shifted over a `|` (`dataset/store.py:168`), so an
  edit from one to the other verifies (`dataset/store.py:188`, "any later edit or
  mid-chain deletion breaks the chain"): `EveryEditIsFound`.
* `WrapperRegistry`: the first call to a wrapper that had none is missed by an
  incremental scan, because the registry holds only wrappers that had a call
  (`core.py:430`; `SPEC-8.md:26-27`); the hash of an entry covers the wrapper's own module, so an entry
  of a wrapper of wrappers may be stale and trusted, in full scans too; a full scan of
  another repository replaces the registry an incremental scan relies on
  (`SPEC-8.md:94-96`); a definition that was rated is not rated again when
  more sinks arrive; the loss of the last call to an unaffected wrapper is not seen.
* `ModelTiers`: the caches lie in the directory of one commit, so code and nodes that
  did not change are paid for again at every commit (`TechnicalDesign.md:539`
  "unchanged code never re-adjudicated", `SPEC-2.md:224-225`), and where every commit
  spends the budget on the same first findings the later ones never have their turn; a
  budget spent on new findings also withholds cached answers of later ones; calls
  that fail are not counted; a malformed reply is kept for ever; an incremental scan
  keeps the `unadjudicated` mark of a place that is adjudicated in the same scan.
* `Resolver`, the memo (`DECISIONS.md:17` and `memo.py:4-6` promise that it is
  transparent): a local function that is called from elsewhere is entered without its
  enclosing frame, so a name of that frame is memoised as unbound and a later query
  from within gets it (program `Nested`, for that reason in no run; that answers do not
  depend on the memo is shown of the listed programs only); the handler of a `try` is entered from
  the state before the body when a query lies in it and from the state after the body
  when a walk passes it, and whichever comes first is served to the other.
* `Resolver`, budgets: a value cut by depth or time is memoised and served to queries
  that had time; a dictionary whose spread or key was cut keeps the entries before it,
  which are read as certain although the spread may replace them; an element that was
  cut is left out of a list and shifts the later ones; the defaults of parameters are
  resolved at depth 0 (`engine.py:1030`), so a default that calls its own function ends
  in a `RecursionError` (`SPEC.md:121`); scopes and pack defaults are built outside any
  time limit.
* `Resolver`, by design (`SPEC.md:385`): loops are evaluated once.
* `FrameworkScan`, the ways in which an incremental record differs from a full one: the
  bare identity of a name stays with, or passes to, an agent that a full scan would not
  give it (`FrameworkIncremental`), and handoffs point to it; a candidate in an affected
  module whose function lies in an unaffected one loses its promotion, because only the
  affected modules' sinks are known (`engine.py:1487`); routes of unaffected modules are
  not evaluated against new agents; the verdict counts the sinks of affected modules
  only (`emit.py:340`); the effects of a tool body miss calls into unaffected modules;
  `_seed_agent_ids` takes the first evidence for the owner, which for a promoted
  agent is the candidate and not the function. Two facts of one identity and one method
  are merged into the first of them (`_merge_fact` keeps its name and effects;
  `graph/build.py:67` sorts by identity and method only, and the sort is stable): a full
  scan meets them in the order in which the rules emit them, an incremental one carries
  them in the order of the sorted lines of `facts.jsonl` (`emit.py:397`). So two
  decorated functions of one name in one module may change places in the record, and so
  may two nodes of one function that are called `Writer` and `writer`.
* `FrameworkAgents`, in full scans too: a handoff by name goes to the owner of the bare
  identity even if it is in another module; the record ids of a framework and a
  bespoke agent of one name are equal; the effects of a tool body depend on the order of
  its calls, because the visited set is shared and the descent bounded.

## 5. The proofs

Each theorem holds for every value of the constants that meets the named
assumptions, that is for any number of modules, texts, runs, commits and mishaps.

* `Foundations` holds what the other proofs need of induction and of lists. The library states
  induction with an operator as parameter, which the provers cannot instantiate; a
  least element of a non-empty set of numbers (`LeastMember`) can be had from the
  well-foundedness of `<` and does the same work: a set that holds 0 and with each
  number the next holds all (`SetInduction`), a function defined by recursion exists
  and obeys its equation (`RecursiveFunction`), a chain of sets that grows within
  a finite set stops (`GrowingChainStops`). `FlattenSeq` and `Listed` are folds, whose
  equations are had in the same way (`Flattened`, `ListedAre`).
* `ScanCacheProofs`. First `SourceTree`: `Reach` is the least set closed under imports
  (`ReachIsLeast`). If nothing a module reaches differs between two trees, the
  reachable set is the same in both and so is the analysis (`ReachStable`,
  `StableAnalysis`). Hence `MergeIsExact`: if a tree is `Carriable` into another, kept
  plus fresh facts are the facts of a full scan. Then `ScanCache`, for any `Mishaps` and
  any number of them. `CacheInv` is the inductive invariant, in named parts: a run that
  may use a manifest has the one on disk (`CachedIsManifest`) and has written what its
  program counter says (`StoreHoldsRun`); a sound run scans the tree it was asked to scan
  (`RunHoldsTree`) and its record is a full scan's (`RecordIsFull`); while `intact`, the manifest vouches
  for the facts and detection of a full scan of its commit (`ManifestVouches`); an
  enricher that is not stale holds a record with the detection of the one in the
  store (`EnricherKeepsRecord`). The last part is what `FactCacheAligned` alone misses:
  without it a step of the enricher could break alignment from an unreachable state.
  `MergeIsExact` is the heart of the step `Analyse`. From `CacheInv` follow
  `CacheStaysAligned`, `RunsAnswerExactly`, `ManifestMovesRight` and the refinement
  `CacheImplementsService`. They assume of the constants only what `SourceTree` and
  `ScanCache` state as assumptions (types, finite sets), so every mishap at every
  moment is covered, and trees over budget, without signals, with broken modules or
  with edges that miss reads are too. What they say of a run is conditional on
  `sound`, and on nothing that a run of the code would check.
* `DepGraphProofs`. The invariant `LoopInv` says that the changed modules are marked, that
  all marks lie in the closure, and that a marked module is on the stack or all its
  dependents are marked. `ShallowTreesAreSound` adds that the closure is never lost
  to the widening (`ClosureInv`) and that a read goes to a prefix of the imported name,
  or one level below it (`ReadsAreBelow`), for which there is an edge
  (`ReadsHaveEdges`). Its hypothesis `ReadsOneLevel` is what a tree of packages
  that hold no packages meets; without it the statement is false (section 4). That
  names are sequences of strings (`NamesAssumption`, `TablesAssumption`) is what
  dotted names are.
* `AuditLedgerProofs`. The chain's rows are numbered without gap and link; at most
  the holder of the write lock is about to commit, and what it read is still the
  tip. `TamperEvident` needs that only written rows have a hash that matches, by
  induction along the chain. Nothing is assumed of values and their texts: the theorem
  promises that a row reads like the entry that was written, not that it is that
  entry, which is false (section 4). The number and the previous hash stand at the ends
  of what is hashed and can be told from it whatever is between.
* `GovernanceProofs`. A row read by a decision, and the register, hold only values
  of decisions that are done. The second result is about decisions made one at a
  time: as long as no two have overlapped at most one is under way, and the row it
  read is still the register's (`Alone`), so what it writes back differs from the
  register only where it was asked to (`SerialDecisionsTouchOnlyTheirs`). The third is
  about the trail, under the same condition: `TrailInv` is inductive with `Alone`, because the entries of a commit
  are computed from the row that was read. A commit appends the fields that differ, in
  the order of `FieldOrder`, each once (`SelectedFacts`, `ChangesFacts`); so the last
  entry of a field is the register's value (`TrailReplays`), and each entry
  begins where the one before it ended (`TrailIsLinked`). `FieldsAssumption` (the
  fields are listed once each) is the tuple `fields` of `set_governance`.
* `WrapperRegistryProofs`. `WorkInv` divides the classified definitions in those that
  are done (their call sites in the modules of the scan are sinks) and those that
  wait in the work list, and says that whoever holds a sink is pending or was
  expanded. `FixedPointClosed` is that invariant with an empty work list. The results
  of scans are compared with `Least`, which is a recursive function: it is the limit of a
  chain that grows within finitely many pairs (`ChainEnds`), hence the least closed
  one (`LeastFacts`, `LeastInduction`). `OriginInv` says that every entry of the registry, and every
  definition a scan has classified, was derived from the code whose hash it bears, and
  `ScanInv` that a scan has found only what `Least` holds; with `WorkInv` at the end
  of the work list it has found all of it (`ScanCompletes`). That gives
  `FullScanFindsFixedPoint`. For `IncrementalScanIsExact` the reference is split
  (`LeastApart`): outside the affected modules it is that of the old program, because
  these modules call nothing that changed (`AffectedIsClosed`), and what was
  carried from there is right by the hypothesis on the scan before. Assumed is that
  the names are finitely many numbers (the code sorts strings, of which a
  repository has finitely many).
* `ModelTiersProofs`. `CachesInv` says that every cache fits, on disk and in each
  pool, and that an answer in a pool was given to the node it is stored at. The one
  place where that could break is `Gathered`, which files a reply under the hash of
  the last node with the same key: `LastIsOfThePlan` and `GatheredFits` show that it
  is also that node's reply, whatever the order (any `Examples`). Where keys are unique that last node is the node
  itself, and so is what its draft answers (`DraftFits`). `VerdictsInv` needs `CachesInv`, since a cached reply
  is shown to be one for the present text by its key. `GrowsInv` says that the cache
  of a scan holds what is on disk. `TypesInv` strengthens `TypeOK` by the types of what a
  process has in memory, and by the fact that a finding which waits for the adjudicator
  is one the detection abstains on.
* `FrameworkProofs`. The pipeline is a composition of functions, and the invariant is
  carried through it stage by stage. `Kinded` says of one fact that its id, or the ids
  an edge joins, are of the kinds its type asks for; every rule emits such facts
  (`CallRulesKeep`) whatever the constructs, so does every post-pass, and carried
  facts have it by induction. A graph of such facts is well formed
  (`GraphIsWellFormed`, `FrameworkTypeCorrect`). `RunInv` is the invariant of a
  run in progress: an agent is carried, or it comes from an analysed module and, if
  its id is bare, owns it; and what the seeding gave to carried agents stays theirs
  (`Extended`). As carried facts are never those of an analysed module, a bare id
  cannot have a carried and a new owner (`ScanIdsAreUnique`, `IdentitiesAreUnique`).
  A mark of a module that is not analysed resolves as it did before, since its
  references go to modules that it imports and these did not change (`MarksStay`);
  so carried and new marks are those of the tree (`CarriedMarksComplete`), and the flags
  that are set from them, and taken back, are right (`EntrypointsFollowMarks`). The work
  list of derivation is a recursive function on pairs of a list and a set; it is defined
  for every record because each step takes one agent more or shortens the list
  (`WalkExists`), and what it returns is the least closed set (`ReachIs`,
  `DerivationFollowsTransfers`). The invariant of the specification is `IInv`: trees
  are trees of the repository, and the record on disk comes from a list of the facts in
  the cache, for which all of this holds.

  The longest proof is that of `IncrementalScansAreFull`, which compares two runs that
  visit different modules. It goes in five steps.
  1. *A scan is a union.* The pipeline is a fold that threads one state through all
     modules, but in a separated tree it gives, as a set, the facts that each module
     contributes by itself (`ModuleFacts`), plus those of the configuration: an agent's
     identity is the bare one, or bears its own site, by what its own module says of the
     name; candidates, routes and crews find their agents in their own module; flags
     depend on the marks of the tree (`Flagged`). `ScanIsFlagged` says so of any scan,
     with whatever was carried, as long as that fits (`Fit`).
  2. *A contribution is local.* It depends on the module, on what the module imports and
     on the sinks among them, and on nothing else: two trees that agree on these give
     the same (`SameModuleFacts`). The descent of `classify_body` needs the most care,
     as it goes a bounded number of calls deep into modules that imports reach.
  3. *What is carried is what would be found again.* A module that is not affected
     reaches no change, so the base tree and the new one agree on it; carried facts are
     the contributions of those modules (`CarriedAre`), with the flags of the base, which
     `reset` overwrites (`CarriedAreFit`). Hence the facts of an incremental scan are
     those of a full scan (`IncrementalScanFacts`).
  4. *The record does not depend on the order of the facts* (`RecordIsDetermined`), if
     facts of one identity and one method have the same content, evidence and files
     apart (`Determined`). That holds of separated trees (`TreeIsDetermined`). The count
     of sinks, which an incremental scan has of the affected modules only, enters the
     verdict only where there is neither an agent nor a usage, and then there are no
     sinks (`OneRecord`).
  5. *The chain.* `ApartInv`, inductive together with `IInv`, says that as long as all
     trees scanned since the last full scan were separated the cache holds the facts of
     the base tree and the record is that of a full scan of it (`ScansStayApart`).

  Assumed is that modules, the constructs of a text and the configured servers are
  finite lists or sets, that sorting puts each module in one place (`OrderAssumption`),
  that no module is called like the configuration, and that a reference in a construct
  goes to its module or to one it imports (`RepositoriesAssumption`): the resolver goes
  from module to module through import bindings only (`Resolver._import_binding`). What
  is reached through a second module's re-export is outside the model, here as in the
  runs; edges lead along each of the imports, so the closure covers such a chain
  (`DepGraph`), but that an extraction over it is local is not proved. The condition of the
  theorem is `Separated` for every tree scanned since the last full scan. It speaks
  of names, routes, spelling, tools, wrappers and HTTP callers, each of which is needed
  (section 2), and of no scan: any change may be made to a separated tree and any
  chain of incremental scans run over it.

Only model-checked:

* liveness (`CacheConverges`, `EverythingAdjudicated`, `EverythingDrafted`): the prover
  has no rule for fairness here;
* the resolver (`TypeOK`, `AnswersCoverExact`, `UncutAnswersAreExact`,
  `AnswersCoverRuns`): its evaluation is a mutual recursion written with recursive
  operators, which the provers cannot reason about. A recursive function would need a
  domain, that of all queries with their memos, scopes and budgets, which TLC would
  have to test at every call. That cut answers cover the exact one also depends on
  which budgets cut what, and holds for the programs and bounds of the run; section 4
  lists others for which it does not.

## 6. Not modelled, and the plan

Modelled first is what decides whether any answer can be trusted: the cache, then
what chooses the modules to re-analyse, the database, the registry, the tiers
that ask a model, the resolver everything else asks, and the way from modules to the
record. Next, in this order:

1. Bespoke agent shapes (`frontends/bespoke/agent_shape.py`) beside the framework
   frontend: promotion by score, identities shared with frameworks, the call closure.
   Only their queries to the resolver are modelled so far (`AskRebound`).
2. Sinks (`sinks/engine.py`): the request shapes and the score, as thresholds over
   evidence; an incremental scan against a full one.
3. The rest of derivation: findings and their severities, provider classes, the
   system block.
4. Dataset projection and rebuild (`dataset/`): the live database equals a rebuild
   from the records. The rebuild inserts without replacing, so a record stored twice
   ends it (`dataset/store.py:345`).
5. Two scans of one bundle at once (artifacts, manifest).
6. Proofs: the resolver, once its evaluation is written as a recursive function over a
   bounded depth (types, and that an uncut answer is exact); the ledger as an
   implementation of an append-only log; exactness of the closure after the widening.

Out of scope: formatting of reports, syntax-directed lowering in the parsers, text
patterns of the triage, cloning, the HTTP request of `llm.py`, secrets redaction.
Within `ModelTiers`: an edit of the tree while a tier runs (the slice is read once
for the hash and once for the call), MCP servers, test locations, the cut at 200
nodes, a missing API key (no call is made and the record says so).
Within the resolver: `module_scope`, which nothing calls; the cut at five callers of
`AskRebound`; the queries for callers and under their bindings have time enough.
Within the framework frontend: prompts and skills (bound like models), decorated
methods, servers of generic agents as side facts only, the manifests of
`declared.py`; the default model of a framework is `AskDefault`.
