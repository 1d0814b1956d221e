----------------------------- MODULE ModelTiers ------------------------------
(***************************************************************************)
(* The two tiers of a scan that ask a model (aiscan/core.py, cli.py):      *)
(* adjudication adds agents to what was detected, enrichment describes the *)
(* agents and tools of the record.  Their caches lie in the directory of   *)
(* the scanned commit.  A second process may enrich a record in place.     *)
(*                                                                         *)
(* Every scan here runs with --adjudicate and --enrich, and no place lies  *)
(* in tests, which are not enriched unless asked for.  The order of the    *)
(* writes of a scan's artifacts is the subject of ScanCache; here they are *)
(* one step.                                                               *)
(***************************************************************************)
EXTENDS Adjudicator, Enrichment, Sequences

CONSTANTS
    Trees,         \* what the working tree may contain
    ToolOf,        \* the tool a text defines, or None
    System,        \* the key of the node that stands for the whole record
    MaxCommits, MaxEdits,
    MaxMishaps,    \* bound on the calls that raise, the malformed replies and the
                   \* processes that die, together; a second attempt raises for free
    MaxInPlace     \* bound on the enrichments in place

AllNodes ==
    [kind : {"system", "agent", "tool"}, key : Names \cup {System},
     place : Places \cup {None}, uses : (SUBSET Names) \X (SUBSET Names)]

ASSUME TreesAssumption == Trees \subseteq [Places -> Texts \cup {Clear}]
ASSUME ToolsAssumption == ToolOf \in [Texts -> Names \cup {None}]

\* Two tools of a record have different keys: a name used twice is spelled out in full.
ASSUME KeysAssumption ==
    \A tree \in Trees : \A p, q \in Places :
        /\ Clear \notin {tree[p], tree[q]}
        /\ ToolOf[tree[p]] = ToolOf[tree[q]] /\ ToolOf[tree[p]] # None
        => p = q

ASSUME NamesAssumption == Names \subseteq Nat /\ System \in Nat
ASSUME NodesAssumption ==
    Nodes = AllNodes /\ Contents = AllNodes \X (Texts \cup {Clear, None})
ASSUME ProcessesAssumption == Processes = {"scan", "in_place"}
ASSUME BoundsAssumption ==
    {MaxEdits, MaxMishaps, MaxInPlace} \subseteq Nat /\ MaxCommits \in Nat \ {0}

VARIABLES
    commits,    \* the trees of the commits so far
    work,       \* the working tree
    manifest,   \* the number of the commit that was scanned last, or 0
    dirs,       \* dirs[c]: the directory of commit c
    scan,       \* the scan in progress
    in_place,   \* the enrichment in place in progress
    edits, mishaps, started

vars == <<commits, work, manifest, dirs, scan, in_place, edits, mishaps, started, adj, enr>>

Idle == [pc |-> "idle"]

Tip == Len(commits)

EmptyDir ==
    [adj |-> {}, enr |-> {}, facts |-> {}, left |-> {}, nodes |-> {}, drafts |-> {}]

\* The node of an agent is the union of the facts with its name.
AgentNode(facts, name) ==
    [kind |-> "agent", key |-> name, uses |-> <<{}, {}>>,
     place |-> CHOOSE p \in {f.place : f \in {f \in facts : f.name = name}} :
                   \A f \in facts : f.name = name => p <= f.place]

ToolsIn(tree) == {p \in Places : tree[p] # Clear /\ ToolOf[tree[p]] # None}

ToolNode(tree, p) == [kind |-> "tool", key |-> ToolOf[tree[p]], uses |-> <<{}, {}>>, place |-> p]

SystemNode(agents, tools) ==
    [kind |-> "system", key |-> System,
     uses |-> <<{a.key : a \in agents}, {t.key : t \in tools}>>,
     place |-> IF agents = {} THEN None
               ELSE (CHOOSE a \in agents : \A b \in agents : a.key <= b.key).place]

NodesOf(tree, facts) ==
    LET agents == {AgentNode(facts, f.name) : f \in facts}
        tools == {ToolNode(tree, p) : p \in ToolsIn(tree)}
    IN  {SystemNode(agents, tools)} \cup agents \cup tools

\* A node and the text at its place, which is read from disk.
Plan(nodes, tree) ==
    {<<n, IF n.place = None THEN None ELSE tree[n.place]>> : n \in nodes}

-----------------------------------------------------------------------------
Init ==
    /\ commits \in {<<tree>> : tree \in Trees}
    /\ work = commits[1]
    /\ manifest = 0
    /\ dirs = [c \in 1..MaxCommits |-> EmptyDir]
    /\ scan = Idle
    /\ in_place = Idle
    /\ edits = 0 /\ mishaps = 0 /\ started = 0
    /\ adj = NoAdjudication
    /\ enr = [q \in Processes |-> None]

Edit(tree) ==
    /\ scan = Idle /\ in_place = Idle
    /\ edits < MaxEdits
    /\ work # tree
    /\ work' = tree
    /\ edits' = edits + 1
    /\ UNCHANGED <<commits, manifest, dirs, scan, in_place, mishaps, started, adj, enr>>

Commit ==
    /\ scan = Idle /\ in_place = Idle
    /\ Tip < MaxCommits
    /\ work # commits[Tip]
    /\ commits' = Append(commits, work)
    /\ UNCHANGED <<work, manifest, dirs, scan, in_place, edits, mishaps, started, adj, enr>>

\* Everything is carried.
AllPlaces(base) == Places

\* The places whose module and file did not change.
Unaffected(base) == {p \in Places : commits[base][p] = work[p]}

\* A full scan, asked for or not, or an incremental one after the last commit
\* scanned.  The caches are those of the commit at HEAD.
StartScan(mode) ==
    /\ scan = Idle
    /\ mode = "incremental" => work = commits[Tip] /\ manifest \notin {0, Tip}
    /\ LET kept == IF mode = "full" THEN {} ELSE Unaffected(manifest)
           prior == IF mode = "full" THEN EmptyDir ELSE dirs[manifest]
       IN  scan' = [pc |-> "adjudicate", mode |-> mode, base |-> manifest, nodes |-> {},
                    facts |-> {f \in prior.facts : f.place \in kept},
                    left |-> prior.left \cap kept]
    /\ adj' = Begun(work, dirs[Tip].adj)
    /\ UNCHANGED <<commits, work, manifest, dirs, in_place, edits, mishaps, started, enr>>

Adjudicate(p) ==
    /\ scan.pc = "adjudicate"
    /\ \/ /\ \/ OverBudget(p)
             \/ CacheHit(work, p)
             \/ \E reply \in {v \in Verdicts : v.of = <<p, work[p]>>} :
                    CallAnswered(work, p, reply)
          /\ UNCHANGED mishaps
       \/ /\ CallAnswered(work, p, Malformed) \/ CallFailed(work, p)
          /\ mishaps < MaxMishaps
          /\ mishaps' = mishaps + 1
    /\ UNCHANGED <<commits, work, manifest, dirs, scan, in_place, edits, started, enr>>

EndAdjudication ==
    /\ scan.pc = "adjudicate"
    /\ adj.todo = {}
    /\ dirs' = [dirs EXCEPT ![Tip].adj = Saved(@)]
    /\ scan' = [scan EXCEPT !.pc = "record",
                            !.facts = @ \cup adj.facts, !.left = @ \cup adj.left]
    /\ adj' = NoAdjudication
    /\ UNCHANGED <<commits, work, manifest, in_place, edits, mishaps, started, enr>>

\* The record is built and its enrichment planned.
BuildRecord ==
    /\ scan.pc = "record"
    /\ LET nodes == NodesOf(work, scan.facts)
       IN  /\ scan' = [scan EXCEPT !.pc = "enrich", !.nodes = nodes]
           /\ enr' = [enr EXCEPT !["scan"] = Planned(Plan(nodes, work), dirs[Tip].enr)]
    /\ UNCHANGED <<commits, work, manifest, dirs, in_place, edits, mishaps, started, adj>>

\* A record on disk is read and its enrichment planned; the slices are those of the
\* tree that is there now.
StartInPlace(c) ==
    /\ in_place = Idle
    /\ started < MaxInPlace /\ started' = started + 1
    /\ dirs[c].nodes # {}
    /\ in_place' = [pc |-> "enrich", dir |-> c, nodes |-> dirs[c].nodes, drafts |-> dirs[c].drafts]
    /\ enr' = [enr EXCEPT !["in_place"] = Planned(Plan(dirs[c].nodes, work), dirs[c].enr)]
    /\ UNCHANGED <<commits, work, manifest, dirs, scan, edits, mishaps, adj>>

EnrichCall(q) ==
    /\ enr[q] # None
    /\ \E c \in enr[q].plan :
          \/ /\ CallStarts(q, c) \/ CallReturns(q, c, [of |-> c])
             /\ UNCHANGED mishaps
          \/ /\ CallReturns(q, c, Malformed) \/ CallRaises(q, c)
             /\ mishaps < MaxMishaps
             /\ mishaps' = mishaps + 1
          \/ /\ CallRaises(q, c)
             /\ enr[q].calls[c].state = "second"
             /\ UNCHANGED mishaps
    /\ UNCHANGED <<commits, work, manifest, dirs, scan, in_place, edits, started, adj>>

\* The replies are gathered, the cache is written, the drafts are applied.
EndEnrichment ==
    /\ scan.pc = "enrich"
    /\ Pooled(enr["scan"])
    /\ dirs' = [dirs EXCEPT ![Tip].enr = Gathered(enr["scan"])]
    /\ scan' = [scan EXCEPT !.pc = "write"]
    /\ UNCHANGED <<commits, work, manifest, in_place, edits, mishaps, started, adj, enr>>

\* The artifacts and, if the tree was clean, the manifest.
WriteScan ==
    /\ scan.pc = "write"
    /\ dirs' = [dirs EXCEPT ![Tip].facts = scan.facts, ![Tip].left = scan.left,
                            ![Tip].nodes = scan.nodes,
                            ![Tip].drafts = Applied(enr["scan"], scan.nodes, {})]
    /\ manifest' = IF work = commits[Tip] THEN Tip ELSE manifest
    /\ scan' = Idle
    /\ enr' = [enr EXCEPT !["scan"] = None]
    /\ UNCHANGED <<commits, work, in_place, edits, mishaps, started, adj>>

EndInPlace ==
    /\ in_place.pc = "enrich"
    /\ Pooled(enr["in_place"])
    /\ dirs' = [dirs EXCEPT ![in_place.dir].enr = Gathered(enr["in_place"])]
    /\ in_place' = [in_place EXCEPT !.pc = "write"]
    /\ UNCHANGED <<commits, work, manifest, scan, edits, mishaps, started, adj, enr>>

WriteInPlace ==
    /\ in_place.pc = "write"
    /\ LET drafts == Applied(enr["in_place"], in_place.nodes, in_place.drafts)
       IN  dirs' = [dirs EXCEPT ![in_place.dir].nodes = in_place.nodes,
                                ![in_place.dir].drafts = drafts]
    /\ in_place' = Idle
    /\ enr' = [enr EXCEPT !["in_place"] = None]
    /\ UNCHANGED <<commits, work, manifest, scan, edits, mishaps, started, adj>>

\* A process dies, perhaps while it writes a cache, which then reads as empty.
CrashScan ==
    /\ scan # Idle
    /\ mishaps < MaxMishaps
    /\ \/ UNCHANGED dirs
       \/ /\ scan.pc = "adjudicate" /\ adj.todo = {} /\ adj.calls > 0
          /\ dirs' = [dirs EXCEPT ![Tip].adj = {}]
       \/ /\ scan.pc = "enrich" /\ Pooled(enr["scan"])
          /\ dirs' = [dirs EXCEPT ![Tip].enr = {}]
    /\ scan' = Idle
    /\ adj' = NoAdjudication
    /\ enr' = [enr EXCEPT !["scan"] = None]
    /\ mishaps' = mishaps + 1
    /\ UNCHANGED <<commits, work, manifest, in_place, edits, started>>

CrashInPlace ==
    /\ in_place # Idle
    /\ mishaps < MaxMishaps
    /\ \/ UNCHANGED dirs
       \/ /\ in_place.pc = "enrich" /\ Pooled(enr["in_place"])
          /\ dirs' = [dirs EXCEPT ![in_place.dir].enr = {}]
    /\ in_place' = Idle
    /\ enr' = [enr EXCEPT !["in_place"] = None]
    /\ mishaps' = mishaps + 1
    /\ UNCHANGED <<commits, work, manifest, scan, edits, started, adj>>

ScanStep ==
    \/ \E p \in Places : Adjudicate(p)
    \/ EndAdjudication
    \/ BuildRecord
    \/ EnrichCall("scan")
    \/ EndEnrichment
    \/ WriteScan

Next ==
    \/ \E tree \in Trees : Edit(tree)
    \/ Commit
    \/ \E mode \in {"full", "incremental"} : StartScan(mode)
    \/ ScanStep
    \/ \E c \in 1..MaxCommits : StartInPlace(c)
    \/ EnrichCall("in_place")
    \/ EndInPlace
    \/ WriteInPlace
    \/ CrashScan
    \/ CrashInPlace

Spec == Init /\ [][Next]_vars

\* A scan that is not killed goes on, and full scans are asked for again and again.
FairSpec == Spec /\ WF_vars(ScanStep) /\ WF_vars(StartScan("full"))
-----------------------------------------------------------------------------
(* Properties *)

TypeOK ==
    /\ commits \in Seq(Trees) /\ Tip \in 1..MaxCommits
    /\ work \in Trees
    /\ manifest \in 0..Tip
    /\ \A c \in 1..MaxCommits :
          /\ dirs[c].adj \subseteq Answers /\ dirs[c].enr \subseteq Replies
          /\ dirs[c].facts \subseteq AgentFacts /\ dirs[c].left \subseteq Places
          /\ dirs[c].nodes \subseteq Nodes
    /\ scan.pc \in {"idle", "adjudicate", "record", "enrich", "write"}
    /\ in_place.pc \in {"idle", "enrich", "write"}
    /\ adj.todo \subseteq Places
    /\ scan.pc = "adjudicate" => adj.calls \in 0..Budget
    /\ {edits, mishaps, started} \subseteq Nat

\* No cache, on disk or in memory, ever attributes a reply to a question it was not
\* given to, whatever the order in which workers, retries and processes end, also
\* when two nodes share a key and when another tree was scanned into the directory.
RepliesFitQuestions ==
    /\ \A c \in 1..MaxCommits : RepliesFit(dirs[c].adj) /\ RepliesFit(dirs[c].enr)
    /\ scan.pc = "adjudicate" => RepliesFit(adj.cache)

\* An agent the model named is only reported for the text the model was shown, also
\* if it is carried from an earlier scan (of which the artifacts are still there).
VerdictsOfPresentText ==
    scan.pc \in {"record", "enrich", "write"} =>
        \/ \A f \in scan.facts : f.of = <<f.place, work[f.place]>>
        \/ /\ scan.mode = "incremental"
           /\ \E f \in dirs[scan.base].facts : f.of # <<f.place, commits[scan.base][f.place]>>

\* A node is described by what the model said of that node and the text at its
\* place, if no two nodes of the record have the same key.
DraftsOfTheirNodes ==
    \A q \in Processes :
        /\ enr[q] # None
        /\ Pooled(enr[q])
        /\ \A c \in enr[q].plan, d \in enr[q].plan : c[1].key = d[1].key => c = d
        => \A c \in enr[q].plan : \A d \in DraftFor(enr[q], c[1]) : d.of = c

\* What was paid for is kept: a step takes no reply out of a cache file, unless its
\* process dies, or the other process has written the file since this one read it.
PaidRepliesAreKept ==
    [][\A c \in 1..MaxCommits :
          \/ dirs[c].adj \subseteq dirs'[c].adj /\ dirs[c].enr \subseteq dirs'[c].enr
          \/ scan.pc \in {"adjudicate", "enrich"} /\ scan' = Idle
          \/ in_place.pc = "enrich" /\ in_place' = Idle
          \/ /\ scan.pc = "enrich" /\ scan'.pc = "write"
             /\ c = Tip /\ enr["scan"].cache # dirs[c].enr
          \/ /\ in_place.pc = "enrich" /\ in_place'.pc = "write"
             /\ c = in_place.dir /\ enr["in_place"].cache # dirs[c].enr]_vars

\* Findings over the budget are retried: if the code is left alone and scanned in
\* full again and again, none is left in the end.
EverythingAdjudicated == <>[](dirs[Tip].nodes # {} /\ dirs[Tip].left = {})

\* In the same circumstances every node is described, unless the reply for its key
\* is malformed.
EverythingDrafted ==
    <>[](\A n \in dirs[Tip].nodes :
            \/ \E d \in dirs[Tip].drafts : d.node = n
            \/ LET plan == Plan(dirs[Tip].nodes, work)
                   c == CHOOSE c \in plan : c[1] = n
               IN  Kept(HashOf(plan, c), Malformed) \in dirs[Tip].enr)

=============================================================================
