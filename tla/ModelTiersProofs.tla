-------------------------- MODULE ModelTiersProofs ---------------------------
(***************************************************************************)
(* What holds of the two tiers for any places, texts, replies, budgets and *)
(* numbers of workers.                                                     *)
(***************************************************************************)
EXTENDS ModelTiers, Foundations, TLAPS

Kinds == {"system", "agent", "tool"}

OfKinds(nodes) == \A n \in nodes : n.kind \in Kinds

\* A pool has put every reply at the question it was given to.
Consistent(e) ==
    /\ DOMAIN e = {"plan", "cache", "calls"}
    /\ \A c \in e.plan : c[1].kind \in Kinds
    /\ RepliesFit(e.cache)
    /\ DOMAIN e.calls = e.plan
    /\ \A c \in e.plan :
          /\ DOMAIN e.calls[c] = {"state", "reply"}
          /\ e.calls[c].state = "answered" /\ e.calls[c].reply # Malformed
                => e.calls[c].reply.of = c

Shape ==
    /\ Tip \in 1..MaxCommits
    /\ DOMAIN dirs = 1..MaxCommits
    /\ \A c \in 1..MaxCommits :
          DOMAIN dirs[c] = {"adj", "enr", "facts", "left", "nodes", "drafts"}
    /\ DOMAIN enr = Processes
    /\ scan = Idle \/ DOMAIN scan = {"pc", "mode", "base", "nodes", "facts", "left"}
    /\ scan.pc = "idle" => scan = Idle
    /\ in_place = Idle \/ DOMAIN in_place = {"pc", "dir", "nodes", "drafts"}
    /\ in_place.pc = "idle" => in_place = Idle
    /\ scan.pc = "adjudicate" => DOMAIN adj = {"todo", "calls", "cache", "facts", "left"}

NodesInv ==
    /\ \A c \in 1..MaxCommits : OfKinds(dirs[c].nodes)
    /\ scan.pc \in {"enrich", "write"} => OfKinds(scan.nodes)
    /\ in_place.pc \in {"enrich", "write"} => OfKinds(in_place.nodes)

PoolsInv ==
    /\ enr["scan"] # None => scan.pc \in {"enrich", "write"}
    /\ enr["in_place"] # None => in_place.pc \in {"enrich", "write"}
    /\ scan.pc \in {"enrich", "write"} => Consistent(enr["scan"])
    /\ in_place.pc \in {"enrich", "write"} => Consistent(enr["in_place"])

\* The inductive invariant of the caches.
CachesInv == Shape /\ NodesInv /\ PoolsInv /\ RepliesFitQuestions

-----------------------------------------------------------------------------
(* The operators of the two tiers. *)

LEMMA RanksAreSmall == \A n : n.kind \in Kinds => Rank(n) \in 0..5
PROOF
<1>1. /\ KindRank("system") = 0 /\ KindRank("agent") = 1 /\ KindRank("tool") = 2
  BY DEF KindRank
<1>2. QED BY <1>1 DEF Rank, Kinds

LEMMA SomeIsLast ==
    ASSUME NEW plan, \A d \in plan : d[1].kind \in Kinds, NEW c \in plan
    PROVE  \E d \in plan :
              /\ d[1].key = c[1].key
              /\ \A x \in plan : x[1].key = c[1].key => Rank(x[1]) <= Rank(d[1])
PROOF
<1> DEFINE AtLeast(n) == \E d \in plan : d[1].key = c[1].key /\ Rank(d[1]) >= n
<1>1. \A d \in plan : Rank(d[1]) \in 0..5 BY RanksAreSmall
<1>2. AtLeast(0) /\ ~AtLeast(6) BY <1>1
<1>3. PICK n \in 0..5 : AtLeast(n) /\ ~AtLeast(n + 1)
  <2>1. 0 + 1 = 1 /\ 1 + 1 = 2 /\ 2 + 1 = 3 /\ 3 + 1 = 4 /\ 4 + 1 = 5 /\ 5 + 1 = 6
    OBVIOUS
  <2> HIDE DEF AtLeast
  <2>2. QED BY <1>2, <2>1
<1>4. QED BY <1>1, <1>3

LEMMA LastIsOfThePlan ==
    ASSUME NEW plan, \A d \in plan : d[1].kind \in Kinds, NEW c \in plan
    PROVE  /\ LastWith(plan, c[1].key) \in plan
           /\ LastWith(plan, c[1].key)[1].key = c[1].key
PROOF
<1>1. \E d \in plan :
         /\ d[1].key = c[1].key
         /\ \A x \in plan : x[1].key = c[1].key => Rank(x[1]) <= Rank(d[1])
  BY SomeIsLast
<1>2. QED BY <1>1 DEF LastWith

\* What a pool writes fits, also when two nodes have one key.
LEMMA GatheredFits ==
    ASSUME NEW e, Consistent(e) PROVE RepliesFit(Gathered(e))
PROOF
<1> USE DEF Consistent
<1>1. ASSUME NEW c \in e.plan, NEW raw \in Raw(e, c), raw # Malformed
      PROVE  raw.of = HashOf(e.plan, c)
  <2>1. LastWith(e.plan, c[1].key) \in e.plan BY LastIsOfThePlan
  <2>2. QED BY <1>1, <2>1 DEF Raw, HashOf, Hits, RepliesFit
<1>2. ASSUME NEW x \in Gathered(e), x.reply # Malformed PROVE x.reply.of = x.key
  <2>1. CASE x \in e.cache BY <1>2, <2>1 DEF RepliesFit
  <2>2. CASE \E c \in e.plan : \E raw \in Raw(e, c) : x = Kept(HashOf(e.plan, c), raw)
    BY <1>1, <1>2, <2>2 DEF Kept
  <2>3. QED BY <2>1, <2>2 DEF Gathered
<1>3. QED BY <1>2 DEF RepliesFit

LEMMA PlannedIsConsistent ==
    ASSUME NEW nodes, OfKinds(nodes), NEW tree, NEW file, RepliesFit(file)
    PROVE  Consistent(Planned(Plan(nodes, tree), file))
BY DEF Consistent, Planned, Plan, OfKinds

LEMMA NodesAreOfKinds ==
    ASSUME NEW tree, NEW facts PROVE OfKinds(NodesOf(tree, facts))
BY DEF OfKinds, NodesOf, SystemNode, AgentNode, ToolNode, Kinds

\* A call changes the pool of one process and leaves it consistent.
LEMMA CallKeepsConsistent ==
    ASSUME NEW q \in Processes, DOMAIN enr = Processes, Consistent(enr[q]), EnrichCall(q)
    PROVE  Consistent(enr'[q])
PROOF
<1>1. PICK c \in enr[q].plan :
          \/ CallStarts(q, c) \/ CallReturns(q, c, [of |-> c])
          \/ CallReturns(q, c, Malformed) \/ CallRaises(q, c)
  BY DEF EnrichCall
<1>2. CASE CallStarts(q, c)
  BY <1>1, <1>2 DEF CallStarts, Consistent
<1>3. CASE CallReturns(q, c, [of |-> c])
  BY <1>1, <1>3 DEF CallReturns, Consistent
<1>4. CASE CallReturns(q, c, Malformed)
  BY <1>1, <1>4 DEF CallReturns, Consistent
<1>5. CASE CallRaises(q, c)
  BY <1>1, <1>5 DEF CallRaises, InFlight, Consistent
<1>6. QED BY <1>1, <1>2, <1>3, <1>4, <1>5

LEMMA CallsTouchOnePool ==
    ASSUME NEW q \in Processes, DOMAIN enr = Processes, EnrichCall(q)
    PROVE  /\ DOMAIN enr' = Processes
           /\ \A r \in Processes \ {q} : enr'[r] = enr[r]
           /\ UNCHANGED <<commits, work, manifest, dirs, scan, in_place, adj>>
BY DEF EnrichCall, CallStarts, CallReturns, CallRaises

-----------------------------------------------------------------------------
(* The adjudicator. *)

\* Whatever becomes of a finding, the cache of the scan still fits.
LEMMA AdjudicateKeepsFit ==
    ASSUME Shape, scan.pc = "adjudicate", RepliesFit(adj.cache),
           NEW p \in Places, Adjudicate(p)
    PROVE  /\ RepliesFit(adj'.cache)
           /\ DOMAIN adj' = DOMAIN adj
           /\ UNCHANGED <<commits, work, manifest, dirs, scan, in_place, enr>>
PROOF
<1> DEFINE s == SliceAt(work, p)
<1>1. UNCHANGED <<commits, work, manifest, dirs, scan, in_place, enr>>
  BY DEF Adjudicate
<1>2. ASSUME NEW reply, reply # Malformed => reply.of = s, CallAnswered(work, p, reply)
      PROVE  RepliesFit(adj'.cache) /\ DOMAIN adj' = DOMAIN adj
  <2>1. DOMAIN adj' = DOMAIN adj BY <1>2 DEF CallAnswered
  <2>2. adj'.cache = adj.cache \cup {Kept(s, reply)} BY <1>2 DEF CallAnswered, Shape
  <2>3. QED BY <1>2, <2>1, <2>2 DEF RepliesFit, Kept
<1>3. CASE \E reply \in {v \in Verdicts : v.of = <<p, work[p]>>} : CallAnswered(work, p, reply)
  BY <1>1, <1>2, <1>3 DEF SliceAt
<1>4. CASE CallAnswered(work, p, Malformed)
  BY <1>1, <1>2, <1>4
<1>5. CASE OverBudget(p)
  BY <1>1, <1>5 DEF OverBudget, Shape
<1>6. CASE CacheHit(work, p)
  BY <1>1, <1>6 DEF CacheHit, Shape
<1>7. CASE CallFailed(work, p)
  BY <1>1, <1>7 DEF CallFailed, Shape
<1>8. QED BY <1>3, <1>4, <1>5, <1>6, <1>7 DEF Adjudicate

-----------------------------------------------------------------------------
(* The caches. *)

LEMMA CachesInit == Init => CachesInv
PROOF
<1> SUFFICES ASSUME Init PROVE CachesInv
  OBVIOUS
<1>1. PICK tree \in Trees : commits = <<tree>>
  BY DEF Init
<1>2. Tip = 1 BY <1>1 DEF Tip
<1> QED
  BY <1>2, BoundsAssumption, ProcessesAssumption DEF Init, CachesInv, Shape, NodesInv, PoolsInv, RepliesFitQuestions, EmptyDir, Idle,
        OfKinds, RepliesFit

\* Calls and findings.
LEMMA CachesStepInside ==
    ASSUME CachesInv,
           \/ \E p \in Places : Adjudicate(p)
           \/ EnrichCall("scan")
           \/ EnrichCall("in_place")
    PROVE  CachesInv'
PROOF
<1> USE ProcessesAssumption
<1>1. CASE \E p \in Places : Adjudicate(p)
  <2>1. PICK p \in Places : Adjudicate(p) BY <1>1
  <2>2. scan.pc = "adjudicate" BY <2>1 DEF Adjudicate
  <2>3. RepliesFit(adj.cache) BY <2>2 DEF CachesInv, RepliesFitQuestions
  <2>4. /\ RepliesFit(adj'.cache) /\ DOMAIN adj' = DOMAIN adj
        /\ UNCHANGED <<commits, work, manifest, dirs, scan, in_place, enr>>
    BY <2>1, <2>2, <2>3, AdjudicateKeepsFit DEF CachesInv
  <2>5. Shape' BY <2>4 DEF CachesInv, Shape, Tip
  <2>6. QED
    BY <2>4, <2>5 DEF CachesInv, NodesInv, PoolsInv, RepliesFitQuestions
<1>2. ASSUME NEW q \in Processes, EnrichCall(q)
      PROVE  CachesInv'
  <2>1. Consistent(enr[q]) BY <1>2 DEF CachesInv, PoolsInv, EnrichCall
  <2>2. Consistent(enr'[q]) BY <1>2, <2>1, CallKeepsConsistent DEF CachesInv, Shape
  <2>3. /\ DOMAIN enr' = Processes /\ \A r \in Processes \ {q} : enr'[r] = enr[r]
        /\ UNCHANGED <<commits, work, manifest, dirs, scan, in_place, adj>>
    BY <1>2, CallsTouchOnePool DEF CachesInv, Shape
  <2>4. Shape' BY <2>3 DEF CachesInv, Shape, Tip
  <2>5. PoolsInv' BY <1>2, <2>2, <2>3 DEF CachesInv, PoolsInv, EnrichCall
  <2>6. NodesInv' /\ RepliesFitQuestions' BY <2>3 DEF CachesInv, NodesInv, RepliesFitQuestions
  <2>7. QED BY <2>4, <2>5, <2>6 DEF CachesInv
<1>3. QED BY <1>1, <1>2

\* Edits, commits and the beginnings and ends of scans.
LEMMA CachesStepScan ==
    ASSUME CachesInv,
           \/ \E tree \in Trees : Edit(tree)
           \/ Commit
           \/ \E mode \in {"full", "incremental"} : StartScan(mode)
           \/ EndAdjudication \/ BuildRecord \/ EndEnrichment \/ WriteScan
           \/ CrashScan
    PROVE  CachesInv'
PROOF
<1> USE ProcessesAssumption DEF CachesInv
<1>1. CASE \E tree \in Trees : Edit(tree)
  BY <1>1 DEF Edit, Shape, Tip, NodesInv, PoolsInv, RepliesFitQuestions
<1>2. CASE Commit
  <2>1. Tip' = Tip + 1 /\ Tip' <= MaxCommits
    BY <1>2, BoundsAssumption DEF Commit, Tip, Shape
  <2>2. QED
    BY <1>2, <2>1, BoundsAssumption DEF Commit, Shape, NodesInv, PoolsInv, RepliesFitQuestions
<1>3. CASE \E mode \in {"full", "incremental"} : StartScan(mode)
  <2>1. /\ scan = Idle /\ scan'.pc = "adjudicate"
        /\ DOMAIN scan' = {"pc", "mode", "base", "nodes", "facts", "left"}
        /\ adj' = Begun(work, dirs[Tip].adj)
        /\ UNCHANGED <<commits, work, dirs, in_place, enr>>
    BY <1>3 DEF StartScan
  <2>2. RepliesFit(adj'.cache) BY <2>1 DEF Begun, RepliesFitQuestions, Shape
  <2>3. QED
    BY <2>1, <2>2 DEF Begun, Idle, Shape, Tip, NodesInv, PoolsInv, RepliesFitQuestions
<1>4. CASE EndAdjudication
  <2>1. RepliesFit(Saved(dirs[Tip].adj)) BY <1>4 DEF EndAdjudication, Saved, RepliesFitQuestions, Shape
  <2>2. \A c \in 1..MaxCommits :
           /\ DOMAIN dirs'[c] = DOMAIN dirs[c]
           /\ dirs'[c].nodes = dirs[c].nodes /\ dirs'[c].enr = dirs[c].enr
           /\ RepliesFit(dirs'[c].adj)
    BY <1>4, <2>1 DEF EndAdjudication, Shape, RepliesFitQuestions
  <2>3. /\ scan'.pc = "record" /\ scan.pc = "adjudicate" /\ DOMAIN scan' = DOMAIN scan
        /\ DOMAIN dirs' = DOMAIN dirs /\ UNCHANGED <<commits, in_place, enr>>
    BY <1>4 DEF EndAdjudication, Shape, Idle
  <2>4. QED
    BY <2>2, <2>3 DEF Shape, Tip, NodesInv, PoolsInv, RepliesFitQuestions, Idle
<1>5. CASE BuildRecord
  <2>1. /\ scan.pc = "record" /\ scan'.pc = "enrich" /\ DOMAIN scan' = DOMAIN scan
        /\ scan'.nodes = NodesOf(work, scan.facts)
        /\ DOMAIN enr' = Processes /\ enr'["in_place"] = enr["in_place"]
        /\ enr'["scan"] = Planned(Plan(scan'.nodes, work), dirs[Tip].enr)
        /\ UNCHANGED <<commits, dirs, in_place>>
    BY <1>5 DEF BuildRecord, Shape, Idle
  <2>2. OfKinds(scan'.nodes) BY <2>1, NodesAreOfKinds
  <2>3. Consistent(enr'["scan"])
    BY <2>1, <2>2, PlannedIsConsistent DEF RepliesFitQuestions, Shape
  <2>4. QED
    BY <2>1, <2>2, <2>3 DEF Shape, Tip, NodesInv, PoolsInv, RepliesFitQuestions, Idle
<1>6. CASE EndEnrichment
  <2>1. RepliesFit(Gathered(enr["scan"])) BY <1>6, GatheredFits DEF EndEnrichment, PoolsInv
  <2>2. \A c \in 1..MaxCommits :
           /\ DOMAIN dirs'[c] = DOMAIN dirs[c]
           /\ dirs'[c].nodes = dirs[c].nodes /\ dirs'[c].adj = dirs[c].adj
           /\ RepliesFit(dirs'[c].enr)
    BY <1>6, <2>1 DEF EndEnrichment, Shape, RepliesFitQuestions
  <2>3. /\ scan'.pc = "write" /\ scan.pc = "enrich" /\ DOMAIN scan' = DOMAIN scan
        /\ scan'.nodes = scan.nodes
        /\ DOMAIN dirs' = DOMAIN dirs /\ UNCHANGED <<commits, in_place, enr>>
    BY <1>6 DEF EndEnrichment, Shape, Idle
  <2>4. QED
    BY <2>2, <2>3 DEF Shape, Tip, NodesInv, PoolsInv, RepliesFitQuestions, Idle
<1>7. CASE WriteScan
  <2>1. \A c \in 1..MaxCommits :
           /\ DOMAIN dirs'[c] = DOMAIN dirs[c]
           /\ dirs'[c].enr = dirs[c].enr /\ dirs'[c].adj = dirs[c].adj
           /\ OfKinds(dirs'[c].nodes)
    BY <1>7 DEF WriteScan, Shape, NodesInv
  <2>2. /\ scan' = Idle /\ DOMAIN dirs' = DOMAIN dirs /\ UNCHANGED <<commits, in_place>>
        /\ DOMAIN enr' = Processes /\ enr'["in_place"] = enr["in_place"] /\ enr'["scan"] = None
    BY <1>7 DEF WriteScan, Shape
  <2>3. QED
    BY <2>1, <2>2 DEF Shape, Tip, NodesInv, PoolsInv, RepliesFitQuestions, Idle
<1>8. CASE CrashScan
  <2>1. \A c \in 1..MaxCommits :
           /\ DOMAIN dirs'[c] = DOMAIN dirs[c]
           /\ dirs'[c].nodes = dirs[c].nodes
           /\ RepliesFit(dirs'[c].adj) /\ RepliesFit(dirs'[c].enr)
    <3>1. dirs' = dirs \/ dirs' = [dirs EXCEPT ![Tip].adj = {}] \/ dirs' = [dirs EXCEPT ![Tip].enr = {}] BY <1>8 DEF CrashScan
    <3>2. CASE dirs' = dirs BY <3>2 DEF Shape, RepliesFitQuestions, RepliesFit
    <3>3. CASE dirs' = [dirs EXCEPT ![Tip].adj = {}] BY <3>3 DEF Shape, RepliesFitQuestions, RepliesFit
    <3>4. CASE dirs' = [dirs EXCEPT ![Tip].enr = {}] BY <3>4 DEF Shape, RepliesFitQuestions, RepliesFit
    <3>5. QED BY <3>1, <3>2, <3>3, <3>4
  <2>2. /\ scan' = Idle /\ DOMAIN dirs' = DOMAIN dirs /\ UNCHANGED <<commits, in_place>>
        /\ DOMAIN enr' = Processes /\ enr'["in_place"] = enr["in_place"] /\ enr'["scan"] = None
    BY <1>8 DEF CrashScan, Shape
  <2>3. QED
    BY <2>1, <2>2 DEF Shape, Tip, NodesInv, PoolsInv, RepliesFitQuestions, Idle
<1>9. QED BY <1>1, <1>2, <1>3, <1>4, <1>5, <1>6, <1>7, <1>8

\* The other process.
LEMMA CachesStepInPlace ==
    ASSUME CachesInv,
           \/ \E c \in 1..MaxCommits : StartInPlace(c)
           \/ EndInPlace \/ WriteInPlace \/ CrashInPlace
    PROVE  CachesInv'
PROOF
<1> USE ProcessesAssumption DEF CachesInv
<1>1. CASE \E c \in 1..MaxCommits : StartInPlace(c)
  <2>1. PICK c \in 1..MaxCommits : StartInPlace(c) BY <1>1
  <2>2. /\ in_place = Idle /\ in_place'.pc = "enrich" /\ in_place'.nodes = dirs[c].nodes
        /\ DOMAIN in_place' = {"pc", "dir", "nodes", "drafts"}
        /\ DOMAIN enr' = Processes /\ enr'["scan"] = enr["scan"]
        /\ enr'["in_place"] = Planned(Plan(dirs[c].nodes, work), dirs[c].enr)
        /\ UNCHANGED <<commits, dirs, scan, adj>>
    BY <2>1 DEF StartInPlace, Shape
  <2>3. Consistent(enr'["in_place"])
    BY <2>2, PlannedIsConsistent DEF RepliesFitQuestions, NodesInv
  <2>4. QED
    BY <2>2, <2>3 DEF Shape, Tip, NodesInv, PoolsInv, RepliesFitQuestions, Idle
<1>2. CASE EndInPlace
  <2>1. RepliesFit(Gathered(enr["in_place"])) BY <1>2, GatheredFits DEF EndInPlace, PoolsInv
  <2>2. \A c \in 1..MaxCommits :
           /\ DOMAIN dirs'[c] = DOMAIN dirs[c]
           /\ dirs'[c].nodes = dirs[c].nodes /\ dirs'[c].adj = dirs[c].adj
           /\ RepliesFit(dirs'[c].enr)
    BY <1>2, <2>1 DEF EndInPlace, Shape, RepliesFitQuestions
  <2>3. /\ in_place'.pc = "write" /\ in_place.pc = "enrich" /\ DOMAIN in_place' = DOMAIN in_place
        /\ in_place'.nodes = in_place.nodes
        /\ DOMAIN dirs' = DOMAIN dirs /\ UNCHANGED <<commits, scan, enr, adj>>
    BY <1>2 DEF EndInPlace, Shape, Idle
  <2>4. QED
    BY <2>2, <2>3 DEF Shape, Tip, NodesInv, PoolsInv, RepliesFitQuestions, Idle
<1>3. CASE WriteInPlace
  <2>1. \A c \in 1..MaxCommits :
           /\ DOMAIN dirs'[c] = DOMAIN dirs[c]
           /\ dirs'[c].enr = dirs[c].enr /\ dirs'[c].adj = dirs[c].adj
           /\ OfKinds(dirs'[c].nodes)
    BY <1>3 DEF WriteInPlace, Shape, NodesInv
  <2>2. /\ in_place' = Idle /\ DOMAIN dirs' = DOMAIN dirs /\ UNCHANGED <<commits, scan, adj>>
        /\ DOMAIN enr' = Processes /\ enr'["scan"] = enr["scan"] /\ enr'["in_place"] = None
    BY <1>3 DEF WriteInPlace, Shape
  <2>3. QED
    BY <2>1, <2>2 DEF Shape, Tip, NodesInv, PoolsInv, RepliesFitQuestions, Idle
<1>4. CASE CrashInPlace
  <2>1. \A c \in 1..MaxCommits :
           /\ DOMAIN dirs'[c] = DOMAIN dirs[c]
           /\ dirs'[c].nodes = dirs[c].nodes
           /\ RepliesFit(dirs'[c].adj) /\ RepliesFit(dirs'[c].enr)
    <3>1. dirs' = dirs \/ dirs' = [dirs EXCEPT ![in_place.dir].enr = {}] BY <1>4 DEF CrashInPlace
    <3>2. CASE dirs' = dirs BY <3>2 DEF Shape, RepliesFitQuestions, RepliesFit
    <3>3. CASE dirs' = [dirs EXCEPT ![in_place.dir].enr = {}] BY <3>3 DEF Shape, RepliesFitQuestions, RepliesFit
    <3>4. QED BY <3>1, <3>2, <3>3
  <2>2. /\ in_place' = Idle /\ DOMAIN dirs' = DOMAIN dirs /\ UNCHANGED <<commits, scan, adj>>
        /\ DOMAIN enr' = Processes /\ enr'["scan"] = enr["scan"] /\ enr'["in_place"] = None
    BY <1>4 DEF CrashInPlace, Shape
  <2>3. QED
    BY <2>1, <2>2 DEF Shape, Tip, NodesInv, PoolsInv, RepliesFitQuestions, Idle
<1>5. QED BY <1>1, <1>2, <1>3, <1>4

LEMMA CachesStep == CachesInv /\ [Next]_vars => CachesInv'
PROOF
<1>1. ASSUME CachesInv, UNCHANGED vars PROVE CachesInv'
  BY <1>1 DEF vars, CachesInv, Shape, Tip, NodesInv, PoolsInv, RepliesFitQuestions
<1>2. QED
  BY <1>1, CachesStepInside, CachesStepScan, CachesStepInPlace DEF Next, ScanStep

LEMMA CachesHold == Spec => []CachesInv
BY CachesInit, CachesStep, PTL DEF Spec

\* No cache, on disk or in memory, ever attributes a reply to a question it was not
\* given to (adjudicate/engine.py, enrich/engine.py), for any number of workers,
\* retries, processes that die and nodes that share a key.
THEOREM CachesFit == Spec => []RepliesFitQuestions
BY CachesHold, PTL DEF CachesInv

\* Where no two nodes share a key, the draft a node gets answers its own question.
LEMMA DraftFits ==
    ASSUME NEW e, Consistent(e),
           \A c \in e.plan, d \in e.plan : c[1].key = d[1].key => c = d,
           NEW c \in e.plan, NEW d \in DraftFor(e, c[1])
    PROVE  d.of = c
PROOF
<1> USE DEF Consistent
<1>1. LastWith(e.plan, c[1].key) \in e.plan /\ LastWith(e.plan, c[1].key)[1].key = c[1].key
  BY LastIsOfThePlan
<1>2. LastWith(e.plan, c[1].key) = c BY <1>1
<1>3. PICK raw \in Raw(e, c) \ {Malformed} : d = [node |-> c[1], of |-> raw.of]
  BY DEF DraftFor
<1>4. raw.of = c
  BY <1>2 DEF Raw, HashOf, Hits, RepliesFit
<1>5. QED BY <1>3, <1>4

\* A node of the record is described by what the model said of that node and of the
\* text at its place (enrich/engine.py: the replies are joined to the nodes by key),
\* for any number of workers, retries and processes that die.
THEOREM DraftsAreOfTheirNodes == Spec => []DraftsOfTheirNodes
PROOF
<1>1. CachesInv => DraftsOfTheirNodes
  <2>1. SUFFICES ASSUME CachesInv, NEW q \in Processes, enr[q] # None,
                        \A c \in enr[q].plan, d \in enr[q].plan : c[1].key = d[1].key => c = d,
                        NEW c \in enr[q].plan, NEW d \in DraftFor(enr[q], c[1])
                 PROVE  d.of = c
    BY DEF DraftsOfTheirNodes
  <2>2. Consistent(enr[q]) BY <2>1, ProcessesAssumption DEF CachesInv, PoolsInv
  <2>3. QED BY <2>1, <2>2, DraftFits
<1>2. QED BY <1>1, CachesHold, PTL

\* The other process leaves the scan, its tree and what it reads alone.
InPlaceStep ==
    \/ \E c \in 1..MaxCommits : StartInPlace(c)
    \/ EndInPlace \/ WriteInPlace \/ CrashInPlace

LEMMA InPlaceTouchesDrafts ==
    ASSUME Shape, InPlaceStep
    PROVE  /\ UNCHANGED <<commits, work, manifest, scan, adj>>
           /\ \A c \in 1..MaxCommits :
                 dirs'[c].facts = dirs[c].facts /\ dirs'[c].adj = dirs[c].adj
PROOF
<1> USE DEF Shape
<1>1. CASE \E c \in 1..MaxCommits : StartInPlace(c)
  BY <1>1 DEF StartInPlace
<1>2. CASE EndInPlace
  BY <1>2 DEF EndInPlace
<1>3. CASE WriteInPlace
  <2>1. \E n, d : dirs' = [dirs EXCEPT ![in_place.dir].nodes = n, ![in_place.dir].drafts = d]
    BY <1>3 DEF WriteInPlace
  <2>2. QED BY <1>3, <2>1 DEF WriteInPlace
<1>4. CASE CrashInPlace
  <2>1. dirs' = dirs \/ dirs' = [dirs EXCEPT ![in_place.dir].enr = {}]
    BY <1>4 DEF CrashInPlace
  <2>2. UNCHANGED <<commits, work, manifest, scan, adj>> BY <1>4 DEF CrashInPlace
  <2>3. CASE dirs' = dirs BY <2>2, <2>3
  <2>4. CASE dirs' = [dirs EXCEPT ![in_place.dir].enr = {}] BY <2>2, <2>4
  <2>5. QED BY <2>1, <2>3, <2>4
<1>5. QED BY <1>1, <1>2, <1>3, <1>4 DEF InPlaceStep

-----------------------------------------------------------------------------
(* The verdicts. *)

Shown(f) == f.of = <<f.place, work[f.place]>>

StaleBase ==
    /\ scan.mode = "incremental"
    /\ \E f \in dirs[scan.base].facts : f.of # <<f.place, commits[scan.base][f.place]>>

Scanning == scan.pc \in {"adjudicate", "record", "enrich", "write"}

\* The inductive invariant of the verdicts.
VerdictsInv ==
    /\ manifest \in 0..Tip
    /\ Scanning /\ scan.mode = "incremental" => scan.base \in 1..Tip
    /\ Scanning => (\A f \in scan.facts : Shown(f)) \/ StaleBase
    /\ scan.pc = "adjudicate" => \A f \in adj.facts : Shown(f)

\* What is promoted was shown to the model in this text, whether it answers now or
\* the cache does.
LEMMA PromotedWasShown ==
    ASSUME Shape, scan.pc = "adjudicate", RepliesFit(adj.cache),
           NEW p \in Places, Adjudicate(p), \A f \in adj.facts : Shown(f)
    PROVE  \A f \in adj'.facts : f.of = <<f.place, work[f.place]>>
PROOF
<1> USE DEF Shown
<1>1. ASSUME NEW reply, reply # Malformed => reply.of = SliceAt(work, p), NEW f \in Promoted(p, reply)
      PROVE  f.of = <<f.place, work[f.place]>>
  BY <1>1 DEF Promoted, SliceAt
<1>2. CASE OverBudget(p) \/ CallFailed(work, p)
  BY <1>2 DEF OverBudget, CallFailed, Shape
<1>3. CASE CacheHit(work, p)
  <2>1. PICK a \in Hits(adj.cache, SliceAt(work, p)) : adj'.facts = adj.facts \cup Promoted(p, a.reply)
    BY <1>3 DEF CacheHit, Shape
  <2>2. a.reply # Malformed => a.reply.of = SliceAt(work, p) BY <2>1 DEF Hits, RepliesFit
  <2>3. QED BY <1>1, <2>1, <2>2
<1>4. ASSUME NEW reply, reply # Malformed => reply.of = SliceAt(work, p), CallAnswered(work, p, reply)
      PROVE  \A f \in adj'.facts : f.of = <<f.place, work[f.place]>>
  <2>1. adj'.facts = adj.facts \cup Promoted(p, reply) BY <1>4 DEF CallAnswered, Shape
  <2>2. QED BY <1>1, <1>4, <2>1
<1>5. QED BY <1>2, <1>3, <1>4 DEF Adjudicate, SliceAt

LEMMA VerdictsInit == Init => VerdictsInv
BY CachesInit DEF Init, VerdictsInv, Scanning, Idle, CachesInv, Shape

LEMMA VerdictsStep == CachesInv /\ VerdictsInv /\ [Next]_vars => VerdictsInv'
PROOF
<1> SUFFICES ASSUME CachesInv, VerdictsInv, [Next]_vars PROVE VerdictsInv'
  OBVIOUS
<1> USE ProcessesAssumption DEF CachesInv
\* Steps that leave the scan, its tree and the facts of every directory alone.
<1>1. ASSUME UNCHANGED <<commits, work, manifest, scan, adj>>,
             \A c \in 1..MaxCommits : dirs'[c].facts = dirs[c].facts
      PROVE  VerdictsInv'
  BY <1>1, BoundsAssumption DEF VerdictsInv, Scanning, Shown, StaleBase, Shape, Tip
\* Steps after which no scan runs.
<1>2. ASSUME scan'.pc = "idle", Tip' \in Tip..MaxCommits, manifest' \in 0..Tip
      PROVE  VerdictsInv'
  BY <1>2, BoundsAssumption DEF VerdictsInv, Scanning, Shape
<1>3. CASE UNCHANGED vars
  BY <1>1, <1>3 DEF vars
<1>4. CASE \E tree \in Trees : Edit(tree)
  BY <1>2, <1>4, BoundsAssumption DEF Edit, Idle, Tip, Shape, VerdictsInv
<1>5. CASE Commit
  <2>1. Tip' = Tip + 1 /\ Tip' <= MaxCommits
    BY <1>5, BoundsAssumption DEF Commit, Tip, Shape
  <2>2. QED BY <1>2, <1>5, <2>1, BoundsAssumption DEF Commit, Idle, Shape, VerdictsInv
<1>6. ASSUME NEW mode \in {"full", "incremental"}, StartScan(mode)
      PROVE  VerdictsInv'
  <2>1. /\ scan'.pc = "adjudicate" /\ scan'.mode = mode /\ scan'.base = manifest
        /\ adj'.facts = {}
        /\ UNCHANGED <<commits, work, manifest, dirs>>
    BY <1>6 DEF StartScan, Begun
  <2>2. mode = "incremental" => manifest \in 1..Tip
    BY <1>6, BoundsAssumption DEF StartScan, VerdictsInv, Shape
  <2>3. CASE mode = "full"
    <3>1. scan'.facts = {} BY <1>6, <2>3 DEF StartScan, EmptyDir
    <3>2. QED BY <2>1, <2>3, <3>1 DEF VerdictsInv, Scanning, Tip
  <2>4. CASE mode = "incremental"
    <3>1. scan'.facts = {f \in dirs[manifest].facts : f.place \in Unaffected(manifest)}
      BY <1>6, <2>4 DEF StartScan
    <3>2. CASE \A f \in dirs[manifest].facts : f.of = <<f.place, commits[manifest][f.place]>>
      BY <2>1, <2>2, <2>4, <3>1, <3>2 DEF VerdictsInv, Scanning, Shown, Unaffected, Tip
    <3>3. CASE \E f \in dirs[manifest].facts : f.of # <<f.place, commits[manifest][f.place]>>
      BY <2>1, <2>2, <2>4, <3>3 DEF VerdictsInv, Scanning, StaleBase, Tip
    <3>4. QED BY <3>2, <3>3
  <2>5. QED BY <2>3, <2>4
<1>7. ASSUME NEW p \in Places, Adjudicate(p)
      PROVE  VerdictsInv'
  <2>1. /\ scan.pc = "adjudicate" /\ RepliesFit(adj.cache) /\ \A f \in adj.facts : Shown(f)
    BY <1>7 DEF Adjudicate, RepliesFitQuestions, VerdictsInv
  <2>2. /\ \A f \in adj'.facts : f.of = <<f.place, work[f.place]>>
        /\ UNCHANGED <<commits, work, manifest, dirs, scan>>
    BY <1>7, <2>1, PromotedWasShown, AdjudicateKeepsFit
  <2>3. QED BY <2>2 DEF VerdictsInv, Scanning, Shown, StaleBase, Tip
<1>8. CASE EndAdjudication
  <2>1. /\ scan.pc = "adjudicate" /\ scan'.pc = "record"
        /\ scan'.facts = scan.facts \cup adj.facts
        /\ scan'.mode = scan.mode /\ scan'.base = scan.base
        /\ UNCHANGED <<commits, work, manifest>>
        /\ \A c \in 1..MaxCommits : dirs'[c].facts = dirs[c].facts
    BY <1>8 DEF EndAdjudication, Shape, Idle
  <2>2. QED BY <2>1, BoundsAssumption DEF VerdictsInv, Scanning, Shown, StaleBase, Shape, Tip
<1>9. CASE BuildRecord \/ EndEnrichment
  <2>0. scan # Idle BY <1>9 DEF BuildRecord, EndEnrichment, Idle
  <2>1. /\ Scanning /\ scan'.pc \in {"enrich", "write"}
        /\ scan'.facts = scan.facts /\ scan'.mode = scan.mode /\ scan'.base = scan.base
        /\ UNCHANGED <<commits, work, manifest>>
        /\ \A c \in 1..MaxCommits : dirs'[c].facts = dirs[c].facts
    <3>1. CASE BuildRecord BY <2>0, <3>1 DEF BuildRecord, Scanning, Shape
    <3>2. CASE EndEnrichment BY <2>0, <3>2 DEF EndEnrichment, Scanning, Shape
    <3>3. QED BY <1>9, <3>1, <3>2
  <2>2. QED BY <2>1, BoundsAssumption DEF VerdictsInv, Scanning, Shown, StaleBase, Shape, Tip
<1>10. CASE WriteScan
  BY <1>2, <1>10, BoundsAssumption DEF WriteScan, Idle, Tip, Shape, VerdictsInv
<1>11. CASE CrashScan
  BY <1>2, <1>11, BoundsAssumption DEF CrashScan, Idle, Tip, Shape, VerdictsInv
<1>12. CASE \E q \in Processes : EnrichCall(q)
  BY <1>1, <1>12, CallsTouchOnePool DEF Shape
<1>13. CASE InPlaceStep
  BY <1>1, <1>13, InPlaceTouchesDrafts
<1>14. QED
  BY <1>3, <1>4, <1>5, <1>6, <1>7, <1>8, <1>9, <1>10, <1>11, <1>12, <1>13
     DEF Next, ScanStep, InPlaceStep

\* An agent named by the model is only reported for the text the model was shown
\* (core.py, the carried facts and those of the adjudicator), however long ago the
\* reply was paid for, unless an incremental scan starts from the artifacts of a
\* dirty tree.
THEOREM VerdictsArePresent == Spec => []VerdictsOfPresentText
PROOF
<1>1. VerdictsInv => VerdictsOfPresentText
  BY DEF VerdictsInv, VerdictsOfPresentText, Scanning, Shown, StaleBase
<1>2. QED BY <1>1, CachesHold, VerdictsInit, VerdictsStep, PTL DEF Spec

-----------------------------------------------------------------------------
(* The replies that were paid for. *)

\* The cache of a scan only grows.
GrowsInv == scan.pc = "adjudicate" => dirs[Tip].adj \subseteq adj.cache

LEMMA CallsOnlyAdd ==
    ASSUME Shape, scan.pc = "adjudicate", NEW p \in Places, Adjudicate(p)
    PROVE  adj.cache \subseteq adj'.cache
PROOF
<1>1. CASE OverBudget(p) BY <1>1 DEF OverBudget, Shape
<1>2. CASE CacheHit(work, p) BY <1>2 DEF CacheHit, Shape
<1>3. CASE \E reply : CallAnswered(work, p, reply) BY <1>3 DEF CallAnswered, Shape
<1>4. CASE CallFailed(work, p) BY <1>4 DEF CallFailed, Shape
<1>5. QED BY <1>1, <1>2, <1>3, <1>4 DEF Adjudicate

LEMMA GrowsStep == CachesInv /\ GrowsInv /\ [Next]_vars => GrowsInv'
PROOF
<1> SUFFICES ASSUME CachesInv, GrowsInv, [Next]_vars PROVE GrowsInv'
  OBVIOUS
<1> USE ProcessesAssumption DEF CachesInv, GrowsInv
<1>1. CASE UNCHANGED vars
  BY <1>1 DEF vars, Tip
<1>2. ASSUME scan'.pc # "adjudicate" PROVE GrowsInv'
  BY <1>2
<1>9. CASE (\E tree \in Trees : Edit(tree)) \/ Commit \/ WriteScan \/ CrashScan
  BY <1>2, <1>9 DEF Edit, Commit, WriteScan, CrashScan, Idle
<1>10. CASE EndAdjudication
  BY <1>2, <1>10 DEF EndAdjudication, Idle, Shape
<1>11. CASE BuildRecord
  BY <1>2, <1>11 DEF BuildRecord, Idle, Shape
<1>12. CASE EndEnrichment
  BY <1>2, <1>12 DEF EndEnrichment, Idle, Shape
<1>3. CASE \E mode \in {"full", "incremental"} : StartScan(mode)
  BY <1>3 DEF StartScan, Begun, Tip
<1>4. ASSUME NEW p \in Places, Adjudicate(p) PROVE GrowsInv'
  BY <1>4, CallsOnlyAdd DEF Adjudicate, Tip
<1>5. CASE \E q \in Processes : EnrichCall(q)
  BY <1>5, CallsTouchOnePool DEF Shape, Tip
<1>6. CASE InPlaceStep
  BY <1>6, InPlaceTouchesDrafts DEF Shape, Tip
<1>7. QED
  BY <1>1, <1>3, <1>4, <1>5, <1>6, <1>9, <1>10, <1>11, <1>12 DEF Next, ScanStep, InPlaceStep

\* A step that takes a reply out of a cache is the end of a process, or writes over
\* what the other one wrote.
LEMMA StepKeepsReplies ==
    ASSUME CachesInv, GrowsInv, [Next]_vars, NEW c \in 1..MaxCommits
    PROVE  \/ dirs[c].adj \subseteq dirs'[c].adj /\ dirs[c].enr \subseteq dirs'[c].enr
           \/ scan.pc \in {"adjudicate", "enrich"} /\ scan' = Idle
           \/ in_place.pc = "enrich" /\ in_place' = Idle
           \/ /\ scan.pc = "enrich" /\ scan'.pc = "write"
              /\ c = Tip /\ enr["scan"].cache # dirs[c].enr
           \/ /\ in_place.pc = "enrich" /\ in_place'.pc = "write"
              /\ c = in_place.dir /\ enr["in_place"].cache # dirs[c].enr
PROOF
<1> USE ProcessesAssumption DEF CachesInv, Shape
<1>1. CASE dirs' = dirs
  BY <1>1
<1>2. CASE EndAdjudication
  <2>1. dirs[Tip].adj \subseteq Saved(dirs[Tip].adj)
    BY <1>2 DEF EndAdjudication, Saved, GrowsInv
  <2>2. QED BY <1>2, <2>1 DEF EndAdjudication
<1>3. CASE EndEnrichment
  <2>1. enr["scan"].cache \subseteq Gathered(enr["scan"]) BY DEF Gathered
  <2>2. scan.pc = "enrich" /\ scan'.pc = "write" BY <1>3 DEF EndEnrichment, Idle
  <2>3. dirs' = [dirs EXCEPT ![Tip].enr = Gathered(enr["scan"])] BY <1>3 DEF EndEnrichment
  <2>4. CASE c # Tip BY <2>3, <2>4
  <2>5. CASE c = Tip BY <2>1, <2>2, <2>3, <2>5
  <2>6. QED BY <2>4, <2>5
<1>4. CASE EndInPlace
  <2>1. enr["in_place"].cache \subseteq Gathered(enr["in_place"]) BY DEF Gathered
  <2>2. in_place.pc = "enrich" /\ in_place'.pc = "write" BY <1>4 DEF EndInPlace, Idle
  <2>3. dirs' = [dirs EXCEPT ![in_place.dir].enr = Gathered(enr["in_place"])]
    BY <1>4 DEF EndInPlace
  <2>4. CASE c # in_place.dir BY <2>3, <2>4
  <2>5. CASE c = in_place.dir BY <2>1, <2>2, <2>3, <2>5
  <2>6. QED BY <2>4, <2>5
<1>5. CASE WriteScan
  BY <1>5 DEF WriteScan
<1>6. CASE WriteInPlace
  <2>1. \E n, d : dirs' = [dirs EXCEPT ![in_place.dir].nodes = n, ![in_place.dir].drafts = d]
    BY <1>6 DEF WriteInPlace
  <2>2. QED BY <2>1
<1>7. CASE CrashScan
  BY <1>1, <1>7 DEF CrashScan
<1>8. CASE CrashInPlace
  BY <1>1, <1>8 DEF CrashInPlace
<1>9. CASE \E q \in Processes : EnrichCall(q)
  BY <1>1, <1>9, CallsTouchOnePool
<1>10. CASE \/ \E tree \in Trees : Edit(tree)
            \/ Commit \/ BuildRecord
            \/ \E mode \in {"full", "incremental"} : StartScan(mode)
            \/ \E p \in Places : Adjudicate(p)
            \/ \E d \in 1..MaxCommits : StartInPlace(d)
            \/ UNCHANGED vars
  BY <1>1, <1>10 DEF Edit, Commit, BuildRecord, StartScan, Adjudicate, StartInPlace, vars
<1>11. QED
  BY <1>2, <1>3, <1>4, <1>5, <1>6, <1>7, <1>8, <1>9, <1>10 DEF Next, ScanStep

LEMMA GrowsHolds == Spec => []GrowsInv
PROOF
<1>1. Init => GrowsInv BY DEF Init, GrowsInv, Idle
<1>2. QED BY <1>1, CachesHold, GrowsStep, PTL DEF Spec

\* What was paid for is kept (adjudicate/engine.py, enrich/engine.py: _load_cache,
\* _save_cache), except by a process that dies or that has read the file before
\* another one wrote it.
THEOREM PaidRepliesKept == Spec => PaidRepliesAreKept
PROOF
<1>1. CachesInv /\ GrowsInv /\ [Next]_vars =>
        \A c \in 1..MaxCommits :
           \/ dirs[c].adj \subseteq dirs'[c].adj /\ dirs[c].enr \subseteq dirs'[c].enr
           \/ scan.pc \in {"adjudicate", "enrich"} /\ scan' = Idle
           \/ in_place.pc = "enrich" /\ in_place' = Idle
           \/ /\ scan.pc = "enrich" /\ scan'.pc = "write"
              /\ c = Tip /\ enr["scan"].cache # dirs[c].enr
           \/ /\ in_place.pc = "enrich" /\ in_place'.pc = "write"
              /\ c = in_place.dir /\ enr["in_place"].cache # dirs[c].enr
  BY StepKeepsReplies
<1>2. QED BY <1>1, CachesHold, GrowsHolds, PTL DEF Spec, PaidRepliesAreKept

-----------------------------------------------------------------------------
(* Types *)

\* What a pool has asked and been told.
Typed(e) ==
    /\ e.plan \subseteq Contents
    /\ e.cache \subseteq Replies
    /\ \A c \in e.plan :
          e.calls[c].state = "answered" => e.calls[c].reply \in Drafts \cup {Malformed}

TypedDir(dir) ==
    /\ dir.adj \subseteq Answers /\ dir.enr \subseteq Replies
    /\ dir.facts \subseteq AgentFacts /\ dir.left \subseteq Places
    /\ dir.nodes \subseteq Nodes

\* TypeOK with the types of what a scan holds in memory; a finding that waits for the
\* adjudicator is on a text the detection abstains on.
TypesInv ==
    /\ commits \in Seq(Trees) /\ work \in Trees
    /\ manifest \in 0..Tip
    /\ \A c \in 1..MaxCommits : TypedDir(dirs[c])
    /\ scan.pc \in {"idle", "adjudicate", "record", "enrich", "write"}
    /\ Scanning => /\ scan.facts \subseteq AgentFacts /\ scan.left \subseteq Places
                   /\ scan.nodes \subseteq Nodes
    /\ in_place.pc \in {"idle", "enrich", "write"}
    /\ in_place.pc \in {"enrich", "write"} =>
          in_place.dir \in 1..MaxCommits /\ in_place.nodes \subseteq Nodes
    /\ adj.todo \subseteq Places
    /\ scan.pc = "adjudicate" =>
          /\ adj.todo \subseteq Admitted(work) /\ adj.calls \in 0..Budget
          /\ adj.cache \subseteq Answers
          /\ adj.facts \subseteq AgentFacts /\ adj.left \subseteq Places
    /\ scan.pc \in {"enrich", "write"} => Typed(enr["scan"])
    /\ in_place.pc \in {"enrich", "write"} => Typed(enr["in_place"])
    /\ edits \in Nat /\ mishaps \in Nat /\ started \in Nat

LEMMA GatheredIsTyped ==
    ASSUME NEW e, Consistent(e), Typed(e) PROVE Gathered(e) \subseteq Replies
PROOF
<1>1. ASSUME NEW c \in e.plan, NEW raw \in Raw(e, c)
      PROVE  Kept(HashOf(e.plan, c), raw) \in Replies
  <2>1. LastWith(e.plan, c[1].key) \in e.plan BY LastIsOfThePlan DEF Consistent
  <2>2. raw \in Drafts \cup {Malformed} BY <2>1 DEF Raw, Hits, Typed, Replies
  <2>3. HashOf(e.plan, c) \in Contents BY <2>1 DEF HashOf, Typed
  <2>4. QED BY <2>2, <2>3 DEF Kept, Replies
<1>2. QED BY <1>1 DEF Gathered, Typed

\* The first place of an agent is one of its places: every set of places has a first.
LEMMA AgentNodeType ==
    ASSUME NEW facts \in SUBSET AgentFacts, NEW fact \in facts
    PROVE  AgentNode(facts, fact.name) \in AllNodes
PROOF
<1> DEFINE places == {f.place : f \in {f \in facts : f.name = fact.name}}
<1>1. places \in SUBSET Nat /\ places # {} /\ places \subseteq Places
  BY PlacesAssumption DEF AgentFacts
<1>2. \A f \in facts : f.name = fact.name => f.place \in places
  OBVIOUS
<1>3. \A p \in places : \E f \in facts : f.name = fact.name /\ f.place = p
  OBVIOUS
<1> DEFINE first == CHOOSE p \in places : \A f \in facts : f.name = fact.name => p <= f.place
<1>4. AgentNode(facts, fact.name) =
          [kind |-> "agent", key |-> fact.name, uses |-> <<{}, {}>>, place |-> first]
  BY DEF AgentNode
<1> HIDE DEF places
<1>5. \E p \in places : \A q \in places : p <= q BY <1>1, LeastMember
<1>6. first \in Places BY <1>1, <1>2, <1>5
<1> HIDE DEF first
<1>7. fact.name \in Names BY DEF AgentFacts
<1>8. QED BY <1>4, <1>6, <1>7 DEF AllNodes

LEMMA NodesOfType ==
    ASSUME NEW tree \in Trees, NEW facts \in SUBSET AgentFacts
    PROVE  NodesOf(tree, facts) \subseteq AllNodes
PROOF
<1> DEFINE agents == {AgentNode(facts, f.name) : f \in facts}
           tools == {ToolNode(tree, p) : p \in ToolsIn(tree)}
<1>1. agents \subseteq AllNodes /\ \A a \in agents : a.key \in Names /\ a.place \in Places \cup {None}
  <2>1. ASSUME NEW f \in facts
        PROVE  /\ AgentNode(facts, f.name) \in AllNodes
               /\ AgentNode(facts, f.name).key = f.name /\ f.name \in Names
    BY AgentNodeType DEF AgentNode, AgentFacts
  <2>2. QED BY <2>1 DEF AllNodes
<1>2. tools \subseteq AllNodes /\ \A t \in tools : t.key \in Names
  <2>1. ASSUME NEW p \in ToolsIn(tree)
        PROVE  ToolNode(tree, p) \in AllNodes /\ ToolNode(tree, p).key \in Names
    <3>1. p \in Places /\ tree[p] \in Texts /\ ToolOf[tree[p]] # None
      BY TreesAssumption DEF ToolsIn
    <3>2. ToolOf[tree[p]] \in Names BY <3>1, ToolsAssumption
    <3>3. QED BY <3>1, <3>2 DEF ToolNode, AllNodes
  <2>2. QED BY <2>1
<1>3. SystemNode(agents, tools) \in AllNodes
  <2> HIDE DEF agents, tools
  <2>1. {a.key : a \in agents} \subseteq Names /\ {t.key : t \in tools} \subseteq Names
    BY <1>1, <1>2
  <2>2. CASE agents = {} BY <2>1, <2>2 DEF SystemNode, AllNodes
  <2>3. CASE agents # {}
    <3> DEFINE keys == {a.key : a \in agents}
               first == CHOOSE a \in agents : \A b \in agents : a.key <= b.key
    <3>1. keys \in SUBSET Nat /\ keys # {} BY <2>1, <2>3, NamesAssumption
    <3>2. \E k \in keys : \A l \in keys : k <= l
      <4> HIDE DEF keys
      <4>1. QED BY <3>1, LeastMember
    <3>3. \E a \in agents : \A b \in agents : a.key <= b.key BY <3>2
    <3>4. first \in agents BY <3>3
    <3>5. first.place \in Places \cup {None} BY <1>1, <3>4
    <3>6. SystemNode(agents, tools) =
              [kind |-> "system", key |-> System,
               uses |-> <<{a.key : a \in agents}, {t.key : t \in tools}>>, place |-> first.place]
      BY <2>3 DEF SystemNode
    <3> HIDE DEF first
    <3>7. QED BY <2>1, <3>5, <3>6 DEF AllNodes
  <2>4. QED BY <2>2, <2>3
<1>4. QED BY <1>1, <1>2, <1>3 DEF NodesOf

LEMMA PlannedIsTyped ==
    ASSUME NEW nodes \in SUBSET Nodes, NEW tree \in Trees, NEW file \in SUBSET Replies
    PROVE  Typed(Planned(Plan(nodes, tree), file))
PROOF
<1>1. ASSUME NEW n \in nodes
      PROVE  <<n, IF n.place = None THEN None ELSE tree[n.place]>> \in Contents
  BY NodesAssumption, TreesAssumption DEF AllNodes
<1>2. Plan(nodes, tree) \subseteq Contents BY <1>1 DEF Plan
<1>3. QED BY <1>2 DEF Typed, Planned

LEMMA CallIsTyped ==
    ASSUME NEW q \in Processes, DOMAIN enr = Processes, Consistent(enr[q]), Typed(enr[q]),
           EnrichCall(q)
    PROVE  Typed(enr'[q])
PROOF
<1>1. PICK c \in enr[q].plan :
          \/ CallStarts(q, c) \/ CallReturns(q, c, [of |-> c])
          \/ CallReturns(q, c, Malformed) \/ CallRaises(q, c)
  BY DEF EnrichCall
<1>2. [of |-> c] \in Drafts BY DEF Drafts, Typed
<1>3. CASE CallStarts(q, c)
  BY <1>1, <1>3 DEF CallStarts, Consistent, Typed
<1>4. ASSUME NEW reply \in Drafts \cup {Malformed}, CallReturns(q, c, reply) PROVE Typed(enr'[q])
  BY <1>1, <1>4 DEF CallReturns, Consistent, Typed
<1>5. CASE CallRaises(q, c)
  BY <1>1, <1>5 DEF CallRaises, InFlight, Consistent, Typed
<1>6. QED BY <1>1, <1>2, <1>3, <1>4, <1>5

\* Whatever becomes of a finding.
AdjTyped ==
    /\ adj.todo \subseteq Admitted(work) /\ adj.calls \in 0..Budget
    /\ adj.cache \subseteq Answers
    /\ adj.facts \subseteq AgentFacts /\ adj.left \subseteq Places

LEMMA AdjudicateIsTyped ==
    ASSUME Shape, scan.pc = "adjudicate", AdjTyped, work \in Trees, NEW p \in Places, Adjudicate(p)
    PROVE  AdjTyped'
PROOF
<1>1. work' = work BY DEF Adjudicate
<1>2. p \in adj.todo BY DEF Adjudicate, OverBudget, CacheHit, CallAnswered, CallFailed, Turn
<1>3. SliceAt(work, p) \in Slices
  BY <1>2, TextsAssumption DEF AdjTyped, Admitted, SliceAt, Slices
<1>4. ASSUME NEW reply \in Verdicts \cup {Malformed}
      PROVE  Promoted(p, reply) \subseteq AgentFacts /\ Kept(SliceAt(work, p), reply) \in Answers
  BY <1>3, <1>4 DEF Promoted, Verdicts, AgentFacts, Kept, Answers
<1>5. CASE OverBudget(p)
  BY <1>1, <1>5 DEF OverBudget, AdjTyped, Shape, Admitted
<1>6. CASE CallFailed(work, p)
  BY <1>1, <1>6 DEF CallFailed, AdjTyped, Shape, Admitted
<1>7. CASE CacheHit(work, p)
  <2>1. PICK a \in Hits(adj.cache, SliceAt(work, p)) :
           adj' = [adj EXCEPT !.todo = @ \ {p}, !.facts = @ \cup Promoted(p, a.reply)]
    BY <1>7 DEF CacheHit
  <2>2. Promoted(p, a.reply) \subseteq AgentFacts BY <1>4 DEF Hits, AdjTyped, Answers
  <2>3. QED BY <1>1, <2>1, <2>2 DEF AdjTyped, Shape, Admitted
<1>8. ASSUME NEW reply \in Verdicts \cup {Malformed}, CallAnswered(work, p, reply) PROVE AdjTyped'
  <2>1. Promoted(p, reply) \subseteq AgentFacts /\ Kept(SliceAt(work, p), reply) \in Answers
    BY <1>4
  <2>2. adj.calls + 1 \in 0..Budget BY <1>8, BudgetAssumption DEF CallAnswered, AdjTyped
  <2>3. adj' = [adj EXCEPT !.todo = @ \ {p}, !.calls = @ + 1,
                           !.cache = @ \cup {Kept(SliceAt(work, p), reply)},
                           !.facts = @ \cup Promoted(p, reply)]
    BY <1>8 DEF CallAnswered
  <2>4. QED BY <1>1, <2>1, <2>2, <2>3 DEF AdjTyped, Shape, Admitted
<1>9. QED BY <1>5, <1>6, <1>7, <1>8 DEF Adjudicate

LEMMA TypesInit == Init => TypesInv
PROOF
<1> SUFFICES ASSUME Init PROVE TypesInv
  OBVIOUS
<1>1. PICK tree \in Trees : commits = <<tree>> BY DEF Init
<1>2. commits \in Seq(Trees) /\ Tip = 1 /\ work \in Trees BY <1>1 DEF Init, Tip
<1>3. QED
  BY <1>2 DEF Init, TypesInv, TypedDir, EmptyDir, Idle, Scanning, NoAdjudication

\* Calls and findings.
LEMMA TypesStepInside ==
    ASSUME CachesInv, TypesInv,
           \/ \E p \in Places : Adjudicate(p)
           \/ EnrichCall("scan")
           \/ EnrichCall("in_place")
    PROVE  TypesInv'
PROOF
<1> USE ProcessesAssumption
<1>1. ASSUME NEW p \in Places, Adjudicate(p) PROVE TypesInv'
  <2>1. scan.pc = "adjudicate" /\ AdjTyped BY <1>1 DEF Adjudicate, TypesInv, AdjTyped
  <2>2. AdjTyped' BY <1>1, <2>1, AdjudicateIsTyped DEF CachesInv, TypesInv
  <2>3. UNCHANGED <<commits, work, manifest, dirs, scan, in_place, enr, edits, started>>
    BY <1>1 DEF Adjudicate
  <2>4. mishaps' \in Nat BY <1>1 DEF Adjudicate, TypesInv
  <2>5. adj'.todo \subseteq Places BY <2>2 DEF AdjTyped, Admitted
  <2>6. QED BY <2>1, <2>2, <2>3, <2>4, <2>5 DEF TypesInv, AdjTyped, Admitted, Scanning, Tip
<1>2. ASSUME NEW q \in Processes, EnrichCall(q) PROVE TypesInv'
  <2>1. Consistent(enr[q]) /\ Typed(enr[q]) BY <1>2 DEF CachesInv, PoolsInv, TypesInv, EnrichCall
  <2>2. Typed(enr'[q]) BY <1>2, <2>1, CallIsTyped DEF CachesInv, Shape
  <2>3. /\ \A r \in Processes \ {q} : enr'[r] = enr[r]
        /\ UNCHANGED <<commits, work, manifest, dirs, scan, in_place, adj>>
    BY <1>2, CallsTouchOnePool DEF CachesInv, Shape
  <2>4. UNCHANGED <<edits, started>> /\ mishaps' \in Nat BY <1>2 DEF EnrichCall, TypesInv
  <2>5. QED BY <2>2, <2>3, <2>4 DEF TypesInv, Scanning, Tip, Admitted
<1>3. QED BY <1>1, <1>2

\* Edits, commits and the beginnings and ends of scans.
LEMMA TypesStepScan ==
    ASSUME CachesInv, TypesInv,
           \/ \E tree \in Trees : Edit(tree)
           \/ Commit
           \/ \E mode \in {"full", "incremental"} : StartScan(mode)
           \/ EndAdjudication \/ BuildRecord \/ EndEnrichment \/ WriteScan
           \/ CrashScan
    PROVE  TypesInv'
PROOF
<1> USE ProcessesAssumption DEF CachesInv
<1>0. Tip \in 1..MaxCommits /\ Tip \in Nat /\ manifest \in 0..Tip
  BY BoundsAssumption DEF Shape, TypesInv
<1>1. ASSUME NEW tree \in Trees, Edit(tree) PROVE TypesInv'
  BY <1>1 DEF Edit, TypesInv, Idle, Scanning, Tip
<1>2. CASE Commit
  <2>1. commits' \in Seq(Trees) /\ Tip' = Tip + 1 BY <1>2 DEF Commit, Tip, TypesInv
  <2>2. manifest \in 0..Tip' BY <1>0, <2>1
  <2>3. QED BY <1>2, <2>1, <2>2 DEF Commit, TypesInv, Idle, Scanning
<1>3. ASSUME NEW mode \in {"full", "incremental"}, StartScan(mode) PROVE TypesInv'
  <2>1. adj' = Begun(work, dirs[Tip].adj)
        /\ UNCHANGED <<commits, work, manifest, dirs, in_place, enr, edits, mishaps, started>>
    BY <1>3 DEF StartScan
  <2>2. /\ scan'.pc = "adjudicate"
        /\ scan'.facts \subseteq AgentFacts /\ scan'.left \subseteq Places /\ scan'.nodes = {}
    <3>1. CASE mode = "full"
      BY <1>3, <3>1 DEF StartScan, EmptyDir
    <3>2. CASE mode = "incremental"
      <4>1. manifest \in 1..MaxCommits BY <1>0, <1>3, <3>2, BoundsAssumption DEF StartScan
      <4>2. QED BY <1>3, <3>2, <4>1 DEF StartScan, TypesInv, TypedDir
    <3>3. QED BY <3>1, <3>2
  <2>3. /\ adj'.todo = Admitted(work) /\ adj'.calls = 0 /\ adj'.cache \subseteq Answers
        /\ adj'.facts = {} /\ adj'.left = {}
    BY <1>0, <2>1 DEF Begun, TypesInv, TypedDir
  <2>4. QED
    BY <2>1, <2>2, <2>3, BudgetAssumption DEF TypesInv, Scanning, Admitted, Tip
<1>4. CASE EndAdjudication
  <2>1. scan.pc = "adjudicate" /\ AdjTyped BY <1>4 DEF EndAdjudication, TypesInv, AdjTyped
  <2>2. Saved(dirs[Tip].adj) \subseteq Answers BY <1>0, <2>1 DEF Saved, AdjTyped, TypesInv, TypedDir
  <2>3. \A c \in 1..MaxCommits : TypedDir(dirs'[c])
    BY <1>0, <1>4, <2>2 DEF EndAdjudication, TypesInv, TypedDir, Shape
  <2>4. /\ scan'.pc = "record" /\ scan'.nodes = scan.nodes
        /\ scan'.facts \subseteq AgentFacts /\ scan'.left \subseteq Places
    BY <1>4, <2>1 DEF EndAdjudication, Shape, Idle, TypesInv, Scanning, AdjTyped
  <2>5. adj' = NoAdjudication
        /\ UNCHANGED <<commits, work, manifest, in_place, edits, mishaps, started, enr>>
    BY <1>4 DEF EndAdjudication
  <2>6. QED BY <2>1, <2>3, <2>4, <2>5 DEF TypesInv, Scanning, NoAdjudication, Tip
<1>5. CASE BuildRecord
  <2>1. /\ scan.pc = "record" /\ scan'.pc = "enrich"
        /\ scan'.nodes = NodesOf(work, scan.facts)
        /\ scan'.facts = scan.facts /\ scan'.left = scan.left
        /\ enr'["in_place"] = enr["in_place"]
        /\ enr'["scan"] = Planned(Plan(scan'.nodes, work), dirs[Tip].enr)
        /\ UNCHANGED <<commits, work, manifest, dirs, in_place, edits, mishaps, started, adj>>
    BY <1>5 DEF BuildRecord, Shape, Idle
  <2>2. scan'.nodes \subseteq Nodes
    BY <2>1, NodesOfType, NodesAssumption DEF TypesInv, Scanning
  <2>3. dirs[Tip].enr \subseteq Replies /\ work \in Trees BY <1>0 DEF TypesInv, TypedDir
  <2>4. Typed(enr'["scan"]) BY <2>1, <2>2, <2>3, PlannedIsTyped
  <2>5. QED BY <2>1, <2>2, <2>4 DEF TypesInv, Scanning, Tip
<1>6. CASE EndEnrichment
  <2>1. /\ scan.pc = "enrich" /\ scan'.pc = "write"
        /\ scan'.nodes = scan.nodes /\ scan'.facts = scan.facts /\ scan'.left = scan.left
        /\ UNCHANGED <<commits, work, manifest, in_place, edits, mishaps, started, adj, enr>>
    BY <1>6 DEF EndEnrichment, Shape, Idle
  <2>2. Gathered(enr["scan"]) \subseteq Replies
    BY <2>1, GatheredIsTyped DEF PoolsInv, TypesInv
  <2>3. \A c \in 1..MaxCommits : TypedDir(dirs'[c])
    BY <1>0, <1>6, <2>2 DEF EndEnrichment, TypesInv, TypedDir, Shape
  <2>4. QED BY <2>1, <2>3 DEF TypesInv, Scanning, Tip
<1>7. CASE WriteScan
  <2>1. scan.pc = "write" /\ scan' = Idle /\ manifest' \in 0..Tip
        /\ UNCHANGED <<commits, work, in_place, edits, mishaps, started, adj>>
    BY <1>0, <1>7 DEF WriteScan
  <2>2. \A c \in 1..MaxCommits : TypedDir(dirs'[c])
    <3>1. \E d : dirs' = [dirs EXCEPT ![Tip].facts = scan.facts, ![Tip].left = scan.left,
                                      ![Tip].nodes = scan.nodes, ![Tip].drafts = d]
      BY <1>7 DEF WriteScan
    <3>2. QED BY <1>0, <2>1, <3>1 DEF TypesInv, TypedDir, Shape, Scanning
  <2>3. enr'["in_place"] = enr["in_place"] BY <1>7 DEF WriteScan, Shape
  <2>4. QED BY <2>1, <2>2, <2>3 DEF TypesInv, Scanning, Tip, Idle
<1>8. CASE CrashScan
  <2>1. scan' = Idle /\ adj' = NoAdjudication /\ enr'["in_place"] = enr["in_place"]
        /\ UNCHANGED <<commits, work, manifest, in_place, edits, started>>
    BY <1>8 DEF CrashScan, Shape
  <2>2. mishaps' \in Nat BY <1>8 DEF CrashScan, TypesInv
  <2>3. \A c \in 1..MaxCommits : TypedDir(dirs'[c])
    <3>1. dirs' = dirs \/ dirs' = [dirs EXCEPT ![Tip].adj = {}] \/ dirs' = [dirs EXCEPT ![Tip].enr = {}]
      BY <1>8 DEF CrashScan
    <3>2. CASE dirs' = dirs BY <3>2 DEF TypesInv
    <3>3. CASE dirs' = [dirs EXCEPT ![Tip].adj = {}] BY <3>3 DEF TypesInv, TypedDir, Shape
    <3>4. CASE dirs' = [dirs EXCEPT ![Tip].enr = {}] BY <3>4 DEF TypesInv, TypedDir, Shape
    <3>5. QED BY <3>1, <3>2, <3>3, <3>4
  <2>4. QED BY <2>1, <2>2, <2>3 DEF TypesInv, Scanning, Tip, Idle, NoAdjudication
<1>9. QED BY <1>1, <1>2, <1>3, <1>4, <1>5, <1>6, <1>7, <1>8

\* The other process.
LEMMA TypesStepInPlace ==
    ASSUME CachesInv, TypesInv, InPlaceStep PROVE TypesInv'
PROOF
<1> USE ProcessesAssumption DEF CachesInv
<1>0. UNCHANGED <<commits, work, manifest, scan, adj>>
  BY InPlaceTouchesDrafts
<1>1. ASSUME NEW c \in 1..MaxCommits, StartInPlace(c) PROVE TypesInv'
  <2>1. /\ in_place'.pc = "enrich" /\ in_place'.nodes = dirs[c].nodes /\ in_place'.dir = c
        /\ enr'["scan"] = enr["scan"]
        /\ enr'["in_place"] = Planned(Plan(dirs[c].nodes, work), dirs[c].enr)
        /\ UNCHANGED <<dirs, edits, mishaps>>
    BY <1>1 DEF StartInPlace, Shape
  <2>2. Typed(enr'["in_place"]) BY <2>1, PlannedIsTyped DEF TypesInv, TypedDir
  <2>3. started' \in Nat BY <1>1 DEF StartInPlace, TypesInv
  <2>4. dirs[c].nodes \subseteq Nodes BY DEF TypesInv, TypedDir
  <2>5. QED BY <1>0, <2>1, <2>2, <2>3, <2>4 DEF TypesInv, Scanning, Tip, Admitted
<1>2. CASE EndInPlace
  <2>1. /\ in_place.pc = "enrich" /\ in_place'.pc = "write"
        /\ in_place'.nodes = in_place.nodes /\ in_place'.dir = in_place.dir
        /\ UNCHANGED <<edits, mishaps, started, enr>>
    BY <1>2 DEF EndInPlace, Shape, Idle
  <2>2. Gathered(enr["in_place"]) \subseteq Replies
    BY <2>1, GatheredIsTyped DEF PoolsInv, TypesInv
  <2>3. \A c \in 1..MaxCommits : TypedDir(dirs'[c])
    BY <1>2, <2>2 DEF EndInPlace, TypesInv, TypedDir, Shape
  <2>4. QED BY <1>0, <2>1, <2>3 DEF TypesInv, Scanning, Tip, Admitted
<1>3. CASE WriteInPlace
  <2>1. in_place.pc = "write" /\ in_place' = Idle /\ enr'["scan"] = enr["scan"]
        /\ UNCHANGED <<edits, mishaps, started>>
    BY <1>3 DEF WriteInPlace, Shape
  <2>2. \A c \in 1..MaxCommits : TypedDir(dirs'[c])
    <3>1. \E d : dirs' = [dirs EXCEPT ![in_place.dir].nodes = in_place.nodes,
                                      ![in_place.dir].drafts = d]
      BY <1>3 DEF WriteInPlace
    <3>2. QED BY <2>1, <3>1 DEF TypesInv, TypedDir, Shape
  <2>3. QED BY <1>0, <2>1, <2>2 DEF TypesInv, Scanning, Tip, Idle, Admitted
<1>4. CASE CrashInPlace
  <2>1. in_place' = Idle /\ enr'["scan"] = enr["scan"] /\ UNCHANGED <<edits, started>>
    BY <1>4 DEF CrashInPlace, Shape
  <2>2. mishaps' \in Nat BY <1>4 DEF CrashInPlace, TypesInv
  <2>3. \A c \in 1..MaxCommits : TypedDir(dirs'[c])
    <3>1. dirs' = dirs \/ dirs' = [dirs EXCEPT ![in_place.dir].enr = {}]
      BY <1>4 DEF CrashInPlace
    <3>2. CASE dirs' = dirs BY <3>2 DEF TypesInv
    <3>3. CASE dirs' = [dirs EXCEPT ![in_place.dir].enr = {}] BY <3>3 DEF TypesInv, TypedDir, Shape
    <3>4. QED BY <3>1, <3>2, <3>3
  <2>4. QED BY <1>0, <2>1, <2>2, <2>3 DEF TypesInv, Scanning, Tip, Idle, Admitted
<1>5. QED BY <1>1, <1>2, <1>3, <1>4 DEF InPlaceStep

LEMMA TypesStep == CachesInv /\ TypesInv /\ [Next]_vars => TypesInv'
PROOF
<1>1. ASSUME CachesInv, TypesInv, UNCHANGED vars PROVE TypesInv'
  BY <1>1 DEF vars, TypesInv, Scanning, Tip, Admitted
<1>2. QED
  BY <1>1, TypesStepInside, TypesStepScan, TypesStepInPlace DEF Next, ScanStep, InPlaceStep

\* Every reachable state is well typed (core.py, cli.py): what is cached, carried and
\* enriched is of the repository, no scan has answered more calls than its budget, and
\* the manifest names a commit there is.
THEOREM TiersTypeCorrect == Spec => []TypeOK
PROOF
<1>1. CachesInv /\ TypesInv => TypeOK
  BY DEF CachesInv, Shape, TypesInv, TypedDir, TypeOK
<1>2. QED BY <1>1, CachesHold, TypesInit, TypesStep, PTL DEF Spec
=============================================================================
