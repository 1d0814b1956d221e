----------------------------- MODULE Enrichment -----------------------------
(***************************************************************************)
(* Enrichment (aiscan/enrich/engine.py): a pool of workers asks a model to *)
(* describe each node of a record, with one retry and a cache of raw       *)
(* replies.  It runs inside a scan and, on its own, over a record on disk. *)
(*                                                                         *)
(* What is asked about a node is the node and the text at its place; the   *)
(* hash of both is the key of the cache, its record id the key of all the  *)
(* tables in memory.                                                       *)
(***************************************************************************)
EXTENDS Integers, FiniteSets, ModelService

CONSTANTS
    Nodes,        \* records with at least a kind and a key
    Contents,     \* pairs <<node, text>>
    Processes,
    Examples,     \* the nodes of example code: the agents that lie there and what
                  \* only such agents bind
    Workers,      \* the size of the pool
    None

ASSUME WorkersAssumption == Workers \in Nat \ {0}
ASSUME ContentsAssumption == \A c \in Contents : c[1] \in Nodes

VARIABLE enr      \* enr[q]: the enrichment in progress in process q, or None

\* A valid reply; the content it was given is a ghost, for the properties.
Drafts == [of : Contents]

Replies == [key : Contents, reply : Drafts \cup {Malformed}]

KindRank(kind) == CASE kind = "system" -> 0 [] kind = "agent" -> 1 [] kind = "tool" -> 2

\* The plan holds production code before examples, and of each the system before the
\* agents and the agents before the tools.  What lies in tests is not planned.
Rank(node) ==
    (IF node.kind # "system" /\ node \in Examples THEN 3 ELSE 0) + KindRank(node.kind)

\* Of the nodes with one key the last of the plan counts.
LastWith(plan, key) ==
    CHOOSE c \in plan :
        /\ c[1].key = key
        /\ \A d \in plan : d[1].key = key => Rank(d[1]) <= Rank(c[1])

\* The hash of the node itself.
OwnHash(plan, c) == c

\* The hashes are kept by key.
HashOf(plan, c) == LastWith(plan, c[1].key)

\* The hashes are computed and looked up before the first call.
Planned(plan, file) ==
    [plan |-> plan, cache |-> file,
     calls |-> [c \in plan |->
                  [state |-> IF Hits(file, HashOf(plan, c)) # {} THEN "hit" ELSE "queued",
                   reply |-> None]]]

InFlight(e) == {c \in e.plan : e.calls[c].state \in {"first", "second"}}

\* The order of the plan.
Before(c, d) ==
    \/ Rank(c[1]) < Rank(d[1])
    \/ Rank(c[1]) = Rank(d[1]) /\ c[1].key < d[1].key

\* A free worker takes the next node.
CallStarts(q, c) ==
    /\ enr[q].calls[c].state = "queued"
    /\ \A d \in enr[q].plan : enr[q].calls[d].state = "queued" => ~Before(d, c)
    /\ Cardinality(InFlight(enr[q])) < Workers
    /\ enr' = [enr EXCEPT ![q].calls[c].state = "first"]

CallReturns(q, c, reply) ==
    /\ c \in InFlight(enr[q])
    /\ enr' = [enr EXCEPT ![q].calls[c] = [state |-> "answered", reply |-> reply]]

\* The first failure is followed by a second attempt.
CallRaises(q, c) ==
    /\ c \in InFlight(enr[q])
    /\ enr' = [enr EXCEPT ![q].calls[c].state = IF @ = "first" THEN "second" ELSE "failed"]

Pooled(e) == \A c \in e.plan : e.calls[c].state \in {"hit", "answered", "failed"}

\* Whatever a worker brings back first.
RawOfAny(e, c) == {e.calls[d].reply : d \in {d \in e.plan : e.calls[d].state = "answered"}}

\* What is in the cache was dealt with by an earlier scan.
RawOfCalls(e, c) ==
    LET last == LastWith(e.plan, c[1].key)
    IN  IF e.calls[last].state = "answered" THEN {e.calls[last].reply} ELSE {}

\* What is known for the key of a node: the cached reply, or that of the last node
\* with this key, or nothing.
Raw(e, c) ==
    LET last == LastWith(e.plan, c[1].key)
        hits == Hits(e.cache, HashOf(e.plan, c))
    IN  IF hits # {} THEN {r.reply : r \in hits}
        ELSE IF e.calls[last].state = "answered" THEN {e.calls[last].reply} ELSE {}

\* The file is replaced by what this record asks.
GatheredAnew(e) ==
    UNION {{Kept(HashOf(e.plan, c), raw) : raw \in Raw(e, c)} : c \in e.plan}

\* Replies are kept, the malformed ones too; a call that failed is not.
Gathered(e) ==
    e.cache \cup UNION {{Kept(HashOf(e.plan, c), raw) : raw \in Raw(e, c)} :
                            c \in e.plan}

\* The draft a node of the record gets: that of its key.
DraftFor(e, node) ==
    UNION {{[node |-> node, of |-> raw.of] : raw \in Raw(e, c) \ {Malformed}} :
              c \in {c \in e.plan : c[1].key = node.key}}

\* A record keeps the drafts of the nodes that got none now.
Applied(e, nodes, drafts) ==
    LET new == UNION {DraftFor(e, n) : n \in nodes}
    IN  new \cup {d \in drafts : \A n \in new : n.node # d.node}
=============================================================================
