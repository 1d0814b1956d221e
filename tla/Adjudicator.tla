----------------------------- MODULE Adjudicator -----------------------------
(***************************************************************************)
(* The adjudicator (aiscan/adjudicate/engine.py): a model is asked about   *)
(* the regions of the code on which the detection abstained, at most       *)
(* Budget answered calls per scan, with a cache of raw replies.            *)
(*                                                                         *)
(* A finding is named by its place, a number in the order the findings are *)
(* sorted.  A slice is the place and the text around it; it carries its    *)
(* path and lines, so two places never share a slice.                      *)
(***************************************************************************)
EXTENDS Integers, FiniteSets, ModelService

CONSTANTS
    Places,
    Ambiguous,    \* the places of findings of kind ambiguous_agent_shape
    Texts,
    Suspicious,   \* the texts the detection abstains on
    Clear,        \* a place without any code of interest
    Names,        \* the agents a reply can name
    Budget

ASSUME PlacesAssumption == Places \subseteq Nat /\ Ambiguous \subseteq Places
ASSUME TextsAssumption == Suspicious \subseteq Texts /\ Clear \notin Texts
ASSUME BudgetAssumption == Budget \in Nat

VARIABLE adj      \* the adjudication of the scan in progress

Slices == Places \X Texts

\* A valid reply: the agents it names, none if the model abstains, is not sure or
\* sees no agent.  The slice it was given is a ghost, for the properties.
Verdicts == [of : Slices, names : SUBSET Names]

Answers == [key : Slices, reply : Verdicts \cup {Malformed}]

AgentFacts == [place : Places, name : Names, of : Slices]

Admitted(tree) == {p \in Places : tree[p] \in Suspicious}

NoAdjudication == [todo |-> {}]

Begun(tree, file) ==
    [todo |-> Admitted(tree), calls |-> 0, cache |-> file, facts |-> {}, left |-> {}]

\* Findings are taken in their order.
Turn(p) == p \in adj.todo /\ \A q \in adj.todo : p <= q

\* A finding of another kind is answered too, but nothing follows from the reply.
Promoted(p, reply) ==
    IF p \in Ambiguous /\ reply # Malformed
    THEN {[place |-> p, name |-> n, of |-> reply.of] : n \in reply.names}
    ELSE {}

SliceAt(tree, p) == <<p, tree[p]>>

\* The budget is looked at before the cache.
OverBudget(p) ==
    /\ Turn(p)
    /\ adj.calls >= Budget
    /\ adj' = [adj EXCEPT !.todo = @ \ {p}, !.left = @ \cup {p}]

CacheHit(tree, p) ==
    /\ Turn(p)
    /\ adj.calls < Budget
    /\ \E a \in Hits(adj.cache, SliceAt(tree, p)) :
          adj' = [adj EXCEPT !.todo = @ \ {p}, !.facts = @ \cup Promoted(p, a.reply)]

CallWithoutBudget(tree, p, reply) ==
    /\ Turn(p)
    /\ Hits(adj.cache, SliceAt(tree, p)) = {}
    /\ adj' = [adj EXCEPT
                  !.todo = @ \ {p},
                  !.calls = @ + 1,
                  !.cache = @ \cup {Kept(SliceAt(tree, p), reply)},
                  !.facts = @ \cup Promoted(p, reply)]

CallAnswered(tree, p, reply) ==
    /\ Turn(p)
    /\ adj.calls < Budget
    /\ Hits(adj.cache, SliceAt(tree, p)) = {}
    /\ adj' = [adj EXCEPT
                  !.todo = @ \ {p},
                  !.calls = @ + 1,
                  !.cache = @ \cup {Kept(SliceAt(tree, p), reply)},
                  !.facts = @ \cup Promoted(p, reply)]

\* A call that raises is not counted and is not tried again in this scan.
CallFailed(tree, p) ==
    /\ Turn(p)
    /\ adj.calls < Budget
    /\ Hits(adj.cache, SliceAt(tree, p)) = {}
    /\ adj' = [adj EXCEPT !.todo = @ \ {p}]

\* Only a scan that promoted something writes the cache.
SavedAfterHit(file) ==
    IF adj.facts # {} THEN adj.cache ELSE file

Saved(file) == IF adj.calls > 0 THEN adj.cache ELSE file
=============================================================================
