--------------------------- MODULE FrameworkProofs ---------------------------
(***************************************************************************)
(* Proofs about FrameworkScan, for every set of repositories: the graph of *)
(* every record is well formed, agents keep identities of their own and    *)
(* their entrypoint flags through any chain of scans, what is derived      *)
(* follows the transfers, and as long as the trees are separated the       *)
(* record of an incremental scan is that of a full scan of its tree.       *)
(*                                                                         *)
(* The last is the longest.  A scan is shown to report, in some order, the *)
(* union of what each module contributes (ModuleFacts), a function of the  *)
(* module, of what it imports and of the sinks among them; two trees that  *)
(* agree on these get the same contribution (SameModuleFacts); so what is  *)
(* carried of the modules out of reach of a change is what they would      *)
(* contribute again (CarriedAre), and the facts of an incremental scan are *)
(* those of a full one (IncrementalScanFacts).  The record does not depend *)
(* on their order (RecordIsDetermined).                                    *)
(***************************************************************************)
EXTENDS FrameworkFacts, Foundations, TLAPS

\* A run is the record of its parts in every proof.
USE DEF RunOf

(***************************************************************************)
(* What a work list reaches                                                *)
(***************************************************************************)

\* What follows an agent on the work list: the agents it transfers to.
LEMMA NextAre ==
    ASSUME NEW agents, WellLinked(agents), NEW a \in DOMAIN agents
    PROVE  /\ NextOf(agents, a) \in Seq(DOMAIN agents)
           /\ ToSet(NextOf(agents, a)) = To(agents, a)
<1> DEFINE h == agents[a].handoffs
           r == agents[a].routes
<1>1. h \subseteq DOMAIN agents /\ r \subseteq DOMAIN agents
  BY DEF WellLinked
<1>2. IsFiniteSet(h) /\ IsFiniteSet(r)
  BY <1>1, FS_Subset DEF WellLinked
<1>3. NextOf(agents, a) = Listed(h) \o Listed(r)
  BY DEF NextOf, TransfersOf
<1> HIDE DEF h, r
<1>4. /\ IsList(NextOf(agents, a))
      /\ ToSet(NextOf(agents, a)) = h \cup r
  BY <1>2, <1>3, ListedAre, Concatenated
<1>5. NextOf(agents, a) \in Seq(DOMAIN agents)
  BY <1>1, <1>4, SeqMonotonic DEF IsList
<1> QED
  BY <1>4, <1>5 DEF h, r, To

\* Taking an agent from the work list leaves a work list that leads to the same agents.
LEMMA TakenIsWork ==
    ASSUME NEW agents, WellLinked(agents),
           NEW stack \in Seq(DOMAIN agents), NEW seen \in SUBSET DOMAIN agents, stack # <<>>
    PROVE  /\ Taken(agents, stack, seen) \in Seq(DOMAIN agents) \X SUBSET DOMAIN agents
           /\ Holding(agents, Taken(agents, stack, seen)[1], Taken(agents, stack, seen)[2])
              = Holding(agents, stack, seen)
<1> DEFINE a == Last(stack)
           f == Front(stack)
           n == NextOf(agents, a)
<1>1. f \in Seq(DOMAIN agents) /\ a \in DOMAIN agents /\ ToSet(stack) = ToSet(f) \cup {a}
  BY FrontAndLast
<1>2. n \in Seq(DOMAIN agents) /\ ToSet(n) = To(agents, a)
  BY <1>1, NextAre
<1>3. Taken(agents, stack, seen) = IF a \in seen THEN <<f, seen>> ELSE <<f \o n, seen \cup {a}>>
  BY DEF Taken
<1>4. IsList(f) /\ IsList(n)
  BY <1>1, <1>2, LenProperties, FunctionIsList
<1> HIDE DEF a, f, n
<1>5. f \o n \in Seq(DOMAIN agents) /\ ToSet(f \o n) = ToSet(f) \cup ToSet(n)
  BY <1>1, <1>2, <1>4, Concatenated, ConcatProperties
<1>6. CASE a \in seen
  BY <1>1, <1>3, <1>6 DEF Holding
<1>7. CASE a \notin seen
  <2>1. Taken(agents, stack, seen)[1] = f \o n /\ Taken(agents, stack, seen)[2] = seen \cup {a}
    BY <1>3, <1>7
  <2>2. ASSUME NEW S \in SUBSET DOMAIN agents
        PROVE  S \in Holding(agents, f \o n, seen \cup {a}) <=> S \in Holding(agents, stack, seen)
    BY <1>1, <1>2, <1>5, <1>7 DEF Holding
  <2>3. Holding(agents, f \o n, seen \cup {a}) = Holding(agents, stack, seen)
    BY <2>2, Zenon DEF Holding
  <2>4. Taken(agents, stack, seen) = <<f \o n, seen \cup {a}>>
    BY <1>3, <1>7
  <2>5. seen \cup {a} \in SUBSET DOMAIN agents /\ f \o n \in Seq(DOMAIN agents)
    BY <1>1, <1>5
  <2>6. Taken(agents, stack, seen) \in Seq(DOMAIN agents) \X SUBSET DOMAIN agents
    <3> DEFINE x == f \o n
               y == seen \cup {a}
    <3>1. x \in Seq(DOMAIN agents) /\ y \in SUBSET DOMAIN agents
      BY <2>5
    <3>2. Taken(agents, stack, seen) = <<x, y>>
      BY <2>4
    <3> HIDE DEF x, y
    <3> QED
      BY <3>1, <3>2
  <2> QED
    BY <2>1, <2>3, <2>6
<1> QED
  BY <1>6, <1>7

\* The work list ends, whatever the transfers, cycles included.
LEMMA WalkExists ==
    ASSUME NEW agents, WellLinked(agents)
    PROVE  \E f : IsWalk(agents, DOMAIN agents, f)
<1> DEFINE D == DOMAIN agents
           W == Seq(D) \X SUBSET D
           f == [work \in W |-> InAll(agents, work[1], work[2])]
<1>1. ASSUME NEW work \in W
      PROVE  f[work] = IF work[1] = <<>> THEN work[2] ELSE f[Taken(agents, work[1], work[2])]
  <2>0. work[1] \in Seq(D) /\ work[2] \in SUBSET D
    OBVIOUS
  <2>1. CASE work[1] = <<>>
    <3>1. work[2] \in Holding(agents, work[1], work[2])
      BY <2>0, <2>1, ShortLists DEF Holding
    <3>2. InAll(agents, work[1], work[2]) = work[2]
      BY <2>0, <3>1 DEF InAll, Holding
    <3> QED
      BY <2>1, <3>2
  <2>2. CASE work[1] # <<>>
    <3>1. /\ Taken(agents, work[1], work[2]) \in W
          /\ Holding(agents, Taken(agents, work[1], work[2])[1], Taken(agents, work[1], work[2])[2])
             = Holding(agents, work[1], work[2])
      BY <2>0, <2>2, TakenIsWork
    <3> QED
      BY <2>2, <3>1 DEF InAll
  <2> QED
    BY <2>1, <2>2
<1>2. f = [work \in W |-> f[work]]
  OBVIOUS
<1> HIDE DEF f
<1>3. f = [work \in W |-> IF work[1] = <<>> THEN work[2] ELSE f[Taken(agents, work[1], work[2])]]
  BY <1>1, <1>2, Zenon
<1> QED
  BY <1>3 DEF IsWalk

\* Every agent is taken once, and between two that are taken the stack shrinks: the
\* work ends, and what was seen then is what lies in all these sets.
LEMMA WalkIs ==
    ASSUME NEW agents, WellLinked(agents), NEW f, IsWalk(agents, DOMAIN agents, f),
           NEW stack \in Seq(DOMAIN agents), NEW seen \in SUBSET DOMAIN agents
    PROVE  f[<<stack, seen>>] = InAll(agents, stack, seen)
<1> DEFINE D == DOMAIN agents
           Left(set) == Cardinality(D \ set)
           Right(s, set) == f[<<s, set>>] = InAll(agents, s, set)
           Good == {k \in Nat : \A set \in SUBSET D : Left(set) <= k => \A s \in Seq(D) : Right(s, set)}
<1>0. ASSUME NEW set PROVE IsFiniteSet(D \ set) /\ Left(set) \in Nat
  <2> DEFINE T == D \ set
  <2>1. T \in SUBSET D /\ IsFiniteSet(D)
    BY DEF WellLinked
  <2> HIDE DEF T
  <2>2. IsFiniteSet(T) /\ Cardinality(T) \in Nat
    BY <2>1, FS_Subset, FS_CardinalityType
  <2> QED
    BY <2>2 DEF T
<1>1. \A set : Left(set) \in Nat
  BY <1>0, Zenon
<1>2. ASSUME NEW set \in SUBSET D PROVE Right(<<>>, set)
  <2>1. f[<<<<>>, set>>] = set
    <3> DEFINE w == <<<<>>, set>>
    <3>1. w \in Seq(D) \X SUBSET D /\ w[1] = <<>> /\ w[2] = set
      BY EmptySeq, Zenon
    <3> HIDE DEF w
    <3>2. f[w] = set
      BY <3>1 DEF IsWalk
    <3> QED
      BY <3>2 DEF w
  <2>2. set \in Holding(agents, <<>>, set)
    BY ShortLists DEF Holding
  <2> QED
    BY <2>1, <2>2 DEF InAll, Holding
<1>3. ASSUME NEW set \in SUBSET D, NEW s \in Seq(D), s # <<>>,
             Right(Taken(agents, s, set)[1], Taken(agents, s, set)[2])
      PROVE  Right(s, set)
  <2> DEFINE t == Taken(agents, s, set)
  <2>1. /\ t \in Seq(D) \X SUBSET D
        /\ Holding(agents, t[1], t[2]) = Holding(agents, s, set)
    BY <1>3, TakenIsWork
  <2>2. f[<<s, set>>] = f[t]
    BY <1>3, Zenon DEF IsWalk
  <2>3. t = <<t[1], t[2]>>
    BY <2>1
  <2>4. f[t] = InAll(agents, t[1], t[2])
    BY <1>3, <2>3, Zenon
  <2> QED
    BY <2>1, <2>2, <2>4 DEF InAll
<1>4. ASSUME NEW set \in SUBSET D,
             \A a \in D \ set : \A s \in Seq(D) : Right(s, set \cup {a})
      PROVE  \A s \in Seq(D) : Right(s, set)
  <2> DEFINE Short == {n \in Nat : \A s \in Seq(D) : Len(s) = n => Right(s, set)}
  <2>1. 0 \in Short
    <3>1. \A s \in Seq(D) : Len(s) = 0 => s = <<>>
      OBVIOUS
    <3> HIDE DEF Right
    <3> QED
      BY <1>2, <3>1
  <2>2. ASSUME NEW n \in Nat, n \in Short PROVE n + 1 \in Short
    <3> SUFFICES ASSUME NEW s \in Seq(D), Len(s) = n + 1 PROVE Right(s, set)
      BY DEF Short
    <3>1. s # <<>>
      BY EmptySeq
    <3>2. /\ Front(s) \in Seq(D) /\ Len(Front(s)) = Len(s) - 1
          /\ Last(s) \in D
      BY <3>1, FrontAndLast
    <3>3. CASE Last(s) \in set
      <4>1. Len(Front(s)) = n
        BY <3>2
      <4>2. Right(Front(s), set)
        BY <2>2, <3>2, <4>1 DEF Short
      <4>3. Taken(agents, s, set)[1] = Front(s) /\ Taken(agents, s, set)[2] = set
        BY <3>3 DEF Taken
      <4> HIDE DEF Right
      <4> QED
        BY <1>3, <3>1, <4>2, <4>3
    <3>4. CASE Last(s) \notin set
      <4>1. /\ Taken(agents, s, set)[1] \in Seq(D)
            /\ Taken(agents, s, set)[2] = set \cup {Last(s)}
        BY <3>1, <3>4, TakenIsWork, Zenon DEF Taken
      <4>2. Right(Taken(agents, s, set)[1], set \cup {Last(s)})
        BY <1>4, <3>2, <3>4, <4>1, Zenon
      <4> HIDE DEF Right
      <4> QED
        BY <1>3, <3>1, <4>1, <4>2, Zenon
    <3> QED
      BY <3>3, <3>4
  <2> HIDE DEF Short
  <2>3. \A n \in Nat : n \in Short
    BY <2>1, <2>2, SetInduction, Zenon
  <2> TAKE s \in Seq(D)
  <2>4. Len(s) \in Nat
    BY LenProperties
  <2> QED
    BY <2>3, <2>4 DEF Short
<1>5. 0 \in Good
  <2> SUFFICES ASSUME NEW set \in SUBSET D, Left(set) <= 0 PROVE \A s \in Seq(D) : Right(s, set)
    OBVIOUS
  <2>1. IsFiniteSet(D \ set)
    BY <1>0, Zenon
  <2>2. D \ set = {}
    <3> DEFINE T == D \ set
    <3>1. IsFiniteSet(T) /\ Cardinality(T) = 0
      <4>1. Left(set) \in Nat /\ Left(set) <= 0
        BY <1>1, Zenon
      <4>2. Left(set) = 0
        <5> HIDE DEF Left
        <5> QED
          BY <4>1
      <4> QED
        BY <2>1, <4>2
    <3> HIDE DEF T
    <3>2. T = {}
      BY <3>1, FS_EmptySet
    <3> QED
      BY <3>2 DEF T
  <2> HIDE DEF Right
  <2> QED
    BY <1>4, <2>2
<1>6. ASSUME NEW k \in Nat, k \in Good PROVE k + 1 \in Good
  <2> SUFFICES ASSUME NEW set \in SUBSET D, Left(set) <= k + 1 PROVE \A s \in Seq(D) : Right(s, set)
    OBVIOUS
  <2>1. ASSUME NEW a \in D \ set PROVE \A s \in Seq(D) : Right(s, set \cup {a})
    <3>1. IsFiniteSet(D \ set)
      BY <1>0, Zenon
    <3>2. D \ (set \cup {a}) = (D \ set) \ {a}
      OBVIOUS
    <3>3. Left(set \cup {a}) = Left(set) - 1
      <4> DEFINE T == D \ set
      <4>1. a \in T /\ IsFiniteSet(T)
        BY <2>1, <3>1
      <4> HIDE DEF T
      <4>2. Cardinality(T \ {a}) = Cardinality(T) - 1
        BY <4>1, FS_RemoveElement, Zenon
      <4> QED
        BY <3>2, <4>2, Zenon DEF T
    <3>4. set \cup {a} \in SUBSET D
      BY <2>1
    <3>5. Left(set \cup {a}) <= k
      <4>1. Left(set) \in Nat
        BY <1>1, Zenon
      <4> HIDE DEF Left
      <4> QED
        BY <3>3, <4>1
    <3> HIDE DEF Right, Left
    <3> QED
      BY <1>6, <3>4, <3>5
  <2> HIDE DEF Right
  <2> QED
    BY <1>4, <2>1, Zenon
<1> HIDE DEF Good
<1>7. Left(seen) \in Nat
  BY <1>1, Zenon
<1>8. Left(seen) \in Good
  BY <1>5, <1>6, <1>7, SetInduction
<1>9. \A s \in Seq(D) : Right(s, seen)
  <2>1. Left(seen) <= Left(seen)
    BY <1>7
  <2> HIDE DEF Right, Left
  <2> QED
    BY <1>8, <2>1 DEF Good
<1> QED
  BY <1>9

\* What the work list reaches is the least set that transfers do not leave.
LEMMA ReachIs ==
    ASSUME NEW agents, WellLinked(agents), NEW start \in Seq(DOMAIN agents)
    PROVE  Reach(agents, start) = LeastOf(agents, ToSet(start))
<1> DEFINE D == DOMAIN agents
           ids == D \cup UNION {agents[a].handoffs \cup agents[a].routes : a \in DOMAIN agents}
           J == CHOOSE f : f = [work \in Seq(ids) \X SUBSET ids |->
                  IF work[1] = <<>> THEN work[2]
                  ELSE IF Last(work[1]) \in work[2] THEN f[<<Front(work[1]), work[2]>>]
                  ELSE f[<<Front(work[1]) \o NextOf(agents, Last(work[1])), work[2] \cup {Last(work[1])}>>]]
<1>1. ids = D
  BY Zenon DEF WellLinked
<1>2. Reach(agents, start) = J[<<start, {}>>]
  BY Zenon DEF Reach, NextOf
<1>3. IsWalk(agents, D, J)
  <2>1. \A f : IsWalk(agents, D, f) <=>
           f = [work \in Seq(ids) \X SUBSET ids |->
                  IF work[1] = <<>> THEN work[2]
                  ELSE IF Last(work[1]) \in work[2] THEN f[<<Front(work[1]), work[2]>>]
                  ELSE f[<<Front(work[1]) \o NextOf(agents, Last(work[1])), work[2] \cup {Last(work[1])}>>]]
    BY <1>1, Zenon DEF IsWalk, Taken
  <2> QED
    BY <2>1, WalkExists, ZenonT(60)
<1>4. J[<<start, {}>>] = InAll(agents, start, {})
  <2> HIDE DEF J
  <2> QED
    BY <1>3, WalkIs, Zenon
<1>5. InAll(agents, start, {}) = LeastOf(agents, ToSet(start))
  <2>1. \A S : S \in Holding(agents, start, {}) <=>
           S \in SUBSET D /\ ToSet(start) \subseteq S /\ \A a \in S : To(agents, a) \subseteq S
    BY DEF Holding
  <2> QED
    BY <2>1 DEF InAll, LeastOf
<1> QED
  BY <1>2, <1>4, <1>5

(***************************************************************************)
(* From facts to the record                                                *)
(***************************************************************************)

\* A known method has a rank.
LEMMA RankIsNatural ==
    ASSUME NEW f, f.method \in {Methods[i] : i \in DOMAIN Methods}
    PROVE  Rank(f) \in Nat
<1>1. DOMAIN Methods \subseteq Nat
  BY DEF Methods
<1>2. \E i \in DOMAIN Methods : Methods[i] = f.method
  OBVIOUS
<1>3. Rank(f) \in DOMAIN Methods
  BY <1>2, Zenon DEF Rank
<1> QED
  BY <1>1, <1>3

\* One of the facts with an id comes first.
LEMMA ThereIsAFirst ==
    ASSUME NEW facts, AllKinded(facts), NEW id, Same(facts, id) # {}
    PROVE  \E i \in Same(facts, id) : IsFirst(facts, Same(facts, id), i)
<1> DEFINE same == Same(facts, id)
           ranks == {Rank(facts[i]) : i \in same}
<1>1. DOMAIN facts \subseteq Nat
  <2>1. Len(facts) \in Nat /\ DOMAIN facts = 1..Len(facts)
    BY ListIsFunction DEF AllKinded
  <2> QED
    BY <2>1
<1>2. \A i \in same : i \in Nat /\ Rank(facts[i]) \in Nat
  <2> TAKE i \in same
  <2>1. i \in DOMAIN facts /\ facts[i].k # "edge"
    BY DEF Same
  <2>2. Kinded(facts[i])
    BY <2>1 DEF AllKinded, ToSet
  <2> QED
    BY <1>1, <2>1, <2>2, RankIsNatural DEF Kinded
<1> HIDE DEF same
<1>3. PICK r \in ranks : \A q \in ranks : r <= q
  <2>1. ranks \in SUBSET Nat /\ ranks # {}
    BY <1>2 DEF same
  <2> HIDE DEF ranks
  <2> QED
    BY <2>1, LeastMember
<1> DEFINE least == {i \in same : Rank(facts[i]) = r}
<1>4. PICK i \in least : \A j \in least : i <= j
  <2>1. least \in SUBSET Nat /\ least # {}
    BY <1>2, <1>3
  <2> HIDE DEF least
  <2> QED
    BY <2>1, LeastMember
<1>5. ASSUME NEW j \in same \ {i}
      PROVE  Rank(facts[i]) < Rank(facts[j]) \/ (Rank(facts[i]) = Rank(facts[j]) /\ i < j)
  <2>1. i \in same /\ Rank(facts[i]) = r /\ r <= Rank(facts[j])
    BY <1>3, <1>4
  <2>2. i \in Nat /\ j \in Nat /\ Rank(facts[i]) \in Nat /\ Rank(facts[j]) \in Nat
    BY <1>2, <2>1
  <2>3. CASE Rank(facts[j]) = r
    <3>1. i <= j /\ i # j
      BY <1>4, <2>3
    <3> QED
      BY <2>1, <2>2, <2>3, <3>1
  <2>4. CASE Rank(facts[j]) # r
    BY <2>1, <2>2, <2>4
  <2> QED
    BY <2>3, <2>4
<1> QED
  BY <1>4, <1>5 DEF same, IsFirst

\* A node is the first fact with its id, but for what is united.
LEMMA NodeIsAFact ==
    ASSUME NEW facts, AllKinded(facts), NEW id \in DOMAIN Nodes(facts)
    PROVE  LET n == Nodes(facts)[id] IN
           \E f \in ToSet(facts) :
              /\ f.k # "edge" /\ f.id = id /\ n.id = id /\ n.k = f.k
              /\ f.k = "usage" => n.model = f.model
              /\ f.k = "agent" => n.name = f.name /\ n.entry = f.entry
<1> DEFINE same == Same(facts, id)
           first == CHOOSE i \in same : IsFirst(facts, same, i)
<1>1. DOMAIN Nodes(facts) = {f.id : f \in {g \in ToSet(facts) : g.k # "edge"}}
      /\ Nodes(facts)[id] = Merged(facts, id)
  BY DEF Nodes
<1>2. same # {}
  BY <1>1 DEF Same, ToSet
<1>3. first \in same
  BY <1>2, ThereIsAFirst
<1>4. Merged(facts, id) =
        [facts[first] EXCEPT !.ev = UNION {ToSet(facts[i].ev) : i \in same},
                             !.method = {facts[i].method : i \in same},
                             !.src = {facts[i].src : i \in same}]
  BY Zenon DEF Merged, Same, IsFirst
<1> DEFINE f == facts[first]
           n == Nodes(facts)[id]
<1>5. f \in ToSet(facts) /\ f.k # "edge" /\ f.id = id
  BY <1>3, Zenon DEF Same, ToSet
<1>6. Kinded(f)
  BY <1>5 DEF AllKinded
<1> HIDE DEF first, same
<1>7. /\ n.id = f.id /\ n.k = f.k
      /\ f.k = "usage" => n.model = f.model
      /\ f.k = "agent" => n.name = f.name /\ n.entry = f.entry
  BY <1>1, <1>4, <1>5, <1>6 DEF Kinded
<1> QED
  BY <1>5, <1>7

\* A node is of the kind that its id names.
LEMMA NodeKinds ==
    ASSUME NEW facts, AllKinded(facts), NEW id \in DOMAIN Nodes(facts)
    PROVE  /\ Nodes(facts)[id].id = id /\ Nodes(facts)[id].k = id[1]
           /\ Nodes(facts)[id].k = "usage" => Nodes(facts)[id].model[1] = "model"
<1>1. PICK f \in ToSet(facts) :
              /\ f.k # "edge" /\ f.id = id /\ Nodes(facts)[id].id = id /\ Nodes(facts)[id].k = f.k
              /\ f.k = "usage" => Nodes(facts)[id].model = f.model
  BY NodeIsAFact
<1>2. Kinded(f)
  BY DEF AllKinded
<1> QED
  BY <1>1, <1>2 DEF Kinded

\* An edge of the graph joins two nodes of the kinds that its type asks for.
LEMMA EdgesJoin ==
    ASSUME NEW facts, AllKinded(facts), NEW e \in Joined(Nodes(facts), Bound(facts) \cup UsageEdges(Nodes(facts)))
    PROVE  /\ {e.from, e.to} \subseteq DOMAIN Nodes(facts)
           /\ Joins(e.type, Nodes(facts)[e.from].k, Nodes(facts)[e.to].k)
<1> DEFINE nodes == Nodes(facts)
<1>1. e.from \in DOMAIN nodes /\ e.to \in DOMAIN nodes
  BY DEF Joined
<1>2. nodes[e.from].k = e.from[1] /\ nodes[e.to].k = e.to[1]
  BY <1>1, NodeKinds
<1>3. CASE e \in Bound(facts)
  <2>1. PICK f \in ToSet(facts) : f.k = "edge" /\ e.type = f.type /\ e.from = f.from /\ e.to = f.to
    BY <1>3 DEF Bound
  <2>2. Joins(f.type, f.from[1], f.to[1])
    BY <2>1 DEF AllKinded, Kinded
  <2> QED
    BY <1>1, <1>2, <2>1, <2>2
<1>4. CASE e \in UsageEdges(nodes)
  <2>1. PICK id \in OfKind(nodes, "usage") :
           e.type = "uses_model" /\ e.from = id /\ e.to = nodes[id].model
    <3> HIDE DEF nodes
    <3>1. PICK id \in OfKind(nodes, "usage") :
             e = [type |-> "uses_model", from |-> id, to |-> nodes[id].model, guard |-> "",
                  ev |-> nodes[id].ev]
      BY <1>4, Zenon DEF UsageEdges
    <3> QED
      BY <3>1, Zenon
  <2>2. id \in DOMAIN nodes /\ nodes[id].k = "usage"
    BY <2>1 DEF OfKind
  <2>3. e.to[1] = "model"
    BY <2>1, <2>2, NodeKinds
  <2> QED
    BY <1>1, <1>2, <2>1, <2>2, <2>3 DEF Joins
<1> QED
  BY <1>3, <1>4 DEF Joined

\* The graph of any facts of known kinds is well formed.
LEMMA GraphIsWellFormed ==
    ASSUME NEW facts, AllKinded(facts)
    PROVE  WellFormed(Graph(facts))
<1> DEFINE nodes == Nodes(facts)
           edges == Joined(nodes, Bound(facts) \cup UsageEdges(nodes))
<1>1. /\ Graph(facts).nodes = nodes
      /\ DOMAIN Graph(facts).edges = {Key(e) : e \in edges}
  BY DEF Graph, GraphOf
<1>2. \A id \in DOMAIN nodes : nodes[id].id = id
  BY NodeKinds
<1>3. ASSUME NEW key \in {Key(e) : e \in edges}
      PROVE  /\ {key.from, key.to} \subseteq DOMAIN nodes
             /\ Joins(key.type, nodes[key.from].k, nodes[key.to].k)
  <2>1. PICK e \in edges : key = Key(e)
    OBVIOUS
  <2>2. key.type = e.type /\ key.from = e.from /\ key.to = e.to
    BY <2>1 DEF Key
  <2> HIDE DEF nodes
  <2> QED
    BY <2>1, <2>2, EdgesJoin DEF nodes
<1> HIDE DEF nodes, edges
<1> QED
  BY <1>1, <1>2, <1>3 DEF WellFormed, Joins

\* The agents of a well-formed graph are finitely many and transfer to each other.
LEMMA RecordIsLinked ==
    ASSUME NEW facts, AllKinded(facts), NEW sinkCount
    PROVE  WellLinked(Record(facts, sinkCount).agents)
<1> DEFINE g == Graph(facts)
           nodes == Nodes(facts)
           Of == OfKind(g.nodes, "agent")
           agents == Record(facts, sinkCount).agents
<1>1. /\ g.nodes = nodes
      /\ agents = [r \in {Tail(id) : id \in Of} |-> AgentRecord(g, <<"agent">> \o r)]
  BY DEF Graph, GraphOf, Record, RecordOf
<1>2. WellFormed(g)
  BY GraphIsWellFormed
<1>3. IsFiniteSet({Tail(id) : id \in Of})
  <2> DEFINE byFact == [f \in ToSet(facts) |-> f.id]
             tails == [id \in Of |-> Tail(id)]
  <2>1. IsFiniteSet({byFact[x] : x \in DOMAIN byFact})
    <3>1. DOMAIN byFact = ToSet(facts)
      OBVIOUS
    <3> HIDE DEF byFact
    <3> QED
      BY <3>1, ListIsFinite, ImageIsFinite DEF AllKinded
  <2>2. Of \subseteq {byFact[x] : x \in DOMAIN byFact}
    BY <1>1 DEF OfKind, Nodes
  <2>3. IsFiniteSet(Of) /\ DOMAIN tails = Of
    BY <2>1, <2>2, FS_Subset
  <2>4. IsFiniteSet({tails[x] : x \in DOMAIN tails})
    <3> HIDE DEF tails
    <3> QED
      BY <2>3, ImageIsFinite
  <2> QED
    BY <2>4, Zenon
<1>4. ASSUME NEW id, NEW to \in Neighbours(g, id, "transfer:handoff") \cup Neighbours(g, id, "transfer:route")
      PROVE  to \in Of
  <2>1. PICK e \in DOMAIN g.edges : e.to = to /\ e.type \in {"transfer:handoff", "transfer:route"}
    BY <1>4 DEF Neighbours
  <2>2. e.to \in DOMAIN g.nodes /\ g.nodes[e.to].k = "agent"
    <3> HIDE DEF g
    <3> QED
      BY <1>2, <2>1 DEF WellFormed
  <2> QED
    BY <2>1, <2>2 DEF OfKind
<1>5. ASSUME NEW r \in DOMAIN agents
      PROVE  agents[r].handoffs \cup agents[r].routes \subseteq DOMAIN agents
  <2> DEFINE id == <<"agent">> \o r
  <2>1. DOMAIN agents = {Tail(i) : i \in Of} /\ agents[r] = AgentRecord(g, id)
    <3> HIDE DEF g, Of, agents, id
    <3> QED
      BY <1>1, <1>5 DEF id
  <2> HIDE DEF id
  <2>2. /\ agents[r].handoffs = {Tail(to) : to \in Neighbours(g, id, "transfer:handoff")}
        /\ agents[r].routes = {Tail(to) : to \in Neighbours(g, id, "transfer:route")}
    BY <2>1 DEF AgentRecord
  <2> HIDE DEF g, Of, agents
  <2> QED
    BY <1>4, <2>1, <2>2
<1> HIDE DEF g, Of
<1> QED
  BY <1>1, <1>3, <1>5, Zenon DEF WellLinked

\* What is derived from a record follows its transfers.
LEMMA DerivedFollows ==
    ASSUME NEW record, WellLinked(record.agents)
    PROVE  LET agents == record.agents
               live   == LeastOf(agents, {a \in DOMAIN agents : agents[a].entry})
           IN  \A a \in DOMAIN agents :
                  /\ Derived(record).agents[a].tools = UNION {agents[b].tools : b \in LeastOf(agents, {a})}
                  /\ Derived(record).agents[a].liveness = "defined" <=> a \notin live
<1> DEFINE agents == record.agents
           D == DOMAIN agents
           entries == {a \in D : agents[a].entry}
<1>1. ASSUME NEW a \in D
      PROVE  Reach(agents, <<a>>) = LeastOf(agents, {a})
  <2>1. <<a>> \in Seq(D)
    <3> HIDE DEF D
    <3> QED
      BY <1>1
  <2>2. ToSet(<<a>>) = {a}
    BY ShortLists
  <2> QED
    BY <2>1, <2>2, ReachIs, Zenon
<1>2. ReachedFromEntrypoints(agents) = LeastOf(agents, entries)
  <2>1. IsFiniteSet(entries) /\ entries \subseteq D
    BY FS_Subset DEF WellLinked
  <2>2. ReachedFromEntrypoints(agents) = Reach(agents, Listed(entries))
    BY DEF ReachedFromEntrypoints
  <2> HIDE DEF entries
  <2>3. IsList(Listed(entries)) /\ ToSet(Listed(entries)) = entries
    BY <2>1, ListedAre
  <2>4. Listed(entries) \in Seq(D)
    BY <2>1, <2>3, SeqMonotonic DEF IsList
  <2> QED
    BY <2>2, <2>3, <2>4, ReachIs
<1>3. entries \subseteq LeastOf(agents, entries) /\ \A a \in D : LeastOf(agents, {a}) \cap D = LeastOf(agents, {a})
  BY DEF LeastOf
<1>4. ASSUME NEW a \in D
      PROVE  /\ Derived(record).agents[a].tools = UNION {agents[b].tools : b \in LeastOf(agents, {a})}
             /\ Derived(record).agents[a].liveness = "defined" <=> a \notin LeastOf(agents, entries)
  <2>1. /\ Derived(record).agents[a].tools = ReachableTools(agents, a)
        /\ Derived(record).agents[a].liveness = Liveness(agents, a)
    BY DEF Derived
  <2>2. ReachableTools(agents, a) = UNION {agents[b].tools : b \in LeastOf(agents, {a})}
    BY <1>1, <1>3 DEF ReachableTools
  <2>3. a \in entries <=> agents[a].entry
    OBVIOUS
  <2> HIDE DEF entries
  <2>4. Liveness(agents, a) = "defined" <=> a \notin LeastOf(agents, entries)
    BY <1>2, <1>3, <2>3 DEF Liveness
  <2> QED
    BY <2>1, <2>2, <2>4
<1> QED
  BY <1>4, Zenon

(***************************************************************************)
(* What the rules emit                                                     *)
(***************************************************************************)

\* The plain lists of no, one and two facts.
LEMMA PlainShort ==
    /\ Plain(<<>>)
    /\ \A a : PlainFact(a) => Plain(<<a>>)
    /\ \A a, b : PlainFact(a) /\ PlainFact(b) => Plain(<<a, b>>)
<1>1. Plain(<<>>)
  BY ShortLists DEF Plain
<1>2. ASSUME NEW a, PlainFact(a) PROVE Plain(<<a>>)
  BY <1>2, ShortLists DEF Plain
<1>3. ASSUME NEW a, NEW b, PlainFact(a), PlainFact(b) PROVE Plain(<<a, b>>)
  <2>1. IsList(<<a, b>>) /\ ToSet(<<a, b>>) = {a, b}
    BY ShortLists
  <2> QED
    BY <1>3, <2>1 DEF Plain
<1> QED
  BY <1>1, <1>2, <1>3

\* Two plain lists joined are plain.
LEMMA PlainCat ==
    ASSUME NEW s, NEW t, Plain(s), Plain(t)
    PROVE  Plain(s \o t)
BY Concatenated DEF Plain

\* Plain lists flattened are plain.
LEMMA PlainFlat ==
    ASSUME NEW n \in Nat, NEW seqs, seqs = [i \in 1..n |-> seqs[i]], \A i \in 1..n : Plain(seqs[i])
    PROVE  Plain(FlattenSeq(seqs))
<1>1. /\ IsList(FlattenSeq(seqs))
      /\ ToSet(FlattenSeq(seqs)) = UNION {ToSet(seqs[i]) : i \in 1..n}
  BY Flattened DEF Plain
<1>2. ASSUME NEW f \in ToSet(FlattenSeq(seqs)) PROVE PlainFact(f)
  <2>1. PICK i \in 1..n : f \in ToSet(seqs[i])
    BY <1>1
  <2> QED
    BY <2>1 DEF Plain
<1> QED
  BY <1>1, <1>2 DEF Plain

\* The plain lists of a finite set, flattened, are plain.
LEMMA PlainListed ==
    ASSUME NEW S, IsFiniteSet(S), \A s \in S : Plain(s)
    PROVE  Plain(FlattenSeq(Listed(S)))
<1> DEFINE l == Listed(S)
<1>1. IsList(l) /\ ToSet(l) = S
  BY ListedAre
<1> HIDE DEF l
<1>2. Len(l) \in Nat /\ DOMAIN l = 1..Len(l) /\ l = [i \in 1..Len(l) |-> l[i]]
  BY <1>1, ListIsFunction
<1>3. \A i \in 1..Len(l) : Plain(l[i])
  BY <1>1, <1>2 DEF ToSet
<1>4. Plain(FlattenSeq(l))
  BY <1>2, <1>3, PlainFlat
<1> QED
  BY <1>4 DEF l

\* A reference resolves to one construct of a kind, or to none.
LEMMA LookupIsOne ==
    ASSUME NEW t, \A m \in DOMAIN t.text : IsList(t.text[m].body), NEW ref, NEW kind
    PROVE  /\ Lookup(t, ref, kind) = {} \/ \E site : Lookup(t, ref, kind) = {site}
           /\ \A site \in Lookup(t, ref, kind) :
                 /\ ref.mod \in DOMAIN t.text
                 /\ \E i \in DOMAIN t.text[ref.mod].body : site = <<ref.mod, i>>
<1>1. CASE ref.mod \notin DOMAIN t.text
  BY <1>1 DEF Lookup
<1>2. CASE ref.mod \in DOMAIN t.text
  <2> DEFINE body == t.text[ref.mod].body
             hits == {i \in DOMAIN body : body[i].c = kind /\ body[i].var = ref.var}
             lasts == {j \in hits : \A k \in hits : k <= j}
  <2>1. Lookup(t, ref, kind) = {<<ref.mod, i>> : i \in lasts}
    BY <1>2, Zenon DEF Lookup
  <2>2. DOMAIN body \subseteq Nat
    <3>1. Len(body) \in Nat /\ DOMAIN body = 1..Len(body)
      BY <1>2, ListIsFunction
    <3> QED
      BY <3>1
  <2>3. \A i \in lasts, j \in lasts : i = j
    <3>1. \A i \in lasts, j \in lasts : i <= j /\ j <= i /\ i \in Nat /\ j \in Nat
      BY <2>2, Zenon
    <3> HIDE DEF lasts
    <3> QED
      BY <3>1
  <2>4. lasts \subseteq DOMAIN body
    OBVIOUS
  <2> HIDE DEF body, lasts
  <2>5. lasts = {} \/ \E i : lasts = {i}
    <3>1. ASSUME NEW i \in lasts PROVE lasts = {i}
      BY <2>3
    <3> QED
      BY <3>1
  <2>6. Lookup(t, ref, kind) = {} \/ \E site : Lookup(t, ref, kind) = {site}
    <3>1. CASE lasts = {}
      BY <2>1, <3>1
    <3>2. ASSUME NEW i, lasts = {i} PROVE Lookup(t, ref, kind) = {<<ref.mod, i>>}
      BY <2>1, <3>2
    <3> QED
      BY <2>5, <3>1, <3>2, Zenon
  <2> QED
    BY <1>2, <2>1, <2>4, <2>6, Zenon DEF body
<1> QED
  BY <1>1, <1>2, Zenon

\* The methods by name.
LEMMA MethodsAre ==
    MethodNames = {"ctor", "declared", "mcp", "model", "promotion", "refs", "shape", "state", "task", "usage"}
BY DEF MethodNames, Methods

\* An edge between the right kinds is plain.
LEMMA EdgeIsPlain ==
    ASSUME NEW type, NEW from, NEW to, NEW guard, NEW site, Joins(type, from[1], to[1])
    PROVE  PlainFact(Edge(type, from, to, guard, site))
BY DEF PlainFact, Kinded, Edge

\* A tool is plain.
LEMMA ToolFactIsPlain ==
    ASSUME NEW t, NEW llmSpans, NEW site, NEW name, NEW user, NEW method \in MethodNames
    PROVE  PlainFact(ToolFact(t, llmSpans, site, name, user, method))
BY DEF PlainFact, Kinded, ToolFact, MethodNames

\* An MCP server is plain.
LEMMA ServerFactIsPlain ==
    ASSUME NEW label, NEW ev, NEW src
    PROVE  PlainFact(ServerFact(label, ev, src))
BY MethodsAre DEF PlainFact, Kinded, ServerFact, MethodNames

\* A model is plain, and its id is that of a model.
LEMMA ModelFactIsPlain ==
    ASSUME NEW t, NEW e, NEW style, NEW site
    PROVE  PlainFact(ModelFact(t, e, style, site)) /\ ModelFact(t, e, style, site).id[1] = "model"
<1>1. ModelId(Value(t, e), style)[1] = "model"
  BY DEF ModelId
<1> QED
  BY <1>1, MethodsAre DEF PlainFact, Kinded, ModelFact, MethodNames

\* An approval policy and its attachment are plain.
LEMMA ApprovalIsPlain ==
    ASSUME NEW x, NEW site
    PROVE  Plain(ApprovalFacts(x, site))
<1> DEFINE policy == <<"policy", "approval", x.label>>
           fact == [k |-> "policy", id |-> policy, method |-> "mcp", ev |-> <<site>>, src |-> site[1]]
           edge == Edge("attach_policy", policy, <<"mcp", x.label>>, "", site)
<1>1. PlainFact(fact)
  BY MethodsAre DEF PlainFact, Kinded, MethodNames
<1>2. PlainFact(edge)
  BY EdgeIsPlain, Zenon DEF Joins
<1>3. ApprovalFacts(x, site) = <<>> \/ ApprovalFacts(x, site) = <<fact, edge>>
  BY Zenon DEF ApprovalFacts
<1> HIDE DEF fact, edge
<1> QED
  BY <1>1, <1>2, <1>3, PlainShort

\* A model with its binding to an agent is plain.
LEMMA BindingIsPlain ==
    ASSUME NEW model, PlainFact(model), model.id[1] = "model", NEW agent, agent[1] = "agent", NEW ev
    PROVE  Plain(WithBinding(model, agent, ev))
<1> DEFINE edge == [Edge("bind_model", agent, model.id, "", ev[1]) EXCEPT !.ev = ev]
<1>1. PlainFact(edge)
  BY DEF PlainFact, Kinded, Edge, Joins
<1>2. WithBinding(model, agent, ev) = <<model, edge>>
  BY DEF WithBinding
<1> HIDE DEF edge
<1> QED
  BY <1>1, <1>2, PlainShort

\* A reference resolves to nothing or to one site of the tree.
LEMMA GoodLookup ==
    ASSUME NEW t, GoodTree(t), NEW ref, NEW kind
    PROVE  /\ Lookup(t, ref, kind) = {} \/ \E site : Lookup(t, ref, kind) = {site}
           /\ IsFiniteSet(Lookup(t, ref, kind))
           /\ \A site \in Lookup(t, ref, kind) :
                 /\ ref.mod \in DOMAIN t.text
                 /\ \E i \in DOMAIN t.text[ref.mod].body : site = <<ref.mod, i>>
<1>1. \A m \in DOMAIN t.text : IsList(t.text[m].body)
  BY DEF GoodTree
<1>2. Lookup(t, ref, kind) = {} \/ \E site : Lookup(t, ref, kind) = {site}
  BY <1>1, LookupIsOne, Zenon
<1>4. ASSUME NEW site \in Lookup(t, ref, kind)
      PROVE  /\ ref.mod \in DOMAIN t.text
             /\ \E i \in DOMAIN t.text[ref.mod].body : site = <<ref.mod, i>>
  BY <1>1, LookupIsOne
<1>3. IsFiniteSet(Lookup(t, ref, kind))
  BY <1>2, OneOrNoneIsFinite
<1> QED
  BY <1>2, <1>4, <1>3

\* What is listed for each construct that a reference resolves to: a list or nothing.
LEMMA NamedAreFinite ==
    ASSUME NEW t, GoodTree(t), NEW ref
    PROVE  IsFiniteSet(AgentNamed(t, ref))
<1>1. CASE Lookup(t, ref, "agent") = {}
  <2>1. AgentNamed(t, ref) = {}
    BY <1>1, Zenon DEF AgentNamed
  <2> QED
    BY <2>1, FS_EmptySet
<1>2. CASE \E site : Lookup(t, ref, "agent") = {site}
  <2>1. PICK site : Lookup(t, ref, "agent") = {site}
    BY <1>2
  <2>2. AgentNamed(t, ref) \subseteq {At(t, site).name}
    BY <2>1, Zenon DEF AgentNamed
  <2> QED
    BY <2>2, FS_Singleton, FS_Subset, Zenon
<1> QED
  BY <1>1, <1>2, GoodLookup, Zenon

\* A tool with its binding is plain.
LEMMA BoundToolIsPlain ==
    ASSUME NEW t, GoodTree(t), NEW llmSpans, NEW ref, NEW agent, agent[1] = "agent", NEW site,
           NEW method \in MethodNames
    PROVE  Plain(BoundTool(t, llmSpans, ref, agent, site, method))
<1> DEFINE Facts(s) == <<ToolFact(t, llmSpans, s, ref.var, site[1], method),
                         Edge("bind_tool", agent, <<"tool", ref.mod, ref.var>>, "", site)>>
           found == Lookup(t, ref, "def")
<1>1. \A s : Plain(Facts(s))
  <2> TAKE s
  <2>1. PlainFact(ToolFact(t, llmSpans, s, ref.var, site[1], method))
    BY ToolFactIsPlain
  <2>2. PlainFact(Edge("bind_tool", agent, <<"tool", ref.mod, ref.var>>, "", site))
    BY EdgeIsPlain, Zenon DEF Joins
  <2> QED
    BY <2>1, <2>2, PlainShort, Zenon
<1> DEFINE all == {Facts(s) : s \in found}
<1>2. IsFiniteSet(all)
  <2>1. found = {} \/ \E s : found = {s}
    BY GoodLookup
  <2> HIDE DEF found, Facts
  <2>2. all = {} \/ \E x : all = {x}
    <3>1. ASSUME NEW s, found = {s} PROVE all = {Facts(s)}
      BY <3>1
    <3>2. found = {} => all = {}
      OBVIOUS
    <3> QED
      BY <2>1, <3>1, <3>2
  <2> QED
    BY <2>2, OneOrNoneIsFinite, Zenon
<1>3. BoundTool(t, llmSpans, ref, agent, site, method) = FlattenSeq(Listed(all))
  BY DEF BoundTool
<1> HIDE DEF Facts
<1>4. \A a \in all : Plain(a)
  BY <1>1
<1> QED
  BY <1>2, <1>3, <1>4, PlainListed

\* A server with its binding is plain.
LEMMA BoundServerIsPlain ==
    ASSUME NEW t, GoodTree(t), NEW ref, NEW agent, agent[1] = "agent", NEW site
    PROVE  Plain(BoundServer(t, ref, agent, site))
<1> DEFINE Facts(s) == <<ServerFact(At(t, s).label, site, site[1]),
                         Edge("bind_mcp", agent, <<"mcp", At(t, s).label>>, "", site)>>
           found == Lookup(t, ref, "server")
<1>1. \A s : Plain(Facts(s))
  <2> TAKE s
  <2>1. PlainFact(ServerFact(At(t, s).label, site, site[1]))
    BY ServerFactIsPlain
  <2>2. PlainFact(Edge("bind_mcp", agent, <<"mcp", At(t, s).label>>, "", site))
    BY EdgeIsPlain, Zenon DEF Joins
  <2> QED
    BY <2>1, <2>2, PlainShort, Zenon
<1> DEFINE all == {Facts(s) : s \in found}
<1>2. IsFiniteSet(all)
  <2>1. found = {} \/ \E s : found = {s}
    BY GoodLookup, Zenon
  <2> HIDE DEF found, Facts
  <2>2. all = {} \/ \E x : all = {x}
    <3>1. ASSUME NEW s, found = {s} PROVE all = {Facts(s)}
      BY <3>1
    <3>2. found = {} => all = {}
      OBVIOUS
    <3> QED
      BY <2>1, <3>1, <3>2
  <2> QED
    BY <2>2, OneOrNoneIsFinite, Zenon
<1>3. BoundServer(t, ref, agent, site) = FlattenSeq(Listed(all))
  BY DEF BoundServer
<1> HIDE DEF Facts
<1>4. \A a \in all : Plain(a)
  BY <1>1
<1> QED
  BY <1>2, <1>3, <1>4, PlainListed

\* What the servers among the tools of an agent bring along is plain.
LEMMA SideFactsArePlain ==
    ASSUME NEW t, GoodTree(t), NEW refs, IsList(refs), NEW site
    PROVE  Plain(SideFacts(t, refs, site))
<1> DEFINE Of(i) == {ApprovalFacts(At(t, s), site) : s \in Lookup(t, refs[i], "server")}
           parts == [i \in DOMAIN refs |-> FlattenSeq(Listed(Of(i)))]
<1>1. \A i : Plain(FlattenSeq(Listed(Of(i))))
  <2> TAKE i
  <2> DEFINE found == Lookup(t, refs[i], "server")
             all == {ApprovalFacts(At(t, s), site) : s \in found}
  <2>1. \A a \in all : Plain(a)
    BY ApprovalIsPlain
  <2>2. found = {} \/ \E s : found = {s}
    BY GoodLookup
  <2> HIDE DEF found
  <2>3. all = {} \/ \E x : all = {x}
    <3>1. ASSUME NEW s, found = {s} PROVE all = {ApprovalFacts(At(t, s), site)}
      BY <3>1
    <3>2. found = {} => all = {}
      OBVIOUS
    <3> QED
      BY <2>2, <3>1, <3>2
  <2>4. IsFiniteSet(all)
    BY <2>3, OneOrNoneIsFinite, Zenon
  <2> HIDE DEF all
  <2>5. Plain(FlattenSeq(Listed(all)))
    BY <2>1, <2>4, PlainListed
  <2> QED
    BY <2>5 DEF all, found
<1>2. Len(refs) \in Nat /\ DOMAIN refs = 1..Len(refs)
  BY ListIsFunction
<1>3. SideFacts(t, refs, site) = FlattenSeq(parts)
  BY DEF SideFacts
<1>4. parts = [i \in 1..Len(refs) |-> parts[i]] /\ \A i \in 1..Len(refs) : parts[i] = FlattenSeq(Listed(Of(i)))
  BY <1>2
<1> HIDE DEF parts, Of
<1> QED
  BY <1>1, <1>2, <1>3, <1>4, PlainFlat

\* The model of an agent with its binding is plain.
LEMMA BoundModelIsPlain ==
    ASSUME NEW t, NEW e, NEW agent, agent[1] = "agent", NEW style, NEW site
    PROVE  Plain(BoundModel(t, e, agent, style, site))
BY ModelFactIsPlain, BindingIsPlain DEF BoundModel

\* The servers of the configuration files are plain.
LEMMA ConfigIsPlain ==
    ASSUME NEW t, IsFiniteSet(t.config)
    PROVE  Plain(ConfigFacts(t))
<1> DEFINE labels == Listed(t.config)
           F(i) == ServerFact(labels[i], <<"config", 1>>, "config")
           facts == [i \in DOMAIN labels |-> F(i)]
<1>1. Len(labels) \in Nat /\ DOMAIN labels = 1..Len(labels)
  BY ListedAre, ListIsFunction
<1>2. \A i : PlainFact(F(i))
  BY ServerFactIsPlain
<1>3. ConfigFacts(t) = facts
  BY DEF ConfigFacts
<1> HIDE DEF labels, F
<1>4. facts = [i \in 1..Len(labels) |-> facts[i]] /\ \A i \in 1..Len(labels) : facts[i] = F(i)
  BY <1>1
<1> HIDE DEF facts
<1>5. IsList(facts) /\ DOMAIN facts = 1..Len(labels)
  BY <1>1, <1>4, FunctionIsList
<1>6. \A f \in ToSet(facts) : PlainFact(f)
  BY <1>2, <1>4, <1>5 DEF ToSet
<1> QED
  BY <1>3, <1>5, <1>6 DEF Plain

\* A tree has finitely many model calls.
LEMMA SinksAreFinite ==
    ASSUME NEW t, GoodTree(t), NEW mods
    PROVE  IsFiniteSet(SinkSites(t, mods))
<1> DEFINE In(m) == {<<m, i>> : i \in {j \in DOMAIN t.text[m].body : t.text[m].body[j].c = "def"
                                                                /\ t.text[m].body[j].sink # "none"}}
           D == mods \cap DOMAIN t.text
           all == {In(m) : m \in D}
<1>1. IsFiniteSet(D)
  BY ListIsFinite, OrderAssumption, FS_Subset DEF GoodTree
<1>2. ASSUME NEW m \in D PROVE IsFiniteSet(In(m))
  <2> DEFINE body == t.text[m].body
             hits == {j \in DOMAIN body : body[j].c = "def" /\ body[j].sink # "none"}
             g == [i \in hits |-> <<m, i>>]
  <2>1. IsList(body)
    BY DEF GoodTree
  <2>2. IsFiniteSet(DOMAIN body)
    <3> HIDE DEF body
    <3>1. Len(body) \in Nat /\ DOMAIN body = 1..Len(body)
      BY <2>1, ListIsFunction
    <3>2. IsFiniteSet(1..Len(body))
      BY <3>1, FS_Interval
    <3> QED
      BY <3>1, <3>2
  <2>3. IsFiniteSet(hits)
    BY <2>2, FS_Subset
  <2>4. IsFiniteSet({g[x] : x \in DOMAIN g})
    BY <2>3, ImageIsFinite, Zenon
  <2>5. {g[x] : x \in DOMAIN g} = In(m)
    BY Zenon
  <2> QED
    BY <2>4, <2>5, Zenon
<1> DEFINE h == [m \in D |-> In(m)]
<1>3. IsFiniteSet({h[x] : x \in DOMAIN h})
  BY <1>1, ImageIsFinite, Zenon
<1> HIDE DEF In
<1>4. {h[x] : x \in DOMAIN h} = all
  BY Zenon
<1>5. \A s \in all : IsFiniteSet(s)
  BY <1>2
<1>6. IsFiniteSet(UNION all)
  BY <1>3, <1>4, <1>5, FS_UNION, Zenon
<1>7. SinkSites(t, mods) = UNION all
  BY DEF SinkSites, In
<1> QED
  BY <1>6, <1>7

\* Usages are plain.
LEMMA UsagesArePlain ==
    ASSUME NEW t, GoodTree(t), NEW mods, NEW consumed
    PROVE  Plain(UsageFacts(t, SinkSites(t, mods), consumed))
<1> DEFINE sinks == SinkSites(t, mods)
           sites == {s \in sinks \ consumed : ~At(t, s).wrapper}
           Model(s) == ModelFact(t, At(t, s).model, "sink", s)
           Usage(s) == [k |-> "usage", id |-> <<"usage">> \o s, model |-> Model(s).id,
                        method |-> "usage", ev |-> <<s>>, src |-> s[1]]
           Facts(s) == <<Model(s), Usage(s)>>
           all == {Facts(s) : s \in sites}
<1>1. ASSUME NEW s \in sites PROVE Plain(Facts(s))
  <2>1. PlainFact(Model(s)) /\ Model(s).id[1] = "model"
    BY ModelFactIsPlain
  <2>2. \E m, i : s = <<m, i>>
    BY DEF SinkSites
  <2>3. (<<"usage">> \o s)[1] = "usage"
    BY <2>2
  <2> HIDE DEF Model
  <2>4. PlainFact(Usage(s))
    BY <2>1, <2>3, MethodsAre DEF PlainFact, Kinded, MethodNames
  <2> QED
    BY <2>1, <2>4, PlainShort, Zenon
<1>2. IsFiniteSet(sites)
  BY SinksAreFinite, FS_Subset
<1>3. UsageFacts(t, sinks, consumed) = FlattenSeq(Listed(all))
  BY DEF UsageFacts
<1> HIDE DEF Facts, sites
<1>4. IsFiniteSet(all)
  <2> DEFINE g == [s \in sites |-> Facts(s)]
  <2>1. IsFiniteSet({g[x] : x \in DOMAIN g})
    BY <1>2, ImageIsFinite, Zenon
  <2>2. {g[x] : x \in DOMAIN g} = all
    OBVIOUS
  <2> QED
    BY <2>1, <2>2
<1>5. \A a \in all : Plain(a)
  BY <1>1
<1> HIDE DEF all
<1> QED
  BY <1>3, <1>4, <1>5, PlainListed

(***************************************************************************)
(* What a run keeps                                                        *)
(***************************************************************************)

\* A finite set of plain facts, listed, is plain.
LEMMA PlainSet ==
    ASSUME NEW S, IsFiniteSet(S), \A f \in S : PlainFact(f)
    PROVE  Plain(Listed(S))
BY ListedAre DEF Plain

\* The id of an agent: its bare id if it owns it, else with its site behind it.
LEMMA AgentIdIs ==
    ASSUME NEW run, NEW name, NEW site, Pair(site)
    PROVE  /\ BareId(name) \o site # BareId(name)
           /\ AgentId(run, name, site)[1] = "agent"
           /\ \/ AgentId(run, name, site) = BareId(name) \o site
              \/ /\ AgentId(run, name, site) = BareId(name)
                 /\ Slug[name] \in DOMAIN run.ids => run.ids[Slug[name]] = site
<1>1. /\ (BareId(name) \o site)[1] = "agent" /\ BareId(name)[1] = "agent"
      /\ Len(BareId(name) \o site) = 4 /\ Len(BareId(name)) = 2
  <2>1. ASSUME NEW s, NEW a, NEW b
        PROVE  /\ (<<"agent", s>> \o <<a, b>>)[1] = "agent" /\ Len(<<"agent", s>> \o <<a, b>>) = 4
               /\ Len(<<"agent", s>>) = 2
    OBVIOUS
  <2>2. PICK a, b : site = <<a, b>>
    BY DEF Pair
  <2>3. BareId(name) = <<"agent", Slug[name]>> /\ BareId(name) \o site = <<"agent", Slug[name]>> \o <<a, b>>
    BY <2>2 DEF BareId
  <2> QED
    BY <2>1, <2>3
<1> QED
  BY <1>1, SMTT(30) DEF AgentId

\* Registering a name leaves what was registered, and gives a bare id to its owner.
LEMMA RegisteredIs ==
    ASSUME NEW run, IsRun(run), NEW name, NEW site, Pair(site)
    PROVE  LET r == Registered(run, name, site) IN
           /\ IsRun(r)
           /\ r.facts = run.facts /\ r.marks = run.marks /\ r.cands = run.cands
           /\ Extended(run.ids, r.ids)
           /\ AgentId(run, name, site) = BareId(name) =>
                 Slug[name] \in DOMAIN r.ids /\ r.ids[Slug[name]] = site
<1> DEFINE ids == [s \in DOMAIN run.ids \cup {Slug[name]} |-> IF s = Slug[name] THEN site ELSE run.ids[s]]
           r == Registered(run, name, site)
<1>1. CASE AgentId(run, name, site) # BareId(name)
  <2>1. r = run
    BY <1>1 DEF Registered
  <2> QED
    BY <1>1, <2>1 DEF Extended
<1>2. CASE AgentId(run, name, site) = BareId(name)
  <2>1. r = [run EXCEPT !.ids = ids]
    BY <1>2 DEF Registered
  <2>2. Slug[name] \in DOMAIN run.ids => run.ids[Slug[name]] = site
    BY <1>2, AgentIdIs
  <2>3. Extended(run.ids, ids) /\ Slug[name] \in DOMAIN ids /\ ids[Slug[name]] = site
    BY <2>2 DEF Extended
  <2> HIDE DEF ids, r
  <2>4. /\ r = RunOf(run.facts, ids, run.marks, run.cands, run.routes, run.crews, run.consumed)
    BY <2>1 DEF IsRun
  <2> QED
    BY <2>3, <2>4 DEF IsRun, r
<1> QED
  BY <1>1, <1>2

\* What emitting facts does to a run.
LEMMA EmitIs ==
    ASSUME NEW run, IsRun(run), NEW facts, IsList(facts)
    PROVE  LET r == Emit(run, facts) IN
           /\ IsRun(r)
           /\ ToSet(r.facts) = ToSet(run.facts) \cup ToSet(facts)
           /\ r.ids = run.ids /\ r.marks = run.marks /\ r.cands = run.cands
<1> DEFINE r == Emit(run, facts)
<1>1. r = RunOf(run.facts \o facts, run.ids, run.marks, run.cands, run.routes, run.crews, run.consumed)
  <2> DEFINE all == run.facts \o facts
  <2>1. r = [run EXCEPT !.facts = all]
    BY DEF Emit
  <2> HIDE DEF all, r
  <2>2. r = RunOf(all, run.ids, run.marks, run.cands, run.routes, run.crews, run.consumed)
    BY <2>1 DEF IsRun
  <2> QED
    BY <2>2 DEF all
<1>2. IsList(run.facts \o facts) /\ ToSet(run.facts \o facts) = ToSet(run.facts) \cup ToSet(facts)
  BY Concatenated DEF IsRun
<1> HIDE DEF r
<1> QED
  BY <1>1, <1>2 DEF IsRun, r

\* Emitting plain facts keeps the invariant of a run.
LEMMA EmitPlainKeeps ==
    ASSUME NEW only, NEW carried, NEW run, RunInv(only, carried, run), NEW facts, Plain(facts)
    PROVE  RunInv(only, carried, Emit(run, facts)) /\ Emit(run, facts).marks = run.marks
<1>1. IsRun(run) /\ IsList(facts)
  BY DEF RunInv, Plain
<1>2. /\ IsRun(Emit(run, facts))
      /\ ToSet(Emit(run, facts).facts) = ToSet(run.facts) \cup ToSet(facts)
      /\ Emit(run, facts).ids = run.ids /\ Emit(run, facts).marks = run.marks
  BY <1>1, EmitIs
<1>3. \A f \in ToSet(facts) : Kinded(f) /\ f.k # "agent"
  BY DEF Plain, PlainFact
<1> QED
  BY <1>2, <1>3 DEF RunInv

\* An agent alone.
LEMMA AroundOne ==
    ASSUME NEW f
    PROVE  Around(f, <<f>>)
<1>1. IsList(<<f>>) /\ ToSet(<<f>>) = {f}
  BY ShortLists
<1> QED
  BY <1>1 DEF Around

\* An agent with more components.
LEMMA AroundCat ==
    ASSUME NEW f, NEW s, NEW t, Around(f, s), Plain(t)
    PROVE  Around(f, s \o t)
BY Concatenated DEF Around, Plain

\* A new agent joins with its components.
LEMMA AgentJoins ==
    ASSUME NEW only, NEW carried, NEW run, RunInv(only, carried, run),
           NEW name, NEW site, Pair(site), site[1] \in only,
           NEW next, IsRun(next), next.facts = run.facts, next.marks = run.marks,
           next.ids = Registered(run, name, site).ids,
           NEW method \in MethodNames, NEW ev, NEW src, src = ev[1][1],
           site = IF method = "promotion" THEN ev[2] ELSE ev[1],
           NEW all, Around(AgentFact(AgentId(run, name, site), name, method, ev, src), all)
    PROVE  LET r == Emit(next, all)
           IN  RunInv(only, carried, r) /\ r.marks = run.marks
<1> DEFINE id == AgentId(run, name, site)
           f == AgentFact(id, name, method, ev, src)
           r == Emit(next, all)
<1>1. /\ f.k = "agent" /\ f.id = id /\ f.name = name /\ f.entry = FALSE /\ f.method = method
      /\ f.ev = ev /\ f.src = src /\ DOMAIN f = {"k", "id", "name", "entry", "method", "ev", "src"}
  BY DEF AgentFact
<1>2. Origin(f) = site
  BY <1>1 DEF Origin
<1>3. id[1] = "agent" /\ (id = BareId(name) \/ id = BareId(name) \o site)
  BY AgentIdIs, ZenonT(60)
<1>4. /\ Extended(run.ids, next.ids)
      /\ id = BareId(name) => Slug[name] \in DOMAIN next.ids /\ next.ids[Slug[name]] = site
  BY RegisteredIs DEF RunInv
<1> HIDE DEF id, f
<1>5. Kinded(f)
  BY <1>1, <1>3 DEF Kinded, MethodNames
<1>6. AgentOK(f)
  BY <1>1, <1>2, <1>3, <1>5 DEF AgentOK
<1>7. Fresh(next.ids, only, f)
  BY <1>1, <1>2, <1>4, <1>6 DEF Fresh
<1>8. IsList(all) /\ \A g \in ToSet(all) : g = f \/ PlainFact(g)
  BY DEF Around, f, id
<1>9. /\ IsRun(r)
      /\ ToSet(r.facts) = ToSet(run.facts) \cup ToSet(all)
      /\ r.ids = next.ids /\ r.marks = run.marks
  BY <1>8, EmitIs
<1> HIDE DEF r
<1>10. ASSUME NEW g \in ToSet(r.facts)
       PROVE  Kinded(g) /\ (g.k = "agent" => g \in ToSet(carried) \/ Fresh(r.ids, only, g))
  <2>1. CASE g \in ToSet(run.facts)
    <3>1. Kinded(g) /\ (g.k = "agent" => g \in ToSet(carried) \/ Fresh(run.ids, only, g))
      BY <2>1 DEF RunInv
    <3>2. Fresh(run.ids, only, g) => Fresh(next.ids, only, g)
      BY <1>4 DEF Fresh, Extended
    <3> QED
      BY <1>9, <3>1, <3>2
  <2>2. CASE g = f
    BY <1>5, <1>7, <1>9, <2>2
  <2>3. CASE PlainFact(g)
    BY <2>3 DEF PlainFact
  <2> QED
    BY <1>8, <1>9, <2>1, <2>2, <2>3
<1>11. Extended(Seeded(carried), r.ids)
  BY <1>4, <1>9 DEF RunInv, Extended
<1> QED
  BY <1>9, <1>10, <1>11 DEF RunInv, r, f, id

(***************************************************************************)
(* The rules                                                               *)
(***************************************************************************)

\* The lists that a construct carries, mapped and joined.
LEMMA PlainOver ==
    ASSUME NEW list, IsList(list), NEW parts, parts = [i \in DOMAIN list |-> parts[i]],
           \A i \in DOMAIN list : Plain(parts[i])
    PROVE  Plain(FlattenSeq(parts))
<1>1. Len(list) \in Nat /\ DOMAIN list = 1..Len(list)
  BY ListIsFunction
<1> QED
  BY <1>1, PlainFlat

\* An agent with its evidence at one place joins with its components.
LEMMA AgentAtSiteJoins ==
    ASSUME NEW only, NEW carried, NEW run, RunInv(only, carried, run),
           NEW name, NEW site, Pair(site), site[1] \in only,
           NEW method \in MethodNames \ {"promotion"},
           NEW all, Around(AgentFact(AgentId(run, name, site), name, method, <<site>>, site[1]), all)
    PROVE  LET r == Emit(Registered(run, name, site), all)
           IN  RunInv(only, carried, r) /\ r.marks = run.marks
<1> DEFINE next == Registered(run, name, site)
           ev == <<site>>
           src == site[1]
<1>1. IsRun(next) /\ next.facts = run.facts /\ next.marks = run.marks
      /\ next.ids = Registered(run, name, site).ids
  BY RegisteredIs DEF RunInv
<1>2. src = ev[1][1] /\ site = IF method = "promotion" THEN ev[2] ELSE ev[1]
  OBVIOUS
<1>3. Around(AgentFact(AgentId(run, name, site), name, method, ev, src), all)
  OBVIOUS
<1> HIDE DEF next, ev, src
<1>4. LET r == Emit(next, all)
      IN  RunInv(only, carried, r) /\ r.marks = run.marks
  BY <1>1, <1>2, <1>3, AgentJoins
<1> QED
  BY <1>4 DEF next, ev, src

\* The rule of a known agent class.
LEMMA EmitAgentKeeps ==
    ASSUME NEW t, GoodTree(t), NEW only, NEW carried, NEW run, RunInv(only, carried, run),
           NEW llmSpans, NEW site, Pair(site), site[1] \in only,
           IsList(At(t, site).tools), IsList(At(t, site).handoffs)
    PROVE  LET r == EmitAgent(t, llmSpans, run, site)
           IN  RunInv(only, carried, r) /\ r.marks = run.marks
<1> DEFINE x  == At(t, site)
           id == AgentId(run, x.name, site)
           Transfer(n) == Edge("transfer:handoff", id, BareId(n), "", site)
           Handoff(ref) == Listed({Transfer(n) : n \in AgentNamed(t, ref)})
           model == IF x.model = <<>> THEN <<>> ELSE BoundModel(t, x.model[1], id, "framework", site)
           Bind(i) == BoundTool(t, llmSpans, x.tools[i], id, site, "ctor")
                        \o BoundServer(t, x.tools[i], id, site)
           side == SideFacts(t, x.tools, site)
           binds == [i \in DOMAIN x.tools |-> Bind(i)]
           hands == [i \in DOMAIN x.handoffs |-> Handoff(x.handoffs[i])]
           f == AgentFact(id, x.name, "ctor", <<site>>, site[1])
<1>1. id[1] = "agent"
  BY AgentIdIs
<1>2. Plain(model)
  <2>1. Plain(BoundModel(t, x.model[1], id, "framework", site))
    <3> HIDE DEF id
    <3> QED
      BY <1>1, BoundModelIsPlain
  <2> QED
    BY <2>1, PlainShort
<1>3. Plain(side)
  BY SideFactsArePlain
<1>4. Plain(FlattenSeq(binds))
  <2> HIDE DEF id
  <2>1. \A i : Plain(Bind(i))
    <3> TAKE i
    <3>1. "ctor" \in MethodNames
      BY MethodsAre
    <3>2. /\ Plain(BoundTool(t, llmSpans, x.tools[i], id, site, "ctor"))
          /\ Plain(BoundServer(t, x.tools[i], id, site))
      BY <1>1, <3>1, BoundToolIsPlain, BoundServerIsPlain
    <3> QED
      BY <3>2, PlainCat
  <2> DEFINE tools == x.tools
  <2>2. IsList(tools) /\ binds = [i \in DOMAIN tools |-> Bind(i)]
    OBVIOUS
  <2> HIDE DEF Bind, tools
  <2>3. binds = [i \in DOMAIN tools |-> binds[i]] /\ \A i \in DOMAIN tools : binds[i] = Bind(i)
    BY <2>2
  <2> HIDE DEF binds
  <2> QED
    BY <2>1, <2>2, <2>3, PlainOver
<1>5. Plain(FlattenSeq(hands))
  <2> HIDE DEF id
  <2>1. \A ref : Plain(Handoff(ref))
    <3> TAKE ref
    <3> DEFINE names == AgentNamed(t, ref)
               g == [n \in names |-> Transfer(n)]
    <3>1. \A n : PlainFact(Transfer(n))
      <4>1. \A n : BareId(n)[1] = "agent"
        BY DEF BareId
      <4> QED
        BY <1>1, <4>1, EdgeIsPlain, Zenon DEF Joins
    <3> HIDE DEF Transfer
    <3>2. IsFiniteSet({g[n] : n \in DOMAIN g})
      BY NamedAreFinite, ImageIsFinite, Zenon
    <3>3. {g[n] : n \in DOMAIN g} = {Transfer(n) : n \in names}
      OBVIOUS
    <3>4. IsFiniteSet({Transfer(n) : n \in names}) /\ \A e \in {Transfer(n) : n \in names} : PlainFact(e)
      BY <3>1, <3>2, <3>3
    <3> HIDE DEF g
    <3> QED
      BY <3>4, PlainSet
  <2> DEFINE refs == x.handoffs
  <2>2. IsList(refs) /\ hands = [i \in DOMAIN refs |-> Handoff(refs[i])]
    OBVIOUS
  <2> HIDE DEF Handoff, refs
  <2>3. hands = [i \in DOMAIN refs |-> hands[i]] /\ \A i \in DOMAIN refs : hands[i] = Handoff(refs[i])
    BY <2>2
  <2> HIDE DEF hands
  <2> QED
    BY <2>1, <2>2, <2>3, PlainOver
<1> DEFINE registered == Registered(run, x.name, site)
           m1 == model
           bf == FlattenSeq(binds)
           hf == FlattenSeq(hands)
<1>6. EmitAgent(t, llmSpans, run, site) =
        IF x.name = "" THEN run ELSE Emit(registered, <<f>> \o m1 \o side \o bf \o hf)
  BY DEF EmitAgent
<1> HIDE DEF model, side, binds, hands
<1> HIDE DEF m1, bf, hf
<1> DEFINE all == <<f>> \o m1 \o side \o bf \o hf
<1>7. Around(f, all)
  <2> HIDE DEF f
  <2>1. Plain(m1) /\ Plain(side) /\ Plain(bf) /\ Plain(hf)
    BY <1>2, <1>3, <1>4, <1>5 DEF m1, bf, hf
  <2>2. Around(f, <<f>> \o m1)
    BY <2>1, AroundOne, AroundCat
  <2>3. Around(f, <<f>> \o m1 \o side)
    BY <2>1, <2>2, AroundCat
  <2>4. Around(f, <<f>> \o m1 \o side \o bf)
    BY <2>1, <2>3, AroundCat
  <2> QED
    BY <2>1, <2>4, AroundCat
<1>8. "ctor" \in MethodNames \ {"promotion"}
  BY MethodsAre
<1> HIDE DEF x, all
<1>9. RunInv(only, carried, Emit(registered, all)) /\ Emit(registered, all).marks = run.marks
  BY <1>7, <1>8, AgentAtSiteJoins
<1> QED
  BY <1>6, <1>9, Zenon DEF all

\* The tools of a construct, bound to an agent.
LEMMA ToolsArePlain ==
    ASSUME NEW t, GoodTree(t), NEW llmSpans, NEW refs, IsList(refs), NEW agent, agent[1] = "agent",
           NEW site, NEW method \in MethodNames
    PROVE  Plain(FlattenSeq([i \in DOMAIN refs |-> BoundTool(t, llmSpans, refs[i], agent, site, method)]))
<1> DEFINE Bind(i) == BoundTool(t, llmSpans, refs[i], agent, site, method)
           binds == [i \in DOMAIN refs |-> Bind(i)]
<1>1. \A i : Plain(Bind(i))
  BY BoundToolIsPlain
<1> HIDE DEF Bind
<1>2. binds = [i \in DOMAIN refs |-> binds[i]] /\ \A i \in DOMAIN refs : binds[i] = Bind(i)
  OBVIOUS
<1> HIDE DEF binds
<1>3. Plain(FlattenSeq(binds))
  BY <1>1, <1>2, PlainOver
<1> QED
  BY <1>3 DEF binds, Bind

\* The rule of an agent that no pack knows.
LEMMA EmitGenericKeeps ==
    ASSUME NEW t, GoodTree(t), NEW only, NEW carried, NEW run, RunInv(only, carried, run),
           NEW llmSpans, NEW site, Pair(site), site[1] \in only, IsList(At(t, site).tools)
    PROVE  LET r == EmitGeneric(t, llmSpans, run, site)
           IN  RunInv(only, carried, r) /\ r.marks = run.marks
<1> DEFINE x  == At(t, site)
           id == AgentId(run, x.name, site)
           models == AgentModel(t, x)
           Resolves(ref) == \E kind \in {"def", "server", "agent"} : Lookup(t, ref, kind) # {}
           companion == x.prompt \/ \E i \in DOMAIN x.tools : Resolves(x.tools[i])
           f == AgentFact(id, x.name, "shape", <<site>>, site[1])
           model == BoundModel(t, models[1].e, id, "generic", site)
           side == SideFacts(t, x.tools, site)
           binds == FlattenSeq([i \in DOMAIN x.tools |-> BoundTool(t, llmSpans, x.tools[i], id, site, "shape")])
           registered == Registered(run, x.name, site)
           all == <<f>> \o model \o side \o binds
<1>1. id[1] = "agent"
  BY AgentIdIs
<1>2. EmitGeneric(t, llmSpans, run, site) =
        IF models = <<>> \/ ~companion THEN run ELSE Emit(registered, all)
  BY DEF EmitGeneric
<1>3. "shape" \in MethodNames \ {"promotion"}
  BY MethodsAre
<1> HIDE DEF models, companion
<1>4. Plain(model) /\ Plain(side) /\ Plain(binds)
  <2> HIDE DEF id
  <2>1. Plain(model)
    BY <1>1, BoundModelIsPlain
  <2>2. Plain(side)
    BY SideFactsArePlain
  <2> DEFINE refs == x.tools
  <2>3. IsList(refs)
    OBVIOUS
  <2> HIDE DEF refs
  <2>4. Plain(FlattenSeq([i \in DOMAIN refs |-> BoundTool(t, llmSpans, refs[i], id, site, "shape")]))
    BY <1>1, <1>3, <2>3, ToolsArePlain, Zenon
  <2> QED
    BY <2>1, <2>2, <2>4 DEF refs
<1> HIDE DEF model, side, binds
<1>5. Around(f, all)
  <2> HIDE DEF f
  <2>1. Around(f, <<f>> \o model)
    BY <1>4, AroundOne, AroundCat
  <2>2. Around(f, <<f>> \o model \o side)
    BY <1>4, <2>1, AroundCat
  <2> QED
    BY <1>4, <2>2, AroundCat
<1> HIDE DEF x, all
<1>6. RunInv(only, carried, Emit(registered, all)) /\ Emit(registered, all).marks = run.marks
  BY <1>3, <1>5, AgentAtSiteJoins
<1> QED
  BY <1>2, <1>6

\* The rule of a task.
LEMMA EmitTaskKeeps ==
    ASSUME NEW t, GoodTree(t), NEW only, NEW carried, NEW run, RunInv(only, carried, run),
           NEW llmSpans, NEW site, IsList(At(t, site).tools)
    PROVE  LET r == EmitTask(t, llmSpans, run, site)
           IN  RunInv(only, carried, r) /\ r.marks = run.marks
<1> DEFINE x == At(t, site)
           names == AgentNamed(t, x.agent)
           refs == x.tools
           id == BareId(The(names))
           facts == FlattenSeq([i \in DOMAIN refs |-> BoundTool(t, llmSpans, refs[i], id, site, "task")])
<1>1. EmitTask(t, llmSpans, run, site) = IF names = {} THEN run ELSE Emit(run, facts)
  BY DEF EmitTask
<1>2. id[1] = "agent" /\ "task" \in MethodNames
  BY MethodsAre DEF BareId
<1>3. IsList(refs)
  OBVIOUS
<1> HIDE DEF names, refs, id
<1>4. Plain(facts)
  BY <1>2, <1>3, ToolsArePlain, Zenon
<1> HIDE DEF facts
<1> QED
  BY <1>1, <1>4, EmitPlainKeeps

\* The tools that a construct refers to are plain.
LEMMA ReferredToolsArePlain ==
    ASSUME NEW t, GoodTree(t), NEW llmSpans, NEW site, NEW refs, IsList(refs)
    PROVE  Plain(ReferredTools(t, llmSpans, refs, site))
<1> DEFINE F(i, s) == ToolFact(t, llmSpans, s, refs[i].var, site[1], "refs")
           Found(i) == Listed({F(i, s) : s \in Lookup(t, refs[i], "def")})
           parts == [i \in DOMAIN refs |-> Found(i)]
<1>1. ASSUME NEW i PROVE Plain(Found(i))
  <2> DEFINE found == Lookup(t, refs[i], "def")
             g == [s \in found |-> F(i, s)]
  <2>1. IsFiniteSet({g[s] : s \in DOMAIN g})
    BY GoodLookup, ImageIsFinite, Zenon
  <2>2. \A s : PlainFact(F(i, s))
    BY ToolFactIsPlain, MethodsAre
  <2> HIDE DEF F
  <2>3. {g[s] : s \in DOMAIN g} = {F(i, s) : s \in found}
    OBVIOUS
  <2>4. IsFiniteSet({F(i, s) : s \in found}) /\ \A f \in {F(i, s) : s \in found} : PlainFact(f)
    BY <2>1, <2>2, <2>3
  <2> HIDE DEF g
  <2> QED
    BY <2>4, PlainSet
<1> HIDE DEF F, Found
<1>2. parts = [i \in DOMAIN refs |-> parts[i]] /\ \A i \in DOMAIN refs : parts[i] = Found(i)
  OBVIOUS
<1> HIDE DEF parts
<1>3. Plain(FlattenSeq(parts))
  BY <1>1, <1>2, PlainOver
<1> QED
  BY <1>3 DEF parts, Found, F, ReferredTools

\* What does not touch the facts and the owners of ids.
LEMMA OthersKeep ==
    ASSUME NEW only, NEW carried, NEW run, RunInv(only, carried, run), NEW next, IsRun(next),
           next.facts = run.facts, next.ids = run.ids
    PROVE  RunInv(only, carried, next)
BY DEF RunInv

\* Collecting marks keeps the invariant of a run.
LEMMA MarksCollected ==
    ASSUME NEW only, NEW carried, NEW run, RunInv(only, carried, run), NEW list, IsList(list)
    PROVE  LET r == WithMarks(run, list) IN RunInv(only, carried, r) /\ ToSet(r.marks) = ToSet(run.marks) \cup ToSet(list)
<1>1. /\ IsRun(run)
      /\ run = RunOf(run.facts, run.ids, run.marks, run.cands, run.routes, run.crews, run.consumed)
  BY DEF RunInv, IsRun
<1>2. PICK all : all = run.marks \o list
  BY Zenon
<1>3. IsList(all) /\ ToSet(all) = ToSet(run.marks) \cup ToSet(list)
  BY <1>1, <1>2, Concatenated DEF IsRun
<1>4. PICK r : r = WithMarks(run, list)
  OBVIOUS
<1>5. r = [run EXCEPT !.marks = all]
  BY <1>2, <1>4 DEF WithMarks
<1>6. r = RunOf(run.facts, run.ids, all, run.cands, run.routes, run.crews, run.consumed)
  BY <1>1, <1>5
<1>7. IsRun(r) /\ r.facts = run.facts /\ r.ids = run.ids /\ r.marks = all
  BY <1>1, <1>3, <1>6 DEF IsRun
<1>8. RunInv(only, carried, r)
  BY <1>7, OthersKeep
<1> QED
  BY <1>3, <1>4, <1>7, <1>8

\* Collecting a candidate keeps the invariant of a run.
LEMMA CandCollected ==
    ASSUME NEW only, NEW carried, NEW run, RunInv(only, carried, run), NEW cand
    PROVE  LET r == WithCand(run, cand) IN RunInv(only, carried, r) /\ r.marks = run.marks
<1>1. /\ IsRun(run)
      /\ run = RunOf(run.facts, run.ids, run.marks, run.cands, run.routes, run.crews, run.consumed)
  BY DEF RunInv, IsRun
<1>2. PICK all : all = Append(run.cands, cand)
  BY Zenon
<1>3. IsList(all)
  BY <1>1, <1>2, OneAppended DEF IsRun
<1>4. PICK r : r = WithCand(run, cand)
  OBVIOUS
<1>5. r = [run EXCEPT !.cands = all]
  BY <1>2, <1>4 DEF WithCand
<1>6. r = RunOf(run.facts, run.ids, run.marks, all, run.routes, run.crews, run.consumed)
  BY <1>1, <1>5
<1>7. IsRun(r) /\ r.facts = run.facts /\ r.ids = run.ids /\ r.marks = run.marks
  BY <1>1, <1>3, <1>6 DEF IsRun
<1>8. RunInv(only, carried, r)
  BY <1>7, OthersKeep
<1> QED
  BY <1>3, <1>4, <1>7, <1>8

\* Collecting routes keeps the invariant of a run.
LEMMA RoutesCollected ==
    ASSUME NEW only, NEW carried, NEW run, RunInv(only, carried, run), NEW list, IsList(list)
    PROVE  LET r == WithRoutes(run, list) IN RunInv(only, carried, r) /\ r.marks = run.marks
<1>1. /\ IsRun(run)
      /\ run = RunOf(run.facts, run.ids, run.marks, run.cands, run.routes, run.crews, run.consumed)
  BY DEF RunInv, IsRun
<1>2. PICK all : all = run.routes \o list
  BY Zenon
<1>3. IsList(all)
  BY <1>1, <1>2, Concatenated DEF IsRun
<1>4. PICK r : r = WithRoutes(run, list)
  OBVIOUS
<1>5. r = [run EXCEPT !.routes = all]
  BY <1>2, <1>4 DEF WithRoutes
<1>6. r = RunOf(run.facts, run.ids, run.marks, run.cands, all, run.crews, run.consumed)
  BY <1>1, <1>5
<1>7. IsRun(r) /\ r.facts = run.facts /\ r.ids = run.ids /\ r.marks = run.marks
  BY <1>1, <1>3, <1>6 DEF IsRun
<1>8. RunInv(only, carried, r)
  BY <1>7, OthersKeep
<1> QED
  BY <1>3, <1>4, <1>7, <1>8

\* Collecting a crew keeps the invariant of a run.
LEMMA CrewCollected ==
    ASSUME NEW only, NEW carried, NEW run, RunInv(only, carried, run), NEW crew, IsList(crew.names)
    PROVE  LET r == WithCrew(run, crew) IN RunInv(only, carried, r) /\ r.marks = run.marks
<1>1. /\ IsRun(run)
      /\ run = RunOf(run.facts, run.ids, run.marks, run.cands, run.routes, run.crews, run.consumed)
  BY DEF RunInv, IsRun
<1>2. PICK all : all = Append(run.crews, crew)
  BY Zenon
<1>3. IsList(all) /\ ToSet(all) = ToSet(run.crews) \cup {crew}
  BY <1>1, <1>2, OneAppended DEF IsRun
<1>4. PICK r : r = WithCrew(run, crew)
  OBVIOUS
<1>5. r = [run EXCEPT !.crews = all]
  BY <1>2, <1>4 DEF WithCrew
<1>6. r = RunOf(run.facts, run.ids, run.marks, run.cands, run.routes, all, run.consumed)
  BY <1>1, <1>5
<1>7. IsRun(r) /\ r.facts = run.facts /\ r.ids = run.ids /\ r.marks = run.marks
  BY <1>1, <1>3, <1>6 DEF IsRun
<1>8. RunInv(only, carried, r)
  BY <1>7, OthersKeep
<1> QED
  BY <1>3, <1>4, <1>7, <1>8

\* A construct marks finitely many agents.
LEMMA MarksAreFinite ==
    ASSUME NEW t, GoodTree(t), NEW ref, NEW m
    PROVE  IsFiniteSet(MarksAt(t, ref, m))
<1> DEFINE names == AgentNamed(t, ref)
           g == [n \in names |-> <<n, m>>]
<1>1. IsFiniteSet({g[n] : n \in DOMAIN g})
  BY NamedAreFinite, ImageIsFinite, Zenon
<1>2. {g[n] : n \in DOMAIN g} = {<<n, m>> : n \in names}
  OBVIOUS
<1> QED
  BY <1>1, <1>2 DEF MarksAt

\* The routes of a construct are a list.
LEMMA RoutesAreList ==
    ASSUME NEW x, IsList(x.to), NEW site
    PROVE  IsList([i \in DOMAIN x.to |-> [from |-> x.from, to |-> x.to[i], guard |-> x.guard, site |-> site]])
<1> DEFINE R(i) == [from |-> x.from, to |-> x.to[i], guard |-> x.guard, site |-> site]
           new == [i \in DOMAIN x.to |-> R(i)]
<1> HIDE DEF R
<1>1. Len(x.to) \in Nat /\ DOMAIN x.to = 1..Len(x.to)
  BY ListIsFunction
<1>2. new = [i \in 1..Len(x.to) |-> new[i]]
  BY <1>1
<1> HIDE DEF new
<1>3. IsList(new)
  BY <1>1, <1>2, FunctionIsList
<1> QED
  BY <1>3 DEF new, R

\* The names of a crew are a list.
LEMMA CrewNamesAreList ==
    ASSUME NEW t, GoodTree(t), NEW x, IsList(x.agents)
    PROVE  IsList(CrewNames(t, x))
<1> DEFINE parts == [i \in DOMAIN x.agents |-> Listed(AgentNamed(t, x.agents[i]))]
<1>1. Len(x.agents) \in Nat /\ DOMAIN x.agents = 1..Len(x.agents)
  BY ListIsFunction
<1>2. \A i : IsList(Listed(AgentNamed(t, x.agents[i])))
  BY NamedAreFinite, ListedAre
<1>3. /\ parts = [i \in 1..Len(x.agents) |-> parts[i]]
      /\ \A i \in 1..Len(x.agents) : IsList(parts[i])
  BY <1>1, <1>2
<1>4. CrewNames(t, x) = FlattenSeq(parts)
  BY DEF CrewNames
<1> HIDE DEF parts
<1>5. IsList(FlattenSeq(parts))
  BY <1>1, <1>3, Flattened, Zenon
<1> QED
  BY <1>4, <1>5

\* Every rule keeps the invariant of a run and adds the marks of its construct only.
LEMMA CallRulesKeep ==
    ASSUME NEW t, GoodTree(t), NEW only, NEW carried, NEW run, RunInv(only, carried, run),
           NEW llmSpans, NEW m \in DOMAIN t.text, m \in only, NEW i \in DOMAIN t.text[m].body
    PROVE  RuleKeeps(t, only, carried, run, <<m, i>>, CallRules(t, llmSpans, run, <<m, i>>))
<1> DEFINE site == <<m, i>>
           x == At(t, site)
<1>1. Pair(site) /\ site[1] = m /\ site[1] \in only
  BY DEF Pair
<1>2. Construct(m, t.text[m], x)
  BY DEF GoodTree, At
<1> HIDE DEF site, x
<1>0. PICK r : r = CallRules(t, llmSpans, run, site)
  OBVIOUS
<1> SUFFICES RuleKeeps(t, only, carried, run, site, r)
  BY <1>0 DEF site
<1>3. x.c # "mark" => MarksOn(t, site) = {}
  BY DEF MarksOn, x
<1>4. ASSUME RunInv(only, carried, r), r.marks = run.marks, x.c # "mark"
      PROVE  RuleKeeps(t, only, carried, run, site, r)
  BY <1>3, <1>4 DEF RuleKeeps
<1>5. CASE x.c = "agent"
  <2>1. r = EmitAgent(t, llmSpans, run, site)
    BY <1>5, <1>0 DEF CallRules, x
  <2>2. IsList(x.tools) /\ IsList(x.handoffs)
    BY <1>2, <1>5 DEF Construct
  <2>3. RunInv(only, carried, r) /\ r.marks = run.marks
    BY <1>1, <2>1, <2>2, EmitAgentKeeps DEF x
  <2> QED
    BY <1>4, <1>5, <2>3
<1>6. CASE x.c = "generic"
  <2>1. r = EmitGeneric(t, llmSpans, run, site)
    BY <1>6, <1>0 DEF CallRules, x
  <2>2. IsList(x.tools)
    BY <1>2, <1>6, Zenon DEF Construct
  <2>3. RunInv(only, carried, r) /\ r.marks = run.marks
    BY <1>1, <2>1, <2>2, EmitGenericKeeps DEF x
  <2> QED
    BY <1>4, <1>6, <2>3
<1>7. CASE x.c = "task"
  <2>1. r = EmitTask(t, llmSpans, run, site)
    BY <1>7, <1>0 DEF CallRules, x
  <2>2. IsList(x.tools)
    BY <1>2, <1>7 DEF Construct
  <2>3. RunInv(only, carried, r) /\ r.marks = run.marks
    BY <2>1, <2>2, EmitTaskKeeps DEF x
  <2> QED
    BY <1>4, <1>7, <2>3
<1>8. CASE x.c = "mark"
  <2> DEFINE new == MarksAt(t, x.agent, site[1])
  <2>1. r = WithMarks(run, Listed(new))
    BY <1>8, <1>0 DEF CallRules, x, WithMarks, MarksAt
  <2>2. MarksOn(t, site) = new
    BY <1>8 DEF MarksOn, MarksAt, x
  <2>3. IsFiniteSet(new)
    BY MarksAreFinite
  <2> HIDE DEF new
  <2>4. PICK list : list = Listed(new)
    OBVIOUS
  <2>5. IsList(list) /\ ToSet(list) = new
    BY <2>3, <2>4, ListedAre
  <2>6. RunInv(only, carried, r) /\ ToSet(r.marks) = ToSet(run.marks) \cup ToSet(list)
    BY <2>1, <2>4, <2>5, MarksCollected
  <2> QED
    BY <2>2, <2>5, <2>6 DEF RuleKeeps
<1>9. CASE x.c = "node"
  <2> DEFINE cand == [name |-> NodeName(x), fn |-> x.fn, site |-> site]
  <2>1. r = WithCand(run, cand)
    BY <1>9, <1>0 DEF CallRules, x, WithCand
  <2> HIDE DEF cand
  <2>2. RunInv(only, carried, r) /\ r.marks = run.marks
    BY <2>1, CandCollected
  <2> QED
    BY <1>4, <1>9, <2>2
<1>10. CASE x.c = "route"
  <2> DEFINE new == [j \in DOMAIN x.to |-> [from |-> x.from, to |-> x.to[j], guard |-> x.guard, site |-> site]]
  <2>1. r = WithRoutes(run, new)
    BY <1>10, <1>0 DEF CallRules, x, WithRoutes
  <2>2. IsList(x.to)
    BY <1>2, <1>10 DEF Construct
  <2>3. IsList(new)
    BY <2>2, RoutesAreList
  <2> HIDE DEF new
  <2>4. RunInv(only, carried, r) /\ r.marks = run.marks
    BY <2>1, <2>3, RoutesCollected
  <2> QED
    BY <1>4, <1>10, <2>4
<1>11. CASE x.c = "crew"
  <2> DEFINE crew == [names |-> CrewNames(t, x), site |-> site, hierarchical |-> x.hierarchical]
  <2>1. r = WithCrew(run, crew)
    BY <1>11, <1>0 DEF CallRules, x, WithCrew
  <2>2. IsList(crew.names)
    BY <1>2, <1>11, CrewNamesAreList DEF Construct
  <2> HIDE DEF crew
  <2>3. RunInv(only, carried, r) /\ r.marks = run.marks
    BY <2>1, <2>2, CrewCollected
  <2> QED
    BY <1>4, <1>11, <2>3
<1>12. CASE x.c = "tools"
  <2> DEFINE refs == x.tools
             facts == ReferredTools(t, llmSpans, refs, site)
  <2>1. r = Emit(run, facts)
    BY <1>12, <1>0 DEF CallRules, x, ReferredTools
  <2>2. IsList(refs)
    BY <1>2, <1>12 DEF Construct
  <2>3. Plain(facts)
    <3> HIDE DEF refs
    <3> QED
      BY <2>2, ReferredToolsArePlain
  <2> HIDE DEF facts
  <2>4. RunInv(only, carried, r) /\ r.marks = run.marks
    BY <2>1, <2>3, EmitPlainKeeps
  <2> QED
    BY <1>4, <1>12, <2>4
<1>13. CASE x.c = "state"
  <2> DEFINE f == [k |-> "state", id |-> <<"state">> \o site, method |-> "state", ev |-> <<site>>, src |-> site[1]]
  <2>1. r = Emit(run, <<f>>)
    BY <1>13, <1>0 DEF CallRules, x
  <2>2. PlainFact(f)
    <3>1. (<<"state">> \o <<m, i>>)[1] = "state"
      OBVIOUS
    <3>2. (<<"state">> \o site)[1] = "state"
      BY <3>1 DEF site
    <3> QED
      BY <3>2, MethodsAre DEF PlainFact, Kinded, MethodNames
  <2> HIDE DEF f
  <2>3. Plain(<<f>>)
    BY <2>2, PlainShort
  <2>4. RunInv(only, carried, r) /\ r.marks = run.marks
    BY <2>1, <2>3, EmitPlainKeeps
  <2> QED
    BY <1>4, <1>13, <2>4
<1>14. CASE x.c = "server"
  <2> DEFINE one == <<ServerFact(x.label, site, site[1])>>
             two == ApprovalFacts(x, site)
  <2>1. r = Emit(run, one \o two)
    BY <1>14, <1>0 DEF CallRules, x
  <2>2. Plain(one) /\ Plain(two)
    BY ServerFactIsPlain, PlainShort, ApprovalIsPlain
  <2> HIDE DEF one, two
  <2>3. Plain(one \o two)
    BY <2>2, PlainCat
  <2>4. RunInv(only, carried, r) /\ r.marks = run.marks
    BY <2>1, <2>3, EmitPlainKeeps
  <2> QED
    BY <1>4, <1>14, <2>4
<1>15. CASE x.c \notin {"agent", "generic", "task", "mark", "node", "route", "crew", "tools", "state", "server"}
  <2>1. r = run
    BY <1>15, <1>0 DEF CallRules, x
  <2> QED
    BY <1>4, <1>15, <2>1
<1>16. RuleKeeps(t, only, carried, run, site, r)
  BY <1>5, <1>6, <1>7, <1>8, <1>9, <1>10, <1>11, <1>12, <1>13, <1>14, <1>15
<1> QED
  BY <1>16

\* Applying the rules to one construct after the other is defined for any number of them.
LEMMA RulesExist ==
    ASSUME NEW t, NEW llmSpans, NEW run, NEW m, NEW n \in Nat
    PROVE  \E f : IsRules(t, llmSpans, run, m, n, f)
<1> DEFINE Good == {k \in Nat : \E f : IsRules(t, llmSpans, run, m, k, f)}
<1>1. 0 \in Good
  <2> DEFINE f == [i \in 0..0 |-> run]
  <2>1. IsRules(t, llmSpans, run, m, 0, f)
    BY DEF IsRules
  <2> QED
    BY <2>1
<1>2. ASSUME NEW k \in Nat, k \in Good PROVE k + 1 \in Good
  <2>1. PICK f : IsRules(t, llmSpans, run, m, k, f)
    BY <1>2
  <2> DEFINE next == CallRules(t, llmSpans, f[k], <<m, k + 1>>)
             g == [i \in 0..(k + 1) |-> IF i = k + 1 THEN next ELSE f[i]]
  <2>2. \A i \in 0..k : f[i] = IF i = 0 THEN run ELSE CallRules(t, llmSpans, f[i - 1], <<m, i>>)
    BY <2>1, Zenon DEF IsRules
  <2>3. ASSUME NEW i \in 0..(k + 1)
        PROVE  g[i] = IF i = 0 THEN run ELSE CallRules(t, llmSpans, g[i - 1], <<m, i>>)
    <3>1. CASE i = k + 1
      <4>1. i # 0 /\ i - 1 = k /\ k \in 0..(k + 1) /\ k # k + 1
        BY <3>1
      <4> HIDE DEF next
      <4>2. g[i] = next /\ g[i - 1] = f[k]
        BY <3>1, <4>1
      <4> QED
        BY <3>1, <4>1, <4>2 DEF next
    <3>2. CASE i = 0
      <4>1. g[i] = f[0] /\ 0 \in 0..k
        BY <3>2
      <4> QED
        BY <2>2, <3>2, <4>1, Zenon
    <3>3. CASE i \in 1..k
      <4>1. i \in 0..k /\ i - 1 \in 0..k /\ i # k + 1 /\ i - 1 # k + 1 /\ i - 1 \in 0..(k + 1) /\ i # 0
        BY <3>3
      <4> HIDE DEF next
      <4>2. g[i] = f[i] /\ g[i - 1] = f[i - 1]
        BY <4>1
      <4> QED
        BY <2>2, <4>1, <4>2
    <3> QED
      BY <3>1, <3>2, <3>3
  <2>4. g = [i \in 0..(k + 1) |-> g[i]]
    OBVIOUS
  <2> HIDE DEF g
  <2>5. IsRules(t, llmSpans, run, m, k + 1, g)
    BY <2>3, <2>4, Zenon DEF IsRules
  <2> QED
    BY <2>5
<1> HIDE DEF Good
<1>3. \A k \in Nat : k \in Good
  BY <1>1, <1>2, SetInduction
<1> QED
  BY <1>3 DEF Good

\* The rules of the first n constructs of a module.
LEMMA RulesKeep ==
    ASSUME NEW t, GoodTree(t), NEW only, NEW carried, NEW run, RunInv(only, carried, run),
           NEW llmSpans, NEW m \in DOMAIN t.text, m \in only,
           NEW n \in Nat, 1..n \subseteq DOMAIN t.text[m].body,
           NEW f, IsRules(t, llmSpans, run, m, n, f)
    PROVE  RunInv(only, carried, f[n]) /\ ToSet(f[n].marks) = ToSet(run.marks) \cup MarksUpTo(t, m, n)
<1> DEFINE Good == {k \in Nat : k <= n => /\ RunInv(only, carried, f[k])
                                          /\ ToSet(f[k].marks) = ToSet(run.marks) \cup MarksUpTo(t, m, k)}
<1>0. \A i \in 0..n : f[i] = IF i = 0 THEN run ELSE CallRules(t, llmSpans, f[i - 1], <<m, i>>)
  BY Zenon DEF IsRules
<1>1. 0 \in Good
  <2>1. f[0] = run
    <3>1. 0 \in 0..n
      OBVIOUS
    <3> QED
      BY <1>0, <3>1, Zenon
  <2>2. MarksUpTo(t, m, 0) = {}
    BY DEF MarksUpTo
  <2> QED
    BY <2>1, <2>2
<1>2. ASSUME NEW k \in Nat, k \in Good PROVE k + 1 \in Good
  <2>1. CASE ~(k + 1 <= n)
    BY <2>1
  <2>2. CASE k + 1 <= n
    <3>1. RunInv(only, carried, f[k]) /\ ToSet(f[k].marks) = ToSet(run.marks) \cup MarksUpTo(t, m, k)
      BY <1>2, <2>2
    <3>2. k + 1 \in DOMAIN t.text[m].body /\ k + 1 \in 0..n /\ k + 1 # 0 /\ (k + 1) - 1 = k
      BY <2>2
    <3>3. f[k + 1] = CallRules(t, llmSpans, f[k], <<m, k + 1>>)
      BY <1>0, <3>2
    <3>4. RuleKeeps(t, only, carried, f[k], <<m, k + 1>>, f[k + 1])
      BY <3>1, <3>2, <3>3, CallRulesKeep
    <3>5. MarksUpTo(t, m, k + 1) = MarksUpTo(t, m, k) \cup MarksOn(t, <<m, k + 1>>)
      <4>1. 1..(k + 1) = (1..k) \cup {k + 1}
        OBVIOUS
      <4> QED
        BY <4>1, Zenon DEF MarksUpTo
    <3> QED
      BY <3>1, <3>4, <3>5 DEF RuleKeeps
  <2> QED
    BY <2>1, <2>2
<1> HIDE DEF Good
<1>3. \A k \in Nat : k \in Good
  BY <1>1, <1>2, SetInduction
<1>4. n \in Good
  BY <1>3
<1> QED
  BY <1>4 DEF Good

\* The rules of a module keep the invariant and add its marks.
LEMMA ModuleRulesKeep ==
    ASSUME NEW t, GoodTree(t), NEW only, NEW carried, NEW run, RunInv(only, carried, run),
           NEW llmSpans, NEW m \in DOMAIN t.text, m \in only
    PROVE  LET r == ModuleRules(t, llmSpans, run, m)
           IN  RunInv(only, carried, r) /\ ToSet(r.marks) = ToSet(run.marks) \cup MarksIn(t, m)
<1> DEFINE body == t.text[m].body
           n == Len(body)
           after == CHOOSE f : f = [i \in 0..n |-> IF i = 0 THEN run
                                                  ELSE CallRules(t, llmSpans, f[i - 1], <<m, i>>)]
           Declared(c) == FlattenSeq([i \in DOMAIN body |->
                IF body[i].c # c \/ body[i].tool = "" THEN <<>>
                ELSE <<ToolFact(t, llmSpans, <<m, i>>, body[i].tool, m, "declared")>>])
<1>1. ModuleRules(t, llmSpans, run, m) = Emit(after[n], Declared("def") \o Declared("class"))
  BY Zenon DEF ModuleRules
<1>2. IsList(body)
  BY DEF GoodTree
<1>3. n \in Nat /\ DOMAIN body = 1..n
  <2> HIDE DEF body
  <2> QED
    BY <1>2, ListIsFunction
<1>4. IsRules(t, llmSpans, run, m, n, after)
  <2> HIDE DEF n
  <2>1. \E f : IsRules(t, llmSpans, run, m, n, f)
    BY <1>3, RulesExist
  <2> QED
    BY <2>1, Zenon DEF IsRules
<1> HIDE DEF after
<1>5. RunInv(only, carried, after[n]) /\ ToSet(after[n].marks) = ToSet(run.marks) \cup MarksUpTo(t, m, n)
  <2> HIDE DEF n
  <2>1. PICK k \in Nat : k = n
    BY <1>3
  <2>2. 1..k \subseteq DOMAIN t.text[m].body
    BY <1>3, <2>1
  <2>3. IsRules(t, llmSpans, run, m, k, after)
    BY <1>4, <2>1
  <2>4. RunInv(only, carried, after[k]) /\ ToSet(after[k].marks) = ToSet(run.marks) \cup MarksUpTo(t, m, k)
    BY <2>2, <2>3, RulesKeep
  <2> QED
    BY <2>1, <2>4
<1>6. MarksUpTo(t, m, n) = MarksIn(t, m)
  BY <1>3, Zenon DEF MarksUpTo, MarksIn
<1>7. ASSUME NEW c PROVE Plain(Declared(c))
  <2> DEFINE Part(i) == IF body[i].c # c \/ body[i].tool = "" THEN <<>>
                        ELSE <<ToolFact(t, llmSpans, <<m, i>>, body[i].tool, m, "declared")>>
             parts == [i \in DOMAIN body |-> Part(i)]
  <2>1. \A i : Plain(Part(i))
    <3> TAKE i
    <3>1. PlainFact(ToolFact(t, llmSpans, <<m, i>>, body[i].tool, m, "declared"))
      BY ToolFactIsPlain, MethodsAre
    <3> QED
      BY <3>1, PlainShort, Zenon
  <2> HIDE DEF Part, body
  <2>2. parts = [i \in DOMAIN body |-> parts[i]] /\ \A i \in DOMAIN body : parts[i] = Part(i)
    OBVIOUS
  <2> HIDE DEF parts
  <2>3. Plain(FlattenSeq(parts))
    BY <1>2, <2>1, <2>2, PlainOver
  <2> QED
    BY <2>3, Zenon DEF parts, Part
<1> HIDE DEF Declared
<1> DEFINE declared == Declared("def") \o Declared("class")
<1>8. Plain(declared)
  BY <1>7, PlainCat
<1> HIDE DEF declared
<1>9. RunInv(only, carried, Emit(after[n], declared)) /\ Emit(after[n], declared).marks = after[n].marks
  BY <1>5, <1>8, EmitPlainKeeps
<1> HIDE DEF n
<1> QED
  BY <1>1, <1>5, <1>6, <1>9 DEF declared

(***************************************************************************)
(* A run                                                                   *)
(***************************************************************************)

\* Analysing one module after the other is defined for any number of them.
LEMMA ModulesExist ==
    ASSUME NEW t, NEW sinks, NEW run, NEW mods, NEW n \in Nat
    PROVE  \E f : IsModules(t, sinks, run, mods, n, f)
<1> DEFINE Good == {k \in Nat : \E f : IsModules(t, sinks, run, mods, k, f)}
<1>1. 0 \in Good
  <2> DEFINE f == [i \in 0..0 |-> run]
  <2>1. IsModules(t, sinks, run, mods, 0, f)
    BY DEF IsModules
  <2> QED
    BY <2>1
<1>2. ASSUME NEW k \in Nat, k \in Good PROVE k + 1 \in Good
  <2>1. PICK f : IsModules(t, sinks, run, mods, k, f)
    BY <1>2
  <2> DEFINE next == ModuleRules(t, sinks, f[k], mods[k + 1])
             g == [i \in 0..(k + 1) |-> IF i = k + 1 THEN next ELSE f[i]]
  <2>2. \A i \in 0..k : f[i] = IF i = 0 THEN run ELSE ModuleRules(t, sinks, f[i - 1], mods[i])
    BY <2>1, Zenon DEF IsModules
  <2>3. ASSUME NEW i \in 0..(k + 1)
        PROVE  g[i] = IF i = 0 THEN run ELSE ModuleRules(t, sinks, g[i - 1], mods[i])
    <3>1. CASE i = k + 1
      <4>1. i # 0 /\ i - 1 = k /\ k \in 0..(k + 1) /\ k # k + 1
        BY <3>1
      <4> HIDE DEF next
      <4>2. g[i] = next /\ g[i - 1] = f[k]
        BY <3>1, <4>1
      <4> QED
        BY <3>1, <4>1, <4>2 DEF next
    <3>2. CASE i = 0
      <4>1. g[i] = f[0] /\ 0 \in 0..k
        BY <3>2
      <4> QED
        BY <2>2, <3>2, <4>1
    <3>3. CASE i \in 1..k
      <4>1. i \in 0..k /\ i - 1 \in 0..k /\ i # k + 1 /\ i - 1 # k + 1 /\ i - 1 \in 0..(k + 1) /\ i # 0
        BY <3>3
      <4> HIDE DEF next
      <4>2. g[i] = f[i] /\ g[i - 1] = f[i - 1]
        BY <4>1
      <4> QED
        BY <2>2, <4>1, <4>2
    <3> QED
      BY <3>1, <3>2, <3>3
  <2>4. g = [i \in 0..(k + 1) |-> g[i]]
    OBVIOUS
  <2> HIDE DEF g
  <2>5. IsModules(t, sinks, run, mods, k + 1, g)
    BY <2>3, <2>4, Zenon DEF IsModules
  <2> QED
    BY <2>5
<1> HIDE DEF Good
<1>3. \A k \in Nat : k \in Good
  BY <1>1, <1>2, SetInduction
<1> QED
  BY <1>3 DEF Good

\* The rules of the first n modules.
LEMMA ModulesKeep ==
    ASSUME NEW t, GoodTree(t), NEW only, NEW carried, NEW run, RunInv(only, carried, run),
           NEW sinks, NEW mods, NEW n \in Nat, \A i \in 1..n : mods[i] \in DOMAIN t.text \cap only,
           NEW f, IsModules(t, sinks, run, mods, n, f)
    PROVE  RunInv(only, carried, f[n]) /\ ToSet(f[n].marks) = ToSet(run.marks) \cup MarksFrom(t, mods, n)
<1> DEFINE Good == {k \in Nat : k <= n => /\ RunInv(only, carried, f[k])
                                          /\ ToSet(f[k].marks) = ToSet(run.marks) \cup MarksFrom(t, mods, k)}
<1>0. \A i \in 0..n : f[i] = IF i = 0 THEN run ELSE ModuleRules(t, sinks, f[i - 1], mods[i])
  BY Zenon DEF IsModules
<1>1. 0 \in Good
  <2>1. f[0] = run
    <3>1. 0 \in 0..n
      OBVIOUS
    <3> QED
      BY <1>0, <3>1
  <2>2. MarksFrom(t, mods, 0) = {}
    BY DEF MarksFrom
  <2> QED
    BY <2>1, <2>2
<1>2. ASSUME NEW k \in Nat, k \in Good PROVE k + 1 \in Good
  <2>1. CASE ~(k + 1 <= n)
    BY <2>1
  <2>2. CASE k + 1 <= n
    <3>1. RunInv(only, carried, f[k]) /\ ToSet(f[k].marks) = ToSet(run.marks) \cup MarksFrom(t, mods, k)
      BY <1>2, <2>2
    <3>2. mods[k + 1] \in DOMAIN t.text \cap only /\ k + 1 \in 0..n /\ k + 1 # 0 /\ (k + 1) - 1 = k
      BY <2>2
    <3>3. f[k + 1] = ModuleRules(t, sinks, f[k], mods[k + 1])
      BY <1>0, <3>2
    <3>4. /\ RunInv(only, carried, f[k + 1])
          /\ ToSet(f[k + 1].marks) = ToSet(f[k].marks) \cup MarksIn(t, mods[k + 1])
      BY <3>1, <3>2, <3>3, ModuleRulesKeep
    <3>5. MarksFrom(t, mods, k + 1) = MarksFrom(t, mods, k) \cup MarksIn(t, mods[k + 1])
      <4>1. 1..(k + 1) = (1..k) \cup {k + 1}
        OBVIOUS
      <4> QED
        BY <4>1 DEF MarksFrom
    <3> QED
      BY <3>1, <3>4, <3>5
  <2> QED
    BY <2>1, <2>2
<1> HIDE DEF Good
<1>3. \A k \in Nat : k \in Good
  BY <1>1, <1>2, SetInduction
<1>4. n \in Good
  BY <1>3
<1> QED
  BY <1>4 DEF Good

\* Promoting a candidate keeps the invariant.
LEMMA PromotedKeeps ==
    ASSUME NEW t, GoodTree(t), NEW only, NEW carried, NEW run, RunInv(only, carried, run), NEW cand
    PROVE  LET r == Promoted(t, SinkSites(t, only), run, cand)
           IN  RunInv(only, carried, r) /\ r.marks = run.marks
<1> DEFINE sinks == SinkSites(t, only)
           anchors == {s \in sinks \cap Lookup(t, cand.fn, "def") : At(t, s).sink # "embedding"}
           sink == The(anchors)
           id == AgentId(run, cand.name, sink)
           ev == <<cand.site, sink>>
           f == AgentFact(id, cand.name, "promotion", ev, cand.site[1])
           binding == WithBinding(ModelFact(t, At(t, sink).model, "sink", sink), id, ev)
           all == <<f>> \o binding
           registered == Registered(run, cand.name, sink)
           next == [registered EXCEPT !.consumed = @ \cup anchors]
<1>1. Promoted(t, sinks, run, cand) = IF anchors = {} THEN run ELSE Emit(next, all)
  BY DEF Promoted
<1>2. CASE anchors = {}
  BY <1>1, <1>2
<1>3. CASE anchors # {}
  <2>1. sink \in sinks
    <3>1. sink \in anchors
      BY <1>3 DEF The
    <3> QED
      BY <3>1
  <2>2. Pair(sink) /\ sink[1] \in only
    BY <2>1, SMTT(30) DEF SinkSites, Pair
  <2> HIDE DEF sink, sinks
  <2>3. id[1] = "agent"
    BY <2>2, AgentIdIs
  <2>4. Plain(binding)
    <3> HIDE DEF id, ev
    <3> QED
      BY <2>3, ModelFactIsPlain, BindingIsPlain
  <2>5. Around(f, all)
    <3> HIDE DEF f, binding
    <3> QED
      BY <2>4, AroundOne, AroundCat
  <2>6. /\ IsRun(registered) /\ registered.facts = run.facts /\ registered.marks = run.marks
    BY <2>2, RegisteredIs DEF RunInv
  <2>7. IsRun(next) /\ next.facts = run.facts /\ next.marks = run.marks /\ next.ids = registered.ids
    <3> HIDE DEF registered, anchors
    <3>1. PICK old : old = registered.consumed \cup anchors
      BY Zenon
    <3>2. next = [registered EXCEPT !.consumed = old]
      BY <3>1
    <3>3. next = RunOf(registered.facts, registered.ids, registered.marks, registered.cands, registered.routes,
                       registered.crews, old)
      BY <2>6, <3>2 DEF IsRun
    <3> HIDE DEF next
    <3> QED
      BY <2>6, <3>3 DEF IsRun
  <2>8. cand.site[1] = ev[1][1] /\ sink = (IF "promotion" = "promotion" THEN ev[2] ELSE ev[1])
    OBVIOUS
  <2>9. "promotion" \in MethodNames
    BY MethodsAre
  <2> HIDE DEF next, all, ev
  <2>10. RunInv(only, carried, Emit(next, all)) /\ Emit(next, all).marks = run.marks
    BY <2>2, <2>5, <2>7, <2>8, <2>9, AgentJoins
  <2> QED
    BY <1>1, <1>3, <2>10 DEF sinks
<1> QED
  BY <1>2, <1>3

\* Promoting one candidate after the other is defined for any number of them.
LEMMA PromotionExists ==
    ASSUME NEW t, NEW sinks, NEW run, NEW cands, NEW n \in Nat
    PROVE  \E f : IsPromotion(t, sinks, run, cands, n, f)
<1> DEFINE Good == {k \in Nat : \E f : IsPromotion(t, sinks, run, cands, k, f)}
<1>1. 0 \in Good
  <2> DEFINE f == [i \in 0..0 |-> run]
  <2>1. IsPromotion(t, sinks, run, cands, 0, f)
    BY DEF IsPromotion
  <2> QED
    BY <2>1
<1>2. ASSUME NEW k \in Nat, k \in Good PROVE k + 1 \in Good
  <2>1. PICK f : IsPromotion(t, sinks, run, cands, k, f)
    BY <1>2
  <2> DEFINE next == Promoted(t, sinks, f[k], cands[k + 1])
             g == [i \in 0..(k + 1) |-> IF i = k + 1 THEN next ELSE f[i]]
  <2>2. \A i \in 0..k : f[i] = IF i = 0 THEN run ELSE Promoted(t, sinks, f[i - 1], cands[i])
    BY <2>1, Zenon DEF IsPromotion
  <2>3. ASSUME NEW i \in 0..(k + 1)
        PROVE  g[i] = IF i = 0 THEN run ELSE Promoted(t, sinks, g[i - 1], cands[i])
    <3>1. CASE i = k + 1
      <4>1. i # 0 /\ i - 1 = k /\ k \in 0..(k + 1) /\ k # k + 1
        BY <3>1
      <4> HIDE DEF next
      <4>2. g[i] = next /\ g[i - 1] = f[k]
        BY <3>1, <4>1
      <4> QED
        BY <3>1, <4>1, <4>2 DEF next
    <3>2. CASE i = 0
      <4>1. g[i] = f[0] /\ 0 \in 0..k
        BY <3>2
      <4> QED
        BY <2>2, <3>2, <4>1
    <3>3. CASE i \in 1..k
      <4>1. i \in 0..k /\ i - 1 \in 0..k /\ i # k + 1 /\ i - 1 # k + 1 /\ i - 1 \in 0..(k + 1) /\ i # 0
        BY <3>3
      <4> HIDE DEF next
      <4>2. g[i] = f[i] /\ g[i - 1] = f[i - 1]
        BY <4>1
      <4> QED
        BY <2>2, <4>1, <4>2
    <3> QED
      BY <3>1, <3>2, <3>3
  <2>4. g = [i \in 0..(k + 1) |-> g[i]]
    OBVIOUS
  <2> HIDE DEF g
  <2>5. IsPromotion(t, sinks, run, cands, k + 1, g)
    BY <2>3, <2>4, Zenon DEF IsPromotion
  <2> QED
    BY <2>5
<1> HIDE DEF Good
<1>3. \A k \in Nat : k \in Good
  BY <1>1, <1>2, SetInduction
<1> QED
  BY <1>3 DEF Good

\* The promotion of all candidates keeps the invariant.
LEMMA PromoteKeeps ==
    ASSUME NEW t, GoodTree(t), NEW only, NEW carried, NEW run, RunInv(only, carried, run)
    PROVE  LET r == Promote(t, SinkSites(t, only), run)
           IN  RunInv(only, carried, r) /\ r.marks = run.marks
<1> DEFINE sinks == SinkSites(t, only)
           cands == run.cands
           n == Len(cands)
           f == CHOOSE g : g = [i \in 0..n |-> IF i = 0 THEN run ELSE Promoted(t, sinks, g[i - 1], cands[i])]
<1>1. Promote(t, sinks, run) = f[n]
  BY Zenon DEF Promote
<1>2. n \in Nat
  BY ListIsFunction DEF RunInv, IsRun
<1>3. IsPromotion(t, sinks, run, cands, n, f)
  <2> HIDE DEF n
  <2>1. \E g : IsPromotion(t, sinks, run, cands, n, g)
    BY <1>2, PromotionExists
  <2> QED
    BY <2>1, Zenon DEF IsPromotion
<1> HIDE DEF f, n, cands
<1> DEFINE Good == {k \in Nat : k <= n => RunInv(only, carried, f[k]) /\ f[k].marks = run.marks}
<1>4. \A i \in 0..n : f[i] = IF i = 0 THEN run ELSE Promoted(t, sinks, f[i - 1], cands[i])
  BY <1>3, Zenon DEF IsPromotion
<1>5. 0 \in Good
  <2>1. 0 \in 0..n
    BY <1>2
  <2> QED
    BY <1>4, <2>1
<1>6. ASSUME NEW k \in Nat, k \in Good PROVE k + 1 \in Good
  <2>1. CASE ~(k + 1 <= n)
    BY <2>1
  <2>2. CASE k + 1 <= n
    <3>1. RunInv(only, carried, f[k]) /\ f[k].marks = run.marks
      BY <1>2, <1>6, <2>2
    <3>2. k + 1 \in 0..n /\ k + 1 # 0 /\ (k + 1) - 1 = k
      BY <1>2, <2>2
    <3>3. f[k + 1] = Promoted(t, sinks, f[k], cands[k + 1])
      BY <1>4, <3>2
    <3>4. RunInv(only, carried, f[k + 1]) /\ f[k + 1].marks = f[k].marks
      BY <3>1, <3>3, PromotedKeeps
    <3> QED
      BY <3>1, <3>4
  <2> QED
    BY <2>1, <2>2
<1> HIDE DEF Good
<1>7. \A k \in Nat : k \in Good
  BY <1>5, <1>6, SetInduction
<1>8. n \in Good
  BY <1>2, <1>7
<1>9. RunInv(only, carried, f[n]) /\ f[n].marks = run.marks
  BY <1>2, <1>8 DEF Good
<1> QED
  BY <1>1, <1>9

\* A route between two names is plain.
LEMMA TransferIsPlain ==
    ASSUME NEW from, NEW to, NEW guard, NEW site
    PROVE  PlainFact(Edge("transfer:route", BareId(from), BareId(to), guard, site))
<1>1. BareId(from)[1] = "agent" /\ BareId(to)[1] = "agent"
  BY DEF BareId
<1> QED
  BY <1>1, EdgeIsPlain DEF Joins

\* Emitting the routes keeps the invariant.
LEMMA EmitRoutesKeeps ==
    ASSUME NEW only, NEW carried, NEW run, RunInv(only, carried, run)
    PROVE  LET r == EmitRoutes(run) IN RunInv(only, carried, r) /\ r.marks = run.marks
<1> DEFINE Part(i) == LET r == run.routes[i]
                      IN  IF {BareId(r.from), BareId(r.to)} \subseteq AgentIds(run)
                          THEN <<Edge("transfer:route", BareId(r.from), BareId(r.to), r.guard, r.site)>> ELSE <<>>
           list == run.routes
           parts == [i \in DOMAIN list |-> Part(i)]
<1>1. \A i : Plain(Part(i))
  <2> TAKE i
  <2> DEFINE r == run.routes[i]
             e == Edge("transfer:route", BareId(r.from), BareId(r.to), r.guard, r.site)
  <2>1. PlainFact(e)
    BY TransferIsPlain
  <2>2. Part(i) = <<e>> \/ Part(i) = <<>>
    OBVIOUS
  <2> HIDE DEF e, Part
  <2> QED
    BY <2>1, <2>2, PlainShort
<1>2. EmitRoutes(run) = Emit(run, FlattenSeq(parts))
  BY DEF EmitRoutes
<1>3. IsList(list)
  BY DEF RunInv, IsRun
<1> HIDE DEF Part, list
<1>4. parts = [i \in DOMAIN list |-> parts[i]] /\ \A i \in DOMAIN list : parts[i] = Part(i)
  OBVIOUS
<1> HIDE DEF parts
<1>5. Plain(FlattenSeq(parts))
  BY <1>1, <1>3, <1>4, PlainOver
<1> QED
  BY <1>2, <1>5, EmitPlainKeeps

\* Emitting the links of crews keeps the invariant.
LEMMA EmitCrewsKeeps ==
    ASSUME NEW only, NEW carried, NEW run, RunInv(only, carried, run)
    PROVE  LET r == EmitCrews(run) IN RunInv(only, carried, r) /\ r.marks = run.marks
<1> DEFINE Chain(crew) == Filtered(crew.names, {n \in ToSet(crew.names) : BareId(n) \in AgentIds(run)})
           Link(crew, i) ==
                LET from == BareId(Chain(crew)[i])
                    to   == BareId(Chain(crew)[i + 1])
                IN  IF from = to THEN <<>> ELSE <<Edge("transfer:route", from, to, "", crew.site)>>
           Links(crew) == FlattenSeq([i \in 1..Len(Chain(crew)) - 1 |-> Link(crew, i)])
           list == run.crews
           Part(c) == IF list[c].hierarchical THEN <<>> ELSE Links(list[c])
           parts == [c \in DOMAIN list |-> Part(c)]
<1>1. IsList(list) /\ \A crew \in ToSet(list) : IsList(crew.names)
  BY DEF RunInv, IsRun
<1>2. EmitCrews(run) = Emit(run, FlattenSeq(parts))
  BY DEF EmitCrews
<1>3. ASSUME NEW crew, NEW i PROVE Plain(Link(crew, i))
  <2> DEFINE e == Edge("transfer:route", BareId(Chain(crew)[i]), BareId(Chain(crew)[i + 1]), "", crew.site)
  <2>1. PlainFact(e)
    BY TransferIsPlain, Zenon
  <2>2. Link(crew, i) = <<e>> \/ Link(crew, i) = <<>>
    BY Zenon
  <2> HIDE DEF e, Link
  <2> QED
    BY <2>1, <2>2, PlainShort
<1> HIDE DEF Link
<1>4. ASSUME NEW crew, IsList(crew.names) PROVE Plain(Links(crew))
  <2> DEFINE len == Len(Chain(crew))
             links == [i \in 1..len - 1 |-> Link(crew, i)]
  <2>1. IsList(Chain(crew))
    BY <1>4, KeptAre
  <2>2. len \in Nat
    <3> HIDE DEF Chain
    <3> QED
      BY <2>1, ListIsFunction
  <2> HIDE DEF len
  <2>3. PICK n \in Nat : 1..len - 1 = 1..n
    <3>1. CASE len = 0
      <4>1. 1..len - 1 = 1..0
        BY <3>1
      <4> QED
        BY <4>1, Zenon
    <3>2. CASE len # 0
      BY <2>2, <3>2
    <3> QED
      BY <3>1, <3>2
  <2>4. links = [i \in 1..n |-> links[i]] /\ \A i \in 1..n : links[i] = Link(crew, i)
    BY <2>3, Zenon
  <2> HIDE DEF links
  <2>5. Plain(FlattenSeq(links))
    BY <1>3, <2>3, <2>4, PlainFlat
  <2> QED
    BY <2>5 DEF links, len
<1> HIDE DEF Links, list
<1>5. \A c \in DOMAIN list : Plain(Part(c))
  BY <1>1, <1>4, PlainShort DEF ToSet
<1> HIDE DEF Part
<1>6. parts = [c \in DOMAIN list |-> parts[c]] /\ \A c \in DOMAIN list : parts[c] = Part(c)
  OBVIOUS
<1> HIDE DEF parts
<1>7. Plain(FlattenSeq(parts))
  BY <1>1, <1>5, <1>6, PlainOver
<1> QED
  BY <1>2, <1>7, EmitPlainKeeps

\* A run up to its flags keeps the invariant and has all marks.
LEMMA UnflaggedIs ==
    ASSUME NEW t, GoodTree(t), NEW only \in SUBSET DOMAIN t.text,
           NEW carried, GoodCarried(carried), NEW marks, IsList(marks)
    PROVE  LET r == Unflagged(t, only, carried, marks)
           IN  /\ RunInv(only, carried, r)
               /\ ToSet(r.marks) = ToSet(marks) \cup MarksOfAll(t, only)
<1> DEFINE sinks == SinkSites(t, only)
           mods  == Filtered(Modules(t), only)
           n     == Len(mods)
           first == NewRun(Seeded(carried))
           after == CHOOSE f : f = [i \in 0..n |-> IF i = 0 THEN first ELSE ModuleRules(t, sinks, f[i - 1], mods[i])]
           facts == ConfigFacts(t) \o carried
           joined == Emit(after[n], facts)
           merged == [joined EXCEPT !.marks = @ \o marks]
<1>1. RunInv(only, carried, first) /\ ToSet(first.marks) = {}
  <2>1. IsList(<<>>) /\ ToSet(<<>>) = {}
    BY ShortLists
  <2>2. /\ first = RunOf(<<>>, Seeded(carried), <<>>, <<>>, <<>>, <<>>, {})
    BY DEF NewRun
  <2>3. IsRun(first)
    BY <2>1, <2>2 DEF IsRun
  <2> HIDE DEF first
  <2>4. Extended(Seeded(carried), first.ids)
    BY <2>2 DEF Extended
  <2> QED
    BY <2>1, <2>2, <2>3, <2>4 DEF RunInv
<1> HIDE DEF first
<1>2. /\ IsList(mods) /\ ToSet(mods) = only
  <2>1. /\ IsList(Modules(t)) /\ ToSet(Modules(t)) = ToSet(ModuleOrder) \cap DOMAIN t.text
    BY OrderAssumption, KeptAre DEF Modules
  <2>2. ToSet(Modules(t)) \cap only = only
    BY <2>1 DEF GoodTree
  <2> QED
    BY <2>1, <2>2, KeptAre
<1> HIDE DEF mods
<1>3. n \in Nat /\ DOMAIN mods = 1..n
  BY <1>2, ListIsFunction
<1>4. only = {mods[i] : i \in 1..n}
  BY <1>2, <1>3 DEF ToSet
<1> HIDE DEF n
<1>5. IsModules(t, sinks, first, mods, n, after)
  <2>1. \E f : IsModules(t, sinks, first, mods, n, f)
    BY <1>3, ModulesExist, Zenon
  <2> QED
    BY <2>1, Zenon DEF IsModules
<1> HIDE DEF after
<1>6. RunInv(only, carried, after[n]) /\ ToSet(after[n].marks) = MarksOfAll(t, only)
  <2>1. \A i \in 1..n : mods[i] \in DOMAIN t.text \cap only
    BY <1>4
  <2>2. RunInv(only, carried, after[n]) /\ ToSet(after[n].marks) = ToSet(first.marks) \cup MarksFrom(t, mods, n)
    <3>1. PICK k \in Nat : k = n
      BY <1>3
    <3>2. IsModules(t, sinks, first, mods, k, after) /\ \A i \in 1..k : mods[i] \in DOMAIN t.text \cap only
      BY <1>5, <2>1, <3>1
    <3>3. PICK run, list, f : run = first /\ list = mods /\ f = after
      OBVIOUS
    <3>4. RunInv(only, carried, run) /\ IsModules(t, sinks, run, list, k, f)
      BY <1>1, <3>2, <3>3
    <3>5. \A i \in 1..k : list[i] \in DOMAIN t.text \cap only
      BY <3>2, <3>3
    <3>6. RunInv(only, carried, f[k]) /\ ToSet(f[k].marks) = ToSet(run.marks) \cup MarksFrom(t, list, k)
      BY <3>4, <3>5, ModulesKeep
    <3> QED
      BY <3>1, <3>3, <3>6
  <2>3. MarksFrom(t, mods, n) = MarksOfAll(t, only)
    BY <1>4 DEF MarksFrom, MarksOfAll
  <2> QED
    BY <1>1, <2>2, <2>3
<1>7. IsList(facts) /\ \A f \in ToSet(facts) : Kinded(f) /\ (f.k = "agent" => f \in ToSet(carried))
  <2>1. Plain(ConfigFacts(t))
    BY ConfigIsPlain DEF GoodTree
  <2>2. IsList(facts) /\ ToSet(facts) = ToSet(ConfigFacts(t)) \cup ToSet(carried)
    BY <2>1, Concatenated DEF Plain, GoodCarried
  <2> HIDE DEF facts
  <2> QED
    BY <2>1, <2>2 DEF Plain, PlainFact, GoodCarried
<1> HIDE DEF facts
<1>8. RunInv(only, carried, joined) /\ joined.marks = after[n].marks
  <2>1. IsRun(after[n])
    BY <1>6 DEF RunInv
  <2>2. /\ IsRun(joined) /\ joined.ids = after[n].ids /\ joined.marks = after[n].marks
        /\ ToSet(joined.facts) = ToSet(after[n].facts) \cup ToSet(facts)
    BY <1>7, <2>1, EmitIs
  <2> HIDE DEF joined
  <2> QED
    BY <1>6, <1>7, <2>2 DEF RunInv
<1> HIDE DEF joined
<1>9. RunInv(only, carried, merged) /\ ToSet(merged.marks) = ToSet(marks) \cup MarksOfAll(t, only)
  <2>1. merged = WithMarks(joined, marks)
    BY DEF WithMarks
  <2>2. RunInv(only, carried, WithMarks(joined, marks))
        /\ ToSet(WithMarks(joined, marks).marks) = ToSet(joined.marks) \cup ToSet(marks)
    BY <1>8, MarksCollected
  <2> HIDE DEF merged
  <2> QED
    BY <1>6, <1>8, <2>1, <2>2
<1> HIDE DEF merged
<1> DEFINE promoted == Promote(t, sinks, merged)
           routed == EmitRoutes(promoted)
           crewed == EmitCrews(routed)
<1>10. RunInv(only, carried, promoted) /\ promoted.marks = merged.marks
  BY <1>9, PromoteKeeps
<1> HIDE DEF promoted
<1>11. RunInv(only, carried, routed) /\ routed.marks = merged.marks
  BY <1>10, EmitRoutesKeeps
<1> HIDE DEF routed
<1>12. RunInv(only, carried, crewed) /\ crewed.marks = merged.marks
  BY <1>11, EmitCrewsKeeps
<1>13. Unflagged(t, only, carried, marks) = crewed
  BY Zenon DEF Unflagged, crewed, routed, promoted, merged, joined, facts, after, n, first, mods
<1> HIDE DEF crewed
<1> QED
  BY <1>9, <1>12, <1>13

\* Flagging an agent changes nothing else of it.
LEMMA FlagIs ==
    ASSUME NEW f, AgentOK(f), NEW b
    PROVE  LET g == Flag(f, b) IN
           /\ AgentOK(g) /\ g.entry = b /\ g.k = f.k /\ g.name = f.name /\ g.id = f.id /\ Origin(g) = Origin(f)
<1>1. PICK g : g = Flag(f, b)
  OBVIOUS
<1>2. /\ DOMAIN f = {"k", "id", "name", "entry", "method", "ev", "src"}
      /\ Kinded(f) /\ f.k = "agent" /\ f.src = f.ev[1][1]
      /\ Pair(Origin(f)) /\ (f.id = BareId(f.name) \/ f.id = BareId(f.name) \o Origin(f))
  BY DEF AgentOK
<1>3. /\ g.k = f.k /\ g.id = f.id /\ g.name = f.name /\ g.method = f.method /\ g.ev = f.ev /\ g.src = f.src
      /\ DOMAIN g = DOMAIN f /\ g.entry = b
  BY <1>1, <1>2 DEF Flag
<1>4. Origin(g) = Origin(f)
  BY <1>3 DEF Origin
<1>5. Kinded(g)
  BY <1>2, <1>3 DEF Kinded
<1>6. AgentOK(g)
  BY <1>2, <1>3, <1>4, <1>5 DEF AgentOK
<1> QED
  BY <1>1, <1>3, <1>4, <1>6

\* After the flags are set they follow the marks, carried agents included.
LEMMA FlaggedIs ==
    ASSUME NEW only, NEW carried, GoodCarried(carried), NEW run, RunInv(only, carried, run),
           NEW reset \in BOOLEAN, reset \/ carried = <<>>
    PROVE  LET r == ApplyEntrypoints(run, reset)
           IN  /\ FactsAre(run.ids, only, carried, SlugsOf(ToSet(run.marks)), r.facts)
               /\ r.marks = run.marks /\ IsList(r.marks)
<1> DEFINE marked == {Slug[mark[1]] : mark \in ToSet(run.marks)}
           Want(f) == IF f.k = "agent" THEN [f EXCEPT !.entry = Slug[f.name] \in marked] ELSE f
           facts == [i \in DOMAIN run.facts |-> Want(run.facts[i])]
<1>1. ApplyEntrypoints(run, reset) = IF marked = {} /\ ~reset THEN run ELSE [run EXCEPT !.facts = facts]
  BY DEF ApplyEntrypoints
<1>2. marked = SlugsOf(ToSet(run.marks))
  BY DEF SlugsOf
<1>3. IsRun(run) /\ IsList(run.facts) /\ IsList(run.marks)
  BY DEF RunInv, IsRun
<1> HIDE DEF marked
\* What holds of an agent before it is flagged.
<1>4. ASSUME NEW f \in ToSet(run.facts)
      PROVE  /\ Kinded(f)
             /\ f.k = "agent" => /\ AgentOK(f)
                                 /\ Owned(run.ids, only, f) \/ CarriedAs(carried, f)
                                 /\ carried = <<>> => f.entry = FALSE
  <2>1. Kinded(f) /\ (f.k = "agent" => f \in ToSet(carried) \/ Fresh(run.ids, only, f))
    BY DEF RunInv
  <2>2. ASSUME f.k = "agent", f \in ToSet(carried)
        PROVE  AgentOK(f) /\ CarriedAs(carried, f) /\ carried # <<>>
    BY <2>2, ShortLists DEF GoodCarried, CarriedAs
  <2>3. ASSUME Fresh(run.ids, only, f)
        PROVE  AgentOK(f) /\ Owned(run.ids, only, f) /\ f.entry = FALSE
    BY <2>3 DEF Fresh, Owned
  <2> QED
    BY <2>1, <2>2, <2>3, Zenon
<1>5. CASE marked = {} /\ ~reset
  <2>1. ApplyEntrypoints(run, reset) = run /\ carried = <<>>
    BY <1>1, <1>5
  <2>2. FactsAre(run.ids, only, carried, marked, run.facts)
    <3>1. ASSUME NEW f \in ToSet(run.facts), f.k = "agent"
          PROVE  f.entry <=> Slug[f.name] \in marked
      <4>1. f.entry = FALSE
        BY <1>4, <2>1, <3>1, Zenon
      <4> QED
        BY <1>5, <4>1
    <3> QED
      BY <1>3, <1>4, <3>1, Zenon DEF FactsAre
  <2> QED
    BY <1>2, <1>3, <2>1, <2>2
<1>6. CASE ~(marked = {} /\ ~reset)
  <2> DEFINE r == [run EXCEPT !.facts = facts]
  <2>1. ApplyEntrypoints(run, reset) = r
    BY <1>1, <1>6
  <2>2. Len(run.facts) \in Nat /\ DOMAIN run.facts = 1..Len(run.facts)
    BY <1>3, ListIsFunction
  <2>3. facts = [i \in 1..Len(run.facts) |-> facts[i]] /\ \A i \in DOMAIN run.facts : facts[i] = Want(run.facts[i])
    BY <2>2
  <2> HIDE DEF facts
  <2>4. r.facts = facts /\ r.marks = run.marks
    <3>1. run = RunOf(run.facts, run.ids, run.marks, run.cands, run.routes, run.crews, run.consumed)
      BY <1>3 DEF IsRun
    <3> QED
      BY <3>1
  <2> HIDE DEF r
  <2>5. IsList(facts) /\ DOMAIN facts = 1..Len(run.facts)
    BY <2>2, <2>3, FunctionIsList
  <2>6. ASSUME NEW g \in ToSet(facts)
        PROVE  /\ Kinded(g)
               /\ g.k = "agent" => /\ AgentOK(g)
                                   /\ g.entry <=> Slug[g.name] \in marked
                                   /\ Owned(run.ids, only, g) \/ CarriedAs(carried, g)
    <3>1. PICK i \in DOMAIN run.facts : g = Want(run.facts[i])
      BY <2>2, <2>3, <2>5, Zenon DEF ToSet
    <3>2. PICK f \in ToSet(run.facts) : g = Want(f)
      BY <3>1, Zenon DEF ToSet
    <3>3. CASE f.k # "agent"
      BY <1>4, <3>2, <3>3, Zenon
    <3>4. CASE f.k = "agent"
      <4>1. PICK b : b = (Slug[f.name] \in marked)
        OBVIOUS
      <4>2. g = Flag(f, b)
        BY <3>2, <3>4, <4>1 DEF Flag
      <4>3. AgentOK(f) /\ (Owned(run.ids, only, f) \/ CarriedAs(carried, f))
        BY <1>4, <3>4, Zenon
      <4>4. /\ AgentOK(g) /\ g.entry = b /\ g.k = f.k /\ g.name = f.name /\ g.id = f.id
            /\ Origin(g) = Origin(f)
        BY <4>2, <4>3, FlagIs
      <4>5. Owned(run.ids, only, f) => Owned(run.ids, only, g)
        BY <4>4 DEF Owned
      <4>6. CarriedAs(carried, f) => CarriedAs(carried, g)
        BY <4>4 DEF CarriedAs
      <4>7. g.entry <=> Slug[g.name] \in marked
        BY <4>1, <4>4, Zenon
      <4>8. Kinded(g)
        BY <4>4 DEF AgentOK
      <4> QED
        BY <4>3, <4>4, <4>5, <4>6, <4>7, <4>8
    <3> QED
      BY <3>3, <3>4
  <2>7. FactsAre(run.ids, only, carried, marked, facts)
    BY <2>5, <2>6 DEF FactsAre
  <2> QED
    BY <1>2, <1>3, <2>1, <2>4, <2>7
<1> QED
  BY <1>5, <1>6

\* Two agents with one id have it from their name, or from where they are.
LEMMA IdTells ==
    ASSUME NEW f, NEW g, AgentOK(f), AgentOK(g), f.id = g.id
    PROVE  \/ f.id = BareId(f.name) /\ g.id = BareId(g.name) /\ Slug[f.name] = Slug[g.name]
           \/ Origin(f) = Origin(g)
<1>1. PICK a, b : Origin(f) = <<a, b>>
  BY DEF AgentOK, Pair
<1>2. PICK c, d : Origin(g) = <<c, d>>
  BY DEF AgentOK, Pair
<1>3. \A n : BareId(n) = <<"agent", Slug[n]>>
  BY DEF BareId
<1>4. f.id = <<"agent", Slug[f.name]>> \/ f.id = <<"agent", Slug[f.name]>> \o <<a, b>>
  BY <1>1, <1>3, Zenon DEF AgentOK
<1>5. g.id = <<"agent", Slug[g.name]>> \/ g.id = <<"agent", Slug[g.name]>> \o <<c, d>>
  BY <1>2, <1>3, Zenon DEF AgentOK
<1>6. ASSUME NEW s, NEW p, NEW q
      PROVE  LET t == <<"agent", s>> \o <<p, q>>
             IN  Len(t) = 4 /\ t[2] = s /\ t[3] = p /\ t[4] = q
  OBVIOUS
<1>7. ASSUME NEW s
      PROVE  Len(<<"agent", s>>) = 2 /\ <<"agent", s>>[2] = s
  OBVIOUS
<1>8. \/ Len(f.id) = 2 /\ f.id[2] = Slug[f.name]
      \/ Len(f.id) = 4 /\ f.id[3] = a /\ f.id[4] = b
  <2>1. CASE f.id = <<"agent", Slug[f.name]>>
    BY <1>7, <2>1
  <2>2. CASE f.id = <<"agent", Slug[f.name]>> \o <<a, b>>
    BY <1>6, <2>2
  <2> QED
    BY <1>4, <2>1, <2>2
<1>9. \/ Len(g.id) = 2 /\ g.id[2] = Slug[g.name]
      \/ Len(g.id) = 4 /\ g.id[3] = c /\ g.id[4] = d
  <2>1. CASE g.id = <<"agent", Slug[g.name]>>
    BY <1>7, <2>1
  <2>2. CASE g.id = <<"agent", Slug[g.name]>> \o <<c, d>>
    BY <1>6, <2>2
  <2> QED
    BY <1>5, <2>1, <2>2
<1>10. CASE Len(f.id) = 2
  <2>1. Slug[f.name] = Slug[g.name]
    BY <1>8, <1>9, <1>10
  <2>2. f.id = BareId(f.name) /\ g.id = BareId(g.name)
    BY <1>3, <1>4, <1>5, <1>6, <1>10
  <2> QED
    BY <2>1, <2>2, Zenon
<1>11. CASE Len(f.id) # 2
  BY <1>1, <1>2, <1>8, <1>9, <1>11
<1> QED
  BY <1>10, <1>11

\* The bare ids of carried agents are seeded with evidence in files that are not analysed.
LEMMA SeedsAreElsewhere ==
    ASSUME NEW only, NEW carried, GoodCarried(carried),
           \A c \in ToSet(carried) : c.k = "agent" => c.src \notin only,
           NEW h \in ToSet(carried), h.k = "agent", NEW name, h.id = BareId(name)
    PROVE  Slug[name] \in DOMAIN Seeded(carried) /\ Seeded(carried)[Slug[name]][1] \notin only
<1> DEFINE bare == {i \in DOMAIN carried : carried[i].k = "agent" /\ IsBare(carried[i].id)}
           Of(slug) == {i \in bare : carried[i].id[2] = slug}
           Latest(slug) == CHOOSE i \in Of(slug) : \A j \in Of(slug) : j <= i
           slug == Slug[name]
           same == Of(slug)
           i == Latest(slug)
<1>1. Seeded(carried) = [s \in {carried[j].id[2] : j \in bare} |-> carried[Latest(s)].ev[1]]
  BY Zenon DEF Seeded
<1>2. Len(carried) \in Nat /\ DOMAIN carried = 1..Len(carried)
  BY ListIsFunction DEF GoodCarried
<1>3. PICK k \in DOMAIN carried : carried[k] = h
  BY DEF ToSet
<1>4. Len(h.id) = 2 /\ h.id[2] = slug
  BY DEF BareId
<1>5. k \in same
  BY <1>3, <1>4 DEF IsBare
<1>6. i \in same
  <2>1. same \in SUBSET (1..Len(carried)) /\ same # {}
    BY <1>2, <1>5
  <2> HIDE DEF same
  <2>2. \E x \in same : \A j \in same : j <= x
    BY <1>2, <2>1, GreatestElement, Zenon
  <2> QED
    BY <2>2 DEF same
<1>7. slug \in {carried[j].id[2] : j \in bare}
  BY <1>5
<1>8. slug \in DOMAIN Seeded(carried) /\ Seeded(carried)[slug] = carried[i].ev[1]
  <2> HIDE DEF bare, Latest
  <2> QED
    BY <1>1, <1>7
<1>9. carried[i] \in ToSet(carried) /\ carried[i].k = "agent"
  BY <1>6, Zenon DEF ToSet
<1> HIDE DEF i
<1>10. carried[i].src = carried[i].ev[1][1] /\ carried[i].src \notin only
  BY <1>9 DEF GoodCarried, AgentOK
<1> QED
  BY <1>8, <1>10

\* No two agents of a scan share an identity, carried ones included.
LEMMA ScanIdsAreUnique ==
    ASSUME NEW ids, NEW only, NEW carried, NEW slugs, NEW facts, FactsAre(ids, only, carried, slugs, facts),
           GoodCarried(carried), Unique(ToSet(carried)),
           \A c \in ToSet(carried) : c.k = "agent" => c.src \notin only,
           Extended(Seeded(carried), ids)
    PROVE  Unique(ToSet(facts))
<1> SUFFICES ASSUME NEW f \in ToSet(facts), NEW g \in ToSet(facts), f.k = "agent", g.k = "agent", f.id = g.id
             PROVE  Origin(f) = Origin(g)
  BY DEF Unique
<1>1. /\ AgentOK(f) /\ (Owned(ids, only, f) \/ CarriedAs(carried, f))
      /\ AgentOK(g) /\ (Owned(ids, only, g) \/ CarriedAs(carried, g))
  BY DEF FactsAre
<1>2. ASSUME NEW x, NEW y, AgentOK(x), AgentOK(y), x.id = y.id,
             Owned(ids, only, x), Owned(ids, only, y)
      PROVE  Origin(x) = Origin(y)
  BY <1>2, IdTells DEF Owned
<1>3. ASSUME NEW x, NEW y, AgentOK(x), x.id = y.id,
             Owned(ids, only, x), CarriedAs(carried, y)
      PROVE  Origin(x) = Origin(y)
  <2>1. PICK c \in ToSet(carried) : c.k = "agent" /\ c.id = y.id /\ Origin(c) = Origin(y)
    BY <1>3 DEF CarriedAs
  <2>2. AgentOK(c)
    BY <2>1 DEF GoodCarried
  <2>3. CASE x.id = BareId(x.name)
    <3>1. Slug[x.name] \in DOMAIN Seeded(carried) /\ Seeded(carried)[Slug[x.name]][1] \notin only
      <4>1. PICK name : name = x.name
        OBVIOUS
      <4>2. c.id = BareId(name)
        BY <1>3, <2>1, <2>3, <4>1
      <4> QED
        BY <2>1, <4>1, <4>2, SeedsAreElsewhere, Zenon
    <3>2. ids[Slug[x.name]] = Seeded(carried)[Slug[x.name]]
      BY <3>1 DEF Extended
    <3>3. ids[Slug[x.name]] = Origin(x) /\ Origin(x)[1] \in only
      BY <1>3, <2>3 DEF Owned
    <3> QED
      BY <3>1, <3>2, <3>3
  <2>4. CASE x.id # BareId(x.name)
    BY <1>3, <2>1, <2>2, <2>4, IdTells
  <2> QED
    BY <2>3, <2>4
<1>4. ASSUME CarriedAs(carried, f), CarriedAs(carried, g)
      PROVE  Origin(f) = Origin(g)
  BY <1>4 DEF CarriedAs, Unique
<1> QED
  BY <1>1, <1>2, <1>3, <1>4

(***************************************************************************)
(* Marks over the commits                                                  *)
(***************************************************************************)

\* The marks of all modules are those of the tree.
LEMMA MarkedIs ==
    ASSUME NEW t
    PROVE  SlugsOf(MarksOfAll(t, DOMAIN t.text)) = Marked(t)
<1>1. ASSUME NEW slug \in SlugsOf(MarksOfAll(t, DOMAIN t.text)) PROVE slug \in Marked(t)
  <2>1. PICK m \in DOMAIN t.text : \E mark \in MarksIn(t, m) : slug = Slug[mark[1]]
    BY DEF SlugsOf, MarksOfAll
  <2>2. PICK i \in DOMAIN t.text[m].body : \E mark \in MarksOn(t, <<m, i>>) : slug = Slug[mark[1]]
    BY <2>1 DEF MarksIn
  <2> DEFINE s == <<m, i>>
  <2>3. At(t, s).c = "mark" /\ \E n \in AgentNamed(t, At(t, s).agent) : slug = Slug[n]
    BY <2>2 DEF MarksOn
  <2>4. s \in SitesIn(t, {"mark"})
    BY <2>1, <2>2, <2>3 DEF SitesIn, At
  <2> HIDE DEF s
  <2> QED
    BY <2>3, <2>4 DEF Marked
<1>2. ASSUME NEW slug \in Marked(t) PROVE slug \in SlugsOf(MarksOfAll(t, DOMAIN t.text))
  <2>1. PICK s \in SitesIn(t, {"mark"}) : \E n \in AgentNamed(t, At(t, s).agent) : slug = Slug[n]
    BY DEF Marked
  <2>2a. PICK m \in DOMAIN t.text : \E i \in DOMAIN t.text[m].body : s = <<m, i>> /\ t.text[m].body[i].c = "mark"
    BY DEF SitesIn
  <2>2. PICK i \in DOMAIN t.text[m].body : s = <<m, i>> /\ t.text[m].body[i].c = "mark"
    BY <2>2a
  <2>3. PICK n \in AgentNamed(t, At(t, s).agent) : slug = Slug[n]
    BY <2>1
  <2>4. At(t, s).c = "mark"
    BY <2>2 DEF At
  <2>5. <<n, s[1]>> \in MarksOn(t, s)
    BY <2>3, <2>4 DEF MarksOn
  <2>6. <<n, s[1]>> \in MarksIn(t, m)
    BY <2>2, <2>5 DEF MarksIn
  <2>7. PICK mark \in MarksOfAll(t, DOMAIN t.text) : mark[1] = n
    BY <2>6 DEF MarksOfAll
  <2> QED
    BY <2>3, <2>7 DEF SlugsOf
<1> QED
  BY <1>1, <1>2

\* A mark names the module it is in.
LEMMA MarkHasModule ==
    ASSUME NEW t, NEW m, NEW mark \in MarksIn(t, m)
    PROVE  mark[2] = m
<1>1. PICK i \in DOMAIN t.text[m].body : mark \in MarksOn(t, <<m, i>>)
  BY Zenon DEF MarksIn
<1>2. \E n : mark = <<n, <<m, i>>[1]>>
  BY <1>1 DEF MarksOn
<1> QED
  BY <1>2

\* What is affected holds what changed and what imports it.
LEMMA AffectedIs ==
    ASSUME NEW t
    PROVE  /\ Affected(t) \subseteq DOMAIN t.text
           /\ ChangedModules(t) \subseteq Affected(t)
           /\ \A m \in DOMAIN t.text, c \in ChangedModules(t) : c \in t.text[m].imports => m \in Affected(t)
<1>1. Affected(t) \subseteq DOMAIN t.text
  BY DEF Affected, Closure
<1>2. ChangedModules(t) \subseteq DOMAIN t.text
  BY DEF ChangedModules
<1>3. ChangedModules(t) \subseteq Affected(t)
  BY <1>2 DEF Affected, Closure
<1>4. ASSUME NEW m \in DOMAIN t.text, NEW c \in ChangedModules(t), c \in t.text[m].imports
      PROVE  m \in Affected(t)
  <2>1. ASSUME NEW S \in SUBSET DOMAIN t.text, ChangedModules(t) \cup Importers(t, S) \subseteq S
        PROVE  m \in S
    <3>1. c \in S
      BY <2>1
    <3>2. m \in Importers(t, S)
      BY <1>4, <3>1 DEF Importers
    <3> QED
      BY <2>1, <3>2
  <2> QED
    BY <2>1 DEF Affected, Closure
<1> QED
  BY <1>1, <1>3, <1>4

\* The marks of a module that is not analysed are those it had.
LEMMA MarksStay ==
    ASSUME NEW t, GoodTree(t), DOMAIN base.text \subseteq DOMAIN t.text, NEW m \in DOMAIN t.text \ Affected(t)
    PROVE  m \in DOMAIN base.text /\ MarksIn(t, m) = MarksIn(base, m)
<1>1. \A c \in DOMAIN t.text : c \notin ChangedModules(t) => c \in DOMAIN base.text /\ t.text[c] = base.text[c]
  BY DEF ChangedModules
<1>2. m \in DOMAIN base.text /\ t.text[m] = base.text[m]
  BY <1>1, AffectedIs
<1>3. ASSUME NEW i \in DOMAIN t.text[m].body
      PROVE  MarksOn(t, <<m, i>>) = MarksOn(base, <<m, i>>)
  <2> DEFINE x == t.text[m].body[i]
             ref == x.agent
  <2>1. At(t, <<m, i>>) = x /\ At(base, <<m, i>>) = x
    BY <1>2 DEF At
  <2>2. CASE x.c # "mark"
    BY <2>1, <2>2 DEF MarksOn
  <2>3. CASE x.c = "mark"
    <3>1. ref.mod \in t.text[m].imports \cup {m}
      BY <2>3, Zenon DEF GoodTree, Construct, Follows
    <3>2. ref.mod \notin ChangedModules(t)
      BY <3>1, AffectedIs
    <3> HIDE DEF x, ref
    <3>3. Lookup(t, ref, "agent") = Lookup(base, ref, "agent")
      <4>1. CASE ref.mod \in DOMAIN t.text
        <5>1. ref.mod \in DOMAIN base.text /\ t.text[ref.mod] = base.text[ref.mod]
          BY <1>1, <3>2, <4>1
        <5> QED
          BY <4>1, <5>1 DEF Lookup
      <4>2. CASE ref.mod \notin DOMAIN t.text
        <5>1. ref.mod \notin DOMAIN base.text
          BY <4>2
        <5> QED
          BY <4>2, <5>1 DEF Lookup
      <4> QED
        BY <4>1, <4>2
    <3>4. ASSUME NEW s \in Lookup(t, ref, "agent")
          PROVE  At(t, s) = At(base, s)
      <4>1. ref.mod \in DOMAIN t.text /\ s[1] = ref.mod
        BY <3>4 DEF Lookup
      <4>2. t.text[ref.mod] = base.text[ref.mod]
        BY <1>1, <3>2, <4>1
      <4> QED
        BY <4>1, <4>2 DEF At
    <3>5. AgentNamed(t, ref) = AgentNamed(base, ref)
      <4>1. PICK found : found = Lookup(t, ref, "agent")
        OBVIOUS
      <4>2. {At(t, s).name : s \in found} = {At(base, s).name : s \in found}
        BY <3>4, <4>1
      <4> QED
        BY <3>3, <4>1, <4>2, Zenon DEF AgentNamed
    <3> QED
      BY <2>1, <3>5, Zenon DEF MarksOn, ref
  <2> QED
    BY <2>2, <2>3
<1>4. MarksIn(t, m) = MarksIn(base, m)
  BY <1>2, <1>3 DEF MarksIn
<1> QED
  BY <1>2, <1>4

\* The marks that are carried and those that are found anew are those of the tree.
LEMMA CarriedMarksComplete ==
    ASSUME NEW t, GoodTree(t), DOMAIN base.text \subseteq DOMAIN t.text,
           IsList(cache.marks), ToSet(cache.marks) = MarksOfAll(base, DOMAIN base.text)
    PROVE  /\ IsList(CarriedMarks(t))
           /\ ToSet(CarriedMarks(t)) \cup MarksOfAll(t, Affected(t)) = MarksOfAll(t, DOMAIN t.text)
<1> DEFINE keep == {mark \in ToSet(cache.marks) : mark[2] \notin Affected(t)}
<1>1. IsList(CarriedMarks(t)) /\ ToSet(CarriedMarks(t)) = keep
  <2>1. IsList(Filtered(cache.marks, keep)) /\ ToSet(Filtered(cache.marks, keep)) = ToSet(cache.marks) \cap keep
    <3> HIDE DEF keep
    <3> QED
      BY KeptAre
  <2> QED
    BY <2>1 DEF CarriedMarks
<1>2. ASSUME NEW mark \in keep PROVE mark \in MarksOfAll(t, DOMAIN t.text)
  <2>1. PICK m \in DOMAIN base.text : mark \in MarksIn(base, m)
    BY DEF MarksOfAll
  <2>2. m \in DOMAIN t.text \ Affected(t)
    BY <2>1, MarkHasModule
  <2>3. mark \in MarksIn(t, m)
    BY <2>1, <2>2, MarksStay
  <2> QED
    BY <2>2, <2>3 DEF MarksOfAll
<1>3. MarksOfAll(t, Affected(t)) \subseteq MarksOfAll(t, DOMAIN t.text)
  BY AffectedIs DEF MarksOfAll
<1>4. ASSUME NEW mark \in MarksOfAll(t, DOMAIN t.text), mark \notin MarksOfAll(t, Affected(t))
      PROVE  mark \in keep
  <2>1. PICK m \in DOMAIN t.text : mark \in MarksIn(t, m)
    BY DEF MarksOfAll
  <2>2. m \notin Affected(t)
    BY <1>4, <2>1 DEF MarksOfAll
  <2>3. m \in DOMAIN base.text /\ mark \in MarksIn(base, m)
    BY <2>1, <2>2, MarksStay
  <2>4. mark \in MarksOfAll(base, DOMAIN base.text) /\ mark[2] = m
    BY <2>1, <2>3, MarkHasModule DEF MarksOfAll
  <2> QED
    BY <2>2, <2>4
<1> HIDE DEF keep
<1> QED
  BY <1>1, <1>2, <1>3, <1>4

(***************************************************************************)
(* A scan                                                                  *)
(***************************************************************************)

\* What holds of a scan, whatever it carries.
LEMMA ScanIs ==
    ASSUME NEW t, GoodTree(t), NEW only \in SUBSET DOMAIN t.text,
           NEW carried, GoodCarried(carried), Unique(ToSet(carried)),
           \A c \in ToSet(carried) : c.k = "agent" => c.src \notin only,
           NEW marks, IsList(marks),
           ToSet(marks) \cup MarksOfAll(t, only) = MarksOfAll(t, DOMAIN t.text),
           NEW kind, kind = "incremental" \/ carried = <<>>
    PROVE  ScanHolds(t, Scanned(t, only, carried, marks, kind))
<1> DEFINE sinks == SinkSites(t, only)
           raw == Unflagged(t, only, carried, marks)
           reset == (kind = "incremental")
           run == ApplyEntrypoints(raw, reset)
           usages == UsageFacts(t, sinks, run.consumed)
           s == Scanned(t, only, carried, marks, kind)
<1>1. Run(t, only, carried, marks, reset) = run
  BY Zenon DEF Run, Unflagged
<1>2. s.facts = run.facts \o usages /\ s.marks = run.marks
      /\ s.record = Record(s.facts, Cardinality(sinks))
  BY <1>1, Zenon DEF Scanned, WithUsages, Outcome
<1>3. RunInv(only, carried, raw) /\ ToSet(raw.marks) = ToSet(marks) \cup MarksOfAll(t, only)
  BY UnflaggedIs, Zenon
<1>4. Extended(Seeded(carried), raw.ids)
  BY <1>3 DEF RunInv
<1> HIDE DEF raw
<1>5. /\ FactsAre(raw.ids, only, carried, SlugsOf(ToSet(raw.marks)), run.facts)
      /\ run.marks = raw.marks /\ IsList(run.marks)
  <2>1. reset \in BOOLEAN /\ (reset \/ carried = <<>>)
    OBVIOUS
  <2> HIDE DEF reset
  <2> QED
    BY <1>3, <2>1, FlaggedIs, ZenonT(60)
<1>6. Plain(usages)
  BY UsagesArePlain
<1> HIDE DEF run, usages, s, sinks
<1>7. SlugsOf(ToSet(raw.marks)) = Marked(t)
  BY <1>3, MarkedIs, Zenon
<1>8. Unique(ToSet(run.facts))
  BY <1>4, <1>5, ScanIdsAreUnique
<1>9. /\ IsList(run.facts) /\ IsList(usages) /\ \A f \in ToSet(usages) : Kinded(f) /\ f.k # "agent"
  BY <1>5, <1>6 DEF FactsAre, Plain, PlainFact
<1>10. IsList(s.facts) /\ ToSet(s.facts) = ToSet(run.facts) \cup ToSet(usages)
  BY <1>2, <1>9, Concatenated
<1>11. FactsHold(t, ToSet(s.facts))
  <2>1. ASSUME NEW f \in ToSet(s.facts)
        PROVE  /\ Kinded(f)
               /\ f.k = "agent" => AgentOK(f) /\ (f.entry <=> Slug[f.name] \in Marked(t))
    <3>1. CASE f \in ToSet(usages)
      BY <1>9, <3>1
    <3>2. CASE f \in ToSet(run.facts)
      BY <1>5, <1>7, <3>2 DEF FactsAre
    <3> QED
      BY <1>10, <3>1, <3>2
  <2>2. Unique(ToSet(s.facts))
    BY <1>8, <1>9, <1>10 DEF Unique
  <2> QED
    BY <2>1, <2>2 DEF FactsHold
<1> QED
  BY <1>2, <1>3, <1>5, <1>10, <1>11, Zenon DEF ScanHolds, s

(***************************************************************************)
(* The specification                                                       *)
(***************************************************************************)

\* A tree of a repository is one that scans are about.
LEMMA RepoTreesAreGood ==
    ASSUME NEW r \in Repositories, NEW t, OfRepo(r, t)
    PROVE  GoodTree(t)
<1>1. /\ DOMAIN r.texts \subseteq ToSet(ModuleOrder) \ {"config"}
      /\ \A config \in r.configs : IsFiniteSet(config)
      /\ \A m \in DOMAIN r.texts : \A text \in r.texts[m] \ {Absent} :
            IsList(text.body) /\ \A i \in DOMAIN text.body : Construct(m, text, text.body[i])
  BY RepositoriesAssumption
<1> QED
  BY <1>1 DEF OfRepo, GoodTree

\* Texts that the repository offers make a tree of it.
LEMMA TreeOfIs ==
    ASSUME NEW r, NEW texts, NEW config \in r.configs, DOMAIN texts = DOMAIN r.texts,
           \A m \in DOMAIN texts : texts[m] = Absent \/ texts[m] \in r.texts[m]
    PROVE  OfRepo(r, TreeOf(texts, config))
<1> DEFINE present == {n \in DOMAIN texts : texts[n] # Absent}
           text == [m \in present |-> texts[m]]
<1>1. TreeOf(texts, config) = [text |-> text, config |-> config]
  BY DEF TreeOf
<1>2. /\ DOMAIN text \subseteq DOMAIN r.texts
      /\ \A m \in DOMAIN text : text[m] \in r.texts[m] \ {Absent}
  OBVIOUS
<1> HIDE DEF text
<1> QED
  BY <1>1, <1>2 DEF OfRepo

\* The invariant holds before the first scan.
LEMMA InitHolds == Init => IInv
<1> SUFFICES ASSUME Init PROVE IInv
  OBVIOUS
<1>1. repo \in Repositories
  BY DEF Init
<1>2. PICK texts \in [DOMAIN repo.texts -> UNION {repo.texts[m] : m \in DOMAIN repo.texts}] :
        \E config \in repo.configs :
            (\A m \in DOMAIN texts : texts[m] \in repo.texts[m]) /\ tree = TreeOf(texts, config)
  BY DEF Init
<1>3. PICK config \in repo.configs :
        (\A m \in DOMAIN texts : texts[m] \in repo.texts[m]) /\ tree = TreeOf(texts, config)
  BY <1>2
<1>4. OfRepo(repo, tree)
  BY <1>2, <1>3, TreeOfIs
<1> QED
  BY <1>1, <1>4 DEF Init, IInv, HasRecord

\* A commit changes the tree within its repository, and no scan.
LEMMA CommitKeeps == IInv /\ Commit => IInv'
<1> SUFFICES ASSUME IInv, Commit PROVE IInv'
  OBVIOUS
<1>1. repo' = repo /\ base' = base /\ cache' = cache /\ last' = last
  BY DEF Commit
<1>2. OfRepo(repo, tree')
  <2>1. ASSUME NEW m \in DOMAIN repo.texts, NEW x \in repo.texts[m],
               tree' = TreeOf([Texts(tree) EXCEPT ![m] = x], tree.config)
        PROVE  OfRepo(repo, tree')
    <3> DEFINE texts == [Texts(tree) EXCEPT ![m] = x]
    <3>1. /\ DOMAIN Texts(tree) = DOMAIN repo.texts
          /\ \A n \in DOMAIN repo.texts : Texts(tree)[n] = Absent \/ Texts(tree)[n] \in repo.texts[n]
      BY DEF IInv, OfRepo, Texts
    <3>2. /\ DOMAIN texts = DOMAIN repo.texts
          /\ \A n \in DOMAIN texts : texts[n] = Absent \/ texts[n] \in repo.texts[n]
      BY <3>1
    <3> HIDE DEF texts
    <3>3. tree.config \in repo.configs
      BY DEF IInv, OfRepo
    <3>4. OfRepo(repo, TreeOf(texts, tree.config))
      BY <3>2, <3>3, TreeOfIs
    <3> QED
      BY <2>1, <3>4 DEF texts
  <2>2. ASSUME NEW c \in repo.configs, tree' = [tree EXCEPT !.config = c]
        PROVE  OfRepo(repo, tree')
    BY <2>2 DEF IInv, OfRepo
  <2> QED
    BY <2>1, <2>2, Zenon DEF Commit
<1> QED
  BY <1>1, <1>2 DEF IInv, HasRecord

\* Writing the cache after a scan establishes the invariant.
LEMMA FinishHolds ==
    ASSUME IInv, NEW kind, kind # "none", NEW s, ScanHolds(tree, s), Finish(kind, s)
    PROVE  IInv'
<1>1. /\ cache' = [facts |-> Listed(ToSet(s.facts)), marks |-> Listed(ToSet(s.marks))]
      /\ last' = [kind |-> kind, record |-> s.record, derived |-> Derived(s.record)]
      /\ base' = tree /\ repo' = repo /\ tree' = tree
  BY DEF Finish
<1>2. /\ IsList(s.facts) /\ IsList(s.marks)
      /\ ToSet(s.marks) = MarksOfAll(tree, DOMAIN tree.text)
      /\ FactsHold(tree, ToSet(s.facts))
  BY DEF ScanHolds
<1>3. /\ IsList(cache.facts)' /\ ToSet(cache'.facts) = ToSet(s.facts)
      /\ IsList(cache.marks)' /\ ToSet(cache'.marks) = ToSet(s.marks)
  BY <1>1, <1>2, ListIsFinite, ListedAre
<1>4. CacheHolds(tree, cache')
  BY <1>2, <1>3 DEF CacheHolds
<1>5. RecordOfCache(cache', last')
  <2>1. PICK n : s.record = Record(s.facts, n)
    BY DEF ScanHolds
  <2>2. AllKinded(s.facts)
    BY <1>2 DEF AllKinded, FactsHold
  <2>3. last'.record = s.record /\ last'.derived = Derived(last'.record)
    BY <1>1
  <2> QED
    BY <1>3, <2>1, <2>2, <2>3 DEF RecordOfCache
<1>6. HasRecord'
  BY <1>1 DEF HasRecord
<1> QED
  BY <1>1, <1>4, <1>5, <1>6 DEF IInv

\* A full scan carries nothing.
LEMMA FullScanHolds ==
    ASSUME NEW t, GoodTree(t)
    PROVE  ScanHolds(t, FullOf(t))
<1>1. IsList(<<>>) /\ ToSet(<<>>) = {}
  BY ShortLists
<1>2. GoodCarried(<<>>) /\ Unique(ToSet(<<>>))
  BY <1>1 DEF GoodCarried, Unique
<1>3. PICK only \in SUBSET DOMAIN t.text : only = DOMAIN t.text
  OBVIOUS
<1>4. PICK none : none = <<>>
  OBVIOUS
<1>5. ToSet(none) \cup MarksOfAll(t, only) = MarksOfAll(t, DOMAIN t.text)
  BY <1>1, <1>3, <1>4
<1>6. ScanHolds(t, Scanned(t, only, none, none, "full"))
  BY <1>1, <1>2, <1>4, <1>5, ScanIs
<1> QED
  BY <1>3, <1>4, <1>6 DEF FullOf

\* A full scan establishes the invariant from nothing.
LEMMA FullScanKeeps == IInv /\ FullScan => IInv'
<1> SUFFICES ASSUME IInv, FullScan PROVE IInv'
  OBVIOUS
<1>1. GoodTree(tree)
  BY RepoTreesAreGood DEF IInv
<1>2. PICK s : s = FullOf(tree)
  OBVIOUS
<1>3. ScanHolds(tree, s)
  BY <1>1, <1>2, FullScanHolds
<1>4. Finish("full", s)
  BY <1>2 DEF FullScan
<1> QED
  BY <1>3, <1>4, FinishHolds

\* Under the invariant.
LEMMA IncrementalScanHolds ==
    ASSUME IInv, IncrementalScan
    PROVE  CarriesWell(tree)
<1>1. GoodTree(tree) /\ CacheHolds(base, cache) /\ DOMAIN base.text \subseteq DOMAIN tree.text
  BY RepoTreesAreGood DEF IInv, IncrementalScan, HasRecord
<1>2. /\ IsList(cache.facts) /\ IsList(cache.marks)
      /\ ToSet(cache.marks) = MarksOfAll(base, DOMAIN base.text)
      /\ FactsHold(base, ToSet(cache.facts))
  BY <1>1 DEF CacheHolds
<1>3. /\ IsList(CarriedMarks(tree))
      /\ ToSet(CarriedMarks(tree)) \cup MarksOfAll(tree, Affected(tree)) = MarksOfAll(tree, DOMAIN tree.text)
  BY <1>1, <1>2, CarriedMarksComplete
<1>4. IsList(CarriedFacts(tree)) /\ ToSet(CarriedFacts(tree)) \subseteq {f \in ToSet(cache.facts) : Keeps(tree, f)}
  <2> DEFINE keep == {f \in ToSet(cache.facts) : Keeps(tree, f)}
  <2>1. CarriedFacts(tree) = Filtered(cache.facts, keep)
    BY DEF CarriedFacts
  <2> HIDE DEF keep
  <2>2. IsList(CarriedFacts(tree)) /\ ToSet(CarriedFacts(tree)) = ToSet(cache.facts) \cap keep
    BY <1>2, <2>1, KeptAre
  <2> QED
    BY <2>2 DEF keep
<1>5. GoodCarried(CarriedFacts(tree)) /\ Unique(ToSet(CarriedFacts(tree)))
  BY <1>2, <1>4 DEF GoodCarried, FactsHold, Unique
<1>6. \A c \in ToSet(CarriedFacts(tree)) : c.k = "agent" => c.src \notin Affected(tree)
  BY <1>4 DEF Keeps
<1>7. Affected(tree) \subseteq DOMAIN tree.text
  BY AffectedIs
<1>8. ScanHolds(tree, Scan(tree, CarriedFacts(tree), CarriedMarks(tree)))
  <2>1. PICK only \in SUBSET DOMAIN tree.text : only = Affected(tree)
    BY <1>7
  <2>2. PICK carried, marks : carried = CarriedFacts(tree) /\ marks = CarriedMarks(tree)
    OBVIOUS
  <2>3. /\ GoodCarried(carried) /\ Unique(ToSet(carried)) /\ IsList(marks)
        /\ \A c \in ToSet(carried) : c.k = "agent" => c.src \notin only
        /\ ToSet(marks) \cup MarksOfAll(tree, only) = MarksOfAll(tree, DOMAIN tree.text)
    BY <1>3, <1>5, <1>6, <2>1, <2>2
  <2>4. ScanHolds(tree, Scanned(tree, only, carried, marks, "incremental"))
    BY <1>1, <2>3, ScanIs, Zenon
  <2> QED
    BY <2>1, <2>2, <2>4 DEF Scan
<1> QED
  BY <1>3, <1>5, <1>8 DEF CarriesWell

\* An incremental scan keeps the invariant.
LEMMA IncrementalScanKeeps == IInv /\ IncrementalScan => IInv'
<1> SUFFICES ASSUME IInv, IncrementalScan PROVE IInv'
  OBVIOUS
<1>1. PICK s : s = Scan(tree, CarriedFacts(tree), CarriedMarks(tree))
  OBVIOUS
<1>2. ScanHolds(tree, s)
  BY <1>1, IncrementalScanHolds DEF CarriesWell
<1>3. Finish("incremental", s)
  BY <1>1 DEF IncrementalScan, Scan
<1> QED
  BY <1>2, <1>3, FinishHolds

\* The invariant holds over any chain of commits, full and incremental scans.
THEOREM ScansKeepInvariant == Spec => []IInv
<1>1. ASSUME IInv, [Next]_vars PROVE IInv'
  <2>1. CASE Commit
    BY <1>1, <2>1, CommitKeeps
  <2>2. CASE FullScan
    BY <1>1, <2>2, FullScanKeeps
  <2>3. CASE IncrementalScan
    BY <1>1, <2>3, IncrementalScanKeeps
  <2>4. CASE UNCHANGED vars
    BY <1>1, <2>4 DEF vars, IInv, HasRecord
  <2> QED
    BY <1>1, <2>1, <2>2, <2>3, <2>4 DEF Next
<1> QED
  BY InitHolds, <1>1, PTL DEF Spec

\* The graph of every record is well formed: each edge joins two nodes of the kinds its type
\* asks for, although build_graph takes carried facts with new ones.
THEOREM FrameworkTypeCorrect == Spec => []TypeOK
<1>1. ASSUME IInv PROVE TypeOK
  <2> SUFFICES ASSUME HasRecord PROVE WellFormed(last.record.graph)
    BY DEF TypeOK
  <2>1. PICK facts, n : AllKinded(facts) /\ last.record = Record(facts, n)
    BY <1>1 DEF IInv, RecordOfCache
  <2>2. Record(facts, n).graph = Graph(facts)
    BY DEF Record, RecordOf
  <2> QED
    BY <2>1, <2>2, GraphIsWellFormed
<1> QED
  BY <1>1, ScansKeepInvariant, PTL

\* No two agents of the repository share an identity through any chain of incremental scans:
\* the ids of carried agents are seeded before a new one is given.
THEOREM IdentitiesAreUnique == Spec => []AgentIdsAreUnique
<1>1. ASSUME IInv PROVE AgentIdsAreUnique
  <2>1. CASE HasRecord
    <3>1. Unique(ToSet(cache.facts))
      BY <1>1, <2>1 DEF IInv, CacheHolds, FactsHold
    <3> QED
      BY <3>1 DEF Unique, AgentIdsAreUnique
  <2>2. CASE ~HasRecord
    <3>1. ToSet(cache.facts) = {}
      BY <1>1, <2>2, ShortLists DEF IInv, NoFacts
    <3> QED
      BY <3>1 DEF AgentIdsAreUnique
  <2> QED
    BY <2>1, <2>2
<1> QED
  BY <1>1, ScansKeepInvariant, PTL

\* An agent is an entrypoint exactly if the tree marks its name, whichever modules were
\* analysed again: the marks that go are taken back, those that stay are carried.
THEOREM EntrypointsFollowMarks == Spec => []EntrypointsAreMarked
<1>1. ASSUME IInv PROVE EntrypointsAreMarked
  <2> SUFFICES ASSUME HasRecord, NEW id \in OfKind(last.record.graph.nodes, "agent")
               PROVE  last.record.graph.nodes[id].entry <=> Slug[last.record.graph.nodes[id].name] \in Marked(base)
    BY DEF EntrypointsAreMarked
  <2>1. PICK facts, n : AllKinded(facts) /\ ToSet(facts) = ToSet(cache.facts) /\ last.record = Record(facts, n)
    BY <1>1 DEF IInv, RecordOfCache
  <2>2. last.record.graph.nodes = Nodes(facts)
    BY <2>1 DEF Record, RecordOf, Graph, GraphOf
  <2>3. id \in DOMAIN Nodes(facts) /\ Nodes(facts)[id].k = "agent"
    BY <2>2 DEF OfKind
  <2>4. PICK f \in ToSet(facts) :
            f.k = "agent" /\ Nodes(facts)[id].name = f.name /\ Nodes(facts)[id].entry = f.entry
    BY <2>1, <2>3, NodeIsAFact
  <2>5. f.entry <=> Slug[f.name] \in Marked(base)
    BY <1>1, <2>1, <2>4 DEF IInv, CacheHolds, FactsHold
  <2> QED
    BY <2>2, <2>4, <2>5
<1> QED
  BY <1>1, ScansKeepInvariant, PTL

\* Reachable tools and liveness are those of the smallest set of agents that the transfers
\* lead to, however they wind.
THEOREM DerivationFollowsTransfers == Spec => []DerivedFollowsTransfers
<1>1. ASSUME IInv PROVE DerivedFollowsTransfers
  <2> SUFFICES ASSUME HasRecord PROVE DerivedFollowsTransfers
    BY Zenon DEF DerivedFollowsTransfers
  <2> DEFINE agents == last.record.agents
             entries == {a \in DOMAIN agents : agents[a].entry}
  <2>1. PICK facts, n : AllKinded(facts) /\ last.record = Record(facts, n) /\ last.derived = Derived(last.record)
    BY <1>1 DEF IInv, RecordOfCache
  <2>2. WellLinked(last.record.agents)
    BY <2>1, RecordIsLinked
  <2>3. \A start : SmallestClosed(start) = LeastOf(agents, start)
    BY DEF SmallestClosed, LeastOf, Closed, Successors, To
  <2>4. \A a \in DOMAIN agents :
           /\ Derived(last.record).agents[a].tools = UNION {agents[b].tools : b \in LeastOf(agents, {a})}
           /\ Derived(last.record).agents[a].liveness = "defined" <=> a \notin LeastOf(agents, entries)
    <3>1. PICK record : record = last.record
      OBVIOUS
    <3> QED
      BY <2>2, <3>1, DerivedFollows, Zenon
  <2>5. \A a \in DOMAIN agents :
           /\ last.derived.agents[a].tools = UNION {agents[b].tools : b \in SmallestClosed({a})}
           /\ last.derived.agents[a].liveness = "defined" <=> a \notin SmallestClosed(entries)
    <3> HIDE DEF agents, entries
    <3> QED
      BY <2>1, <2>3, <2>4
  <2> QED
    BY <2>5, Zenon DEF DerivedFollowsTransfers
<1> QED
  BY <1>1, ScansKeepInvariant, PTL

(***************************************************************************)
(* Two trees, or two sets of known sinks, that a module cannot tell apart  *)
(***************************************************************************)

\* What a construct of such a module refers to is in view.
LEMMA RefsAreViewed ==
    ASSUME NEW t1, NEW sp1, NEW t2, NEW sp2, NEW R, SameView(t1, sp1, t2, sp2, R),
           NEW m \in R, NEW refs, Follows(m, t1.text[m], refs), NEW ref \in refs
    PROVE  Viewed(t1, t2, R, ref)
<1>1. ref.mod \in t1.text[m].imports \cup {m}
  BY DEF Follows
<1> QED
  BY <1>1 DEF SameView, Viewed

\* A reference in view resolves to the same construct.
LEMMA SameLookup ==
    ASSUME NEW t1, GoodTree(t1), NEW sp1, NEW t2, NEW sp2, NEW R, SameView(t1, sp1, t2, sp2, R),
           NEW ref, Viewed(t1, t2, R, ref), NEW kind
    PROVE  /\ Lookup(t1, ref, kind) = Lookup(t2, ref, kind)
           /\ \A s \in Lookup(t1, ref, kind) :
                 /\ s[1] \in R /\ s[1] = ref.mod /\ s[2] \in DOMAIN t1.text[s[1]].body /\ Pair(s)
                 /\ At(t1, s) = At(t2, s)
<1>1. CASE ref.mod \in R
  <2>1. t1.text[ref.mod] = t2.text[ref.mod] /\ ref.mod \in DOMAIN t1.text /\ ref.mod \in DOMAIN t2.text
    BY <1>1 DEF SameView
  <2>2. Lookup(t1, ref, kind) = Lookup(t2, ref, kind)
    BY <2>1 DEF Lookup
  <2>3. ASSUME NEW s \in Lookup(t1, ref, kind)
        PROVE  /\ s[1] \in R /\ s[1] = ref.mod /\ s[2] \in DOMAIN t1.text[s[1]].body /\ Pair(s)
               /\ At(t1, s) = At(t2, s)
    <3>1. PICK i \in DOMAIN t1.text[ref.mod].body : s = <<ref.mod, i>>
      BY GoodLookup
    <3>2. s[1] = ref.mod /\ s[2] = i /\ Pair(s)
      BY <3>1 DEF Pair
    <3> QED
      BY <1>1, <2>1, <3>2 DEF At
  <2> QED
    BY <2>2, <2>3
<1>2. CASE ref.mod \notin DOMAIN t1.text \cup DOMAIN t2.text
  BY <1>2, Zenon DEF Lookup
<1> QED
  BY <1>1, <1>2 DEF Viewed

\* The names of the agents that it resolves to are the same.
LEMMA SameNamed ==
    ASSUME NEW t1, GoodTree(t1), NEW sp1, NEW t2, NEW sp2, NEW R, SameView(t1, sp1, t2, sp2, R),
           NEW ref, Viewed(t1, t2, R, ref)
    PROVE  AgentNamed(t1, ref) = AgentNamed(t2, ref)
<1>1. PICK S : S = Lookup(t1, ref, "agent") /\ S = Lookup(t2, ref, "agent")
  BY SameLookup
<1>2. \A s \in S : At(t1, s) = At(t2, s)
  BY <1>1, SameLookup
<1>3. {At(t1, s).name : s \in S} = {At(t2, s).name : s \in S}
  BY <1>2
<1> QED
  BY <1>1, <1>3, Zenon DEF AgentNamed

\* A model in view has one value.
LEMMA SameValue ==
    ASSUME NEW t1, GoodTree(t1), NEW sp1, NEW t2, NEW sp2, NEW R, SameView(t1, sp1, t2, sp2, R),
           NEW e, e.n = "ref" => Viewed(t1, t2, R, e)
    PROVE  /\ Value(t1, e) = Value(t2, e)
           /\ \A style, site : ModelFact(t1, e, style, site) = ModelFact(t2, e, style, site)
           /\ \A id, style, site : BoundModel(t1, e, id, style, site) = BoundModel(t2, e, id, style, site)
<1>1. Value(t1, e) = Value(t2, e)
  <2>1. CASE e.n # "ref"
    BY <2>1 DEF Value
  <2>2. CASE e.n = "ref"
    <3>1. PICK S : S = Lookup(t1, e, "const") /\ S = Lookup(t2, e, "const")
      BY <2>2, SameLookup
    <3>2. \A s \in S : At(t1, s) = At(t2, s)
      BY <2>2, <3>1, SameLookup
    <3>3. S # {} => The(S) \in S
      BY DEF The
    <3>4. S # {} => At(t1, The(S)).e = At(t2, The(S)).e
      BY <3>2, <3>3
    <3>5. Value(t1, e) = (IF S = {} THEN Unresolved ELSE At(t1, The(S)).e)
      BY <2>2, <3>1, Zenon DEF Value
    <3>6. Value(t2, e) = (IF S = {} THEN Unresolved ELSE At(t2, The(S)).e)
      BY <2>2, <3>1, Zenon DEF Value
    <3> QED
      BY <3>4, <3>5, <3>6
  <2> QED
    BY <2>1, <2>2
<1>2. \A style, site : ModelFact(t1, e, style, site) = ModelFact(t2, e, style, site)
  BY <1>1, Zenon DEF ModelFact
<1> QED
  BY <1>1, <1>2, Zenon DEF BoundModel

(***************************************************************************)
(* Side effects                                                            *)
(***************************************************************************)

\* Reading one call after the other is defined for any number of them.
LEMMA CallsExist ==
    ASSUME NEW t, NEW sp, NEW deeper, NEW site, NEW visited, NEW n \in Nat
    PROVE  \E f : IsCalls(t, sp, deeper, site, visited, n, f)
<1> DEFINE Good == {k \in Nat : \E f : IsCalls(t, sp, deeper, site, visited, k, f)}
           own == [effects |-> OwnEffects(t, sp, site), visited |-> visited]
           Next1(acc, i) == Descend(t, deeper, acc, At(t, site).calls[i])
<1>0. \A k, f : IsCalls(t, sp, deeper, site, visited, k, f) <=>
                    f = [i \in 0..k |-> IF i = 0 THEN own ELSE Next1(f[i - 1], i)]
  BY DEF IsCalls
<1> HIDE DEF own, Next1
<1>1. 0 \in Good
  <2> DEFINE f == [i \in 0..0 |-> own]
  <2>1. f = [i \in 0..0 |-> IF i = 0 THEN own ELSE Next1(f[i - 1], i)]
    OBVIOUS
  <2> QED
    BY <1>0, <2>1, Zenon
<1>2. ASSUME NEW k \in Nat, k \in Good PROVE k + 1 \in Good
  <2>1. PICK f : f = [i \in 0..k |-> IF i = 0 THEN own ELSE Next1(f[i - 1], i)]
    BY <1>0, <1>2
  <2> DEFINE next == Next1(f[k], k + 1)
             g == [i \in 0..(k + 1) |-> IF i = k + 1 THEN next ELSE f[i]]
  <2>2. \A i \in 0..k : f[i] = IF i = 0 THEN own ELSE Next1(f[i - 1], i)
    BY <2>1, Zenon
  <2>3. ASSUME NEW i \in 0..(k + 1)
        PROVE  g[i] = IF i = 0 THEN own ELSE Next1(g[i - 1], i)
    <3>1. CASE i = k + 1
      <4>1. i # 0 /\ i - 1 = k /\ k \in 0..(k + 1) /\ k # k + 1
        BY <3>1
      <4> HIDE DEF next
      <4>2. g[i] = next /\ g[i - 1] = f[k]
        BY <3>1, <4>1
      <4> QED
        BY <3>1, <4>1, <4>2 DEF next
    <3>2. CASE i = 0
      <4>1. g[i] = f[0] /\ 0 \in 0..k
        BY <3>2
      <4> QED
        BY <2>2, <3>2, <4>1
    <3>3. CASE i \in 1..k
      <4>1. i \in 0..k /\ i - 1 \in 0..k /\ i # k + 1 /\ i - 1 # k + 1 /\ i - 1 \in 0..(k + 1) /\ i # 0
        BY <3>3
      <4> HIDE DEF next
      <4>2. g[i] = f[i] /\ g[i - 1] = f[i - 1]
        BY <4>1
      <4> QED
        BY <2>2, <4>1, <4>2
    <3> QED
      BY <3>1, <3>2, <3>3
  <2>4. g = [i \in 0..(k + 1) |-> g[i]]
    OBVIOUS
  <2> HIDE DEF g
  <2>5. g = [i \in 0..(k + 1) |-> IF i = 0 THEN own ELSE Next1(g[i - 1], i)]
    BY <2>3, <2>4, Zenon
  <2> QED
    BY <1>0, <2>5
<1> HIDE DEF Good
<1>3. \A k \in Nat : k \in Good
  BY <1>1, <1>2, SetInduction
<1> QED
  BY <1>3 DEF Good

\* Reading bodies with one more call in depth is defined for any depth.
LEMMA BodiesExist ==
    ASSUME NEW t, NEW sp, NEW n \in Nat
    PROVE  \E f : IsBodies(t, sp, n, f)
<1> DEFINE Good == {k \in Nat : \E f : IsBodies(t, sp, k, f)}
           Level(hops, below) ==
                [work \in Sites(t) \X SUBSET Sites(t) |->
                    IF hops = 0 THEN [effects |-> OwnEffects(t, sp, work[1]), visited |-> work[2]]
                    ELSE CallEffects(t, sp, below, work[1], work[2])]
<1>0. \A k, f : IsBodies(t, sp, k, f) <=> f = [i \in 0..k |-> Level(i, f[i - 1])]
  BY DEF IsBodies
<1>1. 0 \in Good
  <2> DEFINE f == [i \in 0..0 |-> Level(0, 0)]
  <2>0. Level(0, 0) = [work \in Sites(t) \X SUBSET Sites(t) |->
                          [effects |-> OwnEffects(t, sp, work[1]), visited |-> work[2]]]
    OBVIOUS
  <2>1. ASSUME NEW i \in 0..0, NEW below PROVE Level(i, below) = Level(0, 0)
    <3>1. i = 0
      OBVIOUS
    <3> QED
      BY <2>0, <3>1
  <2> HIDE DEF Level
  <2>2. f = [i \in 0..0 |-> Level(i, f[i - 1])]
    BY <2>1
  <2> QED
    BY <1>0, <2>2, Zenon
<1>2. ASSUME NEW k \in Nat, k \in Good PROVE k + 1 \in Good
  <2> HIDE DEF Level
  <2>1. PICK f : f = [i \in 0..k |-> Level(i, f[i - 1])]
    BY <1>0, <1>2
  <2> DEFINE next == Level(k + 1, f[k])
             g == [i \in 0..(k + 1) |-> IF i = k + 1 THEN next ELSE f[i]]
  <2>2. \A i \in 0..k : f[i] = Level(i, f[i - 1])
    BY <2>1, Zenon
  <2>0. \A below : Level(0, below) = Level(0, 0)
    <3>1. \A below : Level(0, below) = [work \in Sites(t) \X SUBSET Sites(t) |->
                          [effects |-> OwnEffects(t, sp, work[1]), visited |-> work[2]]]
      BY DEF Level
    <3> QED
      BY <3>1, Zenon
  <2>3. ASSUME NEW i \in 0..(k + 1)
        PROVE  g[i] = Level(i, g[i - 1])
    <3>1. CASE i = k + 1
      <4>1. i # 0 /\ i - 1 = k /\ k \in 0..(k + 1) /\ k # k + 1
        BY <3>1
      <4> HIDE DEF next
      <4>2. g[i] = next /\ g[i - 1] = f[k]
        BY <3>1, <4>1
      <4> QED
        BY <3>1, <4>1, <4>2 DEF next
    <3>2. CASE i = 0
      <4>1. g[i] = f[0] /\ 0 \in 0..k
        BY <3>2
      <4> QED
        BY <2>2, <2>0, <3>2, <4>1
    <3>3. CASE i \in 1..k
      <4>1. i \in 0..k /\ i - 1 \in 0..k /\ i # k + 1 /\ i - 1 # k + 1 /\ i - 1 \in 0..(k + 1) /\ i # 0
        BY <3>3
      <4> HIDE DEF next
      <4>2. g[i] = f[i] /\ g[i - 1] = f[i - 1]
        BY <4>1
      <4> QED
        BY <2>2, <4>1, <4>2
    <3> QED
      BY <3>1, <3>2, <3>3
  <2>4. g = [i \in 0..(k + 1) |-> g[i]]
    OBVIOUS
  <2> HIDE DEF g
  <2>5. g = [i \in 0..(k + 1) |-> Level(i, g[i - 1])]
    BY <2>3, <2>4, Zenon
  <2> QED
    BY <1>0, <2>5
<1> HIDE DEF Good
<1>3. \A k \in Nat : k \in Good
  BY <1>1, <1>2, SetInduction
<1> QED
  BY <1>3 DEF Good

\* The bodies of a view are sites of both trees, and say the same in both.
LEMMA BodiesAreSites ==
    ASSUME NEW t1, NEW sp1, NEW t2, NEW sp2, NEW R, SameView(t1, sp1, t2, sp2, R)
    PROVE  /\ Bodies(t1, R) \subseteq Sites(t1) /\ Bodies(t1, R) \subseteq Sites(t2)
           /\ \A s \in Bodies(t1, R) : /\ At(t1, s) = At(t2, s) /\ s[1] \in R /\ s[1] \in DOMAIN t1.text
                                       /\ OwnEffects(t1, sp1, s) = OwnEffects(t2, sp2, s)
<1>1. ASSUME NEW s \in Bodies(t1, R)
      PROVE  /\ s \in Sites(t1) /\ s \in Sites(t2) /\ At(t1, s) = At(t2, s) /\ s[1] \in R /\ s[1] \in DOMAIN t1.text
             /\ OwnEffects(t1, sp1, s) = OwnEffects(t2, sp2, s)
  <2>1. /\ s \in Sites(t1) /\ s[1] \in R /\ s[2] \in DOMAIN t1.text[s[1]].body /\ s = <<s[1], s[2]>>
    BY DEF Bodies, Pair
  <2>2. t1.text[s[1]] = t2.text[s[1]] /\ s[1] \in DOMAIN t2.text /\ s[1] \in DOMAIN t1.text
    BY <2>1 DEF SameView
  <2>3. At(t1, s) = At(t2, s) /\ At(t1, s) = t1.text[s[1]].body[s[2]]
    BY <2>2 DEF At
  <2>4. PICK p, q : p = s[1] /\ q = s[2]
    OBVIOUS
  <2>5. s \in Sites(t2)
    <3>1. q \in DOMAIN t2.text[p].body /\ p \in DOMAIN t2.text /\ s = <<p, q>>
      BY <2>1, <2>2, <2>4
    <3> QED
      BY <3>1 DEF Sites
  <2>6. At(t1, s).sink = "http" => (s \in sp1 <=> s \in sp2)
    BY <2>1, <2>3 DEF SameView
  <2> QED
    BY <2>1, <2>2, <2>3, <2>5, <2>6, Zenon DEF OwnEffects
<1> QED
  BY <1>1

\* The effects of a body are the same, if they are the same with one call less in depth.
LEMMA SameCalls ==
    ASSUME NEW t1, GoodTree(t1), NEW sp1, NEW t2, NEW sp2, NEW R, SameView(t1, sp1, t2, sp2, R),
           NEW d1, NEW d2, Agree(t1, R, d1, d2),
           NEW s \in Bodies(t1, R), NEW V \in SUBSET Bodies(t1, R)
    PROVE  /\ CallEffects(t1, sp1, d1, s, V) = CallEffects(t2, sp2, d2, s, V)
           /\ CallEffects(t1, sp1, d1, s, V).visited \subseteq Bodies(t1, R)
<1>1. /\ At(t1, s) = At(t2, s) /\ s[1] \in R /\ s[1] \in DOMAIN t1.text
      /\ OwnEffects(t1, sp1, s) = OwnEffects(t2, sp2, s)
  BY BodiesAreSites
<1>2. PICK calls : calls = At(t1, s).calls /\ calls = At(t2, s).calls
  BY <1>1
<1>3. IsList(calls) /\ Follows(s[1], t1.text[s[1]], ToSet(calls))
  <2>1. /\ s[2] \in DOMAIN t1.text[s[1]].body /\ At(t1, s).c \in {"def", "class"}
    BY DEF Bodies
  <2>2. Construct(s[1], t1.text[s[1]], At(t1, s))
    BY <1>1, <2>1 DEF GoodTree, At
  <2> QED
    BY <1>2, <2>1, <2>2, Zenon DEF Construct
<1>4. PICK n \in Nat : n = Len(calls) /\ DOMAIN calls = 1..n
  BY <1>3, ListIsFunction
<1>5. \A i \in 1..n : Viewed(t1, t2, R, calls[i])
  <2> TAKE i \in 1..n
  <2>1. calls[i] \in ToSet(calls)
    BY <1>4 DEF ToSet
  <2> QED
    BY <1>1, <1>3, <2>1, RefsAreViewed
<1> DEFINE a1 == CHOOSE f : IsCalls(t1, sp1, d1, s, V, n, f)
           a2 == CHOOSE f : IsCalls(t2, sp2, d2, s, V, n, f)
<1>6. IsCalls(t1, sp1, d1, s, V, n, a1) /\ IsCalls(t2, sp2, d2, s, V, n, a2)
  BY CallsExist, Zenon
<1>7. CallEffects(t1, sp1, d1, s, V) = a1[n]
  BY <1>2, <1>4, Zenon DEF CallEffects, IsCalls
<1>8. CallEffects(t2, sp2, d2, s, V) = a2[n]
  BY <1>2, <1>4, Zenon DEF CallEffects, IsCalls
<1> HIDE DEF a1, a2
<1> DEFINE own == [effects |-> OwnEffects(t1, sp1, s), visited |-> V]
<1>9. \A i \in 0..n : a1[i] = IF i = 0 THEN own ELSE Descend(t1, d1, a1[i - 1], calls[i])
  BY <1>2, <1>6, Zenon DEF IsCalls
<1>10. \A i \in 0..n : a2[i] = IF i = 0 THEN own ELSE Descend(t2, d2, a2[i - 1], calls[i])
  BY <1>1, <1>2, <1>6, Zenon DEF IsCalls
<1>11. own.visited = V
  OBVIOUS
<1> HIDE DEF own
<1> DEFINE Good == {k \in Nat : k <= n => a1[k] = a2[k] /\ a1[k].visited \subseteq Bodies(t1, R)}
<1>12. 0 \in Good
  <2>1. 0 \in 0..n
    OBVIOUS
  <2>2. a1[0] = own /\ a2[0] = own
    BY <1>9, <1>10, <2>1
  <2> QED
    BY <1>11, <2>2
<1>13. ASSUME NEW k \in Nat, k \in Good PROVE k + 1 \in Good
  <2>1. CASE ~(k + 1 <= n)
    BY <2>1
  <2>2. CASE k + 1 <= n
    <3>1. k + 1 \in 0..n /\ k + 1 \in 1..n /\ k + 1 # 0 /\ (k + 1) - 1 = k /\ k <= n
      BY <2>2
    <3>2. PICK acc : acc = a1[k] /\ acc = a2[k] /\ acc.visited \subseteq Bodies(t1, R)
      BY <1>13, <3>1
    <3>3. PICK ref : ref = calls[k + 1] /\ Viewed(t1, t2, R, ref)
      BY <1>5, <3>1
    <3>4. a1[k + 1] = Descend(t1, d1, acc, ref) /\ a2[k + 1] = Descend(t2, d2, acc, ref)
      BY <1>9, <1>10, <3>1, <3>2, <3>3, Zenon
    <3>5. PICK found : found = Lookup(t1, ref, "def") /\ found = Lookup(t2, ref, "def")
      BY <3>3, SameLookup
    <3>6. found \subseteq Bodies(t1, R)
      <4>1. ASSUME NEW x \in found PROVE x \in Bodies(t1, R)
        <5>1. x[1] \in R /\ x[1] = ref.mod /\ x[2] \in DOMAIN t1.text[x[1]].body /\ Pair(x)
          BY <3>3, <3>5, SameLookup
        <5>2. At(t1, x).c = "def"
          BY <3>5, SMTT(30) DEF Lookup, At
        <5>3. PICK p, q : p = x[1] /\ q = x[2]
          OBVIOUS
        <5>4. x \in Sites(t1)
          <6>1. p \in DOMAIN t1.text /\ q \in DOMAIN t1.text[p].body /\ x = <<p, q>>
            BY <5>1, <5>3 DEF SameView, Pair
          <6> QED
            BY <6>1 DEF Sites
        <5> QED
          BY <5>1, <5>2, <5>4 DEF Bodies
      <4> QED
        BY <4>1
    <3>7. CASE found \subseteq acc.visited
      <4>1. Descend(t1, d1, acc, ref) = acc /\ Descend(t2, d2, acc, ref) = acc
        BY <3>5, <3>7, Zenon DEF Descend
      <4> QED
        BY <3>2, <3>4, <4>1
    <3>8. CASE ~(found \subseteq acc.visited)
      <4>1. The(found) \in found
        BY <3>8 DEF The
      <4>2. PICK more \in SUBSET Bodies(t1, R) : more = acc.visited \cup found
        BY <3>2, <3>6, Zenon
      <4>3. PICK sub : /\ sub = d1[<<The(found), more>>] /\ sub = d2[<<The(found), more>>]
                       /\ sub.visited \subseteq Bodies(t1, R)
        BY <3>6, <4>1, <4>2 DEF Agree
      <4>4. /\ Descend(t1, d1, acc, ref) = [effects |-> acc.effects \cup sub.effects, visited |-> sub.visited]
            /\ Descend(t2, d2, acc, ref) = [effects |-> acc.effects \cup sub.effects, visited |-> sub.visited]
        BY <3>5, <3>8, <4>2, <4>3, Zenon DEF Descend
      <4> QED
        BY <3>4, <4>3, <4>4
    <3> QED
      BY <3>7, <3>8
  <2> QED
    BY <2>1, <2>2
<1> HIDE DEF Good
<1>14. \A k \in Nat : k \in Good
  BY <1>12, <1>13, SetInduction
<1> QED
  BY <1>7, <1>8, <1>14 DEF Good

\* So the effects of a function or a class are the same.
LEMMA SameClassify ==
    ASSUME NEW t1, GoodTree(t1), NEW sp1, NEW t2, NEW sp2, NEW R, SameView(t1, sp1, t2, sp2, R),
           NEW s \in Bodies(t1, R)
    PROVE  Classify(t1, sp1)[s] = Classify(t2, sp2)[s]
<1> DEFINE n == ClassifyHops
           b1 == CHOOSE f : IsBodies(t1, sp1, n, f)
           b2 == CHOOSE f : IsBodies(t2, sp2, n, f)
           RS == Bodies(t1, R)
<1>1. n \in Nat
  BY HopsAssumption
<1> HIDE DEF n
<1>2. IsBodies(t1, sp1, n, b1) /\ IsBodies(t2, sp2, n, b2)
  BY <1>1, BodiesExist, Zenon
<1>3. Classify(t1, sp1) = [site \in Sites(t1) |-> b1[n][<<site, {}>>].effects]
  BY Zenon DEF Classify, IsBodies, n
<1>4. Classify(t2, sp2) = [site \in Sites(t2) |-> b2[n][<<site, {}>>].effects]
  BY Zenon DEF Classify, IsBodies, n
<1> HIDE DEF b1, b2
<1>5. /\ RS \subseteq Sites(t1) /\ RS \subseteq Sites(t2)
      /\ \A x \in RS : OwnEffects(t1, sp1, x) = OwnEffects(t2, sp2, x)
  BY BodiesAreSites
<1>6. ASSUME NEW k \in 0..n, NEW x \in RS, NEW V \in SUBSET RS
      PROVE  /\ b1[k][<<x, V>>] = IF k = 0 THEN [effects |-> OwnEffects(t1, sp1, x), visited |-> V]
                                  ELSE CallEffects(t1, sp1, b1[k - 1], x, V)
             /\ b2[k][<<x, V>>] = IF k = 0 THEN [effects |-> OwnEffects(t2, sp2, x), visited |-> V]
                                  ELSE CallEffects(t2, sp2, b2[k - 1], x, V)
  <2> HIDE DEF RS
  <2> DEFINE w == <<x, V>>
  <2>0. w = <<x, V>> /\ w[1] = x /\ w[2] = V
    OBVIOUS
  <2> HIDE DEF w
  <2>1. w \in Sites(t1) \X SUBSET Sites(t1) /\ w \in Sites(t2) \X SUBSET Sites(t2)
    <3>1. x \in Sites(t1) /\ x \in Sites(t2) /\ V \in SUBSET Sites(t1) /\ V \in SUBSET Sites(t2)
      BY <1>5
    <3>2. \A A, B : x \in A /\ V \in B => <<x, V>> \in A \X B
      OBVIOUS
    <3> QED
      BY <2>0, <3>1, <3>2
  <2>2. b1[k] = [work \in Sites(t1) \X SUBSET Sites(t1) |->
                    IF k = 0 THEN [effects |-> OwnEffects(t1, sp1, work[1]), visited |-> work[2]]
                    ELSE CallEffects(t1, sp1, b1[k - 1], work[1], work[2])]
    BY <1>2, Zenon DEF IsBodies
  <2>3. b2[k] = [work \in Sites(t2) \X SUBSET Sites(t2) |->
                    IF k = 0 THEN [effects |-> OwnEffects(t2, sp2, work[1]), visited |-> work[2]]
                    ELSE CallEffects(t2, sp2, b2[k - 1], work[1], work[2])]
    BY <1>2, Zenon DEF IsBodies
  <2>4. b1[k][w] = IF k = 0 THEN [effects |-> OwnEffects(t1, sp1, w[1]), visited |-> w[2]]
                   ELSE CallEffects(t1, sp1, b1[k - 1], w[1], w[2])
    BY <2>1, <2>2, Zenon
  <2>5. b2[k][w] = IF k = 0 THEN [effects |-> OwnEffects(t2, sp2, w[1]), visited |-> w[2]]
                   ELSE CallEffects(t2, sp2, b2[k - 1], w[1], w[2])
    BY <2>1, <2>3, Zenon
  <2> QED
    BY <2>0, <2>4, <2>5
<1> HIDE DEF RS
<1> DEFINE Good == {k \in Nat : k <= n => Agree(t1, R, b1[k], b2[k])}
<1>7. 0 \in Good
  <2>1. ASSUME NEW x \in RS, NEW V \in SUBSET RS
        PROVE  b1[0][<<x, V>>] = b2[0][<<x, V>>] /\ b1[0][<<x, V>>].visited \subseteq RS
    <3>1. 0 \in 0..n
      BY <1>1
    <3> DEFINE own == [effects |-> OwnEffects(t1, sp1, x), visited |-> V]
    <3>2. own.visited = V
      OBVIOUS
    <3> HIDE DEF own
    <3>3. b1[0][<<x, V>>] = own /\ b2[0][<<x, V>>] = own
      BY <1>5, <1>6, <3>1 DEF own
    <3> QED
      BY <3>2, <3>3
  <2>2. Agree(t1, R, b1[0], b2[0])
    BY <2>1, Zenon DEF Agree, RS
  <2> QED
    BY <2>2
<1>8. ASSUME NEW k \in Nat, k \in Good PROVE k + 1 \in Good
  <2>1. CASE ~(k + 1 <= n)
    BY <2>1
  <2>2. CASE k + 1 <= n
    <3>1. k + 1 \in 0..n /\ k + 1 # 0 /\ (k + 1) - 1 = k /\ k <= n
      BY <1>1, <2>2
    <3>2. Agree(t1, R, b1[k], b2[k])
      BY <1>8, <3>1
    <3>3. ASSUME NEW x \in RS, NEW V \in SUBSET RS
          PROVE  b1[k + 1][<<x, V>>] = b2[k + 1][<<x, V>>] /\ b1[k + 1][<<x, V>>].visited \subseteq RS
      <4>1. /\ b1[k + 1][<<x, V>>] = CallEffects(t1, sp1, b1[k], x, V)
            /\ b2[k + 1][<<x, V>>] = CallEffects(t2, sp2, b2[k], x, V)
        <5>1. PICK j \in 0..n : j = k + 1 /\ j # 0 /\ j - 1 = k
          BY <3>1
        <5>2. /\ b1[j][<<x, V>>] = CallEffects(t1, sp1, b1[j - 1], x, V)
              /\ b2[j][<<x, V>>] = CallEffects(t2, sp2, b2[j - 1], x, V)
          BY <1>6, <5>1, Zenon
        <5> QED
          BY <5>1, <5>2
      <4>2. x \in Bodies(t1, R) /\ V \in SUBSET Bodies(t1, R)
        BY DEF RS
      <4>3. /\ CallEffects(t1, sp1, b1[k], x, V) = CallEffects(t2, sp2, b2[k], x, V)
            /\ CallEffects(t1, sp1, b1[k], x, V).visited \subseteq Bodies(t1, R)
        BY <3>2, <4>2, SameCalls
      <4> QED
        BY <4>1, <4>3 DEF RS
    <3>4. Agree(t1, R, b1[k + 1], b2[k + 1])
      BY <3>3, Zenon DEF Agree, RS
    <3> QED
      BY <3>4
  <2> QED
    BY <2>1, <2>2
<1> HIDE DEF Good
<1>9. \A k \in Nat : k \in Good
  BY <1>7, <1>8, SetInduction
<1>10. Agree(t1, R, b1[n], b2[n])
  BY <1>1, <1>9 DEF Good
<1>11. b1[n][<<s, {}>>] = b2[n][<<s, {}>>]
  BY <1>10 DEF Agree
<1>12. s \in Sites(t1) /\ s \in Sites(t2)
  BY <1>5 DEF RS
<1>13. Classify(t1, sp1)[s] = b1[n][<<s, {}>>].effects
  BY <1>3, <1>12, Zenon
<1>14. Classify(t2, sp2)[s] = b2[n][<<s, {}>>].effects
  BY <1>4, <1>12, Zenon
<1> QED
  BY <1>11, <1>13, <1>14

\* What a reference in view resolves to, and what is declared, are functions and classes in view.
LEMMA BodiesInView ==
    ASSUME NEW t1, GoodTree(t1), NEW sp1, NEW t2, NEW sp2, NEW R, SameView(t1, sp1, t2, sp2, R)
    PROVE  /\ \A ref : Viewed(t1, t2, R, ref) => Lookup(t1, ref, "def") \subseteq Bodies(t1, R)
           /\ \A m \in R : \A i \in DOMAIN t1.text[m].body :
                 t1.text[m].body[i].c \in {"def", "class"} => <<m, i>> \in Bodies(t1, R)
<1>1. ASSUME NEW m \in R, NEW i \in DOMAIN t1.text[m].body, t1.text[m].body[i].c \in {"def", "class"}
      PROVE  <<m, i>> \in Bodies(t1, R)
  <2>1. m \in DOMAIN t1.text
    BY DEF SameView
  <2>2. <<m, i>> \in Sites(t1)
    BY <2>1 DEF Sites
  <2>3. At(t1, <<m, i>>).c \in {"def", "class"} /\ Pair(<<m, i>>)
    BY <1>1 DEF At, Pair
  <2> QED
    BY <2>2, <2>3 DEF Bodies
<1>2. ASSUME NEW ref, Viewed(t1, t2, R, ref), NEW x \in Lookup(t1, ref, "def")
      PROVE  x \in Bodies(t1, R)
  <2>1. x[1] \in R /\ x[2] \in DOMAIN t1.text[x[1]].body /\ x = <<x[1], x[2]>>
    BY <1>2, SameLookup DEF Pair
  <2>2. At(t1, x).c = "def"
    BY DEF Lookup, At
  <2>3. PICK p, q : p \in R /\ q \in DOMAIN t1.text[p].body /\ x = <<p, q>>
    BY <2>1
  <2>4. t1.text[p].body[q].c = "def"
    BY <2>2, <2>3 DEF At
  <2> QED
    BY <1>1, <2>3, <2>4
<1> QED
  BY <1>1, <1>2

\* The tools that are bound and referred to, and the servers, are the same.
LEMMA SameTools ==
    ASSUME NEW t1, GoodTree(t1), NEW sp1, NEW t2, NEW sp2, NEW R, SameView(t1, sp1, t2, sp2, R)
    PROVE  /\ \A s \in Bodies(t1, R) : \A name, user, method :
                 ToolFact(t1, sp1, s, name, user, method) = ToolFact(t2, sp2, s, name, user, method)
           /\ \A ref, agent, site, method : Viewed(t1, t2, R, ref) =>
                 /\ BoundTool(t1, sp1, ref, agent, site, method) = BoundTool(t2, sp2, ref, agent, site, method)
                 /\ BoundServer(t1, ref, agent, site) = BoundServer(t2, ref, agent, site)
<1>1. ASSUME NEW s \in Bodies(t1, R), NEW name, NEW user, NEW method
      PROVE  ToolFact(t1, sp1, s, name, user, method) = ToolFact(t2, sp2, s, name, user, method)
  <2>1. At(t1, s) = At(t2, s)
    BY BodiesAreSites
  <2>2. Classify(t1, sp1)[s] = Classify(t2, sp2)[s]
    BY SameClassify
  <2> QED
    BY <2>1, <2>2, Zenon DEF ToolFact
<1>2. ASSUME NEW ref, NEW agent, NEW site, NEW method, Viewed(t1, t2, R, ref)
      PROVE  BoundTool(t1, sp1, ref, agent, site, method) = BoundTool(t2, sp2, ref, agent, site, method)
  <2> DEFINE Two(t, sp, s) == <<ToolFact(t, sp, s, ref.var, site[1], method),
                                Edge("bind_tool", agent, <<"tool", ref.mod, ref.var>>, "", site)>>
  <2>1. PICK S : S = Lookup(t1, ref, "def") /\ S = Lookup(t2, ref, "def")
    BY <1>2, SameLookup
  <2>2. S \subseteq Bodies(t1, R)
    BY <1>2, <2>1, BodiesInView
  <2>3. \A s \in S : Two(t1, sp1, s) = Two(t2, sp2, s)
    BY <1>1, <2>2
  <2>4. BoundTool(t1, sp1, ref, agent, site, method) = FlattenSeq(Listed({Two(t1, sp1, s) : s \in S}))
    BY <2>1, Zenon DEF BoundTool
  <2>5. BoundTool(t2, sp2, ref, agent, site, method) = FlattenSeq(Listed({Two(t2, sp2, s) : s \in S}))
    BY <2>1, Zenon DEF BoundTool
  <2> HIDE DEF Two
  <2>6. {Two(t1, sp1, s) : s \in S} = {Two(t2, sp2, s) : s \in S}
    BY <2>3
  <2> QED
    BY <2>4, <2>5, <2>6, Zenon
<1>3. ASSUME NEW ref, NEW agent, NEW site, Viewed(t1, t2, R, ref)
      PROVE  BoundServer(t1, ref, agent, site) = BoundServer(t2, ref, agent, site)
  <2> DEFINE Two(t, s) == <<ServerFact(At(t, s).label, site, site[1]),
                            Edge("bind_mcp", agent, <<"mcp", At(t, s).label>>, "", site)>>
  <2>1. PICK S : S = Lookup(t1, ref, "server") /\ S = Lookup(t2, ref, "server")
    BY <1>3, SameLookup
  <2>2. \A s \in S : At(t1, s) = At(t2, s)
    BY <1>3, <2>1, SameLookup
  <2>3. \A s \in S : Two(t1, s) = Two(t2, s)
    BY <2>2, Zenon
  <2>4. BoundServer(t1, ref, agent, site) = FlattenSeq(Listed({Two(t1, s) : s \in S}))
    BY <2>1, Zenon DEF BoundServer
  <2>5. BoundServer(t2, ref, agent, site) = FlattenSeq(Listed({Two(t2, s) : s \in S}))
    BY <2>1, Zenon DEF BoundServer
  <2> HIDE DEF Two
  <2>6. {Two(t1, s) : s \in S} = {Two(t2, s) : s \in S}
    BY <2>3
  <2> QED
    BY <2>4, <2>5, <2>6, Zenon
<1> QED
  BY <1>1, <1>2, <1>3

\* Two trees that agree on a view read a list of references to it alike.
LEMMA SameLists ==
    ASSUME NEW t1, GoodTree(t1), NEW sp1, NEW t2, NEW sp2, NEW R, SameView(t1, sp1, t2, sp2, R),
           NEW refs, IsList(refs), \A ref \in ToSet(refs) : Viewed(t1, t2, R, ref), NEW site
    PROVE  SameOver(t1, sp1, t2, sp2, refs, site)
<1>0. \A i \in DOMAIN refs : Viewed(t1, t2, R, refs[i])
  BY DEF ToSet
<1>1. SideFacts(t1, refs, site) = SideFacts(t2, refs, site)
  <2> DEFINE Part(t, i) == FlattenSeq(Listed({ApprovalFacts(At(t, s), site) : s \in Lookup(t, refs[i], "server")}))
  <2>1. ASSUME NEW i \in DOMAIN refs PROVE Part(t1, i) = Part(t2, i)
    <3>1. PICK S : S = Lookup(t1, refs[i], "server") /\ S = Lookup(t2, refs[i], "server")
      BY <1>0, SameLookup
    <3>2. \A s \in S : At(t1, s) = At(t2, s)
      BY <1>0, <3>1, SameLookup
    <3>3. {ApprovalFacts(At(t1, s), site) : s \in S} = {ApprovalFacts(At(t2, s), site) : s \in S}
      BY <3>2
    <3> QED
      BY <3>1, <3>3, Zenon
  <2>2. SideFacts(t1, refs, site) = FlattenSeq([i \in DOMAIN refs |-> Part(t1, i)])
        /\ SideFacts(t2, refs, site) = FlattenSeq([i \in DOMAIN refs |-> Part(t2, i)])
    BY Zenon DEF SideFacts
  <2> HIDE DEF Part
  <2>3. [i \in DOMAIN refs |-> Part(t1, i)] = [i \in DOMAIN refs |-> Part(t2, i)]
    BY <2>1
  <2> QED
    BY <2>2, <2>3, Zenon
<1>2. ReferredTools(t1, sp1, refs, site) = ReferredTools(t2, sp2, refs, site)
  <2> DEFINE Part(t, sp, i) == Listed({ToolFact(t, sp, s, refs[i].var, site[1], "refs") : s \in Lookup(t, refs[i], "def")})
  <2>1. ASSUME NEW i \in DOMAIN refs PROVE Part(t1, sp1, i) = Part(t2, sp2, i)
    <3>1. PICK S : S = Lookup(t1, refs[i], "def") /\ S = Lookup(t2, refs[i], "def")
      BY <1>0, SameLookup
    <3>2. S \subseteq Bodies(t1, R)
      BY <1>0, <3>1, BodiesInView
    <3>3. \A s \in S : ToolFact(t1, sp1, s, refs[i].var, site[1], "refs") = ToolFact(t2, sp2, s, refs[i].var, site[1], "refs")
      BY <3>2, SameTools
    <3>4. {ToolFact(t1, sp1, s, refs[i].var, site[1], "refs") : s \in S}
          = {ToolFact(t2, sp2, s, refs[i].var, site[1], "refs") : s \in S}
      BY <3>3
    <3> QED
      BY <3>1, <3>4, Zenon
  <2>2. ReferredTools(t1, sp1, refs, site) = FlattenSeq([i \in DOMAIN refs |-> Part(t1, sp1, i)])
        /\ ReferredTools(t2, sp2, refs, site) = FlattenSeq([i \in DOMAIN refs |-> Part(t2, sp2, i)])
    BY Zenon DEF ReferredTools
  <2> HIDE DEF Part
  <2>3. [i \in DOMAIN refs |-> Part(t1, sp1, i)] = [i \in DOMAIN refs |-> Part(t2, sp2, i)]
    BY <2>1
  <2> QED
    BY <2>2, <2>3, Zenon
<1>3. ASSUME NEW agent, NEW method
      PROVE  /\ FlattenSeq([i \in DOMAIN refs |-> BoundTool(t1, sp1, refs[i], agent, site, method)])
                = FlattenSeq([i \in DOMAIN refs |-> BoundTool(t2, sp2, refs[i], agent, site, method)])
             /\ FlattenSeq([i \in DOMAIN refs |-> BoundTool(t1, sp1, refs[i], agent, site, method)
                                                  \o BoundServer(t1, refs[i], agent, site)])
                = FlattenSeq([i \in DOMAIN refs |-> BoundTool(t2, sp2, refs[i], agent, site, method)
                                                    \o BoundServer(t2, refs[i], agent, site)])
  <2>1. \A i \in DOMAIN refs : /\ BoundTool(t1, sp1, refs[i], agent, site, method)
                                  = BoundTool(t2, sp2, refs[i], agent, site, method)
                               /\ BoundServer(t1, refs[i], agent, site) = BoundServer(t2, refs[i], agent, site)
    BY <1>0, SameTools
  <2> DEFINE a1 == [i \in DOMAIN refs |-> BoundTool(t1, sp1, refs[i], agent, site, method)]
             a2 == [i \in DOMAIN refs |-> BoundTool(t2, sp2, refs[i], agent, site, method)]
             b1 == [i \in DOMAIN refs |-> BoundTool(t1, sp1, refs[i], agent, site, method)
                                          \o BoundServer(t1, refs[i], agent, site)]
             b2 == [i \in DOMAIN refs |-> BoundTool(t2, sp2, refs[i], agent, site, method)
                                          \o BoundServer(t2, refs[i], agent, site)]
  <2>2. a1 = a2
    BY <2>1
  <2>3. b1 = b2
    BY <2>1, Zenon
  <2> HIDE DEF a1, a2, b1, b2
  <2>4. FlattenSeq(a1) = FlattenSeq(a2) /\ FlattenSeq(b1) = FlattenSeq(b2)
    BY <2>2, <2>3
  <2> QED
    BY <2>4 DEF a1, a2, b1, b2
<1>4. \A i \in DOMAIN refs : AgentNamed(t1, refs[i]) = AgentNamed(t2, refs[i])
  BY <1>0, SameNamed
<1>5. ASSUME NEW agent
      PROVE  FlattenSeq([i \in DOMAIN refs |->
                    Listed({Edge("transfer:handoff", agent, BareId(n), "", site) : n \in AgentNamed(t1, refs[i])})])
             = FlattenSeq([i \in DOMAIN refs |->
                    Listed({Edge("transfer:handoff", agent, BareId(n), "", site) : n \in AgentNamed(t2, refs[i])})])
  <2> DEFINE Part(S) == Listed({Edge("transfer:handoff", agent, BareId(n), "", site) : n \in S})
             a1 == [i \in DOMAIN refs |-> Part(AgentNamed(t1, refs[i]))]
             a2 == [i \in DOMAIN refs |-> Part(AgentNamed(t2, refs[i]))]
  <2>1. a1 = a2
    <3> HIDE DEF Part
    <3> QED
      BY <1>4
  <2> HIDE DEF a1, a2
  <2>2. FlattenSeq(a1) = FlattenSeq(a2)
    BY <2>1
  <2> QED
    BY <2>2, Zenon DEF a1, a2
<1>6. FlattenSeq([i \in DOMAIN refs |-> Listed(AgentNamed(t1, refs[i]))])
      = FlattenSeq([i \in DOMAIN refs |-> Listed(AgentNamed(t2, refs[i]))])
  <2> DEFINE a1 == [i \in DOMAIN refs |-> Listed(AgentNamed(t1, refs[i]))]
             a2 == [i \in DOMAIN refs |-> Listed(AgentNamed(t2, refs[i]))]
  <2>1. a1 = a2
    BY <1>4
  <2> HIDE DEF a1, a2
  <2>2. FlattenSeq(a1) = FlattenSeq(a2)
    BY <2>1
  <2> QED
    BY <2>2 DEF a1, a2
<1> QED
  BY <1>1, <1>2, <1>3, <1>5, <1>6, Zenon DEF SameOver

(***************************************************************************)
(* What the rules add for one construct, given the id of its agent         *)
(***************************************************************************)

\* A run with one of its parts replaced.
LEMMA RunWith ==
    ASSUME NEW run, IsRun(run), NEW v
    PROVE  /\ [run EXCEPT !.facts = v] = RunOf(v, run.ids, run.marks, run.cands, run.routes, run.crews, run.consumed)
           /\ [run EXCEPT !.ids = v] = RunOf(run.facts, v, run.marks, run.cands, run.routes, run.crews, run.consumed)
           /\ [run EXCEPT !.marks = v] = RunOf(run.facts, run.ids, v, run.cands, run.routes, run.crews, run.consumed)
           /\ [run EXCEPT !.cands = v] = RunOf(run.facts, run.ids, run.marks, v, run.routes, run.crews, run.consumed)
           /\ [run EXCEPT !.routes = v] = RunOf(run.facts, run.ids, run.marks, run.cands, v, run.crews, run.consumed)
           /\ [run EXCEPT !.crews = v] = RunOf(run.facts, run.ids, run.marks, run.cands, run.routes, v, run.consumed)
           /\ [run EXCEPT !.consumed = v] = RunOf(run.facts, run.ids, run.marks, run.cands, run.routes, run.crews, v)
<1>1. run = RunOf(run.facts, run.ids, run.marks, run.cands, run.routes, run.crews, run.consumed)
  BY DEF IsRun
<1>2. PICK a, b, c, d, e, g, h : run = RunOf(a, b, c, d, e, g, h)
  BY <1>1
<1> QED
  BY <1>2

\* A registered run differs in its ids only.
LEMMA RegisteredOnlyIds ==
    ASSUME NEW run, IsRun(run), NEW name, NEW site, NEW facts
    PROVE  Emit(Registered(run, name, site), facts) =
             RunOf(run.facts \o facts, Registered(run, name, site).ids, run.marks, run.cands, run.routes, run.crews,
                   run.consumed)
<1> DEFINE r == Registered(run, name, site)
<1>1. /\ r = RunOf(run.facts, r.ids, run.marks, run.cands, run.routes, run.crews, run.consumed)
  <2>1. CASE AgentId(run, name, site) # BareId(name)
    <3>1. r = run
      BY <2>1 DEF Registered
    <3> HIDE DEF r
    <3> QED
      BY <3>1 DEF IsRun
  <2>2. CASE AgentId(run, name, site) = BareId(name)
    <3> DEFINE ids == [s \in DOMAIN run.ids \cup {Slug[name]} |-> IF s = Slug[name] THEN site ELSE run.ids[s]]
    <3>1. r = [run EXCEPT !.ids = ids]
      BY <2>2, Zenon DEF Registered
    <3> HIDE DEF ids, r
    <3>2. r = RunOf(run.facts, ids, run.marks, run.cands, run.routes, run.crews, run.consumed)
      BY <3>1, RunWith, Zenon
    <3> QED
      BY <3>2
  <2> QED
    BY <2>1, <2>2
<1> HIDE DEF r
<1>2. IsRun(r) /\ r.facts = run.facts
  <2>1. /\ r.facts = run.facts /\ r.marks = run.marks /\ r.cands = run.cands /\ r.routes = run.routes
        /\ r.crews = run.crews /\ r.consumed = run.consumed
    BY <1>1
  <2> QED
    BY <1>1, <2>1 DEF IsRun
<1>3. PICK all : all = r.facts \o facts
  BY Zenon
<1>4. Emit(r, facts) = [r EXCEPT !.facts = all]
  BY <1>3 DEF Emit
<1>5. Emit(r, facts) = RunOf(all, r.ids, r.marks, r.cands, r.routes, r.crews, r.consumed)
  BY <1>2, <1>4, RunWith, Zenon
<1>6. r.marks = run.marks /\ r.cands = run.cands /\ r.routes = run.routes /\ r.crews = run.crews
      /\ r.consumed = run.consumed
  BY <1>1
<1> QED
  BY <1>2, <1>3, <1>5, <1>6 DEF r

\* So does a run that emits differ in its facts only.
LEMMA EmitOnlyFacts ==
    ASSUME NEW run, IsRun(run), NEW facts
    PROVE  Emit(run, facts) =
             RunOf(run.facts \o facts, run.ids, run.marks, run.cands, run.routes, run.crews, run.consumed)
<1>1. PICK all : all = run.facts \o facts
  BY Zenon
<1>2. Emit(run, facts) = [run EXCEPT !.facts = all]
  BY <1>1 DEF Emit
<1> QED
  BY <1>1, <1>2, RunWith, Zenon

\* A rule adds to the run what its construct emits and collects, and nothing else.
LEMMA RuleIs ==
    ASSUME NEW t, NEW sp, NEW run, IsRun(run), NEW s
    PROVE  CallRules(t, sp, run, s) = Stepped(t, sp, run, s)
<1> DEFINE x == At(t, s)
           id == AgentId(run, x.name, s)
<1>0. PICK r : r = CallRules(t, sp, run, s)
  OBVIOUS
<1>1. /\ run.facts \o <<>> = run.facts /\ run.marks \o <<>> = run.marks /\ run.cands \o <<>> = run.cands
      /\ run.routes \o <<>> = run.routes /\ run.crews \o <<>> = run.crews
      /\ \A c : Append(run.cands, c) = run.cands \o <<c>>
      /\ \A c : Append(run.crews, c) = run.crews \o <<c>>
  BY NothingJoined DEF IsRun
<1>2. Stepped(t, sp, run, s) =
        RunOf(run.facts \o Emits(t, sp, s, id), IF Makes(t, s) THEN Registered(run, x.name, s).ids ELSE run.ids,
              run.marks \o NewMarks(t, s), run.cands \o NewCands(t, s), run.routes \o NewRoutes(t, s),
              run.crews \o NewCrews(t, s), run.consumed)
  BY DEF Stepped
<1>3. /\ x.c # "mark" => NewMarks(t, s) = <<>>
      /\ x.c # "node" => NewCands(t, s) = <<>>
      /\ x.c # "route" => NewRoutes(t, s) = <<>>
      /\ x.c # "crew" => NewCrews(t, s) = <<>>
  BY DEF NewMarks, NewCands, NewRoutes, NewCrews
<1>4. /\ Makes(t, s) => x.c \in {"agent", "generic"}
      /\ x.c = "agent" => (Makes(t, s) <=> x.name # "")
      /\ x.c = "generic" => (Makes(t, s) <=> AgentModel(t, x) # <<>> /\ Companion(t, x))
  BY Zenon DEF Makes
<1>5. run = RunOf(run.facts, run.ids, run.marks, run.cands, run.routes, run.crews, run.consumed)
  BY DEF IsRun
\* A construct that only emits.
<1>6. ASSUME x.c \notin {"mark", "node", "route", "crew"}, ~Makes(t, s), r = Emit(run, Emits(t, sp, s, id))
      PROVE  r = Stepped(t, sp, run, s)
  <2>1. PICK facts : facts = Emits(t, sp, s, id)
    OBVIOUS
  <2>2. r = RunOf(run.facts \o facts, run.ids, run.marks, run.cands, run.routes, run.crews, run.consumed)
    BY <1>6, <2>1, EmitOnlyFacts, Zenon
  <2>3. Stepped(t, sp, run, s) = RunOf(run.facts \o facts, run.ids, run.marks, run.cands, run.routes, run.crews,
                                       run.consumed)
    BY <1>1, <1>2, <1>3, <1>6, <2>1, Zenon
  <2> QED
    BY <2>2, <2>3
\* One that is an agent.
<1>7. ASSUME x.c \notin {"mark", "node", "route", "crew"}, Makes(t, s),
             r = Emit(Registered(run, x.name, s), Emits(t, sp, s, id))
      PROVE  r = Stepped(t, sp, run, s)
  <2>1. PICK facts, name : facts = Emits(t, sp, s, id) /\ name = x.name
    OBVIOUS
  <2>2. r = RunOf(run.facts \o facts, Registered(run, name, s).ids, run.marks, run.cands, run.routes, run.crews,
                  run.consumed)
    BY <1>7, <2>1, RegisteredOnlyIds, ZenonT(60)
  <2>3. Stepped(t, sp, run, s) = RunOf(run.facts \o facts, Registered(run, name, s).ids, run.marks, run.cands,
                                       run.routes, run.crews, run.consumed)
    BY <1>1, <1>2, <1>3, <1>7, <2>1, Zenon
  <2> QED
    BY <2>2, <2>3
\* And one that does nothing.
<1>8. ASSUME x.c \notin {"mark", "node", "route", "crew"}, ~Makes(t, s), r = run, Emits(t, sp, s, id) = <<>>
      PROVE  r = Stepped(t, sp, run, s)
  <2>3. Stepped(t, sp, run, s) = RunOf(run.facts, run.ids, run.marks, run.cands, run.routes, run.crews, run.consumed)
    BY <1>1, <1>2, <1>3, <1>8, Zenon
  <2> QED
    BY <1>5, <1>8, <2>3
<1>9. CASE x.c = "agent"
  <2>1. r = EmitAgent(t, sp, run, s)
    BY <1>0, <1>9 DEF CallRules
  <2>2. EmitAgent(t, sp, run, s) = IF x.name = "" THEN run ELSE Emit(Registered(run, x.name, s), AgentAdds(t, sp, s, id))
    BY Zenon DEF EmitAgent, AgentAdds
  <2>3. Emits(t, sp, s, id) = IF Makes(t, s) THEN AgentAdds(t, sp, s, id) ELSE <<>>
    BY <1>9 DEF Emits
  <2>4. x.c \notin {"mark", "node", "route", "crew"}
    BY <1>9
  <2> HIDE DEF x, id
  <2>5. CASE x.name = ""
    <3>1. ~Makes(t, s) /\ r = run /\ Emits(t, sp, s, id) = <<>>
      BY <1>4, <1>9, <2>1, <2>2, <2>3, <2>5, Zenon
    <3> QED
      BY <1>0, <1>8, <2>4, <3>1
  <2>6. CASE x.name # ""
    <3>1. Makes(t, s) /\ Emits(t, sp, s, id) = AgentAdds(t, sp, s, id)
      BY <1>4, <1>9, <2>3, <2>6, Zenon
    <3>2. r = Emit(Registered(run, x.name, s), Emits(t, sp, s, id))
      BY <2>1, <2>2, <2>6, <3>1, Zenon
    <3> QED
      BY <1>0, <1>7, <2>4, <3>1, <3>2
  <2> QED
    BY <2>5, <2>6, Zenon
<1>10. CASE x.c = "generic"
  <2>1. r = EmitGeneric(t, sp, run, s)
    BY <1>0, <1>10 DEF CallRules
  <2>2. EmitGeneric(t, sp, run, s) =
          IF AgentModel(t, x) = <<>> \/ ~Companion(t, x) THEN run
          ELSE Emit(Registered(run, x.name, s), GenericAdds(t, sp, s, id))
    BY Zenon DEF EmitGeneric, GenericAdds, Companion
  <2>3. Emits(t, sp, s, id) = IF Makes(t, s) THEN GenericAdds(t, sp, s, id) ELSE <<>>
    BY <1>10 DEF Emits
  <2>4. x.c \notin {"mark", "node", "route", "crew"}
    BY <1>10
  <2> HIDE DEF x, id
  <2>5. CASE ~Makes(t, s)
    <3>1. r = run /\ Emits(t, sp, s, id) = <<>>
      BY <1>4, <1>10, <2>1, <2>2, <2>3, <2>5
    <3> QED
      BY <1>0, <1>8, <2>4, <2>5, <3>1
  <2>6. CASE Makes(t, s)
    <3>1. Emits(t, sp, s, id) = GenericAdds(t, sp, s, id)
      BY <2>3, <2>6
    <3>2. r = Emit(Registered(run, x.name, s), Emits(t, sp, s, id))
      BY <1>4, <1>10, <2>1, <2>2, <2>6, <3>1
    <3> QED
      BY <1>0, <1>7, <2>4, <2>6, <3>2
  <2> QED
    BY <2>5, <2>6
<1>11. CASE x.c = "task"
  <2>1. r = EmitTask(t, sp, run, s)
    BY <1>0, <1>11 DEF CallRules
  <2>2. EmitTask(t, sp, run, s) = IF AgentNamed(t, x.agent) = {} THEN run ELSE Emit(run, TaskAdds(t, sp, s))
    BY Zenon DEF EmitTask, TaskAdds
  <2>3. Emits(t, sp, s, id) = IF AgentNamed(t, x.agent) = {} THEN <<>> ELSE TaskAdds(t, sp, s)
    BY <1>11 DEF Emits
  <2>4. x.c \notin {"mark", "node", "route", "crew"} /\ ~Makes(t, s)
    BY <1>4, <1>11
  <2> HIDE DEF x, id
  <2>5. CASE AgentNamed(t, x.agent) = {}
    <3>1. r = run /\ Emits(t, sp, s, id) = <<>>
      BY <2>1, <2>2, <2>3, <2>5
    <3> QED
      BY <1>0, <1>8, <2>4, <3>1
  <2>6. CASE AgentNamed(t, x.agent) # {}
    <3>1. r = Emit(run, Emits(t, sp, s, id))
      BY <2>1, <2>2, <2>3, <2>6
    <3> QED
      BY <1>0, <1>6, <2>4, <3>1
  <2> QED
    BY <2>5, <2>6
<1>12. CASE x.c \in {"tools", "state", "server"}
  <2>1. x.c \notin {"mark", "node", "route", "crew"} /\ ~Makes(t, s)
    BY <1>4, <1>12, Zenon
  <2>2. CASE x.c = "tools"
    <3>1. r = Emit(run, ReferredTools(t, sp, x.tools, s))
      BY <1>0, <2>2 DEF CallRules, ReferredTools
    <3>2. Emits(t, sp, s, id) = ReferredTools(t, sp, x.tools, s)
      BY <2>2 DEF Emits
    <3> HIDE DEF x, id
    <3> QED
      BY <1>0, <1>6, <2>1, <3>1, <3>2
  <2>3. CASE x.c = "state"
    <3>1. r = Emit(run, StateAdds(s))
      BY <1>0, <2>3 DEF CallRules, StateAdds
    <3>2. Emits(t, sp, s, id) = StateAdds(s)
      BY <2>3 DEF Emits
    <3> HIDE DEF x, id
    <3> QED
      BY <1>0, <1>6, <2>1, <3>1, <3>2
  <2>4. CASE x.c = "server"
    <3>1. r = Emit(run, <<ServerFact(x.label, s, s[1])>> \o ApprovalFacts(x, s))
      BY <1>0, <2>4 DEF CallRules
    <3>2. Emits(t, sp, s, id) = <<ServerFact(x.label, s, s[1])>> \o ApprovalFacts(x, s)
      BY <2>4 DEF Emits
    <3> HIDE DEF x, id
    <3> QED
      BY <1>0, <1>6, <2>1, <3>1, <3>2
  <2> QED
    BY <1>12, <2>2, <2>3, <2>4
<1>13. ASSUME x.c \in {"mark", "node", "route", "crew"}
       PROVE  ~Makes(t, s) /\ run.facts \o Emits(t, sp, s, id) = run.facts
  <2>1. Emits(t, sp, s, id) = <<>>
    BY <1>13 DEF Emits
  <2> QED
    BY <1>1, <1>4, <1>13, <2>1, Zenon
<1>14. CASE x.c = "mark"
  <2>1. PICK v : v = run.marks \o NewMarks(t, s)
    BY Zenon
  <2>2. r = [run EXCEPT !.marks = v]
    BY <1>0, <1>14, <2>1 DEF CallRules, NewMarks
  <2>3. Stepped(t, sp, run, s) = RunOf(run.facts, run.ids, v, run.cands, run.routes, run.crews, run.consumed)
    <3> HIDE DEF x, id
    <3> QED
      BY <1>1, <1>2, <1>3, <1>13, <1>14, <2>1, Zenon
  <2> QED
    BY <1>0, <2>2, <2>3, RunWith, Zenon
<1>15. CASE x.c = "node"
  <2>1. PICK v : v = run.cands \o NewCands(t, s)
    BY Zenon
  <2>2. r = [run EXCEPT !.cands = v]
    <3>1. r = [run EXCEPT !.cands = Append(@, [name |-> NodeName(x), fn |-> x.fn, site |-> s])]
      BY <1>0, <1>15 DEF CallRules
    <3>2. NewCands(t, s) = <<[name |-> NodeName(x), fn |-> x.fn, site |-> s]>>
      BY <1>15 DEF NewCands
    <3>3. v = Append(run.cands, [name |-> NodeName(x), fn |-> x.fn, site |-> s])
      BY <1>1, <2>1, <3>2
    <3> QED
      BY <3>1, <3>3
  <2>3. Stepped(t, sp, run, s) = RunOf(run.facts, run.ids, run.marks, v, run.routes, run.crews, run.consumed)
    <3> HIDE DEF x, id
    <3> QED
      BY <1>1, <1>2, <1>3, <1>13, <1>15, <2>1, Zenon
  <2> QED
    BY <1>0, <2>2, <2>3, RunWith, Zenon
<1>16. CASE x.c = "route"
  <2>1. PICK v : v = run.routes \o NewRoutes(t, s)
    BY Zenon
  <2>2. r = [run EXCEPT !.routes = v]
    BY <1>0, <1>16, <2>1 DEF CallRules, NewRoutes
  <2>3. Stepped(t, sp, run, s) = RunOf(run.facts, run.ids, run.marks, run.cands, v, run.crews, run.consumed)
    <3> HIDE DEF x, id
    <3> QED
      BY <1>1, <1>2, <1>3, <1>13, <1>16, <2>1, Zenon
  <2> QED
    BY <1>0, <2>2, <2>3, RunWith, ZenonT(60)
<1>17. CASE x.c = "crew"
  <2>1. PICK v : v = run.crews \o NewCrews(t, s)
    BY Zenon
  <2>2. r = [run EXCEPT !.crews = v]
    <3>1. r = [run EXCEPT !.crews = Append(@, [names |-> CrewNames(t, x), site |-> s, hierarchical |-> x.hierarchical])]
      BY <1>0, <1>17 DEF CallRules
    <3>2. NewCrews(t, s) = <<[names |-> CrewNames(t, x), site |-> s, hierarchical |-> x.hierarchical]>>
      BY <1>17 DEF NewCrews
    <3>3. v = Append(run.crews, [names |-> CrewNames(t, x), site |-> s, hierarchical |-> x.hierarchical])
      BY <1>1, <2>1, <3>2
    <3> QED
      BY <3>1, <3>3
  <2>3. Stepped(t, sp, run, s) = RunOf(run.facts, run.ids, run.marks, run.cands, run.routes, v, run.consumed)
    <3> HIDE DEF x, id
    <3> QED
      BY <1>1, <1>2, <1>3, <1>13, <1>17, <2>1, Zenon
  <2> QED
    BY <1>0, <2>2, <2>3, RunWith, Zenon
<1>18. CASE x.c \notin {"agent", "generic", "task", "mark", "node", "route", "crew", "tools", "state", "server"}
  <2>1. r = run
    BY <1>0, <1>18 DEF CallRules
  <2>2. Emits(t, sp, s, id) = <<>>
    BY <1>18 DEF Emits
  <2>3. ~Makes(t, s)
    BY <1>4, <1>18, Zenon
  <2>4. x.c \notin {"mark", "node", "route", "crew"}
    BY <1>18
  <2> HIDE DEF x, id
  <2> QED
    BY <1>0, <1>8, <2>1, <2>2, <2>3, <2>4
<1> QED
  BY <1>9, <1>10, <1>11, <1>12, <1>14, <1>15, <1>16, <1>17, <1>18

\* What a construct in view adds is the same.
LEMMA SameAdds ==
    ASSUME NEW t1, GoodTree(t1), NEW sp1, NEW t2, NEW sp2, NEW R, SameView(t1, sp1, t2, sp2, R),
           NEW m \in R, NEW i \in DOMAIN t1.text[m].body
    PROVE  /\ At(t1, <<m, i>>) = At(t2, <<m, i>>)
           /\ Makes(t1, <<m, i>>) <=> Makes(t2, <<m, i>>)
           /\ \A id : Emits(t1, sp1, <<m, i>>, id) = Emits(t2, sp2, <<m, i>>, id)
           /\ NewMarks(t1, <<m, i>>) = NewMarks(t2, <<m, i>>)
           /\ NewCands(t1, <<m, i>>) = NewCands(t2, <<m, i>>)
           /\ NewRoutes(t1, <<m, i>>) = NewRoutes(t2, <<m, i>>)
           /\ NewCrews(t1, <<m, i>>) = NewCrews(t2, <<m, i>>)
<1> DEFINE s == <<m, i>>
<1>1. /\ m \in DOMAIN t1.text /\ m \in DOMAIN t2.text /\ t1.text[m] = t2.text[m]
  BY DEF SameView
<1>2. PICK x : At(t1, s) = x /\ At(t2, s) = x
  BY <1>1 DEF At
<1>3. Construct(m, t1.text[m], x)
  <2>1. x = t1.text[m].body[i]
    BY <1>2 DEF At
  <2> QED
    BY <1>1, <2>1 DEF GoodTree
<1>4. \A refs : Follows(m, t1.text[m], refs) => \A ref \in refs : Viewed(t1, t2, R, ref)
  BY RefsAreViewed
<1> HIDE DEF s
\* The parts, as far as the construct has them.
<1>5. ASSUME x.c \in {"agent", "generic", "task", "tools"}
      PROVE  IsList(x.tools) /\ \A ref \in ToSet(x.tools) : Viewed(t1, t2, R, ref)
  BY <1>3, <1>4, <1>5, Zenon DEF Construct
<1>6. ASSUME x.c = "agent"
      PROVE  IsList(x.handoffs) /\ \A ref \in ToSet(x.handoffs) : Viewed(t1, t2, R, ref)
  BY <1>3, <1>4, <1>6 DEF Construct
<1>7. ASSUME x.c \in {"task", "mark"}
      PROVE  AgentNamed(t1, x.agent) = AgentNamed(t2, x.agent)
  <2>1. Follows(m, t1.text[m], {x.agent})
    BY <1>3, <1>7, Zenon DEF Construct
  <2>2. Viewed(t1, t2, R, x.agent)
    BY <1>4, <2>1
  <2> QED
    BY <2>2, SameNamed
<1>8. ASSUME x.c = "agent", x.model # <<>>, NEW id
      PROVE  BoundModel(t1, x.model[1], id, "framework", s) = BoundModel(t2, x.model[1], id, "framework", s)
  <2>1. Follows(m, t1.text[m], RefsAmong(ToSet(x.model)))
    BY <1>3, <1>8 DEF Construct
  <2>2. 1 \in DOMAIN x.model
    <3>1. IsList(x.model)
      BY <1>3, <1>8 DEF Construct
    <3>2. PICK l : l = x.model
      OBVIOUS
    <3>3. Len(l) \in Nat /\ DOMAIN l = 1..Len(l) /\ l = [j \in 1..Len(l) |-> l[j]]
      BY <3>1, <3>2, ListIsFunction
    <3>4. Len(l) # 0
      BY <1>8, <3>2, <3>3
    <3> QED
      BY <3>2, <3>3, <3>4
  <2> QED
    <3>1. PICK e : e = x.model[1] /\ e \in ToSet(x.model)
      BY <2>2 DEF ToSet
    <3>2. e.n = "ref" => Viewed(t1, t2, R, e)
      BY <1>4, <2>1, <3>1 DEF RefsAmong
    <3> QED
      BY <3>1, <3>2, SameValue
<1>9. ASSUME x.c = "generic"
      PROVE  /\ AgentModel(t1, x) = AgentModel(t2, x)
             /\ Companion(t1, x) <=> Companion(t2, x)
             /\ AgentModel(t1, x) # <<>> =>
                  \A id : BoundModel(t1, AgentModel(t1, x)[1].e, id, "generic", s)
                          = BoundModel(t2, AgentModel(t2, x)[1].e, id, "generic", s)
  <2>1. IsList(x.kwargs) /\ Follows(m, t1.text[m], RefsAmong({a.e : a \in ToSet(x.kwargs)}))
    BY <1>3, <1>9, Zenon DEF Construct
  <2>2. ASSUME NEW a \in ToSet(x.kwargs) PROVE a.e.n = "ref" => Viewed(t1, t2, R, a.e)
    BY <1>4, <2>1 DEF RefsAmong
  <2> DEFINE models(t) == {a \in ToSet(x.kwargs) : IsModelValue(Value(t, a.e))}
             InRole(t, role) == Filtered(x.kwargs, {a \in models(t) : a.role = role})
  <2>3. models(t1) = models(t2)
    <3>1. \A a \in ToSet(x.kwargs) : Value(t1, a.e) = Value(t2, a.e)
      BY <2>2, SameValue
    <3> QED
      BY <3>1
  <2>4. AgentModel(t1, x) = InRole(t1, "model") \o InRole(t1, "other")
        /\ AgentModel(t2, x) = InRole(t2, "model") \o InRole(t2, "other")
    BY Zenon DEF AgentModel
  <2>5. PICK M : M = models(t1) /\ M = models(t2)
    BY <2>3, Zenon
  <2> HIDE DEF models
  <2>6. AgentModel(t1, x) = AgentModel(t2, x)
    BY <2>4, <2>5
  <2>7. Companion(t1, x) <=> Companion(t2, x)
    <3>1. \A j \in DOMAIN x.tools : \A kind : Lookup(t1, x.tools[j], kind) = Lookup(t2, x.tools[j], kind)
      BY <1>5, <1>9, SameLookup DEF ToSet
    <3> QED
      BY <3>1, Zenon DEF Companion
  <2>8. ASSUME AgentModel(t1, x) # <<>>, NEW id
        PROVE  BoundModel(t1, AgentModel(t1, x)[1].e, id, "generic", s) = BoundModel(t2, AgentModel(t2, x)[1].e, id, "generic", s)
    <3> DEFINE l == AgentModel(t1, x)
    <3>1. IsList(l) /\ ToSet(l) \subseteq ToSet(x.kwargs)
      <4>1. \A set : IsList(Filtered(x.kwargs, set)) /\ ToSet(Filtered(x.kwargs, set)) \subseteq ToSet(x.kwargs)
        BY <2>1, KeptAre
      <4>2. PICK A, B : l = A \o B /\ IsList(A) /\ IsList(B) /\ ToSet(A) \subseteq ToSet(x.kwargs)
                        /\ ToSet(B) \subseteq ToSet(x.kwargs)
        BY <2>4, <4>1, Zenon
      <4> QED
        BY <4>2, Concatenated
    <3>2. l[1] \in ToSet(l)
      <4>1. Len(l) \in Nat /\ DOMAIN l = 1..Len(l) /\ l = [j \in 1..Len(l) |-> l[j]]
        BY <3>1, ListIsFunction
      <4>2. Len(l) # 0
        <5>1. ASSUME Len(l) = 0 PROVE FALSE
          <6> HIDE DEF l
          <6>1. l = <<>>
            BY <4>1, <5>1
          <6> QED
            BY <2>8, <6>1 DEF l
        <5> QED
          BY <5>1
      <4> HIDE DEF l
      <4> QED
        BY <4>1, <4>2 DEF ToSet
    <3>3. PICK a : a = l[1] /\ a \in ToSet(x.kwargs)
      BY <3>1, <3>2
    <3>4. a.e.n = "ref" => Viewed(t1, t2, R, a.e)
      BY <2>2, <3>3
    <3>5. BoundModel(t1, a.e, id, "generic", s) = BoundModel(t2, a.e, id, "generic", s)
      BY <3>4, SameValue
    <3> QED
      BY <2>6, <3>3, <3>5
  <2> QED
    BY <2>6, <2>7, <2>8
<1>10. Makes(t1, s) <=> Makes(t2, s)
  BY <1>2, <1>9, Zenon DEF Makes
\* The facts.
<1>11. ASSUME NEW id PROVE Emits(t1, sp1, s, id) = Emits(t2, sp2, s, id)
  <2>0. \A t, sp : At(t, s) = x =>
          Emits(t, sp, s, id) =
            CASE x.c = "agent"   -> IF Makes(t, s) THEN AgentAdds(t, sp, s, id) ELSE <<>>
              [] x.c = "generic" -> IF Makes(t, s) THEN GenericAdds(t, sp, s, id) ELSE <<>>
              [] x.c = "task"    -> IF AgentNamed(t, x.agent) = {} THEN <<>> ELSE TaskAdds(t, sp, s)
              [] x.c = "tools"   -> ReferredTools(t, sp, x.tools, s)
              [] x.c = "state"   -> StateAdds(s)
              [] x.c = "server"  -> <<ServerFact(x.label, s, s[1])>> \o ApprovalFacts(x, s)
              [] OTHER           -> <<>>
    BY DEF Emits
  <2>1. CASE x.c = "agent"
    <3>1. Emits(t1, sp1, s, id) = (IF Makes(t1, s) THEN AgentAdds(t1, sp1, s, id) ELSE <<>>)
          /\ Emits(t2, sp2, s, id) = (IF Makes(t2, s) THEN AgentAdds(t2, sp2, s, id) ELSE <<>>)
      BY <1>2, <2>0, <2>1
    <3>2. AgentAdds(t1, sp1, s, id) = AgentAdds(t2, sp2, s, id)
      <4> DEFINE A == <<AgentFact(id, x.name, "ctor", <<s>>, s[1])>>
                 B(t) == IF x.model = <<>> THEN <<>> ELSE BoundModel(t, x.model[1], id, "framework", s)
                 C(t) == SideFacts(t, x.tools, s)
                 D(t, sp) == FlattenSeq([j \in DOMAIN x.tools |->
                                BoundTool(t, sp, x.tools[j], id, s, "ctor") \o BoundServer(t, x.tools[j], id, s)])
                 H(t) == FlattenSeq([j \in DOMAIN x.handoffs |->
                                Listed({Edge("transfer:handoff", id, BareId(n), "", s) : n \in AgentNamed(t, x.handoffs[j])})])
      <4>1. AgentAdds(t1, sp1, s, id) = A \o B(t1) \o C(t1) \o D(t1, sp1) \o H(t1)
            /\ AgentAdds(t2, sp2, s, id) = A \o B(t2) \o C(t2) \o D(t2, sp2) \o H(t2)
        BY <1>2, Zenon DEF AgentAdds
      <4>2. B(t1) = B(t2)
        BY <1>8, <2>1
      <4>3. PICK tools : tools = x.tools /\ IsList(tools) /\ \A ref \in ToSet(tools) : Viewed(t1, t2, R, ref)
        BY <1>5, <2>1
      <4>4. C(t1) = C(t2)
        <5>1. SameOver(t1, sp1, t2, sp2, tools, s)
          BY <4>3, SameLists
        <5> QED
          BY <4>3, <5>1, Zenon DEF SameOver
      <4>5. D(t1, sp1) = D(t2, sp2)
        <5>1. FlattenSeq([j \in DOMAIN tools |-> BoundTool(t1, sp1, tools[j], id, s, "ctor") \o BoundServer(t1, tools[j], id, s)])
              = FlattenSeq([j \in DOMAIN tools |-> BoundTool(t2, sp2, tools[j], id, s, "ctor") \o BoundServer(t2, tools[j], id, s)])
          <6>1. SameOver(t1, sp1, t2, sp2, tools, s)
            BY <4>3, SameLists
          <6> QED
            BY <6>1, Zenon DEF SameOver
        <5> QED
          BY <4>3, <5>1, Zenon
      <4>6. H(t1) = H(t2)
        <5>1. PICK refs : refs = x.handoffs /\ IsList(refs) /\ \A ref \in ToSet(refs) : Viewed(t1, t2, R, ref)
          BY <1>6, <2>1
        <5>2. FlattenSeq([j \in DOMAIN refs |->
                    Listed({Edge("transfer:handoff", id, BareId(n), "", s) : n \in AgentNamed(t1, refs[j])})])
              = FlattenSeq([j \in DOMAIN refs |->
                    Listed({Edge("transfer:handoff", id, BareId(n), "", s) : n \in AgentNamed(t2, refs[j])})])
          <6>1. SameOver(t1, sp1, t2, sp2, refs, s)
            BY <5>1, SameLists
          <6> QED
            BY <6>1, Zenon DEF SameOver
        <5> QED
          BY <5>1, <5>2, Zenon
      <4> HIDE DEF A, B, C, D, H
      <4> QED
        BY <4>1, <4>2, <4>4, <4>5, <4>6, Zenon
    <3> QED
      BY <1>10, <3>1, <3>2
  <2>2. CASE x.c = "generic"
    <3>1. Emits(t1, sp1, s, id) = (IF Makes(t1, s) THEN GenericAdds(t1, sp1, s, id) ELSE <<>>)
          /\ Emits(t2, sp2, s, id) = (IF Makes(t2, s) THEN GenericAdds(t2, sp2, s, id) ELSE <<>>)
      BY <1>2, <2>0, <2>2
    <3>2. CASE ~Makes(t1, s)
      BY <1>10, <3>1, <3>2
    <3>3. CASE Makes(t1, s)
      <4> DEFINE A == <<AgentFact(id, x.name, "shape", <<s>>, s[1])>>
                 B(t) == BoundModel(t, AgentModel(t, x)[1].e, id, "generic", s)
                 C(t) == SideFacts(t, x.tools, s)
                 D(t, sp) == FlattenSeq([j \in DOMAIN x.tools |-> BoundTool(t, sp, x.tools[j], id, s, "shape")])
      <4>1. GenericAdds(t1, sp1, s, id) = A \o B(t1) \o C(t1) \o D(t1, sp1)
            /\ GenericAdds(t2, sp2, s, id) = A \o B(t2) \o C(t2) \o D(t2, sp2)
        BY <1>2, Zenon DEF GenericAdds
      <4>2. B(t1) = B(t2)
        <5>1. AgentModel(t1, x) # <<>>
          BY <1>2, <2>2, <3>3 DEF Makes
        <5> QED
          BY <1>9, <2>2, <5>1
      <4>3. PICK tools : tools = x.tools /\ IsList(tools) /\ \A ref \in ToSet(tools) : Viewed(t1, t2, R, ref)
        BY <1>5, <2>2
      <4>4. C(t1) = C(t2)
        <5>1. SameOver(t1, sp1, t2, sp2, tools, s)
          BY <4>3, SameLists
        <5> QED
          BY <4>3, <5>1, Zenon DEF SameOver
      <4>5. D(t1, sp1) = D(t2, sp2)
        <5>1. FlattenSeq([j \in DOMAIN tools |-> BoundTool(t1, sp1, tools[j], id, s, "shape")])
              = FlattenSeq([j \in DOMAIN tools |-> BoundTool(t2, sp2, tools[j], id, s, "shape")])
          <6>1. SameOver(t1, sp1, t2, sp2, tools, s)
            BY <4>3, SameLists
          <6> QED
            BY <6>1, Zenon DEF SameOver
        <5> QED
          BY <4>3, <5>1, Zenon
      <4> HIDE DEF A, B, C, D
      <4>6. GenericAdds(t1, sp1, s, id) = GenericAdds(t2, sp2, s, id)
        BY <4>1, <4>2, <4>4, <4>5, Zenon
      <4> QED
        BY <1>10, <3>1, <4>6
    <3> QED
      BY <3>2, <3>3
  <2>3. CASE x.c = "task"
    <3>1. Emits(t1, sp1, s, id) = (IF AgentNamed(t1, x.agent) = {} THEN <<>> ELSE TaskAdds(t1, sp1, s))
          /\ Emits(t2, sp2, s, id) = (IF AgentNamed(t2, x.agent) = {} THEN <<>> ELSE TaskAdds(t2, sp2, s))
      BY <1>2, <2>0, <2>3
    <3>2. TaskAdds(t1, sp1, s) = TaskAdds(t2, sp2, s)
      <4>1. PICK a : a = BareId(The(AgentNamed(t1, x.agent))) /\ a = BareId(The(AgentNamed(t2, x.agent)))
        BY <1>7, <2>3
      <4>2. PICK tools : tools = x.tools /\ IsList(tools) /\ \A ref \in ToSet(tools) : Viewed(t1, t2, R, ref)
        BY <1>5, <2>3
      <4>3. FlattenSeq([j \in DOMAIN tools |-> BoundTool(t1, sp1, tools[j], a, s, "task")])
            = FlattenSeq([j \in DOMAIN tools |-> BoundTool(t2, sp2, tools[j], a, s, "task")])
        <5>1. SameOver(t1, sp1, t2, sp2, tools, s)
          BY <4>2, SameLists
        <5> QED
          BY <5>1, Zenon DEF SameOver
      <4>4. TaskAdds(t1, sp1, s) = FlattenSeq([j \in DOMAIN tools |-> BoundTool(t1, sp1, tools[j], a, s, "task")])
        BY <1>2, <4>1, <4>2, Zenon DEF TaskAdds
      <4>5. TaskAdds(t2, sp2, s) = FlattenSeq([j \in DOMAIN tools |-> BoundTool(t2, sp2, tools[j], a, s, "task")])
        BY <1>2, <4>1, <4>2, Zenon DEF TaskAdds
      <4> QED
        BY <4>3, <4>4, <4>5
    <3> QED
      BY <1>7, <2>3, <3>1, <3>2
  <2>4. CASE x.c = "tools"
    <3>1. Emits(t1, sp1, s, id) = ReferredTools(t1, sp1, x.tools, s)
          /\ Emits(t2, sp2, s, id) = ReferredTools(t2, sp2, x.tools, s)
      BY <1>2, <2>0, <2>4
    <3>2. PICK tools : tools = x.tools /\ IsList(tools) /\ \A ref \in ToSet(tools) : Viewed(t1, t2, R, ref)
      BY <1>5, <2>4
    <3>3. ReferredTools(t1, sp1, tools, s) = ReferredTools(t2, sp2, tools, s)
      <4>1. SameOver(t1, sp1, t2, sp2, tools, s)
        BY <3>2, SameLists
      <4> QED
        BY <4>1, Zenon DEF SameOver
    <3> QED
      BY <3>1, <3>2, <3>3
  <2>5. CASE x.c \notin {"agent", "generic", "task", "tools"}
    BY <1>2, <2>0, <2>5, Zenon
  <2> QED
    BY <2>1, <2>2, <2>3, <2>4, <2>5
\* What is collected.
<1>12. NewMarks(t1, s) = NewMarks(t2, s)
  <2>1. CASE x.c # "mark"
    BY <1>2, <2>1 DEF NewMarks
  <2>2. CASE x.c = "mark"
    <3>1. AgentNamed(t1, x.agent) = AgentNamed(t2, x.agent)
      BY <1>7, <2>2
    <3> QED
      BY <1>2, <3>1, Zenon DEF NewMarks
  <2> QED
    BY <2>1, <2>2
<1>13. NewCands(t1, s) = NewCands(t2, s) /\ NewRoutes(t1, s) = NewRoutes(t2, s)
  BY <1>2, Zenon DEF NewCands, NewRoutes
<1>14. NewCrews(t1, s) = NewCrews(t2, s)
  <2>1. CASE x.c # "crew"
    BY <1>2, <2>1 DEF NewCrews
  <2>2. CASE x.c = "crew"
    <3>1. CrewNames(t1, x) = CrewNames(t2, x)
      <4>1. IsList(x.agents) /\ \A ref \in ToSet(x.agents) : Viewed(t1, t2, R, ref)
        BY <1>3, <1>4, <2>2 DEF Construct
      <4> QED
        <5>1. SameOver(t1, sp1, t2, sp2, x.agents, s)
          BY <4>1, SameLists
        <5> QED
          BY <5>1, Zenon DEF SameOver, CrewNames
    <3> QED
      BY <1>2, <3>1, Zenon DEF NewCrews
  <2> QED
    BY <2>1, <2>2
<1> QED
  BY <1>2, <1>10, <1>11, <1>12, <1>13, <1>14 DEF s

\* The steps of a module's rules exist.
LEMMA ModuleRulesAre ==
    ASSUME NEW t, GoodTree(t), NEW sp, NEW run, NEW m \in DOMAIN t.text
    PROVE  \E n, f : RuledThrough(t, sp, run, m, n, f)
<1> DEFINE body == t.text[m].body
           n == Len(body)
           after == CHOOSE f : f = [i \in 0..n |-> IF i = 0 THEN run
                                                  ELSE CallRules(t, sp, f[i - 1], <<m, i>>)]
<1>1. ModuleRules(t, sp, run, m) = Emit(after[n], DeclaredFacts(t, sp, m))
  BY Zenon DEF ModuleRules, DeclaredFacts, DeclaredAs
<1>2. IsList(body)
  BY DEF GoodTree
<1>3. n \in Nat /\ DOMAIN body = 1..n
  <2> HIDE DEF body
  <2> QED
    BY <1>2, ListIsFunction
<1>4. IsRules(t, sp, run, m, n, after)
  <2> HIDE DEF n
  <2>1. \E f : IsRules(t, sp, run, m, n, f)
    BY <1>3, RulesExist, Zenon
  <2> QED
    BY <2>1, Zenon DEF IsRules
<1> HIDE DEF after
<1>5. \A i \in 0..n : after[i] = IF i = 0 THEN run ELSE CallRules(t, sp, after[i - 1], <<m, i>>)
  BY <1>4, Zenon DEF IsRules
<1>6. after[0] = run /\ \A i \in 1..n : after[i] = CallRules(t, sp, after[i - 1], <<m, i>>)
  <2> HIDE DEF n
  <2>1. 0 \in 0..n /\ \A i \in 1..n : i \in 0..n /\ i # 0
    BY <1>3
  <2> QED
    BY <1>5, <2>1, Zenon
<1>7. n = Len(t.text[m].body) /\ DOMAIN t.text[m].body = 1..n
  BY <1>3
<1> HIDE DEF n
<1>8. RuledThrough(t, sp, run, m, n, after)
  BY <1>1, <1>3, <1>6, <1>7 DEF RuledThrough
<1> QED
  BY <1>8

\* What a module in view declares is the same.
LEMMA SameDeclared ==
    ASSUME NEW t1, GoodTree(t1), NEW sp1, NEW t2, NEW sp2, NEW R, SameView(t1, sp1, t2, sp2, R), NEW m \in R
    PROVE  DeclaredFacts(t1, sp1, m) = DeclaredFacts(t2, sp2, m)
<1>1. t1.text[m] = t2.text[m]
  BY DEF SameView
<1>2. ASSUME NEW c \in {"def", "class"} PROVE DeclaredAs(t1, sp1, m, c) = DeclaredAs(t2, sp2, m, c)
  <2>1. PICK body : body = t1.text[m].body /\ body = t2.text[m].body
    BY <1>1
  <2> DEFINE Part(t, sp, i) == IF body[i].c # c \/ body[i].tool = "" THEN <<>>
                               ELSE <<ToolFact(t, sp, <<m, i>>, body[i].tool, m, "declared")>>
             p1 == [i \in DOMAIN body |-> Part(t1, sp1, i)]
             p2 == [i \in DOMAIN body |-> Part(t2, sp2, i)]
  <2>2. ASSUME NEW i \in DOMAIN body PROVE Part(t1, sp1, i) = Part(t2, sp2, i)
    <3>1. CASE body[i].c # c \/ body[i].tool = ""
      BY <3>1, Zenon
    <3>2. CASE ~(body[i].c # c \/ body[i].tool = "")
      <4>1. <<m, i>> \in Bodies(t1, R)
        BY <2>1, <3>2, BodiesInView, Zenon
      <4>2. \A name, user, method : ToolFact(t1, sp1, <<m, i>>, name, user, method) = ToolFact(t2, sp2, <<m, i>>, name, user, method)
        BY <4>1, SameTools
      <4> QED
        BY <3>2, <4>2, Zenon
    <3> QED
      BY <3>1, <3>2, Zenon
  <2>3. DeclaredAs(t1, sp1, m, c) = FlattenSeq(p1)
    BY <2>1, Zenon DEF DeclaredAs
  <2>4. DeclaredAs(t2, sp2, m, c) = FlattenSeq(p2)
    BY <2>1, Zenon DEF DeclaredAs
  <2>5. p1 = p2
    <3> HIDE DEF Part
    <3> QED
      BY <2>2
  <2> HIDE DEF p1, p2
  <2> QED
    BY <2>3, <2>4, <2>5
<1> QED
  BY <1>2 DEF DeclaredFacts

\* A promotion adds to the run an agent, its model and their binding.
LEMMA PromotedIs ==
    ASSUME NEW t, NEW sp, NEW run, IsRun(run), NEW cand
    PROVE  Promoted(t, sp, run, cand) =
              IF Anchors(t, sp, cand) = {} THEN run ELSE PromotedWith(t, sp, run, cand)
<1> DEFINE anchors == Anchors(t, sp, cand)
           sink == The(anchors)
           adds == PromotionAdds(t, sp, cand, AgentId(run, cand.name, sink))
           reg == Registered(run, cand.name, sink)
           next == [reg EXCEPT !.consumed = @ \cup anchors]
<1>1. Promoted(t, sp, run, cand) = IF anchors = {} THEN run ELSE Emit(next, adds)
  BY Zenon DEF Promoted, Anchors, PromotionAdds
<1>2. PromotedWith(t, sp, run, cand) =
        RunOf(run.facts \o adds, reg.ids, run.marks, run.cands, run.routes, run.crews, run.consumed \cup anchors)
  BY DEF PromotedWith
<1> HIDE DEF adds, anchors, sink
<1>3. IsRun(reg) /\ reg.facts = run.facts /\ reg.marks = run.marks /\ reg.cands = run.cands
      /\ reg.routes = run.routes /\ reg.crews = run.crews /\ reg.consumed = run.consumed
  <2>1. CASE AgentId(run, cand.name, sink) # BareId(cand.name)
    <3>1. reg = run
      BY <2>1 DEF Registered
    <3> HIDE DEF reg
    <3> QED
      BY <3>1
  <2>2. CASE AgentId(run, cand.name, sink) = BareId(cand.name)
    <3>1. PICK ids : reg = [run EXCEPT !.ids = ids]
      BY <2>2, Zenon DEF Registered
    <3> HIDE DEF reg
    <3>2. reg = RunOf(run.facts, ids, run.marks, run.cands, run.routes, run.crews, run.consumed)
      BY <3>1, RunWith, Zenon
    <3>3. /\ reg.facts = run.facts /\ reg.marks = run.marks /\ reg.cands = run.cands /\ reg.routes = run.routes
          /\ reg.crews = run.crews /\ reg.consumed = run.consumed /\ reg.ids = ids
      BY <3>2
    <3> QED
      BY <3>2, <3>3 DEF IsRun
  <2> QED
    BY <2>1, <2>2
<1> HIDE DEF reg
<1>4. PICK v : v = reg.consumed \cup anchors
  BY Zenon
<1>5. next = RunOf(reg.facts, reg.ids, reg.marks, reg.cands, reg.routes, reg.crews, v)
  <2>1. next = [reg EXCEPT !.consumed = v]
    BY <1>4
  <2> HIDE DEF next
  <2> QED
    BY <1>3, <2>1, RunWith, Zenon
<1>6. IsRun(next) /\ next.facts = reg.facts /\ next.ids = reg.ids /\ next.marks = reg.marks /\ next.cands = reg.cands
      /\ next.routes = reg.routes /\ next.crews = reg.crews /\ next.consumed = v
  <2> HIDE DEF next
  <2>1. next.facts = reg.facts /\ next.ids = reg.ids /\ next.marks = reg.marks /\ next.cands = reg.cands
      /\ next.routes = reg.routes /\ next.crews = reg.crews /\ next.consumed = v
    BY <1>5
  <2> QED
    BY <1>3, <1>5, <2>1 DEF IsRun
<1> HIDE DEF next
<1>7. Emit(next, adds) = RunOf(next.facts \o adds, next.ids, next.marks, next.cands, next.routes, next.crews,
                               next.consumed)
  BY <1>6, EmitOnlyFacts, Zenon
<1>8. Emit(next, adds) = PromotedWith(t, sp, run, cand)
  BY <1>2, <1>3, <1>4, <1>6, <1>7
<1> QED
  BY <1>1, <1>8 DEF anchors

\* What a reference resolves to is of the kind and bears the name.
LEMMA LookupIs ==
    ASSUME NEW t, NEW ref, NEW kind, NEW s \in Lookup(t, ref, kind)
    PROVE  /\ ref.mod \in DOMAIN t.text /\ s[1] = ref.mod /\ s[2] \in DOMAIN t.text[s[1]].body /\ Pair(s)
           /\ At(t, s).c = kind /\ At(t, s).var = ref.var
<1>1. ref.mod \in DOMAIN t.text
  BY DEF Lookup
<1>2. PICK i \in DOMAIN t.text[ref.mod].body :
         s = <<ref.mod, i>> /\ t.text[ref.mod].body[i].c = kind /\ t.text[ref.mod].body[i].var = ref.var
  BY <1>1 DEF Lookup
<1> QED
  BY <1>1, <1>2 DEF At, Pair

\* A candidate whose function lies in a module in view is promoted alike.
LEMMA SamePromotion ==
    ASSUME NEW t1, GoodTree(t1), NEW sp1, NEW t2, NEW sp2, NEW R, SameView(t1, sp1, t2, sp2, R),
           NEW cand, cand.fn.mod \in R,
           \A i \in DOMAIN t1.text[cand.fn.mod].body : <<cand.fn.mod, i>> \in sp1 <=> <<cand.fn.mod, i>> \in sp2
    PROVE  /\ Anchors(t1, sp1, cand) = Anchors(t2, sp2, cand)
           /\ \A id : Anchors(t1, sp1, cand) # {} => PromotionAdds(t1, sp1, cand, id) = PromotionAdds(t2, sp2, cand, id)
<1>1. Viewed(t1, t2, R, cand.fn)
  BY DEF Viewed
<1>2. PICK S : S = Lookup(t1, cand.fn, "def") /\ S = Lookup(t2, cand.fn, "def")
  BY <1>1, SameLookup
<1>3. \A s \in S : /\ s[1] \in R /\ s[1] = cand.fn.mod /\ s[2] \in DOMAIN t1.text[s[1]].body /\ Pair(s)
                   /\ At(t1, s) = At(t2, s)
  BY <1>1, <1>2, SameLookup
<1>4. \A s \in S : s \in sp1 <=> s \in sp2
  BY <1>3 DEF Pair
<1>5. Anchors(t1, sp1, cand) = Anchors(t2, sp2, cand)
  BY <1>2, <1>3, <1>4 DEF Anchors
<1>6. ASSUME Anchors(t1, sp1, cand) # {}, NEW id
      PROVE  PromotionAdds(t1, sp1, cand, id) = PromotionAdds(t2, sp2, cand, id)
  <2>1. PICK sink : sink = The(Anchors(t1, sp1, cand)) /\ sink = The(Anchors(t2, sp2, cand))
    BY <1>5
  <2>2. sink \in S /\ At(t1, sink).c = "def"
    <3>1. sink \in Anchors(t1, sp1, cand)
      BY <1>6, <2>1 DEF The
    <3>2. sink \in Lookup(t1, cand.fn, "def")
      BY <3>1 DEF Anchors
    <3> QED
      BY <1>2, <3>2, LookupIs
  <2>3. PICK x : At(t1, sink) = x /\ At(t2, sink) = x
    BY <1>3, <2>2
  <2>4. x.model.n = "ref" => Viewed(t1, t2, R, x.model)
    <3>1. PICK m \in R : m = sink[1] /\ sink[2] \in DOMAIN t1.text[m].body /\ m \in DOMAIN t1.text
      BY <1>3, <2>2 DEF SameView
    <3>2. Construct(m, t1.text[m], x)
      BY <2>3, <3>1 DEF GoodTree, At
    <3>3. PICK refs : refs = RefsAmong({x.model}) /\ Follows(m, t1.text[m], refs)
      BY <2>2, <2>3, <3>2, Zenon DEF Construct
    <3>4. CASE x.model.n = "ref"
      <4>1. x.model \in refs
        BY <3>3, <3>4 DEF RefsAmong
      <4> QED
        BY <3>1, <3>3, <4>1, RefsAreViewed
    <3> QED
      BY <3>4
  <2>5. \A style, site : ModelFact(t1, x.model, style, site) = ModelFact(t2, x.model, style, site)
    BY <2>4, SameValue
  <2> QED
    BY <2>1, <2>3, <2>5, Zenon DEF PromotionAdds
<1> QED
  BY <1>5, <1>6

\* The promotions of a run are such a chain.
LEMMA PromoteAre ==
    ASSUME NEW t, NEW sp, NEW run, IsRun(run)
    PROVE  \E n, f : PromotedThrough(t, sp, run, n, f)
<1> DEFINE n == Len(run.cands)
           after == CHOOSE f : f = [i \in 0..n |-> IF i = 0 THEN run ELSE Promoted(t, sp, f[i - 1], run.cands[i])]
<1>1. Promote(t, sp, run) = after[n]
  BY Zenon DEF Promote
<1>2. n \in Nat /\ DOMAIN run.cands = 1..n
  BY ListIsFunction DEF IsRun
<1>3. IsPromotion(t, sp, run, run.cands, n, after)
  <2> HIDE DEF n
  <2>1. \E f : IsPromotion(t, sp, run, run.cands, n, f)
    BY <1>2, PromotionExists
  <2> QED
    BY <2>1, Zenon DEF IsPromotion
<1> HIDE DEF after
<1>4. \A i \in 0..n : after[i] = IF i = 0 THEN run ELSE Promoted(t, sp, after[i - 1], run.cands[i])
  BY <1>3, Zenon DEF IsPromotion
<1>5. n = Len(run.cands)
  OBVIOUS
<1> HIDE DEF n
<1>6. after[0] = run /\ \A i \in 1..n : after[i] = Promoted(t, sp, after[i - 1], run.cands[i])
  <2>1. 0 \in 0..n /\ \A i \in 1..n : i \in 0..n /\ i # 0
    BY <1>2
  <2> QED
    BY <1>4, <2>1
<1>7. PromotedThrough(t, sp, run, n, after)
  BY <1>1, <1>2, <1>5, <1>6 DEF PromotedThrough
<1> QED
  BY <1>7

(***************************************************************************)
(* The facts of a module                                                   *)
(***************************************************************************)

\* Sound lists of no, one and two facts, joined, flattened and listed.
LEMMA SoundShort ==
    ASSUME NEW t, NEW sp, NEW m
    PROVE  /\ Sound(t, sp, m, <<>>)
           /\ \A a : Settled(t, sp, m, a) => Sound(t, sp, m, <<a>>)
           /\ \A a, b : Settled(t, sp, m, a) /\ Settled(t, sp, m, b) => Sound(t, sp, m, <<a, b>>)
<1>1. Sound(t, sp, m, <<>>)
  BY ShortLists DEF Sound
<1>2. ASSUME NEW a, Settled(t, sp, m, a) PROVE Sound(t, sp, m, <<a>>)
  BY <1>2, ShortLists DEF Sound
<1>3. ASSUME NEW a, NEW b, Settled(t, sp, m, a), Settled(t, sp, m, b) PROVE Sound(t, sp, m, <<a, b>>)
  <2>1. IsList(<<a, b>>) /\ ToSet(<<a, b>>) = {a, b}
    BY ShortLists
  <2> QED
    BY <1>3, <2>1 DEF Sound
<1> QED
  BY <1>1, <1>2, <1>3

\* Two sound lists are sound one after the other.
LEMMA SoundCat ==
    ASSUME NEW t, NEW sp, NEW m, NEW a, NEW b, Sound(t, sp, m, a), Sound(t, sp, m, b)
    PROVE  Sound(t, sp, m, a \o b)
<1>1. IsList(a \o b) /\ ToSet(a \o b) = ToSet(a) \cup ToSet(b)
  BY Concatenated DEF Sound
<1> QED
  BY <1>1 DEF Sound

\* A list of sound lists is sound when it is flattened.
LEMMA SoundFlat ==
    ASSUME NEW t, NEW sp, NEW m, NEW list, IsList(list), NEW parts, parts = [i \in DOMAIN list |-> parts[i]],
           \A i \in DOMAIN list : Sound(t, sp, m, parts[i])
    PROVE  Sound(t, sp, m, FlattenSeq(parts))
<1>1. PICK n \in Nat : DOMAIN list = 1..n
  BY ListIsFunction
<1>2. /\ IsList(FlattenSeq(parts))
      /\ ToSet(FlattenSeq(parts)) = UNION {ToSet(parts[i]) : i \in 1..n}
  BY <1>1, Flattened, Zenon DEF Sound
<1>3. ASSUME NEW g \in ToSet(FlattenSeq(parts)) PROVE Settled(t, sp, m, g)
  <2>1. PICK i \in 1..n : g \in ToSet(parts[i])
    BY <1>2
  <2> QED
    BY <1>1, <2>1 DEF Sound
<1> QED
  BY <1>2, <1>3 DEF Sound

\* So is a finite set of sound lists, and of settled facts, when it is listed.
LEMMA SoundListed ==
    ASSUME NEW t, NEW sp, NEW m, NEW S, IsFiniteSet(S)
    PROVE  /\ (\A s \in S : Sound(t, sp, m, s)) => Sound(t, sp, m, FlattenSeq(Listed(S)))
           /\ (\A s \in S : Settled(t, sp, m, s)) => Sound(t, sp, m, Listed(S))
<1>1. PICK l : l = Listed(S) /\ IsList(l) /\ ToSet(l) = S
  BY ListedAre
<1>2. l = [i \in DOMAIN l |-> l[i]] /\ \A i \in DOMAIN l : l[i] \in S
  <2>1. Len(l) \in Nat /\ DOMAIN l = 1..Len(l) /\ l = [i \in 1..Len(l) |-> l[i]]
    BY <1>1, ListIsFunction
  <2>2. \A i \in DOMAIN l : l[i] \in S
    BY <1>1 DEF ToSet
  <2> QED
    BY <2>1, <2>2
<1>3. ASSUME \A s \in S : Sound(t, sp, m, s) PROVE Sound(t, sp, m, FlattenSeq(Listed(S)))
  <2>1. Sound(t, sp, m, FlattenSeq(l))
    BY <1>1, <1>2, <1>3, SoundFlat
  <2> QED
    BY <1>1, <2>1
<1>4. (\A s \in S : Settled(t, sp, m, s)) => Sound(t, sp, m, Listed(S))
  BY <1>1 DEF Sound
<1> QED
  BY <1>3, <1>4

\* A place in a module is near it.
LEMMA NearHere ==
    ASSUME NEW t, NEW m \in DOMAIN t.text, NEW i
    PROVE  Near(t, m, <<<<m, i>>>>)
BY ShortLists DEF Near

\* The facts about one construct.
LEMMA OneIsSettled ==
    ASSUME NEW t, GoodTree(t), NEW sp, NEW m \in DOMAIN t.text, NEW i
    PROVE  /\ \A e, style : Settled(t, sp, m, ModelFact(t, e, style, <<m, i>>))
           /\ \A label : Settled(t, sp, m, ServerFact(label, <<m, i>>, m))
           /\ \A type, from, to, guard : Joins(type, from[1], to[1]) => Settled(t, sp, m, Edge(type, from, to, guard, <<m, i>>))
           /\ \A x : Sound(t, sp, m, ApprovalFacts(x, <<m, i>>))
           /\ Settled(t, sp, m, [k |-> "state", id |-> <<"state">> \o <<m, i>>, method |-> "state",
                                 ev |-> <<<<m, i>>>>, src |-> m])
<1> DEFINE s == <<m, i>>
<1>0. s[1] = m
  OBVIOUS
<1> HIDE DEF s
<1>1. Near(t, m, <<s>>)
  BY NearHere DEF s
<1>2. ASSUME NEW e, NEW style PROVE Settled(t, sp, m, ModelFact(t, e, style, s))
  <2>1. PICK f, id : f = ModelFact(t, e, style, s) /\ id = ModelId(Value(t, e), style)
    OBVIOUS
  <2>2. f = [k |-> "model", id |-> id, method |-> "model", ev |-> <<s>>, src |-> s[1]]
    BY <2>1 DEF ModelFact
  <2>3. Kinded(f)
    BY <2>1, ModelFactIsPlain DEF PlainFact
  <2>4. f.k = "model" /\ f.src = m /\ f.ev = <<s>> /\ DOMAIN f = {"k", "id", "method", "ev", "src"}
    BY <1>0, <2>2
  <2> QED
    BY <1>1, <2>1, <2>3, <2>4 DEF Settled
<1>3. ASSUME NEW label PROVE Settled(t, sp, m, ServerFact(label, s, m))
  <2>1. PICK f : f = ServerFact(label, s, m)
    OBVIOUS
  <2>2. f = [k |-> "mcp", id |-> <<"mcp", label>>, method |-> "mcp", ev |-> <<s>>, src |-> m]
    BY <2>1 DEF ServerFact
  <2>3. Kinded(f)
    BY <2>1, ServerFactIsPlain DEF PlainFact
  <2>4. f.k = "mcp" /\ f.src = m /\ f.ev = <<s>> /\ DOMAIN f = {"k", "id", "method", "ev", "src"}
    BY <2>2
  <2> QED
    BY <1>1, <2>1, <2>3, <2>4 DEF Settled
<1>4. ASSUME NEW type, NEW from, NEW to, NEW guard, Joins(type, from[1], to[1])
      PROVE  Settled(t, sp, m, Edge(type, from, to, guard, s))
  <2>1. PICK f : f = Edge(type, from, to, guard, s)
    OBVIOUS
  <2>2. Kinded(f)
    BY <1>4, <2>1, EdgeIsPlain DEF PlainFact
  <2>3. f.k = "edge" /\ f.src = m /\ f.ev = <<s>>
    BY <1>0, <2>1 DEF Edge
  <2> QED
    BY <1>1, <2>1, <2>2, <2>3 DEF Settled
<1>5. ASSUME NEW x PROVE Sound(t, sp, m, ApprovalFacts(x, s))
  <2> DEFINE policy == <<"policy", "approval", x.label>>
             fact == [k |-> "policy", id |-> policy, method |-> "mcp", ev |-> <<s>>, src |-> s[1]]
             edge == Edge("attach_policy", policy, <<"mcp", x.label>>, "", s)
  <2>1. Kinded(fact)
    BY MethodsAre DEF Kinded, MethodNames
  <2>2. Settled(t, sp, m, fact)
    <3>1. fact.k = "policy" /\ fact.src = m /\ fact.ev = <<s>> /\ DOMAIN fact = {"k", "id", "method", "ev", "src"}
      BY <1>0
    <3> HIDE DEF fact
    <3> QED
      BY <1>1, <2>1, <3>1 DEF Settled
  <2>3. Settled(t, sp, m, edge)
    BY <1>4, Zenon DEF Joins
  <2>4. ApprovalFacts(x, s) = <<>> \/ ApprovalFacts(x, s) = <<fact, edge>>
    BY Zenon DEF ApprovalFacts
  <2> HIDE DEF fact, edge
  <2> QED
    BY <2>2, <2>3, <2>4, SoundShort, Zenon
<1>6. Settled(t, sp, m, [k |-> "state", id |-> <<"state">> \o s, method |-> "state", ev |-> <<s>>, src |-> m])
  <2> DEFINE f == [k |-> "state", id |-> <<"state">> \o s, method |-> "state", ev |-> <<s>>, src |-> m]
  <2>1. f.id[1] = "state"
    BY DEF s
  <2>2. Kinded(f)
    BY <2>1, MethodsAre DEF Kinded, MethodNames
  <2>3. f.k = "state" /\ f.src = m /\ f.ev = <<s>> /\ DOMAIN f = {"k", "id", "method", "ev", "src"}
    OBVIOUS
  <2> HIDE DEF f
  <2>4. Settled(t, sp, m, f)
    BY <1>1, <2>2, <2>3 DEF Settled
  <2> QED
    BY <2>4 DEF f
<1> QED
  BY <1>2, <1>3, <1>4, <1>5, <1>6 DEF s

\* A tool that a module refers to.
LEMMA ToolIsSettled ==
    ASSUME NEW t, GoodTree(t), NEW sp, NEW m \in DOMAIN t.text, NEW ref, Follows(m, t.text[m], {ref}),
           NEW d \in Lookup(t, ref, "def"), NEW method \in MethodNames, method # "declared"
    PROVE  Settled(t, sp, m, ToolFact(t, sp, d, ref.var, m, method))
<1>1. /\ ref.mod \in DOMAIN t.text /\ d[1] = ref.mod /\ Pair(d) /\ At(t, d).var = ref.var
  BY LookupIs
<1>2. PICK f, id : f = ToolFact(t, sp, d, ref.var, m, method) /\ id = <<"tool", ref.mod, ref.var>>
  BY Zenon
<1>3. PICK effects : effects = Classify(t, sp)[d]
  OBVIOUS
<1>4. f = [k |-> "tool", id |-> id, name |-> ref.var, effects |-> effects, method |-> method,
           ev |-> <<d>>, src |-> m]
  BY <1>1, <1>2, <1>3 DEF ToolFact
<1>5. /\ f.k = "tool" /\ f.src = m /\ f.ev = <<d>> /\ f.method = method /\ f.name = ref.var /\ f.effects = effects
      /\ f.id = id /\ DOMAIN f = {"k", "id", "name", "effects", "method", "ev", "src"}
  BY <1>4
<1>6. Kinded(f)
  BY <1>2, ToolFactIsPlain DEF PlainFact
<1>7. id[2] = ref.mod /\ id[3] = ref.var
  BY <1>2
<1>8. Lookup(t, RefTo(id), "def") = Lookup(t, ref, "def")
  <2>0. RefTo(id) = [mod |-> ref.mod, var |-> ref.var]
    BY <1>7 DEF RefTo
  <2>1. PICK r : r = RefTo(id) /\ r.mod = ref.mod /\ r.var = ref.var
    BY <2>0
  <2>2. Lookup(t, r, "def") = Lookup(t, ref, "def")
    BY <2>1 DEF Lookup
  <2> QED
    BY <2>1, <2>2
<1>9. ToolSettled(t, sp, f)
  BY <1>3, <1>5, <1>7, <1>8 DEF ToolSettled
<1>10. Near(t, m, <<d>>)
  <2>1. ToSet(<<d>>) = {d}
    BY ShortLists
  <2>2. ref.mod \in t.text[m].imports \cup {m}
    BY DEF Follows
  <2> QED
    BY <1>1, <2>1, <2>2 DEF Near
<1> QED
  BY <1>2, <1>5, <1>6, <1>9, <1>10 DEF Settled

\* The tools and servers that a construct binds and refers to.
LEMMA BoundAreSound ==
    ASSUME NEW t, GoodTree(t), NEW sp, NEW m \in DOMAIN t.text, NEW i, NEW ref, Follows(m, t.text[m], {ref}),
           NEW method \in MethodNames, method # "declared"
    PROVE  /\ \A agent : agent[1] = "agent" => Sound(t, sp, m, BoundTool(t, sp, ref, agent, <<m, i>>, method))
           /\ \A agent : agent[1] = "agent" => Sound(t, sp, m, BoundServer(t, ref, agent, <<m, i>>))
           /\ Sound(t, sp, m, ApprovalsOf(t, ref, <<m, i>>))
           /\ Sound(t, sp, m, ToolsOf(t, sp, ref, m, method))
<1> DEFINE site == <<m, i>>
<1>0. site[1] = m
  OBVIOUS
<1>a. ASSUME NEW S, IsFiniteSet(S), NEW g, DOMAIN g = S
      PROVE  IsFiniteSet({g[x] : x \in S})
  BY <1>a, ImageIsFinite
<1>1. ASSUME NEW agent, agent[1] = "agent" PROVE Sound(t, sp, m, BoundTool(t, sp, ref, agent, site, method))
  <2> DEFINE Two(s) == <<ToolFact(t, sp, s, ref.var, site[1], method),
                         Edge("bind_tool", agent, <<"tool", ref.mod, ref.var>>, "", site)>>
             all == {Two(s) : s \in Lookup(t, ref, "def")}
             g == [s \in Lookup(t, ref, "def") |-> Two(s)]
  <2>1. BoundTool(t, sp, ref, agent, site, method) = FlattenSeq(Listed(all))
    BY DEF BoundTool
  <2>2. ASSUME NEW s \in Lookup(t, ref, "def") PROVE Sound(t, sp, m, Two(s))
    <3>1. Settled(t, sp, m, ToolFact(t, sp, s, ref.var, site[1], method))
      BY <1>0, ToolIsSettled, Zenon
    <3>2. Settled(t, sp, m, Edge("bind_tool", agent, <<"tool", ref.mod, ref.var>>, "", site))
      BY <1>1, OneIsSettled, Zenon DEF Joins
    <3> QED
      BY <3>1, <3>2, SoundShort, Zenon
  <2> HIDE DEF Two
  <2>3. IsFiniteSet({g[s] : s \in Lookup(t, ref, "def")})
    BY <1>a, GoodLookup, Zenon
  <2>4. {g[s] : s \in Lookup(t, ref, "def")} = all
    OBVIOUS
  <2>5. IsFiniteSet(all) /\ \A a \in all : Sound(t, sp, m, a)
    BY <2>2, <2>3, <2>4
  <2> HIDE DEF all, g
  <2>6. Sound(t, sp, m, FlattenSeq(Listed(all)))
    BY <2>5, SoundListed
  <2> QED
    BY <2>1, <2>6
<1>2. ASSUME NEW agent, agent[1] = "agent" PROVE Sound(t, sp, m, BoundServer(t, ref, agent, site))
  <2> DEFINE Two(s) == <<ServerFact(At(t, s).label, site, site[1]),
                         Edge("bind_mcp", agent, <<"mcp", At(t, s).label>>, "", site)>>
             all == {Two(s) : s \in Lookup(t, ref, "server")}
             g == [s \in Lookup(t, ref, "server") |-> Two(s)]
  <2>1. BoundServer(t, ref, agent, site) = FlattenSeq(Listed(all))
    BY DEF BoundServer
  <2>2. ASSUME NEW s \in Lookup(t, ref, "server") PROVE Sound(t, sp, m, Two(s))
    <3>1. Settled(t, sp, m, ServerFact(At(t, s).label, site, site[1]))
      BY <1>0, OneIsSettled, Zenon
    <3>2. Settled(t, sp, m, Edge("bind_mcp", agent, <<"mcp", At(t, s).label>>, "", site))
      BY <1>2, OneIsSettled, Zenon DEF Joins
    <3> QED
      BY <3>1, <3>2, SoundShort, Zenon
  <2> HIDE DEF Two
  <2>3. IsFiniteSet({g[s] : s \in Lookup(t, ref, "server")})
    BY <1>a, GoodLookup, Zenon
  <2>4. {g[s] : s \in Lookup(t, ref, "server")} = all
    OBVIOUS
  <2>5. IsFiniteSet(all) /\ \A a \in all : Sound(t, sp, m, a)
    BY <2>2, <2>3, <2>4
  <2> HIDE DEF all, g
  <2>6. Sound(t, sp, m, FlattenSeq(Listed(all)))
    BY <2>5, SoundListed
  <2> QED
    BY <2>1, <2>6
<1>3. Sound(t, sp, m, ApprovalsOf(t, ref, site))
  <2> DEFINE Part(s) == ApprovalFacts(At(t, s), site)
             all == {Part(s) : s \in Lookup(t, ref, "server")}
             g == [s \in Lookup(t, ref, "server") |-> Part(s)]
  <2>1. \A s : Sound(t, sp, m, Part(s))
    BY OneIsSettled, Zenon
  <2> HIDE DEF Part
  <2>3. IsFiniteSet({g[s] : s \in Lookup(t, ref, "server")})
    BY <1>a, GoodLookup, Zenon
  <2>4. {g[s] : s \in Lookup(t, ref, "server")} = all
    OBVIOUS
  <2>5. IsFiniteSet(all) /\ \A a \in all : Sound(t, sp, m, a)
    BY <2>1, <2>3, <2>4
  <2> HIDE DEF all, g
  <2>6. Sound(t, sp, m, FlattenSeq(Listed(all)))
    BY <2>5, SoundListed
  <2> QED
    BY <2>6 DEF all, Part, ApprovalsOf
<1>4. Sound(t, sp, m, ToolsOf(t, sp, ref, m, method))
  <2> DEFINE Part(s) == ToolFact(t, sp, s, ref.var, m, method)
             all == {Part(s) : s \in Lookup(t, ref, "def")}
             g == [s \in Lookup(t, ref, "def") |-> Part(s)]
  <2>1. \A s \in Lookup(t, ref, "def") : Settled(t, sp, m, Part(s))
    BY ToolIsSettled, Zenon
  <2> HIDE DEF Part
  <2>3. IsFiniteSet({g[s] : s \in Lookup(t, ref, "def")})
    BY <1>a, GoodLookup, Zenon
  <2>4. {g[s] : s \in Lookup(t, ref, "def")} = all
    OBVIOUS
  <2>5. IsFiniteSet(all) /\ \A a \in all : Settled(t, sp, m, a)
    BY <2>1, <2>3, <2>4, Zenon
  <2> HIDE DEF all, g
  <2>6. Sound(t, sp, m, Listed(all))
    BY <2>5, SoundListed
  <2> QED
    BY <2>6 DEF all, Part, ToolsOf
<1> QED
  BY <1>1, <1>2, <1>3, <1>4

\* What a construct binds through the references that it lists is sound.
LEMMA ListsAreSound ==
    ASSUME NEW t, GoodTree(t), NEW sp, NEW m \in DOMAIN t.text, NEW j,
           NEW refs, IsList(refs), Follows(m, t.text[m], ToSet(refs))
    PROVE  SoundOver(t, sp, m, <<m, j>>, refs)
<1> DEFINE s == <<m, j>>
<1>0. s[1] = m
  OBVIOUS
<1>1. \A i \in DOMAIN refs : Follows(m, t.text[m], {refs[i]})
  BY DEF Follows, ToSet
<1>2. Sound(t, sp, m, SideFacts(t, refs, s))
  <2> DEFINE parts == [i \in DOMAIN refs |-> ApprovalsOf(t, refs[i], s)]
  <2>1. ASSUME NEW i \in DOMAIN refs PROVE Sound(t, sp, m, ApprovalsOf(t, refs[i], s))
    <3>1. PICK method \in MethodNames : method # "declared"
      BY MethodsAre
    <3> QED
      BY <1>1, <3>1, BoundAreSound, Zenon
  <2>2. SideFacts(t, refs, s) = FlattenSeq(parts)
    BY DEF SideFacts, ApprovalsOf
  <2>3. parts = [i \in DOMAIN refs |-> parts[i]] /\ \A i \in DOMAIN refs : Sound(t, sp, m, parts[i])
    BY <2>1
  <2> HIDE DEF parts
  <2> QED
    BY <2>2, <2>3, SoundFlat
<1>3. Sound(t, sp, m, ReferredTools(t, sp, refs, s))
  <2> DEFINE parts == [i \in DOMAIN refs |-> ToolsOf(t, sp, refs[i], m, "refs")]
  <2>1. ASSUME NEW i \in DOMAIN refs PROVE Sound(t, sp, m, ToolsOf(t, sp, refs[i], m, "refs"))
    BY <1>1, MethodsAre, BoundAreSound, Zenon
  <2>2. ReferredTools(t, sp, refs, s) = FlattenSeq(parts)
    <3> HIDE DEF s
    <3>1. ReferredTools(t, sp, refs, s) = FlattenSeq([i \in DOMAIN refs |-> ToolsOf(t, sp, refs[i], s[1], "refs")])
      BY DEF ReferredTools, ToolsOf
    <3> QED
      BY <1>0, <3>1
  <2>3. parts = [i \in DOMAIN refs |-> parts[i]] /\ \A i \in DOMAIN refs : Sound(t, sp, m, parts[i])
    BY <2>1
  <2> HIDE DEF parts
  <2> QED
    BY <2>2, <2>3, SoundFlat
<1>4. ASSUME NEW agent, NEW method, agent[1] = "agent", method \in MethodNames \ {"declared"}
      PROVE  /\ Sound(t, sp, m, FlattenSeq([i \in DOMAIN refs |-> BoundTool(t, sp, refs[i], agent, s, method)]))
             /\ Sound(t, sp, m, FlattenSeq([i \in DOMAIN refs |-> BoundTool(t, sp, refs[i], agent, s, method)
                                                               \o BoundServer(t, refs[i], agent, s)]))
  <2> DEFINE p1 == [i \in DOMAIN refs |-> BoundTool(t, sp, refs[i], agent, s, method)]
             p2 == [i \in DOMAIN refs |-> BoundTool(t, sp, refs[i], agent, s, method) \o BoundServer(t, refs[i], agent, s)]
  <2>1. ASSUME NEW i \in DOMAIN refs
        PROVE  /\ Sound(t, sp, m, BoundTool(t, sp, refs[i], agent, s, method))
               /\ Sound(t, sp, m, BoundTool(t, sp, refs[i], agent, s, method) \o BoundServer(t, refs[i], agent, s))
    <3>1. /\ Sound(t, sp, m, BoundTool(t, sp, refs[i], agent, s, method))
          /\ Sound(t, sp, m, BoundServer(t, refs[i], agent, s))
      BY <1>1, <1>4, BoundAreSound, Zenon
    <3> QED
      BY <3>1, SoundCat
  <2>2. /\ p1 = [i \in DOMAIN refs |-> p1[i]] /\ \A i \in DOMAIN refs : Sound(t, sp, m, p1[i])
        /\ p2 = [i \in DOMAIN refs |-> p2[i]] /\ \A i \in DOMAIN refs : Sound(t, sp, m, p2[i])
    BY <2>1
  <2> HIDE DEF p1, p2
  <2>3. Sound(t, sp, m, FlattenSeq(p1)) /\ Sound(t, sp, m, FlattenSeq(p2))
    BY <2>2, SoundFlat
  <2> QED
    BY <2>3 DEF p1, p2
<1>5. ASSUME NEW agent, agent[1] = "agent"
      PROVE  Sound(t, sp, m, FlattenSeq([i \in DOMAIN refs |->
                Listed({Edge("transfer:handoff", agent, BareId(n), "", s) : n \in AgentNamed(t, refs[i])})]))
  <2> DEFINE E1(n) == Edge("transfer:handoff", agent, BareId(n), "", s)
             Part(i) == Listed({E1(n) : n \in AgentNamed(t, refs[i])})
             parts == [i \in DOMAIN refs |-> Part(i)]
  <2>1. ASSUME NEW i \in DOMAIN refs PROVE Sound(t, sp, m, Part(i))
    <3>1. \A n : Settled(t, sp, m, E1(n))
      <4> TAKE n
      <4>1. Joins("transfer:handoff", agent[1], BareId(n)[1])
        BY <1>5 DEF Joins, BareId
      <4> QED
        BY <4>1, OneIsSettled, Zenon
    <3> DEFINE names == AgentNamed(t, refs[i])
               g == [n \in names |-> E1(n)]
    <3>2. IsFiniteSet(names)
      BY NamedAreFinite
    <3> HIDE DEF names, E1
    <3>3. IsFiniteSet({g[n] : n \in DOMAIN g})
      BY <3>2, ImageIsFinite, Zenon
    <3>4. {g[n] : n \in DOMAIN g} = {E1(n) : n \in names}
      OBVIOUS
    <3> HIDE DEF g
    <3>5. Sound(t, sp, m, Listed({E1(n) : n \in names}))
      BY <3>1, <3>3, <3>4, SoundListed, Zenon
    <3> QED
      BY <3>5 DEF names
  <2> HIDE DEF Part
  <2>3. parts = [i \in DOMAIN refs |-> parts[i]] /\ \A i \in DOMAIN refs : Sound(t, sp, m, parts[i])
    BY <2>1
  <2> HIDE DEF parts
  <2>4. Sound(t, sp, m, FlattenSeq(parts))
    BY <2>3, SoundFlat
  <2> QED
    BY <2>4, Zenon DEF parts, Part, E1
<1> QED
  BY <1>2, <1>3, <1>4, <1>5, Zenon DEF SoundOver

\* A model with its binding.
LEMMA BindingIsSound ==
    ASSUME NEW t, NEW sp, NEW m, NEW model, Settled(t, sp, m, model), model.id[1] = "model",
           NEW agent, agent[1] = "agent", NEW ev, ev[1][1] = m, Near(t, m, ev)
    PROVE  Sound(t, sp, m, WithBinding(model, agent, ev))
<1> DEFINE edge == [Edge("bind_model", agent, model.id, "", ev[1]) EXCEPT !.ev = ev]
<1>1. edge.k = "edge" /\ edge.src = m /\ edge.ev = ev /\ edge.type = "bind_model"
      /\ edge.from = agent /\ edge.to = model.id
  BY DEF Edge
<1>2. WithBinding(model, agent, ev) = <<model, edge>>
  BY DEF WithBinding
<1> HIDE DEF edge
<1>3. Kinded(edge)
  BY <1>1 DEF Kinded, Joins
<1>4. Settled(t, sp, m, edge)
  BY <1>1, <1>3 DEF Settled
<1> QED
  BY <1>2, <1>4, SoundShort, Zenon

\* So is the model that an agent is bound to.
LEMMA BoundModelIsSound ==
    ASSUME NEW t, GoodTree(t), NEW sp, NEW m \in DOMAIN t.text, NEW i, NEW e, NEW style,
           NEW agent, agent[1] = "agent"
    PROVE  Sound(t, sp, m, BoundModel(t, e, agent, style, <<m, i>>))
<1>0. PICK s : s = <<m, i>>
  BY Zenon
<1>1. s = <<m, i>> /\ s[1] = m
  BY <1>0
<1>2. PICK ev : ev = <<s>> /\ Near(t, m, ev) /\ ev[1][1] = m
  <2>1. Near(t, m, <<<<m, i>>>>)
    BY NearHere
  <2>2. Near(t, m, <<s>>) /\ <<s>>[1] = s
    BY <1>1, <2>1
  <2> QED
    BY <1>1, <2>2
<1>3. PICK model : model = ModelFact(t, e, style, s) /\ Settled(t, sp, m, model) /\ model.id[1] = "model"
  <2>1. Settled(t, sp, m, ModelFact(t, e, style, <<m, i>>))
    BY OneIsSettled, Zenon
  <2> QED
    BY <1>1, <2>1, ModelFactIsPlain
<1>4. Sound(t, sp, m, WithBinding(model, agent, ev))
  BY <1>2, <1>3, BindingIsSound
<1>5. BoundModel(t, e, agent, style, s) = WithBinding(model, agent, ev)
  BY <1>2, <1>3 DEF BoundModel
<1> QED
  BY <1>1, <1>4, <1>5

\* An agent alone is such a list.
LEMMA WithAgentOne ==
    ASSUME NEW t, NEW sp, NEW m, NEW a
    PROVE  WithAgent(t, sp, m, a, <<a>>)
BY ShortLists DEF WithAgent

\* Sound facts behind it leave it one.
LEMMA WithAgentCat ==
    ASSUME NEW t, NEW sp, NEW m, NEW a, NEW l, WithAgent(t, sp, m, a, l), NEW k, Sound(t, sp, m, k)
    PROVE  WithAgent(t, sp, m, a, l \o k)
<1>1. IsList(l \o k) /\ ToSet(l \o k) = ToSet(l) \cup ToSet(k)
  BY Concatenated DEF Sound, WithAgent
<1> QED
  BY <1>1 DEF WithAgent, Sound

\* What a construct emits: if it makes an agent, this with settled facts, else settled facts only,
\* whatever the id.
LEMMA EmitsAre ==
    ASSUME NEW t, GoodTree(t), NEW sp, NEW m \in DOMAIN t.text, NEW i \in DOMAIN t.text[m].body,
           NEW id, id[1] = "agent"
    PROVE  /\ Makes(t, <<m, i>>) => WithAgent(t, sp, m, AgentOf(t, <<m, i>>, id), Emits(t, sp, <<m, i>>, id))
           /\ ~Makes(t, <<m, i>>) => /\ Sound(t, sp, m, Emits(t, sp, <<m, i>>, id))
                                     /\ \A other : Emits(t, sp, <<m, i>>, other) = Emits(t, sp, <<m, i>>, id)
<1> DEFINE s == <<m, i>>
<1>1. PICK x : x = At(t, s) /\ Construct(m, t.text[m], x)
  BY DEF GoodTree, At
<1>2. ASSUME NEW refs, IsList(refs), Follows(m, t.text[m], ToSet(refs))
      PROVE  SoundOver(t, sp, m, s, refs)
  BY <1>2, ListsAreSound
<1>3. s[1] = m
  OBVIOUS
<1>4. \A e, style : Sound(t, sp, m, BoundModel(t, e, id, style, s))
  BY BoundModelIsSound
<1>5. /\ Sound(t, sp, m, <<>>) /\ \A y : Sound(t, sp, m, ApprovalFacts(y, s))
      /\ \A label : Sound(t, sp, m, <<ServerFact(label, s, m)>>)
      /\ Sound(t, sp, m, <<[k |-> "state", id |-> <<"state">> \o s, method |-> "state", ev |-> <<s>>, src |-> m]>>)
  BY OneIsSettled, SoundShort, Zenon
<1> HIDE DEF s
<1>6. ASSUME x.c = "agent"
      PROVE  /\ Makes(t, s) => WithAgent(t, sp, m, AgentOf(t, s, id), Emits(t, sp, s, id))
             /\ ~Makes(t, s) => Sound(t, sp, m, Emits(t, sp, s, id)) /\ \A o : Emits(t, sp, s, o) = Emits(t, sp, s, id)
  <2>1. CASE ~Makes(t, s)
    <3>1. \A o : Emits(t, sp, s, o) = <<>>
      BY <1>1, <1>6, <2>1 DEF Emits
    <3> QED
      BY <1>5, <2>1, <3>1
  <2>2. CASE Makes(t, s)
    <3>1. Emits(t, sp, s, id) = AgentAdds(t, sp, s, id)
      BY <1>1, <1>6, <2>2 DEF Emits
    <3> DEFINE one == <<AgentFact(id, x.name, "ctor", <<s>>, s[1])>>
               model == IF x.model = <<>> THEN <<>> ELSE BoundModel(t, x.model[1], id, "framework", s)
               side == SideFacts(t, x.tools, s)
               tools == FlattenSeq([j \in DOMAIN x.tools |->
                           BoundTool(t, sp, x.tools[j], id, s, "ctor") \o BoundServer(t, x.tools[j], id, s)])
               hand == FlattenSeq([j \in DOMAIN x.handoffs |->
                           Listed({Edge("transfer:handoff", id, BareId(n), "", s) : n \in AgentNamed(t, x.handoffs[j])})])
    <3>2. AgentAdds(t, sp, s, id) = one \o model \o side \o tools \o hand
      BY <1>1, Zenon DEF AgentAdds
    <3>3. one = <<AgentOf(t, s, id)>>
      BY <1>1, <1>6 DEF AgentOf
    <3>4. Sound(t, sp, m, model)
      BY <1>4, <1>5
    <3>5. SoundOver(t, sp, m, s, x.tools)
      BY <1>1, <1>2, <1>6 DEF Construct
    <3>6. SoundOver(t, sp, m, s, x.handoffs)
      BY <1>1, <1>2, <1>6 DEF Construct
    <3>7. "ctor" \in MethodNames \ {"declared"}
      BY MethodsAre
    <3>8. Sound(t, sp, m, side)
      BY <3>5, Zenon DEF SoundOver
    <3>9. Sound(t, sp, m, tools)
      BY <3>5, <3>7, Zenon DEF SoundOver
    <3>10. Sound(t, sp, m, hand)
      BY <3>6, Zenon DEF SoundOver
    <3> HIDE DEF one, model, side, tools, hand
    <3>11. PICK a : a = AgentOf(t, s, id)
      OBVIOUS
    <3>12. WithAgent(t, sp, m, a, one)
      BY <3>3, <3>11, WithAgentOne
    <3>13. WithAgent(t, sp, m, a, one \o model \o side \o tools \o hand)
      BY <3>4, <3>8, <3>9, <3>10, <3>12, WithAgentCat
    <3> QED
      BY <2>2, <3>1, <3>2, <3>11, <3>13
  <2> QED
    BY <2>1, <2>2
<1>7. ASSUME x.c = "generic"
      PROVE  /\ Makes(t, s) => WithAgent(t, sp, m, AgentOf(t, s, id), Emits(t, sp, s, id))
             /\ ~Makes(t, s) => Sound(t, sp, m, Emits(t, sp, s, id)) /\ \A o : Emits(t, sp, s, o) = Emits(t, sp, s, id)
  <2>1. CASE ~Makes(t, s)
    <3>1. \A o : Emits(t, sp, s, o) = <<>>
      BY <1>1, <1>7, <2>1 DEF Emits
    <3> QED
      BY <1>5, <2>1, <3>1
  <2>2. CASE Makes(t, s)
    <3>1. Emits(t, sp, s, id) = GenericAdds(t, sp, s, id)
      BY <1>1, <1>7, <2>2 DEF Emits
    <3> DEFINE one == <<AgentFact(id, x.name, "shape", <<s>>, s[1])>>
               model == BoundModel(t, AgentModel(t, x)[1].e, id, "generic", s)
               side == SideFacts(t, x.tools, s)
               tools == FlattenSeq([j \in DOMAIN x.tools |-> BoundTool(t, sp, x.tools[j], id, s, "shape")])
    <3>2. GenericAdds(t, sp, s, id) = one \o model \o side \o tools
      BY <1>1, Zenon DEF GenericAdds
    <3>3. one = <<AgentOf(t, s, id)>>
      BY <1>1, <1>7 DEF AgentOf
    <3>4. Sound(t, sp, m, model)
      BY <1>4
    <3>5. SoundOver(t, sp, m, s, x.tools)
      BY <1>1, <1>2, <1>7, Zenon DEF Construct
    <3>7. "shape" \in MethodNames \ {"declared"}
      BY MethodsAre
    <3>8. Sound(t, sp, m, side)
      BY <3>5, Zenon DEF SoundOver
    <3>9. Sound(t, sp, m, tools)
      BY <3>5, <3>7, Zenon DEF SoundOver
    <3> HIDE DEF one, model, side, tools
    <3>11. PICK a : a = AgentOf(t, s, id)
      OBVIOUS
    <3>12. WithAgent(t, sp, m, a, one)
      BY <3>3, <3>11, WithAgentOne
    <3>13. WithAgent(t, sp, m, a, one \o model \o side \o tools)
      BY <3>4, <3>8, <3>9, <3>12, WithAgentCat
    <3> QED
      BY <2>2, <3>1, <3>2, <3>11, <3>13
  <2> QED
    BY <2>1, <2>2
<1>8. ASSUME x.c \notin {"agent", "generic"}
      PROVE  ~Makes(t, s) /\ Sound(t, sp, m, Emits(t, sp, s, id)) /\ \A o : Emits(t, sp, s, o) = Emits(t, sp, s, id)
  <2>0. ~Makes(t, s)
    BY <1>1, <1>8, Zenon DEF Makes
  <2>1. CASE x.c = "task"
    <3>1. \A o : Emits(t, sp, s, o) = IF AgentNamed(t, x.agent) = {} THEN <<>> ELSE TaskAdds(t, sp, s)
      BY <1>1, <2>1 DEF Emits
    <3>2. PICK bare : bare = BareId(The(AgentNamed(t, x.agent))) /\ bare[1] = "agent"
      <4>1. \A n : BareId(n)[1] = "agent"
        BY DEF BareId
      <4> QED
        BY <4>1
    <3>3. TaskAdds(t, sp, s) = FlattenSeq([j \in DOMAIN x.tools |-> BoundTool(t, sp, x.tools[j], bare, s, "task")])
      BY <1>1, <3>2, Zenon DEF TaskAdds
    <3>4. SoundOver(t, sp, m, s, x.tools)
      BY <1>1, <1>2, <2>1 DEF Construct
    <3>5. "task" \in MethodNames \ {"declared"}
      BY MethodsAre
    <3>6. Sound(t, sp, m, FlattenSeq([j \in DOMAIN x.tools |-> BoundTool(t, sp, x.tools[j], bare, s, "task")]))
      BY <3>2, <3>4, <3>5, Zenon DEF SoundOver
    <3> QED
      BY <1>5, <2>0, <3>1, <3>3, <3>6, Zenon
  <2>2. CASE x.c = "tools"
    <3>1. \A o : Emits(t, sp, s, o) = ReferredTools(t, sp, x.tools, s)
      BY <1>1, <2>2 DEF Emits
    <3>2. SoundOver(t, sp, m, s, x.tools)
      BY <1>1, <1>2, <2>2 DEF Construct
    <3>3. Sound(t, sp, m, ReferredTools(t, sp, x.tools, s))
      BY <3>2, Zenon DEF SoundOver
    <3> QED
      BY <2>0, <3>1, <3>3
  <2>3. CASE x.c = "state"
    <3>1. \A o : Emits(t, sp, s, o) = StateAdds(s)
      BY <1>1, <2>3 DEF Emits
    <3>2. Sound(t, sp, m, StateAdds(s))
      BY <1>3, <1>5 DEF StateAdds
    <3> QED
      BY <2>0, <3>1, <3>2
  <2>4. CASE x.c = "server"
    <3> DEFINE a == <<ServerFact(x.label, s, s[1])>>
               b == ApprovalFacts(x, s)
    <3>1. \A o : Emits(t, sp, s, o) = a \o b
      BY <1>1, <2>4 DEF Emits
    <3>2. Sound(t, sp, m, a) /\ Sound(t, sp, m, b)
      BY <1>3, <1>5
    <3> HIDE DEF a, b
    <3>3. Sound(t, sp, m, a \o b)
      BY <3>2, SoundCat
    <3> QED
      BY <2>0, <3>1, <3>3, Zenon
  <2>5. CASE x.c \notin {"task", "tools", "state", "server"}
    <3>1. \A o : Emits(t, sp, s, o) = <<>>
      BY <1>1, <1>8, <2>5 DEF Emits
    <3> QED
      BY <1>5, <2>0, <3>1
  <2> QED
    BY <2>1, <2>2, <2>3, <2>4, <2>5
<1> QED
  BY <1>6, <1>7, <1>8 DEF s

(***************************************************************************)
(* What a module contributes to the facts of a scan, without the flags of  *)
(* entrypoints: sp are the sinks that the scan knows.                      *)
(***************************************************************************)

\* The constructs of a module are numbered.
LEMMA BodyIsNumbered ==
    ASSUME NEW t, GoodTree(t), NEW m \in DOMAIN t.text
    PROVE  DOMAIN t.text[m].body \subseteq Nat
<1>1. PICK b : b = t.text[m].body
  OBVIOUS
<1>2. IsList(b)
  BY <1>1 DEF GoodTree
<1>3. Len(b) \in Nat /\ DOMAIN b = 1..Len(b)
  BY <1>2, ListIsFunction
<1> QED
  BY <1>1, <1>3

\* The first of some constructs is one of them, and none comes before it.
LEMMA EarliestIs ==
    ASSUME NEW I \in SUBSET Nat, I # {}
    PROVE  Earliest(I) \in I /\ \A j \in I : Earliest(I) <= j
<1>1. \E i \in I : \A j \in I : i <= j
  BY LeastMember
<1> QED
  BY <1>1, Zenon DEF Earliest

(***************************************************************************)
(* Modules that cannot tell two trees apart contribute the same            *)
(***************************************************************************)

\* Two trees that agree on a view agree on each construct of its modules.
LEMMA ConstructsAgree ==
    ASSUME NEW t1, GoodTree(t1), NEW sp1, NEW t2, NEW sp2, NEW R, SameView(t1, sp1, t2, sp2, R),
           NEW m \in R, LocalNodes(t1, m), SameSinks(t1, sp1, sp2, m), NEW i \in DOMAIN t1.text[m].body
    PROVE  SameAt(t1, sp1, t2, sp2, <<m, i>>)
<1>1. PICK s : s = <<m, i>>
  BY Zenon
<1>2. /\ At(t1, s) = At(t2, s) /\ (Makes(t1, s) <=> Makes(t2, s))
      /\ \A id : Emits(t1, sp1, s, id) = Emits(t2, sp2, s, id)
      /\ NewRoutes(t1, s) = NewRoutes(t2, s) /\ NewCrews(t1, s) = NewCrews(t2, s)
  BY <1>1, SameAdds
<1>3. PICK cand : cand = CandAt(t1, s) /\ cand = CandAt(t2, s)
  BY <1>2, Zenon DEF CandAt
<1>4. ASSUME At(t1, s).c = "node"
      PROVE  /\ Anchors(t1, sp1, cand) = Anchors(t2, sp2, cand)
             /\ \A id : Anchors(t1, sp1, cand) # {} => PromotionAdds(t1, sp1, cand, id) = PromotionAdds(t2, sp2, cand, id)
  <2>1. cand.fn = At(t1, s).fn
    BY <1>3 DEF CandAt
  <2>2. cand.fn.mod = m
    BY <1>1, <1>4, <2>1 DEF LocalNodes, At
  <2>3. \A j \in DOMAIN t1.text[cand.fn.mod].body : <<cand.fn.mod, j>> \in sp1 <=> <<cand.fn.mod, j>> \in sp2
    BY <2>2 DEF SameSinks
  <2> QED
    BY <2>2, <2>3, SamePromotion
<1>5. AnchorsAt(t1, sp1, s) = AnchorsAt(t2, sp2, s)
  BY <1>2, <1>3, <1>4 DEF AnchorsAt
<1>6. \A id : AnchorsAt(t1, sp1, s) # {} => PromotionAdds(t1, sp1, cand, id) = PromotionAdds(t2, sp2, cand, id)
  BY <1>3, <1>4 DEF AnchorsAt
<1> QED
  BY <1>1, <1>2, <1>3, <1>5, <1>6, Zenon DEF SameAt

\* A module contributes the same facts to two trees that agree on what it sees.
LEMMA SameModuleFacts ==
    ASSUME NEW t1, GoodTree(t1), NEW sp1, sp1 \subseteq SinkSites(t1, DOMAIN t1.text),
           NEW t2, NEW sp2, NEW R, SameView(t1, sp1, t2, sp2, R),
           NEW m \in R, LocalNodes(t1, m), SameSinks(t1, sp1, sp2, m)
    PROVE  ModuleFacts(t1, sp1, m) = ModuleFacts(t2, sp2, m)
<1>1. PICK D : D = DOMAIN t1.text[m].body /\ D = DOMAIN t2.text[m].body
  BY DEF SameView
<1>2. PICK S : S = SitesOf(t1, m) /\ S = SitesOf(t2, m)
  BY <1>1, Zenon DEF SitesOf
<1>3. \A i \in D : SameAt(t1, sp1, t2, sp2, <<m, i>>)
  BY <1>1, ConstructsAgree, Zenon
<1>4. ASSUME NEW s \in S PROVE SameAt(t1, sp1, t2, sp2, s) /\ s[1] = m
  <2>1. PICK i \in D : s = <<m, i>>
    BY <1>1, <1>2, Zenon DEF SitesOf
  <2>2. SameAt(t1, sp1, t2, sp2, s)
    BY <1>3, <2>1
  <2>3. s[1] = m
    BY <2>1
  <2> QED
    BY <2>2, <2>3
<1>5. \A k : MakersOf(t1, m, k) = MakersOf(t2, m, k) /\ PromotersOf(t1, sp1, m, k) = PromotersOf(t2, sp2, m, k)
  <2> TAKE k
  <2>1. \A i \in D : /\ (Makes(t1, <<m, i>>) /\ Slug[At(t1, <<m, i>>).name] = k)
                         <=> (Makes(t2, <<m, i>>) /\ Slug[At(t2, <<m, i>>).name] = k)
                     /\ (AnchorsAt(t1, sp1, <<m, i>>) # {} /\ Slug[NodeName(At(t1, <<m, i>>))] = k)
                         <=> (AnchorsAt(t2, sp2, <<m, i>>) # {} /\ Slug[NodeName(At(t2, <<m, i>>))] = k)
    BY <1>3 DEF SameAt
  <2> QED
    BY <1>1, <2>1 DEF MakersOf, PromotersOf
<1>6. \A k : /\ Owner(t1, sp1, m, k) = Owner(t2, sp2, m, k)
             /\ (Claimed(t1, sp1, m, k) <=> Claimed(t2, sp2, m, k))
  <2> TAKE k
  <2>1. PICK M, P : /\ M = MakersOf(t1, m, k) /\ M = MakersOf(t2, m, k)
                    /\ P = PromotersOf(t1, sp1, m, k) /\ P = PromotersOf(t2, sp2, m, k)
    BY <1>5
  <2>2. P # {} => Earliest(P) \in D
    <3>1. D \subseteq Nat
      BY <1>1, BodyIsNumbered DEF SameView
    <3>2. P \subseteq D
      BY <1>1, <2>1, Zenon DEF PromotersOf
    <3>3. P \in SUBSET Nat
      BY <3>1, <3>2
    <3> QED
      BY <3>2, <3>3, EarliestIs, Zenon
  <2>3. P # {} => SinkOf(t1, sp1, <<m, Earliest(P)>>) = SinkOf(t2, sp2, <<m, Earliest(P)>>)
    BY <1>3, <2>2 DEF SameAt, SinkOf
  <2> QED
    BY <2>1, <2>3 DEF Owner, Claimed
<1>7. \A name, site : IdOf(t1, sp1, m, name, site) = IdOf(t2, sp2, m, name, site)
  BY <1>6 DEF IdOf
<1>8. ASSUME NEW s \in S PROVE AtFacts(t1, sp1, s) = AtFacts(t2, sp2, s)
  <2>1. SameAt(t1, sp1, t2, sp2, s) /\ s[1] = m
    BY <1>4
  <2>2. PICK con : At(t1, s) = con /\ At(t2, s) = con
    BY <2>1 DEF SameAt
  <2>3. RuleFacts(t1, sp1, s) = RuleFacts(t2, sp2, s)
    BY <1>7, <2>1, <2>2 DEF RuleFacts, SameAt
  <2>4. PromotionFacts(t1, sp1, s) = PromotionFacts(t2, sp2, s)
    <3>1. PICK A : A = AnchorsAt(t1, sp1, s) /\ A = AnchorsAt(t2, sp2, s)
      BY <2>1 DEF SameAt
    <3>2. SinkOf(t1, sp1, s) = SinkOf(t2, sp2, s)
      BY <3>1 DEF SinkOf
    <3>3. PICK id : /\ id = IdOf(t1, sp1, s[1], NodeName(At(t1, s)), SinkOf(t1, sp1, s))
                    /\ id = IdOf(t2, sp2, s[1], NodeName(At(t2, s)), SinkOf(t2, sp2, s))
      BY <1>7, <2>1, <2>2, <3>2
    <3>4. A # {} => PromotionAdds(t1, sp1, CandAt(t1, s), id) = PromotionAdds(t2, sp2, CandAt(t2, s), id)
      BY <2>1, <3>1 DEF SameAt
    <3> QED
      BY <3>1, <3>3, <3>4 DEF PromotionFacts
  <2>5. RouteFacts(t1, sp1, s) = RouteFacts(t2, sp2, s)
    <3>1. PICK r : r = NewRoutes(t1, s) /\ r = NewRoutes(t2, s)
      BY <2>1 DEF SameAt
    <3>2. {x \in ToSet(r) : Claimed(t1, sp1, s[1], Slug[x.from]) /\ Claimed(t1, sp1, s[1], Slug[x.to])}
          = {x \in ToSet(r) : Claimed(t2, sp2, s[1], Slug[x.from]) /\ Claimed(t2, sp2, s[1], Slug[x.to])}
      BY <1>6, <2>1
    <3> QED
      BY <3>1, <3>2, Zenon DEF RouteFacts
  <2>6. CrewFacts(t1, s) = CrewFacts(t2, s)
    <3>1. PICK r : r = NewCrews(t1, s) /\ r = NewCrews(t2, s)
      BY <2>1 DEF SameAt
    <3> QED
      BY <3>1, Zenon DEF CrewFacts
  <2> QED
    BY <2>3, <2>4, <2>5, <2>6 DEF AtFacts
<1>9. Spent(t1, sp1, m) = Spent(t2, sp2, m)
  <2>1. \A s \in S : AnchorsAt(t1, sp1, s) = AnchorsAt(t2, sp2, s)
    BY <1>4 DEF SameAt
  <2> QED
    BY <1>2, <2>1 DEF Spent
<1>10. UsagesOf(t1, sp1, m) = UsagesOf(t2, sp2, m)
  <2>1. PICK U : U = (SitesOf(t1, m) \cap sp1) \ Spent(t1, sp1, m) /\ U = (SitesOf(t2, m) \cap sp2) \ Spent(t2, sp2, m)
    <3>1. S \cap sp1 = S \cap sp2
      BY <1>2 DEF SitesOf, SameSinks
    <3> QED
      BY <1>2, <1>9, <3>1, Zenon
  <2>2. ASSUME NEW s \in U PROVE UsageAt(t1, s) = UsageAt(t2, s)
    <3>1. s \in S /\ s \in sp1 /\ s \in SinkSites(t1, DOMAIN t1.text)
      BY <1>2, <2>1, Zenon
    <3>2. PICK i \in D : s = <<m, i>>
      BY <1>1, <1>2, <3>1, Zenon DEF SitesOf
    <3>3. PICK x : At(t1, s) = x /\ At(t2, s) = x /\ x = t1.text[m].body[i]
      BY <1>4, <3>1, <3>2 DEF SameAt, At
    <3>4. x.c = "def"
      <4>1. PICK n, j : s = <<n, j>> /\ t1.text[n].body[j].c = "def"
        BY <3>1 DEF SinkSites
      <4>2. n = m /\ j = i
        BY <3>2, <4>1
      <4> QED
        BY <3>3, <4>1, <4>2
    <3>5. PICK refs : refs = RefsAmong({x.model}) /\ Follows(m, t1.text[m], refs)
      <4>1. Construct(m, t1.text[m], x)
        BY <1>1, <3>3 DEF GoodTree, SameView
      <4> QED
        BY <3>4, <4>1 DEF Construct
    <3>6. x.model.n = "ref" => Viewed(t1, t2, R, x.model)
      <4>1. x.model.n = "ref" => x.model \in refs
        BY <3>5 DEF RefsAmong
      <4> QED
        BY <3>5, <4>1, RefsAreViewed
    <3>7. \A style, site : ModelFact(t1, x.model, style, site) = ModelFact(t2, x.model, style, site)
      BY <3>6, SameValue
    <3> QED
      BY <3>3, <3>7 DEF UsageAt
  <2> QED
    BY <2>1, <2>2 DEF UsagesOf
<1>11. DeclaredFacts(t1, sp1, m) = DeclaredFacts(t2, sp2, m)
  BY SameDeclared
<1> QED
  BY <1>2, <1>8, <1>10, <1>11 DEF ModuleFacts

(***************************************************************************)
(* What a module contributes is settled, and its agents are those of its   *)
(* constructs                                                              *)
(***************************************************************************)

\* The id of an agent is that of its name, or has its origin behind it.
LEMMA IdIs ==
    ASSUME NEW t, NEW sp, NEW m, NEW name, NEW site, Pair(site)
    PROVE  LET id == IdOf(t, sp, m, name, site) IN
           /\ id[1] = "agent" /\ id[2] = Slug[name]
           /\ id = BareId(name) \/ id = BareId(name) \o site
           /\ id = BareId(name) <=> Owner(t, sp, m, Slug[name]) = site
<1>1. PICK a, b : site = <<a, b>>
  BY DEF Pair
<1>2. ASSUME NEW s, NEW x, NEW y
      PROVE  /\ (<<"agent", s>> \o <<x, y>>)[1] = "agent" /\ (<<"agent", s>> \o <<x, y>>)[2] = s
             /\ <<"agent", s>>[1] = "agent" /\ <<"agent", s>>[2] = s
             /\ <<"agent", s>> \o <<x, y>> # <<"agent", s>>
  OBVIOUS
<1>3. /\ (BareId(name) \o site)[1] = "agent" /\ (BareId(name) \o site)[2] = Slug[name]
      /\ BareId(name)[1] = "agent" /\ BareId(name)[2] = Slug[name] /\ BareId(name) \o site # BareId(name)
  BY <1>1, <1>2 DEF BareId
<1> QED
  BY <1>3, Zenon DEF IdOf

\* A candidate, by its parts.
LEMMA CandIs ==
    ASSUME NEW t, NEW s
    PROVE  CandAt(t, s).name = NodeName(At(t, s)) /\ CandAt(t, s).fn = At(t, s).fn /\ CandAt(t, s).site = s
<1>1. PICK name, fn : name = NodeName(At(t, s)) /\ fn = At(t, s).fn
  OBVIOUS
<1>2. CandAt(t, s) = [name |-> name, fn |-> fn, site |-> s]
  BY <1>1 DEF CandAt
<1> QED
  BY <1>1, <1>2

\* The rules of a construct.
LEMMA RuleFactsAre ==
    ASSUME NEW t, GoodTree(t), NEW sp, NEW m \in DOMAIN t.text, NEW s \in SitesOf(t, m)
    PROVE  /\ s[1] = m /\ Pair(s) /\ s[2] \in DOMAIN t.text[m].body
           /\ \A id : id[1] = "agent" => IsList(Emits(t, sp, s, id))
           /\ \A g \in RuleFacts(t, sp, s) : Settled(t, sp, m, g) \/ (Makes(t, s) /\ g = MadeAgent(t, sp, s))
           /\ Makes(t, s) => MadeAgent(t, sp, s) \in RuleFacts(t, sp, s)
           /\ ~Makes(t, s) => \A id : id[1] = "agent" => ToSet(Emits(t, sp, s, id)) = RuleFacts(t, sp, s)
<1>1. PICK i \in DOMAIN t.text[m].body : s = <<m, i>>
  BY DEF SitesOf
<1>2. s[1] = m /\ Pair(s) /\ s[2] \in DOMAIN t.text[m].body
  BY <1>1 DEF Pair
<1>3. ASSUME NEW id, id[1] = "agent"
      PROVE  /\ Makes(t, s) => WithAgent(t, sp, m, AgentOf(t, s, id), Emits(t, sp, s, id))
             /\ ~Makes(t, s) => /\ Sound(t, sp, m, Emits(t, sp, s, id))
                                /\ \A other : Emits(t, sp, s, other) = Emits(t, sp, s, id)
  BY <1>1, <1>3, EmitsAre
<1>4. ASSUME NEW id, id[1] = "agent" PROVE IsList(Emits(t, sp, s, id))
  BY <1>3, <1>4 DEF WithAgent, Sound
<1>5. PICK id : id = IdOf(t, sp, s[1], At(t, s).name, s) /\ id[1] = "agent"
  BY <1>2, IdIs
<1>6. RuleFacts(t, sp, s) = ToSet(Emits(t, sp, s, id)) /\ MadeAgent(t, sp, s) = AgentOf(t, s, id)
  BY <1>5 DEF RuleFacts, MadeAgent
<1>7. \A g \in RuleFacts(t, sp, s) : Settled(t, sp, m, g) \/ (Makes(t, s) /\ g = MadeAgent(t, sp, s))
  BY <1>3, <1>5, <1>6 DEF WithAgent, Sound
<1>8. Makes(t, s) => MadeAgent(t, sp, s) \in RuleFacts(t, sp, s)
  BY <1>3, <1>5, <1>6 DEF WithAgent
<1>9. ASSUME ~Makes(t, s), NEW o, o[1] = "agent" PROVE ToSet(Emits(t, sp, s, o)) = RuleFacts(t, sp, s)
  BY <1>3, <1>5, <1>6, <1>9
<1> QED
  BY <1>2, <1>4, <1>7, <1>8, <1>9

\* The model call behind a node.
LEMMA SinkIs ==
    ASSUME NEW t, GoodTree(t), NEW sp, NEW m \in DOMAIN t.text, LocalNodes(t, m), NEW s \in SitesOf(t, m)
    PROVE  /\ \A a \in AnchorsAt(t, sp, s) : a \in sp /\ a \in SitesOf(t, m) /\ a \in Lookup(t, At(t, s).fn, "def")
           /\ AnchorsAt(t, sp, s) # {} => At(t, s).c = "node" /\ SinkOf(t, sp, s) \in AnchorsAt(t, sp, s)
<1>1. ASSUME NEW a \in AnchorsAt(t, sp, s)
      PROVE  a \in sp /\ a \in SitesOf(t, m) /\ a \in Lookup(t, At(t, s).fn, "def") /\ At(t, s).c = "node"
  <2>1. At(t, s).c = "node" /\ a \in Anchors(t, sp, CandAt(t, s))
    BY DEF AnchorsAt
  <2>2. CandAt(t, s).fn = At(t, s).fn
    BY DEF CandAt
  <2>3. a \in sp /\ a \in Lookup(t, At(t, s).fn, "def")
    BY <2>1, <2>2 DEF Anchors
  <2>4. At(t, s).fn.mod = m
    <3>1. PICK i \in DOMAIN t.text[m].body : s = <<m, i>>
      BY DEF SitesOf
    <3> QED
      BY <2>1, <3>1 DEF LocalNodes, At
  <2>5. a[1] = m /\ a[2] \in DOMAIN t.text[m].body /\ Pair(a)
    BY <2>3, <2>4, LookupIs
  <2>6. a \in SitesOf(t, m)
    BY <2>5 DEF SitesOf, Pair
  <2> QED
    BY <2>1, <2>3, <2>6
<1>2. AnchorsAt(t, sp, s) # {} => SinkOf(t, sp, s) \in AnchorsAt(t, sp, s)
  BY DEF SinkOf, The
<1> QED
  BY <1>1, <1>2

\* The promotion of a node.
LEMMA PromotionFactsAre ==
    ASSUME NEW t, GoodTree(t), NEW sp, NEW m \in DOMAIN t.text, LocalNodes(t, m), NEW s \in SitesOf(t, m),
           AnchorsAt(t, sp, s) # {}
    PROVE  /\ \A id : id[1] = "agent" => IsList(PromotionAdds(t, sp, CandAt(t, s), id))
           /\ \A g \in PromotionFacts(t, sp, s) : Settled(t, sp, m, g) \/ g = PromotedAgent(t, sp, s)
           /\ PromotedAgent(t, sp, s) \in PromotionFacts(t, sp, s)
<1>1. PICK sink : sink = SinkOf(t, sp, s) /\ sink \in SitesOf(t, m) /\ At(t, s).c = "node"
  BY SinkIs
<1>2. PICK j \in DOMAIN t.text[m].body : sink = <<m, j>>
  BY <1>1 DEF SitesOf
<1>3. PICK i \in DOMAIN t.text[m].body : s = <<m, i>>
  BY DEF SitesOf
<1>4. s[1] = m /\ sink[1] = m /\ Pair(sink)
  BY <1>2, <1>3 DEF Pair
<1>5. PICK ev : ev = <<s, sink>> /\ ev[1][1] = m /\ Near(t, m, ev)
  <2>1. ToSet(<<s, sink>>) = {s, sink} /\ <<s, sink>>[1] = s
    BY ShortLists
  <2>2. Near(t, m, <<s, sink>>)
    BY <1>4, <2>1 DEF Near
  <2> QED
    BY <1>4, <2>1, <2>2
<1>6. PICK model : model = ModelFact(t, At(t, sink).model, "sink", sink) /\ Settled(t, sp, m, model) /\ model.id[1] = "model"
  <2>1. Settled(t, sp, m, ModelFact(t, At(t, sink).model, "sink", sink))
    BY <1>2, OneIsSettled, Zenon
  <2> QED
    BY <2>1, ModelFactIsPlain
<1>7. PICK cand : cand = CandAt(t, s) /\ cand.name = NodeName(At(t, s)) /\ cand.site = s
  BY CandIs
<1>8. ASSUME NEW id, id[1] = "agent"
      PROVE  WithAgent(t, sp, m, AgentFact(id, NodeName(At(t, s)), "promotion", ev, m), PromotionAdds(t, sp, cand, id))
  <2>1. The(Anchors(t, sp, cand)) = sink
    BY <1>1, <1>7 DEF SinkOf, AnchorsAt
  <2>2. PICK a : a = AgentFact(id, NodeName(At(t, s)), "promotion", ev, m)
    OBVIOUS
  <2>3. PromotionAdds(t, sp, cand, id) = <<a>> \o WithBinding(model, id, ev)
    BY <1>4, <1>5, <1>6, <1>7, <2>1, <2>2 DEF PromotionAdds
  <2>4. Sound(t, sp, m, WithBinding(model, id, ev))
    BY <1>5, <1>6, <1>8, BindingIsSound
  <2>5. WithAgent(t, sp, m, a, <<a>> \o WithBinding(model, id, ev))
    BY <2>4, WithAgentOne, WithAgentCat
  <2> QED
    BY <2>2, <2>3, <2>5
<1>9. PICK id : id = IdOf(t, sp, s[1], NodeName(At(t, s)), sink) /\ id[1] = "agent"
  BY <1>4, IdIs
<1>10. /\ PromotionFacts(t, sp, s) = ToSet(PromotionAdds(t, sp, cand, id))
       /\ PromotedAgent(t, sp, s) = AgentFact(id, NodeName(At(t, s)), "promotion", ev, m)
  BY <1>1, <1>4, <1>5, <1>7, <1>9 DEF PromotionFacts, PromotedAgent
<1>11. \A o : o[1] = "agent" => IsList(PromotionAdds(t, sp, CandAt(t, s), o))
  BY <1>7, <1>8 DEF WithAgent
<1>12. WithAgent(t, sp, m, PromotedAgent(t, sp, s), PromotionAdds(t, sp, cand, id))
  BY <1>8, <1>9, <1>10
<1> QED
  BY <1>10, <1>11, <1>12 DEF WithAgent

\* The routes and the links of crews.
LEMMA TransferFactsAre ==
    ASSUME NEW t, GoodTree(t), NEW sp, NEW m \in DOMAIN t.text, NEW s \in SitesOf(t, m)
    PROVE  /\ \A g \in RouteFacts(t, sp, s) \cup CrewFacts(t, s) : Settled(t, sp, m, g)
           /\ \A r \in ToSet(NewRoutes(t, s)) : r.site = s
           /\ \A c \in ToSet(NewCrews(t, s)) : c.site = s
<1>1. PICK i \in DOMAIN t.text[m].body : s = <<m, i>>
  BY DEF SitesOf
<1>2. ASSUME NEW a, NEW b, NEW guard PROVE Settled(t, sp, m, Edge("transfer:route", BareId(a), BareId(b), guard, s))
  <2>1. Joins("transfer:route", BareId(a)[1], BareId(b)[1])
    BY DEF Joins, BareId
  <2> QED
    BY <1>1, <2>1, OneIsSettled, Zenon
<1>3. ASSUME NEW r \in ToSet(NewRoutes(t, s)) PROVE r.site = s
  <2>1. CASE At(t, s).c # "route"
    BY <2>1, ShortLists DEF NewRoutes
  <2>2. CASE At(t, s).c = "route"
    <3>1. NewRoutes(t, s) = [k \in DOMAIN At(t, s).to |->
             [from |-> At(t, s).from, to |-> At(t, s).to[k], guard |-> At(t, s).guard, site |-> s]]
      BY <2>2 DEF NewRoutes
    <3> QED
      BY <3>1 DEF ToSet
  <2> QED
    BY <2>1, <2>2
<1>4. ASSUME NEW c \in ToSet(NewCrews(t, s)) PROVE c.site = s
  <2>1. CASE At(t, s).c # "crew"
    BY <2>1, ShortLists DEF NewCrews
  <2>2. CASE At(t, s).c = "crew"
    <3>1. PICK crew : crew = [names |-> CrewNames(t, At(t, s)), site |-> s, hierarchical |-> At(t, s).hierarchical]
      BY Zenon
    <3>2. NewCrews(t, s) = <<crew>>
      BY <2>2, <3>1 DEF NewCrews
    <3>3. c = crew
      BY <3>2, ShortLists
    <3> QED
      BY <3>1, <3>3
  <2> QED
    BY <2>1, <2>2
<1>5. ASSUME NEW g \in RouteFacts(t, sp, s) PROVE Settled(t, sp, m, g)
  <2>1. PICK r \in ToSet(NewRoutes(t, s)) : g = Edge("transfer:route", BareId(r.from), BareId(r.to), r.guard, r.site)
    BY DEF RouteFacts
  <2> QED
    BY <1>2, <1>3, <2>1
<1>6. ASSUME NEW g \in CrewFacts(t, s) PROVE Settled(t, sp, m, g)
  <2>1. PICK c \in ToSet(NewCrews(t, s)) : g \in LinksOf(c)
    BY DEF CrewFacts
  <2>2. PICK j \in 1..Len(c.names) - 1 : g = Edge("transfer:route", BareId(c.names[j]), BareId(c.names[j + 1]), "", c.site)
    BY <2>1, Zenon DEF LinksOf
  <2> QED
    BY <1>2, <1>4, <2>2, Zenon
<1> QED
  BY <1>3, <1>4, <1>5, <1>6

\* The constructs of some kinds.
LEMMA SitesInAre ==
    ASSUME NEW t, NEW kinds
    PROVE  \A s : s \in SitesIn(t, kinds) <=>
              \E m \in DOMAIN t.text : s \in SitesOf(t, m) /\ At(t, s).c \in kinds
<1>1. ASSUME NEW s \in SitesIn(t, kinds)
      PROVE  \E m \in DOMAIN t.text : s \in SitesOf(t, m) /\ At(t, s).c \in kinds
  <2>1. PICK m \in DOMAIN t.text : s \in {<<m, i>> : i \in {j \in DOMAIN t.text[m].body : t.text[m].body[j].c \in kinds}}
    BY DEF SitesIn
  <2>2. PICK i \in DOMAIN t.text[m].body : s = <<m, i>> /\ t.text[m].body[i].c \in kinds
    BY <2>1
  <2>3. At(t, s).c \in kinds /\ s \in SitesOf(t, m)
    BY <2>2 DEF At, SitesOf
  <2> QED
    BY <2>3
<1>2. ASSUME NEW s, NEW m \in DOMAIN t.text, s \in SitesOf(t, m), At(t, s).c \in kinds
      PROVE  s \in SitesIn(t, kinds)
  <2>1. PICK i \in DOMAIN t.text[m].body : s = <<m, i>>
    BY <1>2 DEF SitesOf
  <2>2. t.text[m].body[i].c \in kinds
    BY <1>2, <2>1 DEF At
  <2>3. s \in {<<m, j>> : j \in {k \in DOMAIN t.text[m].body : t.text[m].body[k].c \in kinds}}
    BY <2>1, <2>2
  <2> QED
    BY <2>3 DEF SitesIn
<1> QED
  BY <1>1, <1>2

\* What is among the facts of a module.
LEMMA ModuleFactsAre ==
    ASSUME NEW t, NEW sp, NEW m
    PROVE  \A g : g \in ModuleFacts(t, sp, m) <=>
              \/ \E s \in SitesOf(t, m) : g \in AtFacts(t, sp, s)
              \/ g \in ToSet(DeclaredFacts(t, sp, m))
              \/ g \in UsagesOf(t, sp, m)
<1> DEFINE V == UNION {AtFacts(t, sp, s) : s \in SitesOf(t, m)}
<1>1. \A g : g \in V <=> \E s \in SitesOf(t, m) : g \in AtFacts(t, sp, s)
  OBVIOUS
<1>2. ModuleFacts(t, sp, m) = V \cup ToSet(DeclaredFacts(t, sp, m)) \cup UsagesOf(t, sp, m)
  BY DEF ModuleFacts
<1> HIDE DEF V
<1> QED
  BY <1>1, <1>2

\* The declared tools of a module.
LEMMA DeclaredFactsAre ==
    ASSUME NEW t, GoodTree(t), NEW sp, NEW m \in DOMAIN t.text
    PROVE  Sound(t, sp, m, DeclaredFacts(t, sp, m))
<1>1. PICK body : body = t.text[m].body /\ IsList(body)
  BY DEF GoodTree
<1>2. ASSUME NEW i \in DOMAIN body, body[i].c \in {"def", "class"}, body[i].tool # ""
      PROVE  Settled(t, sp, m, ToolFact(t, sp, <<m, i>>, body[i].tool, m, "declared"))
  <2>1. PICK s : s = <<m, i>>
    BY Zenon
  <2>2. s[1] = m /\ At(t, s) = body[i]
    BY <1>1, <2>1 DEF At
  <2>3. s \in DeclaredSites(t)
    <3>1. s \in SitesIn(t, {"def", "class"})
      <4>1. m \in DOMAIN t.text /\ s \in SitesOf(t, m) /\ At(t, s).c \in {"def", "class"}
        BY <1>1, <1>2, <2>1, <2>2, Zenon DEF SitesOf
      <4> QED
        BY <4>1, SitesInAre
    <3> QED
      BY <1>2, <2>2, <3>1, Zenon DEF DeclaredSites
  <2>4. PICK effects : effects = Classify(t, sp)[s]
    OBVIOUS
  <2>5. PICK g : g = ToolFact(t, sp, s, body[i].tool, m, "declared")
    OBVIOUS
  <2>6. g = [k |-> "tool", id |-> <<"tool", s[1], At(t, s).var>>, name |-> body[i].tool, effects |-> effects,
             method |-> "declared", ev |-> <<s>>, src |-> m]
    BY <2>4, <2>5 DEF ToolFact
  <2>7. Kinded(g)
    <3>1. "declared" \in MethodNames
      BY MethodsAre
    <3> QED
      BY <2>5, <3>1, ToolFactIsPlain DEF PlainFact
  <2>8. /\ g.k = "tool" /\ g.src = m /\ g.ev = <<s>> /\ g.method = "declared"
        /\ g.id = <<"tool", s[1], At(t, s).var>> /\ g.name = At(t, s).tool /\ g.effects = Classify(t, sp)[s]
        /\ DOMAIN g = {"k", "id", "name", "effects", "method", "ev", "src"}
    BY <2>2, <2>4, <2>6
  <2>9. ToolSettled(t, sp, g)
    BY <2>3, <2>8 DEF ToolSettled
  <2>10. Near(t, m, g.ev)
    BY <2>1, <2>8, NearHere
  <2> QED
    BY <2>1, <2>5, <2>7, <2>8, <2>9, <2>10 DEF Settled
<1>3. ASSUME NEW c \in {"def", "class"} PROVE Sound(t, sp, m, DeclaredAs(t, sp, m, c))
  <2> DEFINE Part(i) == IF body[i].c # c \/ body[i].tool = "" THEN <<>>
                        ELSE <<ToolFact(t, sp, <<m, i>>, body[i].tool, m, "declared")>>
             parts == [i \in DOMAIN body |-> Part(i)]
  <2>1. ASSUME NEW i \in DOMAIN body PROVE Sound(t, sp, m, Part(i))
    <3>1. CASE body[i].c # c \/ body[i].tool = ""
      BY <3>1, SoundShort, Zenon
    <3>2. CASE ~(body[i].c # c \/ body[i].tool = "")
      <4>1. PICK g : g = ToolFact(t, sp, <<m, i>>, body[i].tool, m, "declared")
        OBVIOUS
      <4>2. Settled(t, sp, m, g)
        BY <1>2, <3>2, <4>1, Zenon
      <4>3. Part(i) = <<g>>
        BY <3>2, <4>1, Zenon
      <4> QED
        BY <4>2, <4>3, SoundShort, Zenon
    <3> QED
      BY <3>1, <3>2, Zenon
  <2>2. DeclaredAs(t, sp, m, c) = FlattenSeq(parts)
    BY <1>1, Zenon DEF DeclaredAs
  <2> HIDE DEF Part
  <2>3. parts = [i \in DOMAIN body |-> parts[i]] /\ \A i \in DOMAIN body : parts[i] = Part(i)
    OBVIOUS
  <2> HIDE DEF parts
  <2>4. Sound(t, sp, m, FlattenSeq(parts))
    BY <1>1, <2>1, <2>3, SoundFlat
  <2> QED
    BY <2>2, <2>4
<1>4. Sound(t, sp, m, DeclaredAs(t, sp, m, "def")) /\ Sound(t, sp, m, DeclaredAs(t, sp, m, "class"))
  BY <1>3
<1> QED
  BY <1>4, SoundCat DEF DeclaredFacts

\* The model call at a site as a usage.
LEMMA UsageIsSettled ==
    ASSUME NEW t, GoodTree(t), NEW sp, NEW m \in DOMAIN t.text, NEW s \in SitesOf(t, m), NEW g \in UsageAt(t, s)
    PROVE  Settled(t, sp, m, g)
<1>1. PICK i \in DOMAIN t.text[m].body : s = <<m, i>>
  BY DEF SitesOf
<1>2. s[1] = m /\ Near(t, m, <<s>>)
  BY <1>1, NearHere
<1>3. PICK model : /\ model = ModelFact(t, At(t, s).model, "sink", s)
                   /\ Settled(t, sp, m, model) /\ model.id[1] = "model"
  <2>1. Settled(t, sp, m, ModelFact(t, At(t, s).model, "sink", s))
    BY <1>1, OneIsSettled, Zenon
  <2> QED
    BY <2>1, ModelFactIsPlain
<1>4. PICK usage : usage = [k |-> "usage", id |-> <<"usage">> \o s, model |-> model.id,
                            method |-> "usage", ev |-> <<s>>, src |-> m]
  BY Zenon
<1>5. Settled(t, sp, m, usage)
  <2>1. (<<"usage">> \o s)[1] = "usage"
    BY <1>1
  <2>2. PICK id, mid, ev : id = <<"usage">> \o s /\ mid = model.id /\ ev = <<s>>
    BY Zenon
  <2>3. /\ usage.k = "usage" /\ usage.id = id /\ usage.model = mid /\ usage.method = "usage"
        /\ usage.ev = ev /\ usage.src = m /\ DOMAIN usage = {"k", "id", "model", "method", "ev", "src"}
    BY <1>4, <2>2
  <2>4. id[1] = "usage" /\ mid[1] = "model"
    BY <1>3, <2>1, <2>2
  <2>5. Kinded(usage)
    BY <2>3, <2>4, MethodsAre DEF Kinded, MethodNames
  <2>6. UsageSettled(t, usage)
    <3>1. id = <<"usage">> \o <<m, i>> /\ mid = ModelFact(t, At(t, <<m, i>>).model, "sink", <<m, i>>).id
      BY <1>1, <1>3, <2>2
    <3> QED
      BY <2>3, <3>1 DEF UsageSettled
  <2>7. Near(t, m, ev)
    BY <1>2, <2>2
  <2> QED
    BY <2>3, <2>5, <2>6, <2>7 DEF Settled
<1>6. UsageAt(t, s) = {model, usage}
  BY <1>2, <1>3, <1>4 DEF UsageAt
<1> QED
  BY <1>3, <1>5, <1>6

\* What a module contributes.
LEMMA ModuleIsSettled ==
    ASSUME NEW t, GoodTree(t), NEW sp, NEW m \in DOMAIN t.text, LocalNodes(t, m), NEW g \in ModuleFacts(t, sp, m)
    PROVE  SettledIn(t, sp, m, g)
<1>1. CASE g \in ToSet(DeclaredFacts(t, sp, m))
  BY <1>1, DeclaredFactsAre DEF Sound, SettledIn
<1>2. CASE g \in UsagesOf(t, sp, m)
  <2>1. PICK s \in SitesOf(t, m) : g \in UsageAt(t, s)
    BY <1>2 DEF UsagesOf
  <2> QED
    BY <2>1, UsageIsSettled DEF SettledIn
<1>3. ASSUME NEW s \in SitesOf(t, m), g \in AtFacts(t, sp, s)
      PROVE  SettledIn(t, sp, m, g)
  <2>1. CASE g \in RuleFacts(t, sp, s)
    BY <2>1, RuleFactsAre DEF SettledIn, MadeBy
  <2>2. CASE g \in PromotionFacts(t, sp, s)
    <3>1. AnchorsAt(t, sp, s) # {}
      BY <2>2 DEF PromotionFacts
    <3> QED
      BY <2>2, <3>1, PromotionFactsAre, Zenon DEF SettledIn, MadeBy
  <2>3. CASE g \in RouteFacts(t, sp, s) \cup CrewFacts(t, s)
    BY <2>3, TransferFactsAre DEF SettledIn
  <2> QED
    BY <1>3, <2>1, <2>2, <2>3 DEF AtFacts
<1>4. CASE \E s \in SitesOf(t, m) : g \in AtFacts(t, sp, s)
  BY <1>3, <1>4
<1> QED
  BY <1>1, <1>2, <1>4, ModuleFactsAre

\* The agents that a module contributes are facts of it.
LEMMA AgentsAreContributed ==
    ASSUME NEW t, GoodTree(t), NEW sp, NEW m \in DOMAIN t.text, LocalNodes(t, m), NEW s \in SitesOf(t, m),
           NEW g, MadeBy(t, sp, s, g)
    PROVE  g \in AtFacts(t, sp, s) /\ g \in ModuleFacts(t, sp, m)
<1>1. CASE Makes(t, s) /\ g = MadeAgent(t, sp, s)
  <2>1. g \in RuleFacts(t, sp, s)
    BY <1>1, RuleFactsAre, Zenon
  <2> QED
    BY <2>1, ModuleFactsAre DEF AtFacts
<1>2. CASE AnchorsAt(t, sp, s) # {} /\ g = PromotedAgent(t, sp, s)
  <2>1. g \in PromotionFacts(t, sp, s)
    BY <1>2, PromotionFactsAre
  <2> QED
    BY <2>1, ModuleFactsAre DEF AtFacts
<1> QED
  BY <1>1, <1>2 DEF MadeBy

(***************************************************************************)
(* What the rules of the analysed modules give, in any order of modules    *)
(***************************************************************************)

\* One construct more adds what it emits.
LEMMA OneMoreSite ==
    ASSUME NEW t, NEW sp, NEW S, NEW s
    PROVE  MoreSites(t, sp, S, s)
<1>1. RulesOf(t, sp, S \cup {s}) = RulesOf(t, sp, S) \cup RuleFacts(t, sp, s)
  BY DEF RulesOf
<1>2. RoutesOf(t, S \cup {s}) = RoutesOf(t, S) \cup ToSet(NewRoutes(t, s))
  BY DEF RoutesOf
<1>3. CrewsOf(t, S \cup {s}) = CrewsOf(t, S) \cup ToSet(NewCrews(t, s))
  BY DEF CrewsOf
<1> QED
  BY <1>1, <1>2, <1>3, Zenon DEF MoreSites

\* One module more adds what it declares, and its constructs.
LEMMA OneMoreModule ==
    ASSUME NEW t, NEW sp, NEW D, NEW m
    PROVE  MoreModules(t, sp, D, m)
<1>1. DeclaredOf(t, sp, D \cup {m}) = DeclaredOf(t, sp, D) \cup ToSet(DeclaredFacts(t, sp, m))
  BY DEF DeclaredOf
<1>2. AllSites(t, D \cup {m}) = AllSites(t, D) \cup SitesOf(t, m)
  BY DEF AllSites
<1> QED
  BY <1>1, <1>2 DEF MoreModules

\* The names that agents, nodes and routes of a module use.
LEMMA NamesAreUsed ==
    ASSUME NEW t, GoodTree(t), NEW m \in DOMAIN t.text, NEW s \in SitesOf(t, m)
    PROVE  /\ s[1] = m
           /\ Makes(t, s) => <<Slug[At(t, s).name], m>> \in NameUses(t)
           /\ At(t, s).c = "node" => <<Slug[NodeName(At(t, s))], m>> \in NameUses(t)
           /\ \A r \in ToSet(NewRoutes(t, s)) :
                 <<Slug[r.from], m>> \in RouteUses(t) /\ <<Slug[r.to], m>> \in RouteUses(t)
<1>1. PICK i \in DOMAIN t.text[m].body : s = <<m, i>>
  BY DEF SitesOf
<1>2. s[1] = m
  BY <1>1
<1>3. ASSUME NEW kinds, At(t, s).c \in kinds PROVE s \in SitesIn(t, kinds)
  BY <1>3, SitesInAre
<1>4. ASSUME Makes(t, s) PROVE <<Slug[At(t, s).name], m>> \in NameUses(t)
  <2>1. Construct(m, t.text[m], At(t, s))
    BY <1>1 DEF GoodTree, At
  <2>2. At(t, s).c \in {"agent", "generic"} /\ At(t, s).name # ""
    BY <1>4, <2>1, Zenon DEF Makes, Construct
  <2>3. s \in {x \in SitesIn(t, {"agent", "generic"}) : At(t, x).name # ""}
    BY <1>3, <2>2, Zenon
  <2>4. <<Slug[At(t, s).name], s[1]>> \in {<<Slug[At(t, x).name], x[1]>> :
            x \in {y \in SitesIn(t, {"agent", "generic"}) : At(t, y).name # ""}}
    BY <2>3, Zenon
  <2> QED
    BY <1>2, <2>4, Zenon DEF NameUses
<1>5. ASSUME At(t, s).c = "node" PROVE <<Slug[NodeName(At(t, s))], m>> \in NameUses(t)
  <2>1. s \in SitesIn(t, {"node"})
    BY <1>3, <1>5
  <2>2. <<Slug[NodeName(At(t, s))], s[1]>> \in {<<Slug[NodeName(At(t, x))], x[1]>> : x \in SitesIn(t, {"node"})}
    BY <2>1
  <2> QED
    BY <1>2, <2>2, Zenon DEF NameUses
<1>6. ASSUME NEW r \in ToSet(NewRoutes(t, s))
      PROVE  <<Slug[r.from], m>> \in RouteUses(t) /\ <<Slug[r.to], m>> \in RouteUses(t)
  <2>1. At(t, s).c = "route"
    BY ShortLists DEF NewRoutes
  <2>2. NewRoutes(t, s) = [j \in DOMAIN At(t, s).to |->
             [from |-> At(t, s).from, to |-> At(t, s).to[j], guard |-> At(t, s).guard, site |-> s]]
    BY <2>1 DEF NewRoutes
  <2>3. r.from = At(t, s).from /\ \E j \in DOMAIN At(t, s).to : r.to = At(t, s).to[j]
    BY <2>2 DEF ToSet
  <2>4. PICK N : N = {At(t, s).from} \cup ToSet(At(t, s).to)
    BY Zenon
  <2>5. r.from \in N /\ r.to \in N
    BY <2>3, <2>4 DEF ToSet
  <2>6. s \in SitesIn(t, {"route"})
    BY <1>3, <2>1
  <2>7. {<<Slug[n], s[1]>> : n \in N} \subseteq RouteUses(t)
    BY <2>4, <2>6 DEF RouteUses
  <2> QED
    BY <1>2, <2>5, <2>7
<1> QED
  BY <1>2, <1>4, <1>5, <1>6

\* In a separated tree a name that agents use is used in one module.
LEMMA NamesAreApart ==
    ASSUME NEW t, Separated(t), NEW k, NEW m, NEW n,
           <<k, m>> \in NameUses(t), <<k, n>> \in NameUses(t) \cup RouteUses(t)
    PROVE  m = n
<1>1. \A u \in NameUses(t), v \in NameUses(t) \cup RouteUses(t) : u[1] = v[1] => u[2] = v[2]
  BY DEF Separated
<1>2. PICK u, v : u = <<k, m>> /\ v = <<k, n>>
  OBVIOUS
<1> QED
  BY <1>1, <1>2

\* Makers are numbered, and the first of them comes first.
LEMMA MakersAre ==
    ASSUME NEW t, GoodTree(t), NEW m \in DOMAIN t.text, NEW k
    PROVE  /\ MakersOf(t, m, k) \in SUBSET Nat /\ MakersOf(t, m, k) \subseteq DOMAIN t.text[m].body
           /\ MakersOf(t, m, k) # {} => /\ Earliest(MakersOf(t, m, k)) \in MakersOf(t, m, k)
                                        /\ \A j \in MakersOf(t, m, k) : Earliest(MakersOf(t, m, k)) <= j
<1>1. MakersOf(t, m, k) \subseteq DOMAIN t.text[m].body
  BY DEF MakersOf
<1>2. MakersOf(t, m, k) \in SUBSET Nat
  BY <1>1, BodyIsNumbered
<1> QED
  BY <1>1, <1>2, EarliestIs

\* The owners after a registration.
LEMMA RegisteredIds ==
    ASSUME NEW run, IsRun(run), NEW name, NEW site
    PROVE  Registered(run, name, site).ids =
              IF AgentId(run, name, site) # BareId(name) THEN run.ids
              ELSE [s \in DOMAIN run.ids \cup {Slug[name]} |-> IF s = Slug[name] THEN site ELSE run.ids[s]]
<1> DEFINE ids == [s \in DOMAIN run.ids \cup {Slug[name]} |-> IF s = Slug[name] THEN site ELSE run.ids[s]]
           r == Registered(run, name, site)
<1>1. CASE AgentId(run, name, site) # BareId(name)
  BY <1>1 DEF Registered
<1>2. CASE AgentId(run, name, site) = BareId(name)
  <2>1. r = [run EXCEPT !.ids = ids]
    BY <1>2 DEF Registered
  <2> HIDE DEF ids, r
  <2>2. r = RunOf(run.facts, ids, run.marks, run.cands, run.routes, run.crews, run.consumed)
    BY <2>1, RunWith, Zenon
  <2>3. r.ids = ids
    BY <2>2
  <2> QED
    BY <1>2, <2>3 DEF ids, r
<1> QED
  BY <1>1, <1>2

\* A construct that makes an agent gets the id that its place among the makers of its name gives it.
LEMMA MakerGetsId ==
    ASSUME NEW t, GoodTree(t), NEW sp, NEW only \in SUBSET DOMAIN t.text, NEW S,
           NEW run, IdsAre(t, only, S, run.ids),
           NEW m \in only, NEW i \in DOMAIN t.text[m].body,
           \A j \in DOMAIN t.text[m].body : <<m, j>> \in S <=> j < i,
           Makes(t, <<m, i>>), NEW k, k = Slug[At(t, <<m, i>>).name]
    PROVE  Placed(t, sp, S, run, m, i, k)
<1>1. PICK s, name : s = <<m, i>> /\ name = At(t, s).name /\ k = Slug[name]
  OBVIOUS
<1>2. <<k, m>> \in NameUses(t)
  <2>1. s \in SitesOf(t, m) /\ Makes(t, s)
    BY <1>1 DEF SitesOf
  <2> QED
    BY <1>1, <2>1, NamesAreUsed, Zenon
<1>3. PICK M : M = MakersOf(t, m, k) /\ i \in M
  BY Zenon DEF MakersOf
<1>4. PICK e : /\ e = Earliest(M) /\ e \in M /\ M \in SUBSET Nat /\ M \subseteq DOMAIN t.text[m].body
               /\ \A j \in M : e <= j
  BY <1>3, MakersAre
<1>5. Owner(t, sp, m, k) = <<m, e>>
  BY <1>3, <1>4, Zenon DEF Owner
<1>6. /\ k \in DOMAIN run.ids <=> \E j \in M : <<m, j>> \in S
      /\ k \in DOMAIN run.ids => run.ids[k] = <<m, e>>
  BY <1>2, <1>3, <1>4, Zenon DEF IdsAre
<1>7. CASE k \in DOMAIN run.ids
  <2>1. PICK j \in M : <<m, j>> \in S
    BY <1>6, <1>7
  <2>2. j < i /\ e <= j /\ e \in Nat /\ j \in Nat /\ i \in Nat
    BY <1>3, <1>4, <2>1
  <2>3. e # i
    BY <2>2
  <2>4. run.ids[k] # s
    BY <1>1, <1>6, <1>7, <2>3
  <2>5. AgentId(run, name, s) = BareId(name) \o s
    BY <1>1, <1>7, <2>4 DEF AgentId
  <2>6. IdOf(t, sp, m, name, s) = BareId(name) \o s
    BY <1>1, <1>5, <2>3 DEF IdOf
  <2> QED
    BY <1>1, <1>3, <1>7, <2>1, <2>4, <2>5, <2>6, Zenon DEF Placed
<1>8. CASE k \notin DOMAIN run.ids
  <2>1. ~(<<m, e>> \in S)
    BY <1>4, <1>6, <1>8
  <2>2. ~(e < i) /\ e <= i /\ e \in Nat /\ i \in Nat
    BY <1>3, <1>4, <2>1
  <2>3. e = i
    BY <2>2
  <2>4. AgentId(run, name, s) = BareId(name)
    BY <1>1, <1>8 DEF AgentId
  <2>5. IdOf(t, sp, m, name, s) = BareId(name)
    BY <1>1, <1>5, <2>3 DEF IdOf
  <2> QED
    BY <1>1, <1>3, <1>4, <1>8, <2>3, <2>4, <2>5 DEF Placed
<1> QED
  BY <1>7, <1>8

\* Registering it keeps the owners right.
LEMMA MakerKeepsIds ==
    ASSUME NEW t, GoodTree(t), Separated(t), NEW sp, NEW only \in SUBSET DOMAIN t.text, NEW S,
           NEW run, IsRun(run), IdsAre(t, only, S, run.ids),
           NEW m \in only, NEW i \in DOMAIN t.text[m].body,
           \A j \in DOMAIN t.text[m].body : <<m, j>> \in S <=> j < i,
           Makes(t, <<m, i>>)
    PROVE  IdsAre(t, only, S \cup {<<m, i>>}, Registered(run, At(t, <<m, i>>).name, <<m, i>>).ids)
<1>1. PICK s, name, k : s = <<m, i>> /\ name = At(t, s).name /\ k = Slug[name]
  OBVIOUS
<1> DEFINE longer == [x \in DOMAIN run.ids \cup {k} |-> IF x = k THEN s ELSE run.ids[x]]
<1> DEFINE ids == Registered(run, name, s).ids
           id == AgentId(run, name, s)
<1>2. ids = IF id # BareId(name) THEN run.ids ELSE longer
  BY <1>1, RegisteredIds
<1>0. /\ DOMAIN longer = DOMAIN run.ids \cup {k}
      /\ \A x \in DOMAIN longer : longer[x] = IF x = k THEN s ELSE run.ids[x]
  OBVIOUS
<1> HIDE DEF longer, ids
<1>3. /\ i \in MakersOf(t, m, k)
      /\ k \in DOMAIN run.ids => run.ids[k] # s /\ \E j \in MakersOf(t, m, k) : <<m, j>> \in S
      /\ k \notin DOMAIN run.ids => Earliest(MakersOf(t, m, k)) = i
  <2>1. k = Slug[At(t, <<m, i>>).name]
    BY <1>1
  <2>2. Placed(t, sp, S, run, m, i, k)
    BY <2>1, MakerGetsId, Zenon
  <2> QED
    BY <1>1, <2>2 DEF Placed
<1>4. <<k, m>> \in NameUses(t)
  <2>1. s \in SitesOf(t, m) /\ Makes(t, s)
    BY <1>1 DEF SitesOf
  <2> QED
    BY <1>1, <2>1, NamesAreUsed, Zenon
<1>5. k \in DOMAIN run.ids => ids = run.ids
  <2>1. k \in DOMAIN run.ids => id = BareId(name) \o s
    BY <1>1, <1>2, <1>3 DEF AgentId
  <2>2. Pair(s)
    BY <1>1 DEF Pair
  <2>3. BareId(name) \o s # BareId(name)
    BY <2>2, AgentIdIs, Zenon
  <2> QED
    BY <1>2, <2>1, <2>3
<1>6. k \notin DOMAIN run.ids => ids = longer
  <2>1. k \notin DOMAIN run.ids => id = BareId(name)
    BY <1>1, <1>2 DEF AgentId
  <2> QED
    BY <1>2, <2>1
<1>7. /\ k \in DOMAIN ids
      /\ \A x : x # k => (x \in DOMAIN ids <=> x \in DOMAIN run.ids) /\ (x \in DOMAIN run.ids => ids[x] = run.ids[x])
      /\ k \in DOMAIN run.ids => ids[k] = run.ids[k]
      /\ k \notin DOMAIN run.ids => ids[k] = s
  BY <1>0, <1>5, <1>6
<1>8. ASSUME NEW x, NEW n \in only, <<x, n>> \in NameUses(t)
      PROVE  /\ x \in DOMAIN ids <=> \E j \in MakersOf(t, n, x) : <<n, j>> \in S \cup {s}
             /\ x \in DOMAIN ids => ids[x] = <<n, Earliest(MakersOf(t, n, x))>>
  <2>1. /\ x \in DOMAIN run.ids <=> \E j \in MakersOf(t, n, x) : <<n, j>> \in S
        /\ x \in DOMAIN run.ids => run.ids[x] = <<n, Earliest(MakersOf(t, n, x))>>
    BY <1>8, Zenon DEF IdsAre
  <2>2. CASE x = k
    <3>1. n = m
      BY <1>4, <1>8, <2>2, NamesAreApart
    <3>2. \E j \in MakersOf(t, n, x) : <<n, j>> \in S \cup {s}
      BY <1>1, <1>3, <2>2, <3>1
    <3> QED
      BY <1>1, <1>3, <1>7, <2>1, <2>2, <3>1, <3>2, Zenon
  <2>3. CASE x # k
    <3>1. ASSUME NEW j \in MakersOf(t, n, x), <<n, j>> = s PROVE FALSE
      <4>1. n = m /\ j = i
        BY <1>1, <3>1
      <4>2. Slug[At(t, <<n, j>>).name] = x
        BY DEF MakersOf
      <4> QED
        BY <1>1, <2>3, <4>1, <4>2
    <3> QED
      BY <1>7, <2>1, <2>3, <3>1, Zenon
  <2> QED
    BY <2>2, <2>3
<1>9. IdsAre(t, only, S \cup {s}, ids)
  BY <1>8, Zenon DEF IdsAre
<1> QED
  BY <1>1, <1>9 DEF ids

\* A construct that makes none leaves them so.
LEMMA OtherKeepsIds ==
    ASSUME NEW t, NEW only, NEW S, NEW ids, IdsAre(t, only, S, ids), NEW s, ~Makes(t, s)
    PROVE  IdsAre(t, only, S \cup {s}, ids)
<1>1. ASSUME NEW x, NEW n \in only
      PROVE  (\E j \in MakersOf(t, n, x) : <<n, j>> \in S) <=> \E j \in MakersOf(t, n, x) : <<n, j>> \in S \cup {s}
  <2>1. \A j \in MakersOf(t, n, x) : <<n, j>> # s
    BY DEF MakersOf
  <2> QED
    BY <2>1
<1> QED
  BY <1>1, Zenon DEF IdsAre

\* The candidates after one more construct.
LEMMA CandsStep ==
    ASSUME NEW t, NEW S, NEW cands, IsList(cands), CandsAre(t, S, cands), NEW m, NEW i \in Nat,
           \A s \in S : s[1] = m => s[2] < i
    PROVE  CandsAre(t, S \cup {<<m, i>>}, cands \o NewCands(t, <<m, i>>))
<1>1. PICK s : s = <<m, i>>
  BY Zenon
<1>2. CASE At(t, s).c # "node"
  <2>1. NewCands(t, s) = <<>> /\ cands \o <<>> = cands
    BY <1>2, NothingJoined DEF NewCands
  <2>2. CandsAre(t, S \cup {s}, cands)
    BY <1>2 DEF CandsAre
  <2> QED
    BY <1>1, <2>1, <2>2
<1>3. CASE At(t, s).c = "node"
  <2>1. PICK c : c = CandAt(t, s) /\ c.site = s
    BY CandIs
  <2>2. NewCands(t, s) = <<c>>
    BY <1>3, <2>1 DEF NewCands, CandAt
  <2>3. PICK n \in Nat : DOMAIN cands = 1..n /\ n = Len(cands)
    BY ListIsFunction
  <2>4. PICK all : /\ all = cands \o <<c>> /\ DOMAIN all = 1..n+1 /\ all[n+1] = c
                   /\ \A a \in 1..n : all[a] = cands[a]
    <3>1. PICK V : V = ToSet(cands) /\ cands \in Seq(V)
      BY DEF IsList
    <3>2. PICK U : U = V \cup {c}
      BY Zenon
    <3>3. cands \in Seq(U) /\ c \in U
      BY <3>1, <3>2
    <3>4. PICK all : all = cands \o <<c>>
      BY Zenon
    <3>5. DOMAIN all = 1..n+1 /\ all[n+1] = c /\ \A a \in 1..n : all[a] = cands[a]
      BY <2>3, <3>3, <3>4
    <3> QED
      BY <3>4, <3>5, Zenon
  <2>5. ToSet(all) = ToSet(cands) \cup {c}
    <3>1. ToSet(<<c>>) = {c} /\ IsList(<<c>>)
      BY ShortLists
    <3> QED
      BY <2>4, <3>1, Concatenated
  <2>6. \A x \in ToSet(all) : \E r \in S \cup {s} : At(t, r).c = "node" /\ x = CandAt(t, r)
    BY <1>3, <2>1, <2>5 DEF CandsAre
  <2>7. \A r \in S \cup {s} : At(t, r).c = "node" => CandAt(t, r) \in ToSet(all)
    BY <2>1, <2>5 DEF CandsAre
  <2>8. ASSUME NEW a \in DOMAIN all, NEW b \in DOMAIN all, a < b, all[a].site[1] = all[b].site[1]
        PROVE  all[a].site[2] < all[b].site[2]
    <3>1. a \in 1..n
      BY <2>3, <2>4, <2>8
    <3>2. CASE b \in 1..n
      BY <2>3, <2>4, <2>8, <3>1, <3>2 DEF CandsAre
    <3>3. CASE b = n + 1
      <4>1. all[b].site = s
        BY <2>1, <2>4, <3>3
      <4>2. cands[a] \in ToSet(cands)
        BY <2>3, <3>1 DEF ToSet
      <4>3. PICK r \in S : cands[a] = CandAt(t, r)
        BY <4>2 DEF CandsAre
      <4>4. all[a].site = r
        BY <2>4, <3>1, <4>3, CandIs
      <4>5. r[1] = m
        BY <1>1, <2>8, <4>1, <4>4
      <4> QED
        BY <1>1, <4>1, <4>4, <4>5
    <3> QED
      BY <2>3, <2>4, <3>2, <3>3
  <2> QED
    BY <1>1, <2>2, <2>4, <2>6, <2>7, <2>8, Zenon DEF CandsAre
<1> QED
  BY <1>2, <1>3

\* The rules of one construct.
LEMMA RuleStep ==
    ASSUME NEW t, GoodTree(t), Separated(t), NEW sp, NEW only \in SUBSET DOMAIN t.text, NEW carried, NEW S, NEW D,
           NEW run, Scanning(t, sp, only, carried, S, D, run),
           NEW m \in only, NEW i \in DOMAIN t.text[m].body, UpTo(t, S, m, i)
    PROVE  Scanning(t, sp, only, carried, S \cup {<<m, i>>}, D, CallRules(t, sp, run, <<m, i>>))
<1>1. PICK s : s = <<m, i>>
  BY Zenon
<1>2. s \in SitesOf(t, m) /\ s[1] = m /\ Pair(s)
  BY <1>1 DEF SitesOf, Pair
<1>0. MoreSites(t, sp, S, s)
  BY OneMoreSite
<1>3. IsRun(run) /\ RulesAre(t, sp, only, S, D, run) /\ RunInv(only, carried, run)
  BY DEF Scanning, RunInv
<1>4. PICK next : next = CallRules(t, sp, run, s)
  OBVIOUS
<1>5. RunInv(only, carried, next) /\ IsRun(next)
  <2>1. RuleKeeps(t, only, carried, run, <<m, i>>, CallRules(t, sp, run, <<m, i>>))
    BY <1>3, CallRulesKeep
  <2> QED
    BY <1>1, <1>4, <2>1 DEF RuleKeeps, RunInv
<1> DEFINE name == At(t, s).name
           id == AgentId(run, name, s)
           facts == Emits(t, sp, s, id)
           ids == IF Makes(t, s) THEN Registered(run, name, s).ids ELSE run.ids
           marks == NewMarks(t, s)
           cands == NewCands(t, s)
           routes == NewRoutes(t, s)
           crews == NewCrews(t, s)
<1>6. next = RunOf(run.facts \o facts, ids, run.marks \o marks, run.cands \o cands, run.routes \o routes,
                   run.crews \o crews, run.consumed)
  <2>1. next = Stepped(t, sp, run, s)
    BY <1>3, <1>4, RuleIs
  <2> QED
    BY <2>1, Zenon DEF Stepped
<1>7. id[1] = "agent"
  BY <1>2, AgentIdIs
<1> HIDE DEF facts, ids, marks, cands, routes, crews, id
<1>8. /\ next.facts = run.facts \o facts /\ next.ids = ids /\ next.cands = run.cands \o cands
      /\ next.routes = run.routes \o routes /\ next.crews = run.crews \o crews /\ next.consumed = run.consumed
  BY <1>6, Zenon
<1>9. ToSet(next.facts) = RulesOf(t, sp, S \cup {s}) \cup DeclaredOf(t, sp, D)
  <2>1. IsList(facts) /\ ToSet(facts) = RuleFacts(t, sp, s)
    <3>1. IsList(facts)
      BY <1>2, <1>7, RuleFactsAre, Zenon DEF facts
    <3>2. CASE Makes(t, s)
      <4>1. PICK k : k = Slug[At(t, <<m, i>>).name]
        OBVIOUS
      <4>2. \A j \in DOMAIN t.text[m].body : <<m, j>> \in S <=> j < i
        BY DEF UpTo
      <4>3. Placed(t, sp, S, run, m, i, k)
        BY <1>1, <1>3, <3>2, <4>1, <4>2, MakerGetsId, Zenon DEF RulesAre
      <4>4. id = IdOf(t, sp, s[1], name, s)
        BY <1>1, <1>2, <4>3 DEF Placed, id
      <4> QED
        BY <3>1, <4>4 DEF RuleFacts, facts
    <3>3. CASE ~Makes(t, s)
      <4>1. ToSet(Emits(t, sp, s, id)) = RuleFacts(t, sp, s)
        BY <1>2, <1>7, <3>3, RuleFactsAre, Zenon
      <4> QED
        BY <3>1, <4>1 DEF facts
    <3> QED
      BY <3>2, <3>3
  <2>2. ToSet(next.facts) = ToSet(run.facts) \cup ToSet(facts)
    BY <1>3, <1>8, <2>1, Concatenated DEF IsRun
  <2> QED
    BY <1>0, <1>3, <2>1, <2>2, Zenon DEF RulesAre, MoreSites
<1>10. ToSet(next.routes) = RoutesOf(t, S \cup {s})
  <2>1. IsList(routes)
    <3>1. CASE At(t, s).c # "route"
      BY <3>1, ShortLists DEF NewRoutes, routes
    <3>2. CASE At(t, s).c = "route"
      <4>1. Construct(m, t.text[m], At(t, s))
        BY <1>1 DEF GoodTree, At
      <4>2. IsList(At(t, s).to)
        BY <3>2, <4>1 DEF Construct
      <4> DEFINE to == At(t, s).to
                 Row(j) == [from |-> At(t, s).from, to |-> At(t, s).to[j], guard |-> At(t, s).guard, site |-> s]
      <4>3. routes = [j \in DOMAIN to |-> Row(j)]
        BY <3>2 DEF NewRoutes, routes
      <4> HIDE DEF to, Row
      <4>4. PICK n \in Nat : DOMAIN to = 1..n
        <5>1. IsList(to)
          BY <4>2 DEF to
        <5> QED
          BY <5>1, ListIsFunction
      <4>5. routes = [j \in 1..n |-> Row(j)]
        BY <4>3, <4>4
      <4>6. ToSet(routes) = {Row(j) : j \in 1..n}
        BY <4>5 DEF ToSet
      <4>7. routes \in Seq({Row(j) : j \in 1..n})
        BY <4>5
      <4> QED
        BY <4>6, <4>7 DEF IsList
    <3> QED
      BY <3>1, <3>2
  <2>2. ToSet(next.routes) = ToSet(run.routes) \cup ToSet(routes)
    BY <1>3, <1>8, <2>1, Concatenated DEF IsRun
  <2> QED
    BY <1>0, <1>3, <2>2, Zenon DEF RulesAre, MoreSites, routes
<1>11. ToSet(next.crews) = CrewsOf(t, S \cup {s})
  <2>1. IsList(crews)
    BY ShortLists DEF NewCrews, crews
  <2>2. ToSet(next.crews) = ToSet(run.crews) \cup ToSet(crews)
    BY <1>3, <1>8, <2>1, Concatenated DEF IsRun
  <2> QED
    BY <1>0, <1>3, <2>2, Zenon DEF RulesAre, MoreSites, crews
<1>12. CandsAre(t, S \cup {s}, next.cands)
  <2>1. i \in Nat /\ \A r \in S : r[1] = m => r[2] < i
    BY BodyIsNumbered DEF UpTo
  <2>2. IsList(run.cands) /\ CandsAre(t, S, run.cands)
    BY <1>3 DEF IsRun, RulesAre
  <2>3. CandsAre(t, S \cup {<<m, i>>}, run.cands \o NewCands(t, <<m, i>>))
    BY <2>1, <2>2, CandsStep
  <2> QED
    BY <1>1, <1>8, <2>3 DEF cands
<1>13. IdsAre(t, only, S \cup {s}, next.ids)
  <2>1. IdsAre(t, only, S, run.ids) /\ \A j \in DOMAIN t.text[m].body : <<m, j>> \in S <=> j < i
    BY <1>3 DEF RulesAre, UpTo
  <2>2. CASE Makes(t, s)
    <3>1. IdsAre(t, only, S \cup {<<m, i>>}, Registered(run, At(t, <<m, i>>).name, <<m, i>>).ids)
      BY <1>1, <1>3, <2>1, <2>2, MakerKeepsIds, Zenon
    <3> QED
      BY <1>1, <1>8, <2>2, <3>1 DEF ids
  <2>3. CASE ~Makes(t, s)
    BY <1>8, <2>1, <2>3, OtherKeepsIds DEF ids
  <2> QED
    BY <2>2, <2>3
<1>14. next.consumed = {}
  BY <1>3, <1>8 DEF RulesAre
<1>15. Scanning(t, sp, only, carried, S \cup {s}, D, next)
  BY <1>5, <1>9, <1>10, <1>11, <1>12, <1>13, <1>14 DEF Scanning, RulesAre
<1> QED
  BY <1>1, <1>4, <1>15

\* The constructs of a module are enumerated from the first to the last.
LEMMA FirstSitesAre ==
    ASSUME NEW t, NEW m, NEW n \in Nat, DOMAIN t.text[m].body = 1..n, NEW D, m \notin D, NEW k \in Nat, k <= n
    PROVE  Enough(t, m, n, D, k)
<1>2. FirstSites(m, k + 1) = FirstSites(m, k) \cup {<<m, k + 1>>}
  <2>1. 1..(k + 1) = (1..k) \cup {k + 1}
    OBVIOUS
  <2> QED
    BY <2>1 DEF FirstSites
<1>3. FirstSites(m, n) = SitesOf(t, m)
  BY DEF FirstSites, SitesOf
<1>4. ASSUME NEW s \in AllSites(t, D) PROVE s[1] # m
  <2>1. PICK d \in D : s \in SitesOf(t, d)
    BY DEF AllSites
  <2>2. s[1] = d
    BY <2>1 DEF SitesOf
  <2> QED
    BY <2>1, <2>2
<1>5. ASSUME NEW s \in FirstSites(m, k) PROVE s[1] = m /\ s[2] \in 1..k
  BY DEF FirstSites
<1>6. ASSUME NEW j \in 1..k PROVE <<m, j>> \in FirstSites(m, k)
  BY DEF FirstSites
<1>7. ASSUME NEW j \in 1..n
      PROVE  <<m, j>> \in AllSites(t, D) \cup FirstSites(m, k) <=> j < k + 1
  <2>0. PICK s : s = <<m, j>>
    BY Zenon
  <2>1. s = <<m, j>> /\ s[1] = m /\ s[2] = j
    BY <2>0
  <2>2. s \in AllSites(t, D) \cup FirstSites(m, k) => j \in 1..k
    BY <1>4, <1>5, <2>1
  <2>3. j < k + 1 => j \in 1..k
    OBVIOUS
  <2> QED
    BY <1>6, <2>1, <2>2, <2>3
<1>8. ASSUME NEW s \in AllSites(t, D) \cup FirstSites(m, k), s[1] = m PROVE s[2] < k + 1
  <2>1. s[2] \in 1..k
    BY <1>4, <1>5, <1>8
  <2> QED
    BY <2>1
<1> QED
  BY <1>2, <1>3, <1>7, <1>8 DEF UpTo, Enough

\* The rules of one module.
LEMMA ModuleStep ==
    ASSUME NEW t, GoodTree(t), Separated(t), NEW sp, NEW only \in SUBSET DOMAIN t.text, NEW carried, NEW D,
           NEW run, Scanning(t, sp, only, carried, AllSites(t, D), D, run), NEW m \in only, m \notin D
    PROVE  Scanning(t, sp, only, carried, AllSites(t, D \cup {m}), D \cup {m}, ModuleRules(t, sp, run, m))
<1>20. PICK n, f : RuledThrough(t, sp, run, m, n, f)
  BY ModuleRulesAre
<1>1. /\ n \in Nat /\ n = Len(t.text[m].body) /\ DOMAIN t.text[m].body = 1..n
      /\ f[0] = run
      /\ \A i \in 1..n : f[i] = CallRules(t, sp, f[i - 1], <<m, i>>)
      /\ ModuleRules(t, sp, run, m) = Emit(f[n], DeclaredFacts(t, sp, m))
  BY <1>20 DEF RuledThrough
<1>21. n \in Nat
  BY <1>1
<1> DEFINE All == AllSites(t, D)
           Good == {k \in Nat : k <= n => Scanning(t, sp, only, carried, All \cup FirstSites(m, k), D, f[k])}
<1>2. 0 \in Good
  <2>1. FirstSites(m, 0) = {}
    BY DEF FirstSites
  <2>2. All \cup FirstSites(m, 0) = All
    BY <2>1
  <2> QED
    BY <1>1, <2>2, Zenon
<1>3. ASSUME NEW k \in Nat, k \in Good PROVE k + 1 \in Good
  <2>1. CASE ~(k + 1 <= n)
    BY <2>1
  <2>2. CASE k + 1 <= n
    <3>0. PICK i : i = k + 1
      OBVIOUS
    <3>1. i = k + 1 /\ i \in 1..n /\ i - 1 = k
      BY <1>1, <2>2, <3>0
    <3>2. PICK S : S = All \cup FirstSites(m, k)
      BY Zenon
    <3>3. Scanning(t, sp, only, carried, S, D, f[k])
      BY <1>21, <1>3, <2>2, <3>2
    <3>4. UpTo(t, S, m, i) /\ FirstSites(m, i) = FirstSites(m, k) \cup {<<m, i>>}
      <4>1. DOMAIN t.text[m].body = 1..n /\ k <= n
        BY <1>1, <1>21, <2>2
      <4>2. Enough(t, m, n, D, k)
        BY <1>21, <4>1, FirstSitesAre
      <4> QED
        BY <3>1, <3>2, <4>2 DEF Enough
    <3>5. f[i] = CallRules(t, sp, f[k], <<m, i>>)
      BY <1>1, <3>1
    <3>6. i \in DOMAIN t.text[m].body
      BY <1>1, <3>1
    <3>7. PICK next : next = f[k]
      OBVIOUS
    <3>8. Scanning(t, sp, only, carried, S \cup {<<m, i>>}, D, CallRules(t, sp, next, <<m, i>>))
      BY <3>3, <3>4, <3>6, <3>7, RuleStep
    <3>9. S \cup {<<m, i>>} = All \cup FirstSites(m, i)
      BY <3>2, <3>4
    <3> HIDE DEF All
    <3> QED
      BY <1>21, <3>1, <3>5, <3>7, <3>8, <3>9
  <2> QED
    BY <2>1, <2>2
<1> HIDE DEF Good, All
<1>4. \A k \in Nat : k \in Good
  BY <1>2, <1>3, SetInduction
<1>0. PICK last0 : last0 = f[n]
  OBVIOUS
<1>5. Scanning(t, sp, only, carried, All \cup FirstSites(m, n), D, last0)
  <2>1. n \in Good /\ n <= n
    BY <1>1, <1>4
  <2> QED
    BY <1>0, <2>1 DEF Good
<1>6. All \cup FirstSites(m, n) = AllSites(t, D \cup {m})
  <2>0. DOMAIN t.text[m].body = 1..n
    BY <1>1
  <2>1. FirstSites(m, n) = SitesOf(t, m)
    <3>0. n <= n
      BY <1>1
    <3>1. Enough(t, m, n, D, n)
      BY <1>21, <2>0, <3>0, FirstSitesAre
    <3> QED
      BY <3>1 DEF Enough
  <2>2. MoreModules(t, sp, D, m)
    BY OneMoreModule
  <2> QED
    BY <2>1, <2>2 DEF MoreModules, All
<1>7. PICK r : r = Emit(last0, DeclaredFacts(t, sp, m)) /\ r = ModuleRules(t, sp, run, m)
  BY <1>0, <1>1
<1>8. RunInv(only, carried, r)
  <2>1. RunInv(only, carried, run)
    BY DEF Scanning
  <2> QED
    BY <1>7, <2>1, ModuleRulesKeep
<1>9. IsList(DeclaredFacts(t, sp, m))
  BY DeclaredFactsAre DEF Sound
<1>10. IsRun(last0) /\ RulesAre(t, sp, only, AllSites(t, D \cup {m}), D, last0)
  BY <1>5, <1>6, Zenon DEF Scanning, RunInv
<1>11. /\ ToSet(r.facts) = ToSet(last0.facts) \cup ToSet(DeclaredFacts(t, sp, m))
       /\ r.ids = last0.ids /\ r.cands = last0.cands /\ r.routes = last0.routes /\ r.crews = last0.crews
       /\ r.consumed = last0.consumed
  <2>1. PICK facts : facts = DeclaredFacts(t, sp, m)
    OBVIOUS
  <2>2. r = RunOf(last0.facts \o facts, last0.ids, last0.marks, last0.cands, last0.routes, last0.crews,
                  last0.consumed)
    BY <1>7, <1>10, <2>1, EmitOnlyFacts, Zenon
  <2>3. /\ r.facts = last0.facts \o facts
        /\ r.ids = last0.ids /\ r.cands = last0.cands /\ r.routes = last0.routes /\ r.crews = last0.crews
        /\ r.consumed = last0.consumed
    BY <2>2
  <2>4. ToSet(last0.facts \o facts) = ToSet(last0.facts) \cup ToSet(facts)
    BY <1>9, <1>10, <2>1, Concatenated DEF IsRun
  <2> QED
    BY <2>1, <2>3, <2>4
<1>12. MoreModules(t, sp, D, m)
  BY OneMoreModule
<1>13. RulesAre(t, sp, only, AllSites(t, D \cup {m}), D \cup {m}, r)
  <2>1. IsRun(r)
    BY <1>8 DEF RunInv
  <2>2. ToSet(r.facts) = RulesOf(t, sp, AllSites(t, D \cup {m})) \cup DeclaredOf(t, sp, D \cup {m})
    BY <1>10, <1>11, <1>12, Zenon DEF RulesAre, MoreModules
  <2> QED
    BY <1>10, <1>11, <2>1, <2>2, Zenon DEF RulesAre
<1> QED
  BY <1>7, <1>8, <1>13 DEF Scanning

\* The modules to analyse, each of them once.
LEMMA ModulesAre ==
    ASSUME NEW t, GoodTree(t), NEW only \in SUBSET DOMAIN t.text
    PROVE  LET mods == Filtered(Modules(t), only) IN IsList(mods) /\ ToSet(mods) = only /\ Once(mods)
<1>1. IsList(Modules(t)) /\ ToSet(Modules(t)) = ToSet(ModuleOrder) \cap DOMAIN t.text
  BY OrderAssumption, KeptAre DEF Modules
<1>2. Once(Modules(t))
  BY OrderAssumption, KeptOnce DEF Modules, Once
<1>3. ToSet(Modules(t)) \cap only = only
  BY <1>1 DEF GoodTree
<1> QED
  BY <1>1, <1>2, <1>3, KeptAre, KeptOnce, Zenon

\* The run before any module.
LEMMA NewRunIs ==
    ASSUME NEW carried, GoodCarried(carried), NEW only
    PROVE  LET run == NewRun(Seeded(carried)) IN
           /\ run = RunOf(<<>>, Seeded(carried), <<>>, <<>>, <<>>, <<>>, {})
           /\ run.facts = <<>> /\ run.ids = Seeded(carried) /\ run.marks = <<>> /\ run.cands = <<>>
           /\ run.routes = <<>> /\ run.crews = <<>> /\ run.consumed = {}
           /\ RunInv(only, carried, run)
<1> DEFINE first == NewRun(Seeded(carried))
<1>1. IsList(<<>>) /\ ToSet(<<>>) = {}
  BY ShortLists
<1>2. /\ first = RunOf(<<>>, Seeded(carried), <<>>, <<>>, <<>>, <<>>, {})
  BY DEF NewRun
<1> HIDE DEF first
<1>3. /\ first.facts = <<>> /\ first.ids = Seeded(carried) /\ first.marks = <<>> /\ first.cands = <<>>
      /\ first.routes = <<>> /\ first.crews = <<>> /\ first.consumed = {}
  BY <1>2
<1>4. IsRun(first)
  BY <1>1, <1>2, <1>3 DEF IsRun
<1>5. Extended(Seeded(carried), first.ids)
  BY <1>3 DEF Extended
<1>6. RunInv(only, carried, first)
  BY <1>1, <1>3, <1>4, <1>5 DEF RunInv
<1> QED
  BY <1>2, <1>3, <1>6 DEF first

\* A run starts with the seeds of the carried agents, before its first module.
LEMMA RunStarts ==
    ASSUME NEW t, NEW sp, NEW only, NEW carried, GoodCarried(carried), Foreign(t, only, carried)
    PROVE  Scanning(t, sp, only, carried, AllSites(t, {}), {}, NewRun(Seeded(carried)))
<1>1. PICK first : first = NewRun(Seeded(carried))
  OBVIOUS
<1>2. /\ first.facts = <<>> /\ first.ids = Seeded(carried) /\ first.cands = <<>>
      /\ first.routes = <<>> /\ first.crews = <<>> /\ first.consumed = {}
      /\ RunInv(only, carried, first)
  BY <1>1, NewRunIs
<1>3. AllSites(t, {}) = {}
  BY DEF AllSites
<1>4. /\ RulesOf(t, sp, {}) = {} /\ DeclaredOf(t, sp, {}) = {} /\ RoutesOf(t, {}) = {} /\ CrewsOf(t, {}) = {}
  BY DEF RulesOf, DeclaredOf, RoutesOf, CrewsOf
<1>5. CandsAre(t, {}, <<>>)
  BY ShortLists DEF CandsAre
<1>6. ASSUME NEW k \in DOMAIN Seeded(carried), NEW m \in only PROVE <<k, m>> \notin NameUses(t)
  <2>1. PICK c \in ToSet(carried) : c.k = "agent" /\ c.id[2] = k
    <3> DEFINE bare == {i \in DOMAIN carried : carried[i].k = "agent" /\ IsBare(carried[i].id)}
    <3>1. DOMAIN Seeded(carried) = {carried[i].id[2] : i \in bare}
      BY DEF Seeded
    <3>2. PICK i \in bare : k = carried[i].id[2]
      BY <3>1
    <3>3. carried[i] \in ToSet(carried) /\ carried[i].k = "agent"
      BY DEF ToSet
    <3> QED
      BY <3>2, <3>3
  <2> QED
    BY <2>1 DEF Foreign
<1>7. IdsAre(t, only, {}, first.ids)
  BY <1>2, <1>6 DEF IdsAre
<1>8. RulesAre(t, sp, only, {}, {}, first)
  BY <1>2, <1>4, <1>5, <1>7, ShortLists, Zenon DEF RulesAre, RunInv
<1> QED
  BY <1>1, <1>2, <1>3, <1>8, Zenon DEF Scanning

\* The rules of all modules to analyse.
LEMMA ModulesDone ==
    ASSUME NEW t, GoodTree(t), Separated(t), NEW sp, NEW only \in SUBSET DOMAIN t.text,
           NEW carried, GoodCarried(carried), Foreign(t, only, carried),
           NEW mods, IsList(mods), ToSet(mods) = only, Once(mods),
           NEW n \in Nat, DOMAIN mods = 1..n,
           NEW f, IsModules(t, sp, NewRun(Seeded(carried)), mods, n, f)
    PROVE  Scanning(t, sp, only, carried, AllSites(t, only), only, f[n])
<1> DEFINE Before(k) == {mods[i] : i \in 1..k}
           Good == {k \in Nat : k <= n => Scanning(t, sp, only, carried, AllSites(t, Before(k)), Before(k), f[k])}
<1>1. \A i \in 0..n : f[i] = IF i = 0 THEN NewRun(Seeded(carried)) ELSE ModuleRules(t, sp, f[i - 1], mods[i])
  BY Zenon DEF IsModules
<1>2. 0 \in Good
  <2>1. f[0] = NewRun(Seeded(carried))
    <3>1. 0 \in 0..n
      OBVIOUS
    <3> QED
      BY <1>1, <3>1
  <2>2. Before(0) = {}
    OBVIOUS
  <2>3. Scanning(t, sp, only, carried, AllSites(t, {}), {}, f[0])
    BY <2>1, RunStarts
  <2> QED
    BY <2>2, <2>3, Zenon
<1>3. ASSUME NEW k \in Nat, k \in Good PROVE k + 1 \in Good
  <2>1. CASE ~(k + 1 <= n)
    BY <2>1
  <2>2. CASE k + 1 <= n
    <3>0. PICK i : i = k + 1
      OBVIOUS
    <3>1. i \in 1..n /\ i \in 0..n /\ i # 0 /\ i - 1 = k
      BY <2>2, <3>0
    <3>2. PICK D, m, run : D = Before(k) /\ m = mods[i] /\ run = f[k]
      BY Zenon
    <3>3. Scanning(t, sp, only, carried, AllSites(t, D), D, run)
      BY <1>3, <2>2, <3>2
    <3>4. f[i] = ModuleRules(t, sp, run, m)
      BY <1>1, <3>1, <3>2
    <3>5. m \in only
      BY <3>1, <3>2 DEF ToSet
    <3>6. m \notin D
      <4>1. ASSUME NEW j \in 1..k, mods[j] = m PROVE FALSE
        <5>1. j \in DOMAIN mods /\ i \in DOMAIN mods /\ i # j
          BY <2>2, <3>0, <3>1
        <5> QED
          BY <3>2, <4>1, <5>1 DEF Once
      <4> QED
        BY <3>2, <4>1
    <3>7. Scanning(t, sp, only, carried, AllSites(t, D \cup {m}), D \cup {m}, ModuleRules(t, sp, run, m))
      BY <3>3, <3>5, <3>6, ModuleStep
    <3>8. Before(i) = D \cup {m}
      <4>1. 1..i = (1..k) \cup {i}
        BY <3>0
      <4> QED
        BY <3>2, <4>1
    <3> HIDE DEF Before
    <3>9. Scanning(t, sp, only, carried, AllSites(t, Before(i)), Before(i), f[i])
      BY <3>4, <3>7, <3>8
    <3>10. i \in Nat /\ i <= n
      BY <3>1
    <3>11. i \in Good
      BY <3>9, <3>10
    <3> HIDE DEF Good
    <3> QED
      BY <3>0, <3>11
  <2> QED
    BY <2>1, <2>2
<1> HIDE DEF Good
<1>4. \A k \in Nat : k \in Good
  BY <1>2, <1>3, SetInduction
<1>5. Before(n) = only
  BY DEF ToSet
<1>6. n \in Good /\ n <= n
  BY <1>4
<1> HIDE DEF Before
<1>7. Scanning(t, sp, only, carried, AllSites(t, Before(n)), Before(n), f[n])
  BY <1>6 DEF Good
<1> QED
  BY <1>5, <1>7

(***************************************************************************)
(* The promotions                                                          *)
(***************************************************************************)

\* In a separated tree nodes are about functions of their module.
LEMMA NodesAreLocal ==
    ASSUME NEW t, Separated(t), NEW m \in DOMAIN t.text
    PROVE  LocalNodes(t, m)
<1>1. ASSUME NEW i \in DOMAIN t.text[m].body, t.text[m].body[i].c = "node" PROVE t.text[m].body[i].fn.mod = m
  <2>1. PICK s : s = <<m, i>>
    BY Zenon
  <2>2. At(t, s) = t.text[m].body[i] /\ s \in SitesOf(t, m) /\ s[1] = m
    BY <2>1 DEF At, SitesOf
  <2>3. s \in SitesIn(t, {"node"})
    BY <1>1, <2>2, SitesInAre
  <2>4. At(t, s).fn.mod = s[1]
    BY <2>3 DEF Separated
  <2> QED
    BY <2>2, <2>4
<1> QED
  BY <1>1 DEF LocalNodes

\* A candidate gets the id that the constructs before it leave to it.
LEMMA PromoterGetsId ==
    ASSUME NEW t, GoodTree(t), NEW sp, NEW only \in SUBSET DOMAIN t.text, NEW S,
           NEW run, OwnersAre(t, sp, only, S, run.ids),
           NEW m \in only, NEW i \in DOMAIN t.text[m].body, NodesUpTo(t, S, m, i),
           AnchorsAt(t, sp, <<m, i>>) # {}
    PROVE  Promotes(t, sp, run, m, <<m, i>>, NodeName(At(t, <<m, i>>)))
<1>0. PICK s : s = <<m, i>>
  OBVIOUS
<1>1. PICK name : name = NodeName(At(t, s))
  OBVIOUS
<1>2. PICK k, sink : k = Slug[name] /\ sink = SinkOf(t, sp, s)
  OBVIOUS
<1>3. s \in SitesOf(t, m) /\ At(t, s).c = "node" /\ s[1] = m
  BY <1>0 DEF SitesOf, AnchorsAt
<1>4. <<k, m>> \in NameUses(t)
  BY <1>1, <1>2, <1>3, NamesAreUsed, Zenon
<1>5. /\ k \in DOMAIN run.ids <=> MakersOf(t, m, k) # {} \/ \E j \in PromotersOf(t, sp, m, k) : <<m, j>> \in S
      /\ k \in DOMAIN run.ids => run.ids[k] = Owner(t, sp, m, k)
  BY <1>4, Zenon DEF OwnersAre
<1>6. ASSUME k \notin DOMAIN run.ids PROVE sink = Owner(t, sp, m, k)
  <2>1. PICK P : P = PromotersOf(t, sp, m, k)
    OBVIOUS
  <2>2. i \in P /\ P \subseteq DOMAIN t.text[m].body
    BY <1>0, <1>1, <1>2, <2>1 DEF PromotersOf
  <2>3. P \in SUBSET Nat
    BY <2>2, BodyIsNumbered
  <2>4. PICK e : e = Earliest(P)
    OBVIOUS
  <2>5. e \in P /\ e <= i
    BY <2>2, <2>3, <2>4, EarliestIs
  <2>6. AnchorsAt(t, sp, <<m, e>>) # {}
    BY <2>1, <2>5 DEF PromotersOf
  <2>7. At(t, <<m, e>>).c = "node"
    BY <2>6 DEF AnchorsAt
  <2>8. <<m, e>> \notin S
    BY <1>5, <1>6, <2>1, <2>5
  <2>9. ~(e < i)
    BY <2>2, <2>5, <2>7, <2>8 DEF NodesUpTo
  <2>10. e = i
    BY <2>2, <2>3, <2>5, <2>9
  <2>11. MakersOf(t, m, k) = {}
    BY <1>5, <1>6
  <2> QED
    BY <1>0, <1>2, <2>1, <2>2, <2>4, <2>10, <2>11 DEF Owner
<1>7. AgentId(run, name, sink) = IdOf(t, sp, m, name, sink)
  BY <1>2, <1>5, <1>6 DEF AgentId, IdOf
<1> QED
  BY <1>0, <1>1, <1>2, <1>5, <1>6, <1>7 DEF Promotes

\* One node more adds what it promotes.
LEMMA OneMorePromotion ==
    ASSUME NEW t, NEW sp, NEW S, NEW s
    PROVE  MorePromotions(t, sp, S, s)
<1>1. PromotionsOf(t, sp, S \cup {s}) = PromotionsOf(t, sp, S) \cup PromotionFacts(t, sp, s)
  BY DEF PromotionsOf
<1>2. SpentAt(t, sp, S \cup {s}) = SpentAt(t, sp, S) \cup AnchorsAt(t, sp, s)
  BY DEF SpentAt
<1> QED
  BY <1>1, <1>2 DEF MorePromotions

\* The owners after a promotion.
LEMMA PromotionKeepsOwners ==
    ASSUME NEW t, GoodTree(t), Separated(t), NEW sp, NEW only \in SUBSET DOMAIN t.text, NEW S,
           NEW run, IsRun(run), OwnersAre(t, sp, only, S, run.ids),
           NEW m \in only, NEW i \in DOMAIN t.text[m].body, NodesUpTo(t, S, m, i),
           AnchorsAt(t, sp, <<m, i>>) # {}
    PROVE  OwnersAre(t, sp, only, S \cup {<<m, i>>},
                     Registered(run, NodeName(At(t, <<m, i>>)), SinkOf(t, sp, <<m, i>>)).ids)
<1>0. PICK s : s = <<m, i>>
  OBVIOUS
<1>1. PICK name : name = NodeName(At(t, s))
  OBVIOUS
<1>2. PICK k, sink : k = Slug[name] /\ sink = SinkOf(t, sp, s)
  OBVIOUS
<1>3. s \in SitesOf(t, m) /\ At(t, s).c = "node" /\ s[1] = m
  BY <1>0 DEF SitesOf, AnchorsAt
<1>4. <<k, m>> \in NameUses(t)
  BY <1>1, <1>2, <1>3, NamesAreUsed, Zenon
<1>5. Promotes(t, sp, run, m, s, name)
  <2>1. Promotes(t, sp, run, m, <<m, i>>, NodeName(At(t, <<m, i>>)))
    BY PromoterGetsId
  <2> QED
    BY <1>0, <1>1, <2>1
<1> DEFINE longer == [x \in DOMAIN run.ids \cup {k} |-> IF x = k THEN sink ELSE run.ids[x]]
           ids == Registered(run, name, sink).ids
<1>6. ids = IF AgentId(run, name, sink) # BareId(name) THEN run.ids ELSE longer
  BY <1>2, RegisteredIds
<1>7. /\ DOMAIN longer = DOMAIN run.ids \cup {k}
      /\ \A x \in DOMAIN longer : longer[x] = IF x = k THEN sink ELSE run.ids[x]
  OBVIOUS
<1> HIDE DEF longer, ids
<1>8. BareId(name) \o sink # BareId(name)
  <2>1. LocalNodes(t, m)
    BY NodesAreLocal
  <2>2. sink \in SitesOf(t, m)
    BY <1>0, <1>2, <1>3, <2>1, SinkIs
  <2>3. Pair(sink)
    BY <2>2 DEF SitesOf, Pair
  <2> QED
    BY <2>3, AgentIdIs, Zenon
<1>9. k \in DOMAIN run.ids /\ run.ids[k] # sink => ids = run.ids
  BY <1>2, <1>6, <1>8 DEF AgentId
<1>10. k \notin DOMAIN run.ids => ids = longer
  BY <1>2, <1>6 DEF AgentId
<1>11. ids = run.ids \/ ids = longer
  BY <1>6
<1>12. /\ k \in DOMAIN run.ids => run.ids[k] = Owner(t, sp, m, k)
       /\ k \notin DOMAIN run.ids => sink = Owner(t, sp, m, k)
  BY <1>2, <1>5 DEF Promotes
<1>13. /\ k \in DOMAIN ids /\ ids[k] = Owner(t, sp, m, k)
       /\ \A x : x # k => (x \in DOMAIN ids <=> x \in DOMAIN run.ids) /\ (x \in DOMAIN run.ids => ids[x] = run.ids[x])
  <2>1. CASE k \notin DOMAIN run.ids
    BY <1>7, <1>10, <1>12, <2>1
  <2>2. CASE k \in DOMAIN run.ids /\ run.ids[k] # sink
    BY <1>9, <1>12, <2>2
  <2>3. CASE k \in DOMAIN run.ids /\ run.ids[k] = sink
    BY <1>7, <1>11, <1>12, <2>3
  <2> QED
    BY <2>1, <2>2, <2>3
<1>14. ASSUME NEW x, NEW n \in only, <<x, n>> \in NameUses(t)
       PROVE  /\ x \in DOMAIN ids <=> \/ MakersOf(t, n, x) # {}
                                      \/ \E j \in PromotersOf(t, sp, n, x) : <<n, j>> \in S \cup {s}
              /\ x \in DOMAIN ids => ids[x] = Owner(t, sp, n, x)
  <2>1. /\ x \in DOMAIN run.ids <=> MakersOf(t, n, x) # {} \/ \E j \in PromotersOf(t, sp, n, x) : <<n, j>> \in S
        /\ x \in DOMAIN run.ids => run.ids[x] = Owner(t, sp, n, x)
    BY <1>14, Zenon DEF OwnersAre
  <2>2. CASE x = k
    <3>1. n = m
      BY <1>4, <1>14, <2>2, NamesAreApart
    <3>2. i \in PromotersOf(t, sp, n, x)
      BY <1>0, <1>1, <1>2, <2>2, <3>1 DEF PromotersOf
    <3>3. \E j \in PromotersOf(t, sp, n, x) : <<n, j>> \in S \cup {s}
      BY <1>0, <3>1, <3>2
    <3> QED
      BY <1>13, <2>2, <3>1, <3>3
  <2>3. CASE x # k
    <3>1. ASSUME NEW j \in PromotersOf(t, sp, n, x), <<n, j>> = s PROVE FALSE
      <4>1. Slug[NodeName(At(t, <<n, j>>))] = x
        BY DEF PromotersOf
      <4> QED
        BY <1>1, <1>2, <2>3, <3>1, <4>1
    <3> QED
      BY <1>13, <2>1, <2>3, <3>1, Zenon
  <2> QED
    BY <2>2, <2>3, Zenon
<1>15. OwnersAre(t, sp, only, S \cup {s}, ids)
  BY <1>14, Zenon DEF OwnersAre
<1> QED
  BY <1>0, <1>1, <1>2, <1>15 DEF ids

\* The parts of the run after a promotion.
LEMMA PromotedParts ==
    ASSUME NEW t, NEW sp, NEW run, NEW cand, NEW sink, sink = The(Anchors(t, sp, cand)),
           NEW adds, adds = PromotionAdds(t, sp, cand, AgentId(run, cand.name, sink)),
           NEW next, next = PromotedWith(t, sp, run, cand)
    PROVE  PartsAre(t, sp, run, cand, sink, adds, next)
<1> DEFINE ids == Registered(run, cand.name, sink).ids
           consumed == run.consumed \cup Anchors(t, sp, cand)
           facts == run.facts \o adds
<1>1. next = RunOf(facts, ids, run.marks, run.cands, run.routes, run.crews, consumed)
  BY DEF PromotedWith
<1> HIDE DEF facts, ids, consumed
<1>2. /\ next.facts = facts /\ next.ids = ids /\ next.routes = run.routes
      /\ next.crews = run.crews /\ next.consumed = consumed
  BY <1>1
<1> QED
  BY <1>2 DEF facts, ids, consumed, PartsAre

\* The promotion of one node.
LEMMA PromotionStep ==
    ASSUME NEW t, GoodTree(t), Separated(t), NEW only \in SUBSET DOMAIN t.text,
           NEW sp, sp = SinkSites(t, only), NEW carried, NEW B, NEW start, NEW S,
           NEW run, Promoting(t, sp, only, carried, B, start, S, run),
           NEW m \in only, NEW i \in DOMAIN t.text[m].body, NodesUpTo(t, S, m, i),
           At(t, <<m, i>>).c = "node"
    PROVE  Promoting(t, sp, only, carried, B, start, S \cup {<<m, i>>}, Promoted(t, sp, run, CandAt(t, <<m, i>>)))
<1>1. PICK s : s = <<m, i>>
  OBVIOUS
<1>2. s \in SitesOf(t, m) /\ At(t, s).c = "node" /\ s[1] = m
  BY <1>1 DEF SitesOf
<1>3. PICK cand : cand = CandAt(t, s) /\ cand.name = NodeName(At(t, s)) /\ cand.site = s
  BY CandIs
<1>4. PICK next : next = Promoted(t, sp, run, cand)
  OBVIOUS
<1>5. RunInv(only, carried, run) /\ IsRun(run)
  BY DEF Promoting, RunInv
<1>6. RunInv(only, carried, next)
  BY <1>4, <1>5, PromotedKeeps
<1>7. Anchors(t, sp, cand) = AnchorsAt(t, sp, s)
  BY <1>2, <1>3 DEF AnchorsAt
<1>8. MorePromotions(t, sp, S, s)
  BY OneMorePromotion
<1>9. CASE AnchorsAt(t, sp, s) = {}
  <2>1. next = run
    BY <1>4, <1>5, <1>7, <1>9, PromotedIs
  <2>2. PromotionFacts(t, sp, s) = {}
    BY <1>9 DEF PromotionFacts
  <2>3. OwnersAre(t, sp, only, S \cup {s}, run.ids)
    <3>1. ASSUME NEW k, NEW n \in only
          PROVE  (\E j \in PromotersOf(t, sp, n, k) : <<n, j>> \in S)
                 <=> (\E j \in PromotersOf(t, sp, n, k) : <<n, j>> \in S \cup {s})
      <4>1. \A j \in PromotersOf(t, sp, n, k) : <<n, j>> # s
        BY <1>9 DEF PromotersOf
      <4> QED
        BY <4>1, Zenon
    <3>2. OwnersAre(t, sp, only, S, run.ids)
      BY DEF Promoting
    <3> QED
      BY <3>1, <3>2, Zenon DEF OwnersAre
  <2>4. Promoting(t, sp, only, carried, B, start, S \cup {s}, run)
    BY <1>8, <1>9, <2>2, <2>3 DEF Promoting, MorePromotions
  <2> QED
    BY <1>1, <1>3, <1>4, <2>1, <2>4
<1>10. CASE AnchorsAt(t, sp, s) # {}
  <2>1. next = PromotedWith(t, sp, run, cand)
    BY <1>4, <1>5, <1>7, <1>10, PromotedIs
  <2>2. PICK sink : sink = SinkOf(t, sp, s) /\ sink = The(Anchors(t, sp, cand))
    BY <1>7 DEF SinkOf
  <2>3. PICK id : id = AgentId(run, cand.name, sink)
    OBVIOUS
  <2>4. PICK adds : adds = PromotionAdds(t, sp, cand, id)
    OBVIOUS
  <2>5. /\ next.facts = run.facts \o adds /\ next.ids = Registered(run, cand.name, sink).ids
        /\ next.routes = run.routes /\ next.crews = run.crews /\ next.consumed = run.consumed \cup AnchorsAt(t, sp, s)
    <3>1. sink = The(Anchors(t, sp, cand)) /\ adds = PromotionAdds(t, sp, cand, AgentId(run, cand.name, sink))
      BY <2>2, <2>3, <2>4
    <3>2. PartsAre(t, sp, run, cand, sink, adds, next)
      BY <2>1, <3>1, PromotedParts
    <3> QED
      BY <1>7, <3>2 DEF PartsAre
  <2>6. OwnersAre(t, sp, only, S, run.ids)
    BY DEF Promoting
  <2>7. AnchorsAt(t, sp, <<m, i>>) # {}
    BY <1>1, <1>10
  <2>8. OwnersAre(t, sp, only, S \cup {s}, next.ids)
    <3>1. OwnersAre(t, sp, only, S \cup {<<m, i>>},
                     Registered(run, NodeName(At(t, <<m, i>>)), SinkOf(t, sp, <<m, i>>)).ids)
      BY <1>5, <2>6, <2>7, PromotionKeepsOwners, Zenon
    <3> QED
      BY <1>1, <1>3, <2>2, <2>5, <3>1
  <2>9. LocalNodes(t, m)
    BY NodesAreLocal
  <2>10. id = IdOf(t, sp, m, NodeName(At(t, s)), sink)
    <3>1. Promotes(t, sp, run, m, <<m, i>>, NodeName(At(t, <<m, i>>)))
      BY <2>6, <2>7, PromoterGetsId
    <3> QED
      BY <1>1, <1>3, <2>2, <2>3, <3>1 DEF Promotes
  <2>11. PromotionFacts(t, sp, s) = ToSet(adds)
    BY <1>2, <1>3, <1>10, <2>2, <2>4, <2>10 DEF PromotionFacts
  <2>12. IsList(adds)
    <3>1. Pair(sink)
      <4>1. sink \in SitesOf(t, m)
        <5>1. m \in DOMAIN t.text
          OBVIOUS
        <5>2. SinkOf(t, sp, s) \in AnchorsAt(t, sp, s)
          BY <1>2, <1>10, <2>9, <5>1, SinkIs
        <5>3. \A a \in AnchorsAt(t, sp, s) : a \in SitesOf(t, m)
          BY <1>2, <2>9, <5>1, SinkIs
        <5> QED
          BY <2>2, <5>2, <5>3
      <4> QED
        BY <4>1 DEF SitesOf, Pair
    <3>2. id[1] = "agent"
      BY <2>3, <3>1, AgentIdIs
    <3> QED
      BY <1>2, <1>3, <1>10, <2>4, <2>9, <3>2, PromotionFactsAre, Zenon
  <2>13. ToSet(next.facts) = ToSet(run.facts) \cup PromotionFacts(t, sp, s)
    BY <1>5, <2>5, <2>11, <2>12, Concatenated DEF IsRun
  <2>14. Promoting(t, sp, only, carried, B, start, S \cup {s}, next)
    BY <1>6, <1>8, <2>5, <2>8, <2>13, Zenon DEF Promoting, MorePromotions
  <2> QED
    BY <1>1, <1>3, <1>4, <2>14
<1> QED
  BY <1>9, <1>10

\* Every candidate is a node of an analysed module, and comes after those before it.
LEMMA NextIs ==
    ASSUME NEW t, GoodTree(t), NEW only \in SUBSET DOMAIN t.text, NEW cands, CandsAre(t, AllSites(t, only), cands),
           NEW n \in Nat, DOMAIN cands = 1..n, NEW k \in Nat, k + 1 <= n
    PROVE  \E m, i : IsNext(t, only, cands, k, m, i)
<1>1. PICK a : a = k + 1
  OBVIOUS
<1>2. a \in 1..n /\ a \in DOMAIN cands
  BY <1>1
<1>3. cands[a] \in ToSet(cands)
  BY <1>2 DEF ToSet
<1>4. PICK s \in AllSites(t, only) : At(t, s).c = "node" /\ cands[a] = CandAt(t, s)
  BY <1>3 DEF CandsAre
<1>5. PICK m \in only : s \in SitesOf(t, m)
  BY <1>4 DEF AllSites
<1>6. PICK i \in DOMAIN t.text[m].body : s = <<m, i>>
  BY <1>5 DEF SitesOf
<1>7. cands[a].site = s
  BY <1>4, CandIs
<1>8. DOMAIN t.text[m].body \subseteq Nat
  BY BodyIsNumbered
<1>9. ASSUME NEW e \in DOMAIN t.text[m].body, At(t, <<m, e>>).c = "node", e < i
      PROVE  <<m, e>> \in FirstCands(cands, k)
  <2>1. PICK r : r = <<m, e>>
    BY Zenon
  <2>2. r \in AllSites(t, only)
    BY <2>1 DEF AllSites, SitesOf
  <2>3. CandAt(t, r) \in ToSet(cands)
    BY <1>9, <2>1, <2>2 DEF CandsAre
  <2>4. PICK b \in 1..n : cands[b] = CandAt(t, r)
    BY <2>3 DEF ToSet
  <2>5. cands[b].site = r
    BY <2>4, CandIs
  <2>6. b # a
    BY <1>6, <1>7, <1>8, <1>9, <2>1, <2>5
  <2>7. ~(a < b)
    <3>1. ASSUME a < b PROVE i < e
      <4>1. b \in DOMAIN cands /\ cands[a].site[1] = cands[b].site[1]
        BY <1>6, <1>7, <2>1, <2>5
      <4>2. cands[a].site[2] < cands[b].site[2]
        BY <1>2, <3>1, <4>1 DEF CandsAre
      <4> QED
        BY <1>6, <1>7, <2>1, <2>5, <4>2
    <3>2. e \in Nat /\ i \in Nat
      BY <1>8
    <3> QED
      BY <1>9, <3>1, <3>2
  <2>8. b \in 1..k
    BY <1>1, <2>6, <2>7
  <2> QED
    BY <2>1, <2>5, <2>8 DEF FirstCands
<1>10. NodesUpTo(t, FirstCands(cands, k), m, i)
  BY <1>9 DEF NodesUpTo
<1>11. FirstCands(cands, a) = FirstCands(cands, k) \cup {s}
  <2>1. 1..a = (1..k) \cup {a}
    BY <1>1
  <2> QED
    BY <1>7, <2>1 DEF FirstCands
<1>12. IsNext(t, only, cands, k, m, i)
  BY <1>1, <1>4, <1>6, <1>10, <1>11 DEF IsNext
<1> QED
  BY <1>12

\* The promotions give the agents of all nodes whose function calls a model.
LEMMA PromotionsDone ==
    ASSUME NEW t, GoodTree(t), Separated(t), NEW only \in SUBSET DOMAIN t.text,
           NEW sp, sp = SinkSites(t, only), NEW carried, NEW start, RunInv(only, carried, start),
           start.consumed = {}, CandsAre(t, AllSites(t, only), start.cands),
           IdsAre(t, only, AllSites(t, only), start.ids)
    PROVE  Promotings(t, sp, only, carried, ToSet(start.facts), start, Promote(t, sp, start))
<1>0. PICK n, f : PromotedThrough(t, sp, start, n, f)
  BY PromoteAre DEF RunInv
<1>1. /\ n \in Nat /\ n = Len(start.cands) /\ DOMAIN start.cands = 1..n
      /\ f[0] = start
      /\ \A i \in 1..n : f[i] = Promoted(t, sp, f[i - 1], start.cands[i])
      /\ Promote(t, sp, start) = f[n]
  BY <1>0 DEF PromotedThrough
<1>2. PICK cands, B : cands = start.cands /\ B = ToSet(start.facts)
  OBVIOUS
<1> DEFINE Good == {k \in Nat : k <= n => Promoting(t, sp, only, carried, B, start, FirstCands(cands, k), f[k])}
<1>3. 0 \in Good
  <2>1. FirstCands(cands, 0) = {}
    BY DEF FirstCands
  <2>2. PromotionsOf(t, sp, {}) = {} /\ SpentAt(t, sp, {}) = {}
    BY DEF PromotionsOf, SpentAt
  <2>3. OwnersAre(t, sp, only, {}, start.ids)
    <3>1. ASSUME NEW k, NEW m \in only, <<k, m>> \in NameUses(t)
          PROVE  /\ k \in DOMAIN start.ids <=> MakersOf(t, m, k) # {}
                 /\ k \in DOMAIN start.ids => start.ids[k] = Owner(t, sp, m, k)
      <4>1. \A j \in MakersOf(t, m, k) : <<m, j>> \in AllSites(t, only)
        BY DEF MakersOf, AllSites, SitesOf
      <4>2. /\ k \in DOMAIN start.ids <=> \E j \in MakersOf(t, m, k) : <<m, j>> \in AllSites(t, only)
            /\ k \in DOMAIN start.ids => start.ids[k] = <<m, Earliest(MakersOf(t, m, k))>>
        BY <3>1, Zenon DEF IdsAre
      <4> QED
        BY <4>1, <4>2, Zenon DEF Owner
    <3> QED
      BY <3>1 DEF OwnersAre
  <2>4. Promoting(t, sp, only, carried, B, start, {}, start)
    BY <1>2, <2>2, <2>3 DEF Promoting
  <2> QED
    BY <1>1, <2>1, <2>4, Zenon
<1>4. ASSUME NEW k \in Nat, k \in Good PROVE k + 1 \in Good
  <2>1. CASE ~(k + 1 <= n)
    BY <2>1
  <2>2. CASE k + 1 <= n
    <3>0. PICK a : a = k + 1
      OBVIOUS
    <3>1. a \in 1..n /\ a - 1 = k /\ a \in Nat /\ k <= n
      <4>1. n \in Nat
        BY <1>1
      <4> QED
        BY <2>2, <3>0, <4>1
    <3>2. PICK m, i : IsNext(t, only, cands, k, m, i)
      BY <1>1, <1>2, <2>2, NextIs
    <3>3. PICK run : run = f[k]
      OBVIOUS
    <3>4. PICK S : S = FirstCands(cands, k)
      OBVIOUS
    <3>5. Promoting(t, sp, only, carried, B, start, S, run)
      BY <1>4, <3>1, <3>3, <3>4
    <3>6. f[a] = Promoted(t, sp, run, CandAt(t, <<m, i>>))
      <4>1. cands[a] = CandAt(t, <<m, i>>)
        BY <3>0, <3>2 DEF IsNext
      <4>2. f[a] = Promoted(t, sp, f[a - 1], cands[a])
        BY <1>1, <1>2, <3>1
      <4> QED
        BY <3>1, <3>3, <4>1, <4>2
    <3>7. Promoting(t, sp, only, carried, B, start, S \cup {<<m, i>>}, Promoted(t, sp, run, CandAt(t, <<m, i>>)))
      BY <3>2, <3>4, <3>5, PromotionStep DEF IsNext
    <3>8. FirstCands(cands, a) = S \cup {<<m, i>>}
      BY <3>0, <3>2, <3>4 DEF IsNext
    <3>9. Promoting(t, sp, only, carried, B, start, FirstCands(cands, a), f[a])
      BY <3>6, <3>7, <3>8
    <3>10. a \in Good
      BY <3>1, <3>9
    <3> HIDE DEF Good
    <3> QED
      BY <3>0, <3>10
  <2> QED
    BY <2>1, <2>2
<1> HIDE DEF Good
<1>5. \A k \in Nat : k \in Good
  BY <1>3, <1>4, SetInduction
<1>6. n \in Good /\ n <= n
  <2>1. n \in Nat /\ n <= n
    BY <1>1
  <2> QED
    BY <1>5, <2>1
<1>7. PICK run, S, A : run = f[n] /\ S = FirstCands(cands, n) /\ A = AllSites(t, only)
  OBVIOUS
<1>8. Promoting(t, sp, only, carried, B, start, S, run)
  BY <1>6, <1>7 DEF Good
<1>9. S \subseteq A
  <2>1. ASSUME NEW b \in 1..n PROVE cands[b].site \in A
    <3>1. cands[b] \in ToSet(cands)
      BY <1>1, <1>2 DEF ToSet
    <3>2. PICK s \in A : cands[b] = CandAt(t, s)
      BY <1>2, <1>7, <3>1 DEF CandsAre
    <3> QED
      BY <3>2, CandIs
  <2> QED
    BY <1>7, <2>1 DEF FirstCands
<1>10. ASSUME NEW s \in A, AnchorsAt(t, sp, s) # {} PROVE s \in S
  <2>1. At(t, s).c = "node"
    BY <1>10 DEF AnchorsAt
  <2>2. CandAt(t, s) \in ToSet(cands)
    BY <1>2, <1>7, <2>1 DEF CandsAre
  <2>3. PICK b \in 1..n : cands[b] = CandAt(t, s)
    BY <1>1, <1>2, <2>2 DEF ToSet
  <2>4. cands[b].site = s
    BY <2>3, CandIs
  <2> QED
    BY <1>7, <2>4 DEF FirstCands
<1>11. PromotionsOf(t, sp, S) = PromotionsOf(t, sp, A)
  <2>1. \A s \in A \ S : PromotionFacts(t, sp, s) = {}
    BY <1>10 DEF PromotionFacts
  <2> QED
    BY <1>9, <2>1 DEF PromotionsOf
<1>12. SpentAt(t, sp, S) = SpentAt(t, sp, A)
  <2>1. \A s \in A \ S : AnchorsAt(t, sp, s) = {}
    BY <1>10
  <2> QED
    BY <1>9, <2>1 DEF SpentAt
<1>13. OwnersAre(t, sp, only, A, run.ids)
  <2>1. ASSUME NEW k, NEW m \in only
        PROVE  (\E j \in PromotersOf(t, sp, m, k) : <<m, j>> \in S)
               <=> (\E j \in PromotersOf(t, sp, m, k) : <<m, j>> \in A)
    <3>1. \A j \in PromotersOf(t, sp, m, k) : AnchorsAt(t, sp, <<m, j>>) # {}
      BY DEF PromotersOf
    <3> QED
      BY <1>9, <1>10, <3>1
  <2>2. OwnersAre(t, sp, only, S, run.ids)
    BY <1>8 DEF Promoting
  <2> QED
    BY <2>1, <2>2, Zenon DEF OwnersAre
<1>14. Promoting(t, sp, only, carried, B, start, A, run)
  BY <1>8, <1>11, <1>12, <1>13 DEF Promoting
<1> QED
  BY <1>1, <1>2, <1>7, <1>14 DEF Promotings

(***************************************************************************)
(* The run before the flags                                                *)
(***************************************************************************)

\* What is carried and what is configured joins the facts of the rules.
LEMMA GatheredIs ==
    ASSUME NEW t, GoodTree(t), NEW sp, NEW only, NEW carried, GoodCarried(carried),
           NEW run, Scanning(t, sp, only, carried, AllSites(t, only), only, run), NEW marks, IsList(marks),
           NEW merged, merged = WithMarks(Emit(run, ConfigFacts(t) \o carried), marks)
    PROVE  Gathered(t, sp, only, carried, merged)
<1>1. PICK config : config = ConfigFacts(t) /\ Plain(config)
  BY ConfigIsPlain DEF GoodTree
<1>2. PICK facts : facts = config \o carried
  BY Zenon
<1>3. IsList(facts) /\ ToSet(facts) = ToSet(config) \cup ToSet(carried)
  BY <1>1, <1>2, Concatenated DEF Plain, GoodCarried
<1>4. \A f \in ToSet(facts) : Kinded(f) /\ (f.k = "agent" => f \in ToSet(carried))
  BY <1>1, <1>3 DEF Plain, PlainFact, GoodCarried
<1>5. IsRun(run) /\ RunInv(only, carried, run) /\ RulesAre(t, sp, only, AllSites(t, only), only, run)
  BY DEF Scanning, RunInv
<1>6. PICK joined : joined = Emit(run, facts)
  OBVIOUS
<1>7. /\ joined.facts = run.facts \o facts /\ joined.ids = run.ids /\ joined.cands = run.cands
      /\ joined.routes = run.routes /\ joined.crews = run.crews /\ joined.consumed = run.consumed
  <2>1. joined = RunOf(run.facts \o facts, run.ids, run.marks, run.cands, run.routes, run.crews, run.consumed)
    BY <1>5, <1>6, EmitOnlyFacts, Zenon
  <2> QED
    BY <2>1
<1>8. IsRun(joined) /\ ToSet(joined.facts) = ToSet(run.facts) \cup ToSet(facts)
  BY <1>3, <1>5, <1>6, EmitIs, Zenon
<1>9. RunInv(only, carried, joined)
  BY <1>4, <1>5, <1>7, <1>8 DEF RunInv
<1>10. merged = WithMarks(joined, marks)
  BY <1>1, <1>2, <1>6
<1>11. RunInv(only, carried, merged)
  BY <1>9, <1>10, MarksCollected
<1>12. /\ merged.facts = joined.facts /\ merged.ids = joined.ids /\ merged.cands = joined.cands
       /\ merged.routes = joined.routes /\ merged.crews = joined.crews /\ merged.consumed = joined.consumed
  <2>1. PICK all : all = joined.marks \o marks
    BY Zenon
  <2>2. merged = [joined EXCEPT !.marks = all]
    BY <1>10, <2>1, Zenon DEF WithMarks
  <2>3. merged = RunOf(joined.facts, joined.ids, all, joined.cands, joined.routes, joined.crews, joined.consumed)
    BY <1>8, <2>2, RunWith, Zenon
  <2> QED
    BY <2>3
<1>13. ToSet(merged.facts) = ScannedFacts(t, sp, only, carried)
  BY <1>1, <1>3, <1>5, <1>8, <1>12 DEF RulesAre, ScannedFacts
<1> QED
  BY <1>5, <1>7, <1>11, <1>12, <1>13 DEF Gathered, RulesAre

\* The ids of agents among the facts of a run.
LEMMA AgentIdsIs ==
    ASSUME NEW run, NEW id
    PROVE  id \in AgentIds(run) <=> \E g \in ToSet(run.facts) : g.k = "agent" /\ g.id = id
<1>1. ASSUME NEW g \in ToSet(run.facts), g.k = "agent", g.id = id PROVE id \in AgentIds(run)
  <2>1. PICK i \in DOMAIN run.facts : g = run.facts[i]
    BY DEF ToSet
  <2> QED
    BY <1>1, <2>1 DEF AgentIds
<1>2. ASSUME id \in AgentIds(run) PROVE \E g \in ToSet(run.facts) : g.k = "agent" /\ g.id = id
  <2>1. PICK i \in DOMAIN run.facts : run.facts[i].k = "agent" /\ run.facts[i].id = id
    BY <1>2 DEF AgentIds
  <2> QED
    BY <2>1 DEF ToSet
<1> QED
  BY <1>1, <1>2

\* A made or promoted agent, by its parts.
LEMMA MadeIs ==
    ASSUME NEW t, NEW sp, NEW s
    PROVE  /\ MadeAgent(t, sp, s).k = "agent"
           /\ MadeAgent(t, sp, s).id = IdOf(t, sp, s[1], At(t, s).name, s)
           /\ PromotedAgent(t, sp, s).k = "agent"
           /\ PromotedAgent(t, sp, s).id = IdOf(t, sp, s[1], NodeName(At(t, s)), SinkOf(t, sp, s))
<1>1. ASSUME NEW id, NEW name, NEW method, NEW ev, NEW src
      PROVE  AgentFact(id, name, method, ev, src).k = "agent" /\ AgentFact(id, name, method, ev, src).id = id
  BY DEF AgentFact
<1> QED
  BY <1>1 DEF MadeAgent, PromotedAgent, AgentOf

\* If a module claims a slug, one of its agents has the bare id.
LEMMA OwnerHasBareId ==
    ASSUME NEW t, GoodTree(t), NEW sp, NEW m \in DOMAIN t.text, NEW k
    PROVE  ClaimIs(t, sp, m, k)
<1>1. ASSUME MakersOf(t, m, k) # {}
      PROVE  \E s \in SitesOf(t, m) : Makes(t, s) /\ MadeAgent(t, sp, s).id = <<"agent", k>>
  <2>1. PICK i : i = Earliest(MakersOf(t, m, k))
    OBVIOUS
  <2>2. i \in MakersOf(t, m, k)
    BY <1>1, <2>1, MakersAre
  <2>3. PICK s : s = <<m, i>>
    BY Zenon
  <2>4. s \in SitesOf(t, m) /\ Makes(t, s) /\ Slug[At(t, s).name] = k /\ s[1] = m
    BY <2>2, <2>3 DEF MakersOf, SitesOf
  <2>5. Owner(t, sp, m, k) = s
    BY <1>1, <2>1, <2>3 DEF Owner
  <2>6. MadeAgent(t, sp, s).id = BareId(At(t, s).name)
    BY <2>4, <2>5, MadeIs DEF IdOf
  <2> QED
    BY <2>4, <2>6 DEF BareId
<1>2. ASSUME MakersOf(t, m, k) = {}, PromotersOf(t, sp, m, k) # {}
      PROVE  \E s \in SitesOf(t, m) : AnchorsAt(t, sp, s) # {} /\ PromotedAgent(t, sp, s).id = <<"agent", k>>
  <2>1. PICK i : i = Earliest(PromotersOf(t, sp, m, k))
    OBVIOUS
  <2>2. i \in PromotersOf(t, sp, m, k)
    <3>1. PromotersOf(t, sp, m, k) \subseteq DOMAIN t.text[m].body
      BY DEF PromotersOf
    <3>2. PromotersOf(t, sp, m, k) \in SUBSET Nat
      BY <3>1, BodyIsNumbered
    <3> QED
      BY <1>2, <2>1, <3>2, EarliestIs
  <2>3. PICK s : s = <<m, i>>
    BY Zenon
  <2>4. s \in SitesOf(t, m) /\ AnchorsAt(t, sp, s) # {} /\ Slug[NodeName(At(t, s))] = k /\ s[1] = m
    BY <2>2, <2>3 DEF PromotersOf, SitesOf
  <2>5. Owner(t, sp, m, k) = SinkOf(t, sp, s)
    BY <1>2, <2>1, <2>3 DEF Owner
  <2>6. PromotedAgent(t, sp, s).id = BareId(NodeName(At(t, s)))
    BY <2>4, <2>5, MadeIs DEF IdOf
  <2> QED
    BY <2>4, <2>6 DEF BareId
<1> QED
  BY <1>1, <1>2 DEF ClaimIs

\* An agent of the analysed modules claims its name in one of them.
LEMMA AgentIsClaimed ==
    ASSUME NEW t, GoodTree(t), Separated(t), NEW sp, NEW only \in SUBSET DOMAIN t.text,
           NEW g \in RulesOf(t, sp, AllSites(t, only)) \cup DeclaredOf(t, sp, only)
                       \cup PromotionsOf(t, sp, AllSites(t, only)),
           g.k = "agent"
    PROVE  \E m \in only : <<g.id[2], m>> \in NameUses(t) /\ Claimed(t, sp, m, g.id[2])
<1>1. ASSUME NEW s \in AllSites(t, only), g \in RuleFacts(t, sp, s)
      PROVE  \E m \in only : <<g.id[2], m>> \in NameUses(t) /\ Claimed(t, sp, m, g.id[2])
  <2>1. PICK m \in only : s \in SitesOf(t, m)
    BY <1>1 DEF AllSites
  <2>2. Makes(t, s) /\ g = MadeAgent(t, sp, s) /\ s[1] = m /\ Pair(s) /\ s[2] \in DOMAIN t.text[m].body
    <3>1. Settled(t, sp, m, g) \/ (Makes(t, s) /\ g = MadeAgent(t, sp, s))
      BY <1>1, <2>1, RuleFactsAre, Zenon
    <3>2. s[1] = m /\ Pair(s) /\ s[2] \in DOMAIN t.text[m].body
      BY <2>1, RuleFactsAre
    <3> QED
      BY <3>1, <3>2 DEF Settled
  <2>3. PICK name : name = At(t, s).name
    OBVIOUS
  <2>4. g.id = IdOf(t, sp, m, name, s)
    BY <2>2, <2>3, MadeIs
  <2>5. g.id[2] = Slug[name]
    BY <2>2, <2>4, IdIs
  <2>6. <<Slug[name], m>> \in NameUses(t)
    BY <2>1, <2>2, <2>3, NamesAreUsed, Zenon
  <2>7. s[2] \in MakersOf(t, m, Slug[name])
    BY <2>2, <2>3 DEF MakersOf, Pair
  <2> QED
    BY <2>5, <2>6, <2>7 DEF Claimed
<1>2. ASSUME NEW s \in AllSites(t, only), g \in PromotionFacts(t, sp, s)
      PROVE  \E m \in only : <<g.id[2], m>> \in NameUses(t) /\ Claimed(t, sp, m, g.id[2])
  <2>1. PICK m \in only : s \in SitesOf(t, m)
    BY <1>2 DEF AllSites
  <2>2. LocalNodes(t, m)
    BY NodesAreLocal
  <2>3. AnchorsAt(t, sp, s) # {}
    BY <1>2 DEF PromotionFacts
  <2>4. g = PromotedAgent(t, sp, s)
    <3>1. Settled(t, sp, m, g) \/ g = PromotedAgent(t, sp, s)
      BY <1>2, <2>1, <2>2, <2>3, PromotionFactsAre
    <3> QED
      BY <3>1 DEF Settled
  <2>5. PICK name, sink : name = NodeName(At(t, s)) /\ sink = SinkOf(t, sp, s)
    OBVIOUS
  <2>6. s[1] = m /\ s = <<m, s[2]>> /\ s[2] \in DOMAIN t.text[m].body
    BY <2>1 DEF SitesOf
  <2>7. At(t, s).c = "node" /\ Pair(sink)
    <3>1. m \in DOMAIN t.text
      OBVIOUS
    <3>2. At(t, s).c = "node" /\ SinkOf(t, sp, s) \in AnchorsAt(t, sp, s)
      BY <2>1, <2>2, <2>3, <3>1, SinkIs
    <3>3. \A a \in AnchorsAt(t, sp, s) : a \in SitesOf(t, m)
      BY <2>1, <2>2, <3>1, SinkIs
    <3>4. sink \in SitesOf(t, m)
      BY <2>5, <3>2, <3>3
    <3> QED
      BY <3>2, <3>4 DEF SitesOf, Pair
  <2>8. g.id = IdOf(t, sp, m, name, sink)
    BY <2>4, <2>5, <2>6, MadeIs
  <2>9. g.id[2] = Slug[name]
    BY <2>7, <2>8, IdIs
  <2>10. <<Slug[name], m>> \in NameUses(t)
    BY <2>1, <2>5, <2>7, NamesAreUsed, Zenon
  <2>11. s[2] \in PromotersOf(t, sp, m, Slug[name])
    BY <2>3, <2>5, <2>6 DEF PromotersOf
  <2> QED
    BY <2>9, <2>10, <2>11 DEF Claimed
<1>3. ASSUME NEW m \in only, g \in ToSet(DeclaredFacts(t, sp, m)) PROVE FALSE
  <2>1. Settled(t, sp, m, g)
    BY <1>3, DeclaredFactsAre DEF Sound
  <2> QED
    BY <2>1 DEF Settled
<1> QED
  BY <1>1, <1>2, <1>3 DEF RulesOf, DeclaredOf, PromotionsOf

\* The agents among the facts of a run are those of the analysed modules and the carried ones.
LEMMA KnownIs ==
    ASSUME NEW t, GoodTree(t), Separated(t), NEW sp, NEW only \in SUBSET DOMAIN t.text,
           NEW carried, Distant(t, only, carried), Backed(t, only, carried), NEW run,
           ToSet(run.facts) = ScannedFacts(t, sp, only, carried) \cup PromotionsOf(t, sp, AllSites(t, only))
    PROVE  Known(t, sp, only, run)
<1> DEFINE new == RulesOf(t, sp, AllSites(t, only)) \cup DeclaredOf(t, sp, only)
                    \cup PromotionsOf(t, sp, AllSites(t, only))
<1>1. ToSet(run.facts) = new \cup ToSet(ConfigFacts(t)) \cup ToSet(carried)
  BY DEF ScannedFacts
<1>2. \A g \in ToSet(ConfigFacts(t)) : g.k # "agent"
  BY ConfigIsPlain DEF GoodTree, Plain, PlainFact
<1>3. ASSUME NEW k, NEW m \in only, <<k, m>> \in RouteUses(t), <<"agent", k>> \in AgentIds(run)
      PROVE  Claimed(t, sp, m, k)
  <2>1. PICK g \in ToSet(run.facts) : g.k = "agent" /\ g.id = <<"agent", k>>
    BY <1>3, AgentIdsIs
  <2>2. g.id[2] = k
    BY <2>1
  <2>3. g \notin ToSet(carried)
    BY <1>3, <2>1, <2>2 DEF Distant
  <2>4. g \in new
    BY <1>1, <1>2, <2>1, <2>3
  <2> HIDE DEF new
  <2>5. PICK n \in only : <<g.id[2], n>> \in NameUses(t) /\ Claimed(t, sp, n, g.id[2])
    BY <2>1, <2>4, AgentIsClaimed DEF new
  <2>6. n = m
    BY <1>3, <2>2, <2>5, NamesAreApart
  <2> QED
    BY <2>2, <2>5, <2>6
<1>4. ASSUME NEW k, NEW m \in only, Claimed(t, sp, m, k) PROVE <<"agent", k>> \in AgentIds(run)
  <2>1. ClaimIs(t, sp, m, k)
    BY OwnerHasBareId
  <2>2. CASE MakersOf(t, m, k) # {}
    <3>1. PICK s \in SitesOf(t, m) : Makes(t, s) /\ MadeAgent(t, sp, s).id = <<"agent", k>>
      BY <2>1, <2>2 DEF ClaimIs
    <3>2. MadeAgent(t, sp, s) \in RuleFacts(t, sp, s)
      BY <3>1, RuleFactsAre
    <3>3. s \in AllSites(t, only)
      BY DEF AllSites
    <3>4. MadeAgent(t, sp, s) \in RulesOf(t, sp, AllSites(t, only))
      BY <3>2, <3>3 DEF RulesOf
    <3> QED
      BY <1>1, <3>1, <3>4, AgentIdsIs, MadeIs
  <2>3. CASE MakersOf(t, m, k) = {}
    <3>1. PICK s \in SitesOf(t, m) : AnchorsAt(t, sp, s) # {} /\ PromotedAgent(t, sp, s).id = <<"agent", k>>
      BY <1>4, <2>1, <2>3 DEF ClaimIs, Claimed
    <3>2. PromotedAgent(t, sp, s) \in PromotionFacts(t, sp, s)
      BY <3>1, NodesAreLocal, PromotionFactsAre, Zenon
    <3>3. s \in AllSites(t, only)
      BY DEF AllSites
    <3>4. PromotedAgent(t, sp, s) \in PromotionsOf(t, sp, AllSites(t, only))
      BY <3>2, <3>3 DEF PromotionsOf
    <3> QED
      BY <1>1, <3>1, <3>4, AgentIdsIs, MadeIs
  <2> QED
    BY <2>2, <2>3
<1>5. ASSUME NEW k, NEW m \in DOMAIN t.text, MakersOf(t, m, k) # {} PROVE <<"agent", k>> \in AgentIds(run)
  <2>1. CASE m \in only
    <3>1. Claimed(t, sp, m, k)
      BY <1>5 DEF Claimed
    <3> QED
      BY <1>4, <2>1, <3>1
  <2>2. CASE m \notin only
    <3>1. PICK c \in ToSet(carried) : c.k = "agent" /\ c.id = <<"agent", k>>
      BY <1>5, <2>2, Zenon DEF Backed
    <3> QED
      BY <1>1, <3>1, AgentIdsIs
  <2> QED
    BY <2>1, <2>2
<1> QED
  BY <1>3, <1>4, <1>5 DEF Known

\* The routes that are emitted are those whose ends are both agents.
LEMMA RoutesEmitted ==
    ASSUME NEW only, NEW carried, NEW run, RunInv(only, carried, run)
    PROVE  RoutesOutcome(only, carried, run, EmitRoutes(run))
<1> DEFINE Part(r) == IF {BareId(r.from), BareId(r.to)} \subseteq AgentIds(run) THEN <<RouteEdge(r)>> ELSE <<>>
           list == run.routes
           parts == [i \in DOMAIN list |-> Part(list[i])]
           facts == FlattenSeq(parts)
<1>1. PICK next : next = EmitRoutes(run)
  OBVIOUS
<1>2. IsList(list) /\ IsRun(run)
  BY DEF RunInv, IsRun
<1>3. next = Emit(run, facts)
  BY <1>1, Zenon DEF EmitRoutes, RouteEdge
<1>4. ASSUME NEW r
      PROVE  /\ IsList(Part(r))
             /\ \A g : g \in ToSet(Part(r)) <=>
                    g = RouteEdge(r) /\ BareId(r.from) \in AgentIds(run) /\ BareId(r.to) \in AgentIds(run)
  <2>1. PICK e : e = RouteEdge(r)
    OBVIOUS
  <2>2. CASE {BareId(r.from), BareId(r.to)} \subseteq AgentIds(run)
    <3>1. Part(r) = <<e>>
      BY <2>1, <2>2
    <3> HIDE DEF Part
    <3> QED
      BY <2>1, <2>2, <3>1, ShortLists
  <2>3. CASE ~({BareId(r.from), BareId(r.to)} \subseteq AgentIds(run))
    <3>1. Part(r) = <<>>
      BY <2>3
    <3> HIDE DEF Part
    <3> QED
      BY <2>3, <3>1, ShortLists
  <2> QED
    BY <2>2, <2>3
<1> HIDE DEF Part, list
<1>5. parts = [i \in DOMAIN list |-> parts[i]] /\ \A i \in DOMAIN list : parts[i] = Part(list[i])
  OBVIOUS
<1> HIDE DEF parts, facts
<1>6. IsList(facts) /\ \A g : g \in ToSet(facts) <=> \E i \in DOMAIN list : g \in ToSet(parts[i])
  <2>1. \A i \in DOMAIN list : IsList(parts[i])
    BY <1>4, <1>5
  <2> QED
    BY <1>2, <1>5, <2>1, FlatOver DEF facts
<1>7. RunInv(only, carried, next)
  BY <1>1, EmitRoutesKeeps
<1>8. next = RunOf(run.facts \o facts, run.ids, run.marks, run.cands, run.routes, run.crews, run.consumed)
  BY <1>2, <1>3, EmitOnlyFacts, Zenon
<1>9. /\ next.facts = run.facts \o facts
      /\ next.ids = run.ids /\ next.crews = run.crews /\ next.consumed = run.consumed
  BY <1>8
<1>10. ToSet(next.facts) = ToSet(run.facts) \cup ToSet(facts)
  <2>1. IsList(run.facts)
    BY <1>2 DEF IsRun
  <2> QED
    BY <1>6, <1>9, <2>1, Concatenated
<1>11. ASSUME NEW g
       PROVE  g \in ToSet(facts) <=> \E r \in ToSet(run.routes) :
                g = RouteEdge(r) /\ BareId(r.from) \in AgentIds(run) /\ BareId(r.to) \in AgentIds(run)
  <2>1. g \in ToSet(facts) <=> \E i \in DOMAIN list : g \in ToSet(Part(list[i]))
    BY <1>5, <1>6
  <2>2. \A i \in DOMAIN list : g \in ToSet(Part(list[i])) <=>
            g = RouteEdge(list[i]) /\ BareId(list[i].from) \in AgentIds(run) /\ BareId(list[i].to) \in AgentIds(run)
    BY <1>4
  <2>3. ToSet(run.routes) = {list[i] : i \in DOMAIN list}
    BY DEF ToSet, list
  <2> QED
    BY <2>1, <2>2, <2>3
<1>12. RoutesOutcome(only, carried, run, next)
  BY <1>7, <1>9, <1>10, <1>11 DEF RoutesOutcome
<1> QED
  BY <1>1, <1>12

\* The list of the links of a crew is that of its neighbours.
LEMMA LinkListIs ==
    ASSUME NEW crew, IsList(crew.names)
    PROVE  LinksAre(crew)
<1> DEFINE E(i) == Edge("transfer:route", BareId(crew.names[i]), BareId(crew.names[i + 1]), "", crew.site)
           Differ(i) == BareId(crew.names[i]) # BareId(crew.names[i + 1])
           names == crew.names
           parts == [i \in 1..Len(names) - 1 |-> LinkAt(crew, names, i)]
<1>1. Len(names) \in Nat
  BY ListIsFunction
<1>2. PICK n \in Nat : 1..Len(names) - 1 = 1..n
  <2> HIDE DEF names
  <2>1. CASE Len(names) = 0
    <3>1. 1..Len(names) - 1 = 1..0
      BY <2>1
    <3> QED
      BY <3>1, Zenon
  <2>2. CASE Len(names) # 0
    <3>1. Len(names) - 1 \in Nat
      BY <1>1, <2>2
    <3> QED
      BY <3>1
  <2> QED
    BY <2>1, <2>2
<1>3. ASSUME NEW i
      PROVE  LinkAt(crew, names, i) = IF Differ(i) THEN <<E(i)>> ELSE <<>>
  BY Zenon DEF LinkAt
<1> HIDE DEF E, Differ
<1>4. ASSUME NEW i
      PROVE  IsList(LinkAt(crew, names, i)) /\ (\A g : g \in ToSet(LinkAt(crew, names, i)) <=> Differ(i) /\ g = E(i))
  <2>1. PICK e, l : e = E(i) /\ l = LinkAt(crew, names, i)
    OBVIOUS
  <2>2. CASE Differ(i)
    <3>1. l = <<e>>
      BY <1>3, <2>1, <2>2, Zenon
    <3> QED
      BY <2>1, <2>2, <3>1, ShortLists
  <2>3. CASE ~Differ(i)
    <3>1. l = <<>>
      BY <1>3, <2>1, <2>3, Zenon
    <3> QED
      BY <2>1, <2>3, <3>1, ShortLists
  <2> QED
    BY <2>2, <2>3
<1>5. parts = [i \in 1..n |-> parts[i]] /\ \A i \in 1..n : parts[i] = LinkAt(crew, names, i)
  BY <1>2
<1>6. LinkList(crew, crew.names) = FlattenSeq(parts)
  BY DEF LinkList
<1> HIDE DEF parts
<1>7. /\ IsList(FlattenSeq(parts))
      /\ ToSet(FlattenSeq(parts)) = UNION {ToSet(parts[i]) : i \in 1..n}
  <2>1. \A i \in 1..n : IsList(parts[i])
    BY <1>4, <1>5
  <2> QED
    BY <1>5, <2>1, Flattened, Zenon
<1>8. \A g : g \in ToSet(FlattenSeq(parts)) <=> \E i \in 1..n : Differ(i) /\ g = E(i)
  BY <1>4, <1>5, <1>7
<1>9. LinksOf(crew) = {E(i) : i \in {j \in 1..n : Differ(j)}}
  <2>1. LinksOf(crew) = {E(i) : i \in {j \in 1..Len(names) - 1 : Differ(j)}}
    BY Zenon DEF LinksOf, E, Differ
  <2>2. PICK D : D = 1..n /\ D = 1..Len(names) - 1
    BY <1>2
  <2> QED
    BY <2>1, <2>2
<1>10. ToSet(FlattenSeq(parts)) = LinksOf(crew)
  BY <1>8, <1>9
<1> QED
  BY <1>6, <1>7, <1>10 DEF LinksAre

\* Emitting the links of crews whose members are all agents.
LEMMA CrewsEmitted ==
    ASSUME NEW only, NEW carried, NEW run, RunInv(only, carried, run),
           \A crew \in ToSet(run.crews) : \A n \in ToSet(crew.names) : BareId(n) \in AgentIds(run)
    PROVE  CrewsOutcome(only, carried, run, EmitCrews(run))
<1> DEFINE Chain(crew) == Filtered(crew.names, {n \in ToSet(crew.names) : BareId(n) \in AgentIds(run)})
           Part(crew) == IF crew.hierarchical THEN <<>> ELSE LinkList(crew, Chain(crew))
           list == run.crews
           parts == [c \in DOMAIN list |-> Part(list[c])]
           facts == FlattenSeq(parts)
<1>1. PICK next : next = EmitCrews(run)
  OBVIOUS
<1>2. IsList(list) /\ IsRun(run) /\ \A crew \in ToSet(list) : IsList(crew.names)
  BY DEF RunInv, IsRun
<1>3. next = Emit(run, facts)
  BY <1>1, Zenon DEF EmitCrews, LinkList, LinkAt
<1>4. ASSUME NEW crew \in ToSet(list)
      PROVE  /\ IsList(Part(crew))
             /\ \A g : g \in ToSet(Part(crew)) <=> ~crew.hierarchical /\ g \in LinksOf(crew)
  <2>1. Chain(crew) = crew.names
    <3> DEFINE set == {n \in ToSet(crew.names) : BareId(n) \in AgentIds(run)}
    <3>1. ToSet(crew.names) \subseteq set /\ IsList(crew.names)
      BY <1>2
    <3> HIDE DEF set
    <3>2. Filtered(crew.names, set) = crew.names
      BY <3>1, KeptAll
    <3> QED
      BY <3>2 DEF set
  <2> HIDE DEF Chain
  <2>2. LinksAre(crew)
    BY <1>2, LinkListIs
  <2>3. CASE crew.hierarchical
    <3>1. Part(crew) = <<>>
      BY <2>3
    <3> HIDE DEF Part
    <3> QED
      BY <2>3, <3>1, ShortLists
  <2>4. CASE ~crew.hierarchical
    <3>1. Part(crew) = LinkList(crew, crew.names)
      BY <2>1, <2>4
    <3> HIDE DEF Part
    <3> QED
      BY <2>2, <2>4, <3>1 DEF LinksAre
  <2> QED
    BY <2>3, <2>4
<1> HIDE DEF Part, list, Chain
<1>5. parts = [i \in DOMAIN list |-> parts[i]] /\ \A i \in DOMAIN list : parts[i] = Part(list[i])
  OBVIOUS
<1>0. ToSet(list) = {list[i] : i \in DOMAIN list}
  BY DEF ToSet
<1> HIDE DEF parts, facts
<1>6. IsList(facts) /\ \A g : g \in ToSet(facts) <=> \E i \in DOMAIN list : g \in ToSet(parts[i])
  <2>1. \A i \in DOMAIN list : IsList(parts[i])
    BY <1>0, <1>4, <1>5
  <2> QED
    BY <1>2, <1>5, <2>1, FlatOver DEF facts
<1>7. RunInv(only, carried, next)
  BY <1>1, EmitCrewsKeeps
<1>8. next = RunOf(run.facts \o facts, run.ids, run.marks, run.cands, run.routes, run.crews, run.consumed)
  BY <1>2, <1>3, EmitOnlyFacts, Zenon
<1>9. next.facts = run.facts \o facts /\ next.ids = run.ids /\ next.consumed = run.consumed
  BY <1>8
<1>10. ToSet(next.facts) = ToSet(run.facts) \cup ToSet(facts)
  <2>1. IsList(run.facts)
    BY <1>2 DEF IsRun
  <2> QED
    BY <1>6, <1>9, <2>1, Concatenated
<1>11. ASSUME NEW g
       PROVE  g \in ToSet(facts) <=> \E crew \in ToSet(run.crews) : ~crew.hierarchical /\ g \in LinksOf(crew)
  <2>1. g \in ToSet(facts) <=> \E i \in DOMAIN list : g \in ToSet(Part(list[i]))
    BY <1>5, <1>6
  <2>2. \A i \in DOMAIN list : g \in ToSet(Part(list[i])) <=> ~list[i].hierarchical /\ g \in LinksOf(list[i])
    BY <1>0, <1>4
  <2>3. ToSet(run.crews) = {list[i] : i \in DOMAIN list}
    BY <1>0 DEF list
  <2> QED
    BY <2>1, <2>2, <2>3
<1>12. CrewsOutcome(only, carried, run, next)
  BY <1>7, <1>9, <1>10, <1>11 DEF CrewsOutcome
<1> QED
  BY <1>1, <1>12

\* The members of a crew are agents that modules make.
LEMMA CrewNamesAre ==
    ASSUME NEW t, GoodTree(t), NEW m \in DOMAIN t.text, NEW s \in SitesOf(t, m), NEW crew \in ToSet(NewCrews(t, s)),
           NEW n \in ToSet(crew.names)
    PROVE  \E q \in DOMAIN t.text : MakersOf(t, q, Slug[n]) # {}
<1>1. At(t, s).c = "crew"
  BY ShortLists DEF NewCrews
<1>2. crew.names = CrewNames(t, At(t, s))
  <2>1. PICK names, h : names = CrewNames(t, At(t, s)) /\ h = At(t, s).hierarchical
    OBVIOUS
  <2>2. PICK c : c = [names |-> names, site |-> s, hierarchical |-> h]
    BY Zenon
  <2>3. NewCrews(t, s) = <<c>>
    BY <1>1, <2>1, <2>2 DEF NewCrews
  <2>4. crew = c
    BY <2>3, ShortLists
  <2> QED
    BY <2>1, <2>2, <2>4
<1>3. IsList(At(t, s).agents)
  <2>1. PICK i \in DOMAIN t.text[m].body : s = <<m, i>>
    BY DEF SitesOf
  <2>2. Construct(m, t.text[m], At(t, s))
    BY <2>1 DEF GoodTree, At
  <2> QED
    BY <1>1, <2>2 DEF Construct
<1> DEFINE list == At(t, s).agents
           Part(i) == Listed(AgentNamed(t, list[i]))
           parts == [i \in DOMAIN list |-> Part(i)]
<1>4. crew.names = FlattenSeq(parts)
  BY <1>2 DEF CrewNames
<1>5. \A i : IsList(Part(i)) /\ ToSet(Part(i)) = AgentNamed(t, list[i])
  BY NamedAreFinite, ListedAre
<1>6. IsList(list)
  BY <1>3
<1> HIDE DEF Part, list
<1>7. parts = [i \in DOMAIN list |-> parts[i]] /\ \A i \in DOMAIN list : parts[i] = Part(i)
  OBVIOUS
<1> HIDE DEF parts
<1>8. \A g : g \in ToSet(FlattenSeq(parts)) <=> \E i \in DOMAIN list : g \in ToSet(parts[i])
  <2>1. \A i \in DOMAIN list : IsList(parts[i])
    BY <1>5, <1>7
  <2> QED
    BY <1>6, <1>7, <2>1, FlatOver
<1>9. PICK ref : n \in AgentNamed(t, ref)
  BY <1>4, <1>5, <1>7, <1>8
<1>10. PICK r \in Lookup(t, ref, "agent") : n = At(t, r).name /\ n # ""
  BY <1>9, Zenon DEF AgentNamed
<1>11. /\ ref.mod \in DOMAIN t.text /\ r[1] = ref.mod /\ r[2] \in DOMAIN t.text[r[1]].body /\ Pair(r)
       /\ At(t, r).c = "agent" /\ At(t, r).var = ref.var
  <2>1. r \in Lookup(t, ref, "agent")
    OBVIOUS
  <2> HIDE <1>10
  <2> QED
    BY <2>1, LookupIs
<1>12. r[2] \in MakersOf(t, ref.mod, Slug[n])
  BY <1>10, <1>11, Zenon DEF MakersOf, Makes, Pair
<1>13. PICK q : q = ref.mod
  OBVIOUS
<1>14. q \in DOMAIN t.text /\ MakersOf(t, q, Slug[n]) # {}
  BY <1>11, <1>12, <1>13
<1> QED
  BY <1>14

\* The transfers that a promoted run emits are those of the constructs.
LEMMA TransfersAre ==
    ASSUME NEW t, GoodTree(t), Separated(t), NEW only \in SUBSET DOMAIN t.text,
           NEW sp, NEW carried, Distant(t, only, carried), Backed(t, only, carried),
           NEW start, ToSet(start.facts) = ScannedFacts(t, sp, only, carried),
           ToSet(start.routes) = RoutesOf(t, AllSites(t, only)), ToSet(start.crews) = CrewsOf(t, AllSites(t, only)),
           NEW run, Promotings(t, sp, only, carried, ToSet(start.facts), start, run)
    PROVE  Raw(t, sp, only, carried, EmitCrews(EmitRoutes(run)))
<1>1. PICK A : A = AllSites(t, only)
  OBVIOUS
<1>2. /\ RunInv(only, carried, run)
      /\ ToSet(run.facts) = ScannedFacts(t, sp, only, carried) \cup PromotionsOf(t, sp, A)
      /\ run.consumed = SpentAt(t, sp, A)
      /\ ToSet(run.routes) = RoutesOf(t, A) /\ ToSet(run.crews) = CrewsOf(t, A)
  BY <1>1 DEF Promotings, Promoting
<1>3. Known(t, sp, only, run)
  BY <1>1, <1>2, KnownIs
<1>4. PICK routed : routed = EmitRoutes(run)
  OBVIOUS
<1>5. RoutesOutcome(only, carried, run, routed)
  BY <1>2, <1>4, RoutesEmitted
<1>6. \A id : id \in AgentIds(run) => id \in AgentIds(routed)
  BY <1>5, AgentIdsIs DEF RoutesOutcome
<1>7. ASSUME NEW s \in A
      PROVE  \E m \in only : s \in SitesOf(t, m) /\ s[1] = m
  <2>1. PICK m \in only : s \in SitesOf(t, m)
    BY <1>1 DEF AllSites
  <2> QED
    BY <2>1 DEF SitesOf
<1>8. ASSUME NEW crew \in ToSet(routed.crews), NEW n \in ToSet(crew.names) PROVE BareId(n) \in AgentIds(routed)
  <2>1. crew \in CrewsOf(t, A)
    BY <1>2, <1>5 DEF RoutesOutcome
  <2>2. PICK s \in A : crew \in ToSet(NewCrews(t, s))
    BY <2>1 DEF CrewsOf
  <2>3. PICK q \in DOMAIN t.text : MakersOf(t, q, Slug[n]) # {}
    BY <1>7, <2>2, CrewNamesAre
  <2>4. <<"agent", Slug[n]>> \in AgentIds(run)
    BY <1>3, <2>3 DEF Known
  <2> QED
    BY <1>6, <2>4 DEF BareId
<1>9. PICK last1 : last1 = EmitCrews(routed)
  OBVIOUS
<1>10. RunInv(only, carried, routed)
  BY <1>5 DEF RoutesOutcome
<1>11. CrewsOutcome(only, carried, routed, last1)
  BY <1>8, <1>9, <1>10, CrewsEmitted
<1>12. ASSUME NEW g
       PROVE  (\E r \in ToSet(run.routes) :
                  g = RouteEdge(r) /\ BareId(r.from) \in AgentIds(run) /\ BareId(r.to) \in AgentIds(run))
              <=> \E s \in A : g \in RouteFacts(t, sp, s)
  <2>1. ASSUME NEW s \in A, NEW r \in ToSet(NewRoutes(t, s))
        PROVE  /\ BareId(r.from) \in AgentIds(run) <=> Claimed(t, sp, s[1], Slug[r.from])
               /\ BareId(r.to) \in AgentIds(run) <=> Claimed(t, sp, s[1], Slug[r.to])
    <3>1. PICK m \in only : s \in SitesOf(t, m) /\ s[1] = m
      BY <1>7
    <3>2. <<Slug[r.from], m>> \in RouteUses(t) /\ <<Slug[r.to], m>> \in RouteUses(t)
      BY <3>1, NamesAreUsed, Zenon
    <3> QED
      BY <1>3, <3>1, <3>2 DEF Known, BareId
  <2>2. \A r : r \in ToSet(run.routes) <=> \E s \in A : r \in ToSet(NewRoutes(t, s))
    BY <1>2 DEF RoutesOf
  <2>3. \A s : g \in RouteFacts(t, sp, s) <=>
            \E r \in ToSet(NewRoutes(t, s)) :
                /\ g = RouteEdge(r)
                /\ Claimed(t, sp, s[1], Slug[r.from]) /\ Claimed(t, sp, s[1], Slug[r.to])
    BY DEF RouteFacts, RouteEdge
  <2> QED
    BY <2>1, <2>2, <2>3
<1>13. ASSUME NEW g
       PROVE  (\E crew \in ToSet(routed.crews) : ~crew.hierarchical /\ g \in LinksOf(crew))
              <=> \E s \in A : g \in CrewFacts(t, s)
  <2>1. \A c : c \in ToSet(routed.crews) <=> \E s \in A : c \in ToSet(NewCrews(t, s))
    BY <1>2, <1>5 DEF CrewsOf, RoutesOutcome
  <2>2. \A s : g \in CrewFacts(t, s) <=> \E c \in ToSet(NewCrews(t, s)) : ~c.hierarchical /\ g \in LinksOf(c)
    BY DEF CrewFacts
  <2> QED
    BY <2>1, <2>2
<1>14. \A g : g \in ToSet(last1.facts) <=>
              \/ g \in ScannedFacts(t, sp, only, carried) \cup PromotionsOf(t, sp, A)
              \/ \E s \in A : g \in RouteFacts(t, sp, s)
              \/ \E s \in A : g \in CrewFacts(t, s)
  BY <1>2, <1>5, <1>11, <1>12, <1>13 DEF RoutesOutcome, CrewsOutcome
<1>15. ToSet(last1.facts) = RawFacts(t, sp, only, carried)
  <2>1. \A g : g \in RawFacts(t, sp, only, carried) <=>
              \/ g \in ScannedFacts(t, sp, only, carried) \cup PromotionsOf(t, sp, A)
              \/ \E s \in A : g \in RouteFacts(t, sp, s)
              \/ \E s \in A : g \in CrewFacts(t, s)
    BY <1>1 DEF RawFacts
  <2> QED
    BY <1>14, <2>1, Zenon
<1>16. RunInv(only, carried, last1) /\ last1.consumed = SpentAt(t, sp, A)
  BY <1>2, <1>5, <1>11 DEF RoutesOutcome, CrewsOutcome
<1>17. Raw(t, sp, only, carried, last1)
  BY <1>1, <1>15, <1>16 DEF Raw
<1> QED
  BY <1>4, <1>9, <1>17

\* The facts of a run before its flags are those of the constructs of its modules, of the configuration
\* and the carried ones.
LEMMA UnflaggedIsRaw ==
    ASSUME NEW t, NEW only, NEW carried, Fit(t, only, carried), NEW marks, IsList(marks)
    PROVE  RawRun(t, only, carried, Unflagged(t, only, carried, marks))
<1> DEFINE sinks == SinkSites(t, only)
           mods  == Filtered(Modules(t), only)
           n     == Len(mods)
           first == NewRun(Seeded(carried))
           after == CHOOSE f : f = [i \in 0..n |-> IF i = 0 THEN first ELSE ModuleRules(t, sinks, f[i - 1], mods[i])]
           facts == ConfigFacts(t) \o carried
           merged == [Emit(after[n], facts) EXCEPT !.marks = @ \o marks]
           crewed == EmitCrews(EmitRoutes(Promote(t, sinks, merged)))
<1>0. /\ GoodTree(t) /\ Separated(t) /\ only \in SUBSET DOMAIN t.text
      /\ GoodCarried(carried) /\ Distant(t, only, carried) /\ Backed(t, only, carried)
      /\ Foreign(t, only, carried)
  BY DEF Fit, Distant, Foreign
<1>1. IsList(mods) /\ ToSet(mods) = only /\ Once(mods)
  BY <1>0, ModulesAre
<1> HIDE DEF mods
<1>2. n \in Nat /\ DOMAIN mods = 1..n
  BY <1>1, ListIsFunction
<1> HIDE DEF n
<1>3. IsModules(t, sinks, first, mods, n, after)
  <2>1. \E f : IsModules(t, sinks, first, mods, n, f)
    BY <1>2, ModulesExist
  <2> QED
    BY <2>1, Zenon DEF IsModules
<1> HIDE DEF after
<1>4. PICK run : run = after[n]
  OBVIOUS
<1>5. Scanning(t, sinks, only, carried, AllSites(t, only), only, run)
  <2>1. PICK k \in Nat : k = n
    BY <1>2
  <2>2. PICK sp, list, f : sp = sinks /\ list = mods /\ f = after
    OBVIOUS
  <2>3. IsList(list) /\ ToSet(list) = only /\ Once(list) /\ DOMAIN list = 1..k
    BY <1>1, <1>2, <2>1, <2>2
  <2>4. IsModules(t, sp, NewRun(Seeded(carried)), list, k, f)
    BY <1>3, <2>1, <2>2
  <2>5. Scanning(t, sp, only, carried, AllSites(t, only), only, f[k])
    BY <1>0, <2>3, <2>4, ModulesDone
  <2> QED
    BY <1>4, <2>1, <2>2, <2>5
<1>6. PICK start : start = WithMarks(Emit(run, ConfigFacts(t) \o carried), marks)
  OBVIOUS
<1>7. merged = start
  BY <1>4, <1>6 DEF WithMarks
<1> HIDE DEF merged, first
<1>8. PICK sp : sp = SinkSites(t, only)
  OBVIOUS
<1>9. Gathered(t, sp, only, carried, start)
  BY <1>0, <1>5, <1>6, <1>8, GatheredIs
<1>10. PICK promoted : promoted = Promote(t, sp, start)
  OBVIOUS
<1>11. Promotings(t, sp, only, carried, ToSet(start.facts), start, promoted)
  BY <1>0, <1>8, <1>9, <1>10, PromotionsDone DEF Gathered
<1>12. Raw(t, sp, only, carried, EmitCrews(EmitRoutes(promoted)))
  <2>1. /\ ToSet(start.facts) = ScannedFacts(t, sp, only, carried)
        /\ ToSet(start.routes) = RoutesOf(t, AllSites(t, only)) /\ ToSet(start.crews) = CrewsOf(t, AllSites(t, only))
    BY <1>9 DEF Gathered
  <2> QED
    BY <1>0, <1>11, <2>1, TransfersAre
<1>13. Unflagged(t, only, carried, marks) = crewed
  BY Zenon DEF Unflagged, crewed, merged, facts, after, n, first, mods
<1>14. crewed = EmitCrews(EmitRoutes(promoted))
  BY <1>7, <1>8, <1>10
<1> QED
  BY <1>8, <1>12, <1>13, <1>14 DEF RawRun

\* Where the known model calls of some modules are.
LEMMA SinkSitesAre ==
    ASSUME NEW t, NEW mods
    PROVE  \A s : s \in SinkSites(t, mods) <=>
              \E m \in mods \cap DOMAIN t.text :
                  s \in SitesOf(t, m) /\ s[1] = m /\ At(t, s).c = "def" /\ At(t, s).sink # "none"
<1>1. ASSUME NEW s, NEW m \in mods \cap DOMAIN t.text, s \in SitesOf(t, m),
             At(t, s).c = "def", At(t, s).sink # "none"
      PROVE  s \in SinkSites(t, mods)
  <2>1. PICK i \in DOMAIN t.text[m].body : s = <<m, i>>
    BY <1>1 DEF SitesOf
  <2>2. t.text[m].body[i].c = "def" /\ t.text[m].body[i].sink # "none"
    BY <1>1, <2>1 DEF At
  <2> QED
    BY <2>1, <2>2 DEF SinkSites
<1>2. ASSUME NEW s \in SinkSites(t, mods)
      PROVE  \E m \in mods \cap DOMAIN t.text :
                  s \in SitesOf(t, m) /\ s[1] = m /\ At(t, s).c = "def" /\ At(t, s).sink # "none"
  <2>1. PICK m \in mods \cap DOMAIN t.text :
           \E i \in DOMAIN t.text[m].body :
              s = <<m, i>> /\ t.text[m].body[i].c = "def" /\ t.text[m].body[i].sink # "none"
    BY DEF SinkSites
  <2>2. PICK i \in DOMAIN t.text[m].body :
              s = <<m, i>> /\ t.text[m].body[i].c = "def" /\ t.text[m].body[i].sink # "none"
    BY <2>1
  <2>3. s \in SitesOf(t, m) /\ s[1] = m /\ At(t, s) = t.text[m].body[i]
    BY <2>2 DEF SitesOf, At
  <2> QED
    BY <2>2, <2>3
<1> QED
  BY <1>1, <1>2

\* They come with their models.
LEMMA UsagesAre ==
    ASSUME NEW t, GoodTree(t), Separated(t), NEW mods, NEW consumed
    PROVE  UsedAt(t, SinkSites(t, mods), consumed, UsageFacts(t, SinkSites(t, mods), consumed))
<1> DEFINE sinks == SinkSites(t, mods)
           sites == {s \in sinks \ consumed : ~At(t, s).wrapper}
           Model(s) == ModelFact(t, At(t, s).model, "sink", s)
           Usage(s) == [k |-> "usage", id |-> <<"usage">> \o s, model |-> Model(s).id,
                        method |-> "usage", ev |-> <<s>>, src |-> s[1]]
           Facts(s) == <<Model(s), Usage(s)>>
           all == {Facts(s) : s \in sites}
<1>1. ASSUME NEW s PROVE IsList(Facts(s)) /\ ToSet(Facts(s)) = UsageAt(t, s)
  <2>1. UsageAt(t, s) = {Model(s), Usage(s)}
    BY DEF UsageAt
  <2> HIDE DEF Model, Usage
  <2> QED
    BY <2>1, ShortLists
<1>2. IsFiniteSet(sites)
  BY SinksAreFinite, FS_Subset
<1>3. UsageFacts(t, sinks, consumed) = FlattenSeq(Listed(all))
  BY DEF UsageFacts
<1>4. sites = sinks \ consumed
  <2>1. \A s \in sinks : s \in SinkSites(t, DOMAIN t.text)
    BY SinkSitesAre
  <2>2. \A s \in sinks : ~At(t, s).wrapper
    BY <2>1 DEF Separated
  <2> QED
    BY <2>2
<1> HIDE DEF Facts, sites
<1>5. IsFiniteSet(all)
  <2> DEFINE g == [s \in sites |-> Facts(s)]
  <2>1. IsFiniteSet({g[x] : x \in DOMAIN g})
    BY <1>2, ImageIsFinite, Zenon
  <2>2. {g[x] : x \in DOMAIN g} = all
    OBVIOUS
  <2> QED
    BY <2>1, <2>2
<1>6. \A l \in all : IsList(l)
  BY <1>1
<1>7. \A g : (\E l \in all : g \in ToSet(l)) <=> \E s \in sites : g \in UsageAt(t, s)
  BY <1>1
<1> HIDE DEF all
<1>8. FlatMembers(all)
  BY <1>5, <1>6, FlatListed
<1> QED
  BY <1>3, <1>4, <1>7, <1>8 DEF FlatMembers, UsedAt

\* The raw facts and the usages are the facts of the modules, of the configuration and the carried ones.
LEMMA RawAndUsages ==
    ASSUME NEW t, NEW only, NEW carried, Fit(t, only, carried), NEW run, RawRun(t, only, carried, run)
    PROVE  ToSet(run.facts) \cup ToSet(UsageFacts(t, SinkSites(t, only), run.consumed)) = ScanFacts(t, only, carried)
<1>0. GoodTree(t) /\ Separated(t) /\ only \in SUBSET DOMAIN t.text
  BY DEF Fit
<1>1. PICK sp : sp = SinkSites(t, only)
  OBVIOUS
<1>2. PICK A : A = AllSites(t, only)
  OBVIOUS
<1>3. ToSet(run.facts) = RawFacts(t, sp, only, carried) /\ run.consumed = SpentAt(t, sp, A)
  BY <1>1, <1>2 DEF RawRun, Raw
<1>4. PICK list : list = UsageFacts(t, sp, run.consumed)
  OBVIOUS
<1>5. \A g : g \in ToSet(list) <=> \E s \in sp \ run.consumed : g \in UsageAt(t, s)
  <2>1. UsedAt(t, SinkSites(t, only), run.consumed, UsageFacts(t, SinkSites(t, only), run.consumed))
    BY <1>0, UsagesAre
  <2> QED
    BY <1>1, <1>4, <2>1 DEF UsedAt
<1>6. ASSUME NEW m \in only, NEW s \in SitesOf(t, m)
      PROVE  s \in SpentAt(t, sp, A) <=> s \in Spent(t, sp, m)
  <2>1. ASSUME s \in SpentAt(t, sp, A) PROVE s \in Spent(t, sp, m)
    <3>1. PICK r \in A : s \in AnchorsAt(t, sp, r)
      BY <2>1 DEF SpentAt
    <3>2. PICK n \in only : r \in SitesOf(t, n)
      BY <1>2, <3>1 DEF AllSites
    <3>3. n \in DOMAIN t.text
      BY <1>0
    <3>4. LocalNodes(t, n)
      BY <1>0, <3>3, NodesAreLocal
    <3>5. s \in SitesOf(t, n)
      BY <1>0, <3>1, <3>2, <3>3, <3>4, SinkIs
    <3>6. n = m
      BY <3>5 DEF SitesOf
    <3> QED
      BY <3>1, <3>2, <3>6 DEF Spent
  <2>2. ASSUME s \in Spent(t, sp, m) PROVE s \in SpentAt(t, sp, A)
    <3>1. PICK r \in SitesOf(t, m) : s \in AnchorsAt(t, sp, r)
      BY <2>2 DEF Spent
    <3>2. r \in A
      BY <1>2 DEF AllSites
    <3> QED
      BY <3>1, <3>2 DEF SpentAt
  <2> QED
    BY <2>1, <2>2
<1>7. \A s \in sp : \E m \in only : s \in SitesOf(t, m)
  BY <1>1, SinkSitesAre
<1>8. ASSUME NEW g PROVE g \in ToSet(list) <=> \E m \in only : g \in UsagesOf(t, sp, m)
  <2>1. ASSUME g \in ToSet(list) PROVE \E m \in only : g \in UsagesOf(t, sp, m)
    <3>1. PICK s \in sp \ run.consumed : g \in UsageAt(t, s)
      BY <1>5, <2>1
    <3>2. PICK m \in only : s \in SitesOf(t, m)
      BY <1>7
    <3>3. s \notin Spent(t, sp, m)
      BY <1>3, <1>6, <3>2
    <3>4. g \in UsagesOf(t, sp, m)
      BY <3>1, <3>2, <3>3 DEF UsagesOf
    <3> QED
      BY <3>4
  <2>2. ASSUME NEW m \in only, g \in UsagesOf(t, sp, m) PROVE g \in ToSet(list)
    <3>1. PICK s \in (SitesOf(t, m) \cap sp) \ Spent(t, sp, m) : g \in UsageAt(t, s)
      BY <2>2 DEF UsagesOf
    <3>2. s \notin run.consumed
      BY <1>3, <1>6, <3>1
    <3> QED
      BY <1>5, <3>1, <3>2
  <2> QED
    BY <2>1, <2>2
<1>9. ASSUME NEW g
      PROVE  g \in RawFacts(t, sp, only, carried) <=>
                \/ \E s \in A : g \in AtFacts(t, sp, s)
                \/ \E m \in only : g \in ToSet(DeclaredFacts(t, sp, m))
                \/ g \in ToSet(ConfigFacts(t)) \cup ToSet(carried)
  <2>1. g \in RulesOf(t, sp, A) <=> \E s \in A : g \in RuleFacts(t, sp, s)
    BY DEF RulesOf
  <2>2. g \in PromotionsOf(t, sp, A) <=> \E s \in A : g \in PromotionFacts(t, sp, s)
    BY DEF PromotionsOf
  <2>3. g \in DeclaredOf(t, sp, only) <=> \E m \in only : g \in ToSet(DeclaredFacts(t, sp, m))
    BY DEF DeclaredOf
  <2>4. g \in RawFacts(t, sp, only, carried) <=>
                \/ g \in RulesOf(t, sp, A) \/ g \in DeclaredOf(t, sp, only) \/ g \in PromotionsOf(t, sp, A)
                \/ \E s \in A : g \in RouteFacts(t, sp, s)
                \/ \E s \in A : g \in CrewFacts(t, s)
                \/ g \in ToSet(ConfigFacts(t)) \cup ToSet(carried)
    BY <1>2 DEF RawFacts, ScannedFacts
  <2>5. \A s : g \in AtFacts(t, sp, s) <=> \/ g \in RuleFacts(t, sp, s) \/ g \in PromotionFacts(t, sp, s)
                                           \/ g \in RouteFacts(t, sp, s) \/ g \in CrewFacts(t, s)
    BY DEF AtFacts
  <2> QED
    BY <2>1, <2>2, <2>3, <2>4, <2>5
<1>10. ASSUME NEW g
       PROVE  g \in ScanFacts(t, only, carried) <=>
                \/ \E m \in only : g \in ModuleFacts(t, sp, m)
                \/ g \in ToSet(ConfigFacts(t)) \cup ToSet(carried)
  BY <1>1 DEF ScanFacts
<1>11. ASSUME NEW g
       PROVE  (\E s \in A : g \in AtFacts(t, sp, s)) <=> \E m \in only : \E s \in SitesOf(t, m) : g \in AtFacts(t, sp, s)
  BY <1>2 DEF AllSites
<1>12. ASSUME NEW g
       PROVE  (g \in RawFacts(t, sp, only, carried) \/ g \in ToSet(list)) <=> g \in ScanFacts(t, only, carried)
  <2>1. \A m : g \in ModuleFacts(t, sp, m) <=>
              \/ \E s \in SitesOf(t, m) : g \in AtFacts(t, sp, s)
              \/ g \in ToSet(DeclaredFacts(t, sp, m))
              \/ g \in UsagesOf(t, sp, m)
    BY ModuleFactsAre
  <2> QED
    BY <1>8, <1>9, <1>10, <1>11, <2>1
<1> QED
  BY <1>1, <1>3, <1>4, <1>12

(***************************************************************************)
(* The flags                                                               *)
(***************************************************************************)

\* A run whose marks are those of the tree flags the agents that the tree marks.
LEMMA FlagsApplied ==
    ASSUME NEW t, NEW run, IsRun(run), SlugsOf(ToSet(run.marks)) = Marked(t), NEW reset \in BOOLEAN,
           reset \/ \A f \in ToSet(run.facts) : f.k = "agent" => Flag(f, FALSE) = f
    PROVE  Applied(t, run, ApplyEntrypoints(run, reset))
<1> DEFINE marked == {Slug[mark[1]] : mark \in ToSet(run.marks)}
           Want(f) == IF f.k = "agent" THEN [f EXCEPT !.entry = Slug[f.name] \in marked] ELSE f
           facts == [i \in DOMAIN run.facts |-> Want(run.facts[i])]
<1>1. ApplyEntrypoints(run, reset) = IF marked = {} /\ ~reset THEN run ELSE [run EXCEPT !.facts = facts]
  BY DEF ApplyEntrypoints
<1>2. marked = Marked(t)
  BY DEF SlugsOf
<1>3. IsList(run.facts)
  BY DEF IsRun
<1>4. \A f : Want(f) = FlagAt(t, f)
  BY <1>2 DEF FlagAt, Flag
<1> HIDE DEF marked, Want
<1>5. CASE marked = {} /\ ~reset
  <2>1. ASSUME NEW f \in ToSet(run.facts) PROVE FlagAt(t, f) = f
    <3>1. CASE f.k # "agent"
      BY <3>1 DEF FlagAt
    <3>2. CASE f.k = "agent"
      <4>1. (Slug[f.name] \in Marked(t)) = FALSE
        BY <1>2, <1>5
      <4>2. FlagAt(t, f) = Flag(f, FALSE)
        BY <3>2, <4>1, Zenon DEF FlagAt
      <4> QED
        BY <1>5, <3>2, <4>2, Zenon
    <3> QED
      BY <3>1, <3>2
  <2>2. Flagged(t, ToSet(run.facts)) = ToSet(run.facts)
    BY <2>1 DEF Flagged
  <2> QED
    BY <1>1, <1>3, <1>5, <2>2 DEF Applied
<1>6. CASE ~(marked = {} /\ ~reset)
  <2> DEFINE r == [run EXCEPT !.facts = facts]
  <2>1. ApplyEntrypoints(run, reset) = r
    BY <1>1, <1>6
  <2>2. Len(run.facts) \in Nat /\ DOMAIN run.facts = 1..Len(run.facts)
    BY <1>3, ListIsFunction
  <2>3. facts = [i \in 1..Len(run.facts) |-> facts[i]] /\ \A i \in DOMAIN run.facts : facts[i] = Want(run.facts[i])
    BY <2>2
  <2> HIDE DEF facts
  <2>4. r.facts = facts /\ r.consumed = run.consumed
    <3>1. run = RunOf(run.facts, run.ids, run.marks, run.cands, run.routes, run.crews, run.consumed)
      BY DEF IsRun
    <3> QED
      BY <3>1
  <2> HIDE DEF r
  <2>5. IsList(facts) /\ DOMAIN facts = 1..Len(run.facts)
    BY <2>2, <2>3, FunctionIsList
  <2>6. ToSet(facts) = {facts[i] : i \in DOMAIN run.facts} /\ ToSet(run.facts) = {run.facts[i] : i \in DOMAIN run.facts}
    BY <2>2, <2>5 DEF ToSet
  <2>7. \A g : g \in ToSet(facts) <=> \E f \in ToSet(run.facts) : g = FlagAt(t, f)
    BY <1>4, <2>3, <2>6, ZenonT(60)
  <2>8. ToSet(facts) = Flagged(t, ToSet(run.facts))
    BY <2>7 DEF Flagged
  <2> QED
    BY <2>1, <2>4, <2>5, <2>8 DEF Applied
<1> QED
  BY <1>5, <1>6

\* An agent that no mark flagged is not an entrypoint.
LEMMA FreshIsUnflagged ==
    ASSUME NEW id, NEW name, NEW method, NEW ev, NEW src
    PROVE  Flag(AgentFact(id, name, method, ev, src), FALSE) = AgentFact(id, name, method, ev, src)
<1>1. ASSUME NEW c
      PROVE  Flag(AgentFact(id, name, method, ev, src), c)
             = [k |-> "agent", id |-> id, name |-> name, entry |-> c, method |-> method, ev |-> ev, src |-> src]
  BY DEF Flag, AgentFact
<1>2. AgentFact(id, name, method, ev, src)
      = [k |-> "agent", id |-> id, name |-> name, entry |-> FALSE, method |-> method, ev |-> ev, src |-> src]
  BY DEF AgentFact
<1> QED
  BY <1>1, <1>2, Zenon

\* The agents of a module are records of agents.
LEMMA ModuleAgentsAre ==
    ASSUME NEW t, GoodTree(t), NEW sp, NEW m \in DOMAIN t.text, LocalNodes(t, m), NEW g \in ModuleFacts(t, sp, m)
    PROVE  IsAgentFact(g)
<1>1. SettledIn(t, sp, m, g)
  BY ModuleIsSettled
<1>2. Settled(t, sp, m, g) => g.k # "agent"
  BY DEF Settled
<1>3. ASSUME NEW s, MadeBy(t, sp, s, g)
      PROVE  \E id, name, method, ev, src : g = AgentFact(id, name, method, ev, src)
  BY <1>3 DEF MadeBy, MadeAgent, AgentOf, PromotedAgent
<1> QED
  BY <1>1, <1>2, <1>3 DEF SettledIn, IsAgentFact

\* A scan gives the facts of its modules, of the configuration and the carried ones, flagged.
LEMMA ScanIsFlagged ==
    ASSUME NEW t, NEW only, NEW carried, Fit(t, only, carried), NEW marks, IsList(marks),
           ToSet(marks) \cup MarksOfAll(t, only) = MarksOfAll(t, DOMAIN t.text),
           NEW kind, kind = "incremental" \/ carried = <<>>
    PROVE  ScanGives(t, only, carried, Scanned(t, only, carried, marks, kind))
<1> DEFINE sinks == SinkSites(t, only)
           raw == Unflagged(t, only, carried, marks)
           reset == (kind = "incremental")
           run == ApplyEntrypoints(raw, reset)
           usages == UsageFacts(t, sinks, run.consumed)
           s == Scanned(t, only, carried, marks, kind)
<1>0. GoodTree(t) /\ Separated(t) /\ only \in SUBSET DOMAIN t.text /\ GoodCarried(carried)
  BY DEF Fit
<1>1. Run(t, only, carried, marks, reset) = run
  BY Zenon DEF Run, Unflagged
<1>2. s.facts = run.facts \o usages /\ s.record = Record(s.facts, Cardinality(sinks))
  BY <1>1, Zenon DEF Scanned, WithUsages, Outcome
<1>3. RunInv(only, carried, raw) /\ ToSet(raw.marks) = ToSet(marks) \cup MarksOfAll(t, only)
  BY <1>0, UnflaggedIs, Zenon
<1>4. RawRun(t, only, carried, raw)
  BY UnflaggedIsRaw
<1> HIDE DEF raw
<1>5. SlugsOf(ToSet(raw.marks)) = Marked(t) /\ IsRun(raw)
  BY <1>3, MarkedIs, Zenon DEF RunInv
<1>6. PICK list : list = UsageFacts(t, SinkSites(t, only), raw.consumed)
  OBVIOUS
<1>7. ToSet(raw.facts) \cup ToSet(list) = ScanFacts(t, only, carried)
  BY <1>4, <1>6, RawAndUsages
<1>8. ASSUME carried = <<>>, NEW f \in ToSet(raw.facts), f.k = "agent" PROVE Flag(f, FALSE) = f
  <2>1. ToSet(carried) = {}
    BY <1>8, ShortLists
  <2>2. \A g \in ToSet(ConfigFacts(t)) : g.k # "agent"
    BY <1>0, ConfigIsPlain DEF GoodTree, Plain, PlainFact
  <2>3. PICK m \in only : f \in ModuleFacts(t, SinkSites(t, only), m)
    BY <1>7, <1>8, <2>1, <2>2 DEF ScanFacts
  <2>4. m \in DOMAIN t.text
    BY <1>0
  <2>5. LocalNodes(t, m)
    BY <1>0, <2>4, NodesAreLocal
  <2>6. IsAgentFact(f)
    BY <1>0, <2>3, <2>4, <2>5, ModuleAgentsAre
  <2>7. PICK id, name, method, ev, src : f = AgentFact(id, name, method, ev, src)
    BY <1>8, <2>6 DEF IsAgentFact
  <2> QED
    BY <2>7, FreshIsUnflagged, Zenon
<1>9. Applied(t, raw, run)
  <2>1. reset \in BOOLEAN /\ (reset \/ carried = <<>>)
    OBVIOUS
  <2> HIDE DEF reset
  <2> QED
    BY <1>5, <1>8, <2>1, FlagsApplied, Zenon
<1>10. IsList(run.facts) /\ run.consumed = raw.consumed /\ ToSet(run.facts) = Flagged(t, ToSet(raw.facts))
  BY <1>9 DEF Applied
<1>11. Plain(usages)
  BY <1>0, UsagesArePlain
<1>12. usages = list
  BY <1>6, <1>10
<1> HIDE DEF run, usages, s, sinks
<1>13. IsList(usages) /\ \A f \in ToSet(usages) : f.k # "agent"
  BY <1>11 DEF Plain, PlainFact
<1>14. IsList(s.facts) /\ ToSet(s.facts) = ToSet(run.facts) \cup ToSet(usages)
  BY <1>2, <1>10, <1>13, Concatenated
<1>15. Flagged(t, ScanFacts(t, only, carried)) = ToSet(s.facts)
  <2>1. PICK F, U : F = ToSet(raw.facts) /\ U = ToSet(usages)
    OBVIOUS
  <2>2. \A u \in U : FlagAt(t, u) = u
    BY <1>13, <2>1 DEF FlagAt
  <2>3. Flagged(t, F \cup U) = Flagged(t, F) \cup U
    BY <2>2 DEF Flagged
  <2> QED
    BY <1>7, <1>10, <1>12, <1>14, <2>1, <2>3, Zenon
<1>16. s.record = Record(s.facts, Cardinality(SinkSites(t, only)))
  BY <1>2 DEF sinks
<1> QED
  BY <1>14, <1>15, <1>16 DEF ScanGives, s

(***************************************************************************)
(* What a module contributes, whichever modules are analysed with it, and  *)
(* in whichever tree that it cannot tell from this one                     *)
(***************************************************************************)

\* A module that is analysed contributes the same whatever is analysed beside it.
LEMMA ContributesAlike ==
    ASSUME NEW t, GoodTree(t), Separated(t), NEW only \in SUBSET DOMAIN t.text, NEW m \in only
    PROVE  ModuleFacts(t, SinkSites(t, only), m) = ModuleFacts(t, AllSinks(t), m)
<1>1. PICK D : D = DOMAIN t.text
  OBVIOUS
<1>2. PICK R : R = {m} \cup {n \in D : \E q \in D : n \in t.text[q].imports}
  BY Zenon
<1>3. PICK sp1, sp2 : sp1 = SinkSites(t, only) /\ sp2 = AllSinks(t)
  OBVIOUS
<1>4. m \in R /\ R \subseteq D /\ m \in D
  BY <1>1, <1>2
<1>5. \A s : s \in sp1 <=> s[1] \in only /\ s \in sp2
  <2>1. \A s : s \in sp1 <=> \E q \in only \cap DOMAIN t.text :
                                s \in SitesOf(t, q) /\ s[1] = q /\ At(t, s).c = "def" /\ At(t, s).sink # "none"
    BY <1>3, SinkSitesAre
  <2>2. \A s : s \in sp2 <=> \E q \in D \cap DOMAIN t.text :
                                s \in SitesOf(t, q) /\ s[1] = q /\ At(t, s).c = "def" /\ At(t, s).sink # "none"
    BY <1>1, <1>3, SinkSitesAre DEF AllSinks
  <2> QED
    BY <1>1, <2>1, <2>2
<1>6. ASSUME NEW n \in R, NEW i \in DOMAIN t.text[n].body, t.text[n].body[i].sink = "http"
      PROVE  <<n, i>> \in sp1 <=> <<n, i>> \in sp2
  <2>1. PICK s : s = <<n, i>>
    BY Zenon
  <2>2. s[1] = n /\ At(t, s) = t.text[n].body[i]
    BY <2>1 DEF At
  <2>3. ASSUME s \in sp2 PROVE n \in only
    <3>1. \A q \in DOMAIN t.text : s[1] \notin t.text[q].imports
      BY <1>3, <1>6, <2>2, <2>3 DEF Separated, AllSinks
    <3>2. n = m
      BY <1>1, <1>2, <2>2, <3>1
    <3> QED
      BY <3>2
  <2> QED
    BY <1>5, <2>1, <2>2, <2>3
<1>7. SameView(t, sp1, t, sp2, R)
  <2>1. \A n \in R : \A q \in t.text[n].imports : q \in DOMAIN t.text \cup DOMAIN t.text => q \in R
    BY <1>1, <1>2, <1>4
  <2> QED
    BY <1>1, <1>4, <1>6, <2>1 DEF SameView
<1>8. SameSinks(t, sp1, sp2, m)
  BY <1>5 DEF SameSinks
<1>9. LocalNodes(t, m)
  BY NodesAreLocal
<1>10. sp1 \subseteq SinkSites(t, DOMAIN t.text)
  BY <1>3, <1>5 DEF AllSinks
<1>11. ModuleFacts(t, sp1, m) = ModuleFacts(t, sp2, m)
  BY <1>4, <1>7, <1>8, <1>9, <1>10, SameModuleFacts
<1> QED
  BY <1>3, <1>11

\* What imports something affected is affected.
LEMMA AffectedIsClosed ==
    ASSUME NEW t, NEW m \in DOMAIN t.text, NEW n \in Affected(t), n \in t.text[m].imports
    PROVE  m \in Affected(t)
<1>1. ASSUME NEW S \in SUBSET DOMAIN t.text, ChangedModules(t) \cup Importers(t, S) \subseteq S
      PROVE  m \in S
  <2>1. n \in S
    BY <1>1 DEF Affected, Closure
  <2>2. m \in Importers(t, S)
    BY <2>1 DEF Importers
  <2> QED
    BY <1>1, <2>2
<1> QED
  BY <1>1 DEF Affected, Closure

\* A module that is not analysed again contributes what it did.
LEMMA ContributesAsBefore ==
    ASSUME GoodTree(base), Separated(base), NEW t, DOMAIN base.text \subseteq DOMAIN t.text, NEW m \in Untouched(t)
    PROVE  /\ m \in DOMAIN base.text
           /\ ModuleFacts(base, AllSinks(base), m) = ModuleFacts(t, AllSinks(t), m)
<1>1. PICK R : R = Untouched(t)
  OBVIOUS
<1>2. ASSUME NEW n \in R PROVE n \in DOMAIN base.text /\ n \in DOMAIN t.text /\ base.text[n] = t.text[n]
  <2>1. n \in DOMAIN t.text /\ n \notin ChangedModules(t)
    BY <1>1, AffectedIs DEF Untouched
  <2> QED
    BY <2>1 DEF ChangedModules
<1>3. PICK sp1, sp2 : sp1 = AllSinks(base) /\ sp2 = AllSinks(t)
  OBVIOUS
<1>4. ASSUME NEW n \in R, NEW i \in DOMAIN base.text[n].body PROVE <<n, i>> \in sp1 <=> <<n, i>> \in sp2
  <2>1. PICK s : s = <<n, i>>
    BY Zenon
  <2>2. s[1] = n /\ At(t, s) = At(base, s) /\ s \in SitesOf(t, n) /\ s \in SitesOf(base, n)
    BY <1>2, <2>1 DEF At, SitesOf
  <2>3. s \in sp1 <=> \E q \in DOMAIN base.text \cap DOMAIN base.text :
                         s \in SitesOf(base, q) /\ s[1] = q /\ At(base, s).c = "def" /\ At(base, s).sink # "none"
    BY <1>3, SinkSitesAre DEF AllSinks
  <2>4. s \in sp2 <=> \E q \in DOMAIN t.text \cap DOMAIN t.text :
                         s \in SitesOf(t, q) /\ s[1] = q /\ At(t, s).c = "def" /\ At(t, s).sink # "none"
    BY <1>3, SinkSitesAre DEF AllSinks
  <2> QED
    BY <1>2, <2>1, <2>2, <2>3, <2>4
<1>5. ASSUME NEW n \in R, NEW q \in base.text[n].imports, q \in DOMAIN base.text \cup DOMAIN t.text PROVE q \in R
  <2>1. n \in DOMAIN t.text /\ n \notin Affected(t) /\ q \in t.text[n].imports /\ q \in DOMAIN t.text
    BY <1>1, <1>2, <1>5 DEF Untouched
  <2>2. q \notin Affected(t)
    BY <2>1, AffectedIsClosed
  <2> QED
    BY <1>1, <2>1, <2>2 DEF Untouched
<1>6. SameView(base, sp1, t, sp2, R)
  BY <1>2, <1>4, <1>5 DEF SameView
<1>7. SameSinks(base, sp1, sp2, m) /\ m \in DOMAIN base.text /\ m \in R
  BY <1>1, <1>2, <1>4 DEF SameSinks
<1>8. LocalNodes(base, m)
  BY <1>7, NodesAreLocal
<1>9. sp1 \subseteq SinkSites(base, DOMAIN base.text)
  BY <1>3 DEF AllSinks
<1>10. ModuleFacts(base, sp1, m) = ModuleFacts(t, sp2, m)
  BY <1>6, <1>7, <1>8, <1>9, SameModuleFacts
<1> QED
  BY <1>3, <1>7, <1>10

(***************************************************************************)
(* What is carried                                                         *)
(***************************************************************************)

\* A fact of a module bears its file, and its evidence lies there or in what it imports.
LEMMA FactsLie ==
    ASSUME NEW t, GoodTree(t), NEW sp, NEW m \in DOMAIN t.text, LocalNodes(t, m), NEW g \in ModuleFacts(t, sp, m)
    PROVE  Lies(t, m, g)
<1>1. SettledIn(t, sp, m, g)
  BY ModuleIsSettled
<1>2. ASSUME Settled(t, sp, m, g) PROVE Lies(t, m, g)
  BY <1>2 DEF Settled, Lies
<1>3. ASSUME NEW s \in SitesOf(t, m), MadeBy(t, sp, s, g) PROVE Lies(t, m, g)
  <2>1. s[1] = m
    BY DEF SitesOf
  <2>2. ASSUME NEW id, NEW name, NEW method, NEW ev, NEW src, g = AgentFact(id, name, method, ev, src)
        PROVE  g.ev = ev /\ g.src = src
    BY <2>2 DEF AgentFact
  <2>3. CASE Makes(t, s) /\ g = MadeAgent(t, sp, s)
    <3>1. g.ev = <<s>> /\ g.src = m
      BY <2>1, <2>2, <2>3 DEF MadeAgent, AgentOf
    <3>2. ToSet(g.ev) = {s}
      BY <3>1, ShortLists
    <3> QED
      BY <2>1, <3>1, <3>2 DEF Near, Lies
  <2>4. CASE AnchorsAt(t, sp, s) # {} /\ g = PromotedAgent(t, sp, s)
    <3>0. PICK sink : sink = SinkOf(t, sp, s)
      OBVIOUS
    <3>1. g.ev = <<s, sink>> /\ g.src = m
      BY <2>1, <2>2, <2>4, <3>0 DEF PromotedAgent
    <3>2. ToSet(g.ev) = {s, sink}
      BY <3>1, ShortLists
    <3>3. sink \in SitesOf(t, m)
      BY <2>4, <3>0, SinkIs
    <3>4. sink[1] = m
      BY <3>3 DEF SitesOf
    <3> QED
      BY <2>1, <3>1, <3>2, <3>4 DEF Near, Lies
  <2> QED
    BY <1>3, <2>3, <2>4 DEF MadeBy
<1> QED
  BY <1>1, <1>2, <1>3 DEF SettledIn

\* Whatever it is set to.
LEMMA FlagKeeps ==
    ASSUME NEW t, NEW g, IsAgentFact(g)
    PROVE  FlaggedAs(g, FlagAt(t, g))
<1>1. CASE g.k # "agent"
  BY <1>1 DEF FlagAt, FlaggedAs
<1>2. CASE g.k = "agent"
  <2>1. PICK id, name, method, ev, src : g = AgentFact(id, name, method, ev, src)
    BY <1>2 DEF IsAgentFact
  <2>2. PICK b : b = (Slug[g.name] \in Marked(t))
    OBVIOUS
  <2>3. PICK f : f = FlagAt(t, g)
    OBVIOUS
  <2>4. f = [g EXCEPT !.entry = b]
    BY <1>2, <2>2, <2>3 DEF FlagAt, Flag
  <2>5. g = [k |-> "agent", id |-> id, name |-> name, entry |-> FALSE, method |-> method, ev |-> ev, src |-> src]
    BY <2>1 DEF AgentFact
  <2>6. f = [k |-> "agent", id |-> id, name |-> name, entry |-> b, method |-> method, ev |-> ev, src |-> src]
    BY <2>4, <2>5
  <2>7. FlaggedAs(g, f)
    BY <2>5, <2>6 DEF FlaggedAs
  <2> QED
    BY <2>3, <2>7
<1> QED
  BY <1>1, <1>2

\* A configured server is no fact of a module.
LEMMA ConfigFactsAre ==
    ASSUME NEW t, GoodTree(t), NEW g \in ToSet(ConfigFacts(t))
    PROVE  g.src = "config" /\ g.k = "mcp" /\ Kinded(g) /\ DOMAIN g = {"k", "id", "method", "ev", "src"}
<1> DEFINE labels == Listed(t.config)
           F(i) == ServerFact(labels[i], <<"config", 1>>, "config")
           facts == [i \in DOMAIN labels |-> F(i)]
<1>1. Len(labels) \in Nat /\ DOMAIN labels = 1..Len(labels)
  BY ListedAre, ListIsFunction DEF GoodTree
<1>2. \A i : F(i).src = "config" /\ F(i).k = "mcp" /\ DOMAIN F(i) = {"k", "id", "method", "ev", "src"}
  BY DEF ServerFact
<1>3. ConfigFacts(t) = facts
  BY DEF ConfigFacts
<1> HIDE DEF labels, F
<1>4. facts = [i \in 1..Len(labels) |-> facts[i]] /\ \A i \in 1..Len(labels) : facts[i] = F(i)
  BY <1>1
<1> HIDE DEF facts
<1>5. DOMAIN facts = 1..Len(labels)
  BY <1>1, <1>4, FunctionIsList
<1>6. \E i \in 1..Len(labels) : g = F(i)
  BY <1>3, <1>4, <1>5 DEF ToSet
<1>7. Kinded(g)
  BY ConfigIsPlain DEF GoodTree, Plain, PlainFact
<1> QED
  BY <1>2, <1>6, <1>7

\* The facts of a tree are records of agents, if they are agents.
LEMMA TreeAgentsAre ==
    ASSUME NEW t, GoodTree(t), Separated(t), NEW g \in TreeFacts(t)
    PROVE  IsAgentFact(g)
<1>1. CASE g \in ToSet(ConfigFacts(t))
  BY <1>1, ConfigFactsAre DEF IsAgentFact
<1>2. CASE g \in FactsOf(t, DOMAIN t.text)
  <2>1. PICK m \in DOMAIN t.text : g \in ModuleFacts(t, AllSinks(t), m)
    BY <1>2 DEF FactsOf
  <2> QED
    BY <2>1, NodesAreLocal, ModuleAgentsAre
<1> QED
  BY <1>1, <1>2 DEF TreeFacts

\* The facts that are carried are those of the modules that are not analysed again, as the last
\* scan flagged them.
LEMMA CarriedAre ==
    ASSUME GoodTree(base), Separated(base), NEW t, GoodTree(t), DOMAIN base.text \subseteq DOMAIN t.text,
           IsList(cache.facts), ToSet(cache.facts) = Flagged(base, TreeFacts(base))
    PROVE  /\ IsList(CarriedFacts(t))
           /\ ToSet(CarriedFacts(t)) = Flagged(base, FactsOf(t, Untouched(t)))
<1> DEFINE keep == {f \in ToSet(cache.facts) : Keeps(t, f)}
<1>1. IsList(CarriedFacts(t)) /\ ToSet(CarriedFacts(t)) = keep
  <2>1. CarriedFacts(t) = Filtered(cache.facts, keep)
    BY DEF CarriedFacts
  <2>2. keep \subseteq ToSet(cache.facts)
    OBVIOUS
  <2> HIDE DEF keep
  <2>3. IsList(CarriedFacts(t)) /\ ToSet(CarriedFacts(t)) = ToSet(cache.facts) \cap keep
    BY <2>1, KeptAre
  <2> QED
    BY <2>2, <2>3
<1>2. "config" \notin DOMAIN t.text /\ "config" \notin DOMAIN base.text
  BY DEF GoodTree
<1>3. ASSUME NEW f \in keep PROVE f \in Flagged(base, FactsOf(t, Untouched(t)))
  <2>1. PICK g \in TreeFacts(base) : f = FlagAt(base, g)
    BY DEF Flagged
  <2>2. FlaggedAs(g, f)
    BY <2>1, TreeAgentsAre, FlagKeeps
  <2>3. g.src \in Untouched(t)
    BY <2>2 DEF FlaggedAs, Keeps, Untouched
  <2>4. g \notin ToSet(ConfigFacts(base))
    BY <1>2, <2>3, ConfigFactsAre DEF Untouched
  <2>5. PICK m \in DOMAIN base.text : g \in ModuleFacts(base, AllSinks(base), m)
    BY <2>4 DEF TreeFacts, FactsOf
  <2>6. g.src = m
    BY <2>5, NodesAreLocal, FactsLie DEF Lies
  <2>7. g \in ModuleFacts(t, AllSinks(t), m)
    BY <2>3, <2>5, <2>6, ContributesAsBefore
  <2>8. g \in FactsOf(t, Untouched(t))
    BY <2>3, <2>6, <2>7 DEF FactsOf
  <2> QED
    BY <2>1, <2>8 DEF Flagged
<1>4. ASSUME NEW f \in Flagged(base, FactsOf(t, Untouched(t))) PROVE f \in keep
  <2>1. PICK g \in FactsOf(t, Untouched(t)) : f = FlagAt(base, g)
    BY DEF Flagged
  <2>2. PICK m \in Untouched(t) : g \in ModuleFacts(t, AllSinks(t), m)
    BY <2>1 DEF FactsOf
  <2>3. m \in DOMAIN base.text /\ g \in ModuleFacts(base, AllSinks(base), m)
    BY <2>2, ContributesAsBefore
  <2>4. g \in TreeFacts(base)
    BY <2>3 DEF TreeFacts, FactsOf
  <2>5. f \in ToSet(cache.facts)
    BY <2>1, <2>4 DEF Flagged
  <2>6. FlaggedAs(g, f)
    BY <2>1, <2>4, TreeAgentsAre, FlagKeeps
  <2>7. Lies(base, m, g)
    BY <2>3, NodesAreLocal, FactsLie
  <2>8. base.text[m] = t.text[m] /\ m \in DOMAIN t.text /\ m \notin Affected(t)
    <3>1. m \in DOMAIN t.text /\ m \notin Affected(t)
      BY DEF Untouched
    <3>2. m \notin ChangedModules(t)
      BY <3>1, AffectedIs
    <3> QED
      BY <3>1, <3>2 DEF ChangedModules
  <2>9. ASSUME NEW e \in ToSet(g.ev) PROVE e[1] \notin ChangedFiles(t)
    <3>1. e[1] \in DOMAIN base.text /\ e[1] \in t.text[m].imports \cup {m}
      BY <2>7, <2>8 DEF Lies, Near
    <3>2. e[1] \in DOMAIN t.text /\ e[1] # "config"
      BY <1>2, <3>1
    <3>3. e[1] \notin ChangedModules(t)
      BY <2>8, <3>1, AffectedIs
    <3> QED
      BY <3>2, <3>3 DEF ChangedFiles
  <2>10. f.src = m /\ f.ev = g.ev
    BY <2>6, <2>7 DEF FlaggedAs, Lies
  <2>11. {s[1] : s \in ToSet(f.ev)} \cap ChangedFiles(t) = {}
    BY <2>9, <2>10
  <2>12. Keeps(t, f)
    BY <2>8, <2>10, <2>11 DEF Keeps
  <2> QED
    BY <2>5, <2>12
<1> HIDE DEF keep
<1> QED
  BY <1>1, <1>3, <1>4, Zenon

\* An agent that a construct of a module makes bears a name that the module uses.
LEMMA AgentUsesName ==
    ASSUME NEW t, GoodTree(t), Separated(t), NEW sp, NEW m \in DOMAIN t.text, NEW g \in ModuleFacts(t, sp, m),
           g.k = "agent"
    PROVE  <<g.id[2], m>> \in NameUses(t)
<1>1. LocalNodes(t, m)
  BY NodesAreLocal
<1>2. SettledIn(t, sp, m, g)
  BY <1>1, ModuleIsSettled
<1>3. PICK s \in SitesOf(t, m) : MadeBy(t, sp, s, g)
  BY <1>2 DEF SettledIn, Settled
<1>4. PICK only : only = {m}
  BY Zenon
<1>5. only \in SUBSET DOMAIN t.text /\ s \in AllSites(t, only)
  BY <1>3, <1>4 DEF AllSites
<1>6. g \in RulesOf(t, sp, AllSites(t, only)) \cup PromotionsOf(t, sp, AllSites(t, only))
  <2>1. CASE Makes(t, s) /\ g = MadeAgent(t, sp, s)
    <3>1. g \in RuleFacts(t, sp, s)
      BY <2>1, RuleFactsAre, Zenon
    <3> QED
      BY <1>5, <3>1 DEF RulesOf
  <2>2. CASE AnchorsAt(t, sp, s) # {} /\ g = PromotedAgent(t, sp, s)
    <3>1. g \in PromotionFacts(t, sp, s)
      BY <1>1, <2>2, PromotionFactsAre
    <3> QED
      BY <1>5, <3>1 DEF PromotionsOf
  <2> QED
    BY <1>3, <2>1, <2>2 DEF MadeBy
<1>7. PICK n \in only : <<g.id[2], n>> \in NameUses(t) /\ Claimed(t, sp, n, g.id[2])
  BY <1>5, <1>6, AgentIsClaimed
<1> QED
  BY <1>4, <1>7

\* What an incremental scan carries is fit to be carried.
LEMMA CarriedAreFit ==
    ASSUME GoodTree(base), Separated(base), NEW t, GoodTree(t), Separated(t), DOMAIN base.text \subseteq DOMAIN t.text,
           IsList(cache.facts), ToSet(cache.facts) = Flagged(base, TreeFacts(base)),
           GoodCarried(CarriedFacts(t))
    PROVE  Fit(t, Affected(t), CarriedFacts(t))
<1>1. PICK carried : carried = CarriedFacts(t)
  OBVIOUS
<1>2. ToSet(carried) = Flagged(base, FactsOf(t, Untouched(t)))
  BY <1>1, CarriedAre
<1>3. ASSUME NEW c \in ToSet(carried)
      PROVE  \E m \in Untouched(t) : \E g \in ModuleFacts(t, AllSinks(t), m) : c = FlagAt(base, g) /\ FlaggedAs(g, c)
  <2>1. PICK g \in FactsOf(t, Untouched(t)) : c = FlagAt(base, g)
    BY <1>2 DEF Flagged
  <2>2. PICK m \in Untouched(t) : g \in ModuleFacts(t, AllSinks(t), m)
    BY <2>1 DEF FactsOf
  <2>3. m \in DOMAIN t.text
    BY DEF Untouched
  <2>4. LocalNodes(t, m)
    BY <2>3, NodesAreLocal
  <2>5. IsAgentFact(g)
    BY <2>2, <2>3, <2>4, ModuleAgentsAre
  <2>6. FlaggedAs(g, c)
    BY <2>1, <2>5, FlagKeeps
  <2> QED
    BY <2>1, <2>2, <2>6
<1>4. Affected(t) \in SUBSET DOMAIN t.text
  BY AffectedIs
<1>5. Distant(t, Affected(t), carried)
  <2>1. ASSUME NEW c \in ToSet(carried), c.k = "agent", NEW m \in Affected(t),
               <<c.id[2], m>> \in NameUses(t) \cup RouteUses(t)
        PROVE  FALSE
    <3>1. PICK n \in Untouched(t) : \E g \in ModuleFacts(t, AllSinks(t), n) : FlaggedAs(g, c)
      BY <1>3
    <3>2. PICK g \in ModuleFacts(t, AllSinks(t), n) : FlaggedAs(g, c)
      BY <3>1
    <3>3. g.k = "agent" /\ g.id = c.id
      BY <2>1, <3>2 DEF FlaggedAs
    <3>4. n \in DOMAIN t.text /\ n \notin Affected(t)
      BY DEF Untouched
    <3>5. <<g.id[2], n>> \in NameUses(t)
      BY <3>2, <3>3, <3>4, AgentUsesName
    <3>6. n = m
      BY <2>1, <3>3, <3>5, NamesAreApart
    <3> QED
      BY <3>4, <3>6
  <2> QED
    BY <2>1 DEF Distant
<1>6. Backed(t, Affected(t), carried)
  <2>1. ASSUME NEW m \in DOMAIN t.text \ Affected(t), NEW k, MakersOf(t, m, k) # {}
        PROVE  \E c \in ToSet(carried) : c.k = "agent" /\ c.id = <<"agent", k>>
    <3>1. PICK sp : sp = AllSinks(t)
      OBVIOUS
    <3>2. ClaimIs(t, sp, m, k)
      BY OwnerHasBareId
    <3>3. PICK s \in SitesOf(t, m) : Makes(t, s) /\ MadeAgent(t, sp, s).id = <<"agent", k>>
      BY <2>1, <3>2 DEF ClaimIs
    <3>4. PICK g : g = MadeAgent(t, sp, s)
      OBVIOUS
    <3>5. g.k = "agent" /\ g.id = <<"agent", k>>
      BY <3>3, <3>4, MadeIs
    <3>6. LocalNodes(t, m)
      BY NodesAreLocal
    <3>7. MadeBy(t, sp, s, g)
      BY <3>3, <3>4 DEF MadeBy
    <3>8. g \in ModuleFacts(t, sp, m)
      BY <3>6, <3>7, AgentsAreContributed
    <3>9. g \in FactsOf(t, Untouched(t))
      BY <3>1, <3>8 DEF FactsOf, Untouched
    <3>10. PICK c : c = FlagAt(base, g)
      OBVIOUS
    <3>11. c \in ToSet(carried)
      BY <1>2, <3>9, <3>10 DEF Flagged
    <3>12. IsAgentFact(g)
      BY <3>6, <3>8, ModuleAgentsAre
    <3>13. FlaggedAs(g, c)
      BY <3>10, <3>12, FlagKeeps
    <3>14. c.k = "agent" /\ c.id = <<"agent", k>>
      BY <3>5, <3>13 DEF FlaggedAs
    <3> QED
      BY <3>11, <3>14
  <2> QED
    BY <2>1, Zenon DEF Backed
<1> QED
  BY <1>1, <1>4, <1>5, <1>6 DEF Fit

\* Nothing carried is fit for a scan of all modules.
LEMMA NothingIsFit ==
    ASSUME NEW t, GoodTree(t), Separated(t)
    PROVE  Fit(t, DOMAIN t.text, <<>>)
<1>1. IsList(<<>>) /\ ToSet(<<>>) = {}
  BY ShortLists
<1> QED
  BY <1>1 DEF Fit, GoodCarried, Distant, Backed

\* A later flag overrides an earlier one.
LEMMA FlagsOfFlags ==
    ASSUME NEW t, NEW b, NEW F, \A g \in F : IsAgentFact(g)
    PROVE  Flagged(t, Flagged(b, F)) = Flagged(t, F)
<1>1. ASSUME NEW g \in F PROVE FlagAt(t, FlagAt(b, g)) = FlagAt(t, g)
  <2>1. CASE g.k # "agent"
    BY <2>1 DEF FlagAt
  <2>2. CASE g.k = "agent"
    <3>1. PICK id, name, method, ev, src : g = AgentFact(id, name, method, ev, src)
      BY <2>2 DEF IsAgentFact
    <3>2. PICK x, y : x = (Slug[name] \in Marked(b)) /\ y = (Slug[name] \in Marked(t))
      OBVIOUS
    <3>3. PICK f : f = Flag(g, x)
      OBVIOUS
    <3>4. g.name = name
      BY <3>1 DEF AgentFact
    <3>5. FlagAt(b, g) = f /\ FlagAt(t, g) = Flag(g, y)
      BY <2>2, <3>2, <3>3, <3>4 DEF FlagAt
    <3>6. g = [k |-> "agent", id |-> id, name |-> name, entry |-> FALSE, method |-> method, ev |-> ev, src |-> src]
      BY <3>1 DEF AgentFact
    <3>7. f = [k |-> "agent", id |-> id, name |-> name, entry |-> x, method |-> method, ev |-> ev, src |-> src]
      BY <3>3, <3>6 DEF Flag
    <3>8. Flag(f, y) = [k |-> "agent", id |-> id, name |-> name, entry |-> y, method |-> method, ev |-> ev, src |-> src]
      BY <3>7 DEF Flag
    <3>9. Flag(g, y) = [k |-> "agent", id |-> id, name |-> name, entry |-> y, method |-> method, ev |-> ev, src |-> src]
      BY <3>6 DEF Flag
    <3>10. f.k = "agent" /\ f.name = name
      BY <3>7
    <3>11. FlagAt(t, f) = Flag(f, y)
      BY <3>2, <3>10 DEF FlagAt
    <3> QED
      BY <3>5, <3>8, <3>9, <3>11
  <2> QED
    BY <2>1, <2>2
<1> QED
  BY <1>1 DEF Flagged

\* A scan of all modules reports the facts of the tree.
LEMMA FullScanFacts ==
    ASSUME NEW t, GoodTree(t), Separated(t)
    PROVE  ScanFacts(t, DOMAIN t.text, <<>>) = TreeFacts(t)
<1>1. ToSet(<<>>) = {}
  BY ShortLists
<1> QED
  BY <1>1 DEF ScanFacts, TreeFacts, FactsOf, AllSinks

\* And so does a scan of what is affected, with what it carries.
LEMMA IncrementalScanFacts ==
    ASSUME NEW t, GoodTree(t), Separated(t), NEW b, NEW carried,
           ToSet(carried) = Flagged(b, FactsOf(t, Untouched(t)))
    PROVE  Flagged(t, ScanFacts(t, Affected(t), carried)) = Flagged(t, TreeFacts(t))
<1>1. PICK A, U, C : A = FactsOf(t, Affected(t)) /\ U = FactsOf(t, Untouched(t)) /\ C = ToSet(ConfigFacts(t))
  OBVIOUS
<1>2. Affected(t) \subseteq DOMAIN t.text
  BY AffectedIs
<1>3. ScanFacts(t, Affected(t), carried) = A \cup C \cup Flagged(b, U)
  <2>1. \A m \in Affected(t) : ModuleFacts(t, SinkSites(t, Affected(t)), m) = ModuleFacts(t, AllSinks(t), m)
    BY <1>2, ContributesAlike
  <2>2. A = UNION {ModuleFacts(t, SinkSites(t, Affected(t)), m) : m \in Affected(t)}
    BY <1>1, <2>1 DEF FactsOf
  <2> QED
    BY <1>1, <2>2 DEF ScanFacts
<1>4. TreeFacts(t) = A \cup U \cup C
  <2>1. Affected(t) \cup Untouched(t) = DOMAIN t.text
    BY <1>2 DEF Untouched
  <2>2. FactsOf(t, DOMAIN t.text) = A \cup U
    BY <1>1, <2>1 DEF FactsOf
  <2> QED
    BY <1>1, <2>2 DEF TreeFacts
<1>5. Flagged(t, Flagged(b, U)) = Flagged(t, U)
  <2>1. \A g \in U : IsAgentFact(g)
    BY <1>4, TreeAgentsAre
  <2> QED
    BY <2>1, FlagsOfFlags
<1>6. PICK V : V = Flagged(b, U)
  OBVIOUS
<1>7. Flagged(t, A \cup C \cup V) = Flagged(t, A) \cup Flagged(t, C) \cup Flagged(t, V)
  BY DEF Flagged
<1>8. Flagged(t, A \cup U \cup C) = Flagged(t, A) \cup Flagged(t, U) \cup Flagged(t, C)
  BY DEF Flagged
<1>9. Flagged(t, ScanFacts(t, Affected(t), carried)) = Flagged(t, A \cup C \cup V)
  BY <1>3, <1>6
<1>10. Flagged(t, V) = Flagged(t, U)
  BY <1>5, <1>6
<1>11. Flagged(t, A \cup C \cup V) = Flagged(t, A \cup U \cup C)
  BY <1>7, <1>8, <1>10, Zenon
<1> QED
  BY <1>4, <1>9, <1>11

(***************************************************************************)
(* The order of the facts                                                  *)
(***************************************************************************)

\* What is united are the facts of one id, and the first of them by rank gives the content.
LEMMA MergedIs ==
    ASSUME NEW facts, AllKinded(facts), NEW id, OfId(ToSet(facts), id) # {}
    PROVE  MergedFrom(ToSet(facts), id, Merged(facts, id))
<1> DEFINE same == Same(facts, id)
           first == CHOOSE i \in same : IsFirst(facts, same, i)
           S == OfId(ToSet(facts), id)
<1>1. S = {facts[i] : i \in same}
  BY DEF Same, ToSet, OfId
<1>2. same # {}
  BY <1>1
<1>3. first \in same /\ IsFirst(facts, same, first)
  BY <1>2, ThereIsAFirst
<1>4. Merged(facts, id) =
        [facts[first] EXCEPT !.ev = UNION {ToSet(facts[i].ev) : i \in same},
                             !.method = {facts[i].method : i \in same},
                             !.src = {facts[i].src : i \in same}]
  BY Zenon DEF Merged, Same, IsFirst
<1> HIDE DEF first, same, S
<1>5. /\ UNION {ToSet(facts[i].ev) : i \in same} = UNION {ToSet(g.ev) : g \in S}
      /\ {facts[i].method : i \in same} = {g.method : g \in S}
      /\ {facts[i].src : i \in same} = {g.src : g \in S}
  <2>1. {ToSet(facts[i].ev) : i \in same} = {ToSet(g.ev) : g \in S}
    BY <1>1
  <2>2. {facts[i].method : i \in same} = {g.method : g \in S}
    BY <1>1
  <2>3. {facts[i].src : i \in same} = {g.src : g \in S}
    BY <1>1
  <2> QED
    BY <2>1, <2>2, <2>3, Zenon
<1>6. Merged(facts, id) = United(facts[first], S)
  BY <1>4, <1>5, Zenon DEF United
<1>7. \A g \in S : Rank(g) \in Nat
  <2> TAKE g \in S
  <2>1. Kinded(g) /\ g.k # "edge"
    BY DEF S, OfId, AllKinded
  <2> QED
    BY <2>1, RankIsNatural DEF Kinded
<1>8. ASSUME NEW g \in S PROVE Rank(facts[first]) <= Rank(g)
  <2>1. PICK j \in same : g = facts[j]
    BY <1>1
  <2>2. facts[first] \in S
    BY <1>1, <1>3
  <2>3. j = first \/ Rank(facts[first]) <= Rank(facts[j])
    BY <1>3, <1>7, <2>1, <2>2 DEF IsFirst
  <2> QED
    BY <1>7, <2>1, <2>2, <2>3
<1>9. facts[first] \in S
  BY <1>1, <1>3
<1> QED
  BY <1>6, <1>8, <1>9 DEF MergedFrom, S

\* Facts that are alike unite to one node.
LEMMA AlikeUnite ==
    ASSUME NEW f, NEW g, Alike(f, g), NEW S
    PROVE  United(f, S) = United(g, S)
<1> DEFINE ev == UNION {ToSet(h.ev) : h \in S}
           methods == {h.method : h \in S}
           srcs == {h.src : h \in S}
<1>1. United(f, S) = [f EXCEPT !.ev = ev, !.method = methods, !.src = srcs]
      /\ United(g, S) = [g EXCEPT !.ev = ev, !.method = methods, !.src = srcs]
  BY DEF United
<1> HIDE DEF ev, methods, srcs
<1>2. [f EXCEPT !.ev = ev, !.method = methods, !.src = srcs]
      = [x \in DOMAIN f |-> IF x = "src" THEN srcs ELSE IF x = "method" THEN methods ELSE IF x = "ev" THEN ev ELSE f[x]]
  BY Zenon
<1>3. [g EXCEPT !.ev = ev, !.method = methods, !.src = srcs]
      = [x \in DOMAIN g |-> IF x = "src" THEN srcs ELSE IF x = "method" THEN methods ELSE IF x = "ev" THEN ev ELSE g[x]]
  BY Zenon
<1> QED
  BY <1>1, <1>2, <1>3 DEF Alike

\* The rank tells the method.
LEMMA RankTells ==
    ASSUME NEW f, f.method \in {Methods[i] : i \in DOMAIN Methods},
           NEW g, g.method \in {Methods[i] : i \in DOMAIN Methods}, Rank(f) = Rank(g)
    PROVE  f.method = g.method
<1>1. Methods[Rank(f)] = f.method
  <2>1. \E i \in DOMAIN Methods : Methods[i] = f.method
    OBVIOUS
  <2> QED
    BY <2>1, Zenon DEF Rank
<1>2. Methods[Rank(g)] = g.method
  <2>1. \E i \in DOMAIN Methods : Methods[i] = g.method
    OBVIOUS
  <2> QED
    BY <2>1, Zenon DEF Rank
<1> QED
  BY <1>1, <1>2

\* Facts of which each id and method tells what they say give one node whatever their order.
LEMMA NodeIsDetermined ==
    ASSUME NEW S, Determined(S), \A f \in S : Kinded(f), NEW id, NEW n1, MergedFrom(S, id, n1), NEW n2, MergedFrom(S, id, n2)
    PROVE  n1 = n2
<1> DEFINE T == OfId(S, id)
<1>1. PICK f \in T : (\A g \in T : Rank(f) <= Rank(g)) /\ n1 = United(f, T)
  BY DEF MergedFrom
<1>2. PICK g \in T : (\A h \in T : Rank(g) <= Rank(h)) /\ n2 = United(g, T)
  BY DEF MergedFrom
<1>3. f \in S /\ f.k # "edge" /\ f.id = id /\ g \in S /\ g.k # "edge" /\ g.id = id
  BY DEF OfId
<1>4. Kinded(f) /\ Kinded(g)
  BY <1>3
<1>5. Rank(f) \in Nat /\ Rank(g) \in Nat
  BY <1>3, <1>4, RankIsNatural DEF Kinded
<1>6. Rank(f) = Rank(g)
  BY <1>1, <1>2, <1>5
<1>7. f.method = g.method
  BY <1>3, <1>4, <1>6, RankTells DEF Kinded
<1>8. Alike(f, g)
  BY <1>3, <1>7 DEF Determined
<1> HIDE DEF T
<1> QED
  BY <1>1, <1>2, <1>3, <1>4, <1>8, AlikeUnite

\* The graph of determined facts does not depend on their order.
LEMMA GraphIsDetermined ==
    ASSUME NEW F, AllKinded(F), NEW G, AllKinded(G), ToSet(F) = ToSet(G), Determined(ToSet(F))
    PROVE  Graph(F) = Graph(G)
<1>1. PICK S : S = ToSet(F)
  OBVIOUS
<1>2. \A f \in S : Kinded(f)
  BY <1>1 DEF AllKinded
<1>3. PICK ids : ids = {f.id : f \in {g \in S : g.k # "edge"}}
  BY Zenon
<1>4. ASSUME NEW id \in ids PROVE Merged(F, id) = Merged(G, id)
  <2>1. OfId(ToSet(F), id) # {} /\ OfId(ToSet(G), id) # {}
    BY <1>1, <1>3 DEF OfId
  <2>2. MergedFrom(ToSet(F), id, Merged(F, id))
    BY <2>1, MergedIs
  <2>3. MergedFrom(ToSet(G), id, Merged(G, id))
    BY <2>1, MergedIs
  <2>4. MergedFrom(S, id, Merged(F, id)) /\ MergedFrom(S, id, Merged(G, id)) /\ Determined(S)
    BY <1>1, <2>2, <2>3
  <2> QED
    BY <1>2, <2>4, NodeIsDetermined
<1>5. Nodes(F) = [id \in ids |-> Merged(F, id)] /\ Nodes(G) = [id \in ids |-> Merged(G, id)]
  BY <1>1, <1>3 DEF Nodes
<1>6. Nodes(F) = Nodes(G)
  BY <1>4, <1>5
<1>7. Bound(F) = Bound(G)
  BY DEF Bound
<1> QED
  BY <1>6, <1>7 DEF Graph

\* Nor does its verdict depend on the number of sinks, if there is an agent or a usage.
LEMMA VerdictIsDetermined ==
    ASSUME NEW F, AllKinded(F), NEW f \in ToSet(F), f.k \in {"agent", "usage"}, NEW n
    PROVE  Verdict(Graph(F).nodes, n) = "ai_detected"
<1>1. Graph(F).nodes = Nodes(F)
  BY DEF Graph, GraphOf
<1>2. f.id \in DOMAIN Nodes(F)
  BY DEF Nodes
<1>3. Nodes(F)[f.id].k = f.k
  <2>1. Kinded(f)
    BY DEF AllKinded
  <2> QED
    BY <1>2, <2>1, NodeKinds DEF Kinded
<1>4. OfKind(Nodes(F), f.k) # {}
  BY <1>2, <1>3 DEF OfKind
<1> QED
  BY <1>1, <1>4 DEF Verdict

\* So is the record.
LEMMA RecordIsDetermined ==
    ASSUME NEW F, AllKinded(F), NEW G, AllKinded(G), ToSet(F) = ToSet(G), Determined(ToSet(F)), NEW n1, NEW n2,
           n1 = n2 \/ \E f \in ToSet(F) : f.k \in {"agent", "usage"}
    PROVE  Record(F, n1) = Record(G, n2)
<1>1. PICK g : g = Graph(F)
  OBVIOUS
<1>2. Record(F, n1) = RecordOf(g, n1) /\ Record(G, n2) = RecordOf(g, n2)
  BY <1>1, GraphIsDetermined DEF Record
<1>3. Verdict(g.nodes, n1) = Verdict(g.nodes, n2)
  <2>1. CASE n1 = n2
    BY <2>1
  <2>2. CASE \E f \in ToSet(F) : f.k \in {"agent", "usage"}
    BY <1>1, <2>2, VerdictIsDetermined
  <2> QED
    BY <2>1, <2>2
<1>4. RecordOf(g, n1) = RecordOf(g, n2)
  BY <1>3, Zenon DEF RecordOf
<1> QED
  BY <1>2, <1>4

\* A tree of which no module calls a model has no sinks in any of its modules; else an agent or a usage
\* tells of the call.
LEMMA SinksTell ==
    ASSUME NEW t, GoodTree(t), Separated(t), NEW only \in SUBSET DOMAIN t.text
    PROVE  \/ SinkSites(t, only) = SinkSites(t, DOMAIN t.text)
           \/ \E g \in TreeFacts(t) : g.k \in {"agent", "usage"}
<1>1. PICK sp : sp = AllSinks(t)
  OBVIOUS
<1>2. ASSUME NEW s \in sp PROVE \E g \in TreeFacts(t) : g.k \in {"agent", "usage"}
  <2>1. PICK m \in DOMAIN t.text : s \in SitesOf(t, m)
    BY <1>1, SinkSitesAre DEF AllSinks
  <2>2. \A g \in ModuleFacts(t, sp, m) : g \in TreeFacts(t)
    BY <1>1, <2>1 DEF TreeFacts, FactsOf
  <2>3. LocalNodes(t, m)
    BY <2>1, NodesAreLocal
  <2>4. CASE s \in Spent(t, sp, m)
    <3>1. PICK r \in SitesOf(t, m) : AnchorsAt(t, sp, r) # {}
      BY <2>4 DEF Spent
    <3>2. PICK g : g = PromotedAgent(t, sp, r)
      OBVIOUS
    <3>3. MadeBy(t, sp, r, g)
      BY <3>1, <3>2 DEF MadeBy
    <3>4. g \in ModuleFacts(t, sp, m)
      BY <2>1, <2>3, <3>1, <3>3, AgentsAreContributed
    <3>5. g.k = "agent"
      BY <3>2 DEF PromotedAgent, AgentFact
    <3> QED
      BY <2>2, <3>4, <3>5
  <2>5. CASE s \notin Spent(t, sp, m)
    <3>1. PICK g : g = [k |-> "usage", id |-> <<"usage">> \o s, model |-> ModelFact(t, At(t, s).model, "sink", s).id,
                        method |-> "usage", ev |-> <<s>>, src |-> s[1]]
      BY Zenon
    <3>2. g \in UsageAt(t, s)
      BY <3>1 DEF UsageAt
    <3>3. g \in UsagesOf(t, sp, m)
      BY <2>1, <2>5, <3>2 DEF UsagesOf
    <3>4. g \in ModuleFacts(t, sp, m)
      BY <3>3, ModuleFactsAre
    <3>5. g.k = "usage"
      BY <3>1
    <3> QED
      BY <2>2, <3>4, <3>5
  <2> QED
    BY <2>4, <2>5
<1>3. CASE sp = {}
  <2>1. \A mods \in SUBSET DOMAIN t.text : \A s \in SinkSites(t, mods) : s \in sp
    BY <1>1, SinkSitesAre DEF AllSinks
  <2>2. SinkSites(t, only) = {} /\ SinkSites(t, DOMAIN t.text) = {}
    BY <1>3, <2>1
  <2> QED
    BY <2>2
<1> QED
  BY <1>2, <1>3

\* An agent that a construct makes, flagged, is told by its origin and its slug.
LEMMA MadeIsTold ==
    ASSUME NEW t, GoodTree(t), NEW sp, NEW m \in DOMAIN t.text, LocalNodes(t, m), NEW s \in SitesOf(t, m),
           NEW g, MadeBy(t, sp, s, g)
    PROVE  MadeTells(t, s, FlagAt(t, g))
<1>1. ASSUME NEW id, NEW name, NEW method, NEW ev, NEW src, g = AgentFact(id, name, method, ev, src)
      PROVE  FlagAt(t, g) = [k |-> "agent", id |-> id, name |-> name, entry |-> (Slug[name] \in Marked(t)),
                             method |-> method, ev |-> ev, src |-> src]
  <2>1. PICK x : x = (Slug[name] \in Marked(t))
    OBVIOUS
  <2>2. g.k = "agent" /\ g.name = name
    BY <1>1 DEF AgentFact
  <2>3. FlagAt(t, g) = Flag(g, x)
    BY <2>1, <2>2 DEF FlagAt
  <2>4. Flag(AgentFact(id, name, method, ev, src), x)
        = [k |-> "agent", id |-> id, name |-> name, entry |-> x, method |-> method, ev |-> ev, src |-> src]
    BY DEF Flag, AgentFact
  <2> QED
    BY <1>1, <2>1, <2>3, <2>4
<1>2. ASSUME NEW id, NEW name, NEW method, NEW ev, NEW src, NEW f,
             f = [k |-> "agent", id |-> id, name |-> name, entry |-> (Slug[name] \in Marked(t)),
                  method |-> method, ev |-> ev, src |-> src]
      PROVE  /\ f.k = "agent" /\ DOMAIN f = {"k", "id", "name", "entry", "method", "ev", "src"}
             /\ f.entry = (Slug[f.name] \in Marked(t)) /\ f.name = name /\ f.method = method /\ f.ev = ev /\ f.id = id
  BY <1>2
<1>3. PICK f : f = FlagAt(t, g)
  OBVIOUS
<1>4. CASE Makes(t, s) /\ g = MadeAgent(t, sp, s)
  <2>1. PICK id, method : method \in {"ctor", "shape"} /\ g = AgentFact(id, At(t, s).name, method, <<s>>, s[1])
    BY <1>4 DEF MadeAgent, AgentOf
  <2>2. f = [k |-> "agent", id |-> id, name |-> At(t, s).name, entry |-> (Slug[At(t, s).name] \in Marked(t)),
             method |-> method, ev |-> <<s>>, src |-> s[1]]
    BY <1>1, <1>3, <2>1
  <2>3. /\ f.k = "agent" /\ DOMAIN f = {"k", "id", "name", "entry", "method", "ev", "src"}
        /\ f.entry = (Slug[f.name] \in Marked(t)) /\ f.name = At(t, s).name /\ f.method = method /\ f.ev = <<s>>
    BY <1>2, <2>2
  <2>4. f.method # "promotion" /\ Origin(f) = s
    BY <2>1, <2>3 DEF Origin
  <2> QED
    BY <1>3, <2>3, <2>4 DEF MadeTells
<1>5. CASE AnchorsAt(t, sp, s) # {} /\ g = PromotedAgent(t, sp, s)
  <2>1. PICK id, name, sink : id = IdOf(t, sp, s[1], NodeName(At(t, s)), SinkOf(t, sp, s))
                              /\ name = NodeName(At(t, s)) /\ sink = SinkOf(t, sp, s)
    OBVIOUS
  <2>2. g = AgentFact(id, name, "promotion", <<s, sink>>, s[1])
    BY <1>5, <2>1 DEF PromotedAgent
  <2>3. f = [k |-> "agent", id |-> id, name |-> name, entry |-> (Slug[name] \in Marked(t)),
             method |-> "promotion", ev |-> <<s, sink>>, src |-> s[1]]
    BY <1>1, <1>3, <2>2
  <2>4. /\ f.k = "agent" /\ DOMAIN f = {"k", "id", "name", "entry", "method", "ev", "src"}
        /\ f.entry = (Slug[f.name] \in Marked(t)) /\ f.name = name /\ f.method = "promotion" /\ f.ev = <<s, sink>>
        /\ f.id = id
    BY <1>2, <2>3
  <2>5. Origin(f) = sink
    BY <2>4 DEF Origin
  <2>6. At(t, s).c = "node" /\ sink \in AnchorsAt(t, sp, s)
    BY <1>5, <2>1, SinkIs
  <2>7. sink \in Lookup(t, At(t, s).fn, "def")
    BY <2>6, SinkIs
  <2>8. Pair(sink)
    BY <2>7, LookupIs
  <2>9. id[2] = Slug[name]
    BY <2>1, <2>8, IdIs
  <2> QED
    BY <1>3, <2>1, <2>4, <2>5, <2>6, <2>7, <2>9 DEF MadeTells
<1> QED
  BY <1>4, <1>5 DEF MadeBy

\* The tree tells of each of its facts.
LEMMA FactIsTold ==
    ASSUME NEW t, GoodTree(t), Separated(t), NEW f \in Flagged(t, TreeFacts(t))
    PROVE  FactTells(t, f)
<1>1. PICK g \in TreeFacts(t) : f = FlagAt(t, g)
  BY DEF Flagged
<1>2. PICK sp : sp = AllSinks(t)
  OBVIOUS
<1>3. CASE g \in ToSet(ConfigFacts(t))
  <2>1. g.k = "mcp" /\ DOMAIN g = {"k", "id", "method", "ev", "src"}
    BY <1>3, ConfigFactsAre
  <2>2. f = g
    BY <1>1, <2>1 DEF FlagAt
  <2> QED
    BY <2>1, <2>2 DEF FactTells
<1>4. CASE g \in FactsOf(t, DOMAIN t.text)
  <2>1. PICK m \in DOMAIN t.text : g \in ModuleFacts(t, sp, m)
    BY <1>2, <1>4 DEF FactsOf
  <2>2. LocalNodes(t, m)
    BY NodesAreLocal
  <2>3. SettledIn(t, sp, m, g)
    BY <2>1, <2>2, ModuleIsSettled
  <2>4. CASE Settled(t, sp, m, g)
    <3>1. f = g
      BY <1>1, <2>4 DEF Settled, FlagAt
    <3> QED
      BY <1>2, <2>4, <3>1 DEF Settled, FactTells
  <2>5. CASE \E s \in SitesOf(t, m) : MadeBy(t, sp, s, g)
    <3>1. PICK s \in SitesOf(t, m) : MadeBy(t, sp, s, g)
      BY <2>5
    <3>2. MadeTells(t, s, f)
      BY <1>1, <2>2, <3>1, MadeIsTold
    <3>3. f.k = "agent"
      BY <3>2 DEF MadeTells
    <3> QED
      BY <3>2, <3>3 DEF FactTells
  <2> QED
    BY <2>3, <2>4, <2>5 DEF SettledIn
<1> QED
  BY <1>1, <1>3, <1>4 DEF TreeFacts

\* A node of a module is a node of the tree.
LEMMA NodeIsASite ==
    ASSUME NEW t, NEW m \in DOMAIN t.text, NEW s \in SitesOf(t, m), At(t, s).c = "node"
    PROVE  s \in SitesIn(t, {"node"})
<1>1. PICK i \in DOMAIN t.text[m].body : s = <<m, i>>
  BY DEF SitesOf
<1>2. t.text[m].body[i].c \in {"node"}
  BY <1>1 DEF At
<1> QED
  BY <1>1, <1>2 DEF SitesIn

\* Two agents with one id, one method and one origin bear one name and flag.
LEMMA AgentsAreAlike ==
    ASSUME NEW t, Separated(t), NEW m1 \in DOMAIN t.text, NEW s1 \in SitesOf(t, m1), NEW f1, MadeTells(t, s1, f1),
           NEW m2 \in DOMAIN t.text, NEW s2 \in SitesOf(t, m2), NEW f2, MadeTells(t, s2, f2),
           f1.id = f2.id, f1.method = f2.method, Origin(f1) = Origin(f2)
    PROVE  Alike(f1, f2)
<1>1. f1.name = f2.name
  <2>1. CASE f1.method # "promotion"
    BY <2>1 DEF MadeTells
  <2>2. CASE f1.method = "promotion"
    <3>1. /\ At(t, s1).c = "node" /\ f1.name = NodeName(At(t, s1)) /\ f1.id[2] = Slug[f1.name]
          /\ Origin(f1) \in Lookup(t, At(t, s1).fn, "def")
      BY <2>2 DEF MadeTells
    <3>2. /\ At(t, s2).c = "node" /\ f2.name = NodeName(At(t, s2)) /\ f2.id[2] = Slug[f2.name]
          /\ Origin(f1) \in Lookup(t, At(t, s2).fn, "def")
      BY <2>2 DEF MadeTells
    <3>3. At(t, s1).fn.mod = At(t, s2).fn.mod /\ At(t, s1).fn.var = At(t, s2).fn.var
      <4>1. PICK d : d = Origin(f1)
        OBVIOUS
      <4>2. d[1] = At(t, s1).fn.mod /\ At(t, d).var = At(t, s1).fn.var
        BY <3>1, <4>1, LookupIs
      <4>3. d[1] = At(t, s2).fn.mod /\ At(t, d).var = At(t, s2).fn.var
        BY <3>2, <4>1, LookupIs
      <4> QED
        BY <4>2, <4>3
    <3>4. s1 \in SitesIn(t, {"node"}) /\ s2 \in SitesIn(t, {"node"})
      BY <3>1, <3>2, NodeIsASite
    <3>5. Slug[NodeName(At(t, s1))] = Slug[NodeName(At(t, s2))]
      BY <3>1, <3>2
    <3> QED
      BY <3>1, <3>2, <3>3, <3>4, <3>5 DEF Separated
  <2> QED
    BY <2>1, <2>2
<1>2. /\ f1.k = "agent" /\ DOMAIN f1 = {"k", "id", "name", "entry", "method", "ev", "src"}
      /\ f1.entry = (Slug[f1.name] \in Marked(t))
      /\ f2.k = "agent" /\ DOMAIN f2 = {"k", "id", "name", "entry", "method", "ev", "src"}
      /\ f2.entry = (Slug[f2.name] \in Marked(t))
  BY DEF MadeTells
<1>3. f1.entry = f2.entry
  BY <1>1, <1>2
<1> QED
  BY <1>1, <1>2, <1>3 DEF Alike

\* Two tools with one id and one method are alike: a reference leads to one function, and no two
\* declared tools of a module have one name.
LEMMA ToolsAreAlike ==
    ASSUME NEW t, GoodTree(t), Separated(t), NEW sp, NEW f, ToolSettled(t, sp, f), NEW g, ToolSettled(t, sp, g),
           f.k = "tool", g.k = "tool", f.id = g.id, f.method = g.method
    PROVE  Alike(f, g)
<1>1. f.name = g.name /\ f.effects = g.effects
  <2>1. CASE f.method # "declared"
    <3>1. PICK d \in Lookup(t, RefTo(f.id), "def") : f.effects = Classify(t, sp)[d]
      BY <2>1 DEF ToolSettled
    <3>2. PICK e \in Lookup(t, RefTo(g.id), "def") : g.effects = Classify(t, sp)[e]
      BY <2>1 DEF ToolSettled
    <3>3. d = e
      <4>1. PICK L : L = Lookup(t, RefTo(f.id), "def")
        OBVIOUS
      <4>2. L = {} \/ \E site : L = {site}
        BY <4>1, GoodLookup, Zenon
      <4>3. d \in L /\ e \in L
        BY <4>1
      <4> QED
        BY <4>2, <4>3
    <3>4. f.name = f.id[3] /\ g.name = g.id[3]
      BY <2>1 DEF ToolSettled
    <3> QED
      BY <3>1, <3>2, <3>3, <3>4
  <2>2. CASE f.method = "declared"
    <3>1. PICK d \in DeclaredSites(t) : /\ f.id = <<"tool", d[1], At(t, d).var>>
                                        /\ f.name = At(t, d).tool /\ f.effects = Classify(t, sp)[d]
      BY <2>2 DEF ToolSettled
    <3>2. PICK e \in DeclaredSites(t) : /\ g.id = <<"tool", e[1], At(t, e).var>>
                                        /\ g.name = At(t, e).tool /\ g.effects = Classify(t, sp)[e]
      BY <2>2 DEF ToolSettled
    <3>3. d[1] = e[1] /\ At(t, d).var = At(t, e).var
      <4>1. f.id[2] = d[1] /\ f.id[3] = At(t, d).var
        BY <3>1
      <4>2. g.id[2] = e[1] /\ g.id[3] = At(t, e).var
        BY <3>2
      <4> QED
        BY <4>1, <4>2
    <3>4. d = e
      BY <3>3 DEF Separated
    <3> QED
      BY <3>1, <3>2, <3>4
  <2> QED
    BY <2>1, <2>2
<1>2. /\ DOMAIN f = {"k", "id", "name", "effects", "method", "ev", "src"}
      /\ DOMAIN g = {"k", "id", "name", "effects", "method", "ev", "src"}
  BY DEF ToolSettled
<1> QED
  BY <1>1, <1>2 DEF Alike

\* Two usages with one id are of one call.
LEMMA UsagesAreAlike ==
    ASSUME NEW t, NEW f, UsageSettled(t, f), NEW g, UsageSettled(t, g), f.k = "usage", g.k = "usage", f.id = g.id
    PROVE  Alike(f, g)
<1>1. PICK i \in DOMAIN t.text[f.src].body :
          /\ f.id = <<"usage">> \o <<f.src, i>>
          /\ f.model = ModelFact(t, At(t, <<f.src, i>>).model, "sink", <<f.src, i>>).id
  BY DEF UsageSettled
<1>2. PICK j \in DOMAIN t.text[g.src].body :
          /\ g.id = <<"usage">> \o <<g.src, j>>
          /\ g.model = ModelFact(t, At(t, <<g.src, j>>).model, "sink", <<g.src, j>>).id
  BY Zenon DEF UsageSettled
<1>4. f.id[2] = f.src /\ f.id[3] = i /\ g.id[2] = g.src /\ g.id[3] = j
  <2>1. PICK a, b : a = f.id /\ b = g.id
    OBVIOUS
  <2>2. a = <<"usage">> \o <<f.src, i>>
    BY <1>1, <2>1
  <2>3. b = <<"usage">> \o <<g.src, j>>
    BY <1>2, <2>1
  <2>4. a[2] = f.src /\ a[3] = i
    BY <2>2
  <2>5. b[2] = g.src /\ b[3] = j
    BY <2>3
  <2> QED
    BY <2>1, <2>4, <2>5
<1>5. f.src = g.src /\ i = j
  BY <1>4
<1>6. f.model = g.model
  BY <1>1, <1>2, <1>5
<1>7. DOMAIN f = {"k", "id", "model", "method", "ev", "src"} /\ DOMAIN g = {"k", "id", "model", "method", "ev", "src"}
  BY DEF UsageSettled
<1> QED
  BY <1>6, <1>7 DEF Alike

\* Of the facts of a separated tree each id and method tells what they say.
LEMMA TreeIsDetermined ==
    ASSUME NEW t, GoodTree(t), Separated(t), FactsHold(t, Flagged(t, TreeFacts(t)))
    PROVE  Determined(Flagged(t, TreeFacts(t)))
<1> SUFFICES ASSUME NEW f \in Flagged(t, TreeFacts(t)), NEW g \in Flagged(t, TreeFacts(t)),
                    f.k # "edge", g.k # "edge", f.id = g.id, f.method = g.method
             PROVE  Alike(f, g)
  BY DEF Determined
<1>1. FactTells(t, f) /\ FactTells(t, g)
  BY FactIsTold
<1>2. f.k = g.k
  <2>1. Kinded(f) /\ Kinded(g)
    BY DEF FactsHold
  <2> QED
    BY <2>1 DEF Kinded
<1>3. CASE f.k = "agent"
  <2>1. PICK m1 \in DOMAIN t.text : \E s \in SitesOf(t, m1) : MadeTells(t, s, f)
    BY <1>1, <1>3 DEF FactTells
  <2>2. PICK s1 \in SitesOf(t, m1) : MadeTells(t, s1, f)
    BY <2>1
  <2>3. PICK m2 \in DOMAIN t.text : \E s \in SitesOf(t, m2) : MadeTells(t, s, g)
    BY <1>1, <1>2, <1>3 DEF FactTells
  <2>4. PICK s2 \in SitesOf(t, m2) : MadeTells(t, s2, g)
    BY <2>3
  <2>5. Origin(f) = Origin(g)
    BY <1>2, <1>3, Zenon DEF FactsHold, Unique
  <2> QED
    BY <2>2, <2>4, <2>5, AgentsAreAlike
<1>4. CASE f.k = "tool"
  <2>1. ToolSettled(t, AllSinks(t), f) /\ ToolSettled(t, AllSinks(t), g)
    BY <1>1, <1>2, <1>4 DEF FactTells
  <2> QED
    BY <1>2, <1>4, <2>1, ToolsAreAlike, Zenon
<1>5. CASE f.k = "usage"
  <2>1. UsageSettled(t, f) /\ UsageSettled(t, g)
    BY <1>1, <1>2, <1>5 DEF FactTells
  <2> QED
    BY <1>2, <1>5, <2>1, UsagesAreAlike, Zenon
<1>6. CASE f.k \notin {"agent", "tool", "usage"}
  <2>1. DOMAIN f = {"k", "id", "method", "ev", "src"} /\ DOMAIN g = {"k", "id", "method", "ev", "src"}
    BY <1>1, <1>2, <1>6 DEF FactTells
  <2> QED
    BY <1>2, <2>1 DEF Alike
<1> QED
  BY <1>3, <1>4, <1>5, <1>6

(***************************************************************************)
(* An incremental scan is a full scan                                      *)
(***************************************************************************)

\* A full scan gives it.
LEMMA FullScanGives ==
    ASSUME NEW t, GoodTree(t), Separated(t)
    PROVE  GivesTree(t, FullOf(t))
<1>1. PICK only \in SUBSET DOMAIN t.text : only = DOMAIN t.text
  OBVIOUS
<1>2. PICK none : none = <<>>
  OBVIOUS
<1>3. Fit(t, only, none)
  BY <1>1, <1>2, NothingIsFit
<1>4. IsList(none) /\ ToSet(none) \cup MarksOfAll(t, only) = MarksOfAll(t, DOMAIN t.text)
  BY <1>1, <1>2, ShortLists
<1>5. ScanGives(t, only, none, Scanned(t, only, none, none, "full"))
  BY <1>2, <1>3, <1>4, ScanIsFlagged
<1>6. PICK s : s = FullOf(t)
  OBVIOUS
<1>7. ScanGives(t, only, none, s)
  BY <1>1, <1>2, <1>5, <1>6 DEF FullOf
<1>8. ScanFacts(t, only, none) = TreeFacts(t)
  BY <1>1, <1>2, FullScanFacts
<1>9. GivesTree(t, s)
  BY <1>7, <1>8 DEF ScanGives, GivesTree
<1> QED
  BY <1>6, <1>9

\* An incremental scan gives it, if the cache is of its base.
LEMMA IncrementalScanGives ==
    ASSUME GoodTree(base), Separated(base), NEW t, GoodTree(t), Separated(t), DOMAIN base.text \subseteq DOMAIN t.text,
           IsList(cache.facts), ToSet(cache.facts) = Flagged(base, TreeFacts(base)), CarriesWell(t)
    PROVE  GivesTree(t, Scan(t, CarriedFacts(t), CarriedMarks(t)))
<1>1. PICK only \in SUBSET DOMAIN t.text : only = Affected(t)
  BY AffectedIs
<1>2. PICK carried, marks : carried = CarriedFacts(t) /\ marks = CarriedMarks(t)
  OBVIOUS
<1>3. GoodCarried(CarriedFacts(t))
  BY DEF CarriesWell
<1>4. Fit(t, only, carried)
  BY <1>1, <1>2, <1>3, CarriedAreFit
<1>5. IsList(marks) /\ ToSet(marks) \cup MarksOfAll(t, only) = MarksOfAll(t, DOMAIN t.text)
  BY <1>1, <1>2 DEF CarriesWell
<1>6. PICK s : s = Scan(t, CarriedFacts(t), CarriedMarks(t))
  OBVIOUS
<1>7. s = Scanned(t, only, carried, marks, "incremental")
  BY <1>1, <1>2, <1>6 DEF Scan
<1>8. ScanGives(t, only, carried, s)
  BY <1>4, <1>5, <1>7, ScanIsFlagged
<1>9. ToSet(carried) = Flagged(base, FactsOf(t, Untouched(t)))
  BY <1>2, CarriedAre
<1>10. Flagged(t, ScanFacts(t, only, carried)) = Flagged(t, TreeFacts(t))
  BY <1>1, <1>9, IncrementalScanFacts
<1>11. GivesTree(t, s)
  BY <1>8, <1>10 DEF ScanGives, GivesTree
<1> QED
  BY <1>6, <1>11

\* Two scans that give the facts of a separated tree give one record.
LEMMA OneRecord ==
    ASSUME NEW t, GoodTree(t), Separated(t),
           NEW r, GivesTree(t, r), ScanHolds(t, r), NEW s, GivesTree(t, s), ScanHolds(t, s)
    PROVE  r.record = s.record
<1>1. PICK F, G : F = r.facts /\ G = s.facts
  OBVIOUS
<1>2. PICK S : S = Flagged(t, TreeFacts(t))
  OBVIOUS
<1>3. IsList(F) /\ ToSet(F) = S /\ IsList(G) /\ ToSet(G) = S
  BY <1>1, <1>2 DEF GivesTree
<1>4. FactsHold(t, S)
  BY <1>1, <1>3 DEF ScanHolds
<1>5. AllKinded(F) /\ AllKinded(G)
  BY <1>3, <1>4 DEF AllKinded, FactsHold
<1>6. Determined(S)
  BY <1>2, <1>4, TreeIsDetermined
<1>7. PICK m1 \in SUBSET DOMAIN t.text : r.record = Record(F, Cardinality(SinkSites(t, m1)))
  BY <1>1 DEF GivesTree
<1>8. PICK m2 \in SUBSET DOMAIN t.text : s.record = Record(G, Cardinality(SinkSites(t, m2)))
  BY <1>1 DEF GivesTree
<1>9. PICK n1, n2 : n1 = Cardinality(SinkSites(t, m1)) /\ n2 = Cardinality(SinkSites(t, m2))
  OBVIOUS
<1>10. n1 = n2 \/ \E f \in ToSet(F) : f.k \in {"agent", "usage"}
  <2>1. CASE \E g \in TreeFacts(t) : g.k \in {"agent", "usage"}
    <3>1. PICK g \in TreeFacts(t) : g.k \in {"agent", "usage"}
      BY <2>1
    <3>2. PICK f : f = FlagAt(t, g)
      OBVIOUS
    <3>3. f \in S
      BY <1>2, <3>2 DEF Flagged
    <3>4. IsAgentFact(g)
      BY TreeAgentsAre
    <3>5. f.k = g.k
      BY <3>2, <3>4, FlagKeeps DEF FlaggedAs
    <3> QED
      BY <1>3, <3>1, <3>3, <3>5
  <2>2. CASE ~\E g \in TreeFacts(t) : g.k \in {"agent", "usage"}
    <3>1. SinkSites(t, m1) = SinkSites(t, DOMAIN t.text)
      BY <2>2, SinksTell
    <3>2. SinkSites(t, m2) = SinkSites(t, DOMAIN t.text)
      BY <2>2, SinksTell
    <3> QED
      BY <1>9, <3>1, <3>2
  <2> QED
    BY <2>1, <2>2
<1>11. Record(F, n1) = Record(G, n2)
  BY <1>3, <1>5, <1>6, <1>10, RecordIsDetermined
<1> QED
  BY <1>7, <1>8, <1>9, <1>11

\* A scan that gives the facts of its tree establishes it.
LEMMA FinishIsLikeFull ==
    ASSUME IInv, Separated(tree), NEW kind, NEW s, GivesTree(tree, s), ScanHolds(tree, s), Finish(kind, s)
    PROVE  ApartInv'
<1>1. /\ cache' = [facts |-> Listed(ToSet(s.facts)), marks |-> Listed(ToSet(s.marks))]
      /\ last' = [kind |-> kind, record |-> s.record, derived |-> Derived(s.record)]
      /\ base' = tree
  BY DEF Finish
<1>2. GoodTree(tree)
  BY RepoTreesAreGood DEF IInv
<1>3. ToSet(cache'.facts) = ToSet(s.facts)
  BY <1>1, ListIsFinite, ListedAre DEF GivesTree
<1>4. ToSet(cache'.facts) = Flagged(base', TreeFacts(base'))
  BY <1>1, <1>3 DEF GivesTree
<1>5. LikeFull'
  <2>1. PICK r : r = FullOf(tree)
    OBVIOUS
  <2>2. GivesTree(tree, r) /\ ScanHolds(tree, r)
    BY <1>2, <2>1, FullScanGives, FullScanHolds
  <2>3. s.record = r.record
    BY <1>2, <2>2, OneRecord
  <2>4. last'.record = FullOf(base').record
    BY <1>1, <2>1, <2>3
  <2> QED
    BY <2>4 DEF LikeFull
<1>6. Separated(base')
  BY <1>1
<1> QED
  BY <1>4, <1>5, <1>6 DEF ApartInv

\* The invariant holds over any chain of commits, full and incremental scans.
LEMMA ScansStayApart == Spec => []ApartInv
<1>1. Init => ApartInv
  BY DEF Init, ApartInv, HasRecord
<1>2. ASSUME IInv, ApartInv, [Next]_vars PROVE ApartInv'
  <2>1. CASE UNCHANGED <<base, cache, last, separated>>
    BY <1>2, <2>1 DEF ApartInv, HasRecord, LikeFull
  <2>2. CASE FullScan
    <3> SUFFICES ASSUME separated' PROVE ApartInv'
      BY DEF ApartInv
    <3>1. GoodTree(tree) /\ Separated(tree)
      BY <1>2, <2>2, RepoTreesAreGood DEF IInv, FullScan
    <3>2. PICK s : s = FullOf(tree)
      OBVIOUS
    <3>3. GivesTree(tree, s) /\ ScanHolds(tree, s)
      BY <3>1, <3>2, FullScanGives, FullScanHolds
    <3>4. Finish("full", s)
      BY <2>2, <3>2 DEF FullScan
    <3> QED
      BY <1>2, <3>1, <3>3, <3>4, FinishIsLikeFull
  <2>3. CASE IncrementalScan
    <3> SUFFICES ASSUME separated' PROVE ApartInv'
      BY DEF ApartInv
    <3>1. /\ separated /\ Separated(tree) /\ HasRecord /\ DOMAIN base.text \subseteq DOMAIN tree.text
      BY <2>3, Zenon DEF IncrementalScan, HasRecord
    <3>2. GoodTree(tree) /\ GoodTree(base) /\ IsList(cache.facts)
      BY <1>2, <3>1, RepoTreesAreGood DEF IInv, CacheHolds
    <3>3. Separated(base) /\ ToSet(cache.facts) = Flagged(base, TreeFacts(base))
      BY <1>2, <3>1 DEF ApartInv
    <3>4. PICK s : s = Scan(tree, CarriedFacts(tree), CarriedMarks(tree))
      OBVIOUS
    <3>5. CarriesWell(tree)
      BY <1>2, <2>3, IncrementalScanHolds
    <3>6. ScanHolds(tree, s)
      BY <3>4, <3>5 DEF CarriesWell
    <3>7. PICK t : t = tree
      OBVIOUS
    <3>8. GivesTree(t, Scan(t, CarriedFacts(t), CarriedMarks(t)))
      BY <3>1, <3>2, <3>3, <3>5, <3>7, IncrementalScanGives
    <3>9. GivesTree(tree, s)
      BY <3>4, <3>7, <3>8
    <3>10. Finish("incremental", s)
      BY <2>3, <3>4 DEF IncrementalScan, Scan
    <3> QED
      BY <1>2, <3>1, <3>6, <3>9, <3>10, FinishIsLikeFull
  <2> QED
    BY <1>2, <2>1, <2>2, <2>3 DEF Next, Commit, vars
<1> QED
  BY <1>1, <1>2, ScansKeepInvariant, PTL DEF Spec

\* While every tree scanned since the last full scan was separated, the record of a chain of incremental
\* scans, whatever the commits between them, is that of a full scan of the last tree: the cache holds
\* the facts of the tree, each module's facts depend only on what it and its imports say, so what is
\* carried is what would be found again, and build_graph does not depend on the order of the facts.
THEOREM IncrementalScansAreFull == Spec => []IncrementalIsFullApart
<1>1. ApartInv => IncrementalIsFullApart
  BY DEF ApartInv, IncrementalIsFullApart
<1> QED
  BY <1>1, ScansStayApart, PTL
=============================================================================
