--------------------------- MODULE DepGraphProofs ---------------------------
(***************************************************************************)
(* Proofs about DepGraph for any set of modules and symbol tables: in      *)
(* whatever order the stack is emptied, the loop of affected_modules stops *)
(* at exactly the reverse closure of the changed modules; and in a tree of *)
(* flat packages that closure holds every module that can read a change.   *)
(***************************************************************************)
EXTENDS DepGraph, SequenceTheorems, TLAPS

LEMMA DependentsType == ASSUME NEW m PROVE Dependents(m) \subseteq Names
BY DEF Dependents

LEMMA InitDepType == Init => TypeOK
BY DEF Init, TypeOK

LEMMA NextDepType == TypeOK /\ [Next]_vars => TypeOK'
<1> SUFFICES ASSUME TypeOK, [Next]_vars PROVE TypeOK'
  OBVIOUS
<1>1. ASSUME NEW node \in stack, Visit(node) PROVE TypeOK'
  BY <1>1, DependentsType DEF Visit, TypeOK
<1>2. ASSUME WidenLazy PROVE TypeOK'
  BY <1>2 DEF WidenLazy, TypeOK
<1>3. CASE UNCHANGED vars
  BY <1>3 DEF vars, TypeOK
<1> QED
  BY <1>1, <1>2, <1>3 DEF Next

\* Types hold in every state of the closure.
THEOREM DepGraphTypeCorrect == Spec => []TypeOK
BY InitDepType, NextDepType, PTL DEF Spec

-----------------------------------------------------------------------------
\* What holds while the stack is being emptied: the set so far lies between the
\* changed modules and their closure, and only stacked members can still have
\* dependents outside it.
ReachedOnly == affected \subseteq Closure(Dependents, changed)

LoopInv ==
    /\ TypeOK
    /\ ~done => /\ changed \subseteq affected
                /\ ReachedOnly
                /\ \A m \in affected \ stack : Dependents(m) \subseteq affected

LEMMA InitLoopInv == Init => LoopInv
<1> SUFFICES ASSUME Init PROVE LoopInv
  OBVIOUS
<1>1. changed \subseteq Closure(Dependents, changed)
  BY DEF Init, Closure
<1> QED
  BY <1>1, InitDepType DEF Init, LoopInv, ReachedOnly

LEMMA VisitKeepsLoopInv ==
    ASSUME LoopInv, NEW node \in stack, Visit(node)
    PROVE  LoopInv'
<1>1. TypeOK'
  BY NextDepType DEF LoopInv, Next
<1>2. /\ UNCHANGED <<tables, changed, done>>
      /\ affected' = affected \cup Dependents(node)
      /\ stack' = (stack \ {node}) \cup (Dependents(node) \ affected)
      /\ node \in affected
  BY DEF Visit, LoopInv, TypeOK
<1>3. \A m : Dependents(m)' = Dependents(m)
  BY <1>2 DEF Dependents, Edges, ImportedModules
<1>4. SUFFICES ASSUME ~done
               PROVE  /\ changed \subseteq affected'
                      /\ ReachedOnly'
                      /\ \A m \in affected' \ stack' : Dependents(m) \subseteq affected'
  BY <1>1, <1>2, <1>3 DEF LoopInv
<1>5. changed \subseteq affected'
  BY <1>2, <1>4 DEF LoopInv
<1>6. ReachedOnly'
  <2>1. ASSUME NEW n \in Dependents(node), NEW S \in SUBSET Names, changed \subseteq S,
               \A m \in S : Dependents(m) \subseteq S
        PROVE  n \in S
    <3>1. node \in S
      BY <1>2, <1>4, <2>1 DEF LoopInv, ReachedOnly, Closure, ClosedUnder
    <3> QED
      BY <2>1, <3>1
  <2>2. Dependents(node) \subseteq Closure(Dependents, changed)
    BY <2>1, DependentsType DEF Closure, ClosedUnder
  <2>3. affected' \subseteq Closure(Dependents, changed)
    BY <1>2, <1>4, <2>2 DEF LoopInv, ReachedOnly
  <2> QED
    BY <1>2, <1>3, <2>3 DEF ReachedOnly, Closure, ClosedUnder
<1>7. ASSUME NEW m \in affected' \ stack' PROVE Dependents(m) \subseteq affected'
  <2>1. CASE m = node
    BY <1>2, <2>1
  <2>2. CASE m # node
    <3>1. m \in affected \ stack
      BY <1>2, <1>7, <2>2
    <3> QED
      BY <1>2, <1>4, <3>1 DEF LoopInv
  <2> QED
    BY <2>1, <2>2
<1> QED
  BY <1>5, <1>6, <1>7

LEMMA NextLoopInv == LoopInv /\ [Next]_vars => LoopInv'
<1> SUFFICES ASSUME LoopInv, [Next]_vars PROVE LoopInv'
  OBVIOUS
<1>1. CASE \E node \in stack : Visit(node)
  BY <1>1, VisitKeepsLoopInv
<1>2. CASE WidenLazy
  <2>1. TypeOK'
    BY NextDepType DEF LoopInv
  <2> QED
    BY <1>2, <2>1 DEF WidenLazy, LoopInv
<1>3. CASE UNCHANGED vars
  BY <1>3 DEF vars, LoopInv, TypeOK, ReachedOnly, Closure, ClosedUnder, Dependents, Edges,
     ImportedModules
<1> QED
  BY <1>1, <1>2, <1>3 DEF Next

\* When its stack is empty the loop has found every module that depends on a
\* changed one, at any distance, and no other.
THEOREM LoopIsExact == Spec => []ClosureIsExact
<1>1. LoopInv => ClosureIsExact
  <2> SUFFICES ASSUME LoopInv, stack = {}, ~done
               PROVE  affected = Closure(Dependents, changed)
    BY DEF ClosureIsExact
  <2>1. /\ affected \in SUBSET Names /\ changed \subseteq affected
        /\ \A m \in affected : Dependents(m) \subseteq affected
    BY DEF LoopInv, TypeOK
  <2>2. Closure(Dependents, changed) \subseteq affected
    BY <2>1 DEF Closure, ClosedUnder
  <2> QED
    BY <2>2 DEF LoopInv, ReachedOnly
<1> QED
  BY <1>1, InitLoopInv, NextLoopInv, PTL DEF Spec

-----------------------------------------------------------------------------
(* What the resolver reads *)

LEMMA PrefixAt ==
    ASSUME NEW s \in Seq(STRING), NEW t \in Seq(STRING)
    PROVE  IsPrefix(s, t) <=> Len(s) <= Len(t) /\ \A i \in 1..Len(s) : s[i] = t[i]
<1>1. ASSUME Len(s) <= Len(t)
      PROVE  /\ SubSeq(s, 1, Len(s)) \in [1..Len(s) -> STRING]
             /\ SubSeq(t, 1, Len(s)) \in [1..Len(s) -> STRING]
             /\ \A i \in 1..Len(s) : SubSeq(s, 1, Len(s))[i] = s[i]
             /\ \A i \in 1..Len(s) : SubSeq(t, 1, Len(s))[i] = t[i]
  <2>1. Len(s) \in Nat /\ Len(t) \in Nat
    OBVIOUS
  <2>2. ASSUME NEW u \in Seq(STRING), Len(s) <= Len(u)
        PROVE  /\ SubSeq(u, 1, Len(s)) \in [1..Len(s) -> STRING]
               /\ \A i \in 1..Len(s) : SubSeq(u, 1, Len(s))[i] = u[i]
    <3>1. \A i \in 1..Len(s) : u[i] \in STRING
      BY <2>1, <2>2
    <3> DEFINE v == SubSeq(u, 1, Len(s))
    <3>2. /\ v \in Seq(STRING)
          /\ Len(v) = IF 1 <= Len(s) THEN Len(s) - 1 + 1 ELSE 0
          /\ \A i \in 1..(Len(s) - 1 + 1) : v[i] = u[1 + i - 1]
      BY <2>1, <3>1, SubSeqProperties
    <3> HIDE DEF v
    <3>3. Len(v) = Len(s) /\ \A i \in 1..Len(s) : v[i] = u[i]
      BY <2>1, <3>2
    <3>4. v \in [1..Len(s) -> STRING]
      BY <3>2, <3>3
    <3> QED
      BY <3>3, <3>4 DEF v
  <2> QED
    BY <1>1, <2>2
<1>2. ASSUME Len(s) <= Len(t), SubSeq(s, 1, Len(s)) = SubSeq(t, 1, Len(s))
      PROVE  \A i \in 1..Len(s) : s[i] = t[i]
  BY <1>1, <1>2
<1>3. ASSUME Len(s) <= Len(t), \A i \in 1..Len(s) : s[i] = t[i]
      PROVE  SubSeq(s, 1, Len(s)) = SubSeq(t, 1, Len(s))
  BY <1>1, <1>3
<1> QED
  BY <1>2, <1>3 DEF IsPrefix

\* An import reads the module it names, its direct submodules, and what is below.
LEMMA ReadsAreBelow ==
    ASSUME NEW t \in Tables, NEW b \in t.imports, NEW n \in BindingReads(b)
    PROVE  n \in Names /\ b.module \in Seq(STRING) /\ IsPrefix(b.module, n)
<1>1. b.module \in Seq(STRING) /\ (b.kind # "module" => b.name \in STRING)
  BY TablesAssumption
<1>2. n \in Names /\ n \in Seq(STRING)
  BY NamesAssumption DEF BindingReads, Walk
<1>3. CASE n = b.module
  BY <1>1, <1>2, <1>3, PrefixAt
<1>4. CASE n # b.module
  <2>1. CASE b.kind = "module"
    BY <1>1, <1>2, <2>1 DEF BindingReads, Walk
  <2>2. CASE b.kind # "module"
    <3> DEFINE x == Append(b.module, b.name)
    <3>1. IsPrefix(x, n)
      BY <1>4, <2>2 DEF BindingReads, Walk
    <3>2. x \in Seq(STRING) /\ Len(x) = Len(b.module) + 1
          /\ \A i \in 1..Len(b.module) : x[i] = b.module[i]
      BY <1>1, <2>2
    <3> HIDE DEF x
    <3>3. Len(x) <= Len(n) /\ \A i \in 1..Len(x) : x[i] = n[i]
      BY <1>2, <3>1, <3>2, PrefixAt
    <3>4. Len(b.module) <= Len(n) /\ \A i \in 1..Len(b.module) : b.module[i] = n[i]
      BY <1>1, <1>2, <3>2, <3>3
    <3> QED
      BY <1>1, <1>2, <3>4, PrefixAt
  <2> QED
    BY <2>1, <2>2
<1> QED
  BY <1>1, <1>2, <1>3, <1>4

\* There is an edge for every read, if no import reads more than one level down.
LEMMA ReadsHaveEdges ==
    ASSUME ReadsOneLevel, TypeOK, NEW m \in Names, NEW n \in Reads(m), n # m
    PROVE  n \in Names /\ m \in Dependents(n)
<1>1. PICK b \in tables[m].imports : n \in BindingReads(b)
  BY DEF Reads
<1>2. tables[m] \in Tables
  BY DEF TypeOK
<1>3. /\ n \in Names /\ b.module \in Seq(STRING) /\ IsPrefix(b.module, n)
      /\ Len(n) <= Len(b.module) + 1
  BY <1>1, <1>2, ReadsAreBelow DEF ReadsOneLevel
<1>4. n \in Seq(STRING)
  BY <1>3, NamesAssumption
<1>5. Len(b.module) <= Len(n) /\ \A i \in 1..Len(b.module) : b.module[i] = n[i]
  BY <1>3, <1>4, PrefixAt
<1>6. n = b.module \/ Len(n) = Len(b.module) + 1
  <2>1. CASE Len(n) = Len(b.module)
    BY <1>3, <1>4, <1>5, <2>1
  <2>2. CASE Len(n) # Len(b.module)
    BY <1>3, <1>4, <1>5, <2>2
  <2> QED
    BY <2>1, <2>2
<1>7. n \in InRepoTargets(b.module)
  BY <1>3, <1>6 DEF InRepoTargets
<1>8. b.module \in ImportedModules(tables[m])
  BY <1>1 DEF ImportedModules
<1>9. n \in UNION {InRepoTargets(x) : x \in ImportedModules(tables[m])}
  BY <1>7, <1>8, Zenon
<1>10. n \in Edges(m)
  BY <1>9, Zenon DEF Edges
<1> QED
  BY <1>3, <1>10 DEF Dependents

\* What is marked stays marked, also when the widening adds to it.
ClosureInv == LoopInv /\ (done => Closure(Dependents, changed) \subseteq affected)

LEMMA NextClosureInv == ClosureInv /\ [Next]_vars => ClosureInv'
<1> SUFFICES ASSUME ClosureInv, [Next]_vars PROVE ClosureInv'
  OBVIOUS
<1>1. LoopInv'
  BY NextLoopInv DEF ClosureInv
<1>2. UNCHANGED <<tables, changed>>
  BY DEF Next, Visit, WidenLazy, vars
<1>3. Closure(Dependents, changed)' = Closure(Dependents, changed)
  BY <1>2 DEF Closure, ClosedUnder, Dependents, Edges, ImportedModules
<1>4. affected \subseteq affected'
  BY DEF Next, Visit, WidenLazy, vars
<1>5. ~done /\ done' => Closure(Dependents, changed) \subseteq affected
  <2> SUFFICES ASSUME ~done, done' PROVE Closure(Dependents, changed) \subseteq affected
    OBVIOUS
  <2>1. stack = {}
    BY DEF Next, Visit, WidenLazy, vars
  <2>2. /\ affected \in SUBSET Names /\ changed \subseteq affected
        /\ \A m \in affected : Dependents(m) \subseteq affected
    BY <2>1 DEF ClosureInv, LoopInv, TypeOK
  <2> QED
    BY <2>2 DEF Closure, ClosedUnder
<1>6. done' => Closure(Dependents, changed) \subseteq affected'
  BY <1>4, <1>5 DEF ClosureInv
<1> QED
  BY <1>1, <1>3, <1>6 DEF ClosureInv

LEMMA ReadersAreInClosure ==
    ASSUME ReadsOneLevel, TypeOK, NEW m \in Readers
    PROVE  m \in Closure(Dependents, changed)
<1> SUFFICES ASSUME NEW S \in SUBSET Names, changed \subseteq S,
                    \A n \in S : Dependents(n) \subseteq S, m \notin S
             PROVE  FALSE
  BY DEF Closure, ClosedUnder, Readers
<1>1. m \in Names /\ Closure(Reads, {m}) \cap changed # {}
  BY DEF Readers
<1> DEFINE Rest == Names \ S
<1>2. ASSUME NEW n \in Rest PROVE Reads(n) \subseteq Rest
  <2> SUFFICES ASSUME NEW r \in Reads(n), r # n PROVE r \in Rest
    OBVIOUS
  <2>1. r \in Names /\ n \in Dependents(r)
    BY ReadsHaveEdges
  <2> QED
    BY <2>1
<1>3. Rest \in SUBSET Names /\ {m} \subseteq Rest /\ \A n \in Rest : Reads(n) \subseteq Rest
  BY <1>1, <1>2
<1>4. Closure(Reads, {m}) \subseteq Rest
  <2> HIDE DEF Rest
  <2> QED
    BY <1>3 DEF Closure, ClosedUnder
<1> QED
  BY <1>1, <1>4

\* In every tree whose imports read at most one level below the module they name, each
\* module whose analysis can read a changed one, at any distance, is re-analysed.
THEOREM ShallowTreesAreSound == ReadsOneLevel => (Spec => []ReadersAreAffected)
<1> SUFFICES ASSUME ReadsOneLevel PROVE Spec => []ReadersAreAffected
  OBVIOUS
<1>1. Init => ClosureInv
  BY InitLoopInv DEF Init, ClosureInv
<1>2. ClosureInv => ReadersAreAffected
  BY ReadersAreInClosure DEF ClosureInv, LoopInv, ReadersAreAffected
<1> QED
  BY <1>1, <1>2, NextClosureInv, PTL DEF Spec

=============================================================================
