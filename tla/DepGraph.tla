------------------------------ MODULE DepGraph ------------------------------
(***************************************************************************)
(* Which modules an incremental scan re-analyses: the dependency edges and *)
(* the reverse closure of aiscan/incremental/depgraph.py, against what the *)
(* resolver (aiscan/resolve/engine.py) reads when it follows an import.    *)
(*                                                                         *)
(* A module name is the sequence of its dotted parts.  A symbol table is   *)
(* reduced to its import bindings, its star imports and whether it defines *)
(* a module-level __getattr__.                                             *)
(***************************************************************************)
EXTENDS Naturals, Sequences, SequencesExt

CONSTANTS
    Names,      \* the modules of the repository
    Tables      \* the symbol tables a module can have

ASSUME NamesAssumption == Names \subseteq Seq(STRING)
ASSUME TablesAssumption ==
    \A t \in Tables : \A b \in t.imports :
        b.module \in Seq(STRING) /\ (b.kind # "module" => b.name \in STRING)

VARIABLES
    tables,     \* the symbol table of each module of the tree
    changed,    \* the modules the diff touches
    affected,   \* the closure so far
    stack,      \* affected modules whose dependents are still to be visited
    done

vars == <<tables, changed, affected, stack, done>>

-----------------------------------------------------------------------------
(* The edges *)

\* Everything a table names in an import statement, whatever it binds.
ImportedModules(table) == {b.module : b \in table.imports} \cup table.stars

\* A package import that does not lead to the package's submodules.
TargetsWithoutSubmodules(module) ==
    {n \in Names : n = module \/ (Len(n) >= 2 /\ IsPrefix(n, module))}

\* The module itself, its package parents of two parts or more, and its
\* direct submodules.
InRepoTargets(module) ==
    {n \in Names :
        \/ n = module
        \/ Len(n) >= 2 /\ IsPrefix(n, module)
        \/ Len(n) = Len(module) + 1 /\ IsPrefix(module, n)}

Edges(m) == (UNION {InRepoTargets(x) : x \in ImportedModules(tables[m])}) \ {m}

Dependents(m) == {n \in Names : m \in Edges(n)}

-----------------------------------------------------------------------------
(* The closure *)

Init ==
    /\ tables \in [Names -> Tables]
    /\ changed \in SUBSET Names
    /\ affected = changed
    /\ stack = changed
    /\ done = FALSE

\* A dependent is visited but never marked.
VisitWithoutMark(node) ==
    /\ node \in stack
    /\ stack' = (stack \ {node}) \cup (Dependents(node) \ affected)
    /\ UNCHANGED <<tables, changed, affected, done>>

\* Only the direct dependents of a changed module are marked.
VisitDirectOnly(node) ==
    /\ node \in stack
    /\ affected' = affected \cup Dependents(node)
    /\ stack' = stack \ {node}
    /\ UNCHANGED <<tables, changed, done>>

\* The order in which the stack gives its members depends on set iteration.
Visit(node) ==
    /\ node \in stack
    /\ affected' = affected \cup Dependents(node)
    /\ stack' = (stack \ {node}) \cup (Dependents(node) \ affected)
    /\ UNCHANGED <<tables, changed, done>>

\* A changed package with __getattr__ affects every module that imports
\* anything under its prefix.
ImportsUnder(m, package) ==
    \E x \in ImportedModules(tables[m]) : IsPrefix(package, x)

WidenLazy ==
    /\ stack = {} /\ ~done
    /\ affected' = affected \cup
          {m \in Names : \E p \in changed : tables[p].lazy /\ ImportsUnder(m, p)}
    /\ done' = TRUE
    /\ UNCHANGED <<tables, changed, stack>>

Next == (\E node \in stack : Visit(node)) \/ WidenLazy

Spec == Init /\ [][Next]_vars

-----------------------------------------------------------------------------
(* What the resolver reads *)

\* The modules attribute access can walk to from the module named x.
Walk(x) ==
    {n \in Names : IsPrefix(x, n) /\ \A k \in Len(x)..Len(n) : SubSeq(n, 1, k) \in Names}

BindingReads(b) ==
    IF b.kind = "module" THEN Walk(b.module)
    ELSE (Names \cap {b.module}) \cup Walk(Append(b.module, b.name))

Reads(m) == UNION {BindingReads(b) : b \in tables[m].imports}

-----------------------------------------------------------------------------
(* Properties *)

TypeOK ==
    /\ tables \in [Names -> Tables]
    /\ changed \in SUBSET Names
    /\ affected \in SUBSET Names
    /\ stack \in SUBSET affected
    /\ done \in BOOLEAN

ClosedUnder(Succ(_), S) == \A m \in S : Succ(m) \subseteq S

\* The least set that holds start and is closed under Succ.
Closure(Succ(_), start) ==
    {n \in Names : \A S \in SUBSET Names : (start \subseteq S /\ ClosedUnder(Succ, S)) => n \in S}

\* The modules whose analysis can read one of the changed ones, at any distance.
Readers == {m \in Names : Closure(Reads, {m}) \cap changed # {}}

\* Before the widening, the loop computed exactly the reverse closure of the
\* changed modules: no dependent is missed and none is added for nothing.
ClosureIsExact == stack = {} /\ ~done => affected = Closure(Dependents, changed)

\* Whatever an import leads to is at most one level below the module it names, as in
\* a tree of packages that hold no packages.
ReadsOneLevel ==
    \A t \in Tables : \A b \in t.imports :
        \A n \in BindingReads(b) : Len(n) <= Len(b.module) + 1

\* The soundness principle of the incremental scan: every module whose analysis
\* can read a changed module is re-analysed.
ReadersAreAffected == done => Readers \subseteq affected

\* The affected set holds every module that depends on one of its members.
AffectedIsClosed == done => \A m \in affected : Dependents(m) \subseteq affected

=============================================================================
