----------------------------- MODULE MCScanCache -----------------------------
(***************************************************************************)
(* Small repositories for ScanCache.  Each text below is one content a     *)
(* source file can have; which of them a run of TLC uses is chosen by the  *)
(* definition its .cfg gives to Texts.                                     *)
(***************************************************************************)
EXTENDS ScanCache

CONSTANTS a, b,              \* modules
          plain,             \* imports nothing
          usesA, usesB,      \* imports module a, b
          deepA,             \* reads module a, without an edge that says so
          broken,            \* does not parse
          quiet,             \* no AI signal
          bulky              \* alone over the size budget

TwoModules == {a, b}

MCImports ==
    [text \in Texts |->
        CASE text \in {usesA, deepA} -> {a} [] text = usesB -> {b} [] OTHER -> {}]
MCEdges == [text \in Texts |-> IF text = deepA THEN {} ELSE MCImports[text]]
MCParsable == Texts \ {broken}
MCSignalling == Texts \ {quiet}
MCLoc == [text \in Texts |-> IF text = bulky THEN 50 ELSE 1]
MCNoInits == {}
MCInits == {a}

Plain == {[adjudicate |-> FALSE, enrich |-> FALSE]}
Enriching == {[adjudicate |-> FALSE, enrich |-> TRUE]}

AnyContents == [m \in Modules |-> Texts \cup {Absent}]

\* Two modules that may import one another, with and without an edge; one of
\* them may not parse, and alone it may give no reason to scan.
ChainContents == [m \in Modules |-> IF m = a THEN {quiet, usesB, broken} ELSE {usesA, deepA, Absent}]

\* A package that makes src a source root as long as it parses, beside a module
\* that stays as it is.
PackageContents == [m \in Modules |-> IF m = a THEN {plain, broken} ELSE {plain}]
=============================================================================
