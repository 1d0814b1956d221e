----------------------------- MODULE MCDepGraph -----------------------------
(* Small package trees for DepGraph. *)
EXTENDS DepGraph

ModuleImport(x) == [kind |-> "module", module |-> x]
SymbolImport(x, n) == [kind |-> "symbol", module |-> x, name |-> n]

Table(imports, stars, lazy) == [imports |-> imports, stars |-> stars, lazy |-> lazy]
TablesOver(bindings) ==
    {Table({}, {}, FALSE), Table({}, {}, TRUE), Table({}, {<<"q">>}, FALSE)}
        \cup {Table({b}, {}, FALSE) : b \in bindings}

\* A package p with two submodules, and a module beside it.
FlatNames == {<<"p">>, <<"p", "a">>, <<"p", "b">>, <<"q">>}
FlatTables ==
    TablesOver({ModuleImport(<<"p">>), ModuleImport(<<"p", "a">>), ModuleImport(<<"q">>),
                SymbolImport(<<"p">>, "b"), SymbolImport(<<"p", "a">>, "f")})

\* The flat packages meet the hypothesis of the theorem on ReadersAreAffected.
ASSUME FlatIsShallow == Names = FlatNames => ReadsOneLevel

\* A package that holds a package: here ReadersAreAffected fails.
DeepNames == {<<"p">>, <<"p", "a">>, <<"p", "a", "x">>, <<"q">>}
DeepTables == TablesOver({ModuleImport(<<"p">>), SymbolImport(<<"p">>, "a")})
=============================================================================
