----------------------------- MODULE MCResolver -----------------------------
(***************************************************************************)
(* Programs for Resolver: a handful written out, each for one way queries  *)
(* meet in the memo or run out of budget, and all the small functions that *)
(* can be put together from a few statements, with what they return when   *)
(* they run.                                                               *)
(***************************************************************************)
EXTENDS Resolver, TLC

MCBuiltins == {"open"}
MCStrFold  == [lower |-> [x \in {"a", "b"} |-> x]]

M == <<"m">>

Lit(p, a)     == [n |-> "Const", at |-> p, v |-> Str(<<a>>)]
NoneE(p)      == [n |-> "Const", at |-> p, v |-> NoneV]
Var(p, x)     == [n |-> "Name", at |-> p, id |-> x]
Dot(p, e, a)  == [n |-> "Attr", at |-> p, base |-> e, attr |-> a]
CallE(p, e, args) == [n |-> "Call", at |-> p, callee |-> e, args |-> args, kwargs |-> <<>>]
OrE(p, es)    == [n |-> "BoolOp", at |-> p, op |-> "or", operands |-> es]
SumE(p, es)   == [n |-> "Concat", at |-> p, operands |-> es]
EqE(p, es)    == [n |-> "Compare", at |-> p, op |-> "==", operands |-> es]
Sub(p, e, i)  == [n |-> "Subscript", at |-> p, base |-> e, index |-> i]
FStrE(p, es)  == [n |-> "FStr", at |-> p, operands |-> es]
DictE(p, es)  == [n |-> "Dict", at |-> p, entries |-> es]
ListE(p, es)  == [n |-> "List", at |-> p, operands |-> es]

Assigns(p, t, e)  == [s |-> "Assign", lo |-> p, hi |-> p + 9, targets |-> <<t>>, value |-> e]
Set(p, x, e)      == Assigns(p, Var(p + 9, x), e)
Run(p, e)         == [s |-> "Expr", lo |-> p, hi |-> p + 9, value |-> <<e>>]
Returns(p, e)     == [s |-> "Return", lo |-> p, hi |-> p + 9, value |-> <<e>>]
IfElse(p, t, b, o) == [s |-> "If", lo |-> p, hi |-> p + 99, test |-> t, body |-> b, orelse |-> o]
Local(p, f)       == [s |-> "FuncDef", lo |-> p, hi |-> p + 99, lname |-> "local", func |-> f]

Param(x)      == [name |-> x, kind |-> "pos", default |-> <<>>]
ParamOr(x, e) == [name |-> x, kind |-> "pos", default |-> <<e>>]
Def(f, p, ps, body) == [name |-> f, at |-> p, params |-> ps, body |-> body, click |-> FALSE]
Class(c, ms)  == [name |-> c, methods |-> ms, assigns |-> <<>>]

Module(defs, classes, assigns, imports) ==
    [defs |-> defs, classes |-> classes, assigns |-> assigns, imports |-> imports,
     star |-> FALSE, body |-> assigns]
From(m, x) == [mod |-> m, sym |-> x]

Site(e, funcs, target) == [mod |-> M, e |-> e, funcs |-> funcs, target |-> target]
Top_(e) == Site(e, <<>>, 0)
Program(mods, sites, defaults, runs) ==
    [mods |-> mods, sites |-> sites, defaults |-> defaults, runs |-> runs]

-----------------------------------------------------------------------------
(* Names that stand for names, through an import that goes in a circle.    *)
Chain ==
    LET assigns == <<Set(10, "x", Lit(11, "a")), Set(20, "y", Var(21, "x")),
                     Set(30, "z", Var(31, "y")), Set(40, "w", OrE(41, <<Var(42, "z"), Lit(43, "b")>>))>>
        other == Module(<<>>, <<>>, <<>>, [u |-> From(M, "v")])
    IN  Program(M :> Module(<<>>, <<>>, assigns, [v |-> From(<<"k">>, "u"), s |-> From(<<"os">>, "")])
                @@ <<"k">> :> other,
                <<Top_(Var(91, "w")), Top_(Var(92, "y")), Top_(Var(93, "v")), Top_(Dot(94, Var(95, "s"), "x"))>>,
                <<<<"m", "z">>, <<"k", "t">>>>, {})

(* One getter called with different arguments, and by a rule pack.         *)
Pick == Def("pick", 100, <<ParamOr("n", Lit(101, "b"))>>,
            <<IfElse(200, EqE(201, <<Var(202, "n"), Lit(203, "a")>>), <<Returns(210, Lit(211, "b"))>>, <<>>),
              Returns(300, SumE(301, <<Var(302, "n"), Lit(303, "a")>>))>>)
PickOf(p, args) == CallE(p, Var(p + 1, "pick"), args)
Getter ==
    Program(M :> Module(<<Pick>>, <<>>, <<>>, <<>>),
            <<Top_(PickOf(910, <<Lit(912, "a")>>)), Top_(PickOf(920, <<Lit(922, "b")>>)),
              Top_(PickOf(930, <<Var(932, "q")>>))>>,
            <<<<"m", "pick">>>>, {})

(* An object whose constructor keeps an argument that a method returns.    *)
Who == Def("who", 300, <<Param("self")>>, <<Returns(310, Dot(311, Var(312, "self"), "k"))>>)
Agent == Class("K", <<Def("__init__", 100, <<Param("self"), ParamOr("k", Lit(101, "b"))>>,
                          <<Assigns(110, Dot(111, Var(112, "self"), "k"), Var(113, "k"))>>), Who>>)
NewK(p, args) == CallE(p, Var(p + 1, "K"), args)
Object ==
    Program(M :> Module(<<>>, <<Agent>>, <<>>, <<>>),
            <<Top_(Dot(910, NewK(911, <<Lit(913, "a")>>), "k")),
              Top_(CallE(920, Dot(921, NewK(922, <<>>), "who"), <<>>)),
              Top_(CallE(930, Dot(931, NewK(932, <<Lit(934, "a")>>), "who"), <<>>)),
              Site(Dot(311, Var(312, "self"), "k"), <<Who>>, 310)>>, <<>>, {})

(* Sites inside a function, before and after a branch and a growing list.  *)
Grow == Def("grow", 100, <<Param("c")>>,
            <<Set(110, "x", Lit(111, "a")), Set(120, "l", ListE(121, <<Var(122, "x")>>)),
              IfElse(200, Var(201, "c"), <<Set(210, "x", Lit(211, "b"))>>, <<>>),
              Run(300, CallE(301, Dot(302, Var(303, "l"), "append"), <<Lit(304, "b")>>)),
              Run(310, Var(311, "l")), Run(320, Var(321, "x"))>>)
Flow == Program(M :> Module(<<Grow>>, <<>>, <<>>, <<>>),
                <<Site(Var(122, "x"), <<Grow>>, 122), Site(Var(311, "l"), <<Grow>>, 311),
                  Site(Var(321, "x"), <<Grow>>, 321)>>, <<>>, {})

(* A local function, asked about from inside and called from outside.      *)
Inner_ == Def("inner", 201, <<>>, <<Returns(210, Var(211, "model"))>>)
Outer  == Def("outer", 100, <<>>, <<Set(110, "model", Lit(111, "a")), Local(200, Inner_),
                                    Run(300, CallE(301, Var(302, "inner"), <<>>))>>)
Nested == Program(M :> Module(<<Outer>>, <<>>, <<>>, <<>>),
                  <<Site(Var(211, "model"), <<Outer, Inner_>>, 211),
                    Site(CallE(301, Var(302, "inner"), <<>>), <<Outer>>, 301)>>, <<>>, {})

(* Sites in a loop, and after a with and a handler.                        *)
Busy == Def("busy", 100, <<Param("c")>>,
            <<Set(110, "x", Lit(111, "a")),
              [s |-> "While", lo |-> 200, hi |-> 299, test |-> Var(201, "c"),
               body |-> <<Set(210, "x", SumE(211, <<Var(212, "x"), Lit(213, "b")>>)), Run(220, Var(221, "x"))>>],
              [s |-> "For", lo |-> 300, hi |-> 399, target |-> Var(301, "i"), iter |-> Var(302, "c"),
               body |-> <<Set(310, "y", Var(311, "i"))>>],
              [s |-> "With", lo |-> 400, hi |-> 499, asname |-> Var(401, "h"),
               context |-> CallE(402, Var(403, "open"), <<Var(404, "x")>>),
               body |-> <<Set(410, "z", CallE(411, Dot(412, Var(413, "h"), "read"), <<>>))>>],
              [s |-> "Try", lo |-> 500, hi |-> 599, body |-> <<Set(510, "x", Lit(511, "b"))>>,
               handlers |-> <<<<Set(520, "w", Var(521, "x"))>>>>, final |-> <<>>],
              Run(600, ListE(601, <<Var(602, "x"), Var(603, "y"), Var(604, "z"), Var(605, "w")>>))>>)
Blocks_ == Program(M :> Module(<<Busy>>, <<>>, <<>>, <<>>),
                   <<Site(Var(221, "x"), <<Busy>>, 221), Site(Var(605, "w"), <<Busy>>, 605),
                     Site(ListE(601, <<Var(602, "x"), Var(603, "y"), Var(604, "z"), Var(605, "w")>>), <<Busy>>, 601)>>,
                   <<>>, {[site |-> <<"site", 1>>, v |-> Str(<<"a", "b">>)]})

(* A dictionary with a spread and later entries, what the environment and  *)
(* a configuration file say, text put together from them.                  *)
Environ(p, k) == Sub(p, Dot(p + 1, Var(p + 2, "os"), "environ"), Lit(p + 3, k))
Loaded(p) == CallE(p, Dot(p + 1, Var(p + 2, "json"), "load"), <<CallE(p + 3, Var(p + 4, "open"), <<Lit(p + 5, "a")>>)>>)
Config ==
    LET assigns == <<Set(10, "e", DictE(11, <<[key |-> <<Lit(12, "k")>>, value |-> Lit(13, "b")]>>)),
                     Set(30, "d", DictE(31, <<[key |-> <<>>, value |-> Var(34, "e")],
                                              [key |-> <<Lit(32, "k")>>, value |-> Lit(33, "a")]>>)),
                     Assigns(50, Sub(51, Var(52, "d"), Lit(53, "l")), Environ(54, "a"))>>
    IN  Program(M :> Module(<<>>, <<>>, assigns, [os |-> From(<<"os">>, ""), json |-> From(<<"json">>, "")]),
                <<Top_(Sub(910, Var(911, "d"), Lit(912, "k"))),
                  Top_(FStrE(920, <<[n |-> "Text", s |-> <<"a">>], Sub(921, Var(922, "d"), Lit(923, "l"))>>)),
                  Top_(CallE(930, Dot(931, Sub(932, Var(933, "e"), Lit(934, "k")), "lower"), <<>>)),
                  Top_(OrE(940, <<CallE(941, Dot(942, Dot(943, Var(944, "os"), "environ"), "get"), <<Lit(945, "b")>>),
                                  Sub(946, Loaded(950), Lit(947, "b"))>>))>>,
                <<<<"m", "d">>>>, {[site |-> <<"site", 1>>, v |-> Str(<<"a">>)],
                                   [site |-> <<"site", 3>>, v |-> Str(<<"b">>)]})

(* A class that a package exports, a module reached by attribute, a star.  *)
Held == [Class("H", <<>>) EXCEPT !.assigns = <<Set(10, "k", Var(11, "base"))>>]
Package ==
    LET leaf == Module(<<>>, <<Held>>, <<Set(20, "base", Lit(21, "a"))>>, <<>>)
        init == [Module(<<>>, <<>>, <<>>, [H |-> From(<<"p", "c">>, "H"), c |-> From(<<"p">>, "c")]) EXCEPT !.star = TRUE]
        main == Module(<<>>, <<>>, <<>>, [p |-> From(<<"p">>, ""), H |-> From(<<"p">>, "H"),
                                          args |-> From(<<"argparse">>, "ArgumentParser")])
    IN  Program(M :> main @@ <<"p">> :> init @@ <<"p", "c">> :> leaf,
                <<Top_(Dot(910, CallE(911, Var(912, "H"), <<>>), "k")),
                  Top_(Dot(920, Dot(921, Dot(922, Var(923, "p"), "c"), "H"), "k")),
                  Top_(Dot(930, Var(931, "p"), "q")),
                  Top_(Dot(940, CallE(941, Dot(942, CallE(943, Var(944, "args"), <<>>), "parse_args"), <<>>), "k"))>>,
                <<<<"p", "H">>, <<"p", "c", "base">>>>,
                {[site |-> <<"site", i>>, v |-> Str(<<"a">>)] : i \in 1..2})

(* A function whose parameter only its callers know.                       *)
Asks == Def("asks", 100, <<Param("k"), ParamOr("j", Lit(101, "b"))>>,
            <<Run(110, SumE(111, <<Var(112, "k"), Var(113, "j")>>))>>)
AsksOf(p, args) == CallE(p, Var(p + 1, "asks"), args)
Anchored ==
    Program(M :> Module(<<Asks>>, <<>>, <<>>, <<>>),
            <<Site(Var(112, "k"), <<Asks>>, 112), Site(Var(113, "j"), <<Asks>>, 113),
              Top_(AsksOf(910, <<Lit(912, "a")>>)), Top_(AsksOf(920, <<Lit(922, "b"), Lit(923, "a")>>))>>,
            <<>>, {[site |-> <<"rebound", 1>>, v |-> Str(<<x>>)] : x \in {"a", "b"}})

WrittenOut == {Chain, Getter, Object, Flow, Blocks_, Config, Package, Anchored}
WithNested == {Nested}

-----------------------------------------------------------------------------
(* What Python computes: a function of straight lines and branches.  A     *)
(* name that is assigned anywhere in a function is local to all of it.     *)
Failed == [t |-> "raises"]

RECURSIVE Eval(_, _), Exec(_, _)
Eval(e, env) ==
    CASE e.n = "Const" -> e.v
      [] e.n = "Name"  -> IF e.id \in DOMAIN env THEN env[e.id] ELSE Failed
      [] e.n = "Compare" ->
            LET l == Eval(e.operands[1], env) r == Eval(e.operands[2], env)
            IN  IF Failed \in {l, r} THEN Failed ELSE Bool(l = r)
      [] e.n = "BoolOp" ->
            LET l == Eval(e.operands[1], env)
            IN  IF l = Failed \/ Truthy(l) THEN l ELSE Eval(e.operands[2], env)
      [] e.n = "Concat" ->
            LET l == Eval(e.operands[1], env) r == Eval(e.operands[2], env)
            IN  IF l.t = "str" /\ r.t = "str" THEN Str(l.s \o r.s) ELSE Failed

(* out is <<>> until the function returns or raises.                       *)
Exec(stmts, start) ==
    FoldLeft(LAMBDA acc, s :
        IF acc.out # <<>> THEN acc
        ELSE LET v == Eval(IF s.s = "If" THEN s.test ELSE IF s.s = "Return" THEN s.value[1] ELSE s.value, acc.env)
             IN  IF v = Failed THEN [acc EXCEPT !.out = <<Failed>>]
                 ELSE CASE s.s = "Assign" -> [acc EXCEPT !.env = Bind(@, s.targets[1].id, v)]
                        [] s.s = "Return" -> [acc EXCEPT !.out = <<v>>]
                        [] s.s = "If" -> Exec(IF Truthy(v) THEN s.body ELSE s.orelse, acc.env),
        [out |-> <<>>, env |-> start], stmts)

Globals == [x |-> Str(<<"a">>)]
Runs(body, arg) ==
    LET visible == [n \in DOMAIN Globals \ AssignedNames(body) |-> Globals[n]]
        end == Exec(body, Bind(visible, "c", arg))
    IN  IF end.out \in {<<>>, <<Failed>>} THEN {} ELSE {end.out[1]}

(* The statements a generated body is put together from, at position p.    *)
Branch(p, x, then) == IfElse(p, EqE(p + 1, <<Var(p + 2, x), Lit(p + 3, "a")>>), then, <<>>)
Statements(p) ==
    {Set(p, "x", Var(p + 1, "c")), Set(p, "x", Lit(p + 1, "b")), Set(p, "c", Lit(p + 1, "b")),
     Set(p, "x", OrE(p + 1, <<Var(p + 2, "c"), Lit(p + 3, "b")>>)),
     Set(p, "x", SumE(p + 1, <<Var(p + 2, "x"), Lit(p + 3, "b")>>)),
     Branch(p, "c", <<Set(p + 10, "x", Lit(p + 11, "b"))>>),
     Branch(p, "c", <<Returns(p + 10, Lit(p + 11, "b"))>>),
     Branch(p, "x", <<Returns(p + 10, Var(p + 11, "c"))>>)}
Bodies == {<<s1, s2, s3, Returns(400, Var(401, "x"))>> :
              s1 \in Statements(100), s2 \in Statements(200), s3 \in Statements(300)}

Args == {Str(<<"a">>), Str(<<"b">>), NoneV}
Generated(body, arg) ==
    LET f == Def("f", 50, <<Param("c")>>, body)
        call == CallE(910, Var(911, "f"), <<[n |-> "Const", at |-> 912, v |-> arg]>>)
    IN  Program(M :> Module(<<f>>, <<>>, <<Set(10, "x", Lit(11, "a"))>>, <<>>),
                <<Top_(call)>>, <<>>, {[site |-> <<"site", 1>>, v |-> v] : v \in Runs(body, arg)})

(* No test reads a name that the body assigns.                             *)
TestsOf(body) == {s.test : s \in {x \in ToSet(SubStmts(body)) : x.s = "If"}}
TestsAreStable(body) == \A t \in TestsOf(body) : Names(t) \cap AssignedNames(body) = {}

AllFunctions == {Generated(b, a) : b \in Bodies, a \in Args}
StableFunctions == {Generated(b, a) : b \in {x \in Bodies : TestsAreStable(x)}, a \in Args}
Checked == WrittenOut \cup StableFunctions
=============================================================================
