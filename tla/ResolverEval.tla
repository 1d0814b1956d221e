---------------------------- MODULE ResolverEval ----------------------------
(***************************************************************************)
(* One query of the symbolic resolver: aiscan/resolve/engine.py, with      *)
(* resolve/memo.py, over the symbol tables of modules/symbols.py.          *)
(*                                                                         *)
(* Everything a query reads or leaves behind is in one record st:          *)
(*    mods    the modules, each with its symbol table                      *)
(*    memo    the memo table, from <<module, span, node kind>> to values   *)
(*    defs, classes, owner   _defs, _classes and _method_class; a local    *)
(*            definition is added when a walk passes it                    *)
(*    left    _resolve calls that still come before the deadline           *)
(*    frames  nested _resolve calls on the stack                           *)
(*    raised  the stack overflowed (Python's RecursionError)               *)
(*    cut     a budget cut this query or one before it                     *)
(* and an operator returns the values it found with the st it leaves.      *)
(*                                                                         *)
(* A scope is the sequence of its frames, innermost first; <<>> is None.   *)
(* The iteration order of a frozenset is an arbitrary fixed one here.      *)
(***************************************************************************)
EXTENDS ResolverValues

CONSTANTS
    MaxDepth, MaxHops,      \* ResolverBudgets
    StackLimit,             \* nested _resolve calls the interpreter's stack holds
    KRet, KRetLift,         \* _K_RET, _K_RET_LIFT
    Builtins,               \* _BUILTIN_NAMES
    StrFold                 \* what lower, upper and strip do to an atom

ASSUME BudgetAssumption == MaxDepth \in Nat /\ MaxHops \in Nat /\ StackLimit \in Nat \ {0}
ASSUME ReturnCapAssumption == KRet \in Nat /\ KRetLift \in Nat /\ KRet <= KRetLift

EnvGetters      == {<<"os", "environ", "get">>, <<"os", "getenv">>}
ConfigLoaders   == {<<"json", "load">>, <<"json", "loads">>, <<"yaml", "safe_load">>}
IdentityMethods == {"bind_tools", "with_structured_output", "with_config", "with_retry", "bind"}
OpenedFile      == <<"builtins", "file">>
PathObject      == <<"pathlib", "Path">>
EnvSentinel     == <<"process", "env">>
ListGrowers     == {"append", "extend", "push"}
ReceiverNames   == {"self", "this"}

Answer(vs, st) == [v |-> vs, st |-> st]
Unknown(reason, st) == Answer({Top(reason)}, st)
CutToNothing(reason, st) == Answer({}, [st EXCEPT !.cut = TRUE])
Cut(reason, st) == Unknown(reason, [st EXCEPT !.cut = TRUE])
OrDynamic(r) == IF r.v = {} THEN Answer({Top("dynamic")}, r.st) ELSE r

(* One step, then the next with what it gave.                              *)
Then(r, Next(_)) == Next(r)

(* The union of F over a sequence, F leaving its st to the next.           *)
UnionOver(F(_, _), seq, st) ==
    FoldLeft(LAMBDA acc, x : LET r == F(x, acc.st) IN Answer(acc.v \cup r.v, r.st),
             Answer({}, st), seq)
(* The results of F over a sequence, in order.                             *)
MapOver(F(_, _), seq, st) ==
    FoldLeft(LAMBDA acc, x : LET r == F(x, acc.st) IN [vs |-> Append(acc.vs, r.v), st |-> r.st],
             [vs |-> <<>>, st |-> st], seq)

(***************************************************************************)
(* The symbol table of a module: the last definition of a name, every      *)
(* right-hand side assigned to it at the top level, the imports.           *)
(***************************************************************************)
LastNamed(seq, n) == CHOOSE x \in ToSet(seq) :
    x.name = n /\ \E i \in DOMAIN seq : /\ seq[i] = x
                                        /\ \A j \in i+1..Len(seq) : seq[j].name # n
ByName(seq) == [n \in {x.name : x \in ToSet(seq)} |-> LastNamed(seq, n)]

SymbolTable(mod) ==
    [functions   |-> ByName(mod.defs),
     classes     |-> ByName(mod.classes),
     assignments |-> [n \in UNION {UNION {IF t.n = "Name" THEN {t.id} ELSE {} : t \in ToSet(a.targets)}
                                   : a \in ToSet(mod.assigns)} |->
                        FoldLeft(LAMBDA acc, a : IF \E t \in ToSet(a.targets) : t.n = "Name" /\ t.id = n
                                                 THEN Append(acc, a.value) ELSE acc, <<>>, mod.assigns)],
     imports     |-> mod.imports,
     star        |-> mod.star,
     body        |-> mod.body]

MethodDefs(fq, m, cls) ==
    [x \in {Append(fq, f.name) : f \in ToSet(cls.methods)} |->
        [mod |-> m, fn |-> CHOOSE f \in ToSet(cls.methods) : x = Append(fq, f.name)]]

(* What a table of a kind holds, by the full name.                         *)
Indexed(tables, kind, Entry(_, _)) ==
    LET holders == {m \in DOMAIN tables : DOMAIN tables[m][kind] # {}}
        fqs == UNION {{Append(m, n) : n \in DOMAIN tables[m][kind]} : m \in holders}
    IN  [fq \in fqs |-> Entry(Front(fq), tables[Front(fq)][kind][Last(fq)])]

(* Resolver.__init__: every top-level function, class and method.          *)
WithMethods(tables, functions, classes, methods) ==
    [mods |-> tables, memo |-> <<>>,
     defs |-> FoldSet(LAMBDA fq, defs : methods[fq] @@ defs, functions, DOMAIN methods),
     classes |-> classes,
     owner |-> [x \in UNION {DOMAIN methods[fq] : fq \in DOMAIN methods} |->
                    CHOOSE fq \in DOMAIN methods : x \in DOMAIN methods[fq]],
     left |-> 0, frames |-> 0, raised |-> FALSE, cut |-> FALSE]
NewResolver(mods) ==
    Then([m \in DOMAIN mods |-> SymbolTable(mods[m])], LAMBDA tables :
    Then(Indexed(tables, "classes", LAMBDA m, cls : [mod |-> m, cls |-> cls]), LAMBDA classes :
        WithMethods(tables, Indexed(tables, "functions", LAMBDA m, fn : [mod |-> m, fn |-> fn]), classes,
                    [fq \in DOMAIN classes |-> MethodDefs(fq, classes[fq].mod, classes[fq].cls)])))

Packages(st) == UNION {{SubSeq(m, 1, i) : i \in 1..Len(m) - 1} : m \in DOMAIN st.mods}

IsDotted(e, base, attr) == e.n = "Attr" /\ e.attr = attr /\ e.base.n = "Name" /\ e.base.id = base

(* Expressions, statements, attributes and calls lead to each other, and   *)
(* scopes and defaults to all of them; their recursion goes through        *)
(* Evaluate.                                                               *)
RECURSIVE Evaluate(_), Member(_, _, _, _, _), Reachable(_, _, _, _)
Resolve(e, m, sc, d, st) ==
    Evaluate([what |-> "expression", e |-> e, m |-> m, sc |-> sc, d |-> d, st |-> st])
WalkTo(stmts, sc, target, d, st) ==
    Evaluate([what |-> "statements", stmts |-> stmts, sc |-> sc, target |-> target, d |-> d, st |-> st])
AttrOne(v, attr, m, d, st) ==
    Evaluate([what |-> "attribute", v |-> v, attr |-> attr, m |-> m, d |-> d, st |-> st])
CallBody(fn, m, args, d, self, st) ==
    Evaluate([what |-> "call", fn |-> fn, m |-> m, args |-> args, d |-> d, self |-> self, st |-> st])
FunctionScope(m, fn, parent, self, bound, st) ==
    Evaluate([what |-> "frame", m |-> m, fn |-> fn, parent |-> parent, self |-> self, bound |-> bound, st |-> st])

(***************************************************************************)
(* Literals and operators                                                  *)
(***************************************************************************)
FString(pieces, m, sc, d, st) ==
    LET r == FoldLeft(LAMBDA acc, x :
                        IF x.n = "Text" THEN [acc EXCEPT !.p = @ \o TextOrHole({Str(x.s)})]
                        ELSE LET y == Resolve(x, m, sc, d + 1, acc.st)
                             IN  [p |-> acc.p \o TextOrHole(y.v), st |-> y.st],
                      [p |-> <<>>, st |-> st], pieces)
    IN  Answer({TemplateOrStr(r.p)}, r.st)

Concat(operands, m, sc, d, st) ==
    LET r == MapOver(LAMBDA x, s : Resolve(x, m, sc, d + 1, s), operands, st)
    IN  IF \E i \in DOMAIN r.vs : \A v \in r.vs[i] : v.t = "num" THEN Unknown("dynamic", r.st)
        ELSE Answer({TemplateOrStr(PartsOf(r.vs[1]) \o PartsOf(r.vs[2]))}, r.st)

(* A falsy literal does not leave an operand of `or` but the last, and an  *)
(* operand that is one truthy literal ends the evaluation.                 *)
BoolOp(e, m, sc, d, st) ==
    OrDynamic(
      LET last == Len(e.operands)
          r == FoldLeft(LAMBDA acc, i :
                  IF acc.done THEN acc
                  ELSE LET x == Resolve(e.operands[i], m, sc, d + 1, acc.st)
                           inner == e.op = "or" /\ i < last
                           kept == IF inner THEN x.v \ {NoneV, Bool(FALSE)} ELSE x.v
                       IN  [v |-> acc.v \cup kept, st |-> x.st,
                            done |-> inner /\ Cardinality(x.v) = 1 /\ Truthy(The(x.v))],
                  [v |-> {}, st |-> st, done |-> FALSE], [i \in 1..last |-> i])
      IN  Answer(r.v, r.st))

Compare(e, m, sc, d, st) ==
    IF e.op \notin {"==", "!="} THEN Unknown("dynamic", st)
    ELSE LET r == MapOver(LAMBDA x, s : Resolve(x, m, sc, d + 1, s), e.operands, st)
         IN  IF IsLiteral(r.vs[1]) /\ IsLiteral(r.vs[2])
             THEN Answer({Bool((r.vs[1] = r.vs[2]) = (e.op = "=="))}, r.st)
             ELSE Unknown("dynamic", r.st)

(* A later entry wins; a spread that is one dict is merged, any other      *)
(* spread and a computed key open the dict.                                *)
DictLiteral(entries, m, sc, d, st) ==
    LET Spread(acc, x) ==
            LET r == Resolve(x.value, m, sc, d + 1, acc.st)
            IN  IF IsSingle(r.v, "dict")
                THEN [entries |-> FoldLeft(LAMBDA es, y : PutEntry(es, y.k, y.v),
                                           acc.entries, The(r.v).entries),
                      open |-> acc.open \/ The(r.v).open, st |-> r.st]
                ELSE [acc EXCEPT !.open = TRUE, !.st = r.st]
        Keyed(acc, x) ==
            LET k == Resolve(x.key[1], m, sc, d + 1, acc.st)
                r == Resolve(x.value, m, sc, d + 1, k.st)
            IN  IF IsSingle(k.v, "str")
                THEN [acc EXCEPT !.entries = PutEntry(@, The(k.v).s, r.v), !.st = r.st]
                ELSE [acc EXCEPT !.open = TRUE, !.st = k.st]
        out == FoldLeft(LAMBDA acc, x : IF x.key = <<>> THEN Spread(acc, x) ELSE Keyed(acc, x),
                        [entries |-> <<>>, open |-> FALSE, st |-> st], entries)
    IN  Answer({DictVal(out.entries, out.open)}, out.st)

Subscript(e, m, sc, d, st) ==
    LET base  == Resolve(e.base, m, sc, d + 1, st)
        index == Resolve(e.index, m, sc, d + 1, base.st)
        keyed == IsSingle(index.v, "str")
        key   == The(index.v).s
        One(v) ==
            CASE v.t = "package" /\ v.name \in {<<"os", "environ">>, EnvSentinel} /\ keyed ->
                    {Symbolic("env", key)}
              [] v.t = "symbolic" /\ v.kind = "config" /\ keyed -> {Symbolic("config", v.key \o key)}
              [] v.t = "dict" /\ keyed /\ Gets(v, key) -> Got(v, key)
              [] v.t = "list" /\ IsSingle(index.v, "num") /\ The(index.v).n + 1 \in DOMAIN v.elems ->
                    v.elems[The(index.v).n + 1]
              [] v.t = "top" -> {v}
              [] OTHER -> {Top("dynamic")}
    IN  Answer(UNION {One(v) : v \in base.v}, index.st)

(***************************************************************************)
(* Containers that later statements grow, wherever those statements are    *)
(***************************************************************************)
FoldListCalls(n, list, body, m, sc, d, st) ==
    LET Grows(c) == /\ c.callee.n = "Attr" /\ c.callee.base.n = "Name" /\ c.callee.base.id = n
                    /\ c.callee.attr \in ListGrowers /\ c.args # <<>>
        Extend(acc, c) ==
            LET r == Resolve(c.args[1], m, sc, d + 1, acc.st)
            IN  IF IsSingle(r.v, "list") /\ ~The(r.v).open
                THEN [list |-> [acc.list EXCEPT !.elems = @ \o The(r.v).elems], st |-> r.st]
                ELSE [list |-> [acc.list EXCEPT !.open = TRUE], st |-> r.st]
        Push(acc, x) ==
            LET r == Resolve(x, m, sc, d + 1, acc.st)
            IN  IF \E v \in r.v : v.t = "top"
                THEN [list |-> [acc.list EXCEPT !.open = TRUE], st |-> r.st]
                ELSE [list |-> [acc.list EXCEPT !.elems = Append(@, r.v)], st |-> r.st]
        Grown(acc, c) ==
            IF ~Grows(c) THEN acc
            ELSE IF c.callee.attr = "extend" THEN Extend(acc, c) ELSE FoldLeft(Push, acc, c.args)
    IN  Then(FoldLeft(Grown, [list |-> list, st |-> st], CallsIn(body)),
             LAMBDA r : Answer({r.list}, r.st))

FoldMutations(n, vs, sc, d, st) ==
    IF IsSingle(vs, "list") THEN FoldListCalls(n, The(vs), sc[1].body, sc[1].mod, sc, d, st)
    ELSE Answer(vs, st)

FoldDictAssigns(n, dict, m, d, st) ==
    LET Target(acc, t, value) ==
            LET k == Resolve(t.index, m, <<>>, d + 1, acc.st)
                r == Resolve(value, m, <<>>, d + 1, k.st)
            IN  IF ~(t.n = "Subscript" /\ t.base.n = "Name" /\ t.base.id = n) THEN acc
                ELSE IF IsSingle(k.v, "str")
                THEN [dict |-> [acc.dict EXCEPT !.entries = PutEntry(@, The(k.v).s, r.v)], st |-> r.st]
                ELSE [dict |-> [acc.dict EXCEPT !.open = TRUE], st |-> k.st]
        out == FoldLeft(LAMBDA acc, s : IF s.s # "Assign" THEN acc
                          ELSE FoldLeft(LAMBDA a, t : Target(a, t, s.value), acc, s.targets),
                        [dict |-> dict, st |-> st], SubStmts(st.mods[m].body))
    IN  Answer({out.dict}, out.st)

(***************************************************************************)
(* Scopes and flow                                                         *)
(***************************************************************************)
BindArgs(e, m, sc, d, st) ==
    LET pos   == MapOver(LAMBDA x, s : Resolve(x, m, sc, d + 1, s), e.args, st)
        named == MapOver(LAMBDA x, s : Resolve(x.value, m, sc, d + 1, s), e.kwargs, pos.st)
    IN  [args |-> [pos |-> pos.vs,
                   named |-> [i \in DOMAIN e.kwargs |-> [k |-> e.kwargs[i].k, v |-> named.vs[i]]]],
         st |-> named.st]

(* Positional parameters in order, a leading self or cls left out; then    *)
(* the keyword-only and variadic ones.                                     *)
BindParams(fn, args, m, d, st) ==
    LET pos  == SelectSeq(fn.params, LAMBDA p : p.kind = "pos")
        skip == IF pos # <<>> /\ pos[1].name \in {"self", "cls"} THEN 1 ELSE 0
        Fill(acc, p, place) ==
            LET given == Argument(args, p.name, place)
                r == IF p.default # <<>> /\ given = {}
                     THEN Resolve(p.default[1], m, <<>>, d + 1, acc.st)
                     ELSE Answer(IF given # {} THEN given ELSE {Top("unbound")}, acc.st)
            IN  [env |-> Bind(acc.env, p.name, r.v), st |-> r.st]
        filled == FoldLeft(LAMBDA acc, i : Fill(acc, pos[i], i - skip),
                           [env |-> <<>>, st |-> st], [i \in 1..Len(pos) - skip |-> i + skip])
    IN  FoldLeft(LAMBDA acc, p :
                    CASE p.kind = "kwonly" -> Fill(acc, p, 0)
                      [] p.kind = "var" -> [acc EXCEPT !.env = Bind(@, p.name, {Top("dynamic")})]
                      [] OTHER -> acc,
                 filled, fn.params)

(* A fresh frame of fn.  Each default is resolved at depth 0, also when    *)
(* the argument is bound.                                                  *)
Frame(m, fn, parent, self, bound, st) ==
    LET Param(acc, p) ==
                IF p.kind = "var" THEN [acc EXCEPT !.env = Bind(@, p.name, {Top("dynamic")})]
                ELSE IF p.default # <<>>
                THEN Then(Resolve(p.default[1], m, <<>>, 0, acc.st), LAMBDA r :
                        [env |-> Bind(acc.env, p.name, r.v), st |-> r.st])
                ELSE IF fn.click THEN [acc EXCEPT !.env = Bind(@, p.name, {Symbolic("cli", <<p.name>>)})]
                ELSE IF p.name \in {"self", "cls"} THEN acc
                ELSE [acc EXCEPT !.env = Bind(@, p.name, {Top("unbound")})]
        Own(env) == IF self = {} THEN env
                    ELSE [n \in ReceiverNames |-> self] @@ env
                         @@ [n \in {"cls"} |-> {ClassRef(The(self).cls)}]
    IN  Then(FoldLeft(Param, [env |-> <<>>, st |-> st], fn.params), LAMBDA r :
            [sc |-> <<[mod |-> m, env |-> bound @@ Own(r.env), body |-> fn.body,
                       memoizable |-> self = {} /\ DOMAIN bound = {}]>> \o parent,
             st |-> r.st])

SetEnv(sc, env) == [sc EXCEPT ![1].env = env]
Assigned(sc, n, vs) == SetEnv(sc, Bind(sc[1].env, n, vs))
LoopEntered(s, sc) == IF s.target.n = "Name" THEN Assigned(sc, s.target.id, {Top("dynamic")}) ELSE sc
WithEntered(s, sc, d, st) ==
    LET r == Resolve(s.context, sc[1].mod, sc, d + 1, st)
    IN  IF s.asname.n = "Name" THEN [sc |-> Assigned(sc, s.asname.id, r.v), st |-> r.st]
        ELSE [sc |-> sc, st |-> st]

ApplyTarget(t, vs, sc, d, st) ==
    LET n == t.base.id
        known == n \in DOMAIN sc[1].env
        r == Resolve(t.index, sc[1].mod, sc, d + 1, st)
        dict == The(sc[1].env[n])
    IN  CASE t.n = "Name" -> [sc |-> Assigned(sc, t.id, vs), st |-> st]
          [] t.n = "List" ->
                [sc |-> FoldLeft(LAMBDA acc, x : IF x.n = "Name" THEN Assigned(acc, x.id, {Top("dynamic")})
                                                 ELSE acc, sc, t.operands), st |-> st]
          [] t.n = "Subscript" /\ t.base.n = "Name" ->
                [sc |-> IF known /\ IsSingle(sc[1].env[n], "dict") /\ IsSingle(r.v, "str")
                        THEN Assigned(sc, n, {DictVal(PutEntry(dict.entries, The(r.v).s, vs), dict.open)})
                        ELSE IF known THEN Assigned(sc, n, {Top("dynamic")}) ELSE sc,
                 st |-> r.st]
          [] OTHER -> [sc |-> sc, st |-> st]

(* A local definition binds its name and is known from then on.            *)
Defined(s, sc, st) ==
    LET fq == Append(sc[1].mod, s.lname)
        methods == MethodDefs(fq, sc[1].mod, s.cls)
    IN  IF s.s = "FuncDef"
        THEN [sc |-> Assigned(sc, s.func.name, {FuncRef(fq)}),
              st |-> [st EXCEPT !.defs = Bind(@, fq, [mod |-> sc[1].mod, fn |-> s.func])]]
        ELSE [sc |-> Assigned(sc, s.cls.name, {ClassRef(fq)}),
              st |-> [st EXCEPT !.classes = Bind(@, fq, [mod |-> sc[1].mod, cls |-> s.cls]),
                                !.defs = methods @@ @,
                                !.owner = [x \in DOMAIN methods |-> fq] @@ @]]

(* The effect of one whole statement.  Branches start from the state       *)
(* before and are united; a loop runs once and is united with the state    *)
(* before; handlers start from the state after the body of the try.        *)
Apply(s, sc, d, st) ==
    LET Run(block, from) == WalkTo(block, from.sc, 0, d, from.st)
        United(a, b) == [sc |-> SetEnv(sc, UnionEnv(a.sc[1].env, b.sc[1].env)), st |-> b.st]
        pre  == [sc |-> sc, st |-> st]
        body == Run(s.body, pre)
        Handler(acc, h) ==
            United([sc |-> acc.sc], Run(h, [sc |-> body.sc, st |-> acc.st]))
    IN  CASE s.s = "Assign" ->
                LET r == Resolve(s.value, sc[1].mod, sc, d + 1, st)
                IN  FoldLeft(LAMBDA acc, t : ApplyTarget(t, r.v, acc.sc, d, acc.st),
                             [sc |-> sc, st |-> r.st], s.targets)
          [] s.s = "Aug" /\ s.target.n = "Name" ->
                LET n == s.target.id
                    current == IF n \in DOMAIN sc[1].env THEN sc[1].env[n] ELSE {}
                    text == s.op = "+" /\ (IsSingle(current, "str") \/ IsSingle(current, "template"))
                    r == Resolve(s.value, sc[1].mod, sc, d + 1, st)
                IN  IF IsSingle(current, "list")
                    THEN [sc |-> Assigned(sc, n, {ListVal(The(current).elems, TRUE)}), st |-> st]
                    ELSE IF text
                    THEN [sc |-> Assigned(sc, n, {TemplateOrStr(PartsOf(current) \o PartsOf(r.v))}), st |-> r.st]
                    ELSE [sc |-> Assigned(sc, n, {Top("dynamic")}), st |-> st]
          [] s.s \in {"FuncDef", "ClassDef"} -> Defined(s, sc, st)
          [] s.s = "If"    -> United(body, Run(s.orelse, [pre EXCEPT !.st = body.st]))
          [] s.s = "While" -> United(pre, body)
          [] s.s = "For"   -> United(pre, Run(s.body, [pre EXCEPT !.sc = LoopEntered(s, sc)]))
          [] s.s = "With"  -> Run(s.body, WithEntered(s, sc, d, st))
          [] s.s = "Try"   -> Run(s.final, FoldLeft(Handler, body, s.handlers))
          [] OTHER -> pre

(* Into the block of s that holds target, from the state before s.         *)
Descend(s, sc, target, d, st) ==
    LET holding == SelectSeq(Blocks(s), LAMBDA b : \E x \in ToSet(b) : Covers(x, target))
        entered == CASE s.s = "For"  -> [sc |-> LoopEntered(s, sc), st |-> st]
                     [] s.s = "With" -> WithEntered(s, sc, d, st)
                     [] s.s \in {"FuncDef", "ClassDef"} -> Defined(s, sc, st)
                     [] OTHER -> [sc |-> sc, st |-> st]
    IN  Then(entered, LAMBDA r :
            IF holding = <<>> THEN r ELSE WalkTo(holding[1], r.sc, target, d, r.st))

(* The statements before target take effect; 0 is past the end.            *)
Walked(stmts, sc, target, d, st) ==
    LET Step(acc, s) ==
            IF acc.there THEN acc
            ELSE IF target # 0 /\ Covers(s, target)
            THEN [there |-> TRUE] @@ Descend(s, acc.sc, target, d, acc.st)
            ELSE [there |-> FALSE] @@ Apply(s, acc.sc, d, acc.st)
    IN  Then(FoldLeft(Step, [there |-> FALSE, sc |-> sc, st |-> st], stmts),
             LAMBDA r : [sc |-> r.sc, st |-> r.st])

(***************************************************************************)
(* Names, members of modules, imports                                      *)
(***************************************************************************)
(* sym is the name that `from mod import sym` binds, "" for `import mod`.  *)
ImportBinding(b, d, hops, st) ==
    LET sub == Append(b.mod, b.sym)
    IN  IF hops > MaxHops THEN Cut("depth", st)
        ELSE IF b.sym = "" THEN
            Answer({IF b.mod \in DOMAIN st.mods THEN ModuleRef(b.mod) ELSE PackageRef(b.mod)}, st)
        ELSE IF b.mod \in DOMAIN st.mods THEN
            Then(Member(b.mod, b.sym, d, hops + 1, st), LAMBDA r :
                IF r.v # {} THEN r
                ELSE IF sub \in DOMAIN st.mods THEN Answer({ModuleRef(sub)}, r.st)
                ELSE Unknown("unbound", r.st))
        ELSE IF b.mod \in Packages(st) /\ sub \in DOMAIN st.mods THEN Answer({ModuleRef(sub)}, st)
        ELSE Answer({PackageRef(sub)}, st)

(* A definition before a class before assignments before an import; {} is  *)
(* None: the module has no such member.                                    *)
Member(m, n, d, hops, st) ==
    LET table == st.mods[m]
    IN  IF n \in DOMAIN table.functions THEN Answer({FuncRef(Append(m, n))}, st)
        ELSE IF n \in DOMAIN table.classes THEN Answer({ClassRef(Append(m, n))}, st)
        ELSE IF n \in DOMAIN table.assignments
        THEN UnionOver(LAMBDA rhs, s : Resolve(rhs, m, <<>>, d + 1, s), table.assignments[n], st)
        ELSE IF n \in DOMAIN table.imports THEN ImportBinding(table.imports[n], d, hops, st)
        ELSE IF table.star THEN Unknown("star_import", st)
        ELSE Answer({}, st)

Name(n, m, sc, d, st) ==
    LET holders == {i \in DOMAIN sc : n \in DOMAIN sc[i].env}
        i == CHOOSE j \in holders : \A k \in holders : j <= k
    IN  IF holders # {}
        THEN FoldMutations(n, sc[i].env[n], SubSeq(sc, i, Len(sc)), d, st)
        ELSE Then(Member(m, n, d, 0, st), LAMBDA r :
                IF IsSingle(r.v, "list")
                THEN FoldListCalls(n, The(r.v), r.st.mods[m].body, m, <<>>, d, r.st)
                ELSE IF IsSingle(r.v, "dict") THEN FoldDictAssigns(n, The(r.v), m, d, r.st)
                ELSE IF r.v # {} THEN r
                ELSE IF n \in Builtins THEN Answer({FuncRef(<<"builtins", n>>)}, r.st)
                ELSE Unknown("unbound", r.st))

(***************************************************************************)
(* Attributes                                                              *)
(***************************************************************************)
(* A method of the class, else the first assignment in its body.           *)
BodyAttr(fq, entry, attr, d, st) ==
    LET methods == {f \in ToSet(entry.cls.methods) : f.name = attr}
        assigns == SelectSeq(entry.cls.assigns,
                             LAMBDA a : \E t \in ToSet(a.targets) : t.n = "Name" /\ t.id = attr)
    IN  IF methods # {} THEN Answer({FuncRef(Append(fq, attr))}, st)
        ELSE IF assigns # <<>> THEN Resolve(assigns[1].value, entry.mod, <<>>, d + 1, st)
        ELSE Unknown("dynamic", st)

ClassAttr(fq, attr, d, st) ==
    IF fq \in DOMAIN st.classes THEN BodyAttr(fq, st.classes[fq], attr, d, st)
    ELSE Answer({PackageRef(Append(fq, attr))}, st)

(* `self.attr = value` in the constructor, with its arguments bound and    *)
(* the body walked up to the last such statement.                          *)
InstanceAttr(v, attr, d, st) ==
    LET entry == st.classes[v.cls]
        inits == SelectSeq(entry.cls.methods, LAMBDA f : f.name \in {"__init__", "constructor"})
        init  == inits[1]
        IsTarget(t) == t.n = "Attr" /\ t.base.n = "Name" /\ t.base.id \in ReceiverNames /\ t.attr = attr
        stores == SelectSeq(init.body,
                            LAMBDA s : s.s = "Assign" /\ \E t \in ToSet(s.targets) : IsTarget(t))
        Stored(bound) ==
            Then(FunctionScope(entry.mod, init, <<>>, {}, bound.env, bound.st), LAMBDA entered :
            Then(WalkTo(init.body, entered.sc, Last(stores).lo, d, entered.st), LAMBDA walked :
                Resolve(Last(stores).value, entry.mod, walked.sc, d + 1, walked.st)))
    IN  IF v.cls = <<"argparse", "Namespace">> THEN Answer({Symbolic("cli", <<attr>>)}, st)
        ELSE IF v.cls \notin DOMAIN st.classes THEN Unknown("dynamic", st)
        ELSE IF inits = <<>> THEN BodyAttr(v.cls, entry, attr, d, st)
        ELSE Then(BindParams(init, v.args, entry.mod, d, st), LAMBDA bound :
                IF stores = <<>> THEN BodyAttr(v.cls, entry, attr, d, bound.st) ELSE Stored(bound))

AttrOf(v, attr, m, d, st) ==
    CASE v.t = "module" ->
            LET sub == Append(v.name, attr)
            IN  IF sub \in DOMAIN st.mods THEN Answer({ModuleRef(sub)}, st)
                ELSE Then(IF v.name \in DOMAIN st.mods THEN Member(v.name, attr, d, 1, st) ELSE Answer({}, st),
                          LAMBDA r : IF r.v # {} THEN r ELSE Unknown("unbound", r.st))
      [] v.t = "package" ->
            Answer({IF v.name = EnvSentinel THEN Symbolic("env", <<attr>>)
                    ELSE PackageRef(Append(v.name, attr))}, st)
      [] v.t = "class"    -> ClassAttr(v.fq, attr, d, st)
      [] v.t = "instance" -> InstanceAttr(v, attr, d, st)
      [] v.t = "dict" /\ Gets(v, <<attr>>) -> Answer(Got(v, <<attr>>), st)
      [] v.t = "top" -> Answer({v}, st)
      [] OTHER -> Unknown("dynamic", st)

AttrOver(vs, attr, m, d, st) ==
    OrDynamic(UnionOver(LAMBDA v, s : AttrOne(v, attr, m, d, s), SetToSeq(vs), st))

(***************************************************************************)
(* Calls                                                                   *)
(***************************************************************************)
FileSymbol(v) ==
    LET path == Argument(v.args, "file", 1)
    IN  Symbolic("config", <<"file:">> \o (IF IsSingle(path, "str") THEN The(path).s ELSE <<"<dynamic>">>))

(* Where a loaded configuration comes from: an opened file, a path or      *)
(* another loaded value; otherwise it is dynamic.                          *)
LoaderSource(vs) ==
    LET files == {FileSymbol(v) : v \in {x \in vs : x.t = "instance" /\ x.cls \in {OpenedFile, PathObject}}}
        loads == {v \in vs : v.t = "symbolic" /\ v.kind = "config"}
        Stripped(key) == IF key[1] = "file:" THEN SubSeq(key, 2, Len(key)) ELSE key
    IN  Then(files \cup loads, LAMBDA sources :
            IF sources = {} THEN <<"<dynamic>">> ELSE Stripped(The(sources).key))

ExternalCall(fq, e, m, sc, d, st) ==
    LET Arg(i, from) == IF Len(e.args) < i THEN Answer({}, from) ELSE Resolve(e.args[i], m, sc, d + 1, from)
        FromEnv(first) ==
            IF IsSingle(first.v, "str")
            THEN Then(Arg(2, first.st), LAMBDA rest :
                    Answer({Symbolic("env", The(first.v).s)} \cup rest.v, rest.st))
            ELSE Unknown("dynamic", first.st)
        Made(cls, from) ==
            Then(BindArgs(e, m, sc, d, from), LAMBDA b : Answer({Instance(cls, b.args)}, b.st))
    IN  IF fq \in EnvGetters \cup ConfigLoaders \cup {<<"boto3", "client">>}
        THEN Then(Arg(1, st), LAMBDA first :
                IF fq \in EnvGetters THEN FromEnv(first)
                ELSE IF fq \in ConfigLoaders
                THEN Answer({Symbolic("config", LoaderSource(first.v))}, first.st)
                ELSE Made(IF IsSingle(first.v, "str") THEN <<"boto3">> \o The(first.v).s ELSE fq, first.st))
        ELSE Made(fq, st)

CallOne(v, e, m, sc, d, st) ==
    LET entry == st.defs[v.fq]
        Bound(Use(_)) == Then(BindArgs(e, m, sc, d, st), Use)
        self  == IF v.fq \in DOMAIN st.owner THEN {Instance(st.owner[v.fq], NoArgs)} ELSE {}
        opens == v.t = "func" /\ v.fq = <<"builtins", "open">>
    IN  CASE v.t = "class" \/ opens ->
                Bound(LAMBDA b : Answer({Instance(IF opens THEN OpenedFile ELSE v.fq, b.args)}, b.st))
          [] v.t = "func" /\ ~opens ->
                IF v.fq \in DOMAIN st.defs
                THEN Bound(LAMBDA b : CallBody(entry.fn, entry.mod, b.args, d, self, b.st))
                ELSE Unknown("dynamic", st)
          [] v.t = "package" -> ExternalCall(v.name, e, m, sc, d, st)
          [] v.t = "top" -> Answer({v}, st)
          [] OTHER -> Unknown("dynamic", st)

(* The calls in which the instance matters; {} falls through.              *)
MethodCall(v, attr, e, m, sc, at) ==
    LET fq    == Append(v.cls, attr)
        entry == at.st.defs[fq]
    IN  IF v.t # "instance" THEN Answer({}, at.st)
        ELSE IF \/ v.cls = OpenedFile /\ attr \in {"read", "readlines"}
                \/ v.cls = PathObject /\ attr \in {"read_text", "read_bytes"}
        THEN Answer({FileSymbol(v)}, at.st)
        ELSE IF v.cls = <<"argparse", "ArgumentParser">> /\ attr = "parse_args"
        THEN Answer({Instance(<<"argparse", "Namespace">>, NoArgs)}, at.st)
        ELSE IF fq \notin DOMAIN at.st.defs
        THEN Answer(IF attr \in IdentityMethods THEN {v} ELSE {}, at.st)
        ELSE Then(BindArgs(e, m, sc, at.d, at.st), LAMBDA bound :
                CallBody(entry.fn, entry.mod, bound.args, at.d, {v}, bound.st))

Call(e, m, sc, d, st) ==
    LET method == e.callee.n = "Attr"
        base   == IF method THEN Resolve(e.callee.base, m, sc, d + 1, st) ELSE Answer({}, st)
        attr   == e.callee.attr
        callees == Resolve(e.callee, m, sc, d + 1, st)
        folds  == /\ method /\ attr \in DOMAIN StrFold /\ e.args = <<>> /\ base.v # {}
                  /\ \A v \in base.v : v.t \in {"str", "symbolic", "template"}
        Fold(v) == IF v.t = "str" THEN Str([i \in DOMAIN v.s |-> StrFold[attr][v.s[i]]]) ELSE v
        Attr(v, own) ==
            IF own.v # {} THEN [v |-> own.v, later |-> {}, st |-> own.st]
            ELSE Then(AttrOne(v, attr, m, d, own.st), LAMBDA r : [v |-> {}, later |-> r.v, st |-> r.st])
        Callee(acc, v) ==
            Then(Attr(v, MethodCall(v, attr, e, m, sc, [d |-> d, st |-> acc.st])), LAMBDA c :
                [v |-> acc.v \cup c.v, later |-> acc.later \cup c.later, st |-> c.st])
        ready == IF method THEN FoldLeft(Callee, [v |-> {}, later |-> {}, st |-> base.st], SetToSeq(base.v))
                 ELSE [v |-> {}, later |-> callees.v, st |-> callees.st]
        Dispatch(from) ==
            Then(UnionOver(LAMBDA v, s : CallOne(v, e, m, sc, d, s), SetToSeq(from.later), from.st),
                 LAMBDA r : OrDynamic(Answer(from.v \cup r.v, r.st)))
    IN  IF IsDotted(e.callee, "JSON", "stringify") /\ e.args # <<>>
        THEN Resolve(e.args[1], m, sc, d + 1, st)
        ELSE IF folds THEN Answer({Fold(v) : v \in base.v}, base.st)
        ELSE Dispatch(ready)

(* The union of the returns the arguments can reach, each resolved in the  *)
(* environment of a walk of its own.                                       *)
Called(fn, m, args, d, self, st) ==
    LET Capped(rets) == Len(rets) > KRet /\ (Len(rets) > KRetLift \/ ~FlowFree(rets, fn.body))
        Value(ret, bound, from) ==
            Then(FunctionScope(m, fn, <<>>, self, bound.env, from), LAMBDA fresh :
            Then(WalkTo(fn.body, fresh.sc, ret.lo, d, fresh.st), LAMBDA walked :
                IF ret.value = <<>> THEN Answer({NoneV}, walked.st)
                ELSE Resolve(ret.value[1], m, walked.sc, d + 1, walked.st)))
        Returned(bound, reached) ==
            IF Capped(reached.out) THEN Unknown("dynamic", reached.st)
            ELSE IF reached.out = <<>>
            THEN Answer({IF \E s \in ToSet(SubStmts(fn.body)) : s.s = "Return"
                         THEN Top("dynamic") ELSE NoneV}, reached.st)
            ELSE UnionOver(LAMBDA ret, from : Value(ret, bound, from), reached.out, reached.st)
    IN  Then(BindParams(fn, args, m, d, st), LAMBDA bound :
        Then(FunctionScope(m, fn, <<>>, self, bound.env, bound.st), LAMBDA entered :
            Returned(bound, Reachable(fn.body, entered.sc, d, entered.st))))

(* The returns reachable from the top of stmts; done when the list always  *)
(* returns.  A test that folds under the arguments selects one arm, but an *)
(* empty arm that was selected falls through to its sibling.               *)
Reachable(stmts, sc, d, st) ==
    LET Both(acc, blocks) ==
            FoldLeft(LAMBDA a, b : LET r == Reachable(b, sc, d, a.st)
                                   IN  [out |-> a.out \o r.out, all |-> a.all /\ r.done, st |-> r.st],
                     [out |-> acc.out, all |-> TRUE, st |-> acc.st], blocks)
        Into(acc, blocks, Ends(_)) ==
            LET r == Both(acc, blocks) IN [out |-> r.out, done |-> Ends(r), st |-> r.st]
        Branch(acc, s) ==
            LET test  == Resolve(s.test, sc[1].mod, sc, d + 1, acc.st)
                taken == IF The(test.v).b THEN s.body ELSE s.orelse
                after == [acc EXCEPT !.st = test.st]
            IN  IF ~IsSingle(test.v, "bool")
                THEN Into(after, <<s.body, s.orelse>>, LAMBDA r : r.all)
                ELSE IF The(test.v).b /\ s.body = <<>> /\ s.orelse # <<>>
                THEN Into(after, <<s.orelse>>, LAMBDA r : FALSE)
                ELSE Into(after, <<taken>>, LAMBDA r : r.all)
        TryBlocks(acc, s) ==
            LET tried == Both(acc, <<s.body>> \o s.handlers)
            IN  Into([out |-> tried.out, st |-> tried.st], <<s.final>>, LAMBDA r : r.all)
        Step(acc, s) ==
            IF acc.done THEN acc
            ELSE CASE s.s = "Return" -> [acc EXCEPT !.out = Append(@, s), !.done = TRUE]
                   [] s.s = "If"     -> Branch(acc, s)
                   [] s.s \in {"While", "For"} -> Into(acc, <<s.body>>, LAMBDA r : FALSE)
                   [] s.s = "With"   -> Into(acc, <<s.body>>, LAMBDA r : r.all)
                   [] s.s = "Try"    -> TryBlocks(acc, s)
                   [] OTHER          -> acc
    IN  FoldLeft(Step, [out |-> <<>>, done |-> FALSE, st |-> st], stmts)

(***************************************************************************)
(* Entry points                                                            *)
(***************************************************************************)
(* function_scope: the frames of the nested functions around target, each  *)
(* walked up to the next; built outside a query, hence without a deadline. *)
ScopeFor(m, funcs, target, self, bound, st) ==
    LET last == Len(funcs)
        Enter(acc, i) ==
            Then(FunctionScope(m, funcs[i], acc.sc, IF i = last THEN self ELSE {},
                               IF i = last THEN bound ELSE <<>>, acc.st), LAMBDA entered :
                WalkTo(funcs[i].body, entered.sc, IF i = last THEN target ELSE funcs[i + 1].at,
                       0, entered.st))
    IN  FoldLeft(Enter, [sc |-> <<>>, st |-> st], [i \in 1..last |-> i])

(* A query about an expression at a site: its scope is built before the    *)
(* clock of the query starts, with nothing left it is cut at once.         *)
Asked(site, bound, left, st) ==
    Then(ScopeFor(site.mod, site.funcs, site.target, {}, bound, st), LAMBDA entered :
    Then(Resolve(site.e, site.mod, entered.sc, 0, [entered.st EXCEPT !.left = left]), LAMBDA r :
        [v |-> r.v, sc |-> entered.sc, st |-> r.st]))

(* bind_call_args and params_env: what a call passes to the parameters of  *)
(* the function it calls.                                                  *)
Passed(call, sc, fn, m, st) ==
    Then(BindArgs(call.e, call.mod, sc, 0, st), LAMBDA b : BindParams(fn, b.args, m, 0, b.st))

(* canonicalize_fq: the longest prefix that names a module with such a     *)
(* member decides.                                                         *)
CanonicalFq(fq, st) ==
    LET Try(acc, k) ==
            LET m == SubSeq(fq, 1, k)
                Refs(r) == {v \in r.v : v.t \in {"class", "func"}}
            IN  IF acc.done \/ m \notin DOMAIN acc.st.mods THEN acc
                ELSE Then(Member(m, fq[k + 1], 0, 0, acc.st), LAMBDA r :
                    IF r.v = {} THEN [acc EXCEPT !.st = r.st]
                    ELSE [done |-> TRUE, st |-> r.st,
                          fq |-> IF Refs(r) = {} THEN fq
                                 ELSE The(Refs(r)).fq \o SubSeq(fq, k + 2, Len(fq))])
    IN  FoldLeft(Try, [done |-> FALSE, fq |-> fq, st |-> st],
                 Reverse([k \in 1..Len(fq) - 1 |-> k]))

(* resolve_default_call: a call without arguments of the named function,   *)
(* or the value of the module constant; {} when there is neither.          *)
DefaultOf(fq, st) ==
    LET m == Front(fq)
        Known(canon) == {f \in {canon.fq, fq} : f \in DOMAIN canon.st.defs}
        Entry(canon) == canon.st.defs[IF canon.fq \in Known(canon) THEN canon.fq ELSE fq]
    IN  Then(CanonicalFq(fq, st), LAMBDA canon :
            IF Known(canon) # {}
            THEN CallBody(Entry(canon).fn, Entry(canon).mod, NoArgs, 0, {}, canon.st)
            ELSE IF m \in DOMAIN st.mods /\ Last(fq) \in DOMAIN st.mods[m].assignments
            THEN Member(m, Last(fq), 0, 0, canon.st)
            ELSE Answer({}, canon.st))

(***************************************************************************)
(* Dispatch, memo and budgets                                              *)
(***************************************************************************)
AlwaysMemoizable(sc) == TRUE
ChainMemoizable(sc) == \A i \in DOMAIN sc : sc[i].memoizable
MemoKey(e, m) == <<m, e.at, e.n>>

Inner(e, m, sc, d, st) ==
    CASE e.n = "Const"     -> Answer({e.v}, st)
      [] e.n = "FStr"      -> FString(e.operands, m, sc, d, st)
      [] e.n = "Name"      -> Name(e.id, m, sc, d, st)
      [] IsDotted(e, "process", "env") -> Answer({PackageRef(EnvSentinel)}, st)
      [] e.n = "Attr" /\ ~IsDotted(e, "process", "env") ->
            LET base == Resolve(e.base, m, sc, d + 1, st)
            IN  AttrOver(base.v, e.attr, m, d, base.st)
      [] e.n = "Call"      -> Call(e, m, sc, d, st)
      [] e.n = "Subscript" -> Subscript(e, m, sc, d, st)
      [] e.n = "List"      ->
            LET r == MapOver(LAMBDA x, s : Resolve(x, m, sc, d + 1, s), e.operands, st)
            IN  Answer({ListVal(r.vs, FALSE)}, r.st)
      [] e.n = "Dict"      -> DictLiteral(e.entries, m, sc, d, st)
      [] e.n = "Concat"    -> Concat(e.operands, m, sc, d, st)
      [] e.n = "BoolOp"    -> BoolOp(e, m, sc, d, st)
      [] e.n = "Not"       ->
            LET r == Resolve(e.operands[1], m, sc, d + 1, st)
            IN  IF IsSingle(r.v, "bool") THEN Answer({Bool(~The(r.v).b)}, r.st)
                ELSE Unknown("dynamic", r.st)
      [] e.n = "Compare"   -> Compare(e, m, sc, d, st)
      [] e.n = "Opaque"    -> Unknown("opaque", st)
      [] OTHER             -> Unknown("dynamic", st)

Resolved(e, m, sc, d, st) ==
    LET keyed  == ChainMemoizable(sc)
        key    == MemoKey(e, m)
        ticked == [st EXCEPT !.left = @ - 1]
    IN  IF st.raised THEN Answer({}, st)
        ELSE IF st.frames = StackLimit THEN Answer({}, [st EXCEPT !.raised = TRUE])
        ELSE IF d > MaxDepth THEN Cut("depth", st)
        ELSE IF st.left = 0 THEN Cut("timeout", st)
        ELSE IF keyed /\ key \in DOMAIN st.memo THEN Answer(st.memo[key], ticked)
        ELSE Then(Inner(e, m, sc, d, [ticked EXCEPT !.frames = @ + 1]), LAMBDA r :
                Answer(r.v, [r.st EXCEPT !.frames = @ - 1,
                                         !.memo = IF keyed /\ ~r.st.raised THEN Bind(@, key, r.v) ELSE @]))

Evaluate(q) ==
    CASE q.what = "expression" -> Resolved(q.e, q.m, q.sc, q.d, q.st)
      [] q.what = "statements" -> Walked(q.stmts, q.sc, q.target, q.d, q.st)
      [] q.what = "attribute"  -> AttrOf(q.v, q.attr, q.m, q.d, q.st)
      [] q.what = "call"       -> Called(q.fn, q.m, q.args, q.d, q.self, q.st)
      [] q.what = "frame"      -> Frame(q.m, q.fn, q.parent, q.self, q.bound, q.st)
      [] q.what = "site"       -> Asked(q.site, q.bound, q.left, q.st)
      [] q.what = "passed"     -> Passed(q.call, q.sc, q.fn, q.m, q.st)
      [] q.what = "default"    -> DefaultOf(q.fq, q.st)

SiteQuery(site, bound, left, st) ==
    Evaluate([what |-> "site", site |-> site, bound |-> bound, left |-> left, st |-> st])
PassedBy(call, sc, fn, m, st) ==
    Evaluate([what |-> "passed", call |-> call, sc |-> sc, fn |-> fn, m |-> m, st |-> st])
DefaultCall(fq, st) == Evaluate([what |-> "default", fq |-> fq, st |-> st])
=============================================================================
