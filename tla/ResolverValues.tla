--------------------------- MODULE ResolverValues ---------------------------
(***************************************************************************)
(* What the symbolic resolver computes with: the abstract values of        *)
(* aiscan/ir/values.py, the walks over the IR of aiscan/ir/walk.py, and    *)
(* the helpers at the end of aiscan/resolve/engine.py.                     *)
(*                                                                         *)
(* A dotted name is the sequence of its parts.  A string is the sequence   *)
(* of its atoms, so that concatenation is \o; a template has holes among   *)
(* its parts.  An IR node carries `at`, which stands for its span: two     *)
(* nodes of one module have the same `at` only if they have the same span. *)
(* A statement covers the positions lo..hi.                                *)
(***************************************************************************)
EXTENDS Naturals, Sequences, FiniteSets, SequencesExt

Str(s)         == [t |-> "str", s |-> s]
Num(n)         == [t |-> "num", n |-> n]
Bool(b)        == [t |-> "bool", b |-> b]
NoneV          == [t |-> "none"]
Template(p)    == [t |-> "template", parts |-> p]
Symbolic(k, x) == [t |-> "symbolic", kind |-> k, key |-> x]
Instance(c, a) == [t |-> "instance", cls |-> c, args |-> a]
FuncRef(fq)    == [t |-> "func", fq |-> fq]
ClassRef(fq)   == [t |-> "class", fq |-> fq]
ModuleRef(m)   == [t |-> "module", name |-> m]
PackageRef(p)  == [t |-> "package", name |-> p]
ListVal(e, o)  == [t |-> "list", elems |-> e, open |-> o]
DictVal(e, o)  == [t |-> "dict", entries |-> e, open |-> o]
Top(r)         == [t |-> "top", reason |-> r]

NoArgs == [pos |-> <<>>, named |-> <<>>]

TopReasons == {"depth", "unbound", "dynamic", "timeout", "star_import", "opaque"}

(* The value of a one-element set; _as_single tests the kind first.        *)
The(vs) == CHOOSE v \in vs : TRUE
IsSingle(vs, kind) == Cardinality(vs) = 1 /\ The(vs).t = kind
IsLiteral(vs) == \E k \in {"str", "num", "bool", "none"} : IsSingle(vs, k)

Truthy(v) == \/ v.t = "str"  /\ v.s # <<>>
             \/ v.t = "num"  /\ v.n # 0
             \/ v.t = "bool" /\ v.b

(* dict.get, and the entry that replaces an older one of its key.          *)
Gets(dict, key) == \E i \in DOMAIN dict.entries : dict.entries[i].k = key
Got(dict, key)  == LET i == CHOOSE i \in DOMAIN dict.entries : dict.entries[i].k = key
                   IN  dict.entries[i].v
PutEntry(entries, key, vs) ==
    Append(SelectSeq(entries, LAMBDA x : x.k # key), [k |-> key, v |-> vs])

(* BoundArgs.get: by name, else by position; {} when the call has neither. *)
Argument(args, name, position) ==
    LET hits == {i \in DOMAIN args.named : args.named[i].k = name}
    IN  IF hits # {} THEN args.named[CHOOSE i \in hits : \A j \in hits : i <= j].v
        ELSE IF position \in DOMAIN args.pos THEN args.pos[position] ELSE {}

(***************************************************************************)
(* Strings and templates.  A part is a literal atom or a hole.             *)
(***************************************************************************)
Atom(a) == [lit |-> a]
Hole(h) == [hole |-> h]
IsHole(p) == DOMAIN p = {"hole"}

TemplateOrStr(parts) ==
    IF \E i \in DOMAIN parts : IsHole(parts[i]) THEN Template(parts)
    ELSE Str([i \in DOMAIN parts |-> parts[i].lit])

(* What one operand adds to a string: its text, or a hole that names the   *)
(* symbol it stands for; concatenation takes a template apart as well.     *)
TextOrHole(vs) ==
    IF IsSingle(vs, "str") THEN [i \in DOMAIN The(vs).s |-> Atom(The(vs).s[i])]
    ELSE IF IsSingle(vs, "symbolic") THEN <<Hole(The(vs).key)>>
    ELSE <<Hole(<<>>)>>
PartsOf(vs) == IF IsSingle(vs, "template") THEN The(vs).parts ELSE TextOrHole(vs)

(***************************************************************************)
(* Walks over the IR                                                       *)
(***************************************************************************)
Children(e) ==
    CASE e.n = "Attr"      -> <<e.base>>
      [] e.n = "Call"      -> <<e.callee>> \o e.args \o [i \in DOMAIN e.kwargs |-> e.kwargs[i].value]
      [] e.n = "Subscript" -> <<e.base, e.index>>
      [] e.n = "Dict"      -> FlattenSeq([i \in DOMAIN e.entries |-> e.entries[i].key])
                              \o [i \in DOMAIN e.entries |-> e.entries[i].value]
      [] e.n \in {"List", "FStr", "Concat", "BoolOp", "Not", "Compare"} -> e.operands
      [] OTHER -> <<>>

RECURSIVE SubExprs(_), SubStmts(_)
SubExprs(e) == <<e>> \o FlattenSeq([i \in DOMAIN Children(e) |-> SubExprs(Children(e)[i])])

Blocks(s) ==
    CASE s.s = "If" -> <<s.body, s.orelse>>
      [] s.s \in {"While", "For", "With"} -> <<s.body>>
      [] s.s = "Try" -> <<s.body>> \o s.handlers \o <<s.final>>
      [] OTHER -> <<>>
SubStmts(stmts) ==
    FlattenSeq([i \in DOMAIN stmts |-> <<stmts[i]>> \o SubStmts(FlattenSeq(Blocks(stmts[i])))])

ExprsOf(s) ==
    CASE s.s = "Assign" -> Append(s.targets, s.value)
      [] s.s = "Aug" -> <<s.target, s.value>>
      [] s.s \in {"Expr", "Return"} -> s.value
      [] s.s \in {"If", "While"} -> <<s.test>>
      [] s.s = "For" -> <<s.target, s.iter>>
      [] s.s = "With" -> <<s.context>>
      [] OTHER -> <<>>
AllOf(Of(_), seq) == FlattenSeq([i \in DOMAIN seq |-> Of(seq[i])])
CallsIn(body) ==
    SelectSeq(AllOf(SubExprs, AllOf(ExprsOf, SubStmts(body))), LAMBDA e : e.n = "Call")

Names(e) == {x.id : x \in {y \in ToSet(SubExprs(e)) : y.n = "Name"}}
TargetNames(t) ==
    CASE t.n = "Name" -> {t.id}
      [] t.n = "List" -> {x.id : x \in {y \in ToSet(t.operands) : y.n = "Name"}}
      [] t.n \in {"Subscript", "Attr"} /\ t.base.n = "Name" -> {t.base.id}
      [] OTHER -> {}
AssignedNames(body) ==
    UNION {CASE s.s = "Assign" -> UNION {TargetNames(t) : t \in ToSet(s.targets)}
             [] s.s \in {"Aug", "For"} -> TargetNames(s.target)
             [] s.s = "With" -> TargetNames(s.asname)
             [] OTHER -> {} : s \in ToSet(SubStmts(body))}

(* The cap on returns is lifted when no return reads a name the body       *)
(* assigns.                                                                *)
FlowFree(returns, body) ==
    \A r \in ToSet(returns) : \A e \in ToSet(r.value) : Names(e) \cap AssignedNames(body) = {}

(***************************************************************************)
(* Environments                                                            *)
(***************************************************************************)
Bind(env, n, vs) == (n :> vs) @@ env
LaterEnv(a, b) == b @@ a
UnionEnv(a, b) ==
    [n \in DOMAIN a \cup DOMAIN b |->
        (IF n \in DOMAIN a THEN a[n] ELSE {}) \cup (IF n \in DOMAIN b THEN b[n] ELSE {})]

Covers(s, at) == s.lo <= at /\ at <= s.hi
=============================================================================
