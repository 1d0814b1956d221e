------------------------------ MODULE Resolver ------------------------------
(***************************************************************************)
(* One resolver per scan, and the queries the sinks and frontends put to   *)
(* it: aiscan/resolve/engine.py, resolve and resolve_default_call.         *)
(*                                                                         *)
(* A scan asks about many sites in an order that depends on which modules  *)
(* it analyses; every query leaves entries in the memo and, perhaps,       *)
(* definitions that a walk has passed.  A query may run out of its own     *)
(* time at any step, or come after the time of the whole scan is spent.    *)
(*                                                                         *)
(* A program is [mods, sites, defaults, runs]: its modules, the places     *)
(* asked about, the defaults the rule packs name, and what concrete runs   *)
(* compute at a site (<<site, value>>).                                    *)
(***************************************************************************)
EXTENDS ResolverEval

CONSTANTS
    Programs,       \* the programs scanned
    Deadlines,      \* steps that a query may take before its time is over
    Unlimited,      \* more steps than any query takes
    MaxQueries      \* bound: queries of one scan

ASSUME DeadlineAssumption == Deadlines \subseteq Nat /\ Unlimited \in Nat
ASSUME QueryAssumption == MaxQueries \in Nat

VARIABLES
    program,
    res,            \* the Resolver object
    spent,          \* _spent_s has reached scan_budget_s
    answers         \* <<site, value set, whether a budget cut anything yet>>

vars == <<program, res, spent, answers>>

(* The same resolver with budgets only imports in a circle exhaust.        *)
Exact == INSTANCE ResolverEval WITH MaxDepth <- Unlimited, MaxHops <- MaxHops + MaxHops

Fresh(p) == NewResolver(p.mods)

Init ==
    /\ program \in Programs
    /\ res = Fresh(program)
    /\ spent = FALSE
    /\ answers = {}

InTime(st) == [st EXCEPT !.left = Unlimited]

Settle(st) == [st EXCEPT !.left = 0, !.frames = 0]

Record(what, r) ==
    /\ res' = Settle(r.st)
    /\ answers' = IF r.st.raised THEN answers
                  ELSE answers \cup {[site |-> what, v |-> r.v, cut |-> r.st.cut]}

MayAsk == ~res.raised /\ Cardinality(answers) < MaxQueries

Ask ==
    /\ MayAsk
    /\ \E i \in DOMAIN program.sites, k \in Deadlines \cup {Unlimited} :
          Record(<<"site", i>>, SiteQuery(program.sites[i], <<>>, IF spent THEN 0 ELSE k, InTime(res)))
    /\ UNCHANGED <<program, spent>>

(* The default of a rule pack is resolved outside any query.               *)
AskDefault ==
    /\ MayAsk
    /\ \E i \in DOMAIN program.defaults :
          Record(<<"default", i>>, DefaultCall(program.defaults[i], InTime(res)))
    /\ UNCHANGED <<program, spent>>

SpendBudget ==
    /\ ~spent /\ answers # {} /\ MayAsk
    /\ spent' = TRUE
    /\ UNCHANGED <<program, res, answers>>

(* The parameters that calls of the function around a site bind, united    *)
(* over the calls that resolve to it.  (The code stops after five calls;   *)
(* the programs have fewer.)                                               *)
NamesFunction(call, fn) ==
    /\ call.e.n = "Call"
    /\ \/ call.e.callee.n = "Name" /\ call.e.callee.id = fn.name
       \/ call.e.callee.n = "Attr" /\ call.e.callee.attr = fn.name

CallerEnv(site, st) ==
    LET fn == site.funcs[1]
        Bound(acc, call, callee) ==
            IF FuncRef(Append(site.mod, fn.name)) \notin callee.v THEN [acc EXCEPT !.st = callee.st]
            ELSE Then(PassedBy(call, callee.sc, fn, site.mod, callee.st), LAMBDA bound :
                    [env |-> UnionEnv(acc.env, bound.env), st |-> bound.st])
        Caller(acc, call) ==
            IF ~NamesFunction(call, fn) THEN acc
            ELSE Then(SiteQuery([call EXCEPT !.e = @.callee], <<>>, Unlimited, InTime(acc.st)), LAMBDA callee :
                    Bound(acc, call, [callee EXCEPT !.st = InTime(@)]))
    IN  FoldLeft(Caller, [env |-> <<>>, st |-> st], program.sites)

Decided(vs) == \A v \in vs : v.t # "top"

(* A site in a function that was left unresolved is asked about again      *)
(* under what the callers pass.                                            *)
AskRebound ==
    /\ MayAsk /\ ~spent
    /\ \E i \in DOMAIN program.sites :
          /\ Len(program.sites[i].funcs) = 1
          /\ \E a \in answers : a.site = <<"site", i>> /\ ~Decided(a.v)
          /\ \E callers \in {CallerEnv(program.sites[i], res)} :
                /\ callers.env # <<>>
                /\ Record(<<"rebound", i>>,
                          SiteQuery(program.sites[i], callers.env, Unlimited, InTime(callers.st)))
    /\ UNCHANGED <<program, spent>>

Next == Ask \/ AskDefault \/ AskRebound \/ SpendBudget

Spec == Init /\ [][Next]_vars

-----------------------------------------------------------------------------
(* What an answer promises.  A top stands for every value, a template with *)
(* holes for every string, and an open list or dictionary for what was     *)
(* added to it.                                                            *)
RECURSIVE Admits(_, _)
AdmitsAll(ws, vs) == \A v \in vs : \E w \in ws : Admits(w, v)
Admits(w, v) ==
    \/ w = v
    \/ w.t = "top"
    \/ w.t = "template" /\ v.t \in {"str", "symbolic", "template"}
    \/ /\ w.t = "list" /\ v.t = "list"
       /\ Len(w.elems) <= Len(v.elems)
       /\ w.open \/ (Len(w.elems) = Len(v.elems) /\ ~v.open)
       /\ \A i \in DOMAIN w.elems : AdmitsAll(w.elems[i], v.elems[i])
    \/ /\ w.t = "dict" /\ v.t = "dict" /\ (w.open \/ ~v.open)
       /\ \A y \in ToSet(v.entries) : w.open \/ Gets(w, y.k)
       /\ \A x \in ToSet(w.entries) : Gets(v, x.k) /\ AdmitsAll(x.v, Got(v, x.k))
    \/ /\ w.t = "instance" /\ v.t = "instance" /\ w.cls = v.cls
       /\ DOMAIN w.args.pos = DOMAIN v.args.pos
       /\ \A i \in DOMAIN w.args.pos : AdmitsAll(w.args.pos[i], v.args.pos[i])

(* What a resolver that was asked nothing else, and has time, answers.     *)
ExactAnswer(what) ==
    IF what[1] = "default" THEN Exact!DefaultCall(program.defaults[what[2]], InTime(Fresh(program)))
    ELSE Exact!SiteQuery(program.sites[what[2]], <<>>, Unlimited, InTime(Fresh(program)))

Direct == {a \in answers : a.site[1] # "rebound"}

(* Every answer is a non-empty set, and no query leaves frames behind.     *)
TypeOK ==
    /\ \A a \in answers : a.v # {} \/ a.site[1] = "default"
    /\ \A key \in DOMAIN res.memo : res.memo[key] # {}
    /\ spent \in BOOLEAN
    /\ res.frames = 0 /\ res.left = 0

(* A budget may make an answer vaguer, never different: whatever was cut   *)
(* in this query or in an earlier one, whose truncated values the memo     *)
(* serves on, the answer admits all the exact one contains.                *)
AnswersCoverExact ==
    \A a \in Direct : \A exact \in {ExactAnswer(a.site)} :
        ~exact.st.raised /\ Decided(exact.v) => AdmitsAll(a.v, exact.v)

(* The memo is transparent: as long as no budget has cut anything, every   *)
(* answer is what a resolver that was asked nothing before gives, in       *)
(* whichever order the queries come.                                       *)
UncutAnswersAreExact ==
    \A a \in Direct : \A exact \in {ExactAnswer(a.site)} :
        ~a.cut /\ ~exact.st.raised => a.v = exact.v

(* What the program computes when it runs is among the values answered.    *)
AnswersCoverRuns ==
    \A a \in answers : \A r \in program.runs : r.site = a.site => AdmitsAll(a.v, {r.v})
=============================================================================
