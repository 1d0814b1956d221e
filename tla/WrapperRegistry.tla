--------------------------- MODULE WrapperRegistry ---------------------------
(***************************************************************************)
(* In-house wrappers around a model and the registry that remembers them   *)
(* (aiscan/frontends/bespoke/wrappers.py, driven by aiscan/core.py).       *)
(*                                                                         *)
(* A scan collects the calls that reach a model ("sinks"), rates the       *)
(* definitions around them, turns the call sites of a definition that is   *)
(* rated a wrapper into sinks of their own, and goes on until the work     *)
(* list is empty.  A full scan of any repository replaces the registry all *)
(* repositories share; an incremental scan looks at the affected modules   *)
(* only and relies on the registry for wrappers defined elsewhere.         *)
(*                                                                         *)
(* A module holds one top-level definition, or none (a script), and is     *)
(* named by a number: names are compared where the code sorts them.  Its   *)
(* code is the sequence of its call sites.                                 *)
(***************************************************************************)
EXTENDS Integers, Sequences, FiniteSets

CONSTANTS
    Repos,
    Modules,        \* all dotted names, in repositories and outside
    Programs,       \* Programs[r]: what repository r may contain
    OrgPack,        \* OrgPack[m]: the entry of the org pack for m, or None
    Models,         \* the models a call can name
    LLM,            \* the callee of a raw call to a model
    Param,          \* a call that takes its model from a parameter
    Unset,          \* a call that names no model
    Unresolved,     \* a model that could not be resolved
    None,           \* no code, no entry
    MaxEdits        \* bound on the number of edits

ASSUME NamesAssumption == Modules \subseteq Nat /\ IsFiniteSet(Modules)
ASSUME CallsAssumption == LLM \notin Modules /\ Unset \notin Models \cup Modules \cup {Param}
ASSUME BoundAssumption == MaxEdits \in Nat

Methods == {1, 2}
Threshold == 3

Sites ==
    [method : Methods,                            \* the method the call is in
     callee : Modules \cup {LLM}, calls : Methods, \* what it calls
     model : Models \cup {Param, Unset},
     returned : BOOLEAN, loop : BOOLEAN, test : BOOLEAN]

Codes ==
    [def : BOOLEAN, kind : {"function", "class"}, signals : 0..2, ctor : BOOLEAN,
     body : Seq(Sites)]

ModelValues == Models \cup {Unresolved} \cup Modules

Infos ==
    [kind : {"function", "class"}, attribution : {"passthrough", "fixed", "default"},
     model : ModelValues \cup {Unset}, methods : SUBSET Methods, ctor : BOOLEAN,
     hash : Codes \cup {None}, source : {"derived", "org_pack", "registry"}]

ASSUME NoneAssumption == None \notin Codes /\ None \notin Infos

Trees == [Modules -> Codes \cup {None}]

Sinks ==
    [site : Modules \X (1..2), kind : {"raw", "wrapper"}, model : ModelValues]

Entries == [Modules -> Infos \cup {None}]

ASSUME ProgramsAssumption ==
    \A r \in Repos : Programs[r] \subseteq Trees
ASSUME OrgPackAssumption ==
    \A m \in Modules : OrgPack[m] \in {info \in Infos : info.source = "org_pack"} \cup {None}

VARIABLES
    code,      \* code[r][m]: the source of module m at HEAD of repository r
    registry,  \* org_registry.json: an entry, or None, for each name
    cache,     \* cache[r]: the code and the facts of the last finished scan
    run,       \* the scan in progress
    edits      \* the number of edits so far

vars == <<code, registry, cache, run, edits>>

-----------------------------------------------------------------------------
(* Sinks and ratings: c is the code of a repository, M a set of its modules *)

Present(c) == {m \in Modules : c[m] # None}

SitesIn(c, M) == {s \in M \X (1..2) : c[s[1]] # None /\ s[2] \in DOMAIN c[s[1]].body}

At(c, s) == c[s[1]].body[s[2]]

Literal(site) == IF site.model \in Models THEN site.model ELSE Unresolved

RawSinks(c, M) ==
    {[site |-> s, kind |-> "raw", model |-> Literal(At(c, s))] :
        s \in {s \in SitesIn(c, M) : At(c, s).callee = LLM}}

\* The sinks in the body of definition d.
SinksOf(c, sinks, d) ==
    IF c[d] # None /\ c[d].def THEN {k \in sinks : k.site[1] = d} ELSE {}

First(sinks) == CHOOSE k \in sinks : \A j \in sinks : k.site[2] <= j.site[2]

\* A sink in a loop that branches on the response, or recursion: the agent
\* pipeline owns the definition.
AgentShaped(c, d, sinks) ==
    \/ \E k \in sinks : At(c, k.site).loop
                        /\ At(c, k.site).method = At(c, First(sinks).site).method
    \/ c[d].kind = "function" /\ \E s \in SitesIn(c, {d}) : At(c, s).callee = d

Score(c, d, site) ==
    2 + c[d].signals + (IF site.returned THEN 1 ELSE 0) - (IF site.test THEN 2 ELSE 0)

Rated(c, d, sinks) ==
    /\ sinks # {}
    /\ ~AgentShaped(c, d, sinks)
    /\ Score(c, d, At(c, First(sinks).site)) >= Threshold

Attribution(site) ==
    IF site.model = Param THEN "passthrough"
    ELSE IF site.model \in Models THEN "fixed" ELSE "default"

\* A second-order wrapper inherits the model of the wrapper it calls.
InnerModel(site, sink) ==
    IF site.model \in Models THEN site.model
    ELSE IF site.model = Unset /\ sink.kind = "wrapper" THEN sink.model ELSE Unset

Derive(c, d, sinks) ==
    LET sink == First(sinks)
        site == At(c, sink.site)
    IN  [kind |-> c[d].kind, attribution |-> Attribution(site), model |-> InnerModel(site, sink),
         methods |-> {site.method}, ctor |-> c[d].kind = "class" /\ c[d].ctor,
         hash |-> c[d], source |-> "derived"]

\* A call that goes to the wrapper d and is not part of its own body.
CallsWrapper(c, s, d, info) ==
    LET site == At(c, s)
    IN  /\ site.callee = d
        /\ info.methods = {} \/ site.calls \in info.methods
        /\ ~(s[1] = d /\ c[d].def /\ (info.kind = "function" \/ site.method \in info.methods))

ModelAtCall(d, info, site) ==
    IF info.attribution = "passthrough" THEN Literal(site)
    ELSE IF info.ctor /\ site.model \in Models THEN site.model
    ELSE IF info.model # Unset THEN info.model ELSE d

WrapperSinks(c, M, d, info) ==
    {[site |-> s, kind |-> "wrapper", model |-> ModelAtCall(d, info, At(c, s))] :
        s \in {s \in SitesIn(c, M) : CallsWrapper(c, s, d, info)}}

\* The sinks inside wrappers that are used: implementation, not usage.
Hidden(c, sinks, classified, used) ==
    {k.site : k \in UNION {{k \in SinksOf(c, sinks, d) :
                               classified[d].kind = "class" /\ classified[d].methods # {} =>
                                   At(c, k.site).method \in classified[d].methods} : d \in used}}

Usages(c, sinks, classified, used) ==
    {[kind |-> "usage", mod |-> k.site[1], site |-> k.site[2], model |-> k.model] :
        k \in {k \in sinks : k.site \notin Hidden(c, sinks, classified, used)}}

Dormant(c, sinks, classified, used) ==
    {[kind |-> "dormant", mod |-> d] :
        d \in {d \in Modules \ used : /\ classified[d] # None
                                      /\ classified[d].source = "derived"
                                      /\ classified[d].kind = "class"
                                      /\ SinksOf(c, sinks, d) # {}}}

Report(c, sinks, classified, used) ==
    Usages(c, sinks, classified, used) \cup Dormant(c, sinks, classified, used)

-----------------------------------------------------------------------------
(* The registry and the modules a scan looks at *)

\* Every entry of the registry is taken.
AnyHashCurrent(c, d, info) == TRUE

\* An entry for a definition of this repository must be of the same content.
HashCurrent(c, d, info) == c[d] # None /\ c[d].def => info.hash = c[d]

\* A source that no reader of the registry knows.
LoadedAsCached(info) == [info EXCEPT !.source = "cached"]

Loaded(info) == [info EXCEPT !.source = "registry"]

Seeds(c, entries) ==
    [d \in Modules |->
        IF OrgPack[d] # None THEN OrgPack[d]
        ELSE IF entries[d] # None /\ HashCurrent(c, d, entries[d]) THEN Loaded(entries[d])
        ELSE None]

Callees(c, m) == {At(c, s).callee : s \in SitesIn(c, {m})} \ {LLM}

\* The changed modules without those that depend on them.
OnlyChanged(c, changed) == changed \cap Present(c)

\* The changed modules and all that reach them through calls, and so imports.
Affected(c, changed) ==
    LET Within[n \in Nat] ==
            IF n = 0 THEN changed
            ELSE Within[n - 1] \cup {m \in Modules : Callees(c, m) \cap Within[n - 1] # {}}
    IN  Within[Cardinality(Modules)] \cap Present(c)

Changed(old, new) == {m \in Modules : old[m] # new[m]}

CanIncremental(r) ==
    /\ cache[r] # None
    /\ \A m \in Changed(cache[r].code, code[r]) : code[r][m] # None

-----------------------------------------------------------------------------
Idle == [pc |-> "idle"]

NoEntries == [d \in Modules |-> None]

Init ==
    /\ code \in [Repos -> UNION {Programs[r] : r \in Repos}]
    /\ \A r \in Repos : code[r] \in Programs[r]
    /\ registry = NoEntries
    /\ cache = [r \in Repos |-> None]
    /\ run = Idle
    /\ edits = 0

\* A commit to repository r.
Edit(r, new) ==
    /\ run = Idle
    /\ edits < MaxEdits
    /\ code[r] # new
    /\ code' = [code EXCEPT ![r] = new]
    /\ edits' = edits + 1
    /\ UNCHANGED <<registry, cache, run>>

\* The sinks of the modules looked at, and the definitions the registry knows.
StartScan(r, mode) ==
    /\ run = Idle
    /\ mode = "incremental" => CanIncremental(r)
    /\ LET c == code[r]
           only == IF mode = "full" THEN Present(c)
                   ELSE Affected(c, Changed(cache[r].code, c))
           sinks == RawSinks(c, only)
           seeds == Seeds(c, registry)
       IN  run' = [pc |-> "expand", repo |-> r, mode |-> mode, only |-> only,
                   known |-> registry, sinks |-> sinks, classified |-> seeds,
                   pending |-> {d \in Modules : SinksOf(c, sinks, d) # {} \/ seeds[d] # None},
                   expanded |-> {}, used |-> {}]
    /\ UNCHANGED <<code, registry, cache, edits>>

\* The names are gone through once, in order.
EnqueuedAhead(c, new, d, done) == {m \in Modules \ done : m > d /\ SinksOf(c, new, m) # {}}

\* A definition is taken again whenever it gets another sink.
EnqueuedAgain(c, new, d, done) == {m \in Modules : SinksOf(c, new, m) # {}}

\* The definitions that got a sink and were not taken yet.
Enqueued(c, new, d, done) == {m \in Modules \ done : SinksOf(c, new, m) # {}}

\* One round of the work list: the definition with the smallest name.  (A name
\* that is in the list twice is skipped the second time; here it is there once.)
Expand ==
    /\ run.pc = "expand"
    /\ \E d \in run.pending :
        /\ \A m \in run.pending : d <= m
        /\ LET c == code[run.repo]
               mine == SinksOf(c, run.sinks, d)
               info == IF run.classified[d] # None THEN run.classified[d]
                       ELSE IF Rated(c, d, mine) THEN Derive(c, d, mine) ELSE None
               new == IF info = None THEN {} ELSE WrapperSinks(c, run.only, d, info)
               done == run.expanded \cup {d}
           IN  run' = [run EXCEPT
                          !.classified = [@ EXCEPT ![d] = info],
                          !.expanded = done,
                          !.sinks = @ \cup new,
                          !.used = IF new # {} THEN @ \cup {d} ELSE @,
                          !.pending = (@ \ {d}) \cup Enqueued(c, new, d, done)]
    /\ UNCHANGED <<code, registry, cache, edits>>

\* The wrappers worth remembering: those this repository calls.
Persisted ==
    [d \in Modules |->
        IF d \in run.used /\ run.classified[d].source # "org_pack"
        THEN run.classified[d] ELSE None]

Save ==
    /\ run.pc = "expand"
    /\ run.pending = {}
    /\ registry' = IF run.mode = "full" /\ Persisted # NoEntries THEN Persisted ELSE registry
    /\ run' = [run EXCEPT !.pc = "saved"]
    /\ UNCHANGED <<code, cache, edits>>

Fresh == Report(code[run.repo], run.sinks, run.classified, run.used)

Carried ==
    IF run.mode = "full" THEN {}
    ELSE {f \in cache[run.repo].facts : f.mod \notin run.only /\ code[run.repo][f.mod] # None}

Facts == Fresh \cup Carried

Finish ==
    /\ run.pc = "saved"
    /\ cache' = [cache EXCEPT ![run.repo] = [code |-> code[run.repo], facts |-> Facts]]
    /\ run' = Idle
    /\ UNCHANGED <<code, registry, edits>>

\* A scan dies; a registry that was cut off while it was written reads as empty.
Crash ==
    /\ run # Idle
    /\ \/ UNCHANGED registry
       \/ /\ run.pc = "expand" /\ run.pending = {} /\ run.mode = "full" /\ Persisted # NoEntries
          /\ registry' = NoEntries
    /\ run' = Idle
    /\ UNCHANGED <<code, cache, edits>>

Next ==
    \/ \E r \in Repos : \E new \in Programs[r] : Edit(r, new)
    \/ \E r \in Repos, mode \in {"full", "incremental"} : StartScan(r, mode)
    \/ Expand
    \/ Save
    \/ Finish
    \/ Crash

Spec == Init /\ [][Next]_vars

-----------------------------------------------------------------------------
(* What a scan should find: the least fixed point, all definitions at once *)

\* Here the classified definitions are a set of pairs, <<name, entry>>.
AllSinks(c, pairs) ==
    RawSinks(c, Modules) \cup UNION {WrapperSinks(c, Modules, p[1], p[2]) : p \in pairs}

\* The wrappers a repository would know if the registry held no definition of it.
External(c, entries) ==
    [d \in Modules |-> IF c[d] # None /\ c[d].def THEN None ELSE entries[d]]

FirstPairs(c, entries) ==
    LET seeds == Seeds(c, External(c, entries))
    IN  {<<d, seeds[d]>> : d \in {d \in Modules : seeds[d] # None}}

\* All definitions that are not classified yet are rated at once.
NextPairs(c, pairs) ==
    LET sinks == AllSinks(c, pairs)
    IN  pairs \cup {<<d, Derive(c, d, SinksOf(c, sinks, d))>> :
                       d \in {d \in Modules : /\ \A p \in pairs : p[1] # d
                                             /\ Rated(c, d, SinksOf(c, sinks, d))}}

LeastPairs(c, entries) ==
    LET Pairs[n \in Nat] ==
            IF n = 0 THEN FirstPairs(c, entries) ELSE NextPairs(c, Pairs[n - 1])
    IN  Pairs[Cardinality(Modules)]

Least(c, entries) ==
    LET pairs == LeastPairs(c, entries)
    IN  [d \in Modules |-> IF \E p \in pairs : p[1] = d
                           THEN (CHOOSE p \in pairs : p[1] = d)[2] ELSE None]

UsedBy(c, classified) ==
    {d \in Modules : classified[d] # None /\ WrapperSinks(c, Modules, d, classified[d]) # {}}

Reference(c, entries) ==
    LET classified == Least(c, entries)
        sinks == AllSinks(c, LeastPairs(c, entries))
    IN  Usages(c, sinks, classified, UsedBy(c, classified))

\* A definition whose rating does not depend on which of its calls are known to
\* be sinks when its turn comes.
PossibleSinks(c, d) ==
    {[site |-> s, kind |-> IF At(c, s).callee = LLM THEN "raw" ELSE "wrapper",
      model |-> IF At(c, s).callee = LLM THEN Literal(At(c, s)) ELSE At(c, s).callee] :
        s \in SitesIn(c, {d})}

Steady(c, d) ==
    \A S \in SUBSET PossibleSinks(c, d), T \in SUBSET PossibleSinks(c, d) :
        S # {} /\ T # {} =>
            /\ Rated(c, d, S) <=> Rated(c, d, T)
            /\ Derive(c, d, S) = Derive(c, d, T)

AllSteady(c) == \A d \in Modules : c[d] # None /\ c[d].def => Steady(c, d)

\* What the registry says of a wrapper that calls other wrappers is what would
\* be derived now.  (Its hash covers its own module only.)
SecondOrderEntriesRight(c, entries) ==
    \A d \in Modules :
        /\ c[d] # None /\ c[d].def /\ Callees(c, d) # {}
        /\ entries[d] # None /\ entries[d].hash = c[d]
        => Least(c, entries)[d] # None /\ Loaded(entries[d]) = Loaded(Least(c, entries)[d])

OnlyUsages(facts) == {f \in facts : f.kind = "usage"}

-----------------------------------------------------------------------------
(* Properties *)

Runs ==
    [pc : {"expand", "saved"}, repo : Repos, mode : {"full", "incremental"},
     only : SUBSET Modules, known : Entries, sinks : SUBSET Sinks, classified : Entries,
     pending : SUBSET Modules, expanded : SUBSET Modules, used : SUBSET Modules]

TypeOK ==
    /\ code \in [Repos -> Trees]
    /\ registry \in Entries
    /\ DOMAIN cache = Repos
    /\ \A r \in Repos : cache[r] # None => cache[r].code \in Trees
    /\ run \in Runs \cup {Idle}
    /\ edits \in 0..MaxEdits

\* When the work list is empty nothing is left to do: every call of a definition
\* that was classified, seen after or before the classification, in whatever
\* order the definitions came, is a sink, its wrapper counts as used, and every
\* definition around a sink was rated.
FixedPointClosed ==
    run # Idle /\ run.pending = {} =>
        LET c == code[run.repo]
        IN  /\ \A d \in Modules : run.classified[d] # None =>
                  /\ WrapperSinks(c, run.only, d, run.classified[d]) \subseteq run.sinks
                  /\ d \in run.used <=> WrapperSinks(c, run.only, d, run.classified[d]) # {}
            /\ \A d \in Modules : SinksOf(c, run.sinks, d) # {} => d \in run.expanded

\* A full scan finds the least fixed point, although it takes the definitions one
\* by one in the order of their names and starts from whatever full scans of
\* this and other repositories left in the registry.  For a definition that calls
\* the model itself the hash is enough to trust an entry; entries of wrappers of
\* wrappers have to be right.
FullScanIsFresh ==
    run.pc = "saved" =>
        LET c == code[run.repo]
        IN  run.mode = "full" /\ AllSteady(c) /\ SecondOrderEntriesRight(c, run.known) =>
                OnlyUsages(Facts) = Reference(c, run.known)

\* An incremental scan finds it as well if the scan before it did, the registry
\* still holds the wrappers that the affected modules call (no full scan of another
\* repository replaced them, or put a definition of the same name in their place),
\* and no wrapper outside those modules gains its first or loses its last call.
IncrementalIsExact ==
    run.pc = "saved" =>
        LET c == code[run.repo]
            old == cache[run.repo].code
            now == Least(c, run.known)
        IN  /\ run.mode = "incremental" /\ AllSteady(c)
            /\ SecondOrderEntriesRight(c, run.known)
            /\ OnlyUsages(cache[run.repo].facts) = Reference(old, run.known)
            /\ \A d \in Present(c) \ run.only :
                  /\ now[d] # None /\ (\E m \in run.only : d \in Callees(c, m))
                     => Seeds(c, run.known)[d] # None
                  /\ d \in UsedBy(c, now) <=> d \in UsedBy(old, Least(old, run.known))
            => OnlyUsages(Facts) = Reference(c, run.known)

\* The work list comes to an end also when wrappers call each other in a circle:
\* every round takes a definition that was not taken before.
EveryRoundAdvances ==
    [][run # Idle /\ run'.pc = "expand" =>
          \E d \in Modules \ run.expanded : run'.expanded = run.expanded \cup {d}]_vars
=============================================================================
