------------------------ MODULE WrapperRegistryProofs ------------------------
(***************************************************************************)
(* Proofs about WrapperRegistry for any repositories, definitions and      *)
(* numbers of scans: the work list of the wrapper analysis leaves nothing  *)
(* undone and comes to an end, and what full and incremental scans find is *)
(* the least fixed point, whatever the registry was left with.             *)
(***************************************************************************)
EXTENDS WrapperRegistry, Foundations, TLAPS

(* Types of the operators *)

LEMMA SiteType ==
    ASSUME NEW c \in Trees, NEW M \in SUBSET Modules, NEW s \in SitesIn(c, M)
    PROVE  s \in Modules \X (1..2) /\ c[s[1]] \in Codes /\ At(c, s) \in Sites
<1>1. s \in M \X (1..2) /\ c[s[1]] # None /\ s[2] \in DOMAIN c[s[1]].body
  BY DEF SitesIn
<1>2. s[1] \in Modules
  BY <1>1
<1>3. c[s[1]] \in Codes
  BY <1>1, <1>2 DEF Trees
<1>4. c[s[1]].body \in Seq(Sites)
  BY <1>3 DEF Codes
<1>5. c[s[1]].body[s[2]] \in Sites
  BY <1>4, <1>1
<1> QED
  BY <1>1, <1>3, <1>5 DEF At

LEMMA RawSinksType ==
    ASSUME NEW c \in Trees, NEW M \in SUBSET Modules
    PROVE  RawSinks(c, M) \in SUBSET Sinks
<1>1. ASSUME NEW s \in SitesIn(c, M)
      PROVE  [site |-> s, kind |-> "raw", model |-> Literal(At(c, s))] \in Sinks
  BY SiteType DEF Sinks, Literal, ModelValues
<1> QED
  BY <1>1 DEF RawSinks

LEMMA WrapperSinksType ==
    ASSUME NEW c \in Trees, NEW M \in SUBSET Modules, NEW d \in Modules, NEW info \in Infos
    PROVE  WrapperSinks(c, M, d, info) \in SUBSET Sinks
<1>1. ASSUME NEW s \in SitesIn(c, M)
      PROVE  [site |-> s, kind |-> "wrapper", model |-> ModelAtCall(d, info, At(c, s))] \in Sinks
  <2>1. s \in Modules \X (1..2) /\ At(c, s) \in Sites
    BY SiteType
  <2>2. info.model \in ModelValues \cup {Unset}
    BY DEF Infos
  <2>3. ModelAtCall(d, info, At(c, s)) \in ModelValues
    BY <2>2 DEF ModelAtCall, Literal, ModelValues
  <2> QED
    BY <2>1, <2>3 DEF Sinks
<1> QED
  BY <1>1 DEF WrapperSinks

LEMMA FirstFacts ==
    ASSUME NEW S \in SUBSET Sinks, S # {}
    PROVE  /\ First(S) \in S
           /\ \A j \in S : First(S).site[2] <= j.site[2]
           /\ First(S).site[2] \in 1..2
<1>1. \A k \in S : k.site[2] \in 1..2
  BY DEF Sinks
<1>2. \E k \in S : \A j \in S : k.site[2] <= j.site[2]
  <2>1. CASE \E k \in S : k.site[2] = 1
    BY <2>1, <1>1
  <2>2. CASE \A k \in S : k.site[2] # 1
    BY <2>2, <1>1
  <2> QED
    BY <2>1, <2>2
<1>3. First(S) \in S /\ \A j \in S : First(S).site[2] <= j.site[2]
  BY <1>2 DEF First
<1> QED
  BY <1>1, <1>3

LEMMA DeriveType ==
    ASSUME NEW c \in Trees, NEW d \in Modules, NEW sinks \in SUBSET Sinks, sinks # {},
           c[d] # None, \A k \in sinks : k.site \in SitesIn(c, Modules)
    PROVE  Derive(c, d, sinks) \in Infos
<1> DEFINE sink == First(sinks)
           site == At(c, sink.site)
<1>1. sink \in Sinks /\ sink.site \in SitesIn(c, Modules)
  BY FirstFacts
<1>2. site \in Sites
  BY <1>1, SiteType
<1>3. c[d] \in Codes
  BY DEF Trees
<1>4. InnerModel(site, sink) \in ModelValues \cup {Unset}
  BY <1>1 DEF InnerModel, Sinks, ModelValues
<1>5. Attribution(site) \in {"passthrough", "fixed", "default"}
  BY DEF Attribution
<1>6. {site.method} \in SUBSET Methods
  BY <1>2 DEF Sites
<1>7. c[d].kind \in {"function", "class"} /\ (c[d].kind = "class" /\ c[d].ctor) \in BOOLEAN
  BY <1>3 DEF Codes
<1> HIDE DEF sink, site
<1> QED
  BY <1>3, <1>4, <1>5, <1>6, <1>7 DEF Derive, Infos, sink, site

LEMMA SeedsType ==
    ASSUME NEW c \in Trees, NEW entries \in Entries
    PROVE  Seeds(c, entries) \in Entries
<1>1. ASSUME NEW d \in Modules, entries[d] # None PROVE Loaded(entries[d]) \in Infos
  BY <1>1 DEF Loaded, Infos, Entries
<1> QED
  BY <1>1, OrgPackAssumption DEF Seeds, Entries

LEMMA SinksAreSites ==
    ASSUME NEW c \in Trees, NEW M \in SUBSET Modules
    PROVE  /\ \A k \in RawSinks(c, M) : k.site \in SitesIn(c, Modules)
           /\ \A d \in Modules, info \in Infos : \A k \in WrapperSinks(c, M, d, info) :
                 k.site \in SitesIn(c, Modules)
<1>1. SitesIn(c, M) \subseteq SitesIn(c, Modules)
  BY DEF SitesIn
<1> QED
  BY <1>1 DEF RawSinks, WrapperSinks

-----------------------------------------------------------------------------
(* Type correctness *)

\* Sinks are call sites of the code that is scanned.
SinksReal == run # Idle => \A k \in run.sinks : k.site \in SitesIn(code[run.repo], Modules)

TypeInv == TypeOK /\ SinksReal

LEMMA InitTypeInv == Init => TypeInv
<1> SUFFICES ASSUME Init PROVE TypeInv
  OBVIOUS
<1>1. code \in [Repos -> Trees]
  BY ProgramsAssumption DEF Init
<1>2. registry \in Entries
  BY DEF Init, NoEntries, Entries
<1> QED
  BY <1>1, <1>2, BoundAssumption DEF Init, TypeInv, TypeOK, SinksReal

LEMMA ScanRunning ==
    ASSUME TypeOK, run # Idle
    PROVE  run \in Runs /\ run.repo \in Repos /\ code[run.repo] \in Trees
BY DEF TypeOK, Runs

LEMMA StartScanTypeInv ==
    ASSUME TypeInv, NEW r \in Repos, NEW mode \in {"full", "incremental"}, StartScan(r, mode)
    PROVE  TypeInv'
<1> DEFINE c == code[r]
           only == IF mode = "full" THEN Present(c) ELSE Affected(c, Changed(cache[r].code, c))
           sinks == RawSinks(c, only)
           seeds == Seeds(c, registry)
<1>1. c \in Trees
  BY DEF TypeInv, TypeOK
<1>2. only \in SUBSET Modules
  BY DEF Affected, Present
<1>3. sinks \in SUBSET Sinks
  BY <1>1, <1>2, RawSinksType
<1>4. seeds \in Entries
  BY <1>1, SeedsType DEF TypeInv, TypeOK
<1>5. \A k \in sinks : k.site \in SitesIn(c, Modules)
  BY <1>1, <1>2, SinksAreSites
<1>6. run' = [pc |-> "expand", repo |-> r, mode |-> mode, only |-> only,
              known |-> registry, sinks |-> sinks, classified |-> seeds,
              pending |-> {d \in Modules : SinksOf(c, sinks, d) # {} \/ seeds[d] # None},
              expanded |-> {}, used |-> {}]
  BY DEF StartScan
<1> HIDE DEF c, only, sinks, seeds
<1>7. run' \in Runs
  BY <1>2, <1>3, <1>4, <1>6 DEF Runs, TypeInv, TypeOK
<1>8. code' = code /\ run'.sinks = sinks /\ run'.repo = r
  BY <1>6 DEF StartScan
<1>9. SinksReal'
  BY <1>5, <1>8 DEF SinksReal, c
<1> QED
  BY <1>7, <1>9 DEF StartScan, TypeInv, TypeOK

\* What one round of the work list does, in terms of the old and the new run.
Round(d, info, new) ==
    /\ d \in run.pending
    /\ LET mine == SinksOf(code[run.repo], run.sinks, d)
       IN  info = IF run.classified[d] # None THEN run.classified[d]
                  ELSE IF Rated(code[run.repo], d, mine) THEN Derive(code[run.repo], d, mine)
                  ELSE None
    /\ new = IF info = None THEN {} ELSE WrapperSinks(code[run.repo], run.only, d, info)
    /\ run'.classified = [run.classified EXCEPT ![d] = info]
    /\ run'.expanded = run.expanded \cup {d}
    /\ run'.sinks = run.sinks \cup new
    /\ run'.used = IF new # {} THEN run.used \cup {d} ELSE run.used
    /\ run'.pending = (run.pending \ {d})
                      \cup Enqueued(code[run.repo], new, d, run.expanded \cup {d})
    /\ run'.pc = "expand" /\ run'.repo = run.repo /\ run'.only = run.only
    /\ run'.mode = run.mode /\ run'.known = run.known

LEMMA ExpandRound ==
    ASSUME TypeInv, Expand
    PROVE  \E d \in Modules, info \in Infos \cup {None}, new \in SUBSET Sinks :
              Round(d, info, new) /\ run' \in Runs
<1>1. run # Idle /\ run \in Runs /\ code[run.repo] \in Trees
  <2>1. run.pc = "expand"
    BY DEF Expand
  <2>2. run # Idle
    BY <2>1 DEF Idle
  <2> QED
    BY <2>2, ScanRunning DEF TypeInv
<1> DEFINE c == code[run.repo]
<1>2. PICK d \in run.pending :
         LET mine == SinksOf(c, run.sinks, d)
             info == IF run.classified[d] # None THEN run.classified[d]
                     ELSE IF Rated(c, d, mine) THEN Derive(c, d, mine) ELSE None
             new == IF info = None THEN {} ELSE WrapperSinks(c, run.only, d, info)
             done == run.expanded \cup {d}
         IN  run' = [run EXCEPT
                        !.classified = [@ EXCEPT ![d] = info],
                        !.expanded = done,
                        !.sinks = @ \cup new,
                        !.used = IF new # {} THEN @ \cup {d} ELSE @,
                        !.pending = (@ \ {d}) \cup Enqueued(c, new, d, done)]
  BY DEF Expand
<1> DEFINE mine == SinksOf(c, run.sinks, d)
           info == IF run.classified[d] # None THEN run.classified[d]
                   ELSE IF Rated(c, d, mine) THEN Derive(c, d, mine) ELSE None
           new == IF info = None THEN {} ELSE WrapperSinks(c, run.only, d, info)
<1>3. d \in Modules
  BY <1>1, <1>2 DEF Runs
<1>4. mine \in SUBSET Sinks /\ (mine # {} => c[d] # None)
      /\ \A k \in mine : k.site \in SitesIn(c, Modules)
  BY <1>1 DEF SinksOf, Runs, TypeInv, SinksReal
<1>5. Rated(c, d, mine) => Derive(c, d, mine) \in Infos
  <2> SUFFICES ASSUME Rated(c, d, mine) PROVE Derive(c, d, mine) \in Infos
    OBVIOUS
  <2>1. mine # {}
    BY DEF Rated
  <2> QED
    BY <2>1, <1>1, <1>3, <1>4, DeriveType
<1>6. info \in Infos \cup {None}
  BY <1>1, <1>3, <1>5 DEF Runs, Entries
<1>7. new \in SUBSET Sinks
  <2>1. CASE info = None
    BY <2>1
  <2>2. CASE info # None
    BY <2>2, <1>1, <1>3, <1>6, WrapperSinksType DEF Runs
  <2> QED
    BY <2>1, <2>2
<1>8. info = IF run.classified[d] # None THEN run.classified[d]
             ELSE IF Rated(c, d, mine) THEN Derive(c, d, mine) ELSE None
  OBVIOUS
<1>9. new = IF info = None THEN {} ELSE WrapperSinks(c, run.only, d, info)
  OBVIOUS
<1>10. run' = [run EXCEPT
                  !.classified = [@ EXCEPT ![d] = info],
                  !.expanded = run.expanded \cup {d},
                  !.sinks = @ \cup new,
                  !.used = IF new # {} THEN @ \cup {d} ELSE @,
                  !.pending = (@ \ {d}) \cup Enqueued(c, new, d, run.expanded \cup {d})]
  BY <1>2
<1> HIDE DEF mine, info, new
<1>11. Enqueued(c, new, d, run.expanded \cup {d}) \in SUBSET Modules
  BY DEF Enqueued
<1>12. [run.classified EXCEPT ![d] = info] \in Entries
  BY <1>1, <1>3, <1>6 DEF Runs, Entries
<1>13. run.pc = "expand"
  BY DEF Expand
<1>14. Round(d, info, new)
  BY <1>1, <1>2, <1>8, <1>9, <1>10, <1>13 DEF Round, Runs, mine
<1>15. run' \in Runs
  BY <1>1, <1>3, <1>7, <1>10, <1>11, <1>12 DEF Runs
<1> QED
  BY <1>3, <1>6, <1>7, <1>14, <1>15

LEMMA ExpandTypeInv == ASSUME TypeInv, Expand PROVE TypeInv'
<1>1. PICK d \in Modules, info \in Infos \cup {None}, new \in SUBSET Sinks :
         Round(d, info, new) /\ run' \in Runs
  BY ExpandRound
<1>2. run # Idle /\ run \in Runs /\ code[run.repo] \in Trees
  <2>1. run # Idle
    BY DEF Expand, Idle
  <2> QED
    BY <2>1, ScanRunning DEF TypeInv
<1>3. \A k \in new : k.site \in SitesIn(code[run.repo], Modules)
  BY <1>1, <1>2, SinksAreSites DEF Round, Runs
<1>4. \A k \in run'.sinks : k.site \in SitesIn(code[run.repo], Modules)
  BY <1>1, <1>2, <1>3 DEF Round, TypeInv, SinksReal
<1>5. code' = code /\ registry' = registry /\ cache' = cache /\ edits' = edits
  BY DEF Expand
<1>6. SinksReal'
  BY <1>1, <1>4, <1>5 DEF Round, SinksReal
<1> QED
  BY <1>1, <1>5, <1>6 DEF TypeInv, TypeOK

LEMMA PersistedType == ASSUME TypeOK, run # Idle PROVE Persisted \in Entries
<1>1. run \in Runs
  BY ScanRunning
<1> QED
  BY <1>1 DEF Persisted, Entries, Runs

LEMMA NextTypeInv == TypeInv /\ [Next]_vars => TypeInv'
<1> SUFFICES ASSUME TypeInv, [Next]_vars PROVE TypeInv'
  OBVIOUS
<1>1. ASSUME NEW r \in Repos, NEW new \in Programs[r], Edit(r, new) PROVE TypeInv'
  <2>1. new \in Trees
    BY ProgramsAssumption
  <2>2. code' \in [Repos -> Trees]
    BY <1>1, <2>1 DEF Edit, TypeInv, TypeOK
  <2> QED
    BY <1>1, <2>2, BoundAssumption DEF Edit, TypeInv, TypeOK, SinksReal
<1>2. ASSUME NEW r \in Repos, NEW mode \in {"full", "incremental"}, StartScan(r, mode)
      PROVE  TypeInv'
  BY <1>2, StartScanTypeInv
<1>3. ASSUME Expand PROVE TypeInv'
  BY <1>3, ExpandTypeInv
<1>4. ASSUME Save PROVE TypeInv'
  <2>1. run # Idle /\ run \in Runs
    BY <1>4, ScanRunning DEF Save, Idle, TypeInv
  <2>2. registry' \in Entries
    BY <1>4, <2>1, PersistedType DEF Save, TypeInv, TypeOK
  <2>3. run' \in Runs /\ run'.sinks = run.sinks /\ run'.repo = run.repo
    BY <1>4, <2>1 DEF Save, Runs
  <2> QED
    BY <1>4, <2>1, <2>2, <2>3 DEF Save, TypeInv, TypeOK, SinksReal
<1>5. ASSUME Finish PROVE TypeInv'
  <2>1. run # Idle /\ run.repo \in Repos /\ code[run.repo] \in Trees
    BY <1>5, ScanRunning DEF Finish, Idle, TypeInv
  <2>2. \A r \in Repos : cache'[r] # None => cache'[r].code \in Trees
    <3> SUFFICES ASSUME NEW r \in Repos, cache'[r] # None PROVE cache'[r].code \in Trees
      OBVIOUS
    <3>1. CASE r = run.repo
      BY <1>5, <2>1, <3>1 DEF Finish, TypeInv, TypeOK
    <3>2. CASE r # run.repo
      BY <1>5, <3>2 DEF Finish, TypeInv, TypeOK
    <3> QED
      BY <3>1, <3>2
  <2> QED
    BY <1>5, <2>2 DEF Finish, TypeInv, TypeOK, SinksReal
<1>6. ASSUME Crash PROVE TypeInv'
  <2>1. registry' \in Entries
    BY <1>6 DEF Crash, NoEntries, Entries, TypeInv, TypeOK
  <2> QED
    BY <1>6, <2>1 DEF Crash, TypeInv, TypeOK, SinksReal
<1>7. CASE UNCHANGED vars
  BY <1>7 DEF vars, TypeInv, TypeOK, SinksReal
<1> QED
  BY <1>1, <1>2, <1>3, <1>4, <1>5, <1>6, <1>7 DEF Next

\* The types of the registry and of the scan in progress hold in every state.
THEOREM WrapperTypesCorrect == Spec => []TypeOK
<1>1. TypeInv => TypeOK
  BY DEF TypeInv
<1> QED
  BY <1>1, InitTypeInv, NextTypeInv, PTL DEF Spec
-----------------------------------------------------------------------------
(* The work list *)

\* What was taken is done, what could still have an effect is in the list, and
\* nothing in the list was taken before.
Done ==
    \A d \in run.expanded : run.classified[d] # None =>
        /\ WrapperSinks(code[run.repo], run.only, d, run.classified[d]) \subseteq run.sinks
        /\ d \in run.used
              <=> WrapperSinks(code[run.repo], run.only, d, run.classified[d]) # {}

Waiting ==
    \A d \in Modules \ run.expanded :
        run.classified[d] # None \/ SinksOf(code[run.repo], run.sinks, d) # {}
            => d \in run.pending

WorkInv ==
    run # Idle =>
        /\ Done
        /\ Waiting
        /\ run.used \subseteq run.expanded
        /\ run.pending \cap run.expanded = {}

LEMMA SinksOfUnion ==
    ASSUME NEW c, NEW d, NEW S, NEW T
    PROVE  SinksOf(c, S \cup T, d) = SinksOf(c, S, d) \cup SinksOf(c, T, d)
BY DEF SinksOf

LEMMA StartScanWorkInv ==
    ASSUME NEW r \in Repos, NEW mode \in {"full", "incremental"}, StartScan(r, mode)
    PROVE  WorkInv'
BY DEF StartScan, WorkInv, Done, Waiting

LEMMA ExpandWorkInv == ASSUME TypeInv, WorkInv, Expand PROVE WorkInv'
<1>1. PICK d \in Modules, info \in Infos \cup {None}, new \in SUBSET Sinks :
         Round(d, info, new) /\ run' \in Runs
  BY ExpandRound
<1>2. run # Idle /\ run \in Runs /\ code' = code
  <2>1. run # Idle
    BY DEF Expand, Idle
  <2> QED
    BY <2>1, ScanRunning DEF TypeInv, Expand
<1> DEFINE c == code[run.repo]
<1>3. run'.repo = run.repo /\ run'.only = run.only /\ code'[run'.repo] = c
  BY <1>1, <1>2 DEF Round
<1>4. d \notin run.expanded /\ d \notin run.used
  BY <1>1, <1>2 DEF Round, WorkInv
<1>5. run.classified \in Entries /\ run'.classified = [run.classified EXCEPT ![d] = info]
  BY <1>1, <1>2 DEF Round, Runs
<1>6. Done'
  <2> SUFFICES ASSUME NEW e \in run'.expanded, run'.classified[e] # None
               PROVE  LET mine == WrapperSinks(c, run.only, e, run'.classified[e])
                      IN  mine \subseteq run'.sinks /\ (e \in run'.used <=> mine # {})
    BY <1>3 DEF Done
  <2>1. CASE e = d
    <3>1. run'.classified[e] = info
      BY <2>1, <1>5 DEF Entries
    <3>2. new = WrapperSinks(c, run.only, e, run'.classified[e])
      BY <1>1, <2>1, <3>1 DEF Round
    <3> QED
      BY <1>1, <1>4, <2>1, <3>2 DEF Round
  <2>2. CASE e # d
    <3>1. e \in run.expanded /\ run'.classified[e] = run.classified[e]
      BY <1>1, <1>2, <1>5, <2>2 DEF Round, Runs, Entries
    <3>2. e \in run'.used <=> e \in run.used
      BY <1>1, <2>2 DEF Round
    <3> QED
      BY <1>1, <1>2, <3>1, <3>2 DEF Round, WorkInv, Done
  <2> QED
    BY <2>1, <2>2
<1>7. Waiting'
  <2> SUFFICES ASSUME NEW e \in Modules, e \notin run'.expanded,
                      run'.classified[e] # None \/ SinksOf(c, run'.sinks, e) # {}
               PROVE  e \in run'.pending
    BY <1>3 DEF Waiting
  <2>1. e # d /\ e \notin run.expanded
    BY <1>1 DEF Round
  <2>2. CASE run'.classified[e] # None
    <3>1. run.classified[e] # None
      BY <1>5, <2>1, <2>2 DEF Entries
    <3> QED
      BY <1>1, <1>2, <2>1, <3>1 DEF Round, WorkInv, Waiting
  <2>3. CASE SinksOf(c, run.sinks, e) # {}
    BY <1>1, <1>2, <2>1, <2>3 DEF Round, WorkInv, Waiting
  <2>4. CASE SinksOf(c, new, e) # {}
    BY <1>1, <2>1, <2>4 DEF Round, Enqueued
  <2>5. run'.sinks = run.sinks \cup new
    BY <1>1 DEF Round
  <2> QED
    BY <2>2, <2>3, <2>4, <2>5, SinksOfUnion
<1>8. run'.used \subseteq run'.expanded /\ run'.pending \cap run'.expanded = {}
  BY <1>1, <1>2 DEF Round, WorkInv, Enqueued
<1> QED
  BY <1>6, <1>7, <1>8 DEF WorkInv

WrapperInv == TypeInv /\ WorkInv

LEMMA InitWrapperInv == Init => WrapperInv
BY InitTypeInv DEF Init, WrapperInv, WorkInv

LEMMA NextWrapperInv == WrapperInv /\ [Next]_vars => WrapperInv'
<1> SUFFICES ASSUME WrapperInv, [Next]_vars PROVE WrapperInv'
  OBVIOUS
<1>1. TypeInv'
  BY NextTypeInv DEF WrapperInv
<1>2. ASSUME NEW r \in Repos, NEW new \in Programs[r], Edit(r, new) PROVE WorkInv'
  BY <1>2 DEF Edit, WorkInv
<1>3. ASSUME NEW r \in Repos, NEW mode \in {"full", "incremental"}, StartScan(r, mode)
      PROVE  WorkInv'
  BY <1>3, StartScanWorkInv
<1>4. ASSUME Expand PROVE WorkInv'
  BY <1>4, ExpandWorkInv DEF WrapperInv
<1>5. ASSUME Save PROVE WorkInv'
  <2>1. run # Idle /\ run \in Runs
    BY <1>5, ScanRunning DEF Save, Idle, WrapperInv, TypeInv
  <2>2. /\ run'.repo = run.repo /\ run'.only = run.only /\ run'.sinks = run.sinks
        /\ run'.classified = run.classified /\ run'.pending = run.pending
        /\ run'.expanded = run.expanded /\ run'.used = run.used /\ code' = code
    BY <1>5, <2>1 DEF Save, Runs
  <2> QED
    BY <2>1, <2>2 DEF WrapperInv, WorkInv, Done, Waiting
<1>6. ASSUME Finish PROVE WorkInv'
  BY <1>6 DEF Finish, WorkInv
<1>7. ASSUME Crash PROVE WorkInv'
  BY <1>7 DEF Crash, WorkInv
<1>8. CASE UNCHANGED vars
  <2>1. run' = run /\ code' = code
    BY <1>8 DEF vars
  <2>2. /\ run'.repo = run.repo /\ run'.only = run.only /\ run'.sinks = run.sinks
        /\ run'.classified = run.classified /\ run'.pending = run.pending
        /\ run'.expanded = run.expanded /\ run'.used = run.used
    BY <2>1
  <2> QED
    BY <1>1, <2>1, <2>2 DEF WrapperInv, WorkInv, Done, Waiting
<1> QED
  BY <1>1, <1>2, <1>3, <1>4, <1>5, <1>6, <1>7, <1>8 DEF Next, WrapperInv

\* When the work list is empty every call of a classified definition is a sink
\* and every definition around a sink was rated, however definitions call each
\* other and in whatever order their names put them.
THEOREM NothingIsLeftUndone == Spec => []FixedPointClosed
<1>1. WrapperInv => FixedPointClosed
  <2> SUFFICES ASSUME WrapperInv, run # Idle, run.pending = {}
               PROVE  LET c == code[run.repo]
                      IN  /\ \A d \in Modules : run.classified[d] # None =>
                                /\ WrapperSinks(c, run.only, d, run.classified[d])
                                       \subseteq run.sinks
                                /\ d \in run.used
                                      <=> WrapperSinks(c, run.only, d, run.classified[d]) # {}
                          /\ \A d \in Modules :
                                SinksOf(c, run.sinks, d) # {} => d \in run.expanded
    BY DEF FixedPointClosed
  <2>1. \A d \in Modules :
           run.classified[d] # None \/ SinksOf(code[run.repo], run.sinks, d) # {}
               => d \in run.expanded
    BY DEF WrapperInv, WorkInv, Waiting
  <2> QED
    BY <2>1 DEF WrapperInv, WorkInv, Done
<1> QED
  BY <1>1, InitWrapperInv, NextWrapperInv, PTL DEF Spec

\* Every round takes a definition that was not taken before, so that the analysis
\* ends after as many rounds as there are definitions.
THEOREM WorkListAdvances == Spec => EveryRoundAdvances
<1> DEFINE Advances ==
      run # Idle /\ run'.pc = "expand" =>
          \E d \in Modules \ run.expanded : run'.expanded = run.expanded \cup {d}
<1>1. ASSUME WrapperInv, [Next]_vars PROVE [Advances]_vars
  <2> SUFFICES ASSUME run # Idle, run'.pc = "expand", Next PROVE Advances
    BY <1>1
  <2>1. CASE Expand
    <3>1. PICK d \in Modules, info \in Infos \cup {None}, new \in SUBSET Sinks :
             Round(d, info, new)
      BY <1>1, <2>1, ExpandRound DEF WrapperInv
    <3>2. run.pending \cap run.expanded = {}
      BY <1>1 DEF WrapperInv, WorkInv
    <3>3. d \in run.pending /\ run'.expanded = run.expanded \cup {d}
      BY <3>1 DEF Round
    <3>4. d \in Modules \ run.expanded
      BY <3>2, <3>3
    <3> QED
      BY <3>3, <3>4
  <2>2. ~Save /\ ~Finish /\ ~Crash
    BY <1>1, ScanRunning DEF Save, Finish, Crash, Idle, Runs, WrapperInv, TypeInv
  <2>3. ASSUME NEW r \in Repos, NEW new \in Programs[r] PROVE ~Edit(r, new)
    BY DEF Edit
  <2>4. ASSUME NEW r \in Repos, NEW mode \in {"full", "incremental"}
        PROVE  ~StartScan(r, mode)
    BY DEF StartScan
  <2> QED
    BY <2>1, <2>2, <2>3, <2>4 DEF Next
<1>2. (WrapperInv /\ [Next]_vars) => [Advances]_vars
  BY <1>1
<1>3. Spec => [][Advances]_vars
  BY <1>2, InitWrapperInv, NextWrapperInv, PTL DEF Spec
<1> QED
  BY <1>3 DEF EveryRoundAdvances

-----------------------------------------------------------------------------
(* The least fixed point *)

Pairs == Modules \X Infos

LEMMA AllSinksType ==
    ASSUME NEW c \in Trees, NEW P \in SUBSET Pairs
    PROVE  /\ AllSinks(c, P) \in SUBSET Sinks
           /\ \A k \in AllSinks(c, P) : k.site \in SitesIn(c, Modules)
<1>1. ASSUME NEW p \in P
      PROVE  /\ WrapperSinks(c, Modules, p[1], p[2]) \in SUBSET Sinks
             /\ \A k \in WrapperSinks(c, Modules, p[1], p[2]) : k.site \in SitesIn(c, Modules)
  <2>1. p[1] \in Modules /\ p[2] \in Infos
    BY DEF Pairs
  <2> QED
    BY <2>1, WrapperSinksType, SinksAreSites
<1>2. RawSinks(c, Modules) \in SUBSET Sinks
      /\ \A k \in RawSinks(c, Modules) : k.site \in SitesIn(c, Modules)
  BY RawSinksType, SinksAreSites
<1> QED
  BY <1>1, <1>2 DEF AllSinks

LEMMA SinksOfType ==
    ASSUME NEW c \in Trees, NEW d \in Modules, NEW sinks \in SUBSET Sinks,
           \A k \in sinks : k.site \in SitesIn(c, Modules), SinksOf(c, sinks, d) # {}
    PROVE  /\ SinksOf(c, sinks, d) \in SUBSET Sinks
           /\ \A k \in SinksOf(c, sinks, d) : k.site \in SitesIn(c, {d})
           /\ c[d] # None /\ c[d].def /\ Derive(c, d, SinksOf(c, sinks, d)) \in Infos
<1>1. SinksOf(c, sinks, d) \in SUBSET Sinks /\ c[d] # None /\ c[d].def
      /\ \A k \in SinksOf(c, sinks, d) : k.site \in SitesIn(c, Modules) /\ k.site[1] = d
  BY DEF SinksOf
<1>2. \A s \in SitesIn(c, Modules) : s[1] = d => s \in SitesIn(c, {d})
  BY DEF SitesIn
<1> QED
  BY <1>1, <1>2, DeriveType

LEMMA FirstPairsType ==
    ASSUME NEW c \in Trees, NEW entries \in Entries
    PROVE  FirstPairs(c, entries) \in SUBSET Pairs
<1>1. External(c, entries) \in Entries
  BY DEF External, Entries
<1>2. Seeds(c, External(c, entries)) \in Entries
  BY <1>1, SeedsType
<1> QED
  BY <1>2 DEF FirstPairs, Pairs, Entries

LEMMA NextPairsType ==
    ASSUME NEW c \in Trees, NEW P \in SUBSET Pairs
    PROVE  NextPairs(c, P) \in SUBSET Pairs
<1>1. ASSUME NEW d \in Modules, Rated(c, d, SinksOf(c, AllSinks(c, P), d))
      PROVE  Derive(c, d, SinksOf(c, AllSinks(c, P), d)) \in Infos
  BY <1>1, AllSinksType, SinksOfType DEF Rated
<1> QED
  BY <1>1 DEF NextPairs, Pairs

\* f[n] holds what is classified after n rounds.
IsChain(c, entries, f) ==
    /\ f \in [Nat -> SUBSET Pairs]
    /\ f[0] = FirstPairs(c, entries)
    /\ \A n \in Nat : f[n + 1] = NextPairs(c, f[n])
    /\ LeastPairs(c, entries) = f[Cardinality(Modules)]

LEMMA PairsChain ==
    ASSUME NEW c \in Trees, NEW entries \in Entries
    PROVE  \E f : IsChain(c, entries, f)
<1> DEFINE T == SUBSET Pairs
           first == FirstPairs(c, entries)
           Follows == [p \in Nat \X T |-> NextPairs(c, p[2])]
<1>1. first \in T
  BY FirstPairsType
<1>2. Follows \in Steps(T)
  BY NextPairsType DEF Steps
<1>3. \A n \in Nat, P \in T : Follows[<<n, P>>] = NextPairs(c, P)
  OBVIOUS
<1> HIDE DEF T, first, Follows
<1>4. PICK f : f \in Unrolled(T, first, Follows)
  BY <1>1, <1>2, RecursiveFunction
<1>5. /\ f \in [Nat -> T] /\ f[0] = first
      /\ \A n \in Nat \ {0} : f[n] = Follows[<<n, f[n - 1]>>]
  BY <1>4 DEF Unrolled
<1>6. ASSUME NEW n \in Nat \ {0} PROVE f[n] = NextPairs(c, f[n - 1])
  <2>1. n - 1 \in Nat /\ f[n - 1] \in T
    BY <1>5
  <2> QED
    BY <1>3, <1>5, <2>1
<1> DEFINE L == CHOOSE g : g = [n \in Nat |-> IF n = 0 THEN FirstPairs(c, entries)
                                              ELSE NextPairs(c, g[n - 1])]
<1>7. f = [n \in Nat |-> IF n = 0 THEN FirstPairs(c, entries) ELSE NextPairs(c, f[n - 1])]
  BY <1>5, <1>6 DEF first
<1>8. L = [n \in Nat |-> IF n = 0 THEN FirstPairs(c, entries) ELSE NextPairs(c, L[n - 1])]
  BY <1>7, Zenon
<1>9. LeastPairs(c, entries) = L[Cardinality(Modules)]
  BY Zenon DEF LeastPairs
<1> HIDE DEF L
<1>10. L[0] = FirstPairs(c, entries)
  BY <1>8
<1>11. ASSUME NEW n \in Nat PROVE L[n + 1] = NextPairs(c, L[n])
  <2>1. n + 1 \in Nat /\ n + 1 # 0 /\ (n + 1) - 1 = n
    OBVIOUS
  <2> QED
    BY <1>8, <2>1
<1> DEFINE Typed == {n \in Nat : L[n] \in SUBSET Pairs}
<1>12. \A n \in Nat : n \in Typed
  <2>1. 0 \in Typed
    BY <1>10, FirstPairsType
  <2>2. \A n \in Nat : n \in Typed => n + 1 \in Typed
    BY <1>11, NextPairsType
  <2> HIDE DEF Typed
  <2> QED
    BY <2>1, <2>2, SetInduction
<1>13. L \in [Nat -> SUBSET Pairs]
  BY <1>8, <1>12
<1>14. IsChain(c, entries, L)
  BY <1>9, <1>10, <1>11, <1>13 DEF IsChain
<1> QED
  BY <1>14

\* The chain grows, gives each name one entry, and is at its end when every name has
\* had a round to enter.
LEMMA ChainGrows ==
    ASSUME NEW c, NEW entries, NEW f, IsChain(c, entries, f), NEW n \in Nat
    PROVE  f[n] \subseteq f[n + 1]
BY DEF IsChain, NextPairs

LEMMA ChainTop ==
    ASSUME NEW c, NEW entries, NEW f, IsChain(c, entries, f), NEW n \in Nat, NEW N \in Nat, n <= N
    PROVE  f[n] \subseteq f[N]
<1> DEFINE Below == {m \in Nat : m <= N => f[N - m] \subseteq f[N]}
<1>1. 0 \in Below
  OBVIOUS
<1>2. ASSUME NEW m \in Nat, m \in Below PROVE m + 1 \in Below
  <2> SUFFICES ASSUME m + 1 <= N PROVE f[N - (m + 1)] \subseteq f[N]
    OBVIOUS
  <2>1. N - (m + 1) \in Nat /\ (N - (m + 1)) + 1 = N - m /\ m <= N
    OBVIOUS
  <2>2. f[N - (m + 1)] \subseteq f[(N - (m + 1)) + 1]
    BY <2>1, ChainGrows
  <2>3. f[N - m] \subseteq f[N]
    BY <1>2, <2>1
  <2> QED
    BY <2>1, <2>2, <2>3
<1> HIDE DEF Below
<1>3. N - n \in Nat /\ N - n <= N /\ N - (N - n) = n
  OBVIOUS
<1>4. N - n \in Below
  BY <1>1, <1>2, <1>3, SetInduction
<1> QED
  BY <1>3, <1>4 DEF Below

LEMMA ChainOneEach ==
    ASSUME NEW c, NEW entries, NEW f, IsChain(c, entries, f), NEW n \in Nat
    PROVE  \A p, q \in f[n] : p[1] = q[1] => p = q
<1> DEFINE OneEach == {m \in Nat : \A p, q \in f[m] : p[1] = q[1] => p = q}
<1>1. 0 \in OneEach
  BY DEF IsChain, FirstPairs
<1>2. ASSUME NEW m \in Nat, m \in OneEach PROVE m + 1 \in OneEach
  <2>1. f[m + 1] = NextPairs(c, f[m])
    BY DEF IsChain
  <2> QED
    BY <1>2, <2>1 DEF NextPairs
<1> HIDE DEF OneEach
<1>3. n \in OneEach
  BY <1>1, <1>2, SetInduction
<1> QED
  BY <1>3 DEF OneEach

LEMMA ChainEnds ==
    ASSUME NEW c, NEW entries, NEW f, IsChain(c, entries, f)
    PROVE  f[Cardinality(Modules) + 1] = f[Cardinality(Modules)]
<1> DEFINE N == Cardinality(Modules)
           names(P) == {d \in Modules : \E p \in P : p[1] = d}
           g == [n \in Nat |-> names(f[n])]
<1>0. N \in Nat
  BY NamesAssumption, FS_CardinalityType
<1>1. g \in [Nat -> SUBSET Modules] /\ \A n \in Nat : g[n] = names(f[n])
  OBVIOUS
<1>2. \A n \in Nat : f[n] \in SUBSET Pairs /\ f[n + 1] = NextPairs(c, f[n])
  BY DEF IsChain
<1>3. ASSUME NEW n \in Nat, g[n + 1] = g[n] PROVE f[n + 1] = f[n]
  <2>1. ASSUME NEW p \in f[n + 1] PROVE p \in f[n]
    <3>1. CASE \E q \in f[n] : q[1] = p[1]
      <4>1. PICK q \in f[n] : q[1] = p[1]
        BY <3>1
      <4>2. q \in f[n + 1]
        BY <4>1, ChainGrows
      <4>3. n + 1 \in Nat
        OBVIOUS
      <4> QED
        BY <4>1, <4>2, <4>3, ChainOneEach
    <3>2. p[1] \in Modules
      BY <1>2 DEF Pairs
    <3>3. p[1] \in names(f[n + 1])
      BY <3>2
    <3>4. names(f[n + 1]) = names(f[n])
      <4>1. n + 1 \in Nat
        OBVIOUS
      <4> HIDE DEF g, names
      <4> QED
        BY <1>1, <1>3, <4>1
    <3>5. p[1] \in names(f[n])
      BY <3>3, <3>4
    <3> QED
      BY <3>1, <3>5
  <2> QED
    BY <2>1, ChainGrows
<1>4. \A n \in Nat : g[n] \subseteq g[n + 1]
  <2> SUFFICES ASSUME NEW n \in Nat PROVE g[n] \subseteq g[n + 1]
    OBVIOUS
  <2>1. n + 1 \in Nat /\ f[n] \subseteq f[n + 1]
    BY ChainGrows
  <2>2. names(f[n]) \subseteq names(f[n + 1])
    BY <2>1
  <2> HIDE DEF g, names
  <2> QED
    BY <1>1, <2>1, <2>2
<1> HIDE DEF g
<1>5. ASSUME NEW n \in Nat, g[n + 1] = g[n] PROVE g[(n + 1) + 1] = g[n + 1]
  <2>1. f[n + 1] = f[n] /\ n + 1 \in Nat
    BY <1>3, <1>5
  <2>2. f[(n + 1) + 1] = f[n + 1]
    BY <1>2, <2>1
  <2>3. n + 1 \in Nat /\ (n + 1) + 1 \in Nat
    OBVIOUS
  <2> HIDE DEF names
  <2> QED
    BY <1>1, <2>2, <2>3
<1>6. g[N + 1] = g[N]
  BY <1>1, <1>4, <1>5, NamesAssumption, GrowingChainStops
<1> QED
  BY <1>0, <1>3, <1>6

\* An entry of the chain was there from the start or derived from what was known.
LEMMA ChainDerives ==
    ASSUME NEW c, NEW entries, NEW f, IsChain(c, entries, f), NEW n \in Nat, NEW p \in f[n]
    PROVE  \/ p \in FirstPairs(c, entries)
           \/ \E P \in SUBSET f[n] :
                 LET mine == SinksOf(c, AllSinks(c, P), p[1])
                 IN  Rated(c, p[1], mine) /\ p[2] = Derive(c, p[1], mine)
<1> DEFINE Derived(q, P) ==
      LET mine == SinksOf(c, AllSinks(c, P), q[1])
      IN  Rated(c, q[1], mine) /\ q[2] = Derive(c, q[1], mine)
<1> DEFINE Good == {m \in Nat : \A q \in f[m] :
                       q \in FirstPairs(c, entries) \/ \E P \in SUBSET f[m] : Derived(q, P)}
<1>1. 0 \in Good
  BY DEF IsChain
<1>2. ASSUME NEW m \in Nat, m \in Good PROVE m + 1 \in Good
  <2> SUFFICES ASSUME NEW q \in f[m + 1], q \notin FirstPairs(c, entries)
               PROVE  \E P \in SUBSET f[m + 1] : Derived(q, P)
    OBVIOUS
  <2>1. f[m] \subseteq f[m + 1]
    BY ChainGrows
  <2>2. CASE q \in f[m]
    <3>1. PICK P \in SUBSET f[m] : Derived(q, P)
      BY <1>2, <2>2
    <3>2. P \in SUBSET f[m + 1]
      BY <2>1
    <3> QED
      BY <3>1, <3>2
  <2>3. CASE q \notin f[m]
    <3>1. q \in NextPairs(c, f[m])
      BY DEF IsChain
    <3>2. Derived(q, f[m])
      BY <2>3, <3>1 DEF NextPairs
    <3> QED
      BY <2>1, <3>2
  <2> QED
    BY <2>2, <2>3
<1> HIDE DEF Good
<1>3. n \in Good
  BY <1>1, <1>2, SetInduction
<1> QED
  BY <1>3 DEF Good

\* What the least fixed point is, without its construction.
LEMMA LeastFacts ==
    ASSUME NEW c \in Trees, NEW entries \in Entries
    PROVE  /\ LeastPairs(c, entries) \in SUBSET Pairs
           /\ FirstPairs(c, entries) \subseteq LeastPairs(c, entries)
           /\ \A p, q \in LeastPairs(c, entries) : p[1] = q[1] => p = q
           /\ NextPairs(c, LeastPairs(c, entries)) = LeastPairs(c, entries)
           /\ \A p \in LeastPairs(c, entries) :
                 \/ p \in FirstPairs(c, entries)
                 \/ \E P \in SUBSET LeastPairs(c, entries) :
                       LET mine == SinksOf(c, AllSinks(c, P), p[1])
                       IN  Rated(c, p[1], mine) /\ p[2] = Derive(c, p[1], mine)
<1> DEFINE N == Cardinality(Modules)
<1>1. N \in Nat
  BY NamesAssumption, FS_CardinalityType
<1>2. PICK f : IsChain(c, entries, f)
  BY PairsChain
<1>3. /\ f \in [Nat -> SUBSET Pairs] /\ f[0] = FirstPairs(c, entries)
      /\ \A n \in Nat : f[n + 1] = NextPairs(c, f[n])
      /\ LeastPairs(c, entries) = f[N]
  BY <1>2 DEF IsChain
<1> HIDE DEF N
<1>4. f[N] \in SUBSET Pairs
  BY <1>1, <1>3
<1>5. f[0] \subseteq f[N]
  BY <1>1, <1>2, ChainTop
<1>6. \A p, q \in f[N] : p[1] = q[1] => p = q
  BY <1>1, <1>2, ChainOneEach
<1>7. NextPairs(c, f[N]) = f[N]
  BY <1>1, <1>2, <1>3, ChainEnds DEF N
<1>8. \A p \in f[N] :
         \/ p \in FirstPairs(c, entries)
         \/ \E P \in SUBSET f[N] :
               LET mine == SinksOf(c, AllSinks(c, P), p[1])
               IN  Rated(c, p[1], mine) /\ p[2] = Derive(c, p[1], mine)
  BY <1>1, <1>2, ChainDerives
<1> QED
  BY <1>3, <1>4, <1>5, <1>6, <1>7, <1>8

\* What is closed under rating holds every name of the least fixed point.
LEMMA LeastInduction ==
    ASSUME NEW c \in Trees, NEW entries \in Entries, NEW X,
           \A p \in FirstPairs(c, entries) : p[1] \in X,
           \A P \in SUBSET LeastPairs(c, entries), d \in Modules :
              (\A p \in P : p[1] \in X) /\ Rated(c, d, SinksOf(c, AllSinks(c, P), d)) => d \in X
    PROVE  \A p \in LeastPairs(c, entries) : p[1] \in X
<1> DEFINE N == Cardinality(Modules)
<1>1. N \in Nat
  BY NamesAssumption, FS_CardinalityType
<1>2. PICK f : IsChain(c, entries, f)
  BY PairsChain
<1>3. /\ f[0] = FirstPairs(c, entries)
      /\ \A n \in Nat : f[n + 1] = NextPairs(c, f[n])
      /\ LeastPairs(c, entries) = f[N]
  BY <1>2 DEF IsChain
<1> HIDE DEF N
<1> DEFINE Inside == {n \in Nat : n <= N => \A p \in f[n] : p[1] \in X}
<1>4. 0 \in Inside
  BY <1>3
<1>5. ASSUME NEW n \in Nat, n \in Inside PROVE n + 1 \in Inside
  <2> SUFFICES ASSUME n + 1 <= N, NEW p \in f[n + 1], p \notin f[n] PROVE p[1] \in X
    BY <1>1, <1>5
  <2>1. n <= N /\ \A q \in f[n] : q[1] \in X
    BY <1>1, <1>5
  <2>2. f[n] \in SUBSET LeastPairs(c, entries)
    BY <1>1, <1>2, <1>3, <2>1, ChainTop
  <2>3. p \in NextPairs(c, f[n])
    BY <1>3
  <2>4. p[1] \in Modules /\ Rated(c, p[1], SinksOf(c, AllSinks(c, f[n]), p[1]))
    BY <2>3 DEF NextPairs
  <2> QED
    BY <2>1, <2>2, <2>4
<1> HIDE DEF Inside
<1>6. N \in Inside
  BY <1>1, <1>4, <1>5, SetInduction
<1> QED
  BY <1>1, <1>3, <1>6 DEF Inside

LEMMA LeastOfPair ==
    ASSUME NEW c \in Trees, NEW entries \in Entries, NEW p \in LeastPairs(c, entries)
    PROVE  p[1] \in Modules /\ p[2] \in Infos /\ Least(c, entries)[p[1]] = p[2]
<1>1. p \in Pairs /\ p[1] \in Modules /\ p[2] \in Infos
  BY LeastFacts DEF Pairs
<1>2. \A q \in LeastPairs(c, entries) : q[1] = p[1] => q = p
  BY LeastFacts
<1> QED
  BY <1>1, <1>2 DEF Least

LEMMA PairOfLeast ==
    ASSUME NEW c \in Trees, NEW entries \in Entries, NEW d \in Modules, Least(c, entries)[d] # None
    PROVE  <<d, Least(c, entries)[d]>> \in LeastPairs(c, entries)
<1>1. PICK p \in LeastPairs(c, entries) : p[1] = d
  BY DEF Least
<1>2. p \in Pairs
  BY LeastFacts
<1>3. p = <<d, p[2]>> /\ Least(c, entries)[d] = p[2]
  BY <1>1, <1>2, LeastOfPair DEF Pairs
<1> QED
  BY <1>3

\* A definition that its calls rate is in it.
LEMMA LeastIsClosed ==
    ASSUME NEW c \in Trees, NEW entries \in Entries, NEW d \in Modules,
           Rated(c, d, SinksOf(c, AllSinks(c, LeastPairs(c, entries)), d))
    PROVE  Least(c, entries)[d] # None
<1> DEFINE L == LeastPairs(c, entries)
<1>1. \E p \in L : p[1] = d
  <2> SUFFICES ASSUME \A p \in L : p[1] # d PROVE FALSE
    OBVIOUS
  <2>1. <<d, Derive(c, d, SinksOf(c, AllSinks(c, L), d))>> \in NextPairs(c, L)
    BY DEF NextPairs
  <2>2. NextPairs(c, L) = L
    BY LeastFacts
  <2> HIDE DEF L
  <2> QED
    BY <2>1, <2>2
<1>2. PICK p \in L : p[1] = d
  BY <1>1
<1> QED
  BY <1>2, LeastOfPair, NoneAssumption

-----------------------------------------------------------------------------
(* Steady definitions *)

\* S is a set of calls in the body of d.
CallsOf(c, d, S) == S \in SUBSET Sinks /\ S # {} /\ \A k \in S : k.site \in SitesIn(c, {d})

\* A sink is as the definitions in classified make it.
Genuine(c, classified, k) ==
    LET site == At(c, k.site)
    IN  /\ k.kind = IF site.callee = LLM THEN "raw" ELSE "wrapper"
        /\ site.callee # LLM => k.model = ModelAtCall(site.callee, classified[site.callee], site)

\* The possible sinks at the sites of S.
Standins(c, d, S) == {p \in PossibleSinks(c, d) : \E k \in S : k.site = p.site}

LEMMA SiteOfDefinition ==
    ASSUME NEW c, NEW d, NEW s \in SitesIn(c, {d})
    PROVE  s = <<d, s[2]>> /\ s[1] = d
BY DEF SitesIn

\* Sinks at the same sites rate alike.
LEMMA SameSitesRateAlike ==
    ASSUME NEW c, NEW d, NEW S, NEW T, CallsOf(c, d, S), CallsOf(c, d, T),
           \A k \in S : \E j \in T : j.site = k.site,
           \A j \in T : \E k \in S : k.site = j.site
    PROVE  /\ First(S).site = First(T).site
           /\ Rated(c, d, S) <=> Rated(c, d, T)
<1>1. /\ First(S) \in S /\ \A j \in S : First(S).site[2] <= j.site[2]
      /\ First(T) \in T /\ \A j \in T : First(T).site[2] <= j.site[2]
      /\ First(S).site[2] \in 1..2 /\ First(T).site[2] \in 1..2
  BY FirstFacts DEF CallsOf
<1>2. First(S).site[2] = First(T).site[2]
  <2>1. First(S).site[2] <= First(T).site[2]
    BY <1>1
  <2>2. First(T).site[2] <= First(S).site[2]
    BY <1>1
  <2> QED
    BY <1>1, <2>1, <2>2
<1>3. First(S).site \in SitesIn(c, {d}) /\ First(T).site \in SitesIn(c, {d})
  <2>1. First(S) \in S /\ First(T) \in T
    BY <1>1
  <2> QED
    BY <2>1, Zenon DEF CallsOf
<1>4. First(S).site = First(T).site
  <2>1. /\ First(S).site = <<d, First(S).site[2]>>
        /\ First(T).site = <<d, First(T).site[2]>>
    BY <1>3, SiteOfDefinition
  <2> QED
    BY <1>2, <2>1
<1>5. AgentShaped(c, d, S) <=> AgentShaped(c, d, T)
  <2> DEFINE Looping(s) == At(c, s).loop /\ At(c, s).method = At(c, First(S).site).method
  <2>1. (\E k \in S : Looping(k.site)) <=> (\E k \in T : Looping(k.site))
    <3> HIDE DEF Looping
    <3> QED
      OBVIOUS
  <2> QED
    BY <1>4, <2>1 DEF AgentShaped
<1>6. S # {} /\ T # {}
  BY DEF CallsOf
<1> QED
  BY <1>4, <1>5, <1>6 DEF Rated

LEMMA PossibleSinksType ==
    ASSUME NEW c \in Trees, NEW d \in Modules
    PROVE  /\ PossibleSinks(c, d) \in SUBSET Sinks
           /\ \A p \in PossibleSinks(c, d) : p.site \in SitesIn(c, {d})
<1>1. ASSUME NEW s \in SitesIn(c, {d})
      PROVE  [site |-> s, kind |-> IF At(c, s).callee = LLM THEN "raw" ELSE "wrapper",
              model |-> IF At(c, s).callee = LLM THEN Literal(At(c, s)) ELSE At(c, s).callee]
                \in Sinks
  <2>1. s \in Modules \X (1..2) /\ At(c, s) \in Sites
    BY SiteType
  <2>2. At(c, s).callee \in Modules \cup {LLM} /\ Literal(At(c, s)) \in ModelValues
    BY <2>1 DEF Sites, Literal, ModelValues
  <2> QED
    BY <2>1, <2>2 DEF Sinks, ModelValues
<1> QED
  BY <1>1 DEF PossibleSinks

LEMMA StandinsFacts ==
    ASSUME NEW c \in Trees, NEW d \in Modules, NEW S, CallsOf(c, d, S)
    PROVE  /\ Standins(c, d, S) \in SUBSET PossibleSinks(c, d) /\ Standins(c, d, S) # {}
           /\ First(Standins(c, d, S)).site = First(S).site
           /\ First(Standins(c, d, S)) \in PossibleSinks(c, d)
           /\ Rated(c, d, S) <=> Rated(c, d, Standins(c, d, S))
<1> DEFINE A == Standins(c, d, S)
<1>1. ASSUME NEW k \in S PROVE \E p \in A : p.site = k.site
  <2>1. k.site \in SitesIn(c, {d})
    BY DEF CallsOf
  <2>2. \E p \in PossibleSinks(c, d) : p.site = k.site
    <3> DEFINE p == [site |-> k.site,
                     kind |-> IF At(c, k.site).callee = LLM THEN "raw" ELSE "wrapper",
                     model |-> IF At(c, k.site).callee = LLM THEN Literal(At(c, k.site))
                               ELSE At(c, k.site).callee]
    <3>1. p \in PossibleSinks(c, d) /\ p.site = k.site
      BY <2>1 DEF PossibleSinks
    <3> QED
      BY <3>1
  <2> QED
    BY <2>2 DEF Standins
<1>2. A \in SUBSET PossibleSinks(c, d) /\ \A p \in A : \E k \in S : k.site = p.site
  BY DEF Standins
<1>3. A # {}
  BY <1>1 DEF CallsOf
<1> HIDE DEF A
<1>4. CallsOf(c, d, A)
  BY <1>2, <1>3, PossibleSinksType DEF CallsOf
<1>5. First(A) \in A
  BY <1>4, FirstFacts DEF CallsOf
<1> QED
  BY <1>1, <1>2, <1>3, <1>4, <1>5, SameSitesRateAlike DEF A

\* What a steady definition is derived to does not depend on which of its calls
\* are known, as long as the calls are as the same definitions make them.
LEMMA InnerOfCall ==
    ASSUME NEW c, NEW classified, NEW k, NEW site, NEW p, site = At(c, k.site),
           Genuine(c, classified, k),
           p.kind = (IF site.callee = LLM THEN "raw" ELSE "wrapper"),
           site.callee # LLM => p.model = site.callee,
           site.model = Unset
    PROVE  /\ InnerModel(site, p) = IF site.callee = LLM THEN Unset ELSE site.callee
           /\ InnerModel(site, k) = IF site.callee = LLM THEN Unset
                                    ELSE ModelAtCall(site.callee, classified[site.callee], site)
<1>1. site.model \notin Models
  BY CallsAssumption
<1> QED
  BY <1>1 DEF InnerModel, Genuine

LEMMA SteadyAgree ==
    ASSUME NEW c \in Trees, NEW d \in Modules, NEW classified, NEW S, NEW T,
           Steady(c, d), CallsOf(c, d, S), CallsOf(c, d, T),
           \A k \in S \cup T : Genuine(c, classified, k)
    PROVE  /\ Rated(c, d, S) <=> Rated(c, d, T)
           /\ Derive(c, d, S) = Derive(c, d, T)
<1> DEFINE A == Standins(c, d, S)
           B == Standins(c, d, T)
           a == At(c, First(S).site)
           b == At(c, First(T).site)
<1>1. /\ A \in SUBSET PossibleSinks(c, d) /\ A # {} /\ First(A).site = First(S).site
      /\ First(A) \in PossibleSinks(c, d)
      /\ Rated(c, d, S) <=> Rated(c, d, A)
  BY StandinsFacts
<1>2. /\ B \in SUBSET PossibleSinks(c, d) /\ B # {} /\ First(B).site = First(T).site
      /\ First(B) \in PossibleSinks(c, d)
      /\ Rated(c, d, T) <=> Rated(c, d, B)
  BY StandinsFacts
<1> HIDE DEF A, B
<1>3. (Rated(c, d, A) <=> Rated(c, d, B)) /\ Derive(c, d, A) = Derive(c, d, B)
  BY <1>1, <1>2 DEF Steady
<1>4. /\ Attribution(a) = Attribution(b) /\ {a.method} = {b.method}
      /\ InnerModel(a, First(A)) = InnerModel(b, First(B))
  BY <1>1, <1>2, <1>3 DEF Derive
<1>5. /\ First(A).kind = (IF a.callee = LLM THEN "raw" ELSE "wrapper")
      /\ a.callee # LLM => First(A).model = a.callee
      /\ First(B).kind = (IF b.callee = LLM THEN "raw" ELSE "wrapper")
      /\ b.callee # LLM => First(B).model = b.callee
  BY <1>1, <1>2 DEF PossibleSinks
<1>6. First(S) \in S /\ First(T) \in T
  BY FirstFacts DEF CallsOf
<1>7. Genuine(c, classified, First(S)) /\ Genuine(c, classified, First(T))
  BY <1>6
<1>8. a \in Sites /\ b \in Sites
  <2>1. First(S).site \in SitesIn(c, {d}) /\ First(T).site \in SitesIn(c, {d})
    BY <1>6, Zenon DEF CallsOf
  <2> QED
    BY <2>1, SiteType
<1>9. InnerModel(a, First(S)) = InnerModel(b, First(T))
  <2>1. CASE a.model = Param
    <3>1. b.model = Param
      BY <1>4, <2>1 DEF Attribution
    <3>2. Param # Unset
      BY CallsAssumption
    <3> QED
      BY <2>1, <3>1, <3>2 DEF InnerModel
  <2>2. CASE a.model # Param /\ a.model \in Models
    <3>1. b.model # Param /\ b.model \in Models
      BY <1>4, <2>2 DEF Attribution
    <3> QED
      BY <1>4, <2>2, <3>1 DEF InnerModel
  <2>3. CASE a.model # Param /\ a.model \notin Models
    <3>1. b.model # Param /\ b.model \notin Models
      BY <1>4, <2>3 DEF Attribution
    <3>2. a.model = Unset /\ b.model = Unset
      BY <1>8, <2>3, <3>1 DEF Sites
    <3>3. /\ InnerModel(a, First(A)) = IF a.callee = LLM THEN Unset ELSE a.callee
          /\ InnerModel(a, First(S)) = IF a.callee = LLM THEN Unset
                                       ELSE ModelAtCall(a.callee, classified[a.callee], a)
      BY <1>5, <1>7, <3>2, InnerOfCall
    <3>4. /\ InnerModel(b, First(B)) = IF b.callee = LLM THEN Unset ELSE b.callee
          /\ InnerModel(b, First(T)) = IF b.callee = LLM THEN Unset
                                       ELSE ModelAtCall(b.callee, classified[b.callee], b)
      BY <1>5, <1>7, <3>2, InnerOfCall
    <3>5. a.callee \in Modules \cup {LLM} /\ b.callee \in Modules \cup {LLM} /\ Unset \notin Modules
      BY <1>8, CallsAssumption DEF Sites
    <3>6. a.callee = b.callee
      BY <1>4, <3>3, <3>4, <3>5
    <3>7. ModelAtCall(a.callee, classified[a.callee], a)
            = ModelAtCall(b.callee, classified[b.callee], b)
      BY <3>2, <3>6 DEF ModelAtCall, Literal
    <3> QED
      BY <3>3, <3>4, <3>6, <3>7
  <2> QED
    BY <2>1, <2>2, <2>3
<1>10. Derive(c, d, S) = Derive(c, d, T)
  BY <1>4, <1>9 DEF Derive
<1> QED
  BY <1>1, <1>2, <1>3, <1>10

\* Two trees with the same definition rate it alike.
LEMMA SameCodeRatesAlike ==
    ASSUME NEW c \in Trees, NEW b \in Trees, NEW d \in Modules, NEW S \in SUBSET Sinks,
           b[d] = c[d], CallsOf(c, d, S)
    PROVE  /\ CallsOf(b, d, S)
           /\ Rated(b, d, S) <=> Rated(c, d, S)
           /\ Derive(b, d, S) = Derive(c, d, S)
           /\ \A k \in S : At(b, k.site) = At(c, k.site)
<1>1. SitesIn(b, {d}) = SitesIn(c, {d})
  BY DEF SitesIn
<1>2. \A s \in SitesIn(c, {d}) : At(b, s) = At(c, s)
  BY SiteOfDefinition DEF At
<1>3. \A k \in S : At(b, k.site) = At(c, k.site)
  BY <1>2 DEF CallsOf
<1>4. First(S) \in S
  BY FirstFacts DEF CallsOf
<1>5. At(b, First(S).site) = At(c, First(S).site)
  BY <1>3, <1>4
<1>6. AgentShaped(b, d, S) <=> AgentShaped(c, d, S)
  BY <1>1, <1>2, <1>3, <1>5 DEF AgentShaped
<1>7. Rated(b, d, S) <=> Rated(c, d, S)
  BY <1>5, <1>6 DEF Rated, Score
<1>8. Derive(b, d, S) = Derive(c, d, S)
  BY <1>5 DEF Derive
<1>9. CallsOf(b, d, S)
  BY <1>1 DEF CallsOf
<1> QED
  BY <1>3, <1>7, <1>8, <1>9

LEMMA AllSinksMonotone ==
    ASSUME NEW c, NEW P, NEW Q, P \subseteq Q
    PROVE  AllSinks(c, P) \subseteq AllSinks(c, Q)
BY DEF AllSinks

LEMMA SinksOfMonotone ==
    ASSUME NEW c, NEW d, NEW S, NEW T, S \subseteq T
    PROVE  SinksOf(c, S, d) \subseteq SinksOf(c, T, d)
BY DEF SinksOf

\* The sinks of the least fixed point are as its entries make them.
LEMMA LeastSinksGenuine ==
    ASSUME NEW c \in Trees, NEW entries \in Entries,
           NEW k \in AllSinks(c, LeastPairs(c, entries))
    PROVE  Genuine(c, Least(c, entries), k)
<1>1. CASE k \in RawSinks(c, Modules)
  BY <1>1 DEF RawSinks, Genuine
<1>2. CASE k \notin RawSinks(c, Modules)
  <2>1. PICK p \in LeastPairs(c, entries) : k \in WrapperSinks(c, Modules, p[1], p[2])
    BY <1>2 DEF AllSinks
  <2>2. p[1] \in Modules /\ Least(c, entries)[p[1]] = p[2]
    BY <2>1, LeastOfPair
  <2>3. /\ k.kind = "wrapper" /\ At(c, k.site).callee = p[1]
        /\ k.model = ModelAtCall(p[1], p[2], At(c, k.site))
    BY <2>1 DEF WrapperSinks, CallsWrapper
  <2> QED
    BY <2>2, <2>3, CallsAssumption DEF Genuine
<1> QED
  BY <1>1, <1>2

LEMMA SomeSinksAreCalls ==
    ASSUME NEW c \in Trees, NEW entries \in Entries, NEW d \in Modules,
           NEW S, S \subseteq SinksOf(c, AllSinks(c, LeastPairs(c, entries)), d), S # {}
    PROVE  /\ CallsOf(c, d, S) /\ c[d] # None /\ c[d].def
           /\ \A k \in S : Genuine(c, Least(c, entries), k)
<1> DEFINE all == AllSinks(c, LeastPairs(c, entries))
<1>1. all \in SUBSET Sinks /\ \A k \in all : k.site \in SitesIn(c, Modules)
  BY AllSinksType, LeastFacts
<1>2. SinksOf(c, all, d) \subseteq all
  BY DEF SinksOf
<1> HIDE DEF all
<1>3. /\ SinksOf(c, all, d) \in SUBSET Sinks /\ c[d] # None /\ c[d].def
      /\ \A k \in SinksOf(c, all, d) : k.site \in SitesIn(c, {d})
  BY <1>1, SinksOfType DEF all
<1>4. CallsOf(c, d, S)
  BY <1>3 DEF CallsOf, all
<1> QED
  BY <1>2, <1>3, <1>4, LeastSinksGenuine DEF all

\* A steady definition that some of the least fixed point's sinks rate is in it, and
\* unless the org pack names it, as those sinks derive it.
LEMMA LeastDerives ==
    ASSUME NEW c \in Trees, NEW entries \in Entries, NEW d \in Modules, Steady(c, d),
           OrgPack[d] = None,
           NEW S, CallsOf(c, d, S), \A k \in S : Genuine(c, Least(c, entries), k),
           SinksOf(c, AllSinks(c, LeastPairs(c, entries)), d) # {}, Rated(c, d, S)
    PROVE  Least(c, entries)[d] = Derive(c, d, S) /\ Least(c, entries)[d] # None
<1> DEFINE L == LeastPairs(c, entries)
           mine == SinksOf(c, AllSinks(c, L), d)
<1>1. CallsOf(c, d, mine) /\ c[d] # None /\ c[d].def
      /\ \A k \in mine : Genuine(c, Least(c, entries), k)
  BY SomeSinksAreCalls
<1>2. Rated(c, d, mine)
  <2> HIDE DEF mine
  <2> QED
    BY <1>1, SteadyAgree
<1>3. Least(c, entries)[d] # None
  BY <1>2, LeastIsClosed
<1> DEFINE p == <<d, Least(c, entries)[d]>>
<1>4. p \in L /\ p[1] = d /\ p[2] = Least(c, entries)[d]
  BY <1>3, PairOfLeast
<1>5. p \notin FirstPairs(c, entries)
  <2>1. Seeds(c, External(c, entries))[d] = None
    BY <1>1 DEF Seeds, External
  <2> QED
    BY <2>1 DEF FirstPairs
<1> HIDE DEF p
<1>6. PICK P \in SUBSET L : /\ Rated(c, d, SinksOf(c, AllSinks(c, P), d))
                            /\ p[2] = Derive(c, d, SinksOf(c, AllSinks(c, P), d))
  BY <1>4, <1>5, LeastFacts
<1> DEFINE some == SinksOf(c, AllSinks(c, P), d)
<1>7. some \subseteq mine
  BY AllSinksMonotone, SinksOfMonotone
<1>8. some # {}
  BY <1>6 DEF Rated
<1>9. CallsOf(c, d, some) /\ \A k \in some : Genuine(c, Least(c, entries), k)
  <2> HIDE DEF some
  <2> QED
    BY <1>7, <1>8, SomeSinksAreCalls
<1>10. p[2] = Derive(c, d, some)
  BY <1>6
<1> HIDE DEF some, mine, L
<1>11. Derive(c, d, some) = Derive(c, d, S)
  BY <1>9, SteadyAgree
<1> QED
  BY <1>3, <1>4, <1>10, <1>11

\* The models and methods that callers see do not depend on where an entry is from.
LEMMA SourceIsNoMatter ==
    ASSUME NEW c, NEW M, NEW d, NEW i \in Infos, NEW j \in Infos, Loaded(i) = Loaded(j)
    PROVE  /\ WrapperSinks(c, M, d, i) = WrapperSinks(c, M, d, j)
           /\ i.kind = j.kind /\ i.methods = j.methods
<1>1. /\ i.kind = j.kind /\ i.attribution = j.attribution /\ i.model = j.model
      /\ i.methods = j.methods /\ i.ctor = j.ctor
  BY DEF Loaded, Infos
<1>2. \A s : CallsWrapper(c, s, d, i) <=> CallsWrapper(c, s, d, j)
  BY <1>1 DEF CallsWrapper
<1>3. \A site : ModelAtCall(d, i, site) = ModelAtCall(d, j, site)
  BY <1>1 DEF ModelAtCall
<1> QED
  BY <1>1, <1>2, <1>3 DEF WrapperSinks

LEMMA LoadedFacts ==
    ASSUME NEW i \in Infos
    PROVE  Loaded(i) \in Infos /\ Loaded(Loaded(i)) = Loaded(i) /\ Loaded(i) # None
           /\ Loaded(i).hash = i.hash /\ Loaded(i).source = "registry"
<1>1. Loaded(i) \in Infos
  BY DEF Loaded, Infos
<1> QED
  BY <1>1, NoneAssumption DEF Loaded, Infos

-----------------------------------------------------------------------------
(* Where entries come from *)

\* Raw sinks are calls to the model itself, the others are calls to a definition.
KindRight(c, k) == k.kind = IF At(c, k.site).callee = LLM THEN "raw" ELSE "wrapper"

\* Some version of some repository had the definition, and calls in it that rate it
\* derive the entry.
Origin(e, d, c, S) ==
    /\ c[d] # None /\ c[d].def /\ e.hash = c[d]
    /\ CallsOf(c, d, S)
    /\ \A k \in S : KindRight(c, k)
    /\ Rated(c, d, S)
    /\ Loaded(e) = Loaded(Derive(c, d, S))

RightFor(e, d) == \E c \in Trees, S \in SUBSET Sinks : Origin(e, d, c, S)

EntriesRight(entries) == \A d \in Modules : entries[d] # None => RightFor(entries[d], d)

OriginInv ==
    /\ EntriesRight(registry)
    /\ run # Idle =>
          /\ EntriesRight(run.known)
          /\ \A d \in Modules :
                run.classified[d] # None /\ run.classified[d].source # "org_pack"
                    => RightFor(run.classified[d], d)
          /\ \A k \in run.sinks : KindRight(code[run.repo], k)

LEMMA LoadedRight ==
    ASSUME NEW i \in Infos, NEW d, RightFor(i, d)
    PROVE  RightFor(Loaded(i), d)
<1>1. PICK c \in Trees, S \in SUBSET Sinks : Origin(i, d, c, S)
  BY DEF RightFor
<1>2. Origin(Loaded(i), d, c, S)
  BY <1>1, LoadedFacts DEF Origin
<1> QED
  BY <1>2 DEF RightFor

LEMMA SeedsRight ==
    ASSUME NEW c \in Trees, NEW entries \in Entries, EntriesRight(entries),
           NEW d \in Modules, Seeds(c, entries)[d] # None, Seeds(c, entries)[d].source # "org_pack"
    PROVE  RightFor(Seeds(c, entries)[d], d)
<1>1. OrgPack[d] = None
  BY OrgPackAssumption DEF Seeds
<1>2. Seeds(c, entries)[d] = Loaded(entries[d]) /\ entries[d] # None
  BY <1>1 DEF Seeds
<1>3. entries[d] \in Infos
  BY <1>2 DEF Entries
<1> QED
  BY <1>2, <1>3, LoadedRight DEF EntriesRight

LEMMA SinksKindRight ==
    ASSUME NEW c, NEW M, NEW d \in Modules, NEW info
    PROVE  /\ \A k \in RawSinks(c, M) : KindRight(c, k)
           /\ \A k \in WrapperSinks(c, M, d, info) : KindRight(c, k)
BY CallsAssumption DEF RawSinks, WrapperSinks, CallsWrapper, KindRight

LEMMA DerivedRight ==
    ASSUME NEW c \in Trees, NEW d \in Modules, NEW sinks \in SUBSET Sinks,
           \A k \in sinks : k.site \in SitesIn(c, Modules) /\ KindRight(c, k),
           Rated(c, d, SinksOf(c, sinks, d))
    PROVE  RightFor(Derive(c, d, SinksOf(c, sinks, d)), d)
<1> DEFINE mine == SinksOf(c, sinks, d)
<1>1. mine # {} /\ mine \subseteq sinks
  BY DEF Rated, SinksOf
<1>2. /\ mine \in SUBSET Sinks /\ c[d] # None /\ c[d].def
      /\ \A k \in mine : k.site \in SitesIn(c, {d})
  BY <1>1, SinksOfType
<1>3. Derive(c, d, mine).hash = c[d]
  BY DEF Derive
<1>4. Origin(Derive(c, d, mine), d, c, mine)
  BY <1>1, <1>2, <1>3 DEF Origin, CallsOf
<1> QED
  BY <1>2, <1>4 DEF RightFor

LEMMA InitOrigin == Init => OriginInv
BY DEF Init, OriginInv, EntriesRight, NoEntries

LEMMA StartScanOrigin ==
    ASSUME TypeInv, OriginInv, NEW r \in Repos, NEW mode \in {"full", "incremental"},
           StartScan(r, mode)
    PROVE  OriginInv'
<1> DEFINE c == code[r]
           only == IF mode = "full" THEN Present(c) ELSE Affected(c, Changed(cache[r].code, c))
<1>1. c \in Trees /\ registry \in Entries /\ EntriesRight(registry)
  BY DEF TypeInv, TypeOK, OriginInv
<1>2. /\ run'.known = registry /\ run'.classified = Seeds(c, registry)
      /\ run'.sinks = RawSinks(c, only) /\ code'[run'.repo] = c /\ registry' = registry
  BY DEF StartScan
<1> HIDE DEF c, only
<1>3. \A d \in Modules : run'.classified[d] # None /\ run'.classified[d].source # "org_pack"
          => RightFor(run'.classified[d], d)
  BY <1>1, <1>2, SeedsRight
<1>4. \A k \in run'.sinks : KindRight(c, k)
  BY <1>2 DEF RawSinks, KindRight
<1> QED
  BY <1>1, <1>2, <1>3, <1>4 DEF OriginInv, EntriesRight

LEMMA ExpandOrigin == ASSUME TypeInv, OriginInv, Expand PROVE OriginInv'
<1>1. PICK d \in Modules, info \in Infos \cup {None}, new \in SUBSET Sinks :
         Round(d, info, new) /\ run' \in Runs
  BY ExpandRound
<1>2. run # Idle /\ run \in Runs /\ code[run.repo] \in Trees /\ code' = code
  <2>1. run # Idle
    BY DEF Expand, Idle
  <2> QED
    BY <2>1, ScanRunning DEF TypeInv, Expand
<1> DEFINE c == code[run.repo]
           mine == SinksOf(c, run.sinks, d)
<1>3. code'[run'.repo] = c /\ run'.known = run.known /\ registry' = registry
  BY <1>1, <1>2 DEF Round, Expand
<1>4. \A k \in run.sinks : k.site \in SitesIn(c, Modules) /\ KindRight(c, k)
  BY <1>2 DEF TypeInv, SinksReal, OriginInv
<1>5. info # None /\ info.source # "org_pack" => RightFor(info, d)
  <2>1. CASE run.classified[d] # None
    BY <1>1, <1>2, <2>1 DEF Round, OriginInv
  <2>2. CASE run.classified[d] = None /\ Rated(c, d, mine)
    <3>1. info = Derive(c, d, mine)
      BY <1>1, <2>2 DEF Round
    <3>2. run.sinks \in SUBSET Sinks /\ c \in Trees
      BY <1>2 DEF Runs
    <3> HIDE DEF c
    <3> QED
      BY <1>4, <2>2, <3>1, <3>2, DerivedRight
  <2>3. CASE run.classified[d] = None /\ ~Rated(c, d, mine)
    BY <1>1, <2>3 DEF Round
  <2> QED
    BY <2>1, <2>2, <2>3
<1>6. \A k \in new : KindRight(c, k)
  BY <1>1, SinksKindRight DEF Round
<1>7. run'.sinks = run.sinks \cup new
      /\ run'.classified = [run.classified EXCEPT ![d] = info] /\ run.classified \in Entries
  BY <1>1, <1>2 DEF Round, Runs
<1>8. \A k \in run'.sinks : KindRight(c, k)
  BY <1>4, <1>6, <1>7
<1>9. ASSUME NEW e \in Modules, run'.classified[e] # None, run'.classified[e].source # "org_pack"
      PROVE  RightFor(run'.classified[e], e)
  <2>1. CASE e = d
    BY <1>5, <1>7, <1>9, <2>1 DEF Entries
  <2>2. CASE e # d
    <3>1. run'.classified[e] = run.classified[e]
      BY <1>7, <2>2 DEF Entries
    <3> QED
      BY <1>2, <1>9, <3>1 DEF OriginInv
  <2> QED
    BY <2>1, <2>2
<1> HIDE DEF c
<1>10. EntriesRight(registry') /\ EntriesRight(run'.known)
  BY <1>2, <1>3 DEF OriginInv
<1> QED
  BY <1>3, <1>8, <1>9, <1>10 DEF OriginInv, EntriesRight

LEMMA PersistedRight == ASSUME TypeInv, OriginInv, run # Idle PROVE EntriesRight(Persisted)
BY DEF EntriesRight, Persisted, OriginInv

LEMMA NextOrigin == ASSUME TypeInv, OriginInv, [Next]_vars PROVE OriginInv'
<1>1. ASSUME NEW r \in Repos, NEW new \in Programs[r], Edit(r, new) PROVE OriginInv'
  BY <1>1 DEF Edit, OriginInv, EntriesRight
<1>2. ASSUME NEW r \in Repos, NEW mode \in {"full", "incremental"}, StartScan(r, mode)
      PROVE  OriginInv'
  BY <1>2, StartScanOrigin
<1>3. ASSUME Expand PROVE OriginInv'
  BY <1>3, ExpandOrigin
<1>4. ASSUME Save PROVE OriginInv'
  <2>1. run # Idle /\ run \in Runs
    BY <1>4, ScanRunning DEF Save, Idle, TypeInv
  <2>2. EntriesRight(registry')
    BY <1>4, <2>1, PersistedRight DEF Save, OriginInv
  <2>3. /\ run'.known = run.known /\ run'.classified = run.classified
        /\ run'.sinks = run.sinks /\ code'[run'.repo] = code[run.repo]
    BY <1>4, <2>1 DEF Save, Runs
  <2> QED
    BY <2>1, <2>2, <2>3 DEF OriginInv, EntriesRight
<1>5. ASSUME Finish PROVE OriginInv'
  BY <1>5 DEF Finish, OriginInv, EntriesRight
<1>6. ASSUME Crash PROVE OriginInv'
  <2>1. EntriesRight(registry')
    BY <1>6 DEF Crash, NoEntries, EntriesRight, OriginInv
  <2>2. run' = Idle
    BY <1>6 DEF Crash
  <2> QED
    BY <2>1, <2>2 DEF OriginInv, EntriesRight
<1>7. CASE UNCHANGED vars
  BY <1>7 DEF vars, OriginInv, EntriesRight
<1> QED
  BY <1>1, <1>2, <1>3, <1>4, <1>5, <1>6, <1>7 DEF Next

-----------------------------------------------------------------------------
(* A scan and the least fixed point *)

\* The registry holds what is right for this repository.
Settled(c, known) == AllSteady(c) /\ SecondOrderEntriesRight(c, known)

\* info is what the least fixed point says of d.
AsLeast(c, known, d, info) ==
    Least(c, known)[d] # None /\ Loaded(info) = Loaded(Least(c, known)[d])

\* An entry of the same content, for a definition that calls no other wrapper.
LEMMA FirstOrderAgrees ==
    ASSUME NEW c \in Trees, NEW known \in Entries, AllSteady(c), NEW d \in Modules,
           NEW e \in Infos, RightFor(e, d), c[d] # None, c[d].def, e.hash = c[d],
           Callees(c, d) = {}, OrgPack[d] = None
    PROVE  AsLeast(c, known, d, e)
<1>1. PICK b \in Trees, S \in SUBSET Sinks : Origin(e, d, b, S)
  BY DEF RightFor
<1>2. /\ b[d] = c[d] /\ c[d] = b[d] /\ CallsOf(b, d, S) /\ Rated(b, d, S)
      /\ \A k \in S : KindRight(b, k)
      /\ Loaded(e) = Loaded(Derive(b, d, S))
  BY <1>1 DEF Origin
<1>3. /\ CallsOf(c, d, S) /\ Rated(c, d, S) /\ Derive(c, d, S) = Derive(b, d, S)
      /\ \A k \in S : At(c, k.site) = At(b, k.site)
  <2>1. /\ CallsOf(c, d, S) /\ (Rated(c, d, S) <=> Rated(b, d, S))
        /\ Derive(c, d, S) = Derive(b, d, S)
        /\ \A k \in S : At(c, k.site) = At(b, k.site)
    BY <1>2, SameCodeRatesAlike
  <2> QED
    BY <1>2, <2>1
<1>4. ASSUME NEW k \in S PROVE At(c, k.site).callee = LLM
  BY <1>3 DEF CallsOf, Callees
<1>5. \A k \in S : Genuine(c, Least(c, known), k)
  BY <1>2, <1>3, <1>4 DEF KindRight, Genuine
<1>6. SinksOf(c, AllSinks(c, LeastPairs(c, known)), d) # {}
  <2>1. PICK k \in S : TRUE
    BY <1>3 DEF CallsOf
  <2>2. k.site \in SitesIn(c, {d}) /\ k.site[1] = d
    BY <1>3, SiteOfDefinition DEF CallsOf
  <2>3. k.site \in SitesIn(c, Modules)
    BY <2>2 DEF SitesIn
  <2> DEFINE raw == [site |-> k.site, kind |-> "raw", model |-> Literal(At(c, k.site))]
  <2>4. raw \in RawSinks(c, Modules) /\ raw.site[1] = d
    BY <1>4, <2>2, <2>3 DEF RawSinks
  <2> HIDE DEF raw
  <2> QED
    BY <2>4 DEF AllSinks, SinksOf
<1>7. Steady(c, d)
  BY DEF AllSteady
<1>8. Least(c, known)[d] = Derive(c, d, S) /\ Least(c, known)[d] # None
  BY <1>3, <1>5, <1>6, <1>7, LeastDerives
<1>9. Loaded(e) = Loaded(Least(c, known)[d])
  BY <1>2, <1>3, <1>8, Zenon
<1> QED
  BY <1>8, <1>9 DEF AsLeast

LEMMA SeedsAgree ==
    ASSUME NEW c \in Trees, NEW known \in Entries, Settled(c, known), EntriesRight(known),
           NEW d \in Modules, Seeds(c, known)[d] # None
    PROVE  AsLeast(c, known, d, Seeds(c, known)[d])
<1> DEFINE first == Seeds(c, External(c, known))
<1>1. ASSUME first[d] # None, first[d] = Seeds(c, known)[d]
      PROVE  AsLeast(c, known, d, Seeds(c, known)[d])
  <2> DEFINE p == <<d, first[d]>>
  <2>1. p \in FirstPairs(c, known) /\ p[1] = d /\ p[2] = first[d]
    BY <1>1 DEF FirstPairs
  <2> HIDE DEF p, first
  <2>2. p \in LeastPairs(c, known)
    BY <2>1, LeastFacts
  <2>3. Least(c, known)[d] = first[d]
    BY <2>1, <2>2, LeastOfPair
  <2> QED
    BY <1>1, <2>3 DEF AsLeast
<1>2. CASE OrgPack[d] # None
  <2>1. first[d] = OrgPack[d] /\ Seeds(c, known)[d] = OrgPack[d]
    BY <1>2 DEF Seeds
  <2> HIDE DEF first
  <2> QED
    BY <1>1, <1>2, <2>1
<1>3. CASE OrgPack[d] = None /\ ~(c[d] # None /\ c[d].def)
  <2>1. first[d] = Seeds(c, known)[d]
    BY <1>3 DEF Seeds, External, HashCurrent
  <2> HIDE DEF first
  <2> QED
    BY <1>1, <2>1
<1>4. CASE OrgPack[d] = None /\ c[d] # None /\ c[d].def
  <2>1. Seeds(c, known)[d] = Loaded(known[d]) /\ known[d] # None /\ known[d].hash = c[d]
    BY <1>4 DEF Seeds, HashCurrent
  <2>2. known[d] \in Infos /\ RightFor(known[d], d)
    BY <2>1 DEF Entries, EntriesRight
  <2>3. AsLeast(c, known, d, known[d])
    <3>1. CASE Callees(c, d) = {}
      BY <1>4, <2>1, <2>2, <3>1, FirstOrderAgrees DEF Settled
    <3>2. CASE Callees(c, d) # {}
      BY <1>4, <2>1, <3>2 DEF Settled, SecondOrderEntriesRight, AsLeast
    <3> QED
      BY <3>1, <3>2
  <2> QED
    BY <2>1, <2>2, <2>3, LoadedFacts DEF AsLeast
<1> QED
  BY <1>2, <1>3, <1>4

\* What the calls found so far derive is what all of them derive.
LEMMA DerivedAgrees ==
    ASSUME NEW c \in Trees, NEW known \in Entries, AllSteady(c), NEW d \in Modules,
           Seeds(c, known)[d] = None, NEW sinks,
           sinks \subseteq AllSinks(c, LeastPairs(c, known)), Rated(c, d, SinksOf(c, sinks, d))
    PROVE  AsLeast(c, known, d, Derive(c, d, SinksOf(c, sinks, d)))
<1> DEFINE mine == SinksOf(c, sinks, d)
           all == SinksOf(c, AllSinks(c, LeastPairs(c, known)), d)
<1>1. mine \subseteq all /\ mine # {}
  BY SinksOfMonotone DEF Rated
<1>2. OrgPack[d] = None
  BY DEF Seeds
<1>3. Rated(c, d, mine)
  OBVIOUS
<1> HIDE DEF mine, all
<1>4. CallsOf(c, d, mine) /\ c[d] # None /\ c[d].def
      /\ \A k \in mine : Genuine(c, Least(c, known), k)
  BY <1>1, SomeSinksAreCalls DEF all
<1>5. all # {} /\ Steady(c, d)
  BY <1>1, <1>4 DEF AllSteady
<1>6. Least(c, known)[d] = Derive(c, d, mine) /\ Least(c, known)[d] # None
  BY <1>2, <1>3, <1>4, <1>5, LeastDerives DEF all
<1> QED
  BY <1>6 DEF AsLeast, mine

LEMMA NewSinksAgree ==
    ASSUME NEW c \in Trees, NEW known \in Entries, NEW d \in Modules, NEW info \in Infos,
           AsLeast(c, known, d, info)
    PROVE  WrapperSinks(c, Modules, d, info) \subseteq AllSinks(c, LeastPairs(c, known))
<1> DEFINE p == <<d, Least(c, known)[d]>>
<1>1. p \in LeastPairs(c, known) /\ p[1] = d /\ p[2] = Least(c, known)[d]
  BY PairOfLeast DEF AsLeast
<1> HIDE DEF p
<1>2. p[2] \in Infos
  BY <1>1, LeastOfPair
<1>3. WrapperSinks(c, Modules, d, info) = WrapperSinks(c, Modules, p[1], p[2])
  BY <1>1, <1>2, SourceIsNoMatter DEF AsLeast
<1> QED
  BY <1>1, <1>3 DEF AllSinks

-----------------------------------------------------------------------------
(* The invariant of a scan *)

\* In any scan: what was known stays, what is used is known, and what was taken but
\* not classified was not rated for the calls that were known then.
Progress ==
    LET c == code[run.repo]
    IN  /\ \A d \in Modules : Seeds(c, run.known)[d] # None
                                => run.classified[d] = Seeds(c, run.known)[d]
        /\ \A d \in run.used : run.classified[d] # None
        /\ run.pc = "saved" => run.pending = {}
        /\ \A d \in run.pending : run.classified[d] = None => SinksOf(c, run.sinks, d) # {}
        /\ \A d \in run.expanded : run.classified[d] = None =>
              \E S \in SUBSET SinksOf(c, run.sinks, d) : S # {} /\ ~Rated(c, d, S)

\* The modules a scan looks at.
Scope ==
    LET c == code[run.repo]
    IN  IF run.mode = "full" THEN run.only = Present(c)
        ELSE CanIncremental(run.repo)
             /\ run.only = Affected(c, Changed(cache[run.repo].code, c))

\* A scan has all raw sinks of those modules, and nothing that the least fixed point
\* has not.
Sound ==
    LET c == code[run.repo]
    IN  /\ RawSinks(c, run.only) \subseteq run.sinks
        /\ \A k \in run.sinks : k.site[1] \in run.only
        /\ Settled(c, run.known) =>
              /\ run.sinks \subseteq AllSinks(c, LeastPairs(c, run.known))
              /\ \A d \in Modules : run.classified[d] # None
                                       => AsLeast(c, run.known, d, run.classified[d])

ScanInv == run # Idle => Progress /\ Scope /\ Sound

LEMMA StartScanInv ==
    ASSUME TypeInv, OriginInv, NEW r \in Repos, NEW mode \in {"full", "incremental"},
           StartScan(r, mode)
    PROVE  ScanInv'
<1> DEFINE c == code[r]
           only == IF mode = "full" THEN Present(c) ELSE Affected(c, Changed(cache[r].code, c))
           sinks == RawSinks(c, only)
<1>1. c \in Trees /\ registry \in Entries /\ EntriesRight(registry)
  BY DEF TypeInv, TypeOK, OriginInv
<1>2. /\ run'.known = registry /\ run'.classified = Seeds(c, registry) /\ run'.only = only
      /\ run'.sinks = sinks /\ code'[run'.repo] = c /\ run'.mode = mode /\ run'.pc = "expand"
      /\ run'.expanded = {} /\ run'.used = {}
      /\ run'.pending = {d \in Modules : SinksOf(c, sinks, d) # {}
                                            \/ Seeds(c, registry)[d] # None}
  BY DEF StartScan
<1> HIDE DEF c
<1>3. Progress'
  BY <1>2 DEF Progress
<1>4. Scope'
  BY <1>2 DEF StartScan, Scope, CanIncremental, c
<1>5. Sound'
  <2>1. sinks \subseteq AllSinks(c, LeastPairs(c, registry))
    <3>1. RawSinks(c, only) \subseteq RawSinks(c, Modules)
      <4>1. only \subseteq Modules
        BY DEF Present, Affected
      <4>2. SitesIn(c, only) \subseteq SitesIn(c, Modules)
        BY <4>1 DEF SitesIn
      <4> QED
        BY <4>2 DEF RawSinks
    <3> QED
      BY <3>1 DEF AllSinks
  <2>2. \A k \in sinks : k.site[1] \in only
    BY DEF RawSinks, SitesIn
  <2>3. Settled(c, registry) =>
           \A d \in Modules : Seeds(c, registry)[d] # None
                                 => AsLeast(c, registry, d, Seeds(c, registry)[d])
    BY <1>1, SeedsAgree
  <2> HIDE DEF only
  <2> QED
    BY <1>2, <2>1, <2>2, <2>3 DEF Sound
<1> QED
  BY <1>3, <1>4, <1>5 DEF ScanInv

LEMMA ExpandScanInv == ASSUME TypeInv, ScanInv, Expand PROVE ScanInv'
<1>1. PICK d \in Modules, info \in Infos \cup {None}, new \in SUBSET Sinks :
         Round(d, info, new) /\ run' \in Runs
  BY ExpandRound
<1>2. run # Idle /\ run \in Runs /\ code[run.repo] \in Trees /\ code' = code /\ run.pc = "expand"
  <2>1. run # Idle /\ run.pc = "expand"
    BY DEF Expand, Idle
  <2> QED
    BY <2>1, ScanRunning DEF TypeInv, Expand
<1> DEFINE c == code[run.repo]
           known == run.known
           mine == SinksOf(c, run.sinks, d)
<1>3. /\ code'[run'.repo] = c /\ run'.known = known /\ run'.only = run.only
      /\ run'.mode = run.mode /\ run'.pc = "expand"
  BY <1>1, <1>2 DEF Round
<1>4. c \in Trees /\ known \in Entries /\ run.classified \in Entries /\ run.sinks \in SUBSET Sinks
  BY <1>2 DEF Runs
<1>5. /\ run'.sinks = run.sinks \cup new /\ run'.expanded = run.expanded \cup {d}
      /\ run'.classified = [run.classified EXCEPT ![d] = info]
      /\ run'.used = (IF new # {} THEN run.used \cup {d} ELSE run.used)
      /\ run'.pending = (run.pending \ {d}) \cup Enqueued(c, new, d, run.expanded \cup {d})
      /\ new = (IF info = None THEN {} ELSE WrapperSinks(c, run.only, d, info))
      /\ info = (IF run.classified[d] # None THEN run.classified[d]
                 ELSE IF Rated(c, d, mine) THEN Derive(c, d, mine) ELSE None)
      /\ d \in run.pending
  BY <1>1 DEF Round
<1>6. /\ run'.classified[d] = info
      /\ \A e \in Modules \ {d} : run'.classified[e] = run.classified[e]
  BY <1>4, <1>5 DEF Entries
<1>7. \A e : SinksOf(c, run.sinks, e) \subseteq SinksOf(c, run'.sinks, e)
             /\ SinksOf(c, new, e) \subseteq SinksOf(c, run'.sinks, e)
  BY <1>5, SinksOfMonotone
<1>8. Progress /\ Scope /\ Sound
  BY <1>2 DEF ScanInv
<1> HIDE DEF c, known
<1>9. Progress'
  <2>1. \A e \in Modules : Seeds(c, known)[e] # None => run'.classified[e] = Seeds(c, known)[e]
    BY <1>5, <1>6, <1>8 DEF Progress, c, known
  <2>2. \A e \in run'.used : run'.classified[e] # None
    <3> SUFFICES ASSUME NEW e \in run'.used PROVE run'.classified[e] # None
      OBVIOUS
    <3>1. CASE e = d /\ new # {}
      BY <1>5, <1>6, <3>1
    <3>2. CASE e \in run.used
      <4>1. e \in Modules /\ run.classified[e] # None
        BY <1>2, <1>8, <3>2 DEF Progress, Runs
      <4>2. CASE e = d
        BY <1>5, <1>6, <4>1, <4>2
      <4>3. CASE e # d
        BY <1>6, <4>1, <4>3
      <4> QED
        BY <4>2, <4>3
    <3> QED
      BY <1>5, <3>1, <3>2
  <2>3. \A e \in run'.pending : run'.classified[e] = None => SinksOf(c, run'.sinks, e) # {}
    <3> SUFFICES ASSUME NEW e \in run'.pending, run'.classified[e] = None
                 PROVE  SinksOf(c, run'.sinks, e) # {}
      OBVIOUS
    <3>1. CASE e \in Enqueued(c, new, d, run.expanded \cup {d})
      BY <1>7, <3>1 DEF Enqueued
    <3>2. CASE e \in run.pending /\ e # d
      <4>1. e \in Modules
        BY <1>2, <3>2 DEF Runs
      <4>2. run.classified[e] = None
        BY <1>6, <3>2, <4>1
      <4>3. SinksOf(c, run.sinks, e) # {}
        BY <1>8, <3>2, <4>2 DEF Progress, c
      <4> QED
        BY <1>7, <4>3
    <3> QED
      BY <1>5, <3>1, <3>2
  <2>4. \A e \in run'.expanded : run'.classified[e] = None =>
           \E S \in SUBSET SinksOf(c, run'.sinks, e) : S # {} /\ ~Rated(c, e, S)
    <3> SUFFICES ASSUME NEW e \in run'.expanded, run'.classified[e] = None
                 PROVE  \E S \in SUBSET SinksOf(c, run'.sinks, e) : S # {} /\ ~Rated(c, e, S)
      OBVIOUS
    <3>1. CASE e = d
      <4>1. run.classified[d] = None
        BY <1>5, <1>6, <3>1
      <4>2. ~Rated(c, d, mine)
        <5>1. ASSUME Rated(c, d, mine) PROVE FALSE
          <6>1. info = Derive(c, d, mine)
            BY <1>5, <4>1, <5>1
          <6>2. Derive(c, d, mine) = None
            BY <1>6, <3>1, <6>1
          <6>3. mine # {}
            BY <5>1 DEF Rated
          <6>4. \A k \in run.sinks : k.site \in SitesIn(c, Modules)
            BY <1>2 DEF TypeInv, SinksReal, c
          <6>5. Derive(c, d, mine) \in Infos
            BY <1>4, <6>3, <6>4, SinksOfType
          <6> QED
            BY <6>2, <6>5, NoneAssumption
        <5> QED
          BY <5>1
      <4>3. mine # {}
        BY <1>5, <1>8, <4>1 DEF Progress, c
      <4> QED
        BY <1>7, <3>1, <4>2, <4>3
    <3>2. CASE e # d
      <4>1. e \in run.expanded /\ e \in Modules
        BY <1>2, <1>5, <3>2 DEF Runs
      <4>2. run.classified[e] = None
        BY <1>6, <3>2, <4>1
      <4>3. PICK S \in SUBSET SinksOf(c, run.sinks, e) : S # {} /\ ~Rated(c, e, S)
        BY <1>8, <4>1, <4>2 DEF Progress, c
      <4> QED
        BY <1>7, <4>3
    <3> QED
      BY <3>1, <3>2
  <2> QED
    BY <1>3, <2>1, <2>2, <2>3, <2>4 DEF Progress
<1>10. Scope'
  BY <1>2, <1>3, <1>8 DEF Scope, Expand, CanIncremental, c
<1>11. Sound'
  <2>1. /\ RawSinks(c, run.only) \subseteq run'.sinks
        /\ \A k \in run'.sinks : k.site[1] \in run.only
    <3>1. \A k \in new : k.site[1] \in run.only
      BY <1>5 DEF WrapperSinks, SitesIn
    <3> QED
      BY <1>5, <1>8, <3>1 DEF Sound, c
  <2>2. ASSUME Settled(c, known)
        PROVE  /\ run'.sinks \subseteq AllSinks(c, LeastPairs(c, known))
               /\ \A e \in Modules : run'.classified[e] # None
                                        => AsLeast(c, known, e, run'.classified[e])
    <3>1. /\ run.sinks \subseteq AllSinks(c, LeastPairs(c, known))
          /\ \A e \in Modules : run.classified[e] # None
                                   => AsLeast(c, known, e, run.classified[e])
      BY <1>8, <2>2 DEF Sound, c, known
    <3>2. info # None => AsLeast(c, known, d, info)
      <4>1. CASE run.classified[d] # None
        BY <1>5, <3>1, <4>1
      <4>2. CASE run.classified[d] = None /\ Rated(c, d, mine)
        <5>1. info = Derive(c, d, mine)
          BY <1>5, <4>2
        <5>2. Seeds(c, known)[d] = None
          BY <1>8, <4>2 DEF Progress, c, known
        <5> QED
          BY <1>4, <2>2, <3>1, <4>2, <5>1, <5>2, DerivedAgrees DEF Settled
      <4>3. CASE run.classified[d] = None /\ ~Rated(c, d, mine)
        BY <1>5, <4>3
      <4> QED
        BY <4>1, <4>2, <4>3
    <3>3. new \subseteq AllSinks(c, LeastPairs(c, known))
      <4>1. CASE info = None
        BY <1>5, <4>1
      <4>2. CASE info # None
        <5>1. info \in Infos
          BY <4>2
        <5>2. new \subseteq WrapperSinks(c, Modules, d, info)
          <6>1. SitesIn(c, run.only) \subseteq SitesIn(c, Modules)
            BY <1>2 DEF SitesIn, Runs
          <6> QED
            BY <1>5, <4>2, <6>1 DEF WrapperSinks
        <5> QED
          BY <1>4, <3>2, <4>2, <5>1, <5>2, NewSinksAgree
      <4> QED
        BY <4>1, <4>2
    <3> QED
      BY <1>5, <1>6, <3>1, <3>2, <3>3
  <2> QED
    BY <1>3, <2>1, <2>2 DEF Sound
<1> QED
  BY <1>9, <1>10, <1>11 DEF ScanInv

LEMMA NextScanInv == ASSUME TypeInv, OriginInv, ScanInv, [Next]_vars PROVE ScanInv'
<1>1. ASSUME NEW r \in Repos, NEW new \in Programs[r], Edit(r, new) PROVE ScanInv'
  BY <1>1 DEF Edit, ScanInv
<1>2. ASSUME NEW r \in Repos, NEW mode \in {"full", "incremental"}, StartScan(r, mode)
      PROVE  ScanInv'
  BY <1>2, StartScanInv
<1>3. ASSUME Expand PROVE ScanInv'
  BY <1>3, ExpandScanInv
<1>4. ASSUME Save PROVE ScanInv'
  <2>1. run # Idle /\ run \in Runs /\ run.pending = {}
    BY <1>4, ScanRunning DEF Save, Idle, TypeInv
  <2>2. /\ run'.repo = run.repo /\ run'.only = run.only /\ run'.sinks = run.sinks
        /\ run'.classified = run.classified /\ run'.pending = run.pending
        /\ run'.expanded = run.expanded /\ run'.used = run.used /\ code' = code
        /\ run'.known = run.known /\ run'.mode = run.mode
    BY <1>4, <2>1 DEF Save, Runs
  <2>3. Progress /\ Scope /\ Sound
    BY <2>1 DEF ScanInv
  <2>4. Progress'
    BY <2>1, <2>2, <2>3 DEF Progress
  <2>5. Sound'
    BY <2>2, <2>3 DEF Sound
  <2>6. Scope'
    BY <1>4, <2>2, <2>3 DEF Save, Scope, CanIncremental
  <2> QED
    BY <2>4, <2>5, <2>6 DEF ScanInv
<1>5. ASSUME Finish PROVE ScanInv'
  BY <1>5 DEF Finish, ScanInv
<1>6. ASSUME Crash PROVE ScanInv'
  BY <1>6 DEF Crash, ScanInv
<1>7. CASE UNCHANGED vars
  <2>1. run' = run /\ code' = code /\ cache' = cache
    BY <1>7 DEF vars
  <2> QED
    BY <2>1 DEF ScanInv, Progress, Scope, Sound, CanIncremental
<1> QED
  BY <1>1, <1>2, <1>3, <1>4, <1>5, <1>6, <1>7 DEF Next

\* The work list ran empty, and the registry is right for this repository.
AtFixedPoint ==
    /\ TypeInv /\ run # Idle /\ run.pending = {}
    /\ Progress /\ Sound /\ FixedPointClosed
    /\ Settled(code[run.repo], run.known)

\* The wrappers that a scan has to find: those it looks at, those outside the
\* repository, and those that the modules it looks at call.
InView(d) ==
    LET c == code[run.repo]
    IN  \/ d \in run.only \/ c[d] = None
        \/ \E m \in run.only : d \in Callees(c, m)

\* The registry holds those it does not look at.
CalleesKnown ==
    LET c == code[run.repo]
    IN  \A d \in Present(c) \ run.only :
            InView(d) /\ Least(c, run.known)[d] # None => Seeds(c, run.known)[d] # None

LEMMA FixedPointFacts ==
    ASSUME AtFixedPoint
    PROVE  LET c == code[run.repo]
               known == run.known
           IN  /\ run \in Runs /\ c \in Trees /\ known \in Entries
               /\ run.only \in SUBSET Modules /\ run.classified \in Entries
               /\ RawSinks(c, run.only) \subseteq run.sinks
               /\ \A k \in run.sinks : k.site[1] \in run.only
               /\ run.sinks \subseteq AllSinks(c, LeastPairs(c, known))
               /\ \A d \in Modules : Seeds(c, known)[d] # None
                                       => run.classified[d] = Seeds(c, known)[d]
               /\ \A d \in Modules : run.classified[d] # None =>
                     /\ AsLeast(c, known, d, run.classified[d])
                     /\ WrapperSinks(c, run.only, d, run.classified[d]) \subseteq run.sinks
                     /\ d \in run.used <=> WrapperSinks(c, run.only, d, run.classified[d]) # {}
               /\ \A d \in run.used : d \in Modules /\ run.classified[d] # None
               /\ \A d \in Modules : SinksOf(c, run.sinks, d) # {} => d \in run.expanded
<1>1. run \in Runs /\ code[run.repo] \in Trees
  BY ScanRunning DEF AtFixedPoint, TypeInv
<1>2. run.known \in Entries /\ run.only \in SUBSET Modules /\ run.classified \in Entries
      /\ run.used \in SUBSET Modules
  BY <1>1 DEF Runs
<1> QED
  BY <1>1, <1>2 DEF AtFixedPoint, Progress, Sound, FixedPointClosed

\* The wrappers of the least fixed point that are in view are classified.
LEMMA ScanCompletes ==
    ASSUME AtFixedPoint, CalleesKnown
    PROVE  LET c == code[run.repo]
           IN  \A p \in LeastPairs(c, run.known) : InView(p[1]) => run.classified[p[1]] # None
<1> DEFINE c == code[run.repo]
           known == run.known
           X == {d \in Modules : InView(d) => run.classified[d] # None}
<1>1. /\ run \in Runs /\ c \in Trees /\ known \in Entries /\ run.only \in SUBSET Modules
      /\ run.classified \in Entries
  BY FixedPointFacts
<1>2. /\ RawSinks(c, run.only) \subseteq run.sinks
      /\ run.sinks \subseteq AllSinks(c, LeastPairs(c, known))
      /\ \A d \in Modules : Seeds(c, known)[d] # None => run.classified[d] = Seeds(c, known)[d]
      /\ \A d \in Modules : run.classified[d] # None =>
            /\ AsLeast(c, known, d, run.classified[d])
            /\ WrapperSinks(c, run.only, d, run.classified[d]) \subseteq run.sinks
      /\ \A d \in Modules : SinksOf(c, run.sinks, d) # {} => d \in run.expanded
  BY FixedPointFacts
<1>3. \A d \in run.expanded : run.classified[d] = None =>
         \E S \in SUBSET SinksOf(c, run.sinks, d) : S # {} /\ ~Rated(c, d, S)
  BY DEF AtFixedPoint, Progress
<1>4. AllSteady(c)
  BY DEF AtFixedPoint, Settled
<1>5. \A d \in Present(c) \ run.only :
         InView(d) /\ Least(c, known)[d] # None => run.classified[d] # None
  <2>1. \A d \in Present(c) \ run.only :
           InView(d) /\ Least(c, known)[d] # None => Seeds(c, known)[d] # None
    BY DEF CalleesKnown
  <2>2. Present(c) \subseteq Modules
    BY DEF Present
  <2> HIDE DEF c, known
  <2> QED
    BY <1>2, <2>1, <2>2
<1> HIDE DEF c, known
<1>6. ASSUME NEW p \in FirstPairs(c, known) PROVE p[1] \in X
  <2>1. p[1] \in Modules /\ Seeds(c, External(c, known))[p[1]] # None
    BY DEF FirstPairs
  <2>2. Seeds(c, known)[p[1]] # None
    <3>1. CASE OrgPack[p[1]] # None
      BY <2>1, <3>1 DEF Seeds
    <3>2. CASE OrgPack[p[1]] = None
      <4>1. External(c, known)[p[1]] # None
        BY <2>1, <3>2 DEF Seeds
      <4>2. ~(c[p[1]] # None /\ c[p[1]].def) /\ External(c, known)[p[1]] = known[p[1]]
        BY <2>1, <4>1 DEF External
      <4> QED
        BY <2>1, <3>2, <4>1, <4>2 DEF Seeds, HashCurrent, External
    <3> QED
      BY <3>1, <3>2
  <2> QED
    BY <1>2, <2>1, <2>2
<1>7. ASSUME NEW P \in SUBSET LeastPairs(c, known), NEW d \in Modules,
             \A p \in P : p[1] \in X, Rated(c, d, SinksOf(c, AllSinks(c, P), d))
      PROVE  d \in X
  <2> DEFINE some == SinksOf(c, AllSinks(c, P), d)
             mine == SinksOf(c, run.sinks, d)
             all == SinksOf(c, AllSinks(c, LeastPairs(c, known)), d)
  <2>1. some # {} /\ some \subseteq all /\ mine \subseteq all
    BY <1>2, <1>7, AllSinksMonotone, SinksOfMonotone DEF Rated
  <2>2. Rated(c, d, some)
    BY <1>7
  <2>3. /\ CallsOf(c, d, some) /\ c[d] # None /\ c[d].def
        /\ \A k \in some : Genuine(c, Least(c, known), k)
    <3> HIDE DEF some
    <3> QED
      BY <1>1, <2>1, SomeSinksAreCalls
  <2>4. Steady(c, d)
    BY <1>4, <2>3 DEF AllSteady
  <2> SUFFICES ASSUME InView(d), run.classified[d] = None PROVE FALSE
    OBVIOUS
  <2>5. d \in run.only
    <3>1. Rated(c, d, all)
      <4>1. CallsOf(c, d, all) /\ \A k \in all : Genuine(c, Least(c, known), k)
        <5>1. all # {}
          BY <2>1
        <5> HIDE DEF all
        <5> QED
          BY <1>1, <5>1, SomeSinksAreCalls DEF all
      <4> HIDE DEF all, some
      <4> QED
        BY <1>1, <2>2, <2>3, <2>4, <4>1, SteadyAgree
    <3>2. Least(c, known)[d] # None
      BY <1>1, <3>1, LeastIsClosed
    <3> QED
      BY <1>5, <2>3, <3>2 DEF Present
  <2>6. some \subseteq mine
    <3> SUFFICES ASSUME NEW k \in some PROVE k \in run.sinks
      BY <2>3 DEF SinksOf
    <3>1. k \in AllSinks(c, P) /\ k.site[1] = d /\ k.site \in SitesIn(c, {d})
      BY <2>3 DEF SinksOf, CallsOf
    <3>2. k.site \in SitesIn(c, run.only)
      BY <2>5, <3>1 DEF SitesIn
    <3>3. CASE k \in RawSinks(c, Modules)
      <4>1. k \in RawSinks(c, run.only)
        BY <3>2, <3>3 DEF RawSinks
      <4> QED
        BY <1>2, <4>1
    <3>4. CASE k \notin RawSinks(c, Modules)
      <4>1. PICK p \in P : k \in WrapperSinks(c, Modules, p[1], p[2])
        BY <3>1, <3>4 DEF AllSinks
      <4>2. p[1] \in Modules /\ p[2] \in Infos /\ Least(c, known)[p[1]] = p[2]
        BY <1>1, LeastOfPair
      <4>3. At(c, k.site).callee = p[1]
        BY <4>1 DEF WrapperSinks, CallsWrapper
      <4>4. p[1] \in Callees(c, d)
        BY <3>1, <4>2, <4>3, CallsAssumption DEF Callees
      <4>5. run.classified[p[1]] # None
        BY <1>7, <2>5, <4>4 DEF InView, c
      <4>6. run.classified[p[1]] \in Infos
        BY <1>1, <4>2, <4>5 DEF Entries
      <4>7. Loaded(run.classified[p[1]]) = Loaded(p[2])
        BY <1>2, <4>2, <4>5 DEF AsLeast
      <4>8. k \in WrapperSinks(c, Modules, p[1], run.classified[p[1]])
        BY <4>1, <4>2, <4>6, <4>7, SourceIsNoMatter
      <4>9. k \in WrapperSinks(c, run.only, p[1], run.classified[p[1]])
        BY <3>2, <4>8 DEF WrapperSinks
      <4> QED
        BY <1>2, <4>2, <4>5, <4>9
    <3> QED
      BY <3>3, <3>4
  <2>7. d \in run.expanded
    BY <1>2, <2>1, <2>6
  <2>8. PICK S \in SUBSET mine : S # {} /\ ~Rated(c, d, S)
    BY <1>3, <2>7
  <2> HIDE DEF some, mine
  <2>9. CallsOf(c, d, S) /\ \A k \in S : Genuine(c, Least(c, known), k)
    <3>1. S \subseteq all /\ S # {}
      BY <2>1, <2>8
    <3> QED
      BY <1>1, <3>1, SomeSinksAreCalls
  <2>10. Rated(c, d, S) <=> Rated(c, d, some)
    BY <1>1, <2>3, <2>4, <2>9, SteadyAgree
  <2> QED
    BY <2>2, <2>8, <2>10
<1> HIDE DEF X
<1>8. \A p \in LeastPairs(c, known) : p[1] \in X
  BY <1>1, <1>6, <1>7, LeastInduction
<1> QED
  BY <1>8 DEF X, c, known

\* The usages that are reported for the modules O depend on the sinks in them, and on
\* the wrappers defined in them.
HidesAlike(c, F, G, U, V, O) ==
    \A d \in O : c[d] # None /\ c[d].def =>
        /\ d \in U <=> d \in V
        /\ d \in U => F[d].kind = G[d].kind /\ F[d].methods = G[d].methods

LEMMA HiddenAt ==
    ASSUME NEW c, NEW sinks, NEW F, NEW U, NEW s
    PROVE  s \in Hidden(c, sinks, F, U) <=>
               \E d \in U : \E k \in SinksOf(c, sinks, d) :
                   /\ k.site = s
                   /\ F[d].kind = "class" /\ F[d].methods # {} => At(c, s).method \in F[d].methods
BY DEF Hidden

LEMMA HiddenAgree ==
    ASSUME NEW c, NEW b, NEW S, NEW T, NEW F, NEW G, NEW U, NEW V, NEW O, NEW s,
           s[1] \in O, \A d \in O : b[d] = c[d],
           \A k : k.site[1] \in O => (k \in S <=> k \in T),
           HidesAlike(c, F, G, U, V, O), s \in Hidden(c, S, F, U)
    PROVE  s \in Hidden(b, T, G, V)
<1>1. PICK d \in U : \E k \in SinksOf(c, S, d) :
         /\ k.site = s
         /\ F[d].kind = "class" /\ F[d].methods # {} => At(c, s).method \in F[d].methods
  BY HiddenAt
<1>2. PICK k \in SinksOf(c, S, d) :
         /\ k.site = s
         /\ F[d].kind = "class" /\ F[d].methods # {} => At(c, s).method \in F[d].methods
  BY <1>1
<1>3. d = s[1] /\ c[d] # None /\ c[d].def /\ k \in S
  BY <1>2 DEF SinksOf
<1>4. b[d] = c[d] /\ k \in T
  BY <1>2, <1>3
<1>5. k \in SinksOf(b, T, d)
  BY <1>2, <1>3, <1>4 DEF SinksOf
<1>6. d \in V /\ F[d].kind = G[d].kind /\ F[d].methods = G[d].methods
  BY <1>3 DEF HidesAlike
<1>7. At(b, s) = At(c, s)
  BY <1>3, <1>4 DEF At
<1>8. G[d].kind = "class" /\ G[d].methods # {} => At(b, s).method \in G[d].methods
  BY <1>2, <1>6, <1>7
<1> QED
  BY <1>2, <1>5, <1>6, <1>8, HiddenAt

LEMMA UsagesAgree ==
    ASSUME NEW c, NEW b, NEW S, NEW T, NEW F, NEW G, NEW U, NEW V, NEW O,
           \A d \in O : b[d] = c[d],
           \A k : k.site[1] \in O => (k \in S <=> k \in T),
           HidesAlike(c, F, G, U, V, O)
    PROVE  {f \in Usages(c, S, F, U) : f.mod \in O} = {f \in Usages(b, T, G, V) : f.mod \in O}
<1>1. HidesAlike(b, G, F, V, U, O)
  BY DEF HidesAlike
<1>2. \A s : s[1] \in O => (s \in Hidden(c, S, F, U) <=> s \in Hidden(b, T, G, V))
  BY <1>1, HiddenAgree
<1> DEFINE Fact(k) == [kind |-> "usage", mod |-> k.site[1], site |-> k.site[2], model |-> k.model]
<1>3. ASSUME NEW f
      PROVE  /\ f \in Usages(c, S, F, U)
                   <=> \E k \in S : k.site \notin Hidden(c, S, F, U) /\ f = Fact(k)
             /\ f \in Usages(b, T, G, V)
                   <=> \E k \in T : k.site \notin Hidden(b, T, G, V) /\ f = Fact(k)
  BY DEF Usages
<1>4. \A k : Fact(k).mod = k.site[1]
  OBVIOUS
<1> HIDE DEF Fact
<1>5. ASSUME NEW f, f.mod \in O
      PROVE  f \in Usages(c, S, F, U) <=> f \in Usages(b, T, G, V)
  <2>1. ASSUME f \in Usages(c, S, F, U) PROVE f \in Usages(b, T, G, V)
    <3>1. PICK k \in S : k.site \notin Hidden(c, S, F, U) /\ f = Fact(k)
      BY <1>3, <2>1
    <3>2. k.site[1] \in O
      BY <1>4, <1>5, <3>1
    <3>3. k \in T /\ k.site \notin Hidden(b, T, G, V)
      BY <1>2, <3>1, <3>2
    <3> QED
      BY <1>3, <3>1, <3>3
  <2>2. ASSUME f \in Usages(b, T, G, V) PROVE f \in Usages(c, S, F, U)
    <3>1. PICK k \in T : k.site \notin Hidden(b, T, G, V) /\ f = Fact(k)
      BY <1>3, <2>2
    <3>2. k.site[1] \in O
      BY <1>4, <1>5, <3>1
    <3>3. k \in S /\ k.site \notin Hidden(c, S, F, U)
      BY <1>2, <3>1, <3>2
    <3> QED
      BY <1>3, <3>1, <3>3
  <2> QED
    BY <2>1, <2>2
<1> QED
  BY <1>5

\* No module outside those a scan looks at calls one of them.
CallersInScope ==
    LET c == code[run.repo]
    IN  \A m \in Modules, d \in run.only : d \in Callees(c, m) => m \in run.only

\* A scan reports for the modules it looks at what a scan of everything should.
LEMMA ScanFindsItsPart ==
    ASSUME AtFixedPoint, CalleesKnown, CallersInScope
    PROVE  LET c == code[run.repo]
           IN  {f \in Usages(c, run.sinks, run.classified, run.used) : f.mod \in run.only}
                  = {f \in Reference(c, run.known) : f.mod \in run.only}
<1> DEFINE c == code[run.repo]
           known == run.known
           least == Least(c, known)
           all == AllSinks(c, LeastPairs(c, known))
           only == run.only
<1>1. /\ run \in Runs /\ c \in Trees /\ known \in Entries /\ only \in SUBSET Modules
      /\ run.classified \in Entries
  BY FixedPointFacts
<1>2. /\ RawSinks(c, only) \subseteq run.sinks
      /\ run.sinks \subseteq all
      /\ \A d \in Modules : run.classified[d] # None =>
            /\ AsLeast(c, known, d, run.classified[d])
            /\ WrapperSinks(c, only, d, run.classified[d]) \subseteq run.sinks
            /\ d \in run.used <=> WrapperSinks(c, only, d, run.classified[d]) # {}
      /\ \A d \in run.used : d \in Modules /\ run.classified[d] # None
  BY FixedPointFacts
<1>3. \A p \in LeastPairs(c, known) : InView(p[1]) => run.classified[p[1]] # None
  BY ScanCompletes
<1>4. \A m \in Modules, d \in only : d \in Callees(c, m) => m \in only
  BY DEF CallersInScope
<1>5. \A m \in only : \A d \in Callees(c, m) : InView(d)
  BY DEF InView
<1>6. \A d \in only : InView(d)
  BY DEF InView
<1> HIDE DEF c, known, least, all, only
<1>7. ASSUME NEW d \in Modules, run.classified[d] # None
      PROVE  /\ least[d] \in Infos /\ least[d] # None
             /\ \A M : WrapperSinks(c, M, d, run.classified[d]) = WrapperSinks(c, M, d, least[d])
             /\ run.classified[d].kind = least[d].kind
             /\ run.classified[d].methods = least[d].methods
  <2>1. least[d] # None /\ Loaded(run.classified[d]) = Loaded(least[d])
    BY <1>2, <1>7 DEF AsLeast, least
  <2> DEFINE p == <<d, least[d]>>
  <2>2. p \in LeastPairs(c, known) /\ p[2] = least[d]
    BY <1>1, <2>1, PairOfLeast DEF least
  <2> HIDE DEF p
  <2>3. least[d] \in Infos /\ run.classified[d] \in Infos
    BY <1>1, <1>7, <2>2, LeastOfPair DEF Entries
  <2> QED
    BY <2>1, <2>3, SourceIsNoMatter
<1>8. ASSUME NEW d \in Modules, least[d] # None, InView(d) PROVE run.classified[d] # None
  <2> DEFINE p == <<d, least[d]>>
  <2>1. p \in LeastPairs(c, known) /\ p[1] = d
    BY <1>1, <1>8, PairOfLeast DEF least
  <2> HIDE DEF p
  <2> QED
    BY <1>3, <1>8, <2>1
<1>9. ASSUME NEW k, k.site[1] \in only PROVE k \in run.sinks <=> k \in all
  <2> SUFFICES ASSUME k \in all PROVE k \in run.sinks
    BY <1>2
  <2>1. k.site \in SitesIn(c, Modules)
    BY <1>1, AllSinksType, LeastFacts DEF all
  <2>2. k.site \in SitesIn(c, only) /\ k.site \in SitesIn(c, {k.site[1]})
    BY <1>9, <2>1 DEF SitesIn
  <2>3. CASE k \in RawSinks(c, Modules)
    <3>1. k \in RawSinks(c, only)
      BY <2>2, <2>3 DEF RawSinks
    <3> QED
      BY <1>2, <3>1
  <2>4. CASE k \notin RawSinks(c, Modules)
    <3>1. PICK p \in LeastPairs(c, known) : k \in WrapperSinks(c, Modules, p[1], p[2])
      BY <2>4 DEF AllSinks, all
    <3>2. p[1] \in Modules /\ least[p[1]] = p[2]
      BY <1>1, LeastOfPair DEF least
    <3>3. At(c, k.site).callee = p[1]
      BY <3>1 DEF WrapperSinks, CallsWrapper
    <3>4. p[1] \in Callees(c, k.site[1])
      BY <2>2, <3>2, <3>3, CallsAssumption DEF Callees
    <3>5. run.classified[p[1]] # None
      BY <1>3, <1>5, <1>9, <3>4
    <3>6. k \in WrapperSinks(c, Modules, p[1], run.classified[p[1]])
      BY <1>7, <3>1, <3>2, <3>5
    <3>7. k \in WrapperSinks(c, only, p[1], run.classified[p[1]])
      BY <2>2, <3>6 DEF WrapperSinks
    <3> QED
      BY <1>2, <3>2, <3>5, <3>7
  <2> QED
    BY <2>3, <2>4
<1>10. ASSUME NEW d \in only
       PROVE  /\ d \in run.used <=> d \in UsedBy(c, least)
              /\ d \in run.used => run.classified[d].kind = least[d].kind
                                   /\ run.classified[d].methods = least[d].methods
  <2>1. d \in Modules /\ InView(d)
    BY <1>1, <1>6
  <2>2. ASSUME NEW info PROVE WrapperSinks(c, only, d, info) = WrapperSinks(c, Modules, d, info)
    <3>1. ASSUME NEW s \in SitesIn(c, Modules), At(c, s).callee = d PROVE s \in SitesIn(c, only)
      <4>1. s[1] \in Modules /\ s \in SitesIn(c, {s[1]})
        BY DEF SitesIn
      <4>2. d \in Callees(c, s[1])
        BY <2>1, <3>1, <4>1, CallsAssumption DEF Callees
      <4>3. s[1] \in only
        BY <1>4, <4>1, <4>2
      <4> QED
        BY <4>3 DEF SitesIn
    <3>2. SitesIn(c, only) \subseteq SitesIn(c, Modules)
      BY <1>1 DEF SitesIn
    <3> QED
      BY <3>1, <3>2 DEF WrapperSinks, CallsWrapper
  <2>3. d \in run.used => run.classified[d] # None
    BY <1>2
  <2>4. d \in UsedBy(c, least) <=> least[d] # None /\ WrapperSinks(c, Modules, d, least[d]) # {}
    BY <2>1 DEF UsedBy
  <2>5. run.classified[d] # None <=> least[d] # None
    BY <1>7, <1>8, <2>1
  <2> QED
    BY <1>2, <1>7, <2>1, <2>2, <2>3, <2>4, <2>5
<1>11. HidesAlike(c, run.classified, least, run.used, UsedBy(c, least), only)
  BY <1>10 DEF HidesAlike
<1>12. {f \in Usages(c, run.sinks, run.classified, run.used) : f.mod \in only}
          = {f \in Usages(c, all, least, UsedBy(c, least)) : f.mod \in only}
  BY <1>9, <1>11, UsagesAgree
<1> QED
  BY <1>12 DEF Reference, least, all, c, known, only

\* Every usage is in a module that has code.
LEMMA UsagesHaveCode ==
    ASSUME NEW c, NEW sinks, NEW F, NEW U, \A k \in sinks : k.site \in SitesIn(c, Modules),
           NEW f \in Usages(c, sinks, F, U)
    PROVE  f.kind = "usage" /\ f.mod \in Present(c) /\ \E k \in sinks : f.mod = k.site[1]
BY DEF Usages, SitesIn, Present

LEMMA FactsAtEnd ==
    ASSUME TypeInv, run.pc = "saved", Sound
    PROVE  LET c == code[run.repo]
           IN  OnlyUsages(Facts) =
                   {f \in Usages(c, run.sinks, run.classified, run.used) : f.mod \in run.only}
                   \cup OnlyUsages(Carried)
<1> DEFINE c == code[run.repo]
           found == Usages(c, run.sinks, run.classified, run.used)
<1>1. /\ \A k \in run.sinks : k.site \in SitesIn(c, Modules)
      /\ \A k \in run.sinks : k.site[1] \in run.only
  BY DEF TypeInv, SinksReal, Sound, Idle
<1>2. \A f \in found : f.kind = "usage" /\ f.mod \in run.only
  BY <1>1, UsagesHaveCode
<1>3. \A f \in Dormant(c, run.sinks, run.classified, run.used) : f.kind # "usage"
  BY DEF Dormant
<1> QED
  BY <1>2, <1>3 DEF OnlyUsages, Facts, Fresh, Report

LEMMA ReferenceHasCode ==
    ASSUME NEW c \in Trees, NEW known \in Entries, NEW f \in Reference(c, known)
    PROVE  f.kind = "usage" /\ f.mod \in Present(c)
BY AllSinksType, LeastFacts, UsagesHaveCode DEF Reference

LEMMA SavedIsFixedPoint ==
    ASSUME WrapperInv, OriginInv, ScanInv, FixedPointClosed, run.pc = "saved",
           AllSteady(code[run.repo]), SecondOrderEntriesRight(code[run.repo], run.known)
    PROVE  AtFixedPoint /\ Scope
<1>1. run # Idle
  BY DEF Idle
<1>2. Progress /\ Scope /\ Sound /\ run.pending = {}
  BY <1>1 DEF ScanInv, Progress
<1> QED
  BY <1>1, <1>2 DEF AtFixedPoint, Settled, WrapperInv

AllInv == WrapperInv /\ OriginInv /\ ScanInv

LEMMA AllInvHolds == (Init => AllInv) /\ (AllInv /\ [Next]_vars => AllInv')
<1>1. Init => AllInv
  BY InitWrapperInv, InitOrigin DEF Init, ScanInv, AllInv
<1>2. ASSUME AllInv, [Next]_vars PROVE AllInv'
  <2>1. WrapperInv' /\ OriginInv' /\ ScanInv'
    BY <1>2, NextWrapperInv, NextOrigin, NextScanInv DEF WrapperInv, AllInv
  <2> QED
    BY <2>1 DEF AllInv
<1> QED
  BY <1>1, <1>2

\* A full scan finds the least fixed point, in whatever order it takes the
\* definitions and whatever scans of any repositories left in the registry, as long
\* as the entries of wrappers of wrappers are right.
THEOREM FullScanFindsFixedPoint == Spec => []FullScanIsFresh
<1>1. AllInv /\ FixedPointClosed => FullScanIsFresh
  <2> SUFFICES ASSUME AllInv, FixedPointClosed, run.pc = "saved", run.mode = "full",
                      AllSteady(code[run.repo]),
                      SecondOrderEntriesRight(code[run.repo], run.known)
               PROVE  OnlyUsages(Facts) = Reference(code[run.repo], run.known)
    BY DEF FullScanIsFresh
  <2> DEFINE c == code[run.repo]
  <2>1. AtFixedPoint /\ Scope
    BY SavedIsFixedPoint DEF AllInv
  <2>2. run.only = Present(c) /\ TypeInv /\ Sound
    BY <2>1 DEF Scope, AtFixedPoint
  <2>3. CalleesKnown
    BY <2>2 DEF CalleesKnown
  <2>4. CallersInScope
    BY <2>2 DEF CallersInScope, Callees, SitesIn, Present
  <2>5. {f \in Usages(c, run.sinks, run.classified, run.used) : f.mod \in run.only}
           = {f \in Reference(c, run.known) : f.mod \in run.only}
    BY <2>1, <2>3, <2>4, ScanFindsItsPart
  <2>6. OnlyUsages(Carried) = {}
    BY DEF Carried, OnlyUsages
  <2>7. c \in Trees /\ run.known \in Entries
    BY <2>1, FixedPointFacts
  <2> HIDE DEF c
  <2>8. \A f \in Reference(c, run.known) : f.mod \in run.only
    BY <2>2, <2>7, ReferenceHasCode
  <2>9. OnlyUsages(Facts)
           = {f \in Usages(c, run.sinks, run.classified, run.used) : f.mod \in run.only}
             \cup OnlyUsages(Carried)
    BY <2>2, FactsAtEnd DEF c
  <2> QED
    BY <2>5, <2>6, <2>8, <2>9 DEF c
<1> QED
  BY <1>1, AllInvHolds, NothingIsLeftUndone, PTL DEF Spec

-----------------------------------------------------------------------------
(* The modules an incremental scan does not look at *)

\* W holds what changed and is closed under callers.
AffectedBy(c, changed, W) ==
    /\ W \in SUBSET Modules /\ changed \subseteq W
    /\ \A m \in Modules : Callees(c, m) \cap W # {} => m \in W
    /\ Affected(c, changed) = W \cap Present(c)

LEMMA AffectedIsClosed ==
    ASSUME NEW c, NEW changed \in SUBSET Modules
    PROVE  \E W : AffectedBy(c, changed, W)
<1> DEFINE T == SUBSET Modules
           N == Cardinality(Modules)
           Wider(W) == W \cup {m \in Modules : Callees(c, m) \cap W # {}}
           Follows == [p \in Nat \X T |-> Wider(p[2])]
<1>0. N \in Nat
  BY NamesAssumption, FS_CardinalityType
<1>1. changed \in T /\ Follows \in Steps(T) /\ \A n \in Nat, W \in T : Follows[<<n, W>>] = Wider(W)
  BY DEF Steps
<1>2. \A W \in T : Wider(W) \in T
  OBVIOUS
<1> HIDE DEF T, Follows, Wider
<1>3. PICK g : g \in Unrolled(T, changed, Follows)
  BY <1>1, RecursiveFunction
<1>4. /\ g \in [Nat -> T] /\ g[0] = changed
      /\ \A n \in Nat \ {0} : g[n] = Follows[<<n, g[n - 1]>>]
  BY <1>3 DEF Unrolled
<1>5. ASSUME NEW n \in Nat \ {0} PROVE g[n] = Wider(g[n - 1])
  <2>1. n - 1 \in Nat /\ g[n - 1] \in T
    BY <1>4
  <2> QED
    BY <1>1, <1>4, <2>1
<1> DEFINE IsWithin(h) == h = [n \in Nat |->
                    IF n = 0 THEN changed
                    ELSE h[n - 1] \cup {m \in Modules : Callees(c, m) \cap h[n - 1] # {}}]
           L == CHOOSE h : IsWithin(h)
<1>6. IsWithin(g)
  BY <1>4, <1>5 DEF Wider
<1>7. IsWithin(L)
  <2> HIDE DEF IsWithin
  <2> QED
    BY <1>6, Zenon
<1>8. Affected(c, changed) = L[N] \cap Present(c)
  BY Zenon DEF Affected
<1> HIDE DEF L
<1>9. L[0] = changed
  BY <1>7
<1>10. ASSUME NEW n \in Nat PROVE L[n + 1] = Wider(L[n])
  <2>1. n + 1 \in Nat /\ n + 1 # 0 /\ (n + 1) - 1 = n
    OBVIOUS
  <2> QED
    BY <1>7, <2>1 DEF Wider
<1> DEFINE Typed == {n \in Nat : L[n] \in T /\ changed \subseteq L[n]}
<1>11. \A n \in Nat : n \in Typed
  <2>1. 0 \in Typed
    BY <1>1, <1>9
  <2>2. ASSUME NEW n \in Nat, n \in Typed PROVE n + 1 \in Typed
    <3>1. L[n] \in T /\ changed \subseteq L[n] /\ L[n + 1] = Wider(L[n])
      BY <1>10, <2>2
    <3>2. L[n] \subseteq Wider(L[n])
      BY DEF Wider
    <3> QED
      BY <1>2, <3>1, <3>2
  <2> HIDE DEF Typed
  <2> QED
    BY <2>1, <2>2, SetInduction
<1>12. L \in [Nat -> SUBSET Modules]
  BY <1>7, <1>11 DEF T
<1>13. \A n \in Nat : L[n] \subseteq L[n + 1]
  BY <1>10 DEF Wider
<1>14. ASSUME NEW n \in Nat, L[n + 1] = L[n] PROVE L[(n + 1) + 1] = L[n + 1]
  <2>1. n + 1 \in Nat
    OBVIOUS
  <2> QED
    BY <1>10, <1>14, <2>1
<1>15. L[N + 1] = L[N]
  BY <1>12, <1>13, <1>14, NamesAssumption, GrowingChainStops
<1>16. Wider(L[N]) = L[N]
  BY <1>0, <1>10, <1>15
<1>17. L[N] \in SUBSET Modules /\ changed \subseteq L[N]
  BY <1>0, <1>11, <1>12
<1>18. AffectedBy(c, changed, L[N])
  BY <1>8, <1>16, <1>17 DEF AffectedBy, Wider
<1> QED
  BY <1>18

\* The modules O are the same in both trees, and call none outside O.
SameApart(c, b, O) ==
    /\ O \in SUBSET Modules
    /\ \A m \in O : b[m] = c[m] /\ Callees(c, m) \subseteq O /\ Callees(b, m) \subseteq O

LEMMA CalleesType ==
    ASSUME NEW c \in Trees, NEW m \in Modules
    PROVE  Callees(c, m) \subseteq Modules /\ (Callees(c, m) # {} => m \in Present(c))
<1>1. ASSUME NEW s \in SitesIn(c, {m}) PROVE At(c, s).callee \in Modules \cup {LLM}
  BY SiteType DEF Sites
<1>2. \A s \in SitesIn(c, {m}) : c[m] # None
  BY DEF SitesIn
<1> QED
  BY <1>1, <1>2 DEF Callees, Present

LEMMA SameCodeSameCallees ==
    ASSUME NEW c, NEW b, NEW m, b[m] = c[m]
    PROVE  Callees(b, m) = Callees(c, m)
<1>1. SitesIn(b, {m}) = SitesIn(c, {m})
  BY DEF SitesIn
<1>2. \A s \in SitesIn(c, {m}) : At(b, s) = At(c, s)
  BY SiteOfDefinition DEF At
<1> QED
  BY <1>1, <1>2 DEF Callees

LEMMA OutOfScopeIsSame ==
    ASSUME NEW c \in Trees, NEW b \in Trees,
           \A m \in Changed(b, c) : c[m] # None
    PROVE  /\ SameApart(c, b, Modules \ Affected(c, Changed(b, c)))
           /\ \A m \in Modules, d \in Affected(c, Changed(b, c)) :
                 d \in Callees(c, m) => m \in Affected(c, Changed(b, c))
<1> DEFINE changed == Changed(b, c)
           only == Affected(c, changed)
           O == Modules \ only
<1>1. changed \in SUBSET Modules
  BY DEF Changed
<1> HIDE DEF changed
<1>2. PICK W : AffectedBy(c, changed, W)
  BY <1>1, AffectedIsClosed
<1>3. /\ W \in SUBSET Modules /\ changed \subseteq W /\ only = W \cap Present(c)
      /\ \A m \in Modules : Callees(c, m) \cap W # {} => m \in W
  BY <1>2 DEF AffectedBy
<1> HIDE DEF only
<1>4. ASSUME NEW m \in Modules, NEW d \in only, d \in Callees(c, m) PROVE m \in only
  BY <1>3, <1>4, CalleesType
<1>5. ASSUME NEW m \in O PROVE b[m] = c[m]
  <2>1. CASE m \in Present(c)
    BY <1>3, <2>1 DEF changed, Changed
  <2>2. CASE m \notin Present(c)
    BY <2>2 DEF Present, Changed
  <2> QED
    BY <2>1, <2>2
<1>6. ASSUME NEW m \in O PROVE Callees(c, m) \subseteq O /\ Callees(b, m) \subseteq O
  <2>1. Callees(c, m) \subseteq O
    BY <1>4, CalleesType
  <2>2. Callees(b, m) = Callees(c, m)
    BY <1>5, SameCodeSameCallees
  <2> QED
    BY <2>1, <2>2
<1>7. SameApart(c, b, O)
  BY <1>5, <1>6 DEF SameApart
<1> QED
  BY <1>4, <1>7 DEF only, changed

\* P and Q say the same of the names O.
SamePairs(P, Q, O) == \A p \in Pairs : p[1] \in O => (p \in P <=> p \in Q)

LEMMA SinkApart ==
    ASSUME NEW c \in Trees, NEW b \in Trees, NEW O, SameApart(c, b, O),
           NEW P \in SUBSET Pairs, NEW Q \in SUBSET Pairs, SamePairs(P, Q, O),
           NEW k \in AllSinks(c, P), k.site[1] \in O
    PROVE  k \in AllSinks(b, Q)
<1> DEFINE m == k.site[1]
<1>1. k.site \in SitesIn(c, Modules)
  BY AllSinksType
<1>2. m \in Modules /\ b[m] = c[m] /\ Callees(c, m) \subseteq O
  BY DEF SameApart
<1>3. /\ k.site \in SitesIn(b, Modules) /\ k.site \in SitesIn(c, {m})
      /\ At(b, k.site) = At(c, k.site)
  BY <1>1, <1>2 DEF SitesIn, At
<1> HIDE DEF m
<1>4. CASE k \in RawSinks(c, Modules)
  <2>1. k \in RawSinks(b, Modules)
    BY <1>3, <1>4 DEF RawSinks
  <2> QED
    BY <2>1 DEF AllSinks
<1>5. CASE k \notin RawSinks(c, Modules)
  <2>1. PICK p \in P : k \in WrapperSinks(c, Modules, p[1], p[2])
    BY <1>5 DEF AllSinks
  <2>2. p \in Pairs /\ p[1] \in Modules
    BY DEF Pairs
  <2>3. /\ CallsWrapper(c, k.site, p[1], p[2]) /\ At(c, k.site).callee = p[1]
        /\ k = [site |-> k.site, kind |-> "wrapper",
                model |-> ModelAtCall(p[1], p[2], At(c, k.site))]
    BY <2>1 DEF WrapperSinks, CallsWrapper
  <2>4. p[1] \in Callees(c, m)
    BY <1>3, <2>2, <2>3, CallsAssumption DEF Callees
  <2>5. p \in Q /\ p[1] \in O
    BY <1>2, <2>2, <2>4 DEF SamePairs
  <2>6. b[p[1]] = c[p[1]]
    BY <2>5 DEF SameApart
  <2>7. CallsWrapper(b, k.site, p[1], p[2])
    BY <1>3, <2>3, <2>6 DEF CallsWrapper
  <2>8. k \in WrapperSinks(b, Modules, p[1], p[2])
    BY <1>3, <2>3, <2>7 DEF WrapperSinks
  <2> QED
    BY <2>5, <2>8 DEF AllSinks
<1> QED
  BY <1>4, <1>5

LEMMA ApartBothWays ==
    ASSUME NEW c, NEW b, NEW O, SameApart(c, b, O)
    PROVE  SameApart(b, c, O)
BY DEF SameApart

LEMMA RatedApart ==
    ASSUME NEW c \in Trees, NEW b \in Trees, NEW O, SameApart(c, b, O),
           NEW P \in SUBSET Pairs, NEW Q \in SUBSET Pairs, SamePairs(P, Q, O),
           NEW d \in O, Rated(c, d, SinksOf(c, AllSinks(c, P), d))
    PROVE  /\ Rated(b, d, SinksOf(b, AllSinks(b, Q), d))
           /\ Derive(b, d, SinksOf(b, AllSinks(b, Q), d))
                 = Derive(c, d, SinksOf(c, AllSinks(c, P), d))
<1> DEFINE mine == SinksOf(c, AllSinks(c, P), d)
<1>1. b[d] = c[d] /\ d \in Modules
  BY DEF SameApart
<1>2. SamePairs(Q, P, O) /\ SameApart(b, c, O)
  BY ApartBothWays DEF SamePairs
<1>3. \A k : k.site[1] \in O => (k \in AllSinks(c, P) <=> k \in AllSinks(b, Q))
  BY <1>2, SinkApart
<1>4. mine # {}
  BY DEF Rated
<1>5. mine \in SUBSET Sinks /\ c[d] # None /\ c[d].def
      /\ \A k \in mine : k.site \in SitesIn(c, {d})
  BY <1>1, <1>4, AllSinksType, SinksOfType
<1>6. mine = SinksOf(b, AllSinks(b, Q), d)
  BY <1>1, <1>3, <1>5 DEF SinksOf
<1>7. CallsOf(c, d, mine)
  BY <1>4, <1>5 DEF CallsOf
<1>8. Rated(c, d, mine)
  OBVIOUS
<1>9. /\ Rated(b, d, mine) <=> Rated(c, d, mine)
      /\ Derive(b, d, mine) = Derive(c, d, mine)
  <2> HIDE DEF mine
  <2>1. b[d] = c[d] /\ CallsOf(c, d, mine) /\ d \in Modules /\ mine \in SUBSET Sinks
    BY <1>1, <1>5, <1>7
  <2> QED
    BY <2>1, SameCodeRatesAlike
<1> HIDE DEF mine
<1>10. Rated(b, d, mine)
  BY <1>8, <1>9
<1>11. /\ Rated(b, d, SinksOf(b, AllSinks(b, Q), d))
       /\ Derive(b, d, SinksOf(b, AllSinks(b, Q), d)) = Derive(c, d, mine)
  BY <1>6, <1>9, <1>10
<1> QED
  BY <1>11 DEF mine

LEMMA FirstPairsApart ==
    ASSUME NEW c, NEW b, NEW O, SameApart(c, b, O), NEW entries
    PROVE  SamePairs(FirstPairs(c, entries), FirstPairs(b, entries), O)
<1>1. ASSUME NEW d \in O
      PROVE  Seeds(c, External(c, entries))[d] = Seeds(b, External(b, entries))[d]
  <2>1. d \in Modules /\ b[d] = c[d]
    BY DEF SameApart
  <2>2. External(c, entries)[d] = External(b, entries)[d]
    BY <2>1 DEF External
  <2>3. HashCurrent(c, d, External(c, entries)[d]) <=> HashCurrent(b, d, External(b, entries)[d])
    BY <2>1, <2>2 DEF HashCurrent
  <2> HIDE DEF External
  <2> QED
    BY <2>1, <2>2, <2>3 DEF Seeds
<1>2. ASSUME NEW x, NEW p \in FirstPairs(x, entries)
      PROVE  p[1] \in Modules /\ Seeds(x, External(x, entries))[p[1]] # None
             /\ p = <<p[1], Seeds(x, External(x, entries))[p[1]]>>
  BY DEF FirstPairs
<1>3. ASSUME NEW x, NEW d \in Modules, Seeds(x, External(x, entries))[d] # None
      PROVE  <<d, Seeds(x, External(x, entries))[d]>> \in FirstPairs(x, entries)
  BY <1>3 DEF FirstPairs
<1>4. ASSUME NEW p, p[1] \in O
      PROVE  p \in FirstPairs(c, entries) <=> p \in FirstPairs(b, entries)
  BY <1>1, <1>2, <1>3, <1>4
<1> QED
  BY <1>4 DEF SamePairs

LEMMA NextPairApart ==
    ASSUME NEW c \in Trees, NEW b \in Trees, NEW O, SameApart(c, b, O),
           NEW P \in SUBSET Pairs, NEW Q \in SUBSET Pairs, SamePairs(P, Q, O),
           NEW p \in NextPairs(c, P), p[1] \in O
    PROVE  p \in NextPairs(b, Q)
<1> DEFINE mine == SinksOf(c, AllSinks(c, P), p[1])
           theirs == SinksOf(b, AllSinks(b, Q), p[1])
<1>1. p \in Pairs /\ p[1] \in Modules
  BY NextPairsType DEF Pairs
<1>2. CASE p \in P
  BY <1>1, <1>2 DEF SamePairs, NextPairs
<1>3. CASE p \notin P
  <2>1. /\ p = <<p[1], Derive(c, p[1], mine)>> /\ Rated(c, p[1], mine)
        /\ \A q \in P : q[1] # p[1]
    BY <1>3 DEF NextPairs
  <2>2. Rated(b, p[1], theirs) /\ Derive(b, p[1], theirs) = Derive(c, p[1], mine)
    BY <2>1, RatedApart
  <2>3. \A q \in Q : q[1] # p[1]
    BY <2>1 DEF SamePairs
  <2> HIDE DEF mine
  <2>4. p = <<p[1], Derive(b, p[1], theirs)>>
    BY <2>1, <2>2
  <2> QED
    BY <1>1, <2>2, <2>3, <2>4 DEF NextPairs
<1> QED
  BY <1>2, <1>3

\* What a change does not reach is classified as before.
LEMMA LeastApart ==
    ASSUME NEW c \in Trees, NEW b \in Trees, NEW O, SameApart(c, b, O), NEW entries \in Entries
    PROVE  SamePairs(LeastPairs(c, entries), LeastPairs(b, entries), O)
<1> DEFINE N == Cardinality(Modules)
<1>1. N \in Nat
  BY NamesAssumption, FS_CardinalityType
<1>2. PICK f : IsChain(c, entries, f)
  BY PairsChain
<1>3. PICK g : IsChain(b, entries, g)
  BY PairsChain
<1> DEFINE Same == {n \in Nat : SamePairs(f[n], g[n], O)}
<1>4. /\ f \in [Nat -> SUBSET Pairs] /\ g \in [Nat -> SUBSET Pairs]
      /\ f[0] = FirstPairs(c, entries) /\ g[0] = FirstPairs(b, entries)
      /\ \A n \in Nat : f[n + 1] = NextPairs(c, f[n]) /\ g[n + 1] = NextPairs(b, g[n])
      /\ LeastPairs(c, entries) = f[N] /\ LeastPairs(b, entries) = g[N]
  BY <1>2, <1>3 DEF IsChain
<1> HIDE DEF N
<1>5. 0 \in Same
  BY <1>4, FirstPairsApart
<1>6. ASSUME NEW n \in Nat, n \in Same PROVE n + 1 \in Same
  <2>1. /\ f[n] \in SUBSET Pairs /\ g[n] \in SUBSET Pairs
        /\ SamePairs(f[n], g[n], O) /\ SamePairs(g[n], f[n], O)
        /\ SameApart(b, c, O)
    BY <1>4, <1>6, ApartBothWays DEF SamePairs
  <2>2. \A p \in Pairs : p[1] \in O => (p \in NextPairs(c, f[n]) <=> p \in NextPairs(b, g[n]))
    BY <2>1, NextPairApart
  <2> QED
    BY <1>4, <2>2 DEF SamePairs
<1> HIDE DEF Same
<1>7. N \in Same
  BY <1>1, <1>5, <1>6, SetInduction
<1> QED
  BY <1>4, <1>7 DEF Same

\* What is reported for modules that a change does not reach is as before, as long as
\* their wrappers stay in use or out of use.
LEMMA ReferenceApart ==
    ASSUME NEW c \in Trees, NEW b \in Trees, NEW O, SameApart(c, b, O), NEW entries \in Entries,
           \A d \in O \cap Present(c) :
              d \in UsedBy(c, Least(c, entries)) <=> d \in UsedBy(b, Least(b, entries))
    PROVE  {f \in Reference(c, entries) : f.mod \in O} = {f \in Reference(b, entries) : f.mod \in O}
<1> DEFINE F == Least(c, entries)
           G == Least(b, entries)
           S == AllSinks(c, LeastPairs(c, entries))
           T == AllSinks(b, LeastPairs(b, entries))
<1>1. /\ SamePairs(LeastPairs(c, entries), LeastPairs(b, entries), O)
      /\ SamePairs(LeastPairs(b, entries), LeastPairs(c, entries), O)
      /\ SameApart(b, c, O)
      /\ LeastPairs(c, entries) \in SUBSET Pairs /\ LeastPairs(b, entries) \in SUBSET Pairs
  BY LeastApart, LeastFacts, ApartBothWays
<1>2. \A k : k.site[1] \in O => (k \in S <=> k \in T)
  BY <1>1, SinkApart
<1>3. ASSUME NEW d \in O, F[d] # None PROVE G[d] = F[d]
  <2> DEFINE p == <<d, F[d]>>
  <2>1. d \in Modules
    BY DEF SameApart
  <2>2. p \in LeastPairs(c, entries) /\ p[1] = d /\ p[2] = F[d]
    BY <1>3, <2>1, PairOfLeast
  <2> HIDE DEF p, F
  <2>3. p \in LeastPairs(b, entries)
    BY <1>1, <2>2 DEF SamePairs
  <2> QED
    BY <2>2, <2>3, LeastOfPair
<1>4. \A d \in O : b[d] = c[d] /\ d \in Modules
  BY DEF SameApart
<1>5. \A d \in O : d \in UsedBy(c, F) => F[d] # None
  BY DEF UsedBy
<1> HIDE DEF F, G, S, T
<1>6. HidesAlike(c, F, G, UsedBy(c, F), UsedBy(b, G), O)
  BY <1>3, <1>4, <1>5 DEF HidesAlike, Present, F, G
<1>7. {f \in Usages(c, S, F, UsedBy(c, F)) : f.mod \in O}
         = {f \in Usages(b, T, G, UsedBy(b, G)) : f.mod \in O}
  BY <1>2, <1>4, <1>6, UsagesAgree
<1> QED
  BY <1>7 DEF Reference, F, G, S, T

\* An incremental scan of the affected modules finds the least fixed point as well,
\* whatever changed, as long as the registry holds what they call and no wrapper
\* elsewhere comes into use or falls out of it.
THEOREM IncrementalScanIsExact == Spec => []IncrementalIsExact
<1>1. AllInv /\ FixedPointClosed => IncrementalIsExact
  <2> DEFINE c == code[run.repo]
             old == cache[run.repo].code
             known == run.known
             now == Least(c, known)
  <2> SUFFICES ASSUME AllInv, FixedPointClosed, run.pc = "saved", run.mode = "incremental",
                      AllSteady(c), SecondOrderEntriesRight(c, known),
                      OnlyUsages(cache[run.repo].facts) = Reference(old, known),
                      \A d \in Present(c) \ run.only :
                         /\ now[d] # None /\ (\E m \in run.only : d \in Callees(c, m))
                               => Seeds(c, known)[d] # None
                         /\ d \in UsedBy(c, now) <=> d \in UsedBy(old, Least(old, known))
               PROVE  OnlyUsages(Facts) = Reference(c, known)
    BY DEF IncrementalIsExact
  <2>1. AtFixedPoint /\ Scope
    BY SavedIsFixedPoint DEF AllInv
  <2>2. /\ CanIncremental(run.repo) /\ run.only = Affected(c, Changed(old, c))
        /\ TypeInv /\ Sound
    BY <2>1 DEF Scope, AtFixedPoint
  <2>3. c \in Trees /\ known \in Entries /\ run.only \in SUBSET Modules /\ run \in Runs
    BY <2>1, FixedPointFacts
  <2>4. old \in Trees /\ \A m \in Changed(old, c) : c[m] # None
    BY <2>2, <2>3 DEF CanIncremental, TypeInv, TypeOK, Runs
  <2>5. CalleesKnown
    BY DEF CalleesKnown, InView, Present
  <2>6. \A m \in Modules, d \in run.only : d \in Callees(c, m) => m \in run.only
    <3> HIDE DEF c, old
    <3> QED
      BY <2>2, <2>3, <2>4, OutOfScopeIsSame
  <2>7. SameApart(c, old, Modules \ run.only)
    <3> HIDE DEF c, old
    <3> QED
      BY <2>2, <2>3, <2>4, OutOfScopeIsSame
  <2>8. {f \in Usages(c, run.sinks, run.classified, run.used) : f.mod \in run.only}
           = {f \in Reference(c, known) : f.mod \in run.only}
    BY <2>1, <2>5, <2>6, ScanFindsItsPart DEF CallersInScope
  <2>9. {f \in Reference(c, known) : f.mod \in Modules \ run.only}
           = {f \in Reference(old, known) : f.mod \in Modules \ run.only}
    <3> HIDE DEF c, old, known
    <3>1. \A d \in (Modules \ run.only) \cap Present(c) :
             d \in UsedBy(c, Least(c, known)) <=> d \in UsedBy(old, Least(old, known))
      BY DEF now
    <3> QED
      BY <2>3, <2>4, <2>7, <3>1, ReferenceApart
  <2>10. OnlyUsages(Carried)
            = {f \in OnlyUsages(cache[run.repo].facts) : f.mod \notin run.only /\ c[f.mod] # None}
    BY DEF OnlyUsages, Carried
  <2>11. OnlyUsages(Facts)
            = {f \in Usages(c, run.sinks, run.classified, run.used) : f.mod \in run.only}
              \cup OnlyUsages(Carried)
    BY <2>2, FactsAtEnd
  <2>12. \A f \in Reference(c, known) : f.mod \in Modules /\ c[f.mod] # None
    BY <2>3, ReferenceHasCode DEF Present
  <2>13. \A f \in Reference(old, known) : f.mod \in Modules
    BY <2>3, <2>4, ReferenceHasCode DEF Present
  <2> HIDE DEF c, old, known, now
  <2>14. OnlyUsages(Carried) = {f \in Reference(c, known) : f.mod \notin run.only}
    BY <2>9, <2>10, <2>12, <2>13
  <2> QED
    BY <2>8, <2>11, <2>14
<1> QED
  BY <1>1, AllInvHolds, NothingIsLeftUndone, PTL DEF Spec
=============================================================================
