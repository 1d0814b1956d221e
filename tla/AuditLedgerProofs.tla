-------------------------- MODULE AuditLedgerProofs --------------------------
(***************************************************************************)
(* Proofs about AuditLedger for any number of runs and any entries: the    *)
(* chain verifies as long as only runs write it (ChainInv), and the rows   *)
(* of a chain that verifies read as runs wrote them (StemInv).             *)
(***************************************************************************)
EXTENDS AuditLedger, Foundations, TLAPS

-----------------------------------------------------------------------------
(* Type correctness *)

\* TypeOK with the types of what a run has read.
TypeInv ==
    /\ TypeOK
    /\ DOMAIN tip = Runs
    /\ \A r \in Runs : tip[r].seq \in Nat
    /\ \E k \in Nat : DOMAIN log \subseteq 1..k

LEMMA TipType == TypeInv => Tip.seq \in Nat
<1> SUFFICES ASSUME TypeInv PROVE Tip.seq \in Nat
  OBVIOUS
<1>1. CASE DOMAIN log = {}
  BY <1>1 DEF Tip
<1>2. CASE DOMAIN log # {}
  <2> DEFINE last == CHOOSE s \in DOMAIN log : \A t \in DOMAIN log : t <= s
  <2>1. \E s \in DOMAIN log : \A t \in DOMAIN log : t <= s
    BY <1>2, GreatestElement DEF TypeInv
  <2>2. last \in DOMAIN log
    BY <2>1
  <2>3. last \in Nat
    BY <2>2 DEF TypeInv, TypeOK
  <2> QED
    BY <1>2, <2>3 DEF Tip
<1> QED
  BY <1>1, <1>2

LEMMA InitTypeInv == Init => TypeInv
<1> SUFFICES ASSUME Init PROVE TypeInv
  OBVIOUS
<1>1. DOMAIN log = {} /\ DOMAIN log \subseteq 1..0
  BY DEF Init
<1> QED
  BY <1>1, TamperAssumption DEF Init, TypeInv, TypeOK

LEMMA NextTypeInv == TypeInv /\ [Next]_vars => TypeInv'
<1> SUFFICES ASSUME TypeInv, [Next]_vars PROVE TypeInv'
  OBVIOUS
<1>1. ASSUME NEW r \in Runs, ReadTip(r) PROVE TypeInv'
  BY <1>1, TipType DEF ReadTip, TypeInv, TypeOK, Goto
<1>2. ASSUME NEW r \in Runs, CommitAppend(r) PROVE TypeInv'
  <2>1. DOMAIN log' = DOMAIN log \cup {tip[r].seq + 1}
    BY <1>2 DEF CommitAppend, Extend, NewRow, Row
  <2>2. tip[r].seq + 1 \in Nat \ {0}
    BY DEF TypeInv
  <2>3. PICK k \in Nat : DOMAIN log \subseteq 1..k
    BY DEF TypeInv
  <2>4. DOMAIN log' \subseteq 1..(k + tip[r].seq + 1) /\ k + tip[r].seq + 1 \in Nat
    BY <2>1, <2>2, <2>3 DEF TypeInv
  <2> QED
    BY <1>2, <2>1, <2>2, <2>4 DEF CommitAppend, Goto, TypeInv, TypeOK
<1>3. ASSUME NEW r \in Runs, Publish(r) \/ Insert(r) \/ InsertConflict(r) \/ LockTimeout(r)
                             \/ Report(r) \/ Crash(r)
      PROVE  TypeInv'
  BY <1>3 DEF Publish, Insert, InsertConflict, LockTimeout, Report, Crash, Goto, TypeInv, TypeOK
<1>4. ASSUME Tamper, DOMAIN log' \subseteq DOMAIN log PROVE TypeInv'
  <2>1. UNCHANGED <<pc, tip, writer, published>> /\ tampers' \in 0..MaxTampers
    BY <1>4, TamperAssumption DEF Tamper, TypeInv, TypeOK
  <2>2. PICK k \in Nat : DOMAIN log \subseteq 1..k
    BY DEF TypeInv
  <2>3. DOMAIN log' \subseteq 1..k /\ DOMAIN log' \subseteq Nat \ {0}
    BY <1>4, <2>2 DEF TypeInv, TypeOK
  <2> QED
    BY <2>1, <2>3 DEF TypeInv, TypeOK
<1>5. ASSUME NEW s \in DOMAIN log, DeleteRow(s) \/ \E value \in Values : EditRow(s, value)
      PROVE  TypeInv'
  <2>1. Tamper /\ DOMAIN log' \subseteq DOMAIN log
    BY <1>5 DEF DeleteRow, EditRow
  <2> QED
    BY <1>4, <2>1
<1>6. CASE UNCHANGED vars
  BY <1>6 DEF vars, TypeInv, TypeOK
<1> QED
  BY <1>1, <1>2, <1>3, <1>5, <1>6 DEF Next, RunStep

\* The ledger's state is well typed, whoever writes the table.
THEOREM LedgerTypeCorrect == Spec => []TypeOK
<1>1. TypeInv => TypeOK
  BY DEF TypeInv
<1> QED
  BY <1>1, InitTypeInv, NextTypeInv, PTL DEF Spec

-----------------------------------------------------------------------------
(* The chain, while only runs write the table *)

\* What the row at s must name as its predecessor.
PrevHash(s) == IF s = 1 THEN Genesis ELSE log[s - 1].hash

\* The rows are 1..n and linked; a tip that a run has read is an entry of the
\* chain or its start; the run about to commit holds the lock and the last tip;
\* and the runs whose entry was committed are the ones in the log, once each.
ChainOf(n) ==
    /\ DOMAIN log = 1..n
    /\ \A s \in 1..n : Linked(s) /\ log[s].run \in Runs
    /\ \A r \in Runs : pc[r] \in {"insert", "commit"} =>
          tip[r].seq \in 0..n /\ tip[r].hash = PrevHash(tip[r].seq + 1)
    /\ \A r \in Runs : pc[r] = "commit" <=> writer = r
    /\ \A r \in Runs : pc[r] = "commit" => tip[r].seq + 1 \notin DOMAIN log
    /\ \A r \in Runs : Entered(r) <=> \E s \in 1..n : log[s].run = r
    /\ \A s \in 1..n, t \in 1..n : log[s].run = log[t].run => s = t

ChainInv == TypeInv /\ (tampers = 0 => \E n \in Nat : ChainOf(n))

LEMMA InitChainInv == Init => ChainInv
<1> SUFFICES ASSUME Init PROVE ChainInv
  OBVIOUS
<1>1. DOMAIN log = 1..0
  BY DEF Init
<1>2. \A r \in Runs : pc[r] = "publish" /\ writer # r
  BY RunsAssumption DEF Init
<1>3. ChainOf(0)
  BY <1>1, <1>2 DEF ChainOf, Entered
<1> QED
  BY <1>3, InitTypeInv DEF ChainInv

LEMMA TipOfChain ==
    ASSUME NEW n \in Nat, ChainOf(n)
    PROVE  Tip.seq = n /\ Tip.hash = PrevHash(n + 1)
<1>1. CASE n = 0
  BY <1>1 DEF ChainOf, Tip, PrevHash
<1>2. CASE n # 0
  <2> DEFINE last == CHOOSE s \in DOMAIN log : \A t \in DOMAIN log : t <= s
  <2>1. n \in DOMAIN log /\ \A t \in DOMAIN log : t <= n
    BY <1>2 DEF ChainOf
  <2>2. last \in DOMAIN log /\ \A t \in DOMAIN log : t <= last
    BY <2>1
  <2>3. last = n
    BY <2>1, <2>2 DEF ChainOf
  <2>4. Tip = [seq |-> n, hash |-> log[n].hash]
    BY <2>1, <2>3 DEF Tip
  <2> QED
    BY <1>2, <2>4 DEF PrevHash
<1> QED
  BY <1>1, <1>2

\* A step that leaves the log alone.
LEMMA QuietStep ==
    ASSUME NEW n \in Nat, ChainOf(n), UNCHANGED <<log, tip>>,
           \A r \in Runs : /\ pc'[r] = "insert" => pc[r] = "insert"
                           /\ pc'[r] = "commit" => pc[r] \in {"insert", "commit"}
                           /\ pc'[r] = "commit" <=> writer' = r
                           /\ pc'[r] = "commit" => tip[r].seq + 1 \notin DOMAIN log
                           /\ Entered(r)' <=> Entered(r)
    PROVE  ChainOf(n)'
<1>1. \A s : (Linked(s)' <=> Linked(s)) /\ PrevHash(s)' = PrevHash(s)
  BY DEF Linked, PrevHash
<1>2. ASSUME NEW r \in Runs, pc'[r] \in {"insert", "commit"}
      PROVE  tip'[r].seq \in 0..n /\ tip'[r].hash = PrevHash(tip[r].seq + 1)'
  <2>1. pc[r] \in {"insert", "commit"}
    BY <1>2
  <2>2. tip[r].seq \in 0..n /\ tip[r].hash = PrevHash(tip[r].seq + 1)
    BY <2>1 DEF ChainOf
  <2> QED
    BY <2>2 DEF PrevHash
<1>3. DOMAIN log' = 1..n /\ \A s \in 1..n : Linked(s)' /\ log'[s].run \in Runs
  BY <1>1 DEF ChainOf
<1>4. \A r \in Runs : /\ pc'[r] = "commit" => tip'[r].seq + 1 \notin DOMAIN log'
                      /\ Entered(r)' <=> \E s \in 1..n : log'[s].run = r
  BY DEF ChainOf
<1>5. \A s \in 1..n, t \in 1..n : log'[s].run = log'[t].run => s = t
  BY DEF ChainOf
<1>6. \A r \in Runs : pc'[r] = "commit" <=> writer' = r
  OBVIOUS
<1> QED
  BY <1>2, <1>3, <1>4, <1>5, <1>6 DEF ChainOf

LEMMA NextChainInv == ChainInv /\ [Next]_vars => ChainInv'
<1> SUFFICES ASSUME ChainInv, [Next]_vars, tampers' = 0
             PROVE  \E n \in Nat : ChainOf(n)'
  BY NextTypeInv DEF ChainInv
<1>1. tampers = 0 /\ UNCHANGED tampers
  <2>1. tampers \in Nat
    BY DEF ChainInv, TypeInv, TypeOK
  <2>2. tampers' = tampers \/ tampers' = tampers + 1
    BY DEF Next, RunStep, Publish, ReadTip, Insert, InsertConflict, LockTimeout, CommitAppend,
       Report, Crash, EditRow, DeleteRow, Tamper, vars
  <2> QED
    BY <2>1, <2>2
<1>2. PICK n \in Nat : ChainOf(n)
  BY <1>1 DEF ChainInv
<1>3. DOMAIN pc = Runs /\ pc \in [Runs -> {"publish", "read_tip", "insert", "commit", "logged",
                                        "done", "failed", "crashed", "unreported"}]
  BY DEF ChainInv, TypeInv, TypeOK
<1>4. ASSUME NEW r \in Runs,
             Publish(r) \/ Insert(r) \/ InsertConflict(r) \/ LockTimeout(r) \/ Report(r)
                 \/ Crash(r)
      PROVE  ChainOf(n)'
  <2>1. UNCHANGED <<log, tip>>
    BY <1>4 DEF Publish, Insert, InsertConflict, LockTimeout, Report, Crash
  <2>2. \A q \in Runs : Entered(q)' <=> Entered(q)
    BY <1>3, <1>4 DEF Publish, Insert, InsertConflict, LockTimeout, Report, Crash, Goto, Entered
  <2>3. \A q \in Runs : pc[q] = "commit" <=> writer = q
    BY <1>2 DEF ChainOf
  <2>4. \A q \in Runs : pc'[q] = "commit" <=> writer' = q
    BY <1>3, <1>4, <2>3, RunsAssumption
       DEF Publish, Insert, InsertConflict, LockTimeout, Report, Crash, Goto
  <2>5. \A q \in Runs : /\ pc'[q] = "insert" => pc[q] = "insert"
                        /\ pc'[q] = "commit" => pc[q] \in {"insert", "commit"}
                        /\ pc'[q] = "commit" => tip[q].seq + 1 \notin DOMAIN log
    BY <1>2, <1>3, <1>4
       DEF ChainOf, Publish, Insert, InsertConflict, LockTimeout, Report, Crash, Goto
  <2> QED
    BY <1>2, <2>1, <2>2, <2>4, <2>5, QuietStep
<1>5. ASSUME NEW r \in Runs, ReadTip(r) PROVE ChainOf(n)'
  <2>1. /\ UNCHANGED <<log, writer>>
        /\ pc[r] = "read_tip" /\ pc'[r] = "insert"
        /\ \A q \in Runs \ {r} : pc'[q] = pc[q] /\ tip'[q] = tip[q]
        /\ tip'[r] = Tip
    BY <1>3, <1>5 DEF ReadTip, Goto, ChainInv, TypeInv
  <2>2. tip'[r].seq \in 0..n /\ tip'[r].hash = PrevHash(tip'[r].seq + 1)
    BY <1>2, <2>1, TipOfChain
  <2>3. \A s : PrevHash(s)' = PrevHash(s')
    BY <2>1 DEF PrevHash
  <2>4. \A q \in Runs : pc'[q] \in {"insert", "commit"} =>
          tip'[q].seq \in 0..n /\ tip'[q].hash = PrevHash(tip'[q].seq + 1)
    BY <1>2, <2>1, <2>2 DEF ChainOf
  <2>5. \A s \in 1..n : Linked(s)' /\ log'[s].run \in Runs
    BY <1>2, <2>1 DEF ChainOf, Linked
  <2>6. \A q \in Runs : /\ pc'[q] = "commit" => q # r /\ tip'[q].seq + 1 \notin DOMAIN log'
                        /\ pc'[q] = "commit" <=> writer' = q
                        /\ Entered(q)' <=> Entered(q)
    BY <1>2, <2>1 DEF ChainOf, Entered
  <2> QED
    BY <1>2, <2>1, <2>4, <2>5, <2>6 DEF ChainOf, PrevHash
<1>6. ASSUME NEW r \in Runs, CommitAppend(r) PROVE ChainOf(n + 1)'
  <2> DEFINE row == NewRow(r)
  <2>1. /\ pc[r] = "commit" /\ pc'[r] = "logged"
        /\ \A q \in Runs \ {r} : pc'[q] = pc[q]
        /\ tip' = tip /\ writer = r /\ writer' = NoRun
        /\ log' = Extend(row)
    BY <1>2, <1>3, <1>6 DEF CommitAppend, Goto, ChainOf
  <2>2. tip[r].seq = n /\ tip[r].hash = PrevHash(n + 1)
    BY <1>2, <2>1 DEF ChainOf
  <2>3. row = [seq |-> n + 1, run |-> r, value |-> ValueOf[r], prev |-> PrevHash(n + 1),
               hash |-> EntryHash(n + 1, ValueOf[r], PrevHash(n + 1))]
    BY <2>2 DEF NewRow, Row
  <2> HIDE DEF row
  <2>4. /\ DOMAIN log' = 1..(n + 1)
        /\ log'[n + 1] = row
        /\ \A s \in 1..n : log'[s] = log[s]
    BY <1>2, <2>1, <2>3 DEF Extend, ChainOf
  <2>5. \A s \in 1..(n + 1) : PrevHash(s)' = PrevHash(s)
    BY <2>4 DEF PrevHash
  <2>6. \A s \in 1..(n + 1) : Linked(s)' /\ log'[s].run \in Runs
    <3> TAKE s \in 1..(n + 1)
    <3>1. CASE s = n + 1
      BY <2>3, <2>4, <2>5, <3>1 DEF Linked, PrevHash, EntryHash
    <3>2. CASE s \in 1..n
      <4>1. Linked(s) /\ log[s].run \in Runs
        BY <1>2, <3>2 DEF ChainOf
      <4> QED
        BY <2>4, <2>5, <3>2, <4>1 DEF Linked, PrevHash, EntryHash
    <3> QED
      BY <3>1, <3>2
  <2>7. \A q \in Runs : pc'[q] \in {"insert", "commit"} =>
          tip'[q].seq \in 0..(n + 1) /\ tip'[q].hash = PrevHash(tip[q].seq + 1)'
    <3> SUFFICES ASSUME NEW q \in Runs, pc'[q] \in {"insert", "commit"}
                 PROVE  tip'[q].seq \in 0..(n + 1) /\ tip'[q].hash = PrevHash(tip[q].seq + 1)'
      OBVIOUS
    <3>1. pc[q] \in {"insert", "commit"}
      BY <2>1
    <3>2. tip[q].seq \in 0..n /\ tip[q].hash = PrevHash(tip[q].seq + 1)
      BY <1>2, <3>1 DEF ChainOf
    <3>3. tip[q].seq + 1 \in 1..(n + 1) /\ tip'[q] = tip[q]
      BY <2>1, <3>2
    <3>4. PrevHash(tip[q].seq + 1)' = PrevHash(tip[q].seq + 1)
      BY <2>5, <3>3 DEF PrevHash
    <3> QED
      BY <3>2, <3>3, <3>4
  <2>8. \A q \in Runs : pc'[q] # "commit" /\ writer' # q
    BY <1>2, <2>1, RunsAssumption DEF ChainOf
  <2>9. \A s \in 1..n : log[s].run # r
    BY <1>2, <2>1 DEF ChainOf, Entered
  <2>10. \A q \in Runs : Entered(q)' <=> \E s \in 1..(n + 1) : log'[s].run = q
    <3> TAKE q \in Runs
    <3>1. CASE q = r
      <4>1. Entered(q)'
        BY <2>1, <3>1 DEF Entered
      <4>2. n + 1 \in 1..(n + 1) /\ log'[n + 1].run = q
        BY <2>3, <2>4, <3>1
      <4> QED
        BY <4>1, <4>2
    <3>2. CASE q # r
      BY <1>2, <2>1, <2>3, <2>4, <3>2 DEF ChainOf, Entered
    <3> QED
      BY <3>1, <3>2
  <2>11. \A s \in 1..(n + 1), t \in 1..(n + 1) : log'[s].run = log'[t].run => s = t
    <3> TAKE s \in 1..(n + 1), t \in 1..(n + 1)
    <3>1. CASE s \in 1..n /\ t \in 1..n
      BY <1>2, <2>4, <3>1 DEF ChainOf
    <3>2. CASE s = n + 1 /\ t \in 1..n
      BY <2>3, <2>4, <2>9, <3>2
    <3>3. CASE t = n + 1 /\ s \in 1..n
      BY <2>3, <2>4, <2>9, <3>3
    <3>4. CASE t = n + 1 /\ s = n + 1
      BY <3>4
    <3> QED
      BY <3>1, <3>2, <3>3, <3>4
  <2> QED
    BY <2>1, <2>4, <2>6, <2>7, <2>8, <2>10, <2>11 DEF ChainOf
<1>7. CASE UNCHANGED vars
  <2>1. ChainOf(n)'
    BY <1>2, <1>7 DEF vars, ChainOf, Entered, Linked, PrevHash
  <2> QED
    BY <2>1
<1>8. ~Tamper
  BY <1>1 DEF Tamper
<1>9. n + 1 \in Nat
  OBVIOUS
<1>10. CASE \E r \in Runs : RunStep(r)
  <2>1. PICK r \in Runs : RunStep(r)
    BY <1>10
  <2>2. \/ Publish(r) \/ Insert(r) \/ InsertConflict(r) \/ LockTimeout(r) \/ Report(r)
        \/ Crash(r) \/ ReadTip(r) \/ CommitAppend(r)
    BY <2>1 DEF RunStep
  <2> QED
    BY <1>2, <1>4, <1>5, <1>6, <1>9, <2>2
<1> QED
  BY <1>2, <1>7, <1>8, <1>10 DEF Next, EditRow, DeleteRow

LEMMA ChainInvariant == Spec => []ChainInv
BY InitChainInv, NextChainInv, PTL DEF Spec, ChainInv

\* However many runs interleave, fail and die, verify_audit_log accepts the chain
\* they leave behind.
THEOREM ChainAlwaysVerifies == Spec => []ChainVerifies
<1>1. ChainInv => ChainVerifies
  <2> SUFFICES ASSUME ChainInv, tampers = 0 PROVE VerifyOk
    BY DEF ChainVerifies
  <2>1. PICK n \in Nat : ChainOf(n)
    BY DEF ChainInv
  <2>2. n \in {0} \cup DOMAIN log /\ DOMAIN log = 1..n /\ \A s \in DOMAIN log : Linked(s)
    BY <2>1 DEF ChainOf
  <2> QED
    BY <2>2 DEF VerifyOk
<1> QED
  BY <1>1, ChainInvariant, PTL

\* A run is in the ledger once if its entry was committed, as it is when it reports
\* success, and not at all otherwise.
THEOREM SuccessAlwaysLogged == Spec => []SuccessIsLogged
<1>1. ChainInv => SuccessIsLogged
  <2> SUFFICES ASSUME ChainInv, tampers = 0, NEW r \in Runs
               PROVE  Cardinality({s \in DOMAIN log : log[s].run = r}) =
                          IF Entered(r) THEN 1 ELSE 0
    BY DEF SuccessIsLogged
  <2>1. PICK n \in Nat : ChainOf(n)
    BY DEF ChainInv
  <2>2. CASE Entered(r)
    <3>1. PICK s \in 1..n : log[s].run = r
      BY <2>1, <2>2 DEF ChainOf
    <3>2. {t \in DOMAIN log : log[t].run = r} = {s}
      BY <2>1, <3>1 DEF ChainOf
    <3> QED
      BY <2>2, <3>2, FS_Singleton
  <2>3. CASE ~Entered(r)
    <3>1. {t \in DOMAIN log : log[t].run = r} = {}
      BY <2>1, <2>3 DEF ChainOf
    <3> QED
      BY <2>3, <3>1, FS_EmptySet
  <2> QED
    BY <2>2, <2>3
<1> QED
  BY <1>1, ChainInvariant, PTL

-----------------------------------------------------------------------------
(* The chain, whoever writes the table *)

WithValue(row, value) ==
    [seq |-> row.seq, run |-> row.run, value |-> value, prev |-> row.prev, hash |-> row.hash]

\* Every row stems from one that a run wrote: only its value may have changed.
StemInv ==
    /\ \A w \in written : w.run \in Runs /\ w = Row(w.run, w.seq, w.prev)
    /\ \A s \in DOMAIN log :
          \E w \in written, value \in Values : log[s] = WithValue(w, value)

LEMMA RowFacts ==
    ASSUME NEW r \in Runs, NEW seq, NEW prev
    PROVE  /\ Row(r, seq, prev).run = r
           /\ Row(r, seq, prev) = Row(Row(r, seq, prev).run, Row(r, seq, prev).seq,
                                      Row(r, seq, prev).prev)
           /\ Row(r, seq, prev) = WithValue(Row(r, seq, prev), ValueOf[r])
           /\ ValueOf[r] \in Values
BY RunsAssumption DEF Row, WithValue

LEMMA NextStemInv == StemInv /\ [Next]_vars => StemInv'
<1> SUFFICES ASSUME StemInv, [Next]_vars PROVE StemInv'
  OBVIOUS
<1>1. ASSUME NEW r \in Runs, CommitAppend(r) PROVE StemInv'
  <2> DEFINE row == NewRow(r)
  <2>1. /\ row.run \in Runs /\ row = Row(row.run, row.seq, row.prev)
        /\ row = WithValue(row, ValueOf[r]) /\ ValueOf[r] \in Values
    BY RowFacts DEF NewRow
  <2>2. log' = Extend(row) /\ written' = written \cup {row}
    BY <1>1 DEF CommitAppend
  <2> HIDE DEF row
  <2>3. ASSUME NEW w \in written' PROVE w.run \in Runs /\ w = Row(w.run, w.seq, w.prev)
    BY <2>1, <2>2 DEF StemInv
  <2>4. ASSUME NEW s \in DOMAIN log'
        PROVE  \E w \in written', value \in Values : log'[s] = WithValue(w, value)
    <3>1. CASE s = row.seq
      <4>1. log'[s] = row
        BY <2>2, <3>1 DEF Extend
      <4> QED
        BY <2>1, <2>2, <4>1
    <3>2. CASE s # row.seq
      <4>1. s \in DOMAIN log /\ log'[s] = log[s]
        BY <2>2, <2>4, <3>2 DEF Extend
      <4> QED
        BY <2>2, <4>1 DEF StemInv
    <3> QED
      BY <3>1, <3>2
  <2> QED
    BY <2>3, <2>4 DEF StemInv, Row, WithValue, EntryHash
<1>2. ASSUME UNCHANGED <<log, written>> PROVE StemInv'
  BY <1>2 DEF StemInv, Row, WithValue, EntryHash
<1>3. ASSUME NEW t \in DOMAIN log, DeleteRow(t) PROVE StemInv'
  <2>1. /\ UNCHANGED written
        /\ \A s \in DOMAIN log' : s \in DOMAIN log /\ log'[s] = log[s]
    BY <1>3 DEF DeleteRow, Tamper
  <2> QED
    BY <2>1 DEF StemInv, Row, WithValue, EntryHash
<1>4. ASSUME NEW t \in DOMAIN log, NEW value \in Values, EditRow(t, value) PROVE StemInv'
  <2>1. UNCHANGED written
    BY <1>4 DEF EditRow, Tamper
  <2>2. PICK w \in written, old \in Values : log[t] = WithValue(w, old)
    BY DEF StemInv
  <2>3. /\ DOMAIN log' = DOMAIN log
        /\ log'[t] = [log[t] EXCEPT !.value = value]
        /\ \A s \in DOMAIN log \ {t} : log'[s] = log[s]
    BY <1>4 DEF EditRow
  <2>4. log'[t] = WithValue(w, value)
    BY <2>2, <2>3 DEF WithValue
  <2>5. \A s \in DOMAIN log' :
            \E w2 \in written', v \in Values : log'[s] = WithValue(w2, v)
    BY <2>1, <2>3, <2>4 DEF StemInv
  <2> QED
    BY <2>1, <2>5 DEF StemInv, Row, WithValue, EntryHash
<1> QED
  BY <1>1, <1>2, <1>3, <1>4 DEF Next, RunStep, Publish, ReadTip, Insert, InsertConflict,
     LockTimeout, Report, Crash, vars

\* The rows of a chain that verifies are entries that runs wrote and read as they
\* did: no edit that shows in the text, and no deletion before the end, goes
\* unnoticed.
THEOREM TamperingIsEvident == Spec => []TamperEvident
<1>1. Init => StemInv
  BY DEF Init, StemInv
<1>2. StemInv => TamperEvident
  <2> SUFFICES ASSUME StemInv, VerifyOk, NEW s \in DOMAIN log
               PROVE  \E w \in written : Reads(log[s], w)
    BY DEF TamperEvident
  <2>1. PICK w \in written, value \in Values : log[s] = WithValue(w, value)
    BY DEF StemInv
  <2>2. w.run \in Runs /\ w = Row(w.run, w.seq, w.prev)
    BY <2>1 DEF StemInv
  <2>3. log[s].hash = EntryHash(log[s].seq, log[s].value, log[s].prev)
    BY DEF VerifyOk, Linked
  <2>4. w.hash = <<w.seq, Rendered(value), w.prev>>
    BY <2>1, <2>3 DEF WithValue, EntryHash
  <2>5. w.hash = <<w.seq, Rendered(w.value), w.prev>>
    BY <2>2 DEF Row, EntryHash
  <2>6. Rendered(log[s].value) = Rendered(w.value)
    BY <2>1, <2>4, <2>5 DEF WithValue
  <2>7. log[s] = [w EXCEPT !.value = log[s].value]
    BY <2>1, <2>2 DEF WithValue, Row
  <2> QED
    BY <2>6, <2>7 DEF Reads
<1> QED
  BY <1>1, <1>2, NextStemInv, PTL DEF Spec

=============================================================================
