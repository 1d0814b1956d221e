----------------------------- MODULE Governance -----------------------------
(***************************************************************************)
(* The governance register of inventory.db (set_governance in              *)
(* aiscan/dataset/store.py): decisions about systems are kept in one row   *)
(* per bundle, and every field a decision changes is recorded in the       *)
(* governance_audit table.  Decisions are made by processes of their own.  *)
(* Each reads the row and then the last audit number outside any           *)
(* transaction, and writes both tables in one transaction.                 *)
(***************************************************************************)
EXTENDS Integers, Sequences, FiniteSetsExt

CONSTANTS
    Deciders,
    Bundles,
    FieldOrder,  \* the fields of the register, in the order of set_governance
    Values,
    Null,
    NoDecider

ASSUME GovernanceAssumption == Null \notin Values /\ NoDecider \notin Deciders

Fields == {FieldOrder[i] : i \in DOMAIN FieldOrder}

\* Every field has one place in the order.
ASSUME FieldsAssumption ==
    /\ FieldOrder \in Seq(Fields)
    /\ \A i, j \in DOMAIN FieldOrder : FieldOrder[i] = FieldOrder[j] => i = j

VARIABLES
    pc,        \* where each decision is
    request,   \* [bundle, new]: the fields passed, Null for the others
    old,       \* the row a decision has read
    gseq,      \* the last audit number a decision has read
    writer,    \* the decision that holds the write lock
    register,  \* the governance table: bundle -> field -> value
    audit,     \* the governance_audit table, by seq
    overlapped \* whether two decisions were ever under way at once

vars == <<pc, request, old, gseq, writer, register, audit, overlapped>>

Rows == [Fields -> Values \cup {Null}]
Requests == [bundle : Bundles, new : Rows]
NoRow == [f \in Fields |-> Null]

Init ==
    /\ pc = [d \in Deciders |-> "ready"]
    /\ request \in [Deciders -> Requests]
    /\ old = [d \in Deciders |-> NoRow]
    /\ gseq = [d \in Deciders |-> 0]
    /\ writer = NoDecider
    /\ register = [b \in Bundles |-> NoRow]
    /\ audit = <<>>
    /\ overlapped = FALSE

Ended == {"done", "failed", "crashed"}
Goto(d, to) == pc' = [pc EXCEPT ![d] = to]

-----------------------------------------------------------------------------
(* One decision *)

ReadRow(d) ==
    /\ pc[d] = "ready"
    /\ overlapped' = (overlapped \/ \E e \in Deciders : pc[e] \notin Ended \cup {"ready"})
    /\ old' = [old EXCEPT ![d] = register[request[d].bundle]]
    /\ Goto(d, "read_seq")
    /\ UNCHANGED <<request, gseq, writer, register, audit>>

ReadSeq(d) ==
    /\ pc[d] = "read_seq"
    /\ gseq' = [gseq EXCEPT ![d] = Len(audit)]
    /\ Goto(d, "write")
    /\ UNCHANGED <<request, old, writer, register, audit, overlapped>>

\* The members of seq that are in set, in the order of seq.
Selected(seq, set) ==
    LET Upto[i \in 0..Len(seq)] ==
            IF i = 0 THEN <<>>
            ELSE IF seq[i] \in set THEN Append(Upto[i - 1], seq[i]) ELSE Upto[i - 1]
    IN  Upto[Len(seq)]

\* An audit of updates that leaves out the fields set for the first time.
ChangesOfSetFields(d) ==
    Selected(FieldOrder,
             {f \in Fields : old[d][f] # Null /\ request[d].new[f] \notin {Null, old[d][f]}})

\* The passed fields whose value differs from the row's.
Changed(d) == {f \in Fields : request[d].new[f] \notin {Null, old[d][f]}}
Changes(d) == Selected(FieldOrder, Changed(d))

\* A replace that writes only what was passed.
RequestedOnly(d) == request[d].new

Merged(d) ==
    [f \in Fields |-> IF request[d].new[f] # Null THEN request[d].new[f] ELSE old[d][f]]

\* Entries that do not say what they replace.
EntriesWithoutOld(d) ==
    [i \in DOMAIN Changes(d) |->
        [bundle |-> request[d].bundle, field |-> Changes(d)[i],
         old |-> Null, new |-> request[d].new[Changes(d)[i]]]]

Entries(d) ==
    [i \in DOMAIN Changes(d) |->
        [bundle |-> request[d].bundle, field |-> Changes(d)[i],
         old |-> old[d][Changes(d)[i]], new |-> request[d].new[Changes(d)[i]]]]

\* seq is the primary key: the numbers the decision would use are taken.
SeqTaken(d) == Changes(d) # <<>> /\ gseq[d] # Len(audit)

Write(d) ==
    /\ pc[d] = "write"
    /\ writer = NoDecider
    /\ ~SeqTaken(d)
    /\ writer' = d
    /\ Goto(d, "commit")
    /\ UNCHANGED <<request, old, gseq, register, audit, overlapped>>

\* A failure that keeps the rows written before it.
WriteFailsHalfway(d) ==
    /\ pc[d] = "write"
    /\ writer # NoDecider \/ SeqTaken(d)
    /\ register' = [register EXCEPT ![request[d].bundle] = Merged(d)]
    /\ Goto(d, "failed")
    /\ UNCHANGED <<request, old, gseq, writer, audit, overlapped>>

\* IntegrityError, or busy_timeout ran out: the transaction is rolled back.
WriteFails(d) ==
    /\ pc[d] = "write"
    /\ writer # NoDecider \/ SeqTaken(d)
    /\ Goto(d, "failed")
    /\ UNCHANGED <<request, old, gseq, writer, register, audit, overlapped>>

\* Both tables change in one transaction.
CommitDecision(d) ==
    /\ pc[d] = "commit"
    /\ audit' = audit \o Entries(d)
    /\ register' = [register EXCEPT ![request[d].bundle] = Merged(d)]
    /\ writer' = NoDecider
    /\ Goto(d, "done")
    /\ UNCHANGED <<request, old, gseq, overlapped>>

\* The lock outlives its owner.
CrashKeepsLock(d) ==
    /\ pc[d] \notin Ended
    /\ Goto(d, "crashed")
    /\ UNCHANGED <<request, old, gseq, writer, register, audit, overlapped>>

\* The process dies; an open transaction is rolled back.
Crash(d) ==
    /\ pc[d] \notin Ended
    /\ Goto(d, "crashed")
    /\ writer' = IF writer = d THEN NoDecider ELSE writer
    /\ UNCHANGED <<request, old, gseq, register, audit, overlapped>>

Next ==
    \E d \in Deciders :
        \/ ReadRow(d) \/ ReadSeq(d) \/ Write(d) \/ WriteFails(d) \/ CommitDecision(d)
        \/ Crash(d)

Spec == Init /\ [][Next]_vars

-----------------------------------------------------------------------------
(* Properties *)

\* Types, and the write lock is with the one decision that is about to commit.
TypeOK ==
    /\ pc \in [Deciders -> {"ready", "read_seq", "write", "commit"} \cup Ended]
    /\ request \in [Deciders -> Requests]
    /\ old \in [Deciders -> Rows]
    /\ gseq \in [Deciders -> Nat]
    /\ \A d \in Deciders : pc[d] = "commit" <=> writer = d
    /\ writer \in Deciders \cup {NoDecider}
    /\ register \in [Bundles -> Rows]
    /\ overlapped \in BOOLEAN
    /\ audit \in Seq([bundle : Bundles, field : Fields, old : Values \cup {Null}, new : Values])

EntriesOf(b, f) == {s \in DOMAIN audit : audit[s].bundle = b /\ audit[s].field = f}

\* The value the audit trail gives a field just before entry s.
Before(s, b, f) ==
    LET earlier == {t \in EntriesOf(b, f) : t < s}
    IN  IF earlier = {} THEN Null ELSE audit[Max(earlier)].new

\* Every changed field is audited: as long as decisions are made one at a time,
\* replaying the trail gives the register.
RegisterIsReplay ==
    ~overlapped =>
        \A b \in Bundles, f \in Fields : register[b][f] = Before(Len(audit) + 1, b, f)

\* As long as decisions are made one at a time, each entry replaces the value that
\* the entry before it left.
AuditTrailLinks ==
    ~overlapped =>
        \A s \in DOMAIN audit : audit[s].old = Before(s, audit[s].bundle, audit[s].field)

\* Whatever decisions race, fail and die, every value in the register is one that
\* a decision which reported success was given for that field.
RegisterHoldsDecisions ==
    \A b \in Bundles, f \in Fields :
        register[b][f] # Null =>
            \E d \in Deciders : /\ pc[d] = "done"
                                /\ request[d].bundle = b
                                /\ request[d].new[f] = register[b][f]

\* The decision d, about to commit, was given the value that field f of b gets.
Passes(d, b, f) ==
    /\ pc[d] = "commit"
    /\ request[d].bundle = b
    /\ request[d].new[f] # Null
    /\ request[d].new[f] = register'[b][f]

\* Only the fields passed are updated; the rest are preserved.
OnlyPassedFieldsChange ==
    [][\A b \in Bundles, f \in Fields :
          register'[b][f] # register[b][f] => \E d \in Deciders : Passes(d, b, f)]_vars

\* The same, as long as decisions are made one at a time.
SerialDecisionsChangeWhatTheyPass ==
    [][\A b \in Bundles, f \in Fields :
          ~overlapped /\ register'[b][f] # register[b][f] =>
              \E d \in Deciders : Passes(d, b, f)]_vars

=============================================================================
