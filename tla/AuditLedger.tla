---------------------------- MODULE AuditLedger ----------------------------
(***************************************************************************)
(* The audit ledger of inventory.db (aiscan/dataset/store.py) as the end   *)
(* of run_scan (aiscan/cli.py) writes it: every scan run publishes its     *)
(* rows in one transaction and then appends one entry to the hash chain in *)
(* another.  Runs are processes of their own; SQLite lets one of them      *)
(* write at a time.  append_audit_entry reads the tip before its write     *)
(* transaction begins.                                                     *)
(*                                                                         *)
(* A hash is represented by what is hashed: two hashes are equal iff their *)
(* inputs are.  A value is the columns of a run, each Null or a text, a    *)
(* sequence of atoms.  What is hashed of them is their texts, joined by    *)
(* bars, and that does not keep all values apart (Rendered).               *)
(***************************************************************************)
EXTENDS Integers, FiniteSets, SequencesExt

CONSTANTS
    Runs,        \* scan runs, each a process
    Values,      \* values of an entry's columns
    ValueOf,     \* [Runs -> Values]
    Null,        \* a column that is NULL
    NoRun,
    MaxTampers   \* bound on the changes made behind the program's back

ASSUME RunsAssumption == NoRun \notin Runs /\ ValueOf \in [Runs -> Values]
ASSUME TamperAssumption == MaxTampers \in Nat

VARIABLES
    pc,          \* where each run is
    tip,         \* the tip each run has read
    writer,      \* the run that holds the write lock
    published,   \* runs whose rows are in the dataset
    log,         \* the audit_log table: seq -> row
    written,     \* every row a run has ever committed, for the properties
    tampers

vars == <<pc, tip, writer, published, log, written, tampers>>

Genesis == "genesis"

Bar == "|"

\* str(): of None it is the text "None".
Text(column) == IF column = Null THEN <<"None">> ELSE column

\* "|".join of the columns' texts.
Rendered(value) == Tail(FlattenSeq([i \in DOMAIN value |-> <<Bar>> \o Text(value[i])]))

\* The number is what stands before the first bar, the previous hash what stands
\* after the last one: those two can be told, whatever is between.
EntryHash(seq, value, prev) == <<seq, Rendered(value), prev>>

Row(run, seq, prev) ==
    [seq   |-> seq,
     run   |-> run,
     value |-> ValueOf[run],
     prev  |-> prev,
     hash  |-> EntryHash(seq, ValueOf[run], prev)]

\* ORDER BY seq DESC LIMIT 1, or the start of the chain.
Tip ==
    IF DOMAIN log = {} THEN [seq |-> 0, hash |-> Genesis]
    ELSE LET last == CHOOSE s \in DOMAIN log : \A t \in DOMAIN log : t <= s
         IN  [seq |-> last, hash |-> log[last].hash]

\* Numbering from the tip instead of after it.
RowAtTip(r) == Row(r, tip[r].seq, tip[r].hash)

NewRow(r) == Row(r, tip[r].seq + 1, tip[r].hash)

Init ==
    /\ pc = [r \in Runs |-> "publish"]
    /\ tip = [r \in Runs |-> [seq |-> 0, hash |-> Genesis]]
    /\ writer = NoRun
    /\ published = {}
    /\ log = [s \in {} |-> {}]
    /\ written = {}
    /\ tampers = 0

Goto(r, to) == pc' = [pc EXCEPT ![r] = to]

-----------------------------------------------------------------------------
(* One run *)

\* upsert_record: one transaction.
Publish(r) ==
    /\ pc[r] = "publish"
    /\ writer = NoRun
    /\ published' = published \cup {r}
    /\ Goto(r, "read_tip")
    /\ UNCHANGED <<tip, writer, log, written, tampers>>

\* The SELECT of append_audit_entry, outside any transaction.
ReadTip(r) ==
    /\ pc[r] = "read_tip"
    /\ tip' = [tip EXCEPT ![r] = Tip]
    /\ Goto(r, "insert")
    /\ UNCHANGED <<writer, published, log, written, tampers>>

\* INSERT OR REPLACE.
InsertOrReplace(r) ==
    /\ pc[r] = "insert"
    /\ writer = NoRun
    /\ writer' = r
    /\ Goto(r, "commit")
    /\ UNCHANGED <<tip, published, log, written, tampers>>

\* The INSERT takes the write lock; seq is the primary key.
Insert(r) ==
    /\ pc[r] = "insert"
    /\ writer = NoRun
    /\ tip[r].seq + 1 \notin DOMAIN log
    /\ writer' = r
    /\ Goto(r, "commit")
    /\ UNCHANGED <<tip, published, log, written, tampers>>

\* IntegrityError: another run has taken the seq.
InsertConflict(r) ==
    /\ pc[r] = "insert"
    /\ writer = NoRun
    /\ tip[r].seq + 1 \in DOMAIN log
    /\ Goto(r, "failed")
    /\ UNCHANGED <<tip, writer, published, log, written, tampers>>

\* The error is swallowed.
LockTimeoutIgnored(r) ==
    /\ pc[r] \in {"publish", "insert"}
    /\ writer # NoRun
    /\ Goto(r, "done")
    /\ UNCHANGED <<tip, writer, published, log, written, tampers>>

\* busy_timeout ran out while another run held the lock.
LockTimeout(r) ==
    /\ pc[r] \in {"publish", "insert"}
    /\ writer # NoRun
    /\ Goto(r, "failed")
    /\ UNCHANGED <<tip, writer, published, log, written, tampers>>

Extend(row) == [s \in DOMAIN log \cup {row.seq} |-> IF s = row.seq THEN row ELSE log[s]]

CommitAppend(r) ==
    /\ pc[r] = "commit"
    /\ log' = Extend(NewRow(r))
    /\ written' = written \cup {NewRow(r)}
    /\ writer' = NoRun
    /\ Goto(r, "logged")
    /\ UNCHANGED <<tip, published, tampers>>

\* run_scan returns, after the manifest was written.
Report(r) ==
    /\ pc[r] = "logged"
    /\ Goto(r, "done")
    /\ UNCHANGED <<tip, writer, published, log, written, tampers>>

\* The process dies, or writing the manifest fails; an open transaction is rolled
\* back, an entry that was committed stays.
Crash(r) ==
    /\ pc[r] \in {"publish", "read_tip", "insert", "commit", "logged"}
    /\ Goto(r, IF pc[r] = "logged" THEN "unreported" ELSE "crashed")
    /\ writer' = IF writer = r THEN NoRun ELSE writer
    /\ UNCHANGED <<tip, published, log, written, tampers>>

-----------------------------------------------------------------------------
(* Changes to the table that did not go through append_audit_entry *)

Tamper ==
    /\ writer = NoRun
    /\ tampers < MaxTampers
    /\ tampers' = tampers + 1
    /\ UNCHANGED <<pc, tip, writer, published, written>>

EditRow(s, value) ==
    /\ Tamper
    /\ log[s].value # value
    /\ log' = [log EXCEPT ![s].value = value]

DeleteRow(s) ==
    /\ Tamper
    /\ log' = [t \in DOMAIN log \ {s} |-> log[t]]

-----------------------------------------------------------------------------
RunStep(r) ==
    \/ Publish(r) \/ ReadTip(r) \/ Insert(r) \/ InsertConflict(r) \/ LockTimeout(r)
    \/ CommitAppend(r) \/ Report(r) \/ Crash(r)

Next ==
    \/ \E r \in Runs : RunStep(r)
    \/ \E s \in DOMAIN log : DeleteRow(s) \/ \E value \in Values : EditRow(s, value)

Spec == Init /\ [][Next]_vars

-----------------------------------------------------------------------------
(* verify_audit_log *)

\* A verifier that follows the links and does not recompute the hashes.
LinkedWithoutHash(s) ==
    log[s].prev = IF s = 1 THEN Genesis ELSE log[s - 1].hash

Linked(s) ==
    LET row == log[s]
    IN  /\ row.prev = IF s = 1 THEN Genesis ELSE log[s - 1].hash
        /\ row.hash = EntryHash(row.seq, row.value, row.prev)

\* The rows are numbered 1, 2, ... without a gap and every link holds.
VerifyOk ==
    \E n \in {0} \cup DOMAIN log :
        /\ DOMAIN log = 1..n
        /\ \A s \in DOMAIN log : Linked(s)

-----------------------------------------------------------------------------
(* Properties *)

TypeOK ==
    /\ pc \in [Runs -> {"publish", "read_tip", "insert", "commit", "logged", "done", "failed",
                        "crashed", "unreported"}]
    /\ writer \in Runs \cup {NoRun}
    /\ published \in SUBSET Runs
    /\ DOMAIN log \subseteq Nat \ {0}
    /\ tampers \in 0..MaxTampers

\* However runs interleave, fail and die, the chain they leave behind verifies.
ChainVerifies == tampers = 0 => VerifyOk

\* The entry of the run has been committed.
Entered(r) == pc[r] \in {"logged", "done", "unreported"}

\* A run that reports success is in the ledger exactly once, and a run that failed
\* or died before its entry was committed is not; one that fails or dies later is
\* there although it never reports.
SuccessIsLogged ==
    tampers = 0 =>
        \A r \in Runs :
            Cardinality({s \in DOMAIN log : log[s].run = r}) = IF Entered(r) THEN 1 ELSE 0

\* The row is the entry in everything but its columns, and they read the same.
Reads(row, entry) ==
    /\ row = [entry EXCEPT !.value = row.value]
    /\ Rendered(row.value) = Rendered(entry.value)

\* In a chain that verifies every row is an entry that a run wrote, under its
\* number and after its predecessor, and its columns have the text they had: an
\* edit that shows in the text, or a deletion before the end, is always found.
TamperEvident == VerifyOk => \A s \in DOMAIN log : \E entry \in written : Reads(log[s], entry)

\* The docstring's claim, that any edit is found.  It fails: NULL reads as "None",
\* and a bar may move from one column to the next.
EveryEditIsFound == VerifyOk => \A s \in DOMAIN log : log[s] \in written

\* One row per run: when every run has ended, each run whose rows are in the
\* dataset is in the ledger.
PublishedRunsAreLogged ==
    (\A r \in Runs : pc[r] \in {"done", "failed", "unreported"}) =>
        \A r \in published : \E s \in DOMAIN log : log[s].run = r

=============================================================================
