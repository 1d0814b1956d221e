----------------------------- MODULE ScanService -----------------------------
(***************************************************************************)
(* What run_scan promises, without saying how: a scanner with no cache at  *)
(* all.  The tree and the installed scanner change as they like, and every *)
(* answer is the record of a full scan of the tree as it is when the       *)
(* answer is given.  The prose that enrichment drafts is left free, and so *)
(* is an answer that is not sound: one to a run that was disturbed.        *)
(***************************************************************************)
CONSTANTS
    Trees,              \* the trees a repository can hold
    Versions,           \* the scanners that can be installed
    None,               \* no answer
    FullRecord(_, _, _), \* what a full scan of a tree returns
    Detected(_)         \* the part of a record that detection decides

VARIABLES work, version, answer

Init ==
    /\ work \in Trees
    /\ version \in Versions
    /\ answer = None

Change ==
    /\ work' \in Trees
    /\ version' \in Versions
    /\ answer' = None

Answer ==
    /\ answer' # None
    /\ answer'.sound =>
           /\ answer'.tree = work
           /\ Detected(answer'.record) =
                  Detected(FullRecord(work, answer'.version, answer'.options))
    /\ UNCHANGED <<work, version>>

Next == Change \/ Answer

Spec == Init /\ [][Next]_<<work, version, answer>>

=============================================================================
