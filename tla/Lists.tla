------------------------------- MODULE Lists -------------------------------
(***************************************************************************)
(* Sequences as the lists of a program.                                    *)
(***************************************************************************)
EXTENDS Naturals, Sequences, FiniteSets, SequencesExt

IsList(s) == s \in Seq(ToSet(s))

(* The members of a sequence that lie in a set, in their order: SelectSeq  *)
(* in a form that proofs can expand.                                       *)
Filtered(s, set) == FlattenSeq([i \in DOMAIN s |-> IF s[i] \in set THEN <<s[i]>> ELSE <<>>])

(* The members of a set, in some order.                                    *)
Listed(set) == FoldSet(LAMBDA x, list : Append(list, x), <<>>, set)
=============================================================================
