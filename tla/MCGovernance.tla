---------------------------- MODULE MCGovernance ----------------------------
(* Two fields of the register; two deciders of two systems, or three of one. *)
EXTENDS Governance

CONSTANTS d1, d2, d3, b1, b2, v1, v2

TwoFields == <<"owner", "approval_status">>
=============================================================================
