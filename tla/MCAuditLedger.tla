--------------------------- MODULE MCAuditLedger ---------------------------
(***************************************************************************)
(* Three runs of one bundle.  An entry has two columns; among its values   *)
(* are two pairs that read the same: NULL and "None", and a bar that       *)
(* belongs to the one or to the other column.                              *)
(***************************************************************************)
EXTENDS AuditLedger

CONSTANTS r1, r2, r3

unset == <<Null, <<"x">>>>
none == <<<<"None">>, <<"x">>>>
barLeft == <<<<"x", Bar, "y">>, <<"z">>>>
barRight == <<<<"x">>, <<"y", Bar, "z">>>>

MCValues == {unset, none, barLeft, barRight}
MCValueOf == [r \in Runs |-> IF r = r1 THEN unset ELSE barLeft]
=============================================================================
