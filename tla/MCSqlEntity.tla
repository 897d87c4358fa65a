---------------------------- MODULE MCSqlEntity ----------------------------
(* Two objects and a table of two rows at most, with a unique field.     *)
EXTENDS SqlEntity, TLC

CONSTANTS name, email, a, b
MCFields == {name, email}
MCUnique == {name}
MCValues == {a, b}
MCBulkUpdates == {[where |-> name, is |-> b, set |-> email, to |-> b]}
Symmetry == Permutations(Objects)
=============================================================================
