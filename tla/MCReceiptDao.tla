---------------------------- MODULE MCReceiptDao ----------------------------
(***************************************************************************)
(* ReceiptDao for TLC: clearance orders are compared, so they are numbers; *)
(* index values are only told apart, so they are interchangeable.          *)
(***************************************************************************)
EXTENDS ReceiptDao, TLC

CONSTANTS i0, i1

MCClearanceOrder == 1..2
MCIndexValue     == {i0, i1}
IndexSymmetry    == Permutations(MCIndexValue)

=============================================================================
