--------------------------- MODULE MCReceiptFields ---------------------------
(***************************************************************************)
(* The numbers of the server's locators for TLC: negative, zero, and on    *)
(* both sides of a change in the number of digits; texts of an answer that *)
(* just fit their array, fill it and are longer.                           *)
(***************************************************************************)
EXTENDS ReceiptFields

MCSerialNumbers == {-1, 0, 9, 10, 999, 1000}

MCClearanceOrders == {-10, 0, 9, 10}

MCTextExcess == {-1, 0, 1}
=============================================================================
