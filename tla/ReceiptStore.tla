---------------------------- MODULE ReceiptStore ----------------------------
(***************************************************************************)
(* What the client expects of receipt_dao_t: a bounded set of receipts,    *)
(* and operations that have done what they are for when they return.       *)
(* BnsClient.tla works with this set; ReceiptDao.tla implements it.        *)
(***************************************************************************)
EXTENDS Integers, FiniteSets

CONSTANTS Receipt, ReceiptCacheSize

VARIABLES
  stored,   \* the receipts saved and not deleted
  op,       \* "save" or "delete" while that operation runs, "idle" otherwise
  receipt   \* its argument

vars == <<stored, op, receipt>>

Init == stored = {} /\ op = "idle"

Call(o, r) == /\ op = "idle"
              /\ op' = o
              /\ receipt' = r
              /\ UNCHANGED stored

(* What does not fit is dropped, and nothing else is.                      *)
Save == /\ op = "save"
        /\ stored' = IF Cardinality(stored) < ReceiptCacheSize
                       THEN stored \cup {receipt} ELSE stored
        /\ op' = "idle"
        /\ UNCHANGED receipt

Delete == /\ op = "delete"
          /\ stored' = stored \ {receipt}
          /\ UNCHANGED <<op, receipt>>

DeleteReturns == /\ op = "delete"
                 /\ receipt \notin stored
                 /\ op' = "idle"
                 /\ UNCHANGED <<stored, receipt>>

Next == \/ \E o \in {"save", "delete"}, r \in Receipt : Call(o, r)
        \/ Save
        \/ Delete
        \/ DeleteReturns

Spec == Init /\ [][Next]_vars

=============================================================================
