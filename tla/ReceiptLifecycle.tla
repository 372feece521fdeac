-------------------------- MODULE ReceiptLifecycle --------------------------
(***************************************************************************)
(* What the client promises about one receipt: the server issues it, the   *)
(* client may store it, and a stored receipt stays stored until its own    *)
(* verification settles it, for good.  Receipts go through their lives one *)
(* step at a time and independently of each other.                         *)
(***************************************************************************)
CONSTANT Receipt

VARIABLE stage

Stages == {"absent", "issued", "stored", "settled"}

TypeOK == stage \in [Receipt -> Stages]

Init == stage = [r \in Receipt |-> "absent"]

Move(r, from, to) ==
  /\ stage[r] = from
  /\ stage' = [stage EXCEPT ![r] = to]

Issue(r)  == Move(r, "absent", "issued")
Store(r)  == Move(r, "issued", "stored")
Settle(r) == Move(r, "stored", "settled")

Next == \E r \in Receipt : Issue(r) \/ Store(r) \/ Settle(r)

Spec == Init /\ [][Next]_stage

=============================================================================
