---------------------------- MODULE ClientExample ----------------------------
(***************************************************************************)
(* The example program of src/example/bns-client-example: its main loop    *)
(* drives the client of BnsClient.tla.  While the receipt DAO has room it  *)
(* enters a command, when the DAO is full it verifies; the first call that *)
(* fails ends the program.  The hourly bns_relogin(), whose result is      *)
(* ignored, changes nothing the client keeps.                              *)
(***************************************************************************)
EXTENDS BnsClient

VARIABLE main  \* where the main loop stands: "loop", "calling" or "ended"

exampleVars == <<vars, main>>

ExampleInit == Init /\ main = "loop"

(* receipt_cache_count() < RECEIPT_CACHE_SIZE, and an off-by-one of it.    *)
HasRoom_OffByOne == Cardinality(receiptDao) <= ReceiptCacheSize

HasRoom == Cardinality(receiptDao) < ReceiptCacheSize

(* The head of the loop.                                                   *)
MainCalls ==
  /\ main = "loop"
  /\ main' = "calling"
  /\ IF HasRoom THEN LedgerInput ELSE VerifyNow

(* The call returns: the loop goes on, or the program frees the client and *)
(* ends.                                                                   *)
MainReturns ==
  /\ main = "calling"
  /\ pc = "idle"
  /\ main' = IF exitCode = "OK" THEN "loop" ELSE "ended"
  /\ UNCHANGED vars

MainStep == MainCalls \/ MainReturns

ExampleCallStep == CallStep /\ UNCHANGED main

Environment ==
  /\ ServerStep \/ \E req \in late : LateRequest(req)
  /\ UNCHANGED main

ExampleNext == MainStep \/ ExampleCallStep \/ Environment

ExampleSpec == ExampleInit /\ [][ExampleNext]_exampleVars

(* What liveness assumes of the other side: clearance orders are closed    *)
(* and anchored in the end, and a GET of the done clearance order that is  *)
(* repeated for ever is not damaged for ever.                              *)
Closing ==
  /\ CloseClearanceOrder
  /\ UNCHANGED <<callVars, verifyVars, netVars, rejected, main>>

Anchoring ==
  /\ AnchorClearanceOrder
  /\ UNCHANGED <<callVars, verifyVars, netVars, rejected, main>>

IntactDoneClearanceOrder ==
  GetDoneClearanceOrder /\ clearedCO' = doneCO /\ UNCHANGED main

ExampleFairSpec ==
  /\ ExampleSpec
  /\ WF_exampleVars(MainStep)
  /\ WF_exampleVars(ExampleCallStep)
  /\ WF_exampleVars(Closing)
  /\ WF_exampleVars(Anchoring)
  /\ SF_exampleVars(IntactDoneClearanceOrder)

-----------------------------------------------------------------------------
(* Properties                                                              *)

(* receipt_cache_save() drops what does not fit, and nobody would notice.  *)
(* The loop looks at the count before the call and the receipt is saved    *)
(* many steps later, after any number of resends: it still fits, so what a *)
(* ledger input reports has been stored.                                   *)
ReportedReceiptIsStored ==
  pc = "respond" /\ exitCode = "OK" => result \in receiptDao

(* The loop does not get stuck on a full DAO: after every command it sends *)
(* another one, or a failure has ended the program.  Only receipts of the  *)
(* last clearance order of the model, which is never closed, may keep the  *)
(* DAO full.                                                               *)
StuckAtBound ==
  ~HasRoom /\ \A r \in receiptDao : r.clearanceOrder = MaxCO

LoopGoesOn ==
  \A n \in 0..(MaxCalls - 1) :
    cmd = n ~> cmd > n \/ main = "ended" \/ StuckAtBound

=============================================================================
