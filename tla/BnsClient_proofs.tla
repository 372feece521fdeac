--------------------------- MODULE BnsClient_proofs ---------------------------
(***************************************************************************)
(* Proofs that the safety properties of BnsClient hold for every number of *)
(* clearance orders, ledger inputs, calls, retries and stored receipts.    *)
(***************************************************************************)
EXTENDS BnsClient, TLAPS

(* The server moves forward only.  A locator is dead once the server has   *)
(* gone past it, and every locator the client holds was handed out before. *)
Dead(l) == \/ l.clearanceOrder < openCO
           \/ l.clearanceOrder = openCO /\ l.indexValue < nextSn

Seen(l) == \/ l.clearanceOrder < openCO
           \/ l.clearanceOrder = openCO /\ l.indexValue <= nextSn

(* What the client holds at which place of the call.                       *)
HoldsWhatItNeeds ==
  /\ pc \in {"locate", "post", "wait", "parse", "respond"} => cmd # 0
  /\ pc \in {"post", "wait", "parse"} => locator # NULL
  /\ pc \in {"wait", "parse"} => wire = [locator |-> locator, cmd |-> cmd]
  /\ pc = "parse" => reply \in Reply

(* The receipts of the ledger, in the store, settled and on their way.     *)
ReceiptsInPlace ==
  /\ receiptDao \subseteq ledger
  /\ settled \subseteq ledger
  /\ receiptDao \cap settled = {}
  /\ pc = "parse" /\ reply.code = "OK" =>
       /\ reply.receipt = ReceiptFor(wire)
       /\ reply.receipt \in ledger
       /\ reply.receipt \notin receiptDao \cup settled

LocatorsInPlace ==
  /\ locator # NULL => Seen(locator)
  /\ \A req \in late : Seen(req.locator)
  /\ \A r \in ledger : Dead(r)
  /\ \A l \in rejected : Dead(l)
  /\ pc = "parse" /\ reply.code \in ResendErrors => Dead(locator)
  /\ pc \in {"post", "wait", "parse"} => locator \notin rejected

AnchorsInPlace ==
  /\ clearedCO <= doneCO
  /\ pc = "parse" => reply.doneCO <= doneCO
  /\ \A r \in settled : r.clearanceOrder <= doneCO

(* The inductive invariant.                                                *)
ClientInv ==
  /\ TypeOK
  /\ HoldsWhatItNeeds
  /\ ReceiptsInPlace
  /\ LocatorsInPlace
  /\ AnchorsInPlace
  /\ ReportedReceiptIsOurs

-----------------------------------------------------------------------------
(* The vocabulary of the locators and receipts.                            *)
LEMMA ReceiptForType ==
  ASSUME NEW req \in Request
  PROVE  /\ ReceiptFor(req) \in Receipt
         /\ ReceiptFor(req) # Garbled
         /\ ReceiptFor(req) # NULL
         /\ LocatorOf(ReceiptFor(req)) = req.locator
         /\ ReceiptFor(req).cmd = req.cmd
         /\ ReceiptFor(req).clearanceOrder = req.locator.clearanceOrder
         /\ ReceiptFor(req).indexValue = req.locator.indexValue
BY ClientConstants, ServerBounds
   DEF Request, Locator, Receipt, ReceiptFor, LocatorOf, Garbled

LEMMA GarbledIsNoReceipt == Garbled \notin Receipt
BY ServerBounds DEF Garbled, Receipt

LEMMA CurrentLocatorType ==
  ServerTypeOK => /\ CurrentLocator \in Locator
                  /\ Seen(CurrentLocator)
                  /\ ~Dead(CurrentLocator)
BY ServerBounds DEF ServerTypeOK, CurrentLocator, Locator, Seen, Dead

(* The server's steps type-check, keep what is dead dead and what was seen *)
(* seen, and never take a receipt off the ledger or an anchor back.        *)
ServerMoves ==
  /\ ServerTypeOK'
  /\ ledger \subseteq ledger'
  /\ doneCO <= doneCO'
  /\ \A l \in Locator \cup Receipt : /\ Dead(l) => Dead(l)'
                                     /\ Seen(l) => Seen(l)'

LEMMA ServerStands ==
  ASSUME ServerTypeOK, UNCHANGED serverVars
  PROVE  ServerMoves
BY DEF ServerMoves, ServerTypeOK, serverVars, Dead, Seen

LEMMA CloseMoves ==
  ASSUME ServerTypeOK, CloseClearanceOrder
  PROVE  ServerMoves /\ ledger' = ledger
BY ServerBounds
   DEF ServerMoves, ServerTypeOK, CloseClearanceOrder, Dead, Seen, Locator, Receipt

LEMMA AnchorMoves ==
  ASSUME ServerTypeOK, AnchorClearanceOrder
  PROVE  ServerMoves /\ ledger' = ledger
BY ServerBounds
   DEF ServerMoves, ServerTypeOK, AnchorClearanceOrder, Dead, Seen, Locator, Receipt

LEMMA AcceptMoves ==
  ASSUME ServerTypeOK, NEW req \in Request, Accept(req)
  PROVE  /\ ServerMoves
         /\ ledger' = ledger \cup {ReceiptFor(req)}
         /\ ~Dead(ReceiptFor(req))
         /\ Dead(ReceiptFor(req))'
         /\ doneCO' = doneCO
<1>1. ReceiptFor(req) \in Receipt
  BY ReceiptForType
<1>2. /\ openCO' = openCO /\ doneCO' = doneCO /\ nextSn' = nextSn + 1
      /\ nextSn < MaxInputs
      /\ ledger' = ledger \cup {ReceiptFor(req)}
  BY DEF Accept
<1>3. ServerTypeOK'
  BY <1>1, <1>2, ServerBounds DEF ServerTypeOK
<1>4. /\ ReceiptFor(req).clearanceOrder = openCO
      /\ ReceiptFor(req).indexValue = nextSn
  BY ReceiptForType DEF Accept, CurrentLocator
<1>5. \A l \in Locator \cup Receipt : /\ Dead(l) => Dead(l)'
                                      /\ Seen(l) => Seen(l)'
  BY <1>2, ServerBounds DEF Dead, Seen, Locator, Receipt, ServerTypeOK
<1>6. ~Dead(ReceiptFor(req)) /\ Dead(ReceiptFor(req))'
  BY <1>2, <1>4, ServerBounds DEF Dead, ServerTypeOK
<1> QED
  BY <1>2, <1>3, <1>5, <1>6, ServerBounds DEF ServerMoves, ServerTypeOK

-----------------------------------------------------------------------------
LEMMA InitInv == Init => ClientInv
BY ServerBounds, ClientConstants
   DEF Init, ServerInit, ClientInv, TypeOK, ServerTypeOK, HoldsWhatItNeeds,
       ReceiptsInPlace, LocatorsInPlace, AnchorsInPlace, ReportedReceiptIsOurs,
       ExitCodes, ReplyCodes, LedgerInputErrors, ResendErrors

(* Steps of the environment alone.                                         *)
LEMMA ServerStepInv ==
  ASSUME ClientInv, ServerStep
  PROVE  ClientInv'
<1> USE DEF ClientInv
<1>1. ServerMoves /\ ledger' = ledger
  BY CloseMoves, AnchorMoves DEF ServerStep, TypeOK
<1>2. UNCHANGED <<callVars, verifyVars, netVars, rejected>>
  BY DEF ServerStep
<1> USE DEF callVars, verifyVars, netVars
<1>3. TypeOK'
  BY <1>1, <1>2 DEF TypeOK, ServerMoves
<1>4. HoldsWhatItNeeds'
  BY <1>2 DEF HoldsWhatItNeeds
<1>5. ReceiptsInPlace' /\ ReportedReceiptIsOurs'
  BY <1>1, <1>2 DEF ReceiptsInPlace, ReportedReceiptIsOurs
<1>6. LocatorsInPlace'
  BY <1>1, <1>2 DEF LocatorsInPlace, ServerMoves, TypeOK, ServerTypeOK, Request,
     Dead, Seen, HoldsWhatItNeeds
<1>7. AnchorsInPlace'
  BY <1>1, <1>2, ServerBounds DEF AnchorsInPlace, HoldsWhatItNeeds, ServerMoves,
     TypeOK, ServerTypeOK, Reply, Receipt, Garbled, ReceiptsInPlace
<1> QED
  BY <1>3, <1>4, <1>5, <1>6, <1>7

LEMMA LateRequestInv ==
  ASSUME ClientInv, NEW req \in late, LateRequest(req)
  PROVE  ClientInv'
<1> USE DEF ClientInv
<1>1. /\ UNCHANGED <<callVars, verifyVars, wire, reply, rejected>>
      /\ late' = late \ {req}
      /\ req \in Request
  BY DEF LateRequest, TypeOK
<1>2. /\ ServerMoves
      /\ \A r \in ledger' : Dead(r)'
  <2>1. CASE Accept(req)
    BY <1>1, <2>1, AcceptMoves
       DEF TypeOK, ServerMoves, LocatorsInPlace, ServerTypeOK
  <2>2. CASE UNCHANGED serverVars
    BY <2>2, ServerStands
       DEF TypeOK, ServerMoves, LocatorsInPlace, ServerTypeOK, serverVars
  <2> QED
    BY <2>1, <2>2 DEF LateRequest
<1> USE DEF callVars, verifyVars
<1>3. TypeOK'
  BY <1>1, <1>2 DEF TypeOK, ServerMoves
<1>4. HoldsWhatItNeeds'
  BY <1>1 DEF HoldsWhatItNeeds
<1>5. ReceiptsInPlace' /\ ReportedReceiptIsOurs'
  BY <1>1, <1>2 DEF ReceiptsInPlace, ReportedReceiptIsOurs, ServerMoves
<1>6. LocatorsInPlace'
  BY <1>1, <1>2 DEF LocatorsInPlace, ServerMoves, TypeOK, ServerTypeOK, Request,
     Dead, Seen, HoldsWhatItNeeds
<1>7. AnchorsInPlace'
  BY <1>1, <1>2, ServerBounds DEF AnchorsInPlace, HoldsWhatItNeeds, ServerMoves,
     TypeOK, ServerTypeOK, Reply, Receipt, Garbled, ReceiptsInPlace
<1> QED
  BY <1>3, <1>4, <1>5, <1>6, <1>7

(* Client steps outside the wait for an answer: the server stands still.   *)
LEMMA BeginCallInv ==
  ASSUME ClientInv, BeginCall
  PROVE  ClientInv'
BY ServerBounds, ClientConstants
   DEF ClientInv, BeginCall, BeginAttempt, serverVars, verifyVars, netVars,
       TypeOK, ServerTypeOK, HoldsWhatItNeeds, ReceiptsInPlace, LocatorsInPlace,
       AnchorsInPlace, ReportedReceiptIsOurs, Dead, Seen

LEMMA BinaryDisabledInv ==
  ASSUME ClientInv, BinaryLedgerInputDisabled
  PROVE  ClientInv'
BY ServerBounds, ClientConstants
   DEF ClientInv, BinaryLedgerInputDisabled, Return, serverVars, netVars,
       TypeOK, ServerTypeOK, HoldsWhatItNeeds, ReceiptsInPlace, LocatorsInPlace,
       AnchorsInPlace, ReportedReceiptIsOurs, Dead, Seen, ExitCodes, ReplyCodes

LEMMA GetReceiptLocatorInv ==
  ASSUME ClientInv, GetReceiptLocator
  PROVE  ClientInv'
<1> USE DEF ClientInv, GetReceiptLocator, serverVars, verifyVars, netVars
<1>1. /\ CurrentLocator \in Locator /\ CurrentLocator # NULL
      /\ Seen(CurrentLocator)
      /\ ~Dead(CurrentLocator)
  BY CurrentLocatorType, ClientConstants DEF TypeOK
<1>2. TypeOK'
  BY <1>1, ClientConstants DEF TypeOK, ServerTypeOK
<1>3. HoldsWhatItNeeds' /\ ReceiptsInPlace' /\ AnchorsInPlace'
      /\ ReportedReceiptIsOurs'
  BY <1>1 DEF HoldsWhatItNeeds, ReceiptsInPlace, AnchorsInPlace,
     ReportedReceiptIsOurs
<1>4. LocatorsInPlace'
  BY <1>1 DEF LocatorsInPlace, Seen, Dead
<1> QED
  BY <1>2, <1>3, <1>4

LEMMA GetReceiptLocatorFailsInv ==
  ASSUME ClientInv, GetReceiptLocatorFails
  PROVE  ClientInv'
BY ServerBounds, ClientConstants
   DEF ClientInv, GetReceiptLocatorFails, RetriesLeft, Return, serverVars,
       netVars, TypeOK, ServerTypeOK, HoldsWhatItNeeds, ReceiptsInPlace,
       LocatorsInPlace, AnchorsInPlace, ReportedReceiptIsOurs, Dead, Seen,
       ExitCodes, ReplyCodes

LEMMA PostInv ==
  ASSUME ClientInv, Post
  PROVE  ClientInv'
<1> USE DEF ClientInv, Post, serverVars, verifyVars
<1>1. cmd \in 1..MaxCalls /\ locator \in Locator
  BY ServerBounds DEF HoldsWhatItNeeds, TypeOK
<1>2. wire' \in Request
  BY <1>1 DEF Request
<1>3. TypeOK'
  BY <1>2 DEF TypeOK, ServerTypeOK
<1> QED
  BY <1>3 DEF HoldsWhatItNeeds, ReceiptsInPlace, AnchorsInPlace, LocatorsInPlace,
     ReportedReceiptIsOurs, Seen, Dead

LEMMA RespondInv ==
  ASSUME ClientInv, Respond
  PROVE  ClientInv'
BY ServerBounds, ClientConstants
   DEF ClientInv, Respond, Return, serverVars, netVars, TypeOK, ServerTypeOK,
       HoldsWhatItNeeds, ReceiptsInPlace, LocatorsInPlace, AnchorsInPlace,
       ReportedReceiptIsOurs, Dead, Seen

LEMMA VerifyNowInv ==
  ASSUME ClientInv, VerifyNow
  PROVE  ClientInv'
BY ServerBounds, ClientConstants
   DEF ClientInv, VerifyNow, serverVars, netVars, TypeOK, ServerTypeOK,
       HoldsWhatItNeeds, ReceiptsInPlace, LocatorsInPlace, AnchorsInPlace,
       ReportedReceiptIsOurs, Dead, Seen

LEMMA DoneClearanceOrderInv ==
  ASSUME ClientInv, GetDoneClearanceOrder \/ GetDoneClearanceOrderFails
  PROVE  ClientInv'
BY ServerBounds, ClientConstants
   DEF ClientInv, GetDoneClearanceOrder, GetDoneClearanceOrderFails, RetriesLeft,
       Return, serverVars, netVars, TypeOK, ServerTypeOK, HoldsWhatItNeeds,
       ReceiptsInPlace, LocatorsInPlace, AnchorsInPlace, ReportedReceiptIsOurs,
       Dead, Seen, ExitCodes, ReplyCodes

LEMMA VerifyReturnsInv ==
  ASSUME ClientInv, VerifyReturns
  PROVE  ClientInv'
BY ServerBounds, ClientConstants
   DEF ClientInv, VerifyReturns, Return, serverVars, netVars, TypeOK,
       ServerTypeOK, HoldsWhatItNeeds, ReceiptsInPlace, LocatorsInPlace,
       AnchorsInPlace, ReportedReceiptIsOurs, Dead, Seen

LEMMA VerifyReceiptInv ==
  ASSUME ClientInv, NEW r \in receiptDao, NEW code \in VerifyCodes,
         VerifyReceipt(r, code)
  PROVE  ClientInv'
<1> USE DEF ClientInv, VerifyReceipt, Delete, serverVars, netVars
<1>1. TypeOK'
  BY DEF TypeOK, ServerTypeOK, ExitCodes
<1>2. r \in Receipt /\ r.clearanceOrder <= doneCO
  BY ServerBounds DEF FindPage, TypeOK, ServerTypeOK, AnchorsInPlace, Receipt,
     ReceiptsInPlace
<1>3. AnchorsInPlace'
  BY <1>2 DEF AnchorsInPlace
<1> QED
  BY <1>1, <1>3 DEF HoldsWhatItNeeds, ReceiptsInPlace, LocatorsInPlace,
     ReportedReceiptIsOurs, Seen, Dead

-----------------------------------------------------------------------------
(* The answer to a request.                                                *)

LEMMA WireType ==
  ASSUME ClientInv, pc \in {"wait", "parse"}
  PROVE  /\ wire \in Request
         /\ wire.locator = locator
         /\ wire.cmd = cmd
         /\ locator \in Locator
         /\ locator # NULL
BY ClientConstants, ServerBounds
   DEF ClientInv, HoldsWhatItNeeds, TypeOK, Request

(* The server takes the request: its receipt is new to the ledger, hence   *)
(* neither stored nor settled.                                             *)
LEMMA ServerAcceptsInv ==
  ASSUME ClientInv, ServerAccepts
  PROVE  ClientInv'
<1> USE DEF ClientInv
<1>1. /\ pc = "wait" /\ Accept(wire)
      /\ UNCHANGED <<cmd, retryCount, count, locator, result, exitCode,
                     verifyVars, wire, late, rejected>>
      /\ pc' = "parse"
  BY DEF ServerAccepts, ClientWaits, Answer
<1>2. /\ wire \in Request /\ wire.locator = locator /\ wire.cmd = cmd
      /\ locator \in Locator
  BY <1>1, WireType
<1>3. /\ ServerMoves
      /\ ledger' = ledger \cup {ReceiptFor(wire)}
      /\ ~Dead(ReceiptFor(wire)) /\ Dead(ReceiptFor(wire))'
      /\ doneCO' = doneCO
      /\ ServerTypeOK
  BY <1>1, <1>2, AcceptMoves DEF TypeOK
<1>4. ReceiptFor(wire) \notin ledger
  BY <1>3 DEF LocatorsInPlace
<1>5. \E code \in {"OK", "ERROR"}, form \in Forms, receipt \in Receipt \cup {NULL} :
        /\ reply' = [code |-> code, form |-> form, receipt |-> receipt,
                     doneCO |-> doneCO]
        /\ code = "OK" => receipt = ReceiptFor(wire)
  <2>1. CASE \E form \in FormsOf(cmd) : Answer("OK", form, ReceiptFor(wire))
    BY <1>2, <2>1, ReceiptForType DEF Answer, FormsOf
  <2>2. CASE Answer("ERROR", "intact", NULL)
    BY <2>2 DEF Answer, Forms
  <2> QED
    BY <2>1, <2>2 DEF ServerAccepts
<1>6. /\ reply' \in Reply
      /\ reply'.code \in {"OK", "ERROR"}
      /\ reply'.code = "OK" => reply'.receipt = ReceiptFor(wire)
      /\ reply'.doneCO = doneCO
  BY <1>3, <1>5 DEF Reply, ReplyCodes, ServerTypeOK
<1> HIDE DEF ClientInv
<1> USE DEF verifyVars
<1>7. TypeOK'
  BY <1>1, <1>3, <1>6 DEF ClientInv, TypeOK, ServerMoves
<1>8. HoldsWhatItNeeds'
  BY <1>1, <1>6 DEF ClientInv, HoldsWhatItNeeds
<1>9. ReceiptsInPlace' /\ ReportedReceiptIsOurs'
  BY <1>1, <1>3, <1>4, <1>6 DEF ClientInv, ReceiptsInPlace,
     ReportedReceiptIsOurs, ReceiptFor
<1>10. LocatorsInPlace'
  <2>1. \A r \in ledger' : Dead(r)'
    BY <1>1, <1>3 DEF ClientInv, LocatorsInPlace, ServerMoves, ServerTypeOK, Dead,
       ReceiptFor
  <2>2. \A l \in rejected : Dead(l)'
    BY <1>3 DEF ClientInv, LocatorsInPlace, ServerMoves, TypeOK
  <2>3. /\ locator # NULL => Seen(locator)'
        /\ \A req \in late : Seen(req.locator)'
    BY <1>1, <1>2, <1>3 DEF ClientInv, LocatorsInPlace, ServerMoves, TypeOK,
       Request, Seen
  <2> QED
    BY <1>1, <1>6, <2>1, <2>2, <2>3 DEF ClientInv, LocatorsInPlace, ResendErrors,
       Seen, Dead
<1>11. AnchorsInPlace'
  BY <1>1, <1>3, <1>6 DEF ClientInv, AnchorsInPlace, ServerTypeOK
<1> QED
  BY <1>7, <1>8, <1>9, <1>10, <1>11 DEF ClientInv

(* The server turns the request down, and the locator is outdated if it    *)
(* says so; or no answer arrives.                                          *)
LEMMA NoReceiptInv ==
  ASSUME ClientInv, ServerRejects \/ Timeout
  PROVE  ClientInv'
<1>1. /\ pc = "wait" /\ pc' = "parse"
      /\ UNCHANGED <<serverVars, cmd, retryCount, count, locator, result,
                     exitCode, verifyVars, wire, rejected>>
      /\ late' \subseteq late \cup {wire}
  BY DEF ServerRejects, Timeout, ClientWaits, Answer
<1>2. /\ wire \in Request /\ wire.locator = locator /\ wire.cmd = cmd
      /\ locator \in Locator /\ locator # NULL
  BY <1>1, WireType
<1>3. Seen(locator) /\ ServerTypeOK
  BY <1>2 DEF ClientInv, LocatorsInPlace, TypeOK
<1>4. /\ reply' \in Reply
      /\ reply'.code # "OK"
      /\ reply'.doneCO <= doneCO
      /\ reply'.code \in ResendErrors => Dead(locator)
  <2>1. CASE Timeout
    BY <1>3, <2>1, ServerBounds DEF Timeout, Reply, ReplyCodes, Forms,
       LedgerInputErrors, ResendErrors, ServerTypeOK
  <2>2. CASE ServerRejects
    <3>1. PICK code \in {"CO_ERROR", "IV_ERROR", "REFUSED", "ERROR"} :
            /\ Answer(code, "intact", NULL)
            /\ code \in ResendErrors => \/ locator.clearanceOrder # openCO
                                        \/ locator.indexValue # nextSn
      BY <1>2, <2>2 DEF ServerRejects, ResendErrors
    <3>2. code \in ResendErrors => Dead(locator)
      BY <1>2, <1>3, <3>1, ServerBounds DEF Seen, Dead, Locator, ServerTypeOK
    <3> QED
      BY <1>3, <3>1, <3>2, ServerBounds DEF Answer, Reply, ReplyCodes, Forms,
         LedgerInputErrors, ResendErrors, ServerTypeOK
  <2> QED
    BY <2>1, <2>2
<1> USE DEF verifyVars, serverVars
<1>5. TypeOK'
  BY <1>1, <1>2, <1>4 DEF ClientInv, TypeOK, ServerTypeOK
<1>6. HoldsWhatItNeeds' /\ ReceiptsInPlace' /\ AnchorsInPlace'
      /\ ReportedReceiptIsOurs'
  BY <1>1, <1>4 DEF ClientInv, HoldsWhatItNeeds, ReceiptsInPlace,
     AnchorsInPlace, ReportedReceiptIsOurs
<1>7. LocatorsInPlace'
  BY <1>1, <1>2, <1>4 DEF ClientInv, LocatorsInPlace, Seen, Dead
<1> QED
  BY <1>5, <1>6, <1>7 DEF ClientInv

(* What bns_post_ledger_input() makes of the answer it has received: it    *)
(* fails, and the loops go on or end with an error, ...                    *)
LEMMA ReceiveFailureInv ==
  ASSUME ClientInv, Receive, ParseFails \/ ~SignatureOk
  PROVE  ClientInv'
<1> DEFINE code == IF reply.code = "OK" THEN "ERROR" ELSE reply.code
<1>1. /\ pc = "parse" /\ PostFails(code, ParsedReceipt)
      /\ rejected' = IF reply.code \in ResendErrors THEN rejected \cup {locator}
                                                    ELSE rejected
      /\ wire' = NULL /\ reply' = NULL
      /\ UNCHANGED <<serverVars, cmd, toVerify, settled, late, clearedCO,
                     receiptDao>>
  BY DEF Receive
<1>2. /\ reply \in Reply /\ locator \in Locator /\ locator # NULL
  BY <1>1, WireType DEF ClientInv, HoldsWhatItNeeds
<1>3. /\ code \in ReplyCodes /\ code # "OK"
      /\ code \in ResendErrors <=> reply.code \in ResendErrors
  BY <1>2 DEF Reply, ReplyCodes, LedgerInputErrors, ResendErrors
<1>4. ParsedReceipt \in Receipt \cup {NULL, Garbled}
  BY <1>2 DEF ParsedReceipt, ClientInv, TypeOK, Reply
<1>5. \A l \in rejected' : l \in Locator /\ Dead(l)
  BY <1>1, <1>2 DEF ClientInv, TypeOK, LocatorsInPlace
<1> HIDE DEF code
<1>6. \/ /\ pc' = "post" /\ count' \in 0..MaxRetryCount
         /\ code \notin ResendErrors
         /\ result' = ParsedReceipt
         /\ UNCHANGED <<retryCount, locator, exitCode>>
      \/ /\ pc' = "locate" /\ count' = 0 /\ locator' = NULL /\ result' = NULL
         /\ retryCount' \in 0..MaxRetryCount
         /\ UNCHANGED exitCode
      \/ /\ pc' = "respond" /\ exitCode' = code /\ result' = ParsedReceipt
         /\ UNCHANGED <<retryCount, count, locator>>
  <2>1. retryCount \in 0..MaxRetryCount /\ count \in 0..MaxRetryCount
    BY DEF ClientInv, TypeOK
  <2> QED
    BY <1>1, <2>1, ClientConstants DEF PostFails, PostReturns, BeginAttempt,
       RetriesLeft, LedgerInputErrors
<1> USE DEF serverVars
<1>7. TypeOK'
  BY <1>1, <1>3, <1>4, <1>5, <1>6, ClientConstants
     DEF ClientInv, TypeOK, ServerTypeOK, ExitCodes
<1>8. HoldsWhatItNeeds' /\ ReceiptsInPlace' /\ AnchorsInPlace'
      /\ ReportedReceiptIsOurs'
  BY <1>1, <1>2, <1>3, <1>6 DEF ClientInv, HoldsWhatItNeeds, ReceiptsInPlace,
     AnchorsInPlace, ReportedReceiptIsOurs
<1>9. LocatorsInPlace'
  BY <1>1, <1>3, <1>5, <1>6 DEF ClientInv, LocatorsInPlace, Seen, Dead
<1> QED
  BY <1>7, <1>8, <1>9 DEF ClientInv

(* ... or it has a genuine receipt, and saves it.                          *)
LEMMA ReceiveSuccess ==
  ASSUME ClientInv, Receive, ~(ParseFails \/ ~SignatureOk)
  PROVE  /\ pc = "parse" /\ pc' = "respond" /\ exitCode' = "OK"
         /\ result' = ReceiptFor(wire)
         /\ Save(ReceiptFor(wire))
         /\ ReceiptFor(wire) \in (ledger \cap Receipt) \ (receiptDao \cup settled)
         /\ clearedCO' = reply.doneCO /\ clearedCO' \in 0..MaxCO
         /\ wire' = NULL /\ reply' = NULL
         /\ UNCHANGED <<serverVars, cmd, toVerify, settled, late, rejected,
                        retryCount, count, locator>>
<1>1. /\ pc = "parse" /\ reply.code = "OK" /\ reply.form \notin {"badReceipt", "badSignature"}
  BY DEF Receive, ParseFails, SignatureOk
<1>2. ParsedReceipt = ReceiptFor(wire)
  BY <1>1 DEF ParsedReceipt, ClientInv, ReceiptsInPlace
<1>3. reply \in Reply /\ wire \in Request
  BY <1>1, WireType DEF ClientInv, HoldsWhatItNeeds
<1>4. ReceiptFor(wire) \in (ledger \cap Receipt) \ (receiptDao \cup settled)
  BY <1>1, <1>3, ReceiptForType DEF ClientInv, ReceiptsInPlace
<1> QED
  BY <1>1, <1>2, <1>3, <1>4 DEF Receive, PostReturns, ResendErrors, Reply

LEMMA ReceiveSuccessInv ==
  ASSUME ClientInv, Receive, ~(ParseFails \/ ~SignatureOk)
  PROVE  ClientInv'
<1>1. /\ pc = "parse" /\ pc' = "respond" /\ exitCode' = "OK"
      /\ result' = ReceiptFor(wire)
      /\ receiptDao' \subseteq receiptDao \cup {ReceiptFor(wire)}
      /\ ReceiptFor(wire) \in (ledger \cap Receipt) \ (receiptDao \cup settled)
      /\ clearedCO' = reply.doneCO /\ clearedCO' \in 0..MaxCO
      /\ wire' = NULL /\ reply' = NULL
      /\ UNCHANGED <<serverVars, cmd, toVerify, settled, late, rejected,
                     retryCount, count, locator>>
  BY ReceiveSuccess DEF Save
<1>2. /\ ReceiptFor(wire).cmd = cmd
      /\ LocatorOf(ReceiptFor(wire)) = locator
  BY <1>1, WireType, ReceiptForType
<1> USE DEF serverVars
<1>3. TypeOK'
  BY <1>1 DEF ClientInv, TypeOK, ServerTypeOK, ExitCodes, VerifyCodes
<1>4. ReportedReceiptIsOurs'
  BY <1>1, <1>2 DEF ReportedReceiptIsOurs, LocatorOf
<1>5. HoldsWhatItNeeds' /\ ReceiptsInPlace' /\ AnchorsInPlace'
  BY <1>1 DEF ClientInv, HoldsWhatItNeeds, ReceiptsInPlace, AnchorsInPlace
<1>6. LocatorsInPlace'
  BY <1>1 DEF ClientInv, LocatorsInPlace, Seen, Dead
<1> QED
  BY <1>3, <1>4, <1>5, <1>6 DEF ClientInv

-----------------------------------------------------------------------------
LEMMA StutterInv ==
  ASSUME ClientInv, UNCHANGED vars
  PROVE  ClientInv'
BY DEF ClientInv, vars, serverVars, callVars, verifyVars, netVars, TypeOK,
   ServerTypeOK, HoldsWhatItNeeds, ReceiptsInPlace, LocatorsInPlace,
   AnchorsInPlace, ReportedReceiptIsOurs, Dead, Seen

LEMMA NextInv == ClientInv /\ [Next]_vars => ClientInv'
<1> SUFFICES ASSUME ClientInv, [Next]_vars PROVE ClientInv'
  OBVIOUS
<1>1. CASE LedgerInput \/ BinaryLedgerInput \/ BinaryLedgerInputDisabled
  BY <1>1, BeginCallInv, BinaryDisabledInv DEF LedgerInput, BinaryLedgerInput
<1>2. CASE VerifyNow
  BY <1>2, VerifyNowInv
<1>3. CASE CallStep
  <2>1. CASE ReceiveReply \/ ReceiveBinaryReply
    BY <2>1, ReceiveFailureInv, ReceiveSuccessInv
       DEF ReceiveReply, ReceiveBinaryReply
  <2>2. CASE \E r \in receiptDao, code \in VerifyCodes : VerifyReceipt(r, code)
    BY <2>2, VerifyReceiptInv
  <2>3. CASE PostLedgerInput \/ PostBinaryLedgerInput
    BY <2>3, PostInv DEF PostLedgerInput, PostBinaryLedgerInput
  <2> QED
    BY <1>3, <2>1, <2>2, <2>3, GetReceiptLocatorInv, GetReceiptLocatorFailsInv,
       ServerAcceptsInv, NoReceiptInv, RespondInv,
       DoneClearanceOrderInv, VerifyReturnsInv DEF CallStep
<1>4. CASE \E req \in late : LateRequest(req)
  BY <1>4, LateRequestInv
<1>5. CASE ServerStep
  BY <1>5, ServerStepInv
<1>6. CASE UNCHANGED vars
  BY <1>6, StutterInv
<1> QED
  BY <1>1, <1>2, <1>3, <1>4, <1>5, <1>6 DEF Next

(* The inductive invariant holds throughout.                               *)
THEOREM ClientInvariant == Spec => []ClientInv
BY InitInv, NextInv, PTL DEF Spec

(* Every variable of the client and of the server keeps its type: no loop  *)
(* counter of bns_client.c and ledger_input.c leaves 0..maxRetryCount.     *)
THEOREM TypeCorrect == Spec => []TypeOK
<1>1. ClientInv => TypeOK
  BY DEF ClientInv
<1> QED
  BY <1>1, ClientInvariant, PTL

(* Only receipts the server issued get into the receipt DAO, whatever is   *)
(* lost, damaged or retried on the way.                                    *)
THEOREM StoredAreGenuine == Spec => []StoredReceiptsAreGenuine
<1>1. ClientInv => StoredReceiptsAreGenuine
  BY DEF ClientInv, ReceiptsInPlace, StoredReceiptsAreGenuine
<1> QED
  BY <1>1, ClientInvariant, PTL

(* The do loop of bns_client_ledger_input() never resends with a locator   *)
(* the server has rejected: locators are fetched anew, and the server      *)
(* never hands out a locator it has left behind.                           *)
THEOREM ResendsAreFresh == Spec => []ResendUsesFreshLocator
<1>1. ClientInv => ResendUsesFreshLocator
  BY DEF ClientInv, LocatorsInPlace, ResendUsesFreshLocator
<1> QED
  BY <1>1, ClientInvariant, PTL

(* A successful ledger input hands the callbacks the receipt of its own    *)
(* command and locator, not one an earlier answer has left in the result.  *)
THEOREM ReportedIsOurs == Spec => []ReportedReceiptIsOurs
<1>1. ClientInv => ReportedReceiptIsOurs
  BY DEF ClientInv
<1> QED
  BY <1>1, ClientInvariant, PTL

(* bns_client_verify_by_done_co() never takes a receipt before its         *)
(* clearance order is anchored.                                            *)
THEOREM VerifiedAreAnchored == Spec => []OnlyAnchoredAreVerified
<1>1. ClientInv => OnlyAnchoredAreVerified
  BY DEF ClientInv, ReceiptsInPlace, AnchorsInPlace, OnlyAnchoredAreVerified
<1> QED
  BY <1>1, ClientInvariant, PTL

-----------------------------------------------------------------------------
(* The client implements the life of a receipt.                            *)

StageFcn == [r \in Receipt |-> Stage(r)]

(* A step that changes the sets by at most one receipt, from one stage to  *)
(* the next, is a step of the abstract specification.                      *)
LEMMA MoveStep ==
  ASSUME NEW r \in Receipt,
         NEW from \in {"absent", "issued", "stored"},
         NEW to \in {"issued", "stored", "settled"},
         <<from, to>> \in {<<"absent", "issued">>, <<"issued", "stored">>,
                           <<"stored", "settled">>},
         Stage(r) = from, Stage(r)' = to,
         \A q \in Receipt \ {r} : Stage(q)' = Stage(q)
  PROVE  Lifecycle!Next
<1>1. StageFcn' = [StageFcn EXCEPT ![r] = to]
  BY DEF StageFcn
<1>2. StageFcn[r] = from
  BY DEF StageFcn
<1>3. Lifecycle!Move(r, from, to)
  BY <1>1, <1>2 DEF Lifecycle!Move, StageFcn, Stage
<1> QED
  BY <1>3 DEF Lifecycle!Next, Lifecycle!Issue, Lifecycle!Store, Lifecycle!Settle

LEMMA LifecycleInit == Init => Lifecycle!Init
BY DEF Init, ServerInit, Lifecycle!Init, Stage

(* A receipt entering the ledger is issued.                                *)
LEMMA AcceptIssues ==
  ASSUME ClientInv, NEW req \in Request, Accept(req),
         UNCHANGED <<receiptDao, settled>>
  PROVE  Lifecycle!Next
<1>1. /\ ReceiptFor(req) \in Receipt
      /\ ledger' = ledger \cup {ReceiptFor(req)}
      /\ ReceiptFor(req) \notin ledger
  BY AcceptMoves, ReceiptForType DEF ClientInv, TypeOK, LocatorsInPlace
<1>2. ReceiptFor(req) \notin receiptDao \cup settled
  BY <1>1 DEF ClientInv, ReceiptsInPlace
<1>3. Stage(ReceiptFor(req)) = "absent" /\ Stage(ReceiptFor(req))' = "issued"
  <2> DEFINE r == ReceiptFor(req)
  <2>1. r' = r /\ r \in ledger' /\ r \notin receiptDao' \cup settled'
    BY <1>1, <1>2 DEF ReceiptFor
  <2> QED
    BY <1>1, <1>2, <2>1 DEF Stage
<1>4. \A q \in Receipt \ {ReceiptFor(req)} : Stage(q)' = Stage(q)
  BY <1>1 DEF Stage
<1> QED
  BY <1>1, <1>3, <1>4, MoveStep

LEMMA SaveStores ==
  ASSUME ClientInv, Receive, ~(ParseFails \/ ~SignatureOk)
  PROVE  [Lifecycle!Next]_StageFcn
<1> DEFINE r == ReceiptFor(wire)
<1>1. /\ UNCHANGED <<ledger, settled>>
      /\ r \in (ledger \cap Receipt) \ (receiptDao \cup settled)
      /\ receiptDao' = receiptDao \/ receiptDao' = receiptDao \cup {r}
  BY ReceiveSuccess DEF Save, serverVars
<1> HIDE DEF r
<1>2. CASE receiptDao' = receiptDao
  BY <1>1, <1>2 DEF StageFcn, Stage
<1>3. CASE receiptDao' = receiptDao \cup {r}
  <2>1. PICK q \in Receipt : q = r
    BY <1>1
  <2>2. Stage(q) = "issued" /\ Stage(q)' = "stored"
    BY <1>1, <1>3, <2>1 DEF Stage
  <2>3. \A p \in Receipt \ {q} : Stage(p)' = Stage(p)
    BY <1>1, <1>3, <2>1 DEF Stage
  <2> QED
    BY <2>2, <2>3, MoveStep
<1> QED
  BY <1>1, <1>2, <1>3

LEMMA VerifySettles ==
  ASSUME ClientInv, NEW r \in receiptDao, NEW code \in VerifyCodes,
         VerifyReceipt(r, code)
  PROVE  Lifecycle!Next
<1>1. /\ receiptDao' = receiptDao \ {r}
      /\ settled' = settled \cup {r}
      /\ ledger' = ledger
  BY DEF VerifyReceipt, Delete, serverVars
<1>2. r \in Receipt
  BY DEF ClientInv, TypeOK, ServerTypeOK, ReceiptsInPlace
<1>3. Stage(r) = "stored" /\ Stage(r)' = "settled"
  BY <1>1 DEF Stage
<1>4. \A q \in Receipt \ {r} : Stage(q)' = Stage(q)
  BY <1>1 DEF Stage
<1> QED
  BY <1>2, <1>3, <1>4, MoveStep

LEMMA LifecycleStep == ClientInv /\ [Next]_vars => [Lifecycle!Next]_StageFcn
<1> SUFFICES ASSUME ClientInv, [Next]_vars PROVE [Lifecycle!Next]_StageFcn
  OBVIOUS
<1>1. CASE UNCHANGED <<ledger, receiptDao, settled>>
  BY <1>1 DEF StageFcn, Stage
<1>2. CASE \/ LedgerInput \/ BinaryLedgerInput \/ BinaryLedgerInputDisabled
           \/ VerifyNow \/ ServerStep
  BY <1>1, <1>2 DEF LedgerInput, BinaryLedgerInput, BeginCall,
     BinaryLedgerInputDisabled, VerifyNow, ServerStep, CloseClearanceOrder,
     AnchorClearanceOrder, verifyVars, serverVars
<1>3. CASE CallStep
  <2>1. CASE Receive
    <3>1. CASE ParseFails \/ ~SignatureOk
      BY <1>1, <2>1, <3>1 DEF Receive, serverVars
    <3> QED
      BY <2>1, <3>1, SaveStores
  <2>2. CASE \E r \in receiptDao, code \in VerifyCodes : VerifyReceipt(r, code)
    BY <2>2, VerifySettles
  <2>3. CASE ServerAccepts
    <3>1. /\ Accept(wire) /\ pc = "wait"
          /\ UNCHANGED <<receiptDao, settled>>
      BY <2>3 DEF ServerAccepts, ClientWaits, Answer, verifyVars
    <3>2. PICK req \in Request : req = wire /\ Accept(req)
      BY <3>1, WireType
    <3> QED
      BY <3>1, <3>2, AcceptIssues
  <2>4. CASE \/ GetReceiptLocator \/ GetReceiptLocatorFails \/ Post
             \/ ServerRejects \/ Timeout \/ Respond
             \/ GetDoneClearanceOrder \/ GetDoneClearanceOrderFails
             \/ VerifyReturns
    BY <1>1, <2>4 DEF GetReceiptLocator, GetReceiptLocatorFails, Post,
       ServerRejects, Timeout, Respond, GetDoneClearanceOrder,
       GetDoneClearanceOrderFails, VerifyReturns, Answer, verifyVars, serverVars
  <2> QED
    BY <1>3, <2>1, <2>2, <2>3, <2>4 DEF CallStep, PostLedgerInput,
       PostBinaryLedgerInput, ReceiveReply, ReceiveBinaryReply
<1>4. CASE \E req \in late : LateRequest(req)
  <2>1. PICK req \in late : LateRequest(req)
    BY <1>4
  <2>2. req \in Request /\ UNCHANGED <<receiptDao, settled>>
    BY <2>1 DEF LateRequest, verifyVars, ClientInv, TypeOK
  <2> QED
    BY <1>1, <2>1, <2>2, AcceptIssues DEF LateRequest, serverVars
<1>5. CASE UNCHANGED vars
  BY <1>1, <1>5 DEF vars, serverVars, verifyVars
<1> QED
  BY <1>2, <1>3, <1>4, <1>5 DEF Next

(* The client refines ReceiptLifecycle: a receipt is stored once, leaves   *)
(* the store only by its own verification, and never comes back.           *)
THEOREM LifecycleRefined == Spec => LifecycleSpec
<1>1. [Lifecycle!Next]_StageFcn =>
        [Lifecycle!Next]_([r \in Receipt |-> Stage(r)])
  BY DEF StageFcn
<1> QED
  BY <1>1, LifecycleInit, LifecycleStep, ClientInvariant, PTL
     DEF Spec, LifecycleSpec, Lifecycle!Spec

=============================================================================
