-------------------------- MODULE ClientExample_proofs --------------------------
(***************************************************************************)
(* Proofs about the example program: it uses the client as BnsClient.tla   *)
(* lets a caller use it, so all that is proved of the client holds of the  *)
(* program, and it never loses a receipt to a full DAO.                    *)
(***************************************************************************)
EXTENDS ClientExample, BnsClient_proofs

LEMMA ExampleStep == [ExampleNext]_exampleVars => [Next]_vars
<1> SUFFICES ASSUME [ExampleNext]_exampleVars PROVE [Next]_vars
  OBVIOUS
<1>1. CASE MainStep
  BY <1>1 DEF MainStep, MainCalls, MainReturns, Next
<1>2. CASE ExampleCallStep
  BY <1>2 DEF ExampleCallStep, Next
<1>3. CASE Environment
  BY <1>3 DEF Environment, Next
<1>4. CASE UNCHANGED exampleVars
  BY <1>4 DEF exampleVars
<1> QED
  BY <1>1, <1>2, <1>3, <1>4 DEF ExampleNext

(* The program is one of the callers BnsClient.tla allows for.             *)
THEOREM ExampleUsesClient == ExampleSpec => Spec
<1>1. ExampleInit => Init
  BY DEF ExampleInit
<1> QED
  BY <1>1, ExampleStep, PTL DEF ExampleSpec, Spec

(* While a ledger input is under way and has not stored its receipt, the   *)
(* room seen before the call is still there.                               *)
RoomIsKept ==
  pc \in {"locate", "post", "wait", "parse"} => HasRoom

ExampleInv == RoomIsKept /\ ReportedReceiptIsStored

LEMMA ReceiveStores ==
  ASSUME ClientInv, ExampleInv, Receive
  PROVE  ExampleInv'
<1>1. pc = "parse" /\ HasRoom
  BY DEF Receive, ExampleInv, RoomIsKept
<1>2. CASE ParseFails \/ ~SignatureOk
  <2> DEFINE code == IF reply.code = "OK" THEN "ERROR" ELSE reply.code
  <2>1. receiptDao' = receiptDao /\ PostFails(code, ParsedReceipt) /\ code # "OK"
    BY <1>2 DEF Receive
  <2> HIDE DEF code
  <2>2. \/ pc' \in {"post", "locate"}
        \/ pc' = "respond" /\ exitCode' = code
    BY <2>1 DEF PostFails, PostReturns, BeginAttempt
  <2> QED
    BY <1>1, <2>1, <2>2 DEF ExampleInv, RoomIsKept, ReportedReceiptIsStored, HasRoom
<1>3. CASE ~(ParseFails \/ ~SignatureOk)
  BY <1>1, <1>3, ReceiveSuccess
     DEF Save, HasRoom, ExampleInv, RoomIsKept, ReportedReceiptIsStored
<1> QED
  BY <1>2, <1>3

LEMMA ExampleInvStep ==
  ClientInv /\ ExampleInv /\ [ExampleNext]_exampleVars => ExampleInv'
<1> SUFFICES ASSUME ClientInv, ExampleInv, [ExampleNext]_exampleVars
             PROVE  ExampleInv'
  OBVIOUS
<1> USE DEF ExampleInv, RoomIsKept, ReportedReceiptIsStored, HasRoom
<1>1. CASE MainCalls
  BY <1>1 DEF MainCalls, LedgerInput, BeginCall, BeginAttempt, VerifyNow,
     verifyVars
<1>2. CASE Receive
  BY <1>2, ReceiveStores
<1>3. CASE \E r \in receiptDao, code \in VerifyCodes : VerifyReceipt(r, code)
  BY <1>3 DEF VerifyReceipt
<1>4. CASE \/ GetReceiptLocator \/ GetReceiptLocatorFails \/ Post
           \/ ServerAccepts \/ ServerRejects \/ Timeout \/ Respond
           \/ GetDoneClearanceOrder \/ GetDoneClearanceOrderFails
           \/ VerifyReturns
  BY <1>4 DEF GetReceiptLocator, GetReceiptLocatorFails, Post, ServerAccepts,
     ServerRejects, Timeout, ClientWaits, Answer, Respond, Return,
     GetDoneClearanceOrder, GetDoneClearanceOrderFails, VerifyReturns, verifyVars
<1>5. CASE Environment
  BY <1>5 DEF Environment, ServerStep, LateRequest, callVars, verifyVars
<1>6. CASE UNCHANGED vars
  BY <1>6 DEF vars, callVars, verifyVars
<1> QED
  BY <1>1, <1>2, <1>3, <1>4, <1>5, <1>6
     DEF ExampleNext, MainStep, MainReturns, ExampleCallStep, CallStep,
         PostLedgerInput, PostBinaryLedgerInput, ReceiveReply,
         ReceiveBinaryReply, exampleVars

(* The count is read before the call, the receipt is saved after any       *)
(* number of retries: it always fits, for every size of the DAO.           *)
THEOREM NothingIsDropped == ExampleSpec => []ReportedReceiptIsStored
<1>1. ExampleInit => ExampleInv
  BY DEF ExampleInit, Init, ExampleInv, RoomIsKept, ReportedReceiptIsStored
<1>2. ExampleInv => ReportedReceiptIsStored
  BY DEF ExampleInv
<1> QED
  BY <1>1, <1>2, ExampleInvStep, ExampleUsesClient, ClientInvariant, PTL
     DEF ExampleSpec

=============================================================================
