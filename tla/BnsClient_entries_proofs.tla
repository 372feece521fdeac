----------------------- MODULE BnsClient_entries_proofs -----------------------
(***************************************************************************)
(* Proof of EntriesPerCommand.  A command enters the ledger only under the *)
(* one locator the server accepts at the time, and the request with it is  *)
(* sent by the attempt that asked for the locator.  So the entries of a    *)
(* command, and one more if a request of it that can still be accepted is  *)
(* under way, never exceed the attempts that got a locator.                *)
(*                                                                         *)
(* The module goes on with KeysIdentifyReceipts, that one locator is one   *)
(* receipt, and ends with CallsRunOut, the bound on the steps of a call.   *)
(***************************************************************************)
EXTENDS BnsClient_proofs, FiniteSetTheorems

Entries(c) == {r \in ledger : r.cmd = c}

Outstanding == late \cup (IF locator = NULL THEN {}
                          ELSE {[locator |-> locator, cmd |-> cmd]})

Live(c) == \E req \in Outstanding : req.cmd = c /\ ~Dead(req.locator)

(* The attempts of command c that have got a locator.                      *)
Attempts(c) ==
  IF c < cmd THEN MaxAttempts
  ELSE IF c = cmd
    THEN MaxAttempts - retryCount - (IF pc = "locate" THEN 1 ELSE 0)
  ELSE 0

EntriesInv ==
  /\ IsFiniteSet(ledger)
  /\ \A c \in 1..MaxCalls :
       Cardinality(Entries(c)) + (IF Live(c) THEN 1 ELSE 0) <= Attempts(c)

-----------------------------------------------------------------------------
LEMMA EntriesFinite ==
  ASSUME EntriesInv, NEW c
  PROVE  IsFiniteSet(Entries(c)) /\ Cardinality(Entries(c)) \in Nat
<1>1. Entries(c) \subseteq ledger
  BY DEF Entries
<1> QED
  BY <1>1, FS_Subset, FS_CardinalityType DEF EntriesInv

LEMMA AttemptsType ==
  ASSUME TypeOK, NEW c \in 1..MaxCalls
  PROVE  Attempts(c) \in Int
BY ClientConstants, ServerBounds DEF TypeOK, Attempts, MaxAttempts

(* Outstanding requests carry locators the server has handed out.          *)
LEMMA OutstandingSeen ==
  ASSUME ClientInv, NEW req \in Outstanding
  PROVE  req.locator \in Locator /\ Seen(req.locator)
<1>1. CASE req \in late
  BY <1>1 DEF ClientInv, TypeOK, LocatorsInPlace, Request
<1>2. CASE locator # NULL /\ req = [locator |-> locator, cmd |-> cmd]
  BY <1>2 DEF ClientInv, TypeOK, LocatorsInPlace
<1> QED
  BY <1>1, <1>2 DEF Outstanding

(* A step that enters nothing, brings nothing to life and takes no attempt *)
(* back.                                                                   *)
LEMMA QuietStep ==
  ASSUME TypeOK, TypeOK', EntriesInv, ledger' = ledger,
         \A c \in 1..MaxCalls : /\ Live(c)' => Live(c)
                                /\ Attempts(c) <= Attempts(c)'
  PROVE  EntriesInv'
<1>1. IsFiniteSet(ledger)'
  BY DEF EntriesInv
<1>2. ASSUME NEW c \in 1..MaxCalls
      PROVE  (Cardinality(Entries(c)) + (IF Live(c) THEN 1 ELSE 0) <= Attempts(c))'
  <2>1. Entries(c)' = Entries(c)
    BY DEF Entries
  <2>2. Cardinality(Entries(c)) \in Nat
    BY EntriesFinite
  <2>3. Attempts(c) \in Int /\ Attempts(c)' \in Int
    BY ClientConstants, ServerBounds DEF Attempts, TypeOK, MaxAttempts
  <2>4. Cardinality(Entries(c)) + (IF Live(c) THEN 1 ELSE 0) <= Attempts(c)
    BY DEF EntriesInv
  <2>5. Cardinality(Entries(c))' = Cardinality(Entries(c))
    BY <2>1
  <2> QED
    BY <2>2, <2>3, <2>4, <2>5
<1> QED
  BY <1>1, <1>2 DEF EntriesInv

(* A client step that keeps the command and does not touch the server: the *)
(* requests outstanding are among those before, and the attempts left do   *)
(* not grow.                                                               *)
LEMMA ClientQuiet ==
  ASSUME ClientInv, ClientInv', EntriesInv,
         UNCHANGED <<openCO, nextSn, ledger, cmd>>,
         late' \subseteq Outstanding,
         locator' \in {locator, NULL},
         \/ UNCHANGED <<retryCount, pc>>
         \/ pc # "locate" /\ pc' # "locate" /\ retryCount' = retryCount
         \/ retryCount' = 0 /\ pc' # "locate"
         \/ pc # "locate" /\ pc' = "locate" /\ retryCount' = retryCount - 1
  PROVE  EntriesInv'
<1>1. Outstanding' \subseteq Outstanding
  BY DEF Outstanding
<1>2. \A req \in Outstanding : Dead(req.locator) => Dead(req.locator)'
  BY DEF Dead
<1>3. ASSUME NEW c \in 1..MaxCalls PROVE Live(c)' => Live(c)
  BY <1>1, <1>2 DEF Live, Dead
<1>4. ASSUME NEW c \in 1..MaxCalls PROVE Attempts(c) <= Attempts(c)'
  <2>1. /\ c \in Int /\ cmd \in Int /\ MaxAttempts \in Int
        /\ retryCount \in Int /\ retryCount >= 0
        /\ retryCount' \in Int /\ cmd' = cmd
    BY ClientConstants, ServerBounds DEF ClientInv, TypeOK, MaxAttempts
  <2>2. CASE UNCHANGED <<retryCount, pc>>
    BY <2>1, <2>2 DEF Attempts, MaxAttempts
  <2>3. CASE pc # "locate" /\ pc' # "locate" /\ retryCount' = retryCount
    BY <2>1, <2>3 DEF Attempts, MaxAttempts
  <2>4. CASE retryCount' = 0 /\ pc' # "locate"
    BY <2>1, <2>4 DEF Attempts, MaxAttempts
  <2>5. CASE pc # "locate" /\ pc' = "locate" /\ retryCount' = retryCount - 1
    BY <2>1, <2>5 DEF Attempts, MaxAttempts
  <2> QED
    BY <2>2, <2>3, <2>4, <2>5
<1> QED
  BY <1>3, <1>4, QuietStep DEF ClientInv

LEMMA CallStepEntries ==
  ASSUME ClientInv, ClientInv', EntriesInv,
         \/ GetReceiptLocatorFails \/ Post \/ ServerRejects
         \/ Timeout \/ Receive \/ Respond \/ GetDoneClearanceOrder
         \/ GetDoneClearanceOrderFails \/ VerifyReturns \/ VerifyNow
         \/ \E r \in receiptDao, code \in VerifyCodes : VerifyReceipt(r, code)
  PROVE  EntriesInv'
<1>1. UNCHANGED <<openCO, nextSn, ledger, cmd>>
  BY DEF GetReceiptLocatorFails, Post, ServerRejects, Timeout,
     Receive, Respond, GetDoneClearanceOrder, GetDoneClearanceOrderFails,
     VerifyReturns, VerifyNow, VerifyReceipt, Answer, serverVars
<1>2. late' \subseteq Outstanding
  <2>1. CASE Timeout
    BY <2>1, WireType DEF Timeout, ClientWaits, Outstanding, ClientInv,
       HoldsWhatItNeeds
  <2>2. CASE ~Timeout
    BY <2>2 DEF GetReceiptLocatorFails, Post, ServerRejects,
       Receive, Respond, GetDoneClearanceOrder, GetDoneClearanceOrderFails,
       VerifyReturns, VerifyNow, VerifyReceipt, Answer, netVars, Outstanding
  <2> QED
    BY <2>1, <2>2
<1>3. /\ locator' \in {locator, NULL}
      /\ \/ UNCHANGED <<retryCount, pc>>
         \/ pc # "locate" /\ pc' # "locate" /\ retryCount' = retryCount
         \/ retryCount' = 0 /\ pc' # "locate"
         \/ pc # "locate" /\ pc' = "locate" /\ retryCount' = retryCount - 1
  <2>1. CASE Receive
    BY <2>1, ClientConstants DEF Receive, PostFails, PostReturns,
       BeginAttempt, ClientInv, TypeOK
  <2>2. CASE ~Receive
    BY <2>2 DEF GetReceiptLocatorFails, Post, ServerRejects, Timeout,
       ClientWaits, Respond, GetDoneClearanceOrder, GetDoneClearanceOrderFails,
       VerifyReturns, VerifyNow, VerifyReceipt, Answer, Return
  <2> QED
    BY <2>1, <2>2
<1> QED
  BY <1>1, <1>2, <1>3, ClientQuiet

(* A new call: its command has neither entries nor attempts yet.           *)
LEMMA BeginCallEntries ==
  ASSUME ClientInv, ClientInv', EntriesInv, BeginCall
  PROVE  EntriesInv'
<1>1. /\ UNCHANGED <<openCO, nextSn, ledger, late>>
      /\ pc = "idle" /\ pc' = "locate" /\ cmd' = cmd + 1 /\ locator' = NULL
      /\ retryCount' = IF MaxRetryCount > 0 THEN MaxRetryCount - 1 ELSE 0
  BY DEF BeginCall, BeginAttempt, serverVars, netVars
<1>2. ASSUME NEW c \in 1..MaxCalls PROVE Live(c)' => Live(c)
  BY <1>1 DEF Live, Outstanding, Dead
<1>3. ASSUME NEW c \in 1..MaxCalls PROVE Attempts(c) <= Attempts(c)'
  BY <1>1, ClientConstants, ServerBounds
     DEF ClientInv, TypeOK, Attempts, MaxAttempts
<1> QED
  BY <1>1, <1>2, <1>3, QuietStep DEF ClientInv

LEMMA BinaryDisabledEntries ==
  ASSUME ClientInv, ClientInv', EntriesInv, BinaryLedgerInputDisabled
  PROVE  EntriesInv'
<1>1. /\ UNCHANGED <<openCO, nextSn, ledger, late>>
      /\ pc = "idle" /\ pc' = "idle" /\ cmd' = cmd + 1 /\ locator' = NULL
      /\ retryCount' = 0
  BY DEF BinaryLedgerInputDisabled, Return, serverVars, netVars
<1>2. ASSUME NEW c \in 1..MaxCalls PROVE Live(c)' => Live(c)
  BY <1>1 DEF Live, Outstanding, Dead
<1>3. ASSUME NEW c \in 1..MaxCalls PROVE Attempts(c) <= Attempts(c)'
  BY <1>1, ClientConstants, ServerBounds
     DEF ClientInv, TypeOK, Attempts, MaxAttempts
<1> QED
  BY <1>1, <1>2, <1>3, QuietStep DEF ClientInv

(* The attempt that was counted gets the one locator that can be accepted. *)
LEMMA GetReceiptLocatorEntries ==
  ASSUME ClientInv, ClientInv', EntriesInv, GetReceiptLocator
  PROVE  EntriesInv'
<1>1. /\ UNCHANGED <<openCO, nextSn, ledger, late, cmd, retryCount>>
      /\ pc = "locate" /\ pc' = "post"
  BY DEF GetReceiptLocator, serverVars, netVars
<1>2. ASSUME NEW c \in 1..MaxCalls
      PROVE  (Cardinality(Entries(c)) + (IF Live(c) THEN 1 ELSE 0) <= Attempts(c))'
  <2>1. Cardinality(Entries(c))' = Cardinality(Entries(c))
    BY <1>1 DEF Entries
  <2>2. Cardinality(Entries(c)) \in Nat
    BY EntriesFinite
  <2>3. Cardinality(Entries(c)) + (IF Live(c) THEN 1 ELSE 0) <= Attempts(c)
    BY DEF EntriesInv
  <2>4. Attempts(c) \in Int
    BY AttemptsType DEF ClientInv
  <2>5. CASE c = cmd
    <3>1. Attempts(c)' = Attempts(c) + 1
      BY <1>1, <2>5, ClientConstants, ServerBounds
         DEF Attempts, ClientInv, TypeOK, MaxAttempts
    <3> QED
      BY <2>1, <2>2, <2>3, <2>4, <3>1
  <2>6. CASE c # cmd
    <3>1. Attempts(c)' = Attempts(c)
      BY <1>1, <2>6 DEF Attempts
    <3>2. Live(c)' => Live(c)
      BY <1>1, <2>6 DEF Live, Outstanding, Dead
    <3> QED
      BY <2>1, <2>2, <2>3, <2>4, <3>1, <3>2
  <2> QED
    BY <2>5, <2>6
<1> QED
  BY <1>1, <1>2 DEF EntriesInv

(* The server takes an outstanding request: what was alive is dead now,    *)
(* and that pays for the entry.                                            *)
LEMMA AcceptEntries ==
  ASSUME ClientInv, ClientInv', EntriesInv,
         NEW req \in Outstanding, req \in Request, Accept(req),
         Outstanding' \subseteq Outstanding,
         \A c \in 1..MaxCalls : Attempts(c)' = Attempts(c)
  PROVE  EntriesInv'
<1>1. /\ ledger' = ledger \cup {ReceiptFor(req)}
      /\ openCO' = openCO /\ nextSn' = nextSn + 1
      /\ req.locator.clearanceOrder = openCO
      /\ req.locator.indexValue = nextSn
      /\ ReceiptFor(req).cmd = req.cmd
      /\ openCO \in Int /\ nextSn \in Int
  BY ReceiptForType, ServerBounds DEF Accept, CurrentLocator, ClientInv, TypeOK,
     ServerTypeOK
<1>2. IsFiniteSet(ledger)'
  BY <1>1, FS_AddElement DEF EntriesInv
<1>3. ASSUME NEW q \in Outstanding' PROVE Dead(q.locator)'
  BY <1>1, OutstandingSeen, ServerBounds DEF Seen, Dead, Locator
<1>4. ASSUME NEW c \in 1..MaxCalls
      PROVE  (Cardinality(Entries(c)) + (IF Live(c) THEN 1 ELSE 0) <= Attempts(c))'
  <2>1. ~Live(c)'
    BY <1>3 DEF Live, Dead
  <2>2. /\ Cardinality(Entries(c)) \in Nat /\ IsFiniteSet(Entries(c))
        /\ Attempts(c) \in Int
        /\ Cardinality(Entries(c)) + (IF Live(c) THEN 1 ELSE 0) <= Attempts(c)
    BY EntriesFinite, AttemptsType DEF ClientInv, EntriesInv
  <2>3. CASE req.cmd = c
    <3>1. Live(c)
      BY <1>1, <2>3 DEF Live, Dead
    <3>2. Entries(c)' = Entries(c) \cup {ReceiptFor(req)}
      BY <1>1, <2>3 DEF Entries
    <3>3. \A S, x : IsFiniteSet(S) => \/ Cardinality(S \cup {x}) = Cardinality(S)
                                     \/ Cardinality(S \cup {x}) = Cardinality(S) + 1
      BY FS_AddElement
    <3>4. \/ Cardinality(Entries(c) \cup {ReceiptFor(req)}) = Cardinality(Entries(c))
          \/ Cardinality(Entries(c) \cup {ReceiptFor(req)}) = Cardinality(Entries(c)) + 1
      BY <2>2, <3>3
    <3>5. Cardinality(Entries(c))' = Cardinality(Entries(c) \cup {ReceiptFor(req)})
      BY <3>2
    <3> QED
      BY <2>1, <2>2, <3>1, <3>4, <3>5
  <2>4. CASE req.cmd # c
    <3>1. Entries(c)' = Entries(c)
      BY <1>1, <2>4 DEF Entries
    <3>2. Cardinality(Entries(c))' = Cardinality(Entries(c))
      BY <3>1
    <3> QED
      BY <2>1, <2>2, <3>2
  <2> QED
    BY <2>3, <2>4
<1> QED
  BY <1>2, <1>4 DEF EntriesInv

LEMMA ServerAcceptsEntries ==
  ASSUME ClientInv, ClientInv', EntriesInv, ServerAccepts
  PROVE  EntriesInv'
<1>1. /\ Accept(wire) /\ pc = "wait" /\ pc' = "parse"
      /\ UNCHANGED <<late, locator, cmd, retryCount>>
  BY DEF ServerAccepts, ClientWaits, Answer
<1>2. wire \in Request /\ wire \in Outstanding
  BY <1>1, WireType DEF Outstanding, ClientInv, HoldsWhatItNeeds
<1>3. PICK req \in Outstanding : req = wire
  BY <1>2
<1>4. \A c \in 1..MaxCalls : Attempts(c)' = Attempts(c)
  BY <1>1 DEF Attempts
<1>5. Outstanding' \subseteq Outstanding
  BY <1>1 DEF Outstanding
<1> QED
  BY <1>1, <1>2, <1>3, <1>4, <1>5, AcceptEntries

LEMMA LateRequestEntries ==
  ASSUME ClientInv, ClientInv', EntriesInv, NEW req \in late, LateRequest(req)
  PROVE  EntriesInv'
<1>1. /\ UNCHANGED <<locator, cmd, retryCount, pc>>
      /\ late' \subseteq late
      /\ req \in Request /\ req \in Outstanding
  BY DEF LateRequest, callVars, Outstanding, ClientInv, TypeOK
<1>2. CASE Accept(req)
  <2>1. \A c \in 1..MaxCalls : Attempts(c)' = Attempts(c)
    BY <1>1 DEF Attempts
  <2>2. Outstanding' \subseteq Outstanding
    BY <1>1 DEF Outstanding
  <2> QED
    BY <1>1, <1>2, <2>1, <2>2, AcceptEntries
<1>3. CASE UNCHANGED serverVars
  <2>1. late' \subseteq Outstanding
    BY <1>1 DEF Outstanding
  <2> QED
    BY <1>1, <1>3, <2>1, ClientQuiet DEF serverVars
<1> QED
  BY <1>2, <1>3 DEF LateRequest

LEMMA ServerStepEntries ==
  ASSUME ClientInv, ClientInv', EntriesInv, ServerStep
  PROVE  EntriesInv'
<1>1. ServerMoves /\ ledger' = ledger
  BY CloseMoves, AnchorMoves DEF ServerStep, ClientInv, TypeOK
<1>2. UNCHANGED <<late, locator, cmd, retryCount, pc>>
  BY DEF ServerStep, callVars, netVars
<1>3. ASSUME NEW c \in 1..MaxCalls PROVE Live(c)' => Live(c)
  <2>1. \A req \in Outstanding : ~Dead(req.locator)' => ~Dead(req.locator)
    BY <1>1, OutstandingSeen DEF ServerMoves
  <2>2. Outstanding' = Outstanding
    BY <1>2 DEF Outstanding
  <2> QED
    BY <2>1, <2>2 DEF Live, Dead
<1>4. ASSUME NEW c \in 1..MaxCalls PROVE Attempts(c) <= Attempts(c)'
  <2>1. Attempts(c)' = Attempts(c) /\ Attempts(c) \in Int
    BY <1>2, AttemptsType DEF Attempts, ClientInv
  <2> QED
    BY <2>1
<1> QED
  BY <1>1, <1>3, <1>4, QuietStep DEF ClientInv

-----------------------------------------------------------------------------
LEMMA EntriesInit == Init => EntriesInv
<1> SUFFICES ASSUME Init PROVE EntriesInv
  OBVIOUS
<1>1. ledger = {} /\ late = {} /\ locator = NULL /\ cmd = 0
  BY DEF Init, ServerInit
<1>2. IsFiniteSet({}) /\ Cardinality({}) = 0
  BY FS_EmptySet
<1>3. ASSUME NEW c \in 1..MaxCalls
      PROVE  Cardinality(Entries(c)) + (IF Live(c) THEN 1 ELSE 0) <= Attempts(c)
  <2>1. Entries(c) = {} /\ ~Live(c)
    BY <1>1 DEF Entries, Live, Outstanding
  <2>2. Attempts(c) = 0
    BY <1>1, ServerBounds DEF Attempts
  <2> QED
    BY <1>2, <2>1, <2>2
<1> QED
  BY <1>1, <1>2, <1>3 DEF EntriesInv

LEMMA EntriesStep == ClientInv /\ ClientInv' /\ EntriesInv /\ [Next]_vars => EntriesInv'
<1> SUFFICES ASSUME ClientInv, ClientInv', EntriesInv, [Next]_vars
             PROVE  EntriesInv'
  OBVIOUS
<1>1. CASE LedgerInput \/ BinaryLedgerInput \/ BinaryLedgerInputDisabled
  BY <1>1, BeginCallEntries, BinaryDisabledEntries
     DEF LedgerInput, BinaryLedgerInput
<1>2. CASE VerifyNow \/ CallStep
  BY <1>2, GetReceiptLocatorEntries, ServerAcceptsEntries, CallStepEntries
     DEF CallStep, PostLedgerInput, PostBinaryLedgerInput, ReceiveReply,
         ReceiveBinaryReply
<1>3. CASE \E req \in late : LateRequest(req)
  BY <1>3, LateRequestEntries
<1>4. CASE ServerStep
  BY <1>4, ServerStepEntries
<1>5. CASE UNCHANGED vars
  <2>1. late' \subseteq Outstanding
    BY <1>5 DEF vars, netVars, Outstanding
  <2> QED
    BY <1>5, <2>1, ClientQuiet DEF vars, serverVars, callVars
<1> QED
  BY <1>1, <1>2, <1>3, <1>4, <1>5 DEF Next

(* However many requests and answers are lost, delayed or repeated, the    *)
(* two nested retry loops enter a command at most once per attempt of the  *)
(* outer one.                                                              *)
THEOREM EntriesAreBounded == Spec => []EntriesPerCommand
<1>1. ClientInv /\ EntriesInv => EntriesPerCommand
  <2> SUFFICES ASSUME ClientInv, EntriesInv, NEW c \in 1..MaxCalls
               PROVE  Cardinality(Entries(c)) <= MaxAttempts
    BY DEF EntriesPerCommand, Entries
  <2>1. Cardinality(Entries(c)) \in Nat
    BY EntriesFinite
  <2>2. Attempts(c) <= MaxAttempts /\ MaxAttempts \in Int /\ Attempts(c) \in Int
    BY AttemptsType, ClientConstants DEF ClientInv, TypeOK, Attempts, MaxAttempts
  <2>3. Cardinality(Entries(c)) + (IF Live(c) THEN 1 ELSE 0) <= Attempts(c)
    BY DEF EntriesInv
  <2> QED
    BY <2>1, <2>2, <2>3
<1>2. Spec => []EntriesInv
  BY ClientInvariant, EntriesInit, EntriesStep, PTL DEF Spec
<1> QED
  BY <1>1, <1>2, ClientInvariant, PTL

-----------------------------------------------------------------------------
(* The clearance order and the index value of a receipt identify it.       *)

(* The server accepts a locator once.                                      *)
OneReceiptPerLocator ==
  \A r, s \in ledger : LocatorOf(r) = LocatorOf(s) => r = s

(* A receipt the server issues has a locator that is not dead, all those   *)
(* it has issued before have.                                              *)
LEMMA AcceptKeys ==
  ASSUME ClientInv, OneReceiptPerLocator, NEW req \in Request, Accept(req)
  PROVE  OneReceiptPerLocator'
<1>1. /\ ledger' = ledger \cup {ReceiptFor(req)}
      /\ ~Dead(ReceiptFor(req))
      /\ \A r \in ledger : Dead(r)
  BY AcceptMoves DEF ClientInv, TypeOK, LocatorsInPlace
<1>2. \A r, s : LocatorOf(r) = LocatorOf(s) => (Dead(r) <=> Dead(s))
  BY DEF LocatorOf, Dead
<1> QED
  BY <1>1, <1>2 DEF OneReceiptPerLocator, LocatorOf

LEMMA KeysStep ==
  ClientInv /\ OneReceiptPerLocator /\ [Next]_vars => OneReceiptPerLocator'
<1> SUFFICES ASSUME ClientInv, OneReceiptPerLocator, [Next]_vars
             PROVE  OneReceiptPerLocator'
  OBVIOUS
<1>1. ASSUME UNCHANGED ledger PROVE OneReceiptPerLocator'
  BY <1>1 DEF OneReceiptPerLocator, LocatorOf
<1>2. CASE \/ LedgerInput \/ BinaryLedgerInput \/ BinaryLedgerInputDisabled
           \/ VerifyNow \/ ServerStep
  BY <1>1, <1>2 DEF LedgerInput, BinaryLedgerInput, BeginCall,
     BinaryLedgerInputDisabled, VerifyNow, ServerStep, CloseClearanceOrder,
     AnchorClearanceOrder, serverVars
<1>3. CASE CallStep
  <2>1. CASE ServerAccepts
    <3>1. Accept(wire) /\ wire \in Request
      BY <2>1, WireType DEF ServerAccepts, ClientWaits
    <3> QED
      BY <3>1, AcceptKeys
  <2>2. CASE ~ServerAccepts
    <3>1. UNCHANGED ledger
      BY <1>3, <2>2 DEF CallStep, GetReceiptLocator, GetReceiptLocatorFails,
         PostLedgerInput, PostBinaryLedgerInput, Post, ServerRejects, Timeout,
         ReceiveReply, ReceiveBinaryReply, Receive, Respond,
         GetDoneClearanceOrder, GetDoneClearanceOrderFails, VerifyReceipt,
         VerifyReturns, serverVars
    <3> QED
      BY <1>1, <3>1
  <2> QED
    BY <2>1, <2>2
<1>4. CASE \E req \in late : LateRequest(req)
  <2>1. PICK req \in late : LateRequest(req)
    BY <1>4
  <2>2. req \in Request
    BY <2>1 DEF ClientInv, TypeOK
  <2> QED
    BY <1>1, <2>1, <2>2, AcceptKeys DEF LateRequest, serverVars
<1>5. CASE UNCHANGED vars
  BY <1>1, <1>5 DEF vars, serverVars
<1> QED
  BY <1>2, <1>3, <1>4, <1>5 DEF Next

(* What discharges the assumption ReceiptDao.tla makes of its user: the    *)
(* client never saves a second receipt with the clearance order and the    *)
(* index value of a stored one, so that deleting by them deletes one.      *)
THEOREM KeysAreUnique == Spec => []KeysIdentifyReceipts
<1>1. Init => OneReceiptPerLocator
  BY DEF Init, ServerInit, OneReceiptPerLocator
<1>2. ClientInv /\ OneReceiptPerLocator => KeysIdentifyReceipts
  <2> SUFFICES ASSUME ClientInv, OneReceiptPerLocator PROVE KeysIdentifyReceipts
    OBVIOUS
  <2>1. receiptDao \subseteq ledger
    BY DEF ClientInv, ReceiptsInPlace
  <2>2. ASSUME pc = "parse", ~ParseFails, SignatureOk, NEW s \in receiptDao
        PROVE  LocatorOf(s) # LocatorOf(ParsedReceipt)
    <3>1. /\ ParsedReceipt = reply.receipt
          /\ reply.receipt \in ledger
          /\ reply.receipt \notin receiptDao
      BY <2>2 DEF ParseFails, SignatureOk, ParsedReceipt, ClientInv, ReceiptsInPlace
    <3> QED
      BY <2>1, <3>1 DEF OneReceiptPerLocator
  <2> QED
    BY <2>1, <2>2 DEF KeysIdentifyReceipts, OneReceiptPerLocator
<1> QED
  BY <1>1, <1>2, KeysStep, ClientInvariant, PTL DEF Spec

-----------------------------------------------------------------------------
(* A call runs out of steps.                                               *)

(* The numbers the measure is made of.  AttemptSteps is kept closed in     *)
(* what follows: one attempt less is AttemptSteps less.                    *)
LEMMA MeasureTypes ==
  ASSUME TypeOK
  PROVE  /\ retryCount \in Nat /\ count \in Nat /\ toVerify \in Nat
         /\ MaxRetryCount \in Nat /\ VerifyAfterLedgerInputCount \in Nat
         /\ count <= MaxRetryCount
         /\ Tries = MaxRetryCount + 1
         /\ AttemptSteps = 4 * Tries
         /\ AttemptSteps \in Nat
         /\ AttemptsLeft \in Nat
         /\ AfterwardsSteps = VerifyAfterLedgerInputCount + 2
BY ClientConstants DEF TypeOK, Tries, AttemptSteps, AttemptsLeft, AfterwardsSteps

(* What is left is a number of steps, and none only between the calls.     *)
LEMMA StepsLeftType ==
  ASSUME TypeOK
  PROVE  StepsLeft \in Nat /\ (StepsLeft = 0 <=> pc = "idle")
<1>1. pc \in {"idle", "locate", "post", "wait", "parse", "respond", "doneCO",
              "verify"}
  BY DEF TypeOK
<1> QED
  BY <1>1, MeasureTypes DEF StepsLeft

(* A return leaves nothing.                                                *)
LEMMA ReturnRunsOut ==
  ASSUME TypeOK, pc # "idle", pc' = "idle"
  PROVE  StepsLeft' < StepsLeft
<1>1. StepsLeft' = 0
  BY DEF StepsLeft
<1> QED
  BY <1>1, StepsLeftType

(* A try of the loop being executed costs a step, ...                      *)
LEMMA TryCosts ==
  ASSUME TypeOK, TypeOK', pc \in {"locate", "doneCO"}, RetriesLeft,
         count' = count + 1, UNCHANGED <<pc, retryCount, toVerify>>
  PROVE  StepsLeft' < StepsLeft
<1>1. AttemptsLeft' = AttemptsLeft
  BY DEF AttemptsLeft, AttemptSteps, Tries
<1> QED
  BY <1>1, MeasureTypes DEF StepsLeft, Tries, AfterwardsSteps

(* ... and a resend an attempt: it pays for a new locator and new tries.   *)
LEMMA ResendCosts ==
  ASSUME TypeOK, TypeOK', pc = "parse", retryCount > 0, BeginAttempt(retryCount)
  PROVE  StepsLeft' < StepsLeft
<1>1. retryCount' = retryCount - 1 /\ count' = 0 /\ pc' = "locate"
  BY DEF BeginAttempt
<1>2. AttemptsLeft' + AttemptSteps = AttemptsLeft
  BY <1>1, MeasureTypes, ClientConstants DEF AttemptsLeft, AttemptSteps, Tries
<1>3. StepsLeft' = AttemptsLeft' + 4 * Tries + AfterwardsSteps
  BY <1>1, MeasureTypes DEF StepsLeft, Tries, AfterwardsSteps
<1>4. StepsLeft = AttemptsLeft + 3 * (Tries - count) - 2 + AfterwardsSteps
  BY DEF StepsLeft
<1>5. AttemptsLeft' \in Int
  BY <1>1, MeasureTypes, ClientConstants DEF AttemptsLeft, AttemptSteps, Tries
<1> QED
  BY <1>2, <1>3, <1>4, <1>5, MeasureTypes

(* The answer to a POST: a resend, another POST, or the end of the loops.  *)
LEMMA ReceiveRunsOut ==
  ASSUME ClientInv, ClientInv', Receive
  PROVE  StepsLeft' < StepsLeft
<1> USE DEF ClientInv
<1>1. pc = "parse"
  BY DEF Receive
<1>2. ASSUME NEW code, NEW receipt, PostReturns(code, receipt)
      PROVE  StepsLeft' < StepsLeft
  <2>1. CASE code \in ResendErrors /\ retryCount > 0
    BY <1>1, <1>2, <2>1, ResendCosts DEF PostReturns
  <2>2. CASE ~(code \in ResendErrors /\ retryCount > 0)
    <3>1. pc' = "respond"
      BY <1>2, <2>2 DEF PostReturns
    <3> QED
      BY <1>1, <3>1, MeasureTypes DEF StepsLeft, AfterwardsSteps
  <2> QED
    BY <2>1, <2>2
<1>3. ASSUME NEW code, NEW receipt, PostFails(code, receipt)
      PROVE  StepsLeft' < StepsLeft
  <2>1. CASE code \notin LedgerInputErrors /\ RetriesLeft
    <3>1. pc' = "post" /\ count' = count + 1 /\ retryCount' = retryCount
      BY <1>3, <2>1 DEF PostFails
    <3>2. AttemptsLeft' = AttemptsLeft
      BY <3>1 DEF AttemptsLeft, AttemptSteps, Tries
    <3> QED
      BY <1>1, <3>1, <3>2, MeasureTypes DEF StepsLeft, Tries, AfterwardsSteps
  <2>2. CASE ~(code \notin LedgerInputErrors /\ RetriesLeft)
    BY <1>2, <1>3, <2>2 DEF PostFails
  <2> QED
    BY <2>1, <2>2
<1> QED
  BY <1>2, <1>3 DEF Receive

(* Steps that hand the call on to its next place: to the POST with the     *)
(* count reset, from the POST to its answer, and into the verification.    *)
LEMMA PlaceRunsOut ==
  ASSUME TypeOK, TypeOK', UNCHANGED retryCount,
         \/ pc = "locate" /\ pc' = "post" /\ count' = 0
         \/ pc = "post" /\ pc' = "wait" /\ UNCHANGED count
         \/ pc = "wait" /\ pc' = "parse" /\ UNCHANGED count
  PROVE  StepsLeft' < StepsLeft
<1>1. AttemptsLeft' = AttemptsLeft
  BY DEF AttemptsLeft, AttemptSteps, Tries
<1> QED
  BY <1>1, MeasureTypes DEF StepsLeft, Tries, AfterwardsSteps

(* Every step of a call costs one step at least.                           *)
LEMMA CallStepRunsOut ==
  ASSUME ClientInv, ClientInv', CallStep
  PROVE  StepsLeft' < StepsLeft
<1> USE DEF ClientInv
<1>1. CASE GetReceiptLocator
  BY <1>1, PlaceRunsOut DEF GetReceiptLocator
<1>2. CASE GetReceiptLocatorFails \/ GetDoneClearanceOrderFails
  <2>1. CASE RetriesLeft
    BY <1>2, <2>1, TryCosts DEF GetReceiptLocatorFails, GetDoneClearanceOrderFails
  <2>2. CASE ~RetriesLeft
    BY <1>2, <2>2, ReturnRunsOut
       DEF GetReceiptLocatorFails, GetDoneClearanceOrderFails, Return
  <2> QED
    BY <2>1, <2>2
<1>3. CASE PostLedgerInput \/ PostBinaryLedgerInput
  BY <1>3, PlaceRunsOut DEF PostLedgerInput, PostBinaryLedgerInput, Post
<1>4. CASE ServerAccepts \/ ServerRejects \/ Timeout
  BY <1>4, PlaceRunsOut
     DEF ServerAccepts, ServerRejects, Timeout, Answer, ClientWaits
<1>5. CASE ReceiveReply \/ ReceiveBinaryReply
  BY <1>5, ReceiveRunsOut DEF ReceiveReply, ReceiveBinaryReply
<1>6. CASE Respond
  <2>1. CASE pc' = "idle"
    BY <1>6, <2>1, ReturnRunsOut DEF Respond
  <2>2. CASE pc' = "verify" /\ toVerify' = VerifyAfterLedgerInputCount
    BY <1>6, <2>2, MeasureTypes DEF Respond, StepsLeft
  <2> QED
    BY <1>6, <2>1, <2>2 DEF Respond, Return
<1>7. CASE GetDoneClearanceOrder
  BY <1>7, MeasureTypes DEF GetDoneClearanceOrder, StepsLeft
<1>8. CASE \E r \in receiptDao, code \in VerifyCodes : VerifyReceipt(r, code)
  BY <1>8, MeasureTypes DEF VerifyReceipt, StepsLeft
<1>9. CASE VerifyReturns
  BY <1>9, ReturnRunsOut DEF VerifyReturns, Return
<1> QED
  BY <1>1, <1>2, <1>3, <1>4, <1>5, <1>6, <1>7, <1>8, <1>9 DEF CallStep

(* No other step touches the call in progress.                             *)
LEMMA OthersTakeNothing ==
  ASSUME [Next]_vars, ~CallStep, pc # "idle"
  PROVE  StepsLeft' = StepsLeft
<1>1. CASE LedgerInput \/ BinaryLedgerInput \/ BinaryLedgerInputDisabled \/ VerifyNow
  BY <1>1 DEF LedgerInput, BinaryLedgerInput, BinaryLedgerInputDisabled,
              BeginCall, VerifyNow
<1>2. CASE ServerStep \/ (\E req \in late : LateRequest(req)) \/ UNCHANGED vars
  <2>1. UNCHANGED <<pc, retryCount, count, toVerify>>
    BY <1>2 DEF ServerStep, LateRequest, vars, callVars, verifyVars
  <2> QED
    BY <2>1 DEF StepsLeft, AttemptsLeft, AttemptSteps, Tries, AfterwardsSteps
<1> QED
  BY <1>1, <1>2 DEF Next

(* A ledger input starts with what MaxAttempts attempts and the            *)
(* verification after them take.                                           *)
LEMMA StepsOfALedgerInput ==
  ASSUME BeginCall
  PROVE  StepsLeft' = MaxAttempts * AttemptSteps + AfterwardsSteps
<1>1. pc' = "locate" /\ count' = 0
  BY DEF BeginCall, BeginAttempt
<1>2. StepsLeft' = AttemptsLeft' + 4 * Tries - 0 + AfterwardsSteps
  BY <1>1 DEF StepsLeft, Tries, AfterwardsSteps
<1>3. Tries \in Nat /\ AttemptSteps = 4 * Tries /\ AttemptSteps \in Nat
  BY ClientConstants DEF Tries, AttemptSteps
<1>4. retryCount' = MaxAttempts - 1 /\ MaxAttempts \in Nat \ {0}
  BY ClientConstants DEF BeginCall, BeginAttempt, MaxAttempts
<1>5. AttemptsLeft' = (MaxAttempts - 1) * AttemptSteps
  BY <1>4 DEF AttemptsLeft, AttemptSteps, Tries
<1>6. (MaxAttempts - 1) * AttemptSteps + AttemptSteps = MaxAttempts * AttemptSteps
  BY <1>3, <1>4
<1>7. AfterwardsSteps \in Nat /\ (MaxAttempts - 1) * AttemptSteps \in Int
  BY <1>3, <1>4, ClientConstants DEF AfterwardsSteps
<1> QED
  BY <1>2, <1>3, <1>5, <1>6, <1>7

(* The nested loops of bns_client_ledger_input() and bns_post_ledger_      *)
(* input() and the loop of bns_client_verify_by_done_co() are bounded for  *)
(* every maxRetryCount and verifyAfterLedgerInputCount: a call has only so *)
(* many steps, and every one of them uses one up.                          *)
THEOREM CallsAreBounded == Spec => CallsRunOut
<1>1. ClientInv /\ ClientInv' /\ [Next]_vars =>
        [IF CallStep THEN StepsLeft' < StepsLeft
                     ELSE pc # "idle" => StepsLeft' = StepsLeft]_vars
  BY CallStepRunsOut, OthersTakeNothing
<1> QED
  BY <1>1, ClientInvariant, PTL DEF Spec, CallsRunOut

=============================================================================
