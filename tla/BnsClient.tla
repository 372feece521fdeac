------------------------------ MODULE BnsClient ------------------------------
(***************************************************************************)
(* The notary client of src/src/bns-client: ledger input with its two      *)
(* nested retry loops, plain or with a binary file, and the verification   *)
(* of the receipts it has stored.                                          *)
(*                                                                         *)
(* The client is single threaded, so one program counter follows the call  *)
(* in progress.  It runs against a network on which a request or its       *)
(* answer may be lost or garbled and an abandoned request may still reach  *)
(* the server later, and against a server that closes and anchors          *)
(* clearance orders at any moment.  The receipt DAO is the contract of     *)
(* receipt_dao_t, a set of receipts; ReceiptDao.tla models the array that  *)
(* implements it.  verify() is one step with either outcome.               *)
(***************************************************************************)
EXTENDS NotaryServer

CONSTANTS
  MaxRetryCount,                \* *bnsClient->maxRetryCount
  VerifyAfterLedgerInputCount,  \* *bnsClient->verifyAfterLedgerInputCount
  VerifyNowCounts,              \* arguments of bns_client_verify_now()
  ReceiptCacheSize,             \* RECEIPT_CACHE_SIZE
  BinaryCalls,                  \* the calls that are binary ledger inputs
  PostMulti,                    \* bound: whether httpClient.post_multi is set
                                \* when a binary ledger input is called
  NULL                          \* a null pointer

ASSUME ClientConstants ==
  /\ MaxRetryCount \in Nat
  /\ VerifyAfterLedgerInputCount \in Nat
  /\ VerifyNowCounts \subseteq Nat
  /\ ReceiptCacheSize \in Nat
  /\ BinaryCalls \subseteq Nat
  /\ PostMulti \subseteq BOOLEAN
  /\ NULL \notin Receipt \cup Request \cup Locator

VARIABLES
  pc,           \* where the call in progress stands
  cmd,          \* number of the ledger input in progress or last made
  retryCount,   \* retryCount of bns_client_ledger_input()
  count,        \* count of the retry loop being executed
  locator,      \* receiptLocator
  result,       \* ledgerInputResult.receipt
  exitCode,     \* exitCode, the return value once pc is "idle"
  clearedCO,    \* the doneClearanceOrder the client works with
  toVerify,     \* toVerifyCount of bns_client_verify_by_done_co()
  receiptDao,   \* receipts stored and not yet deleted
  wire,         \* the POST the client is blocked on
  reply,        \* the answer to it
  late          \* requests given up by the client but still under way

(* History variables: read by the properties only.                         *)
VARIABLES
  rejected,     \* locators of the ledger input in progress that were answered
                \* with an error that asks for a resend
  settled       \* receipts that were verified, with whatever outcome

callVars   == <<pc, cmd, retryCount, count, locator, result, exitCode>>
verifyVars == <<clearedCO, toVerify, receiptDao, settled>>
netVars    == <<wire, reply, late>>
vars == <<serverVars, callVars, verifyVars, netVars, rejected>>

(* Exit codes, as far as the control flow tells them apart: "REFUSED" is   *)
(* any of the client signature, authentication, cmd and tx count errors,   *)
(* "ERROR" any other failure.  verify() ends with "NO_PROOF" when it could *)
(* not even get the merkle proof or the clearance record.                  *)
ResendErrors      == {"CO_ERROR", "IV_ERROR"}
LedgerInputErrors == ResendErrors \cup {"REFUSED"}
ReplyCodes        == LedgerInputErrors \cup {"OK", "ERROR"}
VerifyCodes       == {"OK", "ERROR", "NO_PROOF"}
ExitCodes         == ReplyCodes \cup VerifyCodes

(* Contents of a receipt_t that the server has not signed.                 *)
Garbled == [clearanceOrder |-> 0, indexValue |-> 0, cmd |-> 0]

(* How a delivered receipt may be damaged.  Fields that do not parse and a *)
(* wrong signature leave contents in ledgerInputResult->receipt that the   *)
(* server did not sign; a doneClearanceOrderList that does not parse, or   *)
(* the missing file URL of a binary ledger input, leaves the receipt       *)
(* itself intact.                                                          *)
Forms == {"intact", "badReceipt", "badDoneCO", "badFileUrl", "badSignature"}
Reply == [code : ReplyCodes, form : Forms, receipt : Receipt \cup {NULL},
          doneCO : 0..MaxCO]

TypeOK ==
  /\ ServerTypeOK
  /\ pc \in {"idle", "locate", "post", "wait", "parse", "respond", "doneCO",
             "verify"}
  /\ cmd \in 0..MaxCalls
  /\ retryCount \in 0..MaxRetryCount
  /\ count \in 0..MaxRetryCount
  /\ locator \in Locator \cup {NULL}
  /\ result \in Receipt \cup {NULL, Garbled}
  /\ exitCode \in ExitCodes
  /\ clearedCO \in 0..MaxCO
  /\ toVerify \in Nat
  /\ receiptDao \subseteq Receipt \cup {Garbled}
  /\ wire \in Request \cup {NULL}
  /\ reply \in Reply \cup {NULL}
  /\ late \subseteq Request
  /\ rejected \subseteq Locator
  /\ settled \subseteq Receipt \cup {Garbled}

Init ==
  /\ ServerInit
  /\ pc = "idle"
  /\ cmd = 0
  /\ retryCount = 0
  /\ count = 0
  /\ locator = NULL
  /\ result = NULL
  /\ exitCode = "OK"
  /\ clearedCO = 0
  /\ toVerify = 0
  /\ receiptDao = {}
  /\ wire = NULL
  /\ reply = NULL
  /\ late = {}
  /\ rejected = {}
  /\ settled = {}

-----------------------------------------------------------------------------
(* The call in progress returns, its locals are gone.                      *)
Return(code) ==
  /\ pc' = "idle"
  /\ exitCode' = code
  /\ retryCount' = 0
  /\ count' = 0
  /\ locator' = NULL
  /\ result' = NULL
  /\ clearedCO' = 0
  /\ toVerify' = 0

(* The loop that the functions sending a request retry in by themselves:   *)
(* count++ < *bnsClient->maxRetryCount.                                    *)
RetriesLeft_OffByOne == count <= MaxRetryCount

RetriesLeft == count < MaxRetryCount

-----------------------------------------------------------------------------
(* bns_client_ledger_input() and bns_client_binary_ledger_input()          *)

(* Variants of the head of the loop: the locator is asked for once only;   *)
(* the attempt is not counted.                                             *)
BeginAttempt_KeepsLocator(remaining) ==
  /\ retryCount' = IF remaining > 0 THEN remaining - 1 ELSE 0
  /\ pc' = IF locator = NULL THEN "locate" ELSE "post"
  /\ count' = 0
  /\ result' = NULL
  /\ UNCHANGED <<locator, exitCode>>

BeginAttempt_NotCounted(remaining) ==
  /\ retryCount' = remaining
  /\ pc' = "locate"
  /\ count' = 0
  /\ locator' = NULL
  /\ result' = NULL
  /\ UNCHANGED exitCode

(* The head of its do loop: one attempt is spent, the locator and the      *)
(* result of the previous attempt are freed.                               *)
BeginAttempt(remaining) ==
  /\ retryCount' = IF remaining > 0 THEN remaining - 1 ELSE 0
  /\ pc' = "locate"
  /\ count' = 0
  /\ locator' = NULL
  /\ result' = NULL
  /\ UNCHANGED exitCode

BeginCall ==
  /\ pc = "idle"
  /\ cmd < MaxCalls
  /\ cmd' = cmd + 1
  /\ BeginAttempt(MaxRetryCount)
  /\ rejected' = {}
  /\ UNCHANGED <<serverVars, verifyVars, netVars>>

LedgerInput == cmd + 1 \notin BinaryCalls /\ BeginCall

(* bns_client_binary_ledger_input() is the same loop over a multipart POST *)
(* ...                                                                     *)
BinaryLedgerInput == cmd + 1 \in BinaryCalls /\ TRUE \in PostMulti /\ BeginCall

(* ... and fails at once while nobody has enabled it.                      *)
BinaryLedgerInputDisabled ==
  /\ pc = "idle"
  /\ cmd < MaxCalls
  /\ cmd + 1 \in BinaryCalls
  /\ FALSE \in PostMulti
  /\ cmd' = cmd + 1
  /\ Return("ERROR")
  /\ rejected' = {}
  /\ UNCHANGED <<serverVars, receiptDao, settled, netVars>>

(* bns_get_receipt_locator() succeeds ...                                  *)
GetReceiptLocator ==
  /\ pc = "locate"
  /\ locator' = CurrentLocator
  /\ pc' = "post"
  /\ count' = 0
  /\ UNCHANGED <<serverVars, cmd, retryCount, result, exitCode, verifyVars,
                 netVars, rejected>>

(* ... or gets no answer, or one that does not parse: it retries, and in   *)
(* the end bns_client_ledger_input() fails without calling back.           *)
GetReceiptLocatorFails ==
  /\ pc = "locate"
  /\ IF RetriesLeft
       THEN /\ count' = count + 1
            /\ UNCHANGED <<pc, exitCode, retryCount, locator, result, clearedCO,
                           toVerify>>
       ELSE Return("ERROR")
  /\ UNCHANGED <<serverVars, cmd, receiptDao, settled, netVars, rejected>>

(* bns_post_ledger_input() builds, signs and sends the request; the binary *)
(* one sends it as the first part of a form whose second is the file.      *)
Post ==
  /\ pc = "post"
  /\ wire' = [locator |-> locator, cmd |-> cmd]
  /\ pc' = "wait"
  /\ UNCHANGED <<serverVars, cmd, retryCount, count, locator, result, exitCode,
                 verifyVars, reply, late, rejected>>

PostLedgerInput == cmd \notin BinaryCalls /\ Post

PostBinaryLedgerInput == cmd \in BinaryCalls /\ Post

(* bns_post_ledger_input() returned code to the loop of                    *)
(* bns_client_ledger_input(), leaving receipt in ledgerInputResult.        *)
PostReturns(code, receipt) ==
  IF code \in ResendErrors /\ retryCount > 0
    THEN BeginAttempt(retryCount)
    ELSE /\ pc' = "respond"
         /\ exitCode' = code
         /\ result' = receipt
         /\ UNCHANGED <<retryCount, count, locator>>

(* Variant: the attempts of the inner loop are not counted.                *)
PostFails_NotCounted(code, receipt) ==
  IF code \notin LedgerInputErrors /\ RetriesLeft
    THEN /\ pc' = "post"
         /\ result' = receipt
         /\ UNCHANGED <<retryCount, count, locator, exitCode>>
    ELSE PostReturns(code, receipt)

(* The failure path of bns_post_ledger_input(): the server's verdict on    *)
(* the request is final, anything else is retried with the same locator.   *)
PostFails(code, receipt) ==
  IF code \notin LedgerInputErrors /\ RetriesLeft
    THEN /\ pc' = "post"
         /\ count' = count + 1
         /\ result' = receipt
         /\ UNCHANGED <<retryCount, locator, exitCode>>
    ELSE PostReturns(code, receipt)

(* receiptDao.save: receipt_cache_save() drops what does not fit.          *)
Save(r) ==
  receiptDao' = IF Cardinality(receiptDao) < ReceiptCacheSize
                  THEN receiptDao \cup {r} ELSE receiptDao

(* check_and_parse_ledger_input_response() fills ledgerInputResult->receipt*)
(* only from an answer that has a receipt; an error answer leaves there    *)
(* what an earlier answer of this attempt has put.                         *)
ParsedReceipt ==
  IF reply.code # "OK" THEN result
  ELSE IF reply.form \in {"badReceipt", "badSignature"} THEN Garbled
  ELSE reply.receipt

(* check_and_parse_binary_ledger_input_response() reads the file URL last. *)
BinaryParseFails == cmd \in BinaryCalls /\ reply.form = "badFileUrl"

ParseFails ==
  \/ reply.code # "OK"
  \/ reply.form \in {"badReceipt", "badDoneCO"}
  \/ BinaryParseFails

(* receipt_check_sig(), and its absence.                                   *)
SignatureOk_Unchecked == TRUE

SignatureOk == reply.form # "badSignature"

(* The rest of bns_post_ledger_input(): parse, check the signature, save.  *)
Receive ==
  /\ pc = "parse"
  /\ IF ParseFails \/ ~SignatureOk
       THEN /\ PostFails(IF reply.code = "OK" THEN "ERROR" ELSE reply.code,
                         ParsedReceipt)
            /\ UNCHANGED <<clearedCO, receiptDao>>
       ELSE /\ Save(ParsedReceipt)
            /\ clearedCO' = reply.doneCO
            /\ PostReturns("OK", ParsedReceipt)
  /\ rejected' = IF reply.code \in ResendErrors THEN rejected \cup {locator}
                                                ELSE rejected
  /\ wire' = NULL
  /\ reply' = NULL
  /\ UNCHANGED <<serverVars, cmd, toVerify, settled, late>>

ReceiveReply == cmd \notin BinaryCalls /\ Receive

ReceiveBinaryReply == cmd \in BinaryCalls /\ Receive

(* The callbacks of bns_client_ledger_input(), and its return unless       *)
(* receipts are to be verified.                                            *)
Respond ==
  /\ pc = "respond"
  /\ IF exitCode = "OK" /\ VerifyAfterLedgerInputCount > 0
       THEN /\ toVerify' = VerifyAfterLedgerInputCount
            /\ pc' = "verify"
            /\ locator' = NULL
            /\ result' = NULL
            /\ UNCHANGED <<exitCode, retryCount, count, clearedCO>>
       ELSE Return(exitCode)
  /\ UNCHANGED <<serverVars, cmd, receiptDao, settled, netVars, rejected>>

-----------------------------------------------------------------------------
(* bns_client_verify_now() and bns_client_verify_by_done_co()              *)

VerifyNow ==
  /\ pc = "idle"
  /\ \E n \in VerifyNowCounts : toVerify' = n
  /\ pc' = "doneCO"
  /\ count' = 0
  /\ UNCHANGED <<serverVars, cmd, retryCount, locator, result, exitCode,
                 clearedCO, receiptDao, settled, netVars, rejected>>

(* bns_get_done_clearance_order(): strtoll() turns an answer that is not a *)
(* number into 0.                                                          *)
GetDoneClearanceOrder ==
  /\ pc = "doneCO"
  /\ clearedCO' \in {doneCO, 0}
  /\ exitCode' = "OK"
  /\ pc' = "verify"
  /\ UNCHANGED <<serverVars, cmd, retryCount, count, locator, result, toVerify,
                 receiptDao, settled, netVars, rejected>>

GetDoneClearanceOrderFails ==
  /\ pc = "doneCO"
  /\ IF RetriesLeft
       THEN /\ count' = count + 1
            /\ UNCHANGED <<pc, exitCode, retryCount, locator, result, clearedCO,
                           toVerify>>
       ELSE Return("ERROR")
  /\ UNCHANGED <<serverVars, cmd, receiptDao, settled, netVars, rejected>>

(* findPageByClearanceOrderEqualOrLessThan, and off-by-ones of it.         *)
FindPage_OffByOne == {r \in receiptDao : r.clearanceOrder <= clearedCO + 1}

FindPage_Strict == {r \in receiptDao : r.clearanceOrder < clearedCO}

FindPage == {r \in receiptDao : r.clearanceOrder <= clearedCO}

(* receiptDao.delete; the variant forgets to compare the index value.      *)
Delete_WholeClearanceOrder(r) ==
  receiptDao' = {s \in receiptDao : s.clearanceOrder # r.clearanceOrder}

Delete(r) == receiptDao' = receiptDao \ {r}

(* verify() passes a receipt that the contract's record commits to.  That  *)
(* takes no outcome away: a receipt tried is stored, and so on the ledger  *)
(* (StoredReceiptsAreGenuine), and anchored (OnlyAnchoredAreVerified).     *)
VerifyMayPass(r) == r \in ledger /\ r.clearanceOrder <= doneCO

(* One turn of the loop of bns_client_verify_by_done_co(), VERIFY_BATCH_SIZE*)
(* being 1: the receipt is verified, reported and deleted whatever the     *)
(* outcome, and the exit code is the one of the last receipt.              *)
VerifyReceipt(r, code) ==
  /\ pc = "verify"
  /\ toVerify > 0
  /\ r \in FindPage
  /\ code = "OK" => VerifyMayPass(r)
  /\ exitCode' = code
  /\ settled' = settled \cup {r}
  /\ Delete(r)
  /\ toVerify' = toVerify - 1
  /\ UNCHANGED <<serverVars, pc, cmd, retryCount, count, locator, result,
                 clearedCO, netVars, rejected>>

VerifyReturns ==
  /\ pc = "verify"
  /\ toVerify = 0 \/ FindPage = {}
  /\ Return(exitCode)
  /\ UNCHANGED <<serverVars, cmd, receiptDao, settled, netVars, rejected>>

-----------------------------------------------------------------------------
(* The network and the server                                              *)

ClientWaits == pc = "wait"

(* Only the answer to a binary ledger input has a file URL to lose.        *)
FormsOf(call) == IF call \in BinaryCalls THEN Forms ELSE Forms \ {"badFileUrl"}

Answer(code, form, receipt) ==
  /\ pc' = "parse"
  /\ reply' = [code |-> code, form |-> form, receipt |-> receipt,
               doneCO |-> doneCO]
  /\ UNCHANGED <<cmd, retryCount, count, locator, result, exitCode, verifyVars,
                 wire, late, rejected>>

(* The server takes the request; its answer arrives, damaged or not, or is *)
(* lost.                                                                   *)
ServerAccepts ==
  /\ ClientWaits
  /\ Accept(wire)
  /\ \/ \E form \in FormsOf(cmd) : Answer("OK", form, ReceiptFor(wire))
     \/ Answer("ERROR", "intact", NULL)

(* The server finds the locator outdated, or refuses the request for       *)
(* another reason; an answer the client cannot read counts as "ERROR".     *)
ServerRejects ==
  /\ ClientWaits
  /\ \/ /\ wire.locator.clearanceOrder # openCO
        /\ Answer("CO_ERROR", "intact", NULL)
     \/ /\ wire.locator.clearanceOrder = openCO
        /\ wire.locator.indexValue # nextSn
        /\ Answer("IV_ERROR", "intact", NULL)
     \/ \E code \in {"REFUSED", "ERROR"} : Answer(code, "intact", NULL)
  /\ UNCHANGED serverVars

(* The HTTP client times out and returns NULL; the request itself may be   *)
(* lost or still on its way.                                               *)
Timeout ==
  /\ ClientWaits
  /\ pc' = "parse"
  /\ reply' = [code |-> "ERROR", form |-> "intact", receipt |-> NULL,
               doneCO |-> 0]
  /\ late' \in {late, late \cup {wire}}
  /\ UNCHANGED <<serverVars, cmd, retryCount, count, locator, result, exitCode,
                 verifyVars, wire, rejected>>

(* A request the client has given up reaches the server, or vanishes.      *)
LateRequest(req) ==
  /\ req \in late
  /\ late' = late \ {req}
  /\ Accept(req) \/ UNCHANGED serverVars
  /\ UNCHANGED <<callVars, verifyVars, wire, reply, rejected>>

ServerStep ==
  /\ CloseClearanceOrder \/ AnchorClearanceOrder
  /\ UNCHANGED <<callVars, verifyVars, netVars, rejected>>

-----------------------------------------------------------------------------
(* The steps a call in progress takes; HTTP requests end, with an answer   *)
(* or with the 30 second timeout of ssl_get.c.                             *)
CallStep ==
  \/ GetReceiptLocator
  \/ GetReceiptLocatorFails
  \/ PostLedgerInput
  \/ PostBinaryLedgerInput
  \/ ServerAccepts
  \/ ServerRejects
  \/ Timeout
  \/ ReceiveReply
  \/ ReceiveBinaryReply
  \/ Respond
  \/ GetDoneClearanceOrder
  \/ GetDoneClearanceOrderFails
  \/ \E r \in receiptDao, code \in VerifyCodes : VerifyReceipt(r, code)
  \/ VerifyReturns

Next ==
  \/ LedgerInput
  \/ BinaryLedgerInput
  \/ BinaryLedgerInputDisabled
  \/ VerifyNow
  \/ CallStep
  \/ \E req \in late : LateRequest(req)
  \/ ServerStep

Spec == Init /\ [][Next]_vars

FairSpec == Spec /\ WF_vars(CallStep)

-----------------------------------------------------------------------------
(* Properties                                                              *)

MaxAttempts == IF MaxRetryCount = 0 THEN 1 ELSE MaxRetryCount

(* Everything the client stores was issued by the server: a receipt whose  *)
(* fields or signature did not survive the way back never gets past        *)
(* bns_post_ledger_input(), whatever the earlier answers left behind.      *)
StoredReceiptsAreGenuine == receiptDao \subseteq ledger

(* A resend works with a locator asked for after the rejection: once the   *)
(* server has answered a locator with a clearance order or an index value  *)
(* error, no later POST of the same ledger input carries it again.         *)
ResendUsesFreshLocator ==
  pc \in {"post", "wait"} => locator \notin rejected

(* Retries are not idempotent: a request whose answer is lost may be on    *)
(* the ledger, and the resend with a new locator enters it again.  But one *)
(* locator enters a command at most once, so the copies of a command stay  *)
(* within the attempts of the outer loop, late requests included.          *)
EntriesPerCommand ==
  \A c \in 1..MaxCalls : Cardinality({r \in ledger : r.cmd = c}) <= MaxAttempts

(* The receipt a successful ledger input reports is the one the server     *)
(* issued for this very command, under the locator reported with it.       *)
ReportedReceiptIsOurs ==
  pc = "respond" /\ exitCode = "OK" =>
    /\ result \in ledger
    /\ result.cmd = cmd
    /\ LocatorOf(result) = locator

(* Receipts are verified only once they are anchored, although the         *)
(* doneClearanceOrder the client goes by is an old answer: a verification  *)
(* never fails for having been tried too early.                            *)
OnlyAnchoredAreVerified ==
  \A r \in settled : r \in ledger /\ r.clearanceOrder <= doneCO

(* receipt_cache_save() does not look for the receipt it is given, and     *)
(* receipt_cache_delete() goes by the clearance order and the index value  *)
(* alone.  That is enough: no two stored receipts share them, and a        *)
(* receipt about to be saved shares them with none, however often its      *)
(* command was sent and answered.                                          *)
KeysIdentifyReceipts ==
  /\ \A r, s \in receiptDao : LocatorOf(r) = LocatorOf(s) => r = s
  /\ pc = "parse" /\ ~ParseFails /\ SignatureOk =>
       \A s \in receiptDao : LocatorOf(s) # LocatorOf(ParsedReceipt)

Stage(r) == IF r \in receiptDao THEN "stored"
            ELSE IF r \in settled THEN "settled"
            ELSE IF r \in ledger  THEN "issued"
            ELSE "absent"

(* A receipt leaves the store by its own verification and never comes      *)
(* back: neither a retry nor a late answer stores it a second time.        *)
Lifecycle == INSTANCE ReceiptLifecycle WITH
  stage <- [r \in Receipt |-> Stage(r)]

LifecycleSpec == Lifecycle!Spec

(* Every call returns, however many requests and answers are lost: the two *)
(* nested retry loops and the verification loop are bounded.               *)
EveryCallReturns == pc # "idle" ~> pc = "idle"

(* What is left of a call at the most, in steps: an attempt of a ledger    *)
(* input asks for a locator and posts in three steps, each of the two      *)
(* Tries times; the verification takes a step for every receipt.           *)
Tries        == MaxRetryCount + 1
AttemptSteps == 4 * Tries
AttemptsLeft == retryCount * AttemptSteps
AfterwardsSteps == VerifyAfterLedgerInputCount + 2

StepsLeft ==
  CASE pc = "locate"  -> AttemptsLeft + 4 * Tries - count + AfterwardsSteps
    [] pc = "post"    -> AttemptsLeft + 3 * (Tries - count) + AfterwardsSteps
    [] pc = "wait"    -> AttemptsLeft + 3 * (Tries - count) - 1 + AfterwardsSteps
    [] pc = "parse"   -> AttemptsLeft + 3 * (Tries - count) - 2 + AfterwardsSteps
    [] pc = "respond" -> AfterwardsSteps
    [] pc = "doneCO"  -> Tries - count + toVerify + 1
    [] pc = "verify"  -> toVerify + 1
    [] OTHER          -> 0

(* Nothing a call does, and nothing that happens to it on the network,     *)
(* gives it back a step: a reset of count is paid for by an attempt or by  *)
(* a locator received.  So a ledger input takes at most MaxAttempts *      *)
(* AttemptSteps + AfterwardsSteps steps, with half of AttemptSteps         *)
(* requests in each attempt, and the other steps, the server's, the late   *)
(* requests' and the other calls', never prolong the call in progress.     *)
CallsRunOut ==
  [][IF CallStep THEN StepsLeft' < StepsLeft
                 ELSE pc # "idle" => StepsLeft' = StepsLeft]_vars

(* What the documentation says of the client, and the code does not do.    *)

(* doc/other_setting_en.md: the retry count is "the maximum retry count of *)
(* failed ledgerInput".                                                    *)
Resends == MaxAttempts - 1 - retryCount

RetriesWithinMaximum == pc = "post" => Resends + count <= MaxRetryCount

(* doc/receiptDao_en.md: the client deletes "the verified receipts": a     *)
(* receipt whose proof or clearance record could not be obtained has not   *)
(* been verified, and stays.                                               *)
DeletedReceiptsWereVerified ==
  [][receiptDao \ receiptDao' # {} => exitCode' # "NO_PROOF"]_vars

(* doc/callback_en.md: ledger_input_response_callback() may take the       *)
(* clearance order and the index value from the receipt of the result it   *)
(* is given.                                                               *)
ReportedResultsHaveReceipt ==
  pc = "respond" /\ exitCode \in LedgerInputErrors \cup {"OK"} =>
    result # NULL

=============================================================================
