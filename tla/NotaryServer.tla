---------------------------- MODULE NotaryServer ----------------------------
(***************************************************************************)
(* The BNS server and the contract it anchors to, as far as the client's   *)
(* code depends on them.  Neither is part of the repository: every         *)
(* definition below is derived from what the client sends and from the     *)
(* answers its parsers distinguish.                                        *)
(*                                                                         *)
(* The server groups ledger inputs into clearance orders.  Exactly one     *)
(* clearance order is open; the next ledger input in it has to carry the   *)
(* index value "<key>_R<sn>" with the next serial number, which is why an  *)
(* index value is represented by its serial number.  A closed clearance    *)
(* order is later anchored in the contract: it is done.                    *)
(***************************************************************************)
EXTENDS Integers, FiniteSets

CONSTANTS
  MaxCO,      \* bound: clearance orders the server goes through
  MaxInputs,  \* bound: ledger inputs one clearance order takes
  MaxCalls    \* bound: calls of bns_client_ledger_input()

ASSUME ServerBounds ==
  /\ MaxCO \in Nat \ {0}
  /\ MaxInputs \in Nat \ {0}
  /\ MaxCalls \in Nat

VARIABLES
  openCO,  \* the clearance order that takes ledger inputs
  nextSn,  \* the serial number the next ledger input in it has to carry
  doneCO,  \* the last clearance order anchored in the contract, 0 if none
  ledger   \* the receipts the server has issued

serverVars == <<openCO, nextSn, doneCO, ledger>>

Locator == [clearanceOrder : 1..MaxCO, indexValue : 0..MaxInputs]

(* A command is named by the call of bns_client_ledger_input() that sent   *)
(* it; a request is the locator it was built with and the command.         *)
Request == [locator : Locator, cmd : 1..MaxCalls]

Receipt == [clearanceOrder : 1..MaxCO, indexValue : 0..MaxInputs,
            cmd : 1..MaxCalls]

LocatorOf(r) == [clearanceOrder |-> r.clearanceOrder,
                 indexValue     |-> r.indexValue]

ReceiptFor(req) == [clearanceOrder |-> req.locator.clearanceOrder,
                    indexValue     |-> req.locator.indexValue,
                    cmd            |-> req.cmd]

ServerTypeOK ==
  /\ openCO \in 1..MaxCO
  /\ nextSn \in 0..MaxInputs
  /\ doneCO \in 0..MaxCO
  /\ ledger \subseteq Receipt

ServerInit ==
  /\ openCO = 1
  /\ nextSn = 0
  /\ doneCO = 0
  /\ ledger = {}

(* What GET /receiptLocator hands out.                                     *)
CurrentLocator == [clearanceOrder |-> openCO, indexValue |-> nextSn]

(* The open clearance order is closed and the next one opened.             *)
CloseClearanceOrder ==
  /\ openCO < MaxCO
  /\ openCO' = openCO + 1
  /\ nextSn' = 0
  /\ UNCHANGED <<doneCO, ledger>>

(* The root hash of a closed clearance order is written to the contract.   *)
AnchorClearanceOrder ==
  /\ doneCO + 1 < openCO
  /\ doneCO' = doneCO + 1
  /\ UNCHANGED <<openCO, nextSn, ledger>>

Accept(req) ==
  /\ req.locator = CurrentLocator
  /\ nextSn < MaxInputs
  /\ ledger' = ledger \cup {ReceiptFor(req)}
  /\ nextSn' = nextSn + 1
  /\ UNCHANGED <<openCO, doneCO>>

=============================================================================
