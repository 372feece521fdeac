--------------------------- MODULE ClearanceRecord ---------------------------
(***************************************************************************)
(* contract_post_clearance_record() of src/src/bns-client/contract: the    *)
(* clearance record of a clearance order is looked up in a small cache and *)
(* otherwise read from the contract with eth_call, with retries.           *)
(*                                                                         *)
(* A root hash is represented by the clearance order it is the root of, 0  *)
(* for the zeros of an empty record; a damaged field is "garbled".         *)
(***************************************************************************)
EXTENDS Integers, FiniteSets

CONSTANTS
  MaxCO,          \* bound: clearance orders the contract goes through
  MaxRetryCount,  \* *bnsClient->maxRetryCount
  CacheSize,      \* CLEARANCE_RECORD_CACHE_SIZE
  MaxTime         \* bound: seconds the clock goes through

ASSUME RecordConstants ==
  /\ MaxCO \in Nat \ {0}
  /\ MaxRetryCount \in Nat
  /\ CacheSize \in Nat \ {0}
  /\ MaxTime \in Nat

Slots == 0..CacheSize - 1

Hash == (0..MaxCO) \cup {-1}
Garbled == -1

Record == [clearanceOrder : 0..MaxCO, rootHash : Hash]

EmptyRecord == [clearanceOrder |-> 0, rootHash |-> 0]

VARIABLES
  cache,            \* clearanceRecordCache
  timestamp,        \* its timestamps
  now,              \* time(NULL)
  doneCO,           \* the last clearance order anchored in the contract
  pc,               \* where contract_post_clearance_record() stands
  clearanceOrder,   \* its argument
  clearanceRecord,  \* its result
  count,            \* its retries
  exitCode,         \* its return value once pc is "returned"
  source            \* history: where the result was taken from

vars == <<cache, timestamp, now, doneCO, pc, clearanceOrder, clearanceRecord,
          count, exitCode, source>>

TypeOK ==
  /\ cache \in [Slots -> Record]
  /\ timestamp \in [Slots -> 0..MaxTime]
  /\ now \in 0..MaxTime
  /\ doneCO \in 0..MaxCO
  /\ pc \in {"returned", "lookup", "send"}
  /\ clearanceOrder \in 0..MaxCO
  /\ clearanceRecord \in Record
  /\ count \in 0..MaxRetryCount
  /\ exitCode \in {"OK", "ERROR"}
  /\ source \in {"none", "cache", "contract"}

Init ==
  /\ cache = [s \in Slots |-> EmptyRecord]
  /\ timestamp = [s \in Slots |-> 0]
  /\ now = 0
  /\ doneCO = 0
  /\ pc = "returned"
  /\ clearanceOrder = 0
  /\ clearanceRecord = EmptyRecord
  /\ count = 0
  /\ exitCode = "ERROR"
  /\ source = "none"

(* What the contract holds for a clearance order, zeros before it is       *)
(* anchored.                                                               *)
OnChain(co) == IF co <= doneCO THEN [clearanceOrder |-> co, rootHash |-> co]
                               ELSE EmptyRecord

Cached(co) == {s \in Slots : cache[s].clearanceOrder = co}

-----------------------------------------------------------------------------
(* verify() starts with a record of its own, all zeros.                    *)
Call(co) ==
  /\ pc = "returned"
  /\ pc' = "lookup"
  /\ clearanceOrder' = co
  /\ clearanceRecord' = EmptyRecord
  /\ count' = 0
  /\ exitCode' = "ERROR"
  /\ source' = "none"
  /\ UNCHANGED <<cache, timestamp, now, doneCO>>

(* The slots get_clearance_record_cache() hits; in the variants the        *)
(* entries of earlier seconds have expired, or a later record will do.     *)
Hits_Fresh(co) == {s \in Cached(co) : timestamp[s] = now}

Hits_AtLeast(co) == {s \in Slots : cache[s].clearanceOrder >= co}

Hits(co) == Cached(co)

(* get_clearance_record_cache(): a hit fills the record and renews its     *)
(* timestamp.                                                              *)
Lookup ==
  /\ pc = "lookup"
  /\ LET hit == Hits(clearanceOrder) IN
       /\ clearanceRecord' = IF hit = {} THEN clearanceRecord
                             ELSE cache[CHOOSE s \in hit : \A t \in hit : t <= s]
       /\ timestamp' = [s \in Slots |-> IF s \in hit THEN now ELSE timestamp[s]]
       /\ source' = IF hit = {} THEN source ELSE "cache"
  /\ IF clearanceRecord'.clearanceOrder # 0
       THEN pc' = "returned" /\ exitCode' = "OK"
       ELSE pc' = "send" /\ UNCHANGED exitCode
  /\ UNCHANGED <<cache, now, doneCO, clearanceOrder, count>>

(* Variant: one try too many.                                              *)
Fail_OffByOne ==
  IF count <= MaxRetryCount
    THEN /\ count' = count + 1
         /\ pc' = "lookup"
         /\ UNCHANGED exitCode
    ELSE /\ pc' = "returned"
         /\ exitCode' = "ERROR"
         /\ UNCHANGED count

(* The failure path: another try, with the record as it is.                *)
Fail ==
  IF count < MaxRetryCount
    THEN /\ count' = count + 1
         /\ pc' = "lookup"
         /\ UNCHANGED exitCode
    ELSE /\ pc' = "returned"
         /\ exitCode' = "ERROR"
         /\ UNCHANGED count

(* eth_post() gives no answer, an error, or one without a result.          *)
NoRecord ==
  /\ pc = "send"
  /\ Fail
  /\ UNCHANGED <<cache, timestamp, now, doneCO, clearanceOrder, clearanceRecord,
                 source>>

(* The result does not parse: the hashes have been copied by then, and the *)
(* digits of the clearance order added up until one that is none.          *)
DamagedRecord ==
  /\ pc = "send"
  /\ \E digits \in 0..MaxCO :
       clearanceRecord' = [clearanceOrder |-> digits, rootHash |-> Garbled]
  /\ Fail
  /\ UNCHANGED <<cache, timestamp, now, doneCO, clearanceOrder, source>>

(* The slot set_clearance_record_cache() takes when none is free: the      *)
(* first of those with the lowest timestamp.                               *)
Oldest(s) == \A t \in Slots : \/ timestamp[s] < timestamp[t]
                              \/ timestamp[s] = timestamp[t] /\ s <= t

(* Variant: the record is put in the first slot whatever that holds.       *)
Place_First(r) ==
  /\ cache' = [cache EXCEPT ![0] = r]
  /\ timestamp' = [timestamp EXCEPT ![0] = now]

(* set_clearance_record_cache()                                            *)
Place(r) ==
  IF r.clearanceOrder = 0
    THEN UNCHANGED <<cache, timestamp>>
    ELSE \E s \in Slots :
           /\ IF Cached(0) = {} THEN Oldest(s)
                                ELSE s \in Cached(0) /\ \A t \in Cached(0) : s <= t
           /\ cache' = [cache EXCEPT ![s] = r]
           /\ timestamp' = [timestamp EXCEPT ![s] = now]

(* Variant: the record is cached under the clearance order asked for.      *)
ReceiveRecord_CachesAsked ==
  /\ pc = "send"
  /\ clearanceRecord' = OnChain(clearanceOrder)
  /\ Place([clearanceRecord' EXCEPT !.clearanceOrder = clearanceOrder])
  /\ pc' = "returned"
  /\ exitCode' = "OK"
  /\ source' = "contract"
  /\ UNCHANGED <<now, doneCO, clearanceOrder, count>>

(* The contract's answer parses; only a record that is anchored is cached. *)
(* The node is trusted: an answer that parses is the contract's own.       *)
ReceiveRecord ==
  /\ pc = "send"
  /\ clearanceRecord' = OnChain(clearanceOrder)
  /\ Place(OnChain(clearanceOrder))
  /\ pc' = "returned"
  /\ exitCode' = "OK"
  /\ source' = "contract"
  /\ UNCHANGED <<now, doneCO, clearanceOrder, count>>

(* reset_clearance_record_cache()                                          *)
ResetCache ==
  /\ pc = "returned"
  /\ cache' = [s \in Slots |-> EmptyRecord]
  /\ timestamp' = [s \in Slots |-> 0]
  /\ UNCHANGED <<now, doneCO, pc, clearanceOrder, clearanceRecord, count,
                 exitCode, source>>

-----------------------------------------------------------------------------
(* The contract and the clock go on.                                       *)
Anchor == /\ doneCO < MaxCO
          /\ doneCO' = doneCO + 1
          /\ UNCHANGED <<cache, timestamp, now, pc, clearanceOrder,
                         clearanceRecord, count, exitCode, source>>

Tick == /\ now < MaxTime
        /\ now' = now + 1
        /\ UNCHANGED <<cache, timestamp, doneCO, pc, clearanceOrder,
                       clearanceRecord, count, exitCode, source>>

CallStep == Lookup \/ NoRecord \/ DamagedRecord \/ ReceiveRecord

Next ==
  \/ \E co \in 1..MaxCO : Call(co)
  \/ CallStep
  \/ ResetCache
  \/ Anchor
  \/ Tick

Spec == Init /\ [][Next]_vars

-----------------------------------------------------------------------------
(* Properties                                                              *)

(* The cache never goes stale: it holds what the contract holds, and never *)
(* the zeros of a clearance order that was asked for too early, nor what a *)
(* damaged answer has left in the record.                                  *)
CacheHoldsAnchoredRecords ==
  \A s \in Slots : cache[s].clearanceOrder # 0 =>
    cache[s] = OnChain(cache[s].clearanceOrder)

(* A clearance order takes one slot of the few, however often it is asked  *)
(* for and retried.                                                        *)
OneSlotPerOrder ==
  \A co \in 1..MaxCO : Cardinality(Cached(co)) <= 1

(* A record taken from the cache or from the contract is the contract's,   *)
(* whatever the earlier tries of the call have left in it; from the cache  *)
(* it is never empty.                                                      *)
ReturnedRecordIsGenuine ==
  pc = "returned" /\ source # "none" =>
    /\ clearanceRecord = OnChain(clearanceRecord.clearanceOrder)
    /\ clearanceRecord.clearanceOrder \in
         IF source = "cache" THEN {clearanceOrder} ELSE {clearanceOrder, 0}

(* A record is given up only when every slot is taken, and no slot has     *)
(* been left alone for longer.                                             *)
EvictsTheStalest ==
  [][\A s \in Slots :
       cache[s].clearanceOrder # 0 /\ cache'[s] \notin {cache[s], EmptyRecord} =>
         \A t \in Slots : /\ cache[t].clearanceOrder # 0
                          /\ timestamp[s] <= timestamp[t]]_vars

(* contract.c logs a success without a request as "end, from cache".       *)
SuccessHasASource == pc = "returned" /\ exitCode = "OK" => source # "none"

=============================================================================
