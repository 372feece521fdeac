----------------------- MODULE ClearanceRecord_proofs -----------------------
(***************************************************************************)
(* Proofs about the cache of clearance records, for every size of the      *)
(* cache, number of retries, clearance order and clock.                    *)
(***************************************************************************)
EXTENDS ClearanceRecord, FiniteSetTheorems, TLAPS

\* What the contract holds of an anchored clearance order: it never changes.
Anchored(r) == r.clearanceOrder <= doneCO /\ r.rootHash = r.clearanceOrder

AnchoredCache ==
  \A s \in Slots : cache[s].clearanceOrder # 0 => Anchored(cache[s])

DistinctOrders ==
  \A s, t \in Slots :
    cache[s].clearanceOrder # 0
      /\ cache[s].clearanceOrder = cache[t].clearanceOrder => s = t

\* A call under way has no source yet, and asks the contract only for a
\* record the cache does not have.
Asking ==
  /\ pc # "returned" => clearanceOrder # 0 /\ source = "none"
  /\ pc = "send" => Cached(clearanceOrder) = {}

Answered ==
  pc = "returned" /\ source # "none" =>
    /\ Anchored(clearanceRecord)
    /\ \/ clearanceRecord.clearanceOrder = clearanceOrder
       \/ source # "cache" /\ clearanceRecord.clearanceOrder = 0

IInv == TypeOK /\ AnchoredCache /\ DistinctOrders /\ Asking /\ Answered

\* A record that is what the contract holds for its own order is anchored.
LEMMA OnChainIsAnchored ==
  ASSUME TypeOK, NEW r \in Record
  PROVE  r = OnChain(r.clearanceOrder) <=> Anchored(r)
  <1>1. /\ r = [clearanceOrder |-> r.clearanceOrder, rootHash |-> r.rootHash]
        /\ r.clearanceOrder \in Nat /\ doneCO \in Nat
    BY RecordConstants DEF TypeOK, Record
  <1>2. CASE r.clearanceOrder <= doneCO
    BY <1>1, <1>2 DEF OnChain, Anchored
  <1>3. CASE ~(r.clearanceOrder <= doneCO)
    BY <1>1, <1>3 DEF OnChain, Anchored, EmptyRecord
  <1> QED BY <1>2, <1>3

\* What the contract answers is a record, anchored, of the order asked for
\* or empty.
LEMMA AnswerIsAnchored ==
  ASSUME TypeOK, NEW co \in 0..MaxCO
  PROVE  /\ OnChain(co) \in Record
         /\ Anchored(OnChain(co))
         /\ OnChain(co).clearanceOrder \in {co, 0}
  <1>1. co \in Hash /\ 0 \in Hash /\ 0 \in 0..MaxCO /\ doneCO \in Nat
    BY RecordConstants DEF Hash, TypeOK
  <1> QED BY <1>1 DEF OnChain, Anchored, EmptyRecord, Record

\* The first state has an empty cache.
LEMMA InitInv == Init => IInv
  <1> SUFFICES ASSUME Init PROVE IInv
    OBVIOUS
  <1>1. EmptyRecord \in Record /\ EmptyRecord.clearanceOrder = 0
    BY RecordConstants DEF EmptyRecord, Record, Hash
  <1>2. TypeOK
    BY <1>1, RecordConstants DEF Init, TypeOK
  <1>3. AnchoredCache /\ DistinctOrders /\ Asking /\ Answered
    BY <1>1 DEF Init, AnchoredCache, DistinctOrders, Asking, Answered
  <1> QED BY <1>2, <1>3 DEF IInv

\* The failure path keeps the number of retries within its limit.
LEMMA FailTypes ==
  ASSUME TypeOK, pc = "send", Fail
  PROVE  /\ count' \in 0..MaxRetryCount
         /\ pc' \in {"lookup", "returned"}
         /\ exitCode' \in {"OK", "ERROR"}
  BY RecordConstants DEF Fail, TypeOK

\* A call starts.
LEMMA CallInv ==
  ASSUME IInv, NEW co \in 1..MaxCO, Call(co)
  PROVE  IInv'
  <1>1. EmptyRecord \in Record /\ co \in 0..MaxCO /\ co # 0
    BY RecordConstants DEF EmptyRecord, Record, Hash
  <1>2. TypeOK'
    BY <1>1, RecordConstants DEF IInv, TypeOK, Call
  <1>3. AnchoredCache' /\ DistinctOrders' /\ Asking' /\ Answered'
    BY <1>1 DEF IInv, Call, AnchoredCache, Anchored, DistinctOrders, Asking,
                Answered
  <1> QED BY <1>2, <1>3 DEF IInv

\* A lookup hits the one slot of its order, and returns what it holds; or
\* leaves the cache alone and the record as it was.
LEMMA LookupInv ==
  ASSUME IInv, Lookup
  PROVE  IInv'
  <1> DEFINE hit == Hits(clearanceOrder)
  <1>1. /\ pc = "lookup" /\ clearanceOrder \in 0..MaxCO /\ clearanceOrder # 0
        /\ source = "none" /\ hit = Cached(clearanceOrder)
        /\ UNCHANGED <<cache, now, doneCO, clearanceOrder, count>>
    BY DEF IInv, TypeOK, Asking, Lookup, Hits
  <1>2. /\ timestamp' = [s \in Slots |-> IF s \in hit THEN now ELSE timestamp[s]]
        /\ pc' \in {"returned", "send"}
        /\ exitCode' \in {"OK", "ERROR"}
    BY DEF IInv, TypeOK, Lookup
  <1>3. timestamp' \in [Slots -> 0..MaxTime]
    BY <1>2 DEF IInv, TypeOK
  <1>4. AnchoredCache' /\ DistinctOrders'
    BY <1>1 DEF IInv, AnchoredCache, Anchored, DistinctOrders
  <1>5. CASE hit = {}
    <2>1. clearanceRecord' = clearanceRecord /\ source' = "none"
      BY <1>1, <1>5 DEF Lookup
    <2>2. TypeOK'
      BY <1>1, <1>2, <1>3, <2>1 DEF IInv, TypeOK
    <2>3. Asking' /\ Answered'
      BY <1>1, <1>2, <1>5, <2>1 DEF Asking, Answered, Cached
    <2> QED BY <1>4, <2>2, <2>3 DEF IInv
  <1>6. CASE hit # {}
    <2>1. PICK u \in Slots : hit = {u} /\ cache[u].clearanceOrder = clearanceOrder
      BY <1>1, <1>6 DEF Cached, IInv, DistinctOrders
    <2>2. (CHOOSE s \in hit : \A t \in hit : t <= s) = u
      BY <2>1 DEF Slots
    <2>3. clearanceRecord' = cache[u] /\ source' = "cache"
      BY <1>6, <2>2 DEF Lookup
    <2>4. cache[u] \in Record
      BY <2>1 DEF IInv, TypeOK
    <2>5. pc' = "returned"
      BY <1>1, <2>1, <2>3 DEF Lookup
    <2>6. TypeOK'
      BY <1>1, <1>2, <1>3, <2>3, <2>4 DEF IInv, TypeOK
    <2>7. Asking' /\ Answered'
      BY <1>1, <2>1, <2>3, <2>5 DEF Asking, Answered, Anchored, IInv, AnchoredCache
    <2> QED BY <1>4, <2>6, <2>7 DEF IInv
  <1> QED BY <1>5, <1>6

\* A try that brings no record: nothing of it stays but, in the result, the
\* remains of a damaged answer.
LEMMA FailedTryInv ==
  ASSUME IInv, pc = "send", Fail, clearanceRecord' \in Record,
         UNCHANGED <<cache, timestamp, now, doneCO, clearanceOrder, source>>
  PROVE  IInv'
  <1>1. TypeOK'
    BY FailTypes DEF IInv, TypeOK
  <1>2. AnchoredCache' /\ DistinctOrders'
    BY DEF IInv, AnchoredCache, Anchored, DistinctOrders
  <1>3. Asking' /\ Answered'
    BY FailTypes DEF IInv, Asking, Answered
  <1> QED BY <1>1, <1>2, <1>3 DEF IInv

\* The slot taken is free, or is the stalest of a full cache.
LEMMA PlaceTakesASlot ==
  ASSUME NEW r, Place(r)
  PROVE  \/ UNCHANGED <<cache, timestamp>>
         \/ /\ r.clearanceOrder # 0
            /\ \E s \in Slots :
                 /\ cache' = [cache EXCEPT ![s] = r]
                 /\ timestamp' = [timestamp EXCEPT ![s] = now]
                 /\ \/ s \in Cached(0)
                    \/ Cached(0) = {} /\ Oldest(s)
  BY DEF Place

\* An answer of the contract is cached once, if it is anchored.
LEMMA ReceiveRecordInv ==
  ASSUME IInv, ReceiveRecord
  PROVE  IInv'
  <1> DEFINE r == OnChain(clearanceOrder)
  <1>1. /\ pc = "send" /\ pc' = "returned" /\ exitCode' = "OK"
        /\ source' = "contract" /\ clearanceRecord' = r /\ Place(r)
        /\ UNCHANGED <<now, doneCO, clearanceOrder, count>>
    BY DEF ReceiveRecord
  <1>2. /\ r \in Record /\ Anchored(r) /\ r.clearanceOrder \in {clearanceOrder, 0}
        /\ clearanceOrder # 0 /\ Cached(clearanceOrder) = {}
    BY <1>1, AnswerIsAnchored DEF IInv, TypeOK, Asking
  <1> HIDE DEF r
  <1>3. Asking' /\ Answered'
    BY <1>1, <1>2 DEF Asking, Answered, Anchored
  <1>4. CASE UNCHANGED <<cache, timestamp>>
    BY <1>1, <1>2, <1>3, <1>4
    DEF IInv, TypeOK, AnchoredCache, Anchored, DistinctOrders
  <1>5. ASSUME NEW s \in Slots, r.clearanceOrder # 0,
               cache' = [cache EXCEPT ![s] = r],
               timestamp' = [timestamp EXCEPT ![s] = now]
        PROVE  IInv'
    <2>1. TypeOK'
      BY <1>1, <1>2, <1>5 DEF IInv, TypeOK
    <2>2. \A t \in Slots : cache'[t] = IF t = s THEN r ELSE cache[t]
      BY <1>5 DEF IInv, TypeOK
    <2>3. \A t \in Slots : cache[t].clearanceOrder # r.clearanceOrder
      BY <1>2, <1>5 DEF Cached
    <2>4. AnchoredCache'
      BY <1>1, <1>2, <2>2 DEF IInv, AnchoredCache, Anchored
    <2>5. DistinctOrders'
      BY <2>2, <2>3 DEF IInv, DistinctOrders
    <2> QED BY <1>3, <2>1, <2>4, <2>5 DEF IInv
  <1> QED BY <1>1, <1>4, <1>5, PlaceTakesASlot

\* Every step keeps the invariant.
LEMMA NextInv == IInv /\ [Next]_vars => IInv'
  <1> SUFFICES ASSUME IInv, [Next]_vars PROVE IInv'
    OBVIOUS
  <1> USE DEF IInv
  <1>1. ASSUME NEW co \in 1..MaxCO, Call(co) PROVE IInv'
    BY <1>1, CallInv
  <1>2. CASE Lookup
    BY <1>2, LookupInv
  <1>3. CASE NoRecord
    BY <1>3, FailedTryInv DEF NoRecord, TypeOK
  <1>4. CASE DamagedRecord
    <2>1. ASSUME NEW d \in 0..MaxCO
          PROVE  [clearanceOrder |-> d, rootHash |-> Garbled] \in Record
      BY DEF Record, Hash, Garbled
    <2> QED BY <1>4, <2>1, FailedTryInv DEF DamagedRecord
  <1>5. CASE ReceiveRecord
    BY <1>5, ReceiveRecordInv
  <1>6. CASE ResetCache
    <2>1. EmptyRecord \in Record /\ EmptyRecord.clearanceOrder = 0
      BY RecordConstants DEF EmptyRecord, Record, Hash
    <2>2. TypeOK'
      BY <1>6, <2>1, RecordConstants DEF ResetCache, TypeOK
    <2>3. AnchoredCache' /\ DistinctOrders' /\ Asking' /\ Answered'
      BY <1>6, <2>1 DEF ResetCache, AnchoredCache, DistinctOrders, Asking,
                        Answered, Anchored
    <2> QED BY <2>2, <2>3
  <1>7. CASE Anchor
    <2>1. TypeOK'
      BY <1>7, RecordConstants DEF Anchor, TypeOK
    <2>2. \A q \in Record : Anchored(q) => Anchored(q)'
      BY <1>7, RecordConstants DEF Anchor, TypeOK, Anchored, Record
    <2>3. AnchoredCache' /\ Answered'
      BY <1>7, <2>2 DEF Anchor, TypeOK, AnchoredCache, Answered, Anchored, Record
    <2>4. DistinctOrders' /\ Asking'
      BY <1>7 DEF Anchor, DistinctOrders, Asking, Cached
    <2> QED BY <2>1, <2>3, <2>4
  <1>8. CASE Tick
    <2>1. TypeOK'
      BY <1>8, RecordConstants DEF Tick, TypeOK
    <2> QED BY <1>8, <2>1 DEF Tick, AnchoredCache, Anchored, DistinctOrders,
                              Asking, Answered, Cached
  <1>9. CASE UNCHANGED vars
    BY <1>9 DEF vars, TypeOK, AnchoredCache, Anchored, DistinctOrders, Asking,
                Answered, Cached
  <1> QED
    BY <1>1, <1>2, <1>3, <1>4, <1>5, <1>6, <1>7, <1>8, <1>9 DEF Next, CallStep

\* The invariant holds throughout.
LEMMA Invariant == Spec => []IInv
  BY InitInv, NextInv, PTL DEF Spec

\* The variables keep their types, and the retries stay within their limit.
THEOREM RecordTypeCorrect == Spec => []TypeOK
  <1>1. IInv => TypeOK
    BY DEF IInv
  <1> QED BY <1>1, Invariant, PTL

\* The cache holds what the contract holds: never a record asked for too
\* early, nor what a damaged answer left behind.
THEOREM CacheIsTrue == Spec => []CacheHoldsAnchoredRecords
  <1>1. IInv => CacheHoldsAnchoredRecords
    BY OnChainIsAnchored
    DEF IInv, TypeOK, AnchoredCache, CacheHoldsAnchoredRecords
  <1> QED BY <1>1, Invariant, PTL

\* No clearance order takes two slots of the cache.
THEOREM OrdersAreCachedOnce == Spec => []OneSlotPerOrder
  <1>1. ASSUME IInv, NEW co \in 1..MaxCO PROVE Cardinality(Cached(co)) <= 1
    <2>1. CASE Cached(co) = {}
      BY <2>1, FS_EmptySet
    <2>2. CASE Cached(co) # {}
      <3>1. PICK s \in Slots : Cached(co) = {s}
        BY <1>1, <2>2 DEF Cached, IInv, DistinctOrders
      <3> QED BY <3>1, FS_Singleton
    <2> QED BY <2>1, <2>2
  <1>2. IInv => OneSlotPerOrder
    BY <1>1 DEF OneSlotPerOrder
  <1> QED BY <1>2, Invariant, PTL

\* A record with a source is the contract's own.
THEOREM ReturnedIsGenuine == Spec => []ReturnedRecordIsGenuine
  <1>1. ASSUME IInv PROVE ReturnedRecordIsGenuine
    <2>1. clearanceRecord \in Record
      BY <1>1 DEF IInv, TypeOK
    <2> QED BY <1>1, <2>1, OnChainIsAnchored
            DEF IInv, Answered, ReturnedRecordIsGenuine
  <1> QED BY <1>1, Invariant, PTL

\* A record gives way only in a full cache, and only the stalest does.
THEOREM OnlyTheStalestGoes == Spec => EvictsTheStalest
  <1> DEFINE Goes(s) == cache[s].clearanceOrder # 0
                          /\ cache'[s] \notin {cache[s], EmptyRecord}
  <1>1. ASSUME IInv, [Next]_vars, NEW s \in Slots, Goes(s), NEW t \in Slots
        PROVE  cache[t].clearanceOrder # 0 /\ timestamp[s] <= timestamp[t]
    <2>1. ReceiveRecord
      BY <1>1 DEF Next, CallStep, Call, Lookup, NoRecord, DamagedRecord,
                  ResetCache, Anchor, Tick, vars
    <2>2. PICK u \in Slots :
            /\ cache' = [cache EXCEPT ![u] = OnChain(clearanceOrder)]
            /\ u \in Cached(0) \/ (Cached(0) = {} /\ Oldest(u))
      BY <1>1, <2>1, PlaceTakesASlot DEF ReceiveRecord
    <2>3. u = s
      BY <1>1, <2>2 DEF IInv, TypeOK
    <2>4. Cached(0) = {} /\ Oldest(s)
      BY <1>1, <2>2, <2>3 DEF Cached
    <2> QED BY <1>1, <2>4 DEF Oldest, Cached, IInv, TypeOK
  <1>2. IInv /\ [Next]_vars =>
          [\A s \in Slots :
             cache[s].clearanceOrder # 0 /\ cache'[s] \notin {cache[s], EmptyRecord} =>
               \A t \in Slots : /\ cache[t].clearanceOrder # 0
                                /\ timestamp[s] <= timestamp[t]]_vars
    BY <1>1
  <1> QED BY <1>2, Invariant, PTL DEF Spec, EvictsTheStalest
=============================================================================
