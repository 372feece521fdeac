-------------------------- MODULE Session_proofs --------------------------
(***************************************************************************)
(* Proofs about the life of a bns_client_t, for every set of servers, every *)
(* setting the program may choose and any number of server moves.          *)
(***************************************************************************)
EXTENDS Session, TLAPS

\* The wallet is never the address that is missing alone, and the server is
\* asked only while the contract is unknown: so no answer can be mixed with
\* an earlier one.
InfoInOrder ==
  /\ info.wallet = NULL => info.contract = NULL
  /\ pc \in {"info", "asked"} => info.contract = NULL

\* A client in a call is configured, and outside init it knows its contract.
Configured ==
  /\ pc # "idle" => config # NULL
  /\ config # NULL /\ pc \in {"idle", "relogin"} => info.contract # NULL

\* A counter is the program's or a default, and a configured client has all.
SettingsKept ==
  /\ \A s \in Settings : \/ setting[s] = chosen[s]
                         \/ chosen[s] = NULL /\ setting[s] = Default[s]
  /\ config # NULL => \A s \in Settings : setting[s] # NULL

IInv == TypeOK /\ InfoInOrder /\ InfoFromOneAnswer /\ Configured /\ SettingsKept

\* Every default is a number.
LEMMA DefaultIsNat == \A s \in Settings : Default[s] \in Nat
  BY DEF Settings, Default

\* An address of a server is not a null pointer.
LEMMA AddressIsNotNull ==
  ASSUME TypeOK, NEW s \in Server
  PROVE  AddressOf(s) \in Address /\ AddressOf(s) # NULL
  BY SessionAssumption DEF AddressOf, Address, TypeOK

\* The first state satisfies the invariant.
LEMMA InitInv == Init => IInv
  <1> SUFFICES ASSUME Init PROVE IInv
    OBVIOUS
  <1>1. Unset \in [Settings -> Nat \cup {NULL}]
    BY DEF Unset
  <1>2. epoch \in [Server -> 0..MaxEpoch]
    BY SessionAssumption DEF Init
  <1>3. info = [wallet |-> NULL, contract |-> NULL]
    BY DEF Init
  <1>4. TypeOK
    <2>1. callback \in BOOLEAN /\ postMulti \in BOOLEAN /\ count \in Nat
      BY DEF Init
    <2>2. info \in [wallet : Address \cup {NULL}, contract : Address \cup {NULL}]
      BY <1>3
    <2>3. /\ config \in Server \cup {NULL}
          /\ pc \in {"idle", "login", "info", "asked", "relogin"}
      BY DEF Init
    <2>4. setting \in [Settings -> Nat \cup {NULL}]
      BY <1>1 DEF Init
    <2>5. chosen \in [Settings -> Nat \cup {NULL}]
      BY <1>1 DEF Init
    <2> QED BY <1>2, <2>1, <2>2, <2>3, <2>4, <2>5 DEF TypeOK
  <1>5. InfoInOrder /\ InfoFromOneAnswer /\ Configured
    BY <1>3 DEF Init, InfoInOrder, InfoFromOneAnswer, Configured
  <1>6. SettingsKept
    BY DEF Init, SettingsKept, Unset
  <1> QED BY <1>4, <1>5, <1>6 DEF IInv

\* A released client whose addresses are as they were satisfies it, at rest.
LEMMA ReleaseInv ==
  ASSUME IInv, Release, pc' = "idle", count' \in Nat,
         info'.wallet = info'.contract \/ info'.contract = NULL,
         info' \in [wallet : Address \cup {NULL}, contract : Address \cup {NULL}],
         callback' \in BOOLEAN, postMulti' \in BOOLEAN, epoch' = epoch
  PROVE  IInv'
  <1>1. TypeOK'
    BY DEF IInv, Release, TypeOK, Unset
  <1>2. InfoInOrder' /\ InfoFromOneAnswer' /\ Configured'
    BY DEF Release, InfoInOrder, InfoFromOneAnswer, Configured
  <1>3. SettingsKept'
    BY DEF Release, SettingsKept, Unset
  <1> QED BY <1>1, <1>2, <1>3 DEF IInv

\* Setting a counter keeps it.
LEMMA SetInv ==
  ASSUME IInv, NEW s \in Settings, NEW n \in Counts, Set(s, n)
  PROVE  IInv'
  <1>1. n \in Nat /\ n # NULL
    BY SessionAssumption
  <1>2. TypeOK'
    BY <1>1 DEF IInv, Set, TypeOK
  <1>3. InfoInOrder' /\ InfoFromOneAnswer' /\ Configured'
    BY DEF IInv, Set, InfoInOrder, InfoFromOneAnswer, Configured
  <1>4. SettingsKept'
    BY <1>1 DEF IInv, Set, SettingsKept, TypeOK
  <1> QED BY <1>2, <1>3, <1>4 DEF IInv

\* Starting an init keeps it.
LEMMA InitBeginsInv ==
  ASSUME IInv, NEW s \in Server, NEW c \in BOOLEAN, NEW m \in BOOLEAN,
         InitBegins(s, c, m)
  PROVE  IInv'
  <1>1. \A k \in Settings : WithDefaults[k] \in Nat /\ WithDefaults[k] # NULL
    BY DefaultIsNat, SessionAssumption DEF IInv, TypeOK, WithDefaults
  <1>2. TypeOK'
    BY <1>1 DEF IInv, InitBegins, Install, TypeOK, WithDefaults
  <1>3. InfoInOrder' /\ InfoFromOneAnswer'
    BY DEF IInv, InitBegins, InfoInOrder, InfoFromOneAnswer
  <1>4. Configured'
    BY SessionAssumption DEF InitBegins, Configured
  <1>5. SettingsKept'
    BY <1>1 DEF IInv, InitBegins, SettingsKept, WithDefaults
  <1> QED BY <1>2, <1>3, <1>4, <1>5 DEF IInv

\* The login of an init keeps it, accepted or not.
LEMMA InitLoginInv ==
  ASSUME IInv, NEW answer \in LoginAnswer, InitLogin(answer)
  PROVE  IInv'
  <1>1. CASE Release /\ pc' = "idle" /\ UNCHANGED count
    BY <1>1, ReleaseInv
    DEF IInv, InitLogin, TypeOK, InfoFromOneAnswer
  <1>2. CASE /\ pc' = IF NeedsInfo THEN "info" ELSE "idle"
             /\ count' = 0
             /\ UNCHANGED <<config, setting, chosen>>
    <2>1. TypeOK' /\ InfoFromOneAnswer' /\ SettingsKept'
      BY <1>2 DEF IInv, InitLogin, TypeOK, InfoFromOneAnswer, SettingsKept
    <2>2. InfoInOrder' /\ Configured'
      BY <1>2 DEF IInv, InitLogin, NeedsInfo, InfoInOrder, Configured
    <2> QED BY <2>1, <2>2 DEF IInv
  <1> QED BY <1>1, <1>2 DEF InitLogin

\* What an answer leaves in the info of a client that knows no contract.
LEMMA ParsedInfo ==
  ASSUME IInv, pc = "asked", NEW answer \in InfoAnswer
  PROVE  /\ Parsed(answer) \in [wallet   : Address \cup {NULL},
                                contract : Address \cup {NULL}]
         /\ IF InfoAccepted(answer)
              THEN /\ Parsed(answer).wallet # NULL
                   /\ Parsed(answer).contract = Parsed(answer).wallet
              ELSE Parsed(answer).contract = NULL
  <1>1. config \in Server /\ info.contract = NULL
    BY DEF IInv, TypeOK, Configured, InfoInOrder
  <1>2. AddressOf(config) \in Address /\ AddressOf(config) # NULL
    BY <1>1, AddressIsNotNull DEF IInv
  <1>3. CASE answer \in {"lost", "noWallet"}
    BY <1>1, <1>3 DEF Parsed, InfoAccepted, IInv, TypeOK
  <1>4. CASE answer = "noContract"
    BY <1>1, <1>2, <1>4 DEF Parsed, InfoAccepted, IInv, TypeOK
  <1>5. CASE answer = "intact"
    BY <1>2, <1>5 DEF Parsed, InfoAccepted
  <1> QED BY <1>3, <1>4, <1>5 DEF InfoAnswer

\* The answer to the request for the addresses keeps it: accepted, asked
\* again, or given up.
LEMMA InitInfoInv ==
  ASSUME IInv, NEW answer \in InfoAnswer, InitInfo(answer)
  PROVE  IInv'
  <1>1. pc = "asked" /\ info' = Parsed(answer)
    BY DEF InitInfo
  <1> DEFINE Kept == UNCHANGED <<config, setting, chosen>>
  <1>2. CASE InfoAccepted(answer) /\ pc' = "idle" /\ count' = 0 /\ Kept
    <2>1. TypeOK' /\ SettingsKept'
      BY <1>1, <1>2, ParsedInfo DEF IInv, InitInfo, TypeOK, SettingsKept
    <2>2. InfoInOrder' /\ InfoFromOneAnswer' /\ Configured'
      BY <1>1, <1>2, ParsedInfo DEF InfoInOrder, InfoFromOneAnswer, Configured
    <2> QED BY <2>1, <2>2 DEF IInv
  <1>3. CASE ~InfoAccepted(answer) /\ count' = CountRetry /\ pc' = "info" /\ Kept
    <2>1. TypeOK' /\ SettingsKept'
      BY <1>1, <1>3, ParsedInfo
      DEF IInv, InitInfo, TypeOK, SettingsKept, CountRetry
    <2>2. InfoInOrder' /\ InfoFromOneAnswer'
      BY <1>1, <1>3, ParsedInfo DEF InfoInOrder, InfoFromOneAnswer
    <2>3. Configured'
      BY <1>1, <1>3 DEF IInv, Configured
    <2> QED BY <2>1, <2>2, <2>3 DEF IInv
  <1>4. CASE ~InfoAccepted(answer) /\ Release /\ pc' = "idle" /\ count' = 0
    BY <1>1, <1>4, ParsedInfo, ReleaseInv DEF IInv, InitInfo, TypeOK
  <1> QED BY <1>2, <1>3, <1>4 DEF InitInfo

\* Every step keeps the invariant.
LEMMA NextInv == IInv /\ [Next]_vars => IInv'
  <1> SUFFICES ASSUME IInv, [Next]_vars PROVE IInv'
    OBVIOUS
  <1>1. CASE Free
    BY <1>1, ReleaseInv DEF Free, IInv, TypeOK, InfoFromOneAnswer
  <1>2. ASSUME NEW s \in Settings, NEW n \in Counts, Set(s, n) PROVE IInv'
    BY <1>2, SetInv
  <1>3. CASE EnableBinaryLedgerInput
    BY <1>3 DEF EnableBinaryLedgerInput, IInv, TypeOK, InfoInOrder,
                InfoFromOneAnswer, Configured, SettingsKept
  <1>4. CASE InitRefused
    BY <1>4, ReleaseInv DEF InitRefused, IInv, TypeOK, InfoFromOneAnswer
  <1>5. ASSUME NEW c \in BOOLEAN, NEW m \in BOOLEAN, InitKeyFails(c, m)
        PROVE  IInv'
    BY <1>5, ReleaseInv
    DEF InitKeyFails, Install, IInv, TypeOK, InfoFromOneAnswer
  <1>6. ASSUME NEW s \in Server, NEW c \in BOOLEAN, NEW m \in BOOLEAN,
               InitBegins(s, c, m)
        PROVE  IInv'
    BY <1>6, InitBeginsInv
  <1>7. CASE Relogin \/ ReloginReturns
    BY <1>7 DEF Relogin, ReloginReturns, client, IInv, TypeOK, InfoInOrder,
                InfoFromOneAnswer, Configured, SettingsKept
  <1>8. CASE AskServerInfo
    BY <1>8 DEF AskServerInfo, client, IInv, TypeOK, InfoInOrder,
                InfoFromOneAnswer, Configured, SettingsKept
  <1>9. ASSUME NEW answer \in LoginAnswer, InitLogin(answer) PROVE IInv'
    BY <1>9, InitLoginInv
  <1>10. ASSUME NEW answer \in InfoAnswer, InitInfo(answer) PROVE IInv'
    BY <1>10, InitInfoInv
  <1>11. ASSUME NEW s \in Server, ServerMoves(s) PROVE IInv'
    <2>1. TypeOK'
      BY <1>11, SessionAssumption DEF ServerMoves, client, IInv, TypeOK
    <2> QED BY <1>11, <2>1 DEF ServerMoves, client, IInv, InfoInOrder,
                               InfoFromOneAnswer, Configured, SettingsKept
  <1>12. CASE UNCHANGED vars
    BY <1>12 DEF vars, IInv, TypeOK, InfoInOrder, InfoFromOneAnswer,
                 Configured, SettingsKept
  <1> QED
    BY <1>1, <1>2, <1>3, <1>4, <1>5, <1>6, <1>7, <1>8, <1>9, <1>10, <1>11, <1>12
    DEF Next, ProgramCalls, InitStep

\* The invariant holds in every state of every program that uses a client.
LEMMA Invariant == Spec => []IInv
  BY InitInv, NextInv, PTL DEF Spec

\* The variables of a client keep their types.
THEOREM SessionTypeCorrect == Spec => []TypeOK
  <1>1. IInv => TypeOK
    BY DEF IInv
  <1> QED BY <1>1, Invariant, PTL

\* The wallet and the contract a client trusts are of one answer of one
\* server, whatever was lost, incomplete or asked of another server before.
THEOREM AddressesAreOfOneAnswer == Spec => []InfoFromOneAnswer
  <1>1. IInv => InfoFromOneAnswer
    BY DEF IInv
  <1> QED BY <1>1, Invariant, PTL

\* A client the calls accept has both addresses and its three counters.
THEOREM ReadyClientIsComplete == Spec => []ReadyIsComplete
  <1>1. IInv => ReadyIsComplete
    BY DEF IInv, InfoInOrder, Configured, SettingsKept, Ready, ReadyIsComplete
  <1> QED BY <1>1, Invariant, PTL

\* The counters of a configured client are the program's, or the defaults.
THEOREM SettingsAreKept == Spec => []SettingsOfTheProgram
  <1>1. IInv => SettingsOfTheProgram
    BY DEF IInv, SettingsKept, Ready, SettingsOfTheProgram
  <1> QED BY <1>1, Invariant, PTL

-----------------------------------------------------------------------------
\* The loop of bns_get_server_info() has not gone past its last turn.
CountInBounds == pc \in {"info", "asked"} => count <= setting["maxRetryCount"]

\* In a call, the setting that bounds the loop is a number.
LEMMA BoundIsNat ==
  ASSUME IInv, pc # "idle"
  PROVE  setting["maxRetryCount"] \in Nat /\ count \in Nat
  BY DEF IInv, TypeOK, Configured, SettingsKept, Settings

\* It holds at the start, and a turn is begun only if one is left.
LEMMA CountInBoundsInit == Init => CountInBounds
  BY DEF Init, CountInBounds

LEMMA CountInBoundsStep == IInv /\ CountInBounds /\ [Next]_vars => CountInBounds'
  <1> SUFFICES ASSUME IInv, CountInBounds, [Next]_vars, pc' \in {"info", "asked"}
               PROVE  count' <= setting'["maxRetryCount"]
    BY DEF CountInBounds
  <1>1. CASE ProgramCalls \/ ReloginReturns
    BY <1>1
    DEF ProgramCalls, ReloginReturns, Free, Set, EnableBinaryLedgerInput,
        InitRefused, InitKeyFails, InitBegins, Relogin
  <1>2. CASE AskServerInfo \/ (\E s \in Server : ServerMoves(s)) \/ UNCHANGED vars
    BY <1>2 DEF AskServerInfo, ServerMoves, client, vars, CountInBounds
  <1>3. ASSUME NEW answer \in LoginAnswer, InitLogin(answer)
        PROVE  count' <= setting'["maxRetryCount"]
    BY <1>3, BoundIsNat DEF InitLogin
  <1>4. ASSUME NEW answer \in InfoAnswer, InitInfo(answer)
        PROVE  count' <= setting'["maxRetryCount"]
    BY <1>4, BoundIsNat DEF InitInfo, RetryLeft, CountRetry
  <1> QED BY <1>1, <1>2, <1>3, <1>4 DEF Next, InitStep

LEMMA Bounded == Spec => []CountInBounds
  BY Invariant, CountInBoundsInit, CountInBoundsStep, PTL DEF Spec

\* What is left is a number of steps, and none only between the calls.
LEMMA StepsLeftType ==
  ASSUME IInv, CountInBounds
  PROVE  StepsLeft \in Nat /\ (StepsLeft = 0 <=> pc = "idle")
  <1>1. CASE pc = "idle"
    BY <1>1 DEF StepsLeft
  <1>2. CASE pc # "idle"
    <2>1. pc \in {"login", "info", "asked", "relogin"}
      BY <1>2 DEF IInv, TypeOK
    <2> QED BY <1>2, <2>1, BoundIsNat DEF CountInBounds, StepsLeft, TurnsLeft
  <1> QED BY <1>1, <1>2

\* A call that ends has nothing left.
LEMMA EndRunsOut ==
  ASSUME IInv, CountInBounds, pc # "idle", pc' = "idle"
  PROVE  StepsLeft' < StepsLeft
  <1>1. StepsLeft' = 0
    BY DEF StepsLeft
  <1> QED BY <1>1, StepsLeftType

\* Every step of init and of a login costs a step at least.
LEMMA InitStepRunsOut ==
  ASSUME IInv, CountInBounds, InitStep \/ ReloginReturns
  PROVE  StepsLeft' < StepsLeft
  <1>1. CASE ReloginReturns
    BY <1>1, EndRunsOut DEF ReloginReturns
  <1>2. CASE AskServerInfo
    BY <1>2, BoundIsNat DEF AskServerInfo, client, StepsLeft, TurnsLeft
  <1>3. ASSUME NEW answer \in LoginAnswer, InitLogin(answer)
        PROVE  StepsLeft' < StepsLeft
    <2>1. CASE pc' = "idle"
      BY <1>3, <2>1, EndRunsOut DEF InitLogin
    <2>2. CASE pc' = "info" /\ count' = 0 /\ setting' = setting
      BY <1>3, <2>2, BoundIsNat DEF InitLogin, StepsLeft, TurnsLeft
    <2> QED BY <1>3, <2>1, <2>2 DEF InitLogin
  <1>4. ASSUME NEW answer \in InfoAnswer, InitInfo(answer)
        PROVE  StepsLeft' < StepsLeft
    <2>1. CASE pc' = "idle"
      BY <1>4, <2>1, EndRunsOut DEF InitInfo
    <2>2. CASE pc' = "info" /\ count' = count + 1 /\ setting' = setting
      BY <1>4, <2>2, BoundIsNat DEF InitInfo, StepsLeft, TurnsLeft
    <2> QED BY <1>4, <2>1, <2>2 DEF InitInfo, CountRetry
  <1> QED BY <1>1, <1>2, <1>3, <1>4 DEF InitStep

\* The server's moves leave a call what it had.
LEMMA OthersTakeNothing ==
  ASSUME [Next]_vars, ~(InitStep \/ ReloginReturns), pc # "idle"
  PROVE  StepsLeft' = StepsLeft
  <1>1. ~ProgramCalls
    BY DEF ProgramCalls, Free, Set, EnableBinaryLedgerInput, InitRefused,
           InitKeyFails, InitBegins, Relogin
  <1>2. UNCHANGED <<setting, pc, count>>
    BY <1>1 DEF Next, ServerMoves, client, vars
  <1> QED BY <1>2 DEF StepsLeft, TurnsLeft

\* Whatever maxRetryCount the program has set, bns_client_init() and
\* bns_relogin() have only so many steps, and every one of them uses one up.
THEOREM InitIsBounded == Spec => InitRunsOut
  <1>1. IInv /\ CountInBounds /\ [Next]_vars =>
          [IF InitStep \/ ReloginReturns
             THEN StepsLeft' < StepsLeft
             ELSE pc # "idle" => StepsLeft' = StepsLeft]_vars
    BY InitStepRunsOut, OthersTakeNothing
  <1> QED BY <1>1, Invariant, Bounded, PTL DEF Spec, InitRunsOut
=============================================================================
