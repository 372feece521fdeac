------------------------------ MODULE Session ------------------------------
(***************************************************************************)
(* The life of one bns_client_t: bns_client_init() with its argument check, *)
(* its login and its request for the server's addresses, the setters,      *)
(* bns_client_enable_binary_ledger_input(), bns_relogin() and              *)
(* bns_client_free(), in any order a program may call them.  The HTTP      *)
(* client may lose an answer, the server may answer without an address and *)
(* may move to new addresses between two answers.                          *)
(*                                                                         *)
(* The four strings of bns_client_config_t that init duplicates and free   *)
(* releases together are one variable, named by the server URL.  The       *)
(* addresses of a server's answer are the server and its epoch; an address *)
(* that is an empty string, which the parser accepts, is not among the     *)
(* answers.                                                                *)
(***************************************************************************)
EXTENDS Naturals

CONSTANTS NULL,       \* a null pointer, or an address never written
          Server,     \* the servers whose URL a program may pass
          Counts,     \* the values a program passes to a setter
          MaxEpoch    \* bound: how often one server moves

ASSUME SessionAssumption ==
  /\ Counts \subseteq Nat
  /\ MaxEpoch \in Nat
  /\ NULL \notin Server
  /\ NULL \notin Nat
  /\ NULL \notin [server : Server, epoch : 0..MaxEpoch]

VARIABLES config,     \* bnsClient->config: the server's URL, or NULL
          setting,    \* the three counters, each a number or NULL
          info,       \* bnsClient->bnsServerInfo
          callback,   \* callbacks are registered
          postMulti,  \* httpClient.post_multi is set
          pc,         \* the call the program is in, and how far
          count,      \* the local variable count of bns_get_server_info()
          epoch,      \* the addresses each server has now
          chosen      \* history: what the program has set since the last free

client == <<config, setting, info, callback, postMulti>>
vars == <<config, setting, info, callback, postMulti, pc, count, epoch, chosen>>

Settings == {"verifyAfterLedgerInputCount", "maxRetryCount", "retryDelaySec"}

Default == [s \in Settings |->
              IF s = "verifyAfterLedgerInputCount" THEN 2 ELSE 5]

Unset == [s \in Settings |-> NULL]

Address == [server : Server, epoch : 0..MaxEpoch]

AddressOf(s) == [server |-> s, epoch |-> epoch[s]]

TypeOK ==
  /\ config \in Server \cup {NULL}
  /\ setting \in [Settings -> Nat \cup {NULL}]
  /\ info \in [wallet : Address \cup {NULL}, contract : Address \cup {NULL}]
  /\ callback \in BOOLEAN
  /\ postMulti \in BOOLEAN
  /\ pc \in {"idle", "login", "info", "asked", "relogin"}
  /\ count \in Nat
  /\ epoch \in [Server -> 0..MaxEpoch]
  /\ chosen \in [Settings -> Nat \cup {NULL}]

Init ==
  /\ config = NULL
  /\ setting = Unset
  /\ info = [wallet |-> NULL, contract |-> NULL]
  /\ callback = FALSE
  /\ postMulti = FALSE
  /\ pc = "idle"
  /\ count = 0
  /\ epoch = [s \in Server |-> 0]
  /\ chosen = Unset

-----------------------------------------------------------------------------
(* bns_client_free(): the strings and the three counters, nothing else.    *)

Release_KeepsConfig ==        \* a free that forgets the configuration
  /\ setting' = Unset
  /\ chosen' = Unset
  /\ UNCHANGED config

Release ==
  /\ config' = NULL
  /\ setting' = Unset
  /\ chosen' = Unset

Free ==
  /\ pc = "idle"
  /\ Release
  /\ UNCHANGED <<info, callback, postMulti, pc, count, epoch>>

-----------------------------------------------------------------------------
(* The setters and bns_client_enable_binary_ledger_input()                 *)

Set(s, n) ==
  /\ pc = "idle"
  /\ setting' = [setting EXCEPT ![s] = n]
  /\ chosen' = [chosen EXCEPT ![s] = n]
  /\ UNCHANGED <<config, info, callback, postMulti, pc, count, epoch>>

EnableBinaryLedgerInput ==
  /\ pc = "idle"
  /\ postMulti' = TRUE
  /\ UNCHANGED <<config, setting, info, callback, pc, count, epoch, chosen>>

-----------------------------------------------------------------------------
(* bns_client_init() up to its first message                               *)

\* check_init_args() refuses the arguments, and the client is freed.
InitRefused ==
  /\ pc = "idle"
  /\ Release
  /\ UNCHANGED <<info, callback, postMulti, pc, count, epoch>>

\* The callbacks are replaced only when some are passed, the HTTP client
\* with its post_multi always.
Install(withCallback, withMulti) ==
  /\ callback' = (callback \/ withCallback)
  /\ postMulti' = withMulti

\* The private key does not sign: the client is freed half configured.
InitKeyFails(withCallback, withMulti) ==
  /\ pc = "idle"
  /\ Install(withCallback, withMulti)
  /\ Release
  /\ UNCHANGED <<info, pc, count, epoch>>

WithDefaults_ForZero ==      \* tests the value instead of the pointer
  [s \in Settings |->
     IF setting[s] \in {NULL, 0} THEN Default[s] ELSE setting[s]]

WithDefaults ==
  [s \in Settings |-> IF setting[s] = NULL THEN Default[s] ELSE setting[s]]

InitBegins(s, withCallback, withMulti) ==
  /\ pc = "idle"
  /\ config' = s
  /\ Install(withCallback, withMulti)
  /\ setting' = WithDefaults
  /\ pc' = "login"
  /\ UNCHANGED <<info, count, epoch, chosen>>

-----------------------------------------------------------------------------
(* bns_relogin() and bns_login(): one request, no retry.                    *)

\* A program may log in again only on a configured client: bns_login() does
\* not check the URL.
Relogin ==
  /\ pc = "idle"
  /\ config # NULL
  /\ pc' = "relogin"
  /\ UNCHANGED <<client, count, epoch, chosen>>

LoginAnswer == {"lost", "noAddress", "otherAddress", "ownAddress"}

LoginAccepted(answer) == answer = "ownAddress"

ReloginReturns ==
  /\ pc = "relogin"
  /\ pc' = "idle"
  /\ UNCHANGED <<client, count, epoch, chosen>>

NeedsInfo_Always == TRUE      \* asks the server again whenever init is called

NeedsInfo == info.contract = NULL \/ info.wallet = NULL

InitLogin(answer) ==
  /\ pc = "login"
  /\ UNCHANGED <<info, callback, postMulti, epoch>>
  /\ \/ /\ ~LoginAccepted(answer)
        /\ Release
        /\ pc' = "idle"
        /\ UNCHANGED count
     \/ /\ LoginAccepted(answer)
        /\ pc' = IF NeedsInfo THEN "info" ELSE "idle"
        /\ count' = 0
        /\ UNCHANGED <<config, setting, chosen>>

-----------------------------------------------------------------------------
(* bns_get_server_info() with check_and_parse_bns_server_info_response()    *)

AskServerInfo_Restarts ==    \* the goto goes back to before count = 0
  /\ pc = "info"
  /\ pc' = "asked"
  /\ count' = 0
  /\ UNCHANGED <<client, epoch, chosen>>

\* bns_get_server_info_beg: every attempt, the retries too, asks again.
AskServerInfo ==
  /\ pc = "info"
  /\ pc' = "asked"
  /\ UNCHANGED <<client, count, epoch, chosen>>

InfoAnswer == {"lost", "noWallet", "noContract", "intact"}

InfoAccepted(answer) == answer = "intact"

\* The wallet address is written before the contract address is looked for.
Parsed(answer) ==
  CASE answer \in {"lost", "noWallet"} -> info
    [] answer = "noContract" -> [info EXCEPT !.wallet = AddressOf(config)]
    [] answer = "intact" -> [wallet   |-> AddressOf(config),
                             contract |-> AddressOf(config)]

RetryLeft ==
  setting["maxRetryCount"] # NULL /\ count < setting["maxRetryCount"]

CountRetry_Not == count       \* count++ lost

CountRetry_Down == count - 1  \* counts down, from zero

CountRetry == count + 1

InitInfo(answer) ==
  /\ pc = "asked"
  /\ info' = Parsed(answer)
  /\ UNCHANGED <<callback, postMulti, epoch>>
  /\ \/ /\ InfoAccepted(answer)
        /\ pc' = "idle"
        /\ count' = 0
        /\ UNCHANGED <<config, setting, chosen>>
     \/ /\ ~InfoAccepted(answer)
        /\ RetryLeft
        /\ count' = CountRetry
        /\ pc' = "info"
        /\ UNCHANGED <<config, setting, chosen>>
     \/ /\ ~InfoAccepted(answer)
        /\ ~RetryLeft
        /\ Release
        /\ pc' = "idle"
        /\ count' = 0

-----------------------------------------------------------------------------
(* The server is redeployed: another wallet, another contract.              *)

ServerMoves(s) ==
  /\ epoch[s] < MaxEpoch
  /\ epoch' = [epoch EXCEPT ![s] = @ + 1]
  /\ UNCHANGED <<client, pc, count, chosen>>

ProgramCalls ==
  \/ Free
  \/ \E s \in Settings, n \in Counts : Set(s, n)
  \/ EnableBinaryLedgerInput
  \/ InitRefused
  \/ \E c, m \in BOOLEAN : InitKeyFails(c, m)
  \/ \E s \in Server, c, m \in BOOLEAN : InitBegins(s, c, m)
  \/ Relogin

InitStep ==
  \/ AskServerInfo
  \/ \E answer \in LoginAnswer : InitLogin(answer)
  \/ \E answer \in InfoAnswer : InitInfo(answer)

Next ==
  \/ ProgramCalls
  \/ InitStep
  \/ ReloginReturns
  \/ \E s \in Server : ServerMoves(s)

\* A call in progress goes on: every request is answered or times out in the
\* HTTP client, and the program runs no other call of the client meanwhile.
Spec == Init /\ [][Next]_vars /\ WF_vars(InitStep) /\ WF_vars(ReloginReturns)

-----------------------------------------------------------------------------

Ready == pc = "idle" /\ config # NULL

\* A client that the calls accept (they test config.serverUrl and nothing
\* else) has all that they read: both addresses and the three counters,
\* whatever calls came before and whichever of them failed on the way.
ReadyIsComplete ==
  Ready => /\ info.wallet # NULL
           /\ info.contract # NULL
           /\ \A s \in Settings : setting[s] # NULL

\* The wallet that signs the receipts and the contract that holds their roots
\* come from the same answer of the server, though an answer without a
\* contract leaves its wallet behind and the next attempt, or the next init
\* with another server, finds it there.
InfoFromOneAnswer == info.contract # NULL => info.wallet = info.contract

\* A counter the program has set, zero included, is never replaced by the
\* default, and a counter it has not set since the last free has the default.
SettingsOfTheProgram ==
  Ready => \A s \in Settings :
             setting[s] = IF chosen[s] = NULL THEN Default[s] ELSE chosen[s]

\* Every init and every login comes to an end, however many answers are lost.
CallsReturn == (pc # "idle") ~> (pc = "idle")

\* The turns the loop of bns_get_server_info() may still take.
TurnsLeft == setting["maxRetryCount"] - count

\* What is left of a call at the most, in steps: a login, and a request and
\* its answer for each turn, the first one included.
StepsLeft ==
  CASE pc = "login"   -> 2 * setting["maxRetryCount"] + 3
    [] pc = "info"    -> 2 * TurnsLeft + 2
    [] pc = "asked"   -> 2 * TurnsLeft + 1
    [] pc = "relogin" -> 1
    [] OTHER          -> 0

\* Nothing that init does, and no answer, gives it back a step, and the
\* setting it reads in every turn is the one it began with: an init sends
\* at most maxRetryCount + 2 requests, and a move of the server, which may
\* come between any two of them, adds none.
InitRunsOut ==
  [][IF InitStep \/ ReloginReturns
       THEN StepsLeft' < StepsLeft
       ELSE pc # "idle" => StepsLeft' = StepsLeft]_vars
=============================================================================
