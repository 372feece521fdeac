# Verification of the BNS MCU client

TLA+ models, TLC runs and TLAPS proofs of the notary client in `src/src/bns-client`
and of the receipt DAO in `src/example/bns-client-example`. File and line numbers
below are those of the C sources.

## 1. The system

The client sends commands to a BNS server, which notarises each in an open
*clearance order* and answers with a signed *receipt*. When a clearance order is
closed, the server builds a merkle tree over its receipts and anchors the root hash
in an Ethereum contract. The client stores its receipts and later verifies each one
against the server's merkle proof and the contract's record. It is a single-threaded
C library: what is concurrent is the client on one side, and the network, the server
and the contract on the other.

| Component | State | Operations | What makes it correct |
|---|---|---|---|
| Ledger input (`bns_client.c`, `input/`) | locator, result, two retry counters | get locator, POST, resend, store, call back | stores and reports only its own genuine receipts; resends with a fresh locator; bounded duplicates; returns |
| Verification driver (`bns_client.c:324-450`) | the done clearance order, receipts left to verify | `verify_now`, `verify_by_done_co`, GET done clearance order | only anchored receipts are tried; each once |
| `verify()` (`verify/`, `util/slice_validation_util.c`) | merkle proof, clearance record, result flags | two fetches, six checks | passes exactly what the contract commits to |
| Clearance record and cache (`contract/`) | static array of 5 records with timestamps | lookup, `eth_call` with retries, insert, evict, reset | never stale, never empty, one slot per order |
| Receipt DAO (`receipt_dao.c`) | static array of `RECEIPT_CACHE_SIZE` pointers | save, find a page, delete, count | behaves like a bounded set; pages are exact |
| Receipt parser, digest, signature (`input/receipt.c`) | none | parse, check, digest | rejects what it cannot hold, and no receipt of a request within the limits; fields and texts stay in their arrays and buffers but for a sign |
| Session (`bns_client_init`, `login/`, `register/bns_server_info.c`) | config, counters, server info | init, login, relogin, get server info, setters, free | a client the calls accept is complete; both addresses come from one answer; settings survive |
| Binary ledger input (`input/binary_ledger_input.c`) | as ledger input | as ledger input, multipart, with a file URL in the answer | as ledger input |
| Example (`bns_client_example.c`, `callback.c`, `ssl_get.c`) | receipts, time of login, a curl handle | main loop, callbacks, HTTP | drops no receipt; never gets stuck on a full DAO |
| Registration (`register/register.c`) | none | builds a request nobody sends | |
| Utilities, hashes, signatures, exit codes, cJSON, secp256k1 | none | | |

They interact by plain calls: the client reaches the DAO, the HTTP client and the
callbacks through the function pointers of `receipt_dao_t`, `http_client_t` and
`bns_client_callback_t`. The hard behaviours are these: a POST is not idempotent
and is retried by two nested loops; a locator is read before it is used; an answer
can be lost, damaged or late; results are left over between tries; the DAO shifts an
array while looping over it; the record cache is consulted with a record of unknown
contents; the verification is a chain of checks each of which sees one link; init can
fail at six places, each of which frees what is there; the room in the DAO is tested many
steps before it is used; fields and buffers are sized by counts of digits and characters
that must agree with one another.
`PROJECT.json` lists these hazards at their lines, with the properties that watch
them.

## 2. Modules

| Module | Models | Notes |
|---|---|---|
| `NotaryServer` | server and contract, as the client's requests and parsers presuppose them | outside the repository; hands out locators, accepts a request only under the current locator, closes and anchors clearance orders |
| `BnsClient` | ledger input, binary ledger input and the verification driver | extends `NotaryServer`; one program counter, as the client is single threaded |
| `ReceiptLifecycle` | abstract: a receipt is issued, stored, settled, each once | implemented by `BnsClient` (`LifecycleSpec`) |
| `ReceiptDao`, `MCReceiptDao` | the array of `receipt_dao.c`, one loop turn per action | |
| `ReceiptStore` | abstract: the bounded set that `receipt_dao_t` promises, save and delete | implemented by `ReceiptDao` (`StoreSpec`) |
| `ClearanceRecord` | `contract_post_clearance_record()` and its cache | |
| `Verify`, `MCVerify` | `verify()`: fetches and six checks over a merkle tree | |
| `ClientExample` | the main loop of `bns_client_example.c` | extends `BnsClient`: composes the loop, the client, the server and the network |
| `Session` | the life of one `bns_client_t`: init, login, server info, setters, free | |
| `ReceiptFields`, `MCReceiptFields` | the lengths of keys, texts and receipt fields | |
| `*_proofs` | proofs: two modules for `BnsClient`, one for each of `ClientExample`, `Session`, `ReceiptFields`, `ReceiptDao`, `ClearanceRecord`, `Verify` | |

**`BnsClient`.** `pc` says where the call stands: `locate`
(`bns_get_receipt_locator`), `post`, `wait` and `parse` (`bns_post_ledger_input`),
`respond` (the callbacks), `doneCO` (`bns_get_done_clearance_order`), `verify`
(`bns_client_verify_by_done_co`). `retryCount` is the counter of the outer loop
(`bns_client.c:171`), `count` the one of the `goto` loop being executed. A command is
named by the call that sent it and an index value `<key>_R<sn>` by its serial number.
An answer is a code, a form of damage and a receipt. `ParsedReceipt` keeps what the
code keeps: `ledgerInputResult` is not reset between the inner tries, so an error
answer leaves an earlier answer's receipt there. `warn` answers go the way of `ok`
(`ledger_input.c:157`). `wire` is the POST the client is blocked on, `late` holds the
requests it has given up and the network has not. `rejected` and `settled` are
history variables that only properties read; `settled` records the receipts `verify()`
has been called on. The DAO is a set of receipts here, with the drop of a full array
(`receipt_dao.c:46`). `verify()` is one step of either outcome, restricted by
`VerifyMayPass`: a receipt passes if it is on the ledger and anchored. As every receipt
tried is both, by `StoredReceiptsAreGenuine` and `OnlyAnchoredAreVerified`, this takes
no outcome away.

Binary ledger inputs are the calls in `BinaryCalls`; `PostMulti` is the set of answers to
the question whether `post_multi` is set when one is called, both where the program may
set it at any time (`bns_client.c:148-155`). The two functions have the same loops, so
they share `BeginCall`, `Post` and `Receive`; a binary call is refused without `post_multi`
(`bns_client.c:243`), and its answer may lack the file URL, which is parsed last, after
the receipt (`binary_ledger_input.c:216-229`).

**`ClientExample`.** `main` is the place in the main loop; a call of the loop is a step of
`BnsClient` and the loop waits for its return. The hourly relogin changes nothing the
client keeps and its result is ignored. Lines 129-135 follow an endless loop and are
never reached. The program may end: any call that fails ends it.

**`Session`.** `pc` says where a call stands: `login`, `info` (before a request of the
server info) and `asked` (waiting for it) in `bns_client_init()`, `relogin` in
`bns_relogin()`. The four strings that init duplicates and free releases together are
`config`, named by the server's URL. An address is the server that gave it and that
server's `epoch`, so a mixture of two answers shows. `Parsed` writes field by field, as
`bns_server_info.c:96-107` does. `chosen` is a history variable: what the program has set
since the last free. A failed init is `Release`, whatever it had done so far; callbacks,
HTTP client and server info survive it, as they do in the code.

**`ReceiptFields`.** A text is its length. `Start` and `Width` lay out `receipt_t` as the C
ABI does, with the padding before the `long long`. One action per function of the way
from the key passed to init to the receipt's digest; `ParseField` is one turn of the
parser, with its type test, its size test and its copy. `Digits` is `bns_digits()`, the
turns of its loop (`loopTurns`), which counts no sign; `Printed` is what `sprintf()`
writes, defined without the loop: a number has `d` digits when it lies below the `d`-th
power of ten and not below the one before (`HasDigits`). An answer is the receipt of the
request (`genuine`) or one with lengths around every limit (`TextExcess`) and numbers of
either sign (`NumberDigits`, `AnswerSign`). What the size test measures (`AnswerLength`)
and what the copy writes (`length`) differ by the sign of a number (`sign`). The texts to
be signed are built with the clearance order of the answer, which nothing compares with
the locator's and whose sign no check has seen (`receipt.c:24`, `:258`). A timestamp that
fills its array loses its terminator to the next field, and is then read on into that
field (`Behind`, `Strlen`). A byte written behind an allocated buffer is undefined; the
model lets the program go on.

**`ReceiptDao`.** Receipts are their keys, which is all the DAO compares. A receipt
is saved only if its key, clearance order and index value, is not stored, which is what
`BnsClient!KeysIdentifyReceipts` says of the client. (The code would store it twice, and
`receipt_cache_delete()` would miss the second of two adjacent copies.) The inner
shifting loop is one action: nothing can come between its turns, and `ShiftIsPlain`
shows what it amounts to. A save over a full array returns without the receipt. What a
page should hold is stated by ranks: the `Rank` of a slot is the number of matching
receipts `Before` it, and the k-th of a page is the one whose rank is `First + k - 1`.

**`ClearanceRecord`.** A root hash is the clearance order it belongs to. A result that
does not parse leaves in the record what `contract.c:198-211` has written by then. The
record is not reset between tries. The clock has whole seconds (`time(NULL)`). The
node is trusted: a result that parses is the contract's own, since the client has no
means to tell. Clearance orders are positive, as those of all receipts the client
stores are (`StoredReceiptsAreGenuine`).

**`Verify`.** The tree is numbered from the root, the children of `n` being `2n` and
`2n + 1`; the hash of a node is the node, `Other` any hash that no node has. So SHA-256
is collision free, leaves differ in contents, and the digest of a receipt identifies
it. The server takes an index value once, so none occurs twice in a leaf
(`IndexValuesAreUsedOnce`). The six checks are actions in the code's order, the loop of
`eval_root_hash_from_slice()` is one action per level. The merkle proof is whatever the
server sends. `GenuineSlice` and `GenuineProof` say which one is the honest server's,
node by node up to the root; `MCVerify` computes them for its tree and has TLC check the
result against that definition (`SlicesAreGenuine`). The number of hashes need not be the
one the index calls for, as no check compares them: the climb follows the index, while the
last hash of the list, whether or not the climb has come to it, is compared with the
contract's root. A turn that reads behind the end of the list (`PastEnd`) is undefined:
it may be taken for a match or not, or stop the program. `VerifiedIsCommitted` names the
gap that is left, `RootNotReached`, and `VerifiedIsInTheTree`, which does not, is violated.

## 3. Runs

| Run | Question | States | Bounds |
|---|---|---|---|
| `client` | what is stored, resent, entered, reported, verified; that every call returns and how long it can last | 226,283 | 2 calls, the second a binary one that is made or refused, 2 clearance orders of 2 inputs, retry count 2, DAO of 2 |
| `client_retries` | violation: retries within the documented maximum | | |
| `client_delete` | violation: only verified receipts are deleted | | |
| `client_callback` | violation: reported results have a receipt | | |
| `dao` | the array, and that it implements `ReceiptStore` | 30,518 | 3 slots, 2 clearance orders, 2 index values, pages and page sizes up to 2 |
| `record` | the cache | 4,894 | 3 clearance orders, 2 slots, 1 retry, 3 seconds |
| `record_source` | violation: success has a source | | |
| `verify` | the chain of checks | 275,800 | 4 leaves, 5 receipts, altered proofs, lists that do not fit their index |
| `verify_tree` | violation: what passes is in the tree | | as `verify` |
| `example` | the main loop: nothing dropped, never stuck, stored receipts told apart by their keys | 87,941 | 3 calls, DAO of 2, retry count 2, 2 clearance orders of 3 inputs |
| `session` | what an initialised client has, that init ends and how long it can last | 100,116 | 2 servers that move twice, settings 0, 1 and the defaults |
| `fields` | lengths, limits and buffers | 186,734 | the default build, every text one below, at and above its array, numbers of 1 and 19 digits with and without a sign |

Why the bounds are enough. Two calls let a late request of the first meet the second;
two clearance orders give both resend errors and one anchored order; two inputs per
order let a duplicate and a foreign index value arise; a retry count of 2 enters both
loops again and ends them. Three slots have a first, a middle and a last one, so that
shifts from each occur, and 4 keys fill and overflow them. Two cache slots for three
orders force evictions, with equal timestamps and different ones. The tree of
four leaves has left and right leaves under left and right parents, a leaf with two
receipts, an empty one, and a receipt that was never signed; the proofs include those
for inner nodes and for the root, and with the indexes -1, 0, 1, 2, 4 and 7 lists of
one, two, three and five hashes, so that too short and too long ones meet every level
(`MisfitSlices`). `IndexSymmetry` is sound: index values are
only compared for equality and the `dao` run has no liveness property. The larger
instances are what the proofs are for.

In `example` three calls fill a DAO of two and need it emptied; three inputs per clearance
order leave room for the entries of resent commands. Two receipts of one key need three
calls as well: `KeysIdentifyReceipts` is checked here because the client tries to verify a
receipt, and deletes it, soon after it has stored it. In `session` two servers that move
twice can give two answers of one server and one of another to a single init with
retries; the setting 0 is the one a test of the value instead of the pointer would
mistake, and the retry counts 0, 1 and 5 take the loop none, once and all the way. In
`fields` the keys have 50 characters (the longest that leaves room for three digits), 51,
55 (the longest init accepts) and 56; commands have 1000 and 1001 characters; serial
numbers and clearance orders are negative, zero and on both sides of a new digit; the
numbers of an answer have the fewest and the most digits of a `long long`, of either sign.

Deadlock is checked in every run but two: in `example` the program ends, or stands still
where the model's bounds do (its last clearance order is never closed), and in `fields`
the computation comes to its end.

**Fairness.** `FairSpec` has weak fairness of `CallStep`, the steps of the call in
progress: the client is one thread that only blocks in the HTTP client, and there every
request ends with an answer or the 30 second timeout (`ssl_get.c:65`). Nothing is
assumed of the server or of the calls being made, and nothing of successes: every
answer may be lost. The delays between retries are left out. `Session!Spec` has the same
weak fairness of the steps of init and relogin, for the same reason. `ExampleFairSpec`
has it of the main loop and of the call in progress, and three assumptions of the other
side, without which verification cannot make room: an open clearance order is closed and
a closed one anchored in the end (weak fairness of the server's own jobs), and a GET of
the done clearance order that is repeated for ever is not lost or damaged for ever
(strong fairness, as each repetition is a new request). `CallsRunOut` and `InitRunsOut`
need no fairness: they bound the steps of a call, whoever takes them and whenever.

**What the violations show.** Each states a sentence of the documentation or a log
message of the code; see `findings` in `PROJECT.json`.

1. `RetriesWithinMaximum` (`doc/other_setting_en.md:19`): the retry count bounds each
   of two nested loops, not the retries of a ledger input.
2. `DeletedReceiptsWereVerified` (`doc/receiptDao_en.md:21`): a receipt is deleted when
   its proof or record could not even be fetched.
3. `ReportedResultsHaveReceipt` (`doc/callback_en.md:60`): the response callback also
   gets error results, whose `receipt` is null.
4. `SuccessHasASource` (`contract.c:126`): a damaged answer makes the retry return
   success without asking again.
5. `VerifiedIsInTheTree` (`doc/callback_en.md:28`): with more hashes than its index calls
   for, a slice passes whose climb has not come to the root that is compared with the
   contract's (`slice_validation_util.c:109`, `:142`).

## 4. Proofs

All theorems hold for every value of the constants that meets the `ASSUME`s
(`ServerBounds`, `ClientConstants`, `DaoConstants`, `VerifyConstants`: naturals where the
C types are unsigned, null pointers that are no receipts, leaves with distinct contents;
`IndexValuesAreUsedOnce`; `SessionAssumption`; `LayoutAssumption` and `InputAssumption`).
Every invariant of the passing runs is the property of a theorem, and so is every action
property.

**Client** (`BnsClient_proofs`). The properties are not inductive: that a stored receipt
is genuine depends on the answer being parsed, the answer on the request on the wire, the
request on the locator the call holds, and the freshness of that on the server moving
forward only. `ClientInv` adds what ties them together: a locator is `Dead` once the
server has gone past it, receipts and rejected locators are dead, every locator the
client holds was `Seen`, the answer being parsed belongs to the wire, and the clearance
order the client goes by is at most the anchored one. From it: `TypeCorrect`,
`StoredAreGenuine`, `ResendsAreFresh`, `ReportedIsOurs`, `VerifiedAreAnchored`, and the
refinement `LifecycleRefined`, step by step: accepting issues, saving stores, verifying
settles, and everything else stutters.

**Entries** (`BnsClient_entries_proofs`). `EntriesAreBounded` counts: the entries of a
command, plus one while a request of it that can still be accepted is outstanding, never
exceed the attempts that have got a locator. An attempt adds one live request at most,
and accepting one makes its locator dead for the copies, late ones included.

`KeysAreUnique` is what `ReceiptDao` takes for granted. `AcceptKeys` is its heart: the
server issues a receipt under its current locator only and makes that locator dead with
it, so no two issued receipts share a clearance order and an index value, and all stored
receipts are issued.

`CallsAreBounded` is the safety side of `EveryCallReturns`, for every retry count.
`StepsLeft` is an explicit number of steps; `count` is reset in the middle of a call, so
the lemmas show what pays for each reset: `ResendCosts` an attempt of the outer loop, the
others a locator received. A ledger input takes at most `MaxAttempts * 4 *
(MaxRetryCount + 1) + VerifyAfterLedgerInputCount + 2` steps (`StepsOfALedgerInput`), and
no other step, of the server, the network or another call, changes what is left. Of
`EveryCallReturns` only this remains for TLC: that a call in progress always has a step
to take, and takes it.

**DAO** (`ReceiptDao_proofs`). `DaoInv` is type correctness, `Compact`, `NoDuplicates`
and what the loops know of the slots behind them; with it `ShiftLeft` is a plain shift
that keeps all receipts but one, and a save finds a free slot exactly when the set has
room. `StoreImplemented` is the refinement of `ReceiptStore`. `PagesAreExact` rests on
`PageInv`: the matching receipts behind the loop are those skipped and those on the page,
`Rank(i) = currentOffset + Len(outputReceipt)`, and the page begins only when all of the
earlier pages have been skipped. The loop stops early at a full page or an empty slot;
`Compact` says that nothing matches behind the latter.

**Verification** (`Verify_proofs`). The climb goes from the leaf to the root while what
is known comes from the root, so the invariant `Chain` is an implication: if the node the
climb has come to is in its place in the list (`InPlace`), then so is the leaf it started
from. The root check supplies the premise, if the climb ends at the root; it does so when
the list has as many hashes as its index calls for, and otherwise where the hash at that
place happens to be the root. `VerifySound` follows, for trees of every size and
proofs with lists of any length: what passes is signed and committed to by the contract's
root, or the climb has ended elsewhere (`RootNotReached`). A turn that reads behind the
list leaves `Chain` intact, because no later node is then in its place.

`VerifyComplete` is the converse: a signed receipt of the tree passes when nothing on the
way is damaged. `HonestInv` says that then no check has failed and that the climb is on
the path from the leaf to the root (`OnPath`): after k turns `index` is the leaf's
ancestor k levels up. `NodeInPlace` finds that node at the left or the right of its pair
as the parity of `index` says; `GenuinePairs` needs `IndexValuesAreUsedOnce` to find the
receipt's own pair. With `VerifySound` the six checks are neither too
weak, but for the gap `RootNotReached`, nor too strong.

**Clearance record** (`ClearanceRecord_proofs`). `IInv` says that a cached record is an
anchored one's (`AnchoredCache`), that no order is in two slots (`DistinctOrders`), that a
call asks the contract only for an order the cache does not have (`Asking`, what makes
the blind insertion safe) and what a returned record is (`Answered`). From it:
`RecordTypeCorrect`, `CacheIsTrue`, `OrdersAreCachedOnce`, `ReturnedIsGenuine` and, as an
action property, `OnlyTheStalestGoes`.

**Example** (`ClientExample_proofs`). `ExampleUsesClient`: every behaviour of the program
is one of the client, so all theorems on the client hold in it. `NothingIsDropped` needs
`RoomIsKept`: from the test of the count to the save no step of the client, the network
or the server adds a receipt, so the room is still there.

**Session** (`Session_proofs`). `ReadyIsComplete` is not inductive. `IInv` adds
`InfoInOrder`, that a contract address is only there with a wallet address, with
`InfoFromOneAnswer` the heart of the matter: an answer without a contract overwrites the
wallet only while there is no contract, as `bns_client.c:129` asks again only then. It
also adds what every place in init has configured (`Configured`) and what has become of
the settings there (`SettingsKept`). `InitIsBounded` needs `CountInBounds`, that the
counter of a turn has not passed the retry count set by the program: a setter cannot
come between two turns of one init.

**Fields** (`ReceiptFields_proofs`). `LengthsFit` bounds every copied field by its array,
metadata by one more, and leaves the sign of a number to come on top; `SignsFit` says
that only the numbers of an answer that is not the request's receipt have one.
`FieldsStayApart` follows from them and the layout: only a signed timestamp can fill its
array, and it puts no more than its terminator into the next field. It holds for every
`CMD_LEN` and `INDEX_VALUE_KEY_LEN` under `LayoutAssumption`: the arrays up to `metadata`
do not end on a multiple of eight, so a byte of padding takes the terminator that
`receipt.c:245` lets slip. The default build meets it; one with `CMD_LEN` 1006 would not.

`TextsFit` compares two definitions of a number of digits, a loop and a bound by powers of
ten, for numbers of every size. tlapm cannot use the library's induction theorems, whose
hypotheses are operators, so the induction is done by hand: `LeastElement` (from the
well-foundedness of `<` on the naturals, for sets instead of predicates) gives a least
counterexample, `Recursion` that a function defined by recursion over the naturals exists
and obeys its equation. From these `LoopTurns` and `Pow10`, then `LoopTurnsCount`
(`loopTurns[m]` is the number of digits of `m`) and `DigitsUnique` (there is only one).
So what `bns_digits()` counts is what `sprintf()` prints of a number that is not negative
(`PrintedDigits`), and the locator's checks let no other one reach the index value and the
request: until the answer's texts are built, all fit (`AllFit`, `TextsInv`). Of the
answer's, the first part is one character too long when the clearance order has a sign
(`AnswerTexts`).
`GenuineIsParsed` needs of it that a serial number the checks let through has three
digits at the most (`ThreeDigits`).

Only model-checked: `EveryCallReturns`, `LoopGoesOn` and `CallsReturn`, as liveness under
fairness needs ENABLED, which is out of tlapm's reach, and the five properties of the
violation runs, which do not hold.

## 5. Not modelled

- Text: JSON, URLs, hex. Signatures, SHA-256 and Keccak are taken for correct and
  collision free; only their outcomes appear. Exit codes are told apart as far as the
  control flow does.
- Null arguments and allocation failures.
- Addresses that are empty strings, which `bns_server_info.c` accepts and init then asks
  for again; the build with `RECEIPT_TIMESTAMP_IS_LONG`.
- The example's callbacks, which log only, and its HTTP client, which is I/O: a failed
  transfer counts as the null answer its interface promises.
- Registration: `register.c` builds a request that nothing sends. `doc/callback_en.md`
  and `doc/summary_en.md` describe a registration at init that `bns_client_init()` does
  not make.

## 6. Plan

Done: the client with both kinds of ledger input, its life cycle, the DAO and its
abstract store, the clearance record, the verification, the main loop, the session and
the receipt's fields, with the proofs above.

Left, most useful first:

1. `ReceiptDao` in the place of the set in `BnsClient`, as a module: `KeysAreUnique` gives
   what the array assumes of its user, `StoreImplemented` and `PagesAreExact` what it
   promises, but no module runs the two side by side.
2. `ClearanceRecord` in the place of the one-step fetch of `Verify`, so that the
   record of a damaged answer meets the checks of `verify()`.
3. `Session` under `ClientExample`, with a relogin in between and a server that moves.
