--------------------------- MODULE ReceiptFields ---------------------------
(***************************************************************************)
(* The lengths a receipt goes through: the index value key accepted at     *)
(* init, the locator built from it, the texts signed at login and at a     *)
(* ledger input, the receipt of the answer copied field by field into the  *)
(* arrays of a receipt_t, and the texts built from it for its signature    *)
(* and its digest.  A text is its length, a number of the answer its       *)
(* digits and its sign; a receipt_t is the bytes its fields occupy, in the *)
(* default build (timestamps are texts).                                   *)
(***************************************************************************)
EXTENDS Integers, Sequences

CONSTANTS CMD_LEN,              \* defined by the build, 1001 if not
          INDEX_VALUE_KEY_LEN,  \* defined by the build, 51 if not
          KeyLengths,           \* lengths of the keys passed to init
          CmdLengths,           \* lengths of the commands the program inputs
          SerialNumbers,        \* serial numbers of the server's locators
          ClearanceOrders,      \* clearance orders of the server's locators
          TextExcess,           \* what a text of an answer is longer than the
                                \* array it is copied into, negative if shorter
          NumberDigits          \* digits of the numbers of an answer

ADDRESS_0X_STR_LEN == 43
TIMESTAMP_STR_LEN == 20
METADATA_LEN == 3
RESULT_LEN == 6
HASH_STR_LEN == 65
SIG_V_STR_LEN == 3
MAX_CLEARANCE_COUNT_STR_LEN == 3   \* 3 : 0~999

INDEX_VALUE_LEN_NoSeparator == INDEX_VALUE_KEY_LEN + MAX_CLEARANCE_COUNT_STR_LEN

INDEX_VALUE_LEN == INDEX_VALUE_KEY_LEN + 2 + MAX_CLEARANCE_COUNT_STR_LEN

-----------------------------------------------------------------------------
(* receipt_t: its fields in the order of the structure, which is also the  *)
(* order they are parsed in, their sizes and where they start.             *)

Order == << "callerAddress", "timestamp", "cmd", "indexValue", "metadata",
            "clearanceOrder", "timestampSPO", "result",
            "clientR", "clientS", "clientV", "serverR", "serverS", "serverV" >>

Fields == {"callerAddress", "timestamp", "cmd", "indexValue", "metadata",
           "clearanceOrder", "timestampSPO", "result",
           "clientR", "clientS", "clientV", "serverR", "serverS", "serverV"}

Capacity(f) ==
  CASE f = "callerAddress" -> ADDRESS_0X_STR_LEN
    [] f \in {"timestamp", "timestampSPO"} -> TIMESTAMP_STR_LEN
    [] f = "cmd" -> CMD_LEN
    [] f = "indexValue" -> INDEX_VALUE_LEN
    [] f = "metadata" -> METADATA_LEN
    [] f = "clearanceOrder" -> 8
    [] f = "result" -> RESULT_LEN
    [] f \in {"clientR", "clientS", "serverR", "serverS"} -> HASH_STR_LEN
    [] f \in {"clientV", "serverV"} -> SIG_V_STR_LEN

MetadataEnd ==
  ADDRESS_0X_STR_LEN + TIMESTAMP_STR_LEN + CMD_LEN + INDEX_VALUE_LEN +
  METADATA_LEN

\* clearanceOrder is a long long, aligned to eight bytes.
Aligned(n) == n + ((-n) % 8)

Start(f) ==
  CASE f = "callerAddress" -> 0
    [] f = "timestamp" -> 43
    [] f = "cmd" -> 63
    [] f = "indexValue" -> 63 + CMD_LEN
    [] f = "metadata" -> 63 + CMD_LEN + INDEX_VALUE_LEN
    [] f = "clearanceOrder" -> Aligned(MetadataEnd)
    [] f = "timestampSPO" -> Aligned(MetadataEnd) + 8
    [] f = "result" -> Aligned(MetadataEnd) + 28
    [] f = "clientR" -> Aligned(MetadataEnd) + 34
    [] f = "clientS" -> Aligned(MetadataEnd) + 99
    [] f = "clientV" -> Aligned(MetadataEnd) + 164
    [] f = "serverR" -> Aligned(MetadataEnd) + 167
    [] f = "serverS" -> Aligned(MetadataEnd) + 232
    [] f = "serverV" -> Aligned(MetadataEnd) + 297

\* A metadata of three characters is accepted, and its terminator written
\* after the array.  In the default build that byte is padding.
ASSUME LayoutAssumption ==
  /\ CMD_LEN \in Nat \ {0}
  /\ INDEX_VALUE_KEY_LEN \in Nat \ {0}
  /\ MetadataEnd % 8 # 0

ASSUME InputAssumption ==
  /\ KeyLengths \subseteq Nat
  /\ CmdLengths \subseteq Nat
  /\ SerialNumbers \subseteq Int
  /\ ClearanceOrders \subseteq Int
  /\ TextExcess \subseteq Int
  /\ NumberDigits \subseteq 1..19    \* a long long has no more

-----------------------------------------------------------------------------
(* bns_digits() counts the digits and not the sign; sprintf() prints both. *)

Magnitude(n) == IF n < 0 THEN -n ELSE n

Digits_NoneForZero(n) ==    \* while (num != 0) instead of do ... while
  LET count[m \in Nat] == IF m = 0 THEN 0 ELSE 1 + count[m \div 10]
  IN  count[Magnitude(n)]

\* The turns of the loop, which divides by ten until nothing is left.
loopTurns[m \in Nat] == IF m < 10 THEN 1 ELSE 1 + loopTurns[m \div 10]

Digits(n) == loopTurns[Magnitude(n)]

\* What sprintf() prints: a sign, and d digits for a number below 10^d.
pow10[d \in Nat] == IF d = 0 THEN 1 ELSE 10 * pow10[d - 1]

HasDigits(m, d) == m < pow10[d] /\ (d > 1 => m >= pow10[d - 1])

Printed(n) ==
  (IF n < 0 THEN 1 ELSE 0) +
  CHOOSE d \in 1..(Magnitude(n) + 1) : HasDigits(Magnitude(n), d)

-----------------------------------------------------------------------------
VARIABLES pc,        \* the function the client is in
          key,       \* strlen(config.indexValueKey)
          locator,   \* the server's serial number and clearance order
          cmd,       \* strlen(cmdJson)
          genuine,   \* the answer repeats the request, as the server's does
          position,  \* the field of the answer that is parsed next
          length,    \* the characters copied into the fields so far
          sign,      \* those of them that are the sign of a negative number
          exitCode,
          built      \* the buffers written: bytes allocated, characters printed

vars ==
  <<pc, key, locator, cmd, genuine, position, length, sign, exitCode, built>>

Buffer(text, allocated, printed) ==
  [text |-> text, allocated |-> allocated, printed |-> printed]

TypeOK ==
  /\ pc \in {"init", "login", "locate", "sign", "parse", "texts", "done"}
  /\ key \in Nat
  /\ locator \in [sn : Int, clearanceOrder : Int]
  /\ cmd \in Nat
  /\ genuine \in BOOLEAN
  /\ position \in 1..(Len(Order) + 1)
  /\ length \in [Fields -> Nat]
  /\ sign \in [Fields -> {0, 1}]
  /\ exitCode \in {"OK", "KEY_LEN", "CO", "SN", "PARSE", "SIZE"}
  /\ pc \in {"sign", "parse", "texts"} =>   \* the locator was checked
       locator.sn >= 0 /\ locator.clearanceOrder > 0

Init ==
  /\ pc = "init"
  /\ key = 0
  /\ locator = [sn |-> 0, clearanceOrder |-> 0]
  /\ cmd = 0
  /\ genuine = FALSE
  /\ position = 1
  /\ length = [f \in Fields |-> 0]
  /\ sign = [f \in Fields |-> 0]
  /\ exitCode = "OK"
  /\ built = {}

Stop(code) == pc' = "done" /\ exitCode' = code

GoOn(next) == pc' = next /\ UNCHANGED exitCode

\* check_init_args(): the key is measured against the whole index value.
CheckInitArgs(k) ==
  /\ pc = "init"
  /\ key' = k
  /\ IF k >= INDEX_VALUE_LEN THEN Stop("KEY_LEN") ELSE GoOn("login")
  /\ UNCHANGED <<locator, cmd, genuine, position, length, sign, built>>

\* get_timestamp_string(): the ten digits of time(NULL), followed by 000.
TimestampLength == 13

\* The texts around the address are counted exactly and left out.
BuildLoginRequest ==
  /\ pc = "login"
  /\ built' = built \cup
       {Buffer("login", ADDRESS_0X_STR_LEN + 16,
               (ADDRESS_0X_STR_LEN - 1) + TimestampLength + 1)}
  /\ GoOn("locate")
  /\ UNCHANGED <<key, locator, cmd, genuine, position, length, sign>>

LocatorRefused_OnlyZero(l) == l.clearanceOrder = 0

LocatorRefused(l) == l.clearanceOrder <= 0 \/ l.sn < 0

IndexValueLength == key + 2 + Digits(locator.sn)

BuildReceiptLocator(l) ==
  /\ pc = "locate"
  /\ locator' = l
  /\ IF LocatorRefused(l)
       THEN /\ Stop(IF l.clearanceOrder <= 0 THEN "CO" ELSE "SN")
            /\ UNCHANGED built
       ELSE /\ built' = built \cup {Buffer("indexValue",
                                           key + 2 + Digits(l.sn) + 1,
                                           key + 2 + Printed(l.sn))}
            /\ GoOn("sign")
  /\ UNCHANGED <<key, cmd, genuine, position, length, sign>>

\* ledger_input_request_sign(); the request is posted, and answered by its
\* receipt or by another one.  The metadata of a request is empty.
LedgerInputRequestSign(c, g) ==
  /\ pc = "sign"
  /\ cmd' = c
  /\ genuine' = g
  /\ LET texts ==
           (ADDRESS_0X_STR_LEN - 1) + TimestampLength + c + IndexValueLength
     IN  built' = built \cup
           {Buffer("request", texts + Digits(locator.clearanceOrder) + 1,
                   texts + Printed(locator.clearanceOrder))}
  /\ GoOn("parse")
  /\ UNCHANGED <<key, locator, position, length, sign>>

-----------------------------------------------------------------------------
(* parse_receipt_from_cjson(), a field at a time                            *)

Form == {"missing", "text", "number"}

FormAccepted(f, form) ==
  CASE f = "clearanceOrder" -> form = "number"
    [] f \in {"timestamp", "timestampSPO"} -> form \in {"text", "number"}
    [] OTHER -> form = "text"

\* The receipt of a request has the texts and numbers of the request.
RequestLength(f) ==
  CASE f = "callerAddress" -> 42
    [] f \in {"timestamp", "timestampSPO"} -> TimestampLength
    [] f = "cmd" -> cmd
    [] f = "indexValue" -> IndexValueLength
    [] f \in {"metadata", "result"} -> 0
    [] f = "clearanceOrder" -> Digits(locator.clearanceOrder)
    [] f \in {"clientR", "clientS", "serverR", "serverS"} -> 64
    [] f \in {"clientV", "serverV"} -> 2

\* What the checks measure of an answer's field, the strlen() of a text and
\* the bns_digits() of a number ...
AnswerLength(f, form) ==
  CASE form = "missing" -> {0}
    [] form # "missing" /\ genuine -> {RequestLength(f)}
    [] form = "text" /\ ~genuine -> {Capacity(f) + e : e \in TextExcess}
    [] form = "number" /\ ~genuine -> NumberDigits

\* ... and the characters of its sign, which they do not measure.
AnswerSign(form) == IF form = "number" /\ ~genuine THEN {0, 1} ELSE {0}

TooLong_AtCapacity(f, n) == n > Capacity(f)   \* > for every field

TooLong(f, n) ==
  CASE f = "clearanceOrder" -> FALSE
    [] f = "metadata" -> n > METADATA_LEN
    [] OTHER -> n >= Capacity(f)

\* n is what the check measures; the copy, strcpy() of a text or sprintf() of
\* a number, writes the sign as well.
ParseField(form, n, sgn) ==
  LET f == Order[position] IN
  /\ pc = "parse"
  /\ \/ /\ ~FormAccepted(f, form)
        /\ Stop("PARSE")
        /\ UNCHANGED <<length, sign, position>>
     \/ /\ FormAccepted(f, form)
        /\ TooLong(f, n)
        /\ Stop("SIZE")
        /\ UNCHANGED <<length, sign, position>>
     \/ /\ FormAccepted(f, form)
        /\ ~TooLong(f, n)
        /\ length' = [length EXCEPT ![f] = n + sgn]
        /\ sign' = [sign EXCEPT ![f] = sgn]
        /\ position' = position + 1
        /\ GoOn(IF position = Len(Order) THEN "texts" ELSE "parse")
  /\ UNCHANGED <<key, locator, cmd, genuine, built>>

ParseNextField ==
  /\ position <= Len(Order)
  /\ \E form \in Form :
       \E n \in AnswerLength(Order[position], form), sgn \in AnswerSign(form) :
         n \in Nat /\ ParseField(form, n, sgn)

-----------------------------------------------------------------------------
(* receipt_first_part_to_sign_data(), receipt_to_sign_data() and            *)
(* receipt_to_digest_value(): the second part is a SHA-256 of 64 digits.    *)

\* strlen() of a field.  A timestamp that fills its array has its terminator
\* in the next one, which is copied over it and is read as its end.
Behind == [timestamp |-> "cmd", timestampSPO |-> "result"]

Strlen(f) ==
  IF f \in DOMAIN Behind /\ length[f] >= Capacity(f)
    THEN length[f] + length[Behind[f]]
    ELSE length[f]

HashLength == HASH_STR_LEN - 1

SecondPartLength ==
  length["callerAddress"] + Strlen("timestamp") + length["cmd"] +
  length["metadata"] + Strlen("timestampSPO") + length["result"] +
  length["clientR"] + length["clientS"] + length["clientV"]

ServerSigLength == length["serverR"] + length["serverS"] + length["serverV"]

\* The clearance order is the answer's: nothing compares it with the
\* locator's, and no check has looked at its sign.  What is written one byte
\* behind a buffer is taken not to disturb the program, which goes on.
BuildTexts ==
  /\ pc = "texts"
  /\ LET digits  == length["clearanceOrder"] - sign["clearanceOrder"]
         printed == length["indexValue"] + length["clearanceOrder"]
         \* sizes taken with strlen() of the text printed before
         signed  == printed + HashLength
     IN  built' = built \cup
           {Buffer("firstPart", length["indexValue"] + digits + 1, printed),
            Buffer("secondPart", SecondPartLength + 1, SecondPartLength),
            Buffer("signed", signed + 1, signed),
            Buffer("digest", signed + ServerSigLength + 1,
                   signed + ServerSigLength)}
  /\ pc' = "done"
  /\ UNCHANGED <<key, locator, cmd, genuine, position, length, sign, exitCode>>

Locators == [sn : SerialNumbers, clearanceOrder : ClearanceOrders]

Next ==
  \/ \E k \in KeyLengths : CheckInitArgs(k)
  \/ BuildLoginRequest
  \/ \E l \in Locators : BuildReceiptLocator(l)
  \/ \E c \in CmdLengths, g \in BOOLEAN : LedgerInputRequestSign(c, g)
  \/ ParseNextField
  \/ BuildTexts

Spec == Init /\ [][Next]_vars

-----------------------------------------------------------------------------

\* The bytes a field occupies, its terminator included.
Width(f) == IF f = "clearanceOrder" THEN 8 ELSE length[f] + 1

ReachesInto(f, g) ==
  /\ Start(f) < Start(g)
  /\ Start(f) + Width(f) > Start(g)

\* However far the parser has come, no field of a receipt reaches into
\* another one, and what is verified and stored later is what the answer
\* said, with one exception: the digits of a number are compared with the
\* size of the array and its sign is printed too, so that a negative
\* timestamp of 19 digits puts its terminator, and no more, into the next
\* field.  The server's receipt of the request has no negative number.
OnlyASignReachesFurther ==
  \A f, g \in Fields :
    ReachesInto(f, g) => /\ f \in {"timestamp", "timestampSPO"}
                         /\ sign[f] = 1
                         /\ Start(f) + length[f] = Start(g)
                         /\ ~genuine

\* The receipt of a request within the limits (a key shorter than
\* INDEX_VALUE_KEY_LEN, a serial number of at most 999, a command shorter
\* than CMD_LEN) is never refused for its size, after the server has
\* accepted the request.
GenuineReceiptIsParsed ==
  (/\ genuine
   /\ key < INDEX_VALUE_KEY_LEN
   /\ locator.sn <= 999
   /\ cmd < CMD_LEN) => exitCode # "SIZE"

\* A text fits the buffer that was counted for it, whatever numbers the
\* server's locator has, zero and negative ones included, with one
\* exception: the sign of the answer's clearance order is printed and not
\* counted, so that the terminator of the first part, and no more, falls
\* behind its buffer.  The server's receipt of the request has none.
OnlyTheSignOutgrows ==
  \A b \in built :
    \/ b.printed < b.allocated
    \/ /\ b.text = "firstPart"
       /\ sign["clearanceOrder"] = 1
       /\ b.printed = b.allocated
       /\ ~genuine
=============================================================================
