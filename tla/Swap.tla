-------------------------------- MODULE Swap --------------------------------
(***************************************************************************)
(* The application as the library of the Exchange application (swap/*.c    *)
(* and the HAVE_SWAP parts of handler/sign_tx.c and app_main.c).           *)
(*                                                                         *)
(* Exchange shows its user an amount, a fee and an address; the texts come *)
(* from swap_handle_get_printable_amount.  It then hands the parameters of *)
(* the deal to swap_copy_transaction_parameters and the application runs   *)
(* its APDU loop without any page of its own: a transaction is signed when *)
(* it equals what was copied, and the application returns to Exchange.     *)
(*                                                                         *)
(* The globals are not cleared when the application is entered as a        *)
(* library, so they keep here what an earlier session left.                *)
(***************************************************************************)
EXTENDS Integers, Sequences

CONSTANTS
  NULL,                    \* a null pointer
  Radix, U64_LEN,          \* values of a byte, bytes of a uint64_t
  ADDRESS_LEN,             \* bytes of an address
  EXPONENT_SMALLEST_UNIT,  \* decimals of BOL
  MAX_FPU_DECIMALS,        \* decimals format_fpu64 has room for in formatted_amount
  Malformed,               \* a coin configuration swap_parse_config refuses
  Destinations,            \* destination_address: texts, or NULL
  Amounts, Fees,           \* amount and fee_amount: big-endian bytes, or NULL
  Tickers,                 \* of coins
  Configs,                 \* coin_configuration: [ticker, decimals], Malformed or NULL
  Values, Addresses,       \* the values and the recipients of transactions
  Paths,                   \* BIP32 paths
  TruncatedPath,           \* path data that buffer_read_bip32_path refuses
  AddressOf                \* address of the public key of a path on CX_CURVE_256K1

Bytes == 0..(Radix - 1)
HexDigits == [1..(2 * ADDRESS_LEN) -> 0..15]      \* an address, a digit at a time

ASSUME SwapAssumption ==
  /\ Radix \in Nat \ {0} /\ U64_LEN \in Nat /\ ADDRESS_LEN \in Nat
  /\ EXPONENT_SMALLEST_UNIT \in Nat /\ MAX_FPU_DECIMALS \in Nat
  /\ EXPONENT_SMALLEST_UNIT <= MAX_FPU_DECIMALS
  /\ Destinations \subseteq Seq(Nat) \cup {NULL} /\ NULL \notin Seq(Nat)
  /\ Amounts \subseteq Seq(Bytes) \cup {NULL} /\ Fees \subseteq Seq(Bytes) \cup {NULL}
  /\ Malformed # NULL /\ "BOL" \in Tickers
  /\ Configs \subseteq [ticker : Tickers, decimals : Nat] \cup {Malformed, NULL}
  /\ Values \subseteq Nat /\ Addresses \subseteq HexDigits
  /\ TruncatedPath \notin Paths
  /\ AddressOf \in [Paths -> HexDigits]

VARIABLES
  deal,                    \* the parameters Exchange holds, NULL when there is none
  shown,                   \* the texts it was given for amount and fee, NULL before
  checked,                 \* the last address check: its text, its path, its result
  G_called_from_swap,      \* the application is in the loop of a swap session
  G_swap_validated,
  G_swap_response_ready,
  answer,                  \* what the session returned to Exchange
  signed                   \* what was signed in the session, for which deal and texts

vars == <<deal, shown, checked, G_called_from_swap, G_swap_validated,
          G_swap_response_ready, answer, signed>>
session == <<G_called_from_swap, G_swap_validated, G_swap_response_ready, answer, signed>>

Deals == [destination : Destinations, amount : Amounts, fee : Fees, config : Configs]

-----------------------------------------------------------------------------
(* Conversions.  Characters are their ASCII codes.                         *)

\* Hexadecimal text, capital letters (outside src/).
format_hex(digits) ==
  [i \in DOMAIN digits |-> IF digits[i] < 10 THEN 48 + digits[i] ELSE 55 + digits[i]]

UpperCase(text) ==
  [i \in DOMAIN text |-> IF text[i] \in 97..122 THEN text[i] - 97 + 65 ELSE text[i]]

\* Big-endian, leading zeros allowed; a null pointer comes with length 0 (outside src/).
BigEndian(bytes) ==
  LET value[i \in 0..Len(bytes)] ==
        IF i = 0 THEN 0 ELSE value[i - 1] * Radix + bytes[i]
  IN  value[Len(bytes)]
BytesOf(bytes) == IF bytes = NULL THEN << >> ELSE bytes

\* Mutant: the length is not checked.
FitsU64_unchecked(bytes) == TRUE

FitsU64(bytes) == Len(BytesOf(bytes)) <= U64_LEN
swap_str_to_u64(bytes) == BigEndian(BytesOf(bytes))

\* The coin a configuration names: none means the native coin.
Native == [ticker |-> "BOL", decimals |-> EXPONENT_SMALLEST_UNIT]
CoinOf(config) == IF config = NULL THEN Native ELSE config

\* "%s %s" of the formatted number and the ticker.  The result of format_fpu64 is not
\* looked at: a number it has no room for is missing from the text.  How much room a number
\* takes is abstracted to its decimals; the native coin's always have room.
Text(value, coin) ==
  [number |-> IF coin.decimals <= MAX_FPU_DECIMALS THEN <<value, coin.decimals>> ELSE << >>,
   ticker |-> coin.ticker]
EmptyText == [number |-> << >>, ticker |-> ""]

-----------------------------------------------------------------------------
(* swap/handle_check_address.c                                             *)
NoCheck == [text |-> << >>, path |-> NULL, result |-> 0]

\* Mutant: the result is set before the comparison.
CheckResult_not_compared(text, address) == IF Len(text) = 2 * ADDRESS_LEN THEN 1 ELSE 0

CheckResult(text, address) ==
  IF /\ Len(text) = 2 * ADDRESS_LEN
     /\ format_hex(address) = text
  THEN 1 ELSE 0

\* What address_from_pubkey leaves in the zeroed buffer of its caller: the address, or
\* nothing when the digest of the key fails, which the caller does not look at.
ZeroAddress == [i \in 1..(2 * ADDRESS_LEN) |-> 0]
address_from_pubkey(path) == {AddressOf[path], ZeroAddress}

\* The reads of the path are not checked: after data that is cut short, the path on the
\* stack is any path.
PathsRead(path) == IF path = TruncatedPath THEN Paths ELSE {path}

swap_handle_check_address(text, path) ==
  /\ ~G_called_from_swap /\ deal = NULL
  /\ \/ /\ text = NULL \/ path = NULL
        /\ checked' = [NoCheck EXCEPT !.text = text, !.path = path]
     \/ /\ text # NULL /\ path # NULL      \* the derivation fails
        /\ checked' = [NoCheck EXCEPT !.text = text, !.path = path]
     \/ /\ text # NULL /\ path # NULL
        /\ \E derived \in PathsRead(path) :
             \E address \in address_from_pubkey(derived) :
               checked' = [text |-> text, path |-> path, result |-> CheckResult(text, address)]
  /\ UNCHANGED <<deal, shown, session>>

CheckAddress ==
  \E text \in Destinations, path \in Paths \cup {TruncatedPath, NULL} :
    swap_handle_check_address(text, path)

-----------------------------------------------------------------------------
(* swap/handle_get_printable_amount.c                                      *)

PrintedCoin(config, is_fee) == IF is_fee THEN Native ELSE CoinOf(config)

swap_handle_get_printable_amount(amount, config, is_fee) ==
  IF ~FitsU64(amount) \/ PrintedCoin(config, is_fee) = Malformed
  THEN EmptyText
  ELSE Text(swap_str_to_u64(amount), PrintedCoin(config, is_fee))

\* The texts of a deal.
Printed(params) ==
  [amount |-> swap_handle_get_printable_amount(params.amount, params.config, FALSE),
   fee    |-> swap_handle_get_printable_amount(params.fee, params.config, TRUE)]

\* Exchange (outside src/) takes up a deal and has both texts printed for its user.
NewDeal ==
  /\ ~G_called_from_swap /\ deal = NULL
  /\ deal' \in Deals /\ checked' = NoCheck
  /\ UNCHANGED <<shown, session>>

ShowDeal ==
  /\ ~G_called_from_swap /\ deal # NULL /\ shown = NULL
  /\ shown' = Printed(deal)
  /\ UNCHANGED <<deal, checked, session>>

-----------------------------------------------------------------------------
(* swap/handle_swap_sign_transaction.c                                     *)
\* The application ends and Exchange (outside src/) is done with the deal.
ReturnToExchange(what) ==
  /\ answer' = what
  /\ G_called_from_swap' = FALSE
  /\ deal' = NULL /\ shown' = NULL

ZeroValidated == [initialized |-> FALSE, amount |-> 0, fee |-> 0, recipient |-> << >>,
                  decimals |-> 0, ticker |-> ""]

CopyAccepts(params) ==
  /\ params.destination # NULL /\ Len(params.destination) = 2 * ADDRESS_LEN
  /\ params.amount # NULL
  /\ CoinOf(params.config) # Malformed
  /\ FitsU64(params.amount) /\ FitsU64(params.fee)

Validated(params) ==
  [initialized |-> TRUE,
   amount      |-> swap_str_to_u64(params.amount),
   fee         |-> swap_str_to_u64(params.fee),
   recipient   |-> UpperCase(params.destination),
   decimals    |-> CoinOf(params.config).decimals,
   ticker      |-> CoinOf(params.config).ticker]

\* Mutant: the globals are not cleared.
ResponseReadyAfterCopy_kept == G_swap_response_ready

\* os_explicit_zero_BSS_segment, before the copy is committed.
ResponseReadyAfterCopy == FALSE

\* The parameters are refused (the library returns to Exchange and nothing is written), or
\* the globals are cleared, the copy is committed and the loop is entered.
swap_copy_transaction_parameters ==
  /\ ~G_called_from_swap /\ shown # NULL
  /\ \/ /\ ~CopyAccepts(deal)
        /\ ReturnToExchange("refused")
        /\ UNCHANGED <<G_swap_validated, G_swap_response_ready>>
     \/ /\ CopyAccepts(deal)
        /\ G_swap_validated' = Validated(deal)
        /\ G_swap_response_ready' = ResponseReadyAfterCopy
        /\ G_called_from_swap' = TRUE
        /\ answer' = "none"
        /\ UNCHANGED <<deal, shown>>
  /\ signed' = << >>
  /\ UNCHANGED checked

is_token_swap ==
  \/ G_swap_validated.ticker # "BOL"
  \/ G_swap_validated.decimals # EXPONENT_SMALLEST_UNIT

\* Mutant: a deal in a token is met by a native transaction.
SwapError_token_unchecked(tx, is_token_tx, token_info) ==
  IF ~G_swap_validated.initialized THEN "SWAP_EC_ERROR_GENERIC"
  ELSE IF G_swap_validated.amount # tx.value THEN "SWAP_EC_ERROR_WRONG_AMOUNT"
  ELSE IF G_swap_validated.fee # tx.fee THEN "SWAP_EC_ERROR_WRONG_FEES"
  ELSE IF G_swap_validated.recipient # format_hex(tx.to)
       THEN "SWAP_EC_ERROR_WRONG_DESTINATION"
  ELSE "SWO_SUCCESS"

\* swap_check_validity: the first check that fails ends the session with its error.
SwapError(tx, is_token_tx, token_info) ==
  IF ~G_swap_validated.initialized THEN "SWAP_EC_ERROR_GENERIC"
  ELSE IF is_token_tx # is_token_swap THEN "SWAP_EC_ERROR_WRONG_METHOD"
  ELSE IF /\ is_token_tx
          /\ \/ G_swap_validated.ticker # token_info.ticker
             \/ G_swap_validated.decimals # token_info.decimals
       THEN "SWAP_EC_ERROR_WRONG_AMOUNT"
  ELSE IF G_swap_validated.amount # tx.value THEN "SWAP_EC_ERROR_WRONG_AMOUNT"
  ELSE IF G_swap_validated.fee # tx.fee THEN "SWAP_EC_ERROR_WRONG_FEES"
  ELSE IF G_swap_validated.recipient # format_hex(tx.to)
       THEN "SWAP_EC_ERROR_WRONG_DESTINATION"
  ELSE "SWO_SUCCESS"

-----------------------------------------------------------------------------
(* handler/sign_tx.c in a swap session: the last chunk of a transaction.   *)
(* Commands and chunks before it are answered as usual and change nothing  *)
(* here.  process_transaction leaves is_token_tx false whatever the        *)
(* instruction.  A reply with G_swap_response_ready set, and every swap    *)
(* error, ends the application.                                            *)
\* token_info of the zeroed context.
NoToken == [ticker |-> "", decimals |-> 0]
Transactions == [value : Values, fee : Values, to : Addresses]

\* process_transaction fails: an error for Exchange instead of one for the host.
SwapParsingFails ==
  /\ G_called_from_swap
  /\ ReturnToExchange("SWAP_EC_ERROR_GENERIC")
  /\ G_swap_response_ready' = TRUE
  /\ UNCHANGED <<checked, G_swap_validated, signed>>

check_and_sign_swap_tx(tx) ==
  /\ G_called_from_swap
  /\ G_swap_response_ready' = TRUE
  /\ \/ /\ G_swap_response_ready \/ SwapError(tx, FALSE, NoToken) # "SWO_SUCCESS"
        /\ ReturnToExchange(IF G_swap_response_ready THEN "exit"
                            ELSE SwapError(tx, FALSE, NoToken))
        /\ UNCHANGED signed
     \/ /\ ~G_swap_response_ready /\ SwapError(tx, FALSE, NoToken) = "SWO_SUCCESS"
        /\ ReturnToExchange("SWO_SECURITY_ISSUE")     \* the signature fails
        /\ UNCHANGED signed
     \/ /\ ~G_swap_response_ready /\ SwapError(tx, FALSE, NoToken) = "SWO_SUCCESS"
        /\ ReturnToExchange("signature")
        /\ signed' = Append(signed, [tx |-> tx, deal |-> deal, shown |-> shown])
  /\ UNCHANGED <<checked, G_swap_validated>>

SignSwapTransaction == \E tx \in Transactions : check_and_sign_swap_tx(tx)

\* The loop ends without a transaction: the transport fails or the device is unplugged.
SessionCut ==
  /\ G_called_from_swap
  /\ ReturnToExchange("cut")
  /\ UNCHANGED <<checked, G_swap_validated, G_swap_response_ready, signed>>

Init ==
  /\ deal = NULL /\ shown = NULL /\ checked = NoCheck
  /\ G_called_from_swap = FALSE
  /\ G_swap_validated = ZeroValidated /\ G_swap_response_ready \in BOOLEAN
  /\ answer = "none" /\ signed = << >>

Next ==
  \/ CheckAddress \/ NewDeal \/ ShowDeal
  \/ swap_copy_transaction_parameters
  \/ SwapParsingFails \/ SignSwapTransaction \/ SessionCut

Spec == Init /\ [][Next]_vars

-----------------------------------------------------------------------------
Texts == [number : {<< >>} \cup (Nat \X Nat), ticker : Tickers \cup {""}]

\* Up to UINT64_MAX, all of whose bytes are 0xff.
MaxBytes == [i \in 1..U64_LEN |-> Radix - 1]
Uint64 == 0..BigEndian(MaxBytes)

\* The types of the state; an amount or a fee that was copied fits its uint64_t.
TypeOK ==
  /\ deal \in Deals \cup {NULL}
  /\ shown \in [amount : Texts, fee : Texts] \cup {NULL}
  /\ G_called_from_swap \in BOOLEAN /\ G_swap_response_ready \in BOOLEAN
  /\ G_swap_validated \in [initialized : BOOLEAN, amount : Uint64, fee : Uint64,
                           recipient : Seq(Nat), decimals : Nat, ticker : Tickers \cup {""}]
  /\ checked.result \in {0, 1}
  /\ signed \in Seq([tx : Transactions, deal : Deals, shown : [amount : Texts, fee : Texts]])

\* "If we are in swap context, do not redisplay the message data.  Instead, ensure they are
\* identical with what was previously displayed" (handler/sign_tx.c:177): whatever the
\* encodings of amount, fee, coin and address in the deal and whatever earlier sessions
\* left in the globals, the texts Exchange displayed are those of the amount and the fee
\* that were signed, as native coins, and the address is the recipient's.
SignedAsShown ==
  \A i \in DOMAIN signed :
    /\ signed[i].shown.amount = Text(signed[i].tx.value, Native)
    /\ signed[i].shown.fee = Text(signed[i].tx.fee, Native)
    /\ UpperCase(signed[i].deal.destination) = format_hex(signed[i].tx.to)

\* A session yields at most one signature, and the guard against a second one is never
\* what prevents it: "This code should never be triggered as the app is supposed to exit"
\* (handler/sign_tx.c:46), in particular not by a flag an earlier session left set.
SessionSignsOnce == Len(signed) <= 1 /\ answer # "exit"

\* An address other than the all-zero one is confirmed only if the device derives it: from
\* the path that was sent or, when the path data is cut short and the rest of the path is
\* whatever was on the stack, from some path.  The all-zero one is confirmed whenever the
\* digest of the key fails, although it is not "owned by the device"
\* (handle_check_address.c:16).
ConfirmedAddressIsDerived ==
  checked.result = 1 /\ checked.text # format_hex(ZeroAddress) =>
    \E path \in Paths :
      /\ checked.text = format_hex(AddressOf[path])
      /\ checked.path \in {path, TruncatedPath}
=============================================================================
