----------------------------- MODULE TokenInfo -----------------------------
(***************************************************************************)
(* Token metadata: the one RAM slot filled by PROVIDE_TOKEN_INFO           *)
(* (handler/provide_token_info.c, token/dynamic_token_info.c) in front of  *)
(* the hardcoded database (token/token_db.c).                              *)
(***************************************************************************)
EXTENDS Naturals, Sequences

CONSTANTS
  Addresses,       \* the token addresses, of TOKEN_ADDRESS_LEN bytes
  NoAddress,       \* TOKEN_ADDRESS_LEN zero bytes
  BadLength,       \* a TUID value of any other length
  Tickers,         \* tickers of at most MAX_TICKER_SIZE characters
  NoTicker,        \* the empty ticker
  Magnitudes,      \* the values of the magnitude field
  TOKENS,          \* the hardcoded database: a function from some addresses
  NotFound         \* what a lookup that returns false leaves

ASSUME TokenAssumption ==
  /\ NoAddress \notin Addresses /\ BadLength \notin Addresses
  /\ NoTicker \notin Tickers /\ Magnitudes \subseteq Nat
  /\ TOKENS \in [DOMAIN TOKENS -> [ticker : Tickers, decimals : Nat]]
  /\ NotFound \notin [ticker : Tickers, decimals : Nat]

VARIABLES
  running,                \* the application is in its APDU loop
  g_dynamic_token_info,   \* the slot
  provided,               \* the descriptor the last PROVIDE_TOKEN_INFO carried
  accepted                \* the last one that names a token, since the start

vars == <<running, g_dynamic_token_info, provided, accepted>>

-----------------------------------------------------------------------------
(* A descriptor.  verified is the verdict of the SDK's parser (outside     *)
(* src/): structure, signature, version and application name.  tuid is the *)
(* application's own TLV, a sequence of tags and values.                   *)
Tags == {"TAG_TOKEN_ADDRESS", "UNKNOWN_TAG"}
CoinTypes == {"SLIP44", "SLIP44_HARDENED", "OTHER"}
TuidEntries == [tag : Tags, value : Addresses \cup {BadLength}]
Tuids == UNION {[1 .. n -> TuidEntries] : n \in 0 .. 2}
Descriptors ==
  [verified : BOOLEAN, coin_type : CoinTypes, TUID : Tuids, ticker : Tickers,
   magnitude : Magnitudes]

\* No such descriptor since the application started.
Nothing ==
  [verified |-> FALSE, coin_type |-> "OTHER", TUID |-> << >>, ticker |-> NoTicker,
   magnitude |-> 0]

validate_coin_type(coin_type) == coin_type \in {"SLIP44", "SLIP44_HARDENED"}

handle_tuid_token_address(value) == value # BadLength

\* The generated parser: no unknown tag, no tag twice, every value accepted by its handler.
parse_dynamic_token_tuid(tuid) ==
  /\ \A i \in DOMAIN tuid :
       tuid[i].tag = "TAG_TOKEN_ADDRESS" /\ handle_tuid_token_address(tuid[i].value)
  /\ \A i, j \in DOMAIN tuid : tuid[i].tag = tuid[j].tag => i = j

\* Mutant: a TUID without the required tag is let through.
ReceivedAddress_unchecked(tuid) == TRUE

\* TLV_CHECK_RECEIVED_TAGS
ReceivedAddress(tuid) == \E i \in DOMAIN tuid : tuid[i].tag = "TAG_TOKEN_ADDRESS"

\* The address buffer of a TUID that was parsed; still zero when the tag was not received.
TokenAddress(tuid) == IF tuid = << >> THEN NoAddress ELSE tuid[1].value

-----------------------------------------------------------------------------
ZeroStorage ==
  [received |-> FALSE, address |-> NoAddress, ticker |-> NoTicker, decimals |-> 0]

set_token_info(magnitude, tck, addr) ==
  [received |-> TRUE, address |-> addr, ticker |-> tck, decimals |-> magnitude]

\* The checks between the reset of the slot and set_token_info.
DescriptorOk(d) ==
  /\ d.verified
  /\ validate_coin_type(d.coin_type)
  /\ parse_dynamic_token_tuid(d.TUID)
  /\ ReceivedAddress(d.TUID)

\* What handler_provide_token_info leaves in the slot, which it resets first.
SlotAfter(d) ==
  IF DescriptorOk(d)
  THEN set_token_info(d.magnitude, d.ticker, TokenAddress(d.TUID))
  ELSE ZeroStorage

\* What a descriptor must be to count: signed, for this coin, naming exactly one token.
Names(d, addr) ==
  /\ d.verified
  /\ d.coin_type # "OTHER"
  /\ d.TUID = <<[tag |-> "TAG_TOKEN_ADDRESS", value |-> addr]>>

handler_provide_token_info(d) ==
  /\ running
  /\ g_dynamic_token_info' = SlotAfter(d)
  /\ provided' = d
  /\ accepted' = IF \E addr \in Addresses : Names(d, addr) THEN d ELSE accepted
  /\ UNCHANGED running

-----------------------------------------------------------------------------
(* Lookups                                                                 *)
get_hardcoded_token_info(addr) ==
  IF addr \in DOMAIN TOKENS THEN TOKENS[addr] ELSE NotFound

\* Mutant: the address is not compared.
DynamicMatches_any(addr) == g_dynamic_token_info.received

\* get_dynamic_token_info returns true
DynamicMatches(addr) ==
  g_dynamic_token_info.received /\ g_dynamic_token_info.address = addr

get_token_info(addr) ==
  IF DynamicMatches(addr)
  THEN [ticker |-> g_dynamic_token_info.ticker, decimals |-> g_dynamic_token_info.decimals]
  ELSE get_hardcoded_token_info(addr)

-----------------------------------------------------------------------------
\* app_main calls init_dynamic_token_storage before its loop.
AppStart ==
  /\ ~running
  /\ running' = TRUE
  /\ g_dynamic_token_info' = ZeroStorage
  /\ provided' = Nothing /\ accepted' = Nothing

\* The application ends and its RAM is lost.
AppExit ==
  /\ running
  /\ running' = FALSE
  /\ g_dynamic_token_info' = ZeroStorage
  /\ provided' = Nothing /\ accepted' = Nothing

Init ==
  /\ running = FALSE /\ g_dynamic_token_info = ZeroStorage
  /\ provided = Nothing /\ accepted = Nothing

Next ==
  \/ \E d \in Descriptors : handler_provide_token_info(d)
  \/ AppStart \/ AppExit

Spec == Init /\ [][Next]_vars

-----------------------------------------------------------------------------
Slots ==
  [received : BOOLEAN, address : Addresses \cup {NoAddress},
   ticker : Tickers \cup {NoTicker}, decimals : Magnitudes \cup {0}]

\* The types of the state.  A slot that is in use holds an address of the right length
\* (the check of the required tag keeps the zeroed buffer out).
TypeOK ==
  /\ running \in BOOLEAN
  /\ g_dynamic_token_info \in Slots
  /\ provided \in Descriptors \cup {Nothing} /\ accepted \in Descriptors \cup {Nothing}
  /\ g_dynamic_token_info.received => g_dynamic_token_info.address \in Addresses

\* What a descriptor says of the token it names.
TokenOf(d) == [ticker |-> d.ticker, decimals |-> d.magnitude]

\* Whatever was provided before, a lookup answers from one source: the last good descriptor
\* of this run of the application, and then only for the address it names, or the hardcoded
\* database.  No mixture of two descriptors, nothing of a refused one, no token for another
\* address.  While a good descriptor is also the last one sent, its token is the answer for
\* its address, hardcoded or not.  (Whether it stays the answer after a later one is refused
\* is TokenPersists.)
LookupIsOfOneDescriptor ==
  \A addr \in Addresses :
    /\ \/ Names(accepted, addr) /\ get_token_info(addr) = TokenOf(accepted)
       \/ get_token_info(addr) = get_hardcoded_token_info(addr)
    /\ Names(provided, addr) => get_token_info(addr) = TokenOf(provided)

\* dynamic_token_info.c:78, "The dynamic token persists in RAM until app exit", and
\* APP_SPECIFICATION.md:273, "until the app exits or a new token is provided": while the
\* application runs, a token in the slot is replaced only by a token.
TokenPersists ==
  [][(g_dynamic_token_info.received /\ running /\ running') =>
       g_dynamic_token_info'.received]_vars
=============================================================================
