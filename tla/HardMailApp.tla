---------------------------- MODULE HardMailApp ----------------------------
(***************************************************************************)
(* The HardMail application: the APDU loop (app_main.c), the dispatcher,   *)
(* the command handlers, the review pages and the callbacks that answer    *)
(* them, over the one global context G_context.                            *)
(*                                                                         *)
(* The application is single-threaded.  A command is handled to the end of *)
(* its handler; a user interface callback (the user's choice on a review,  *)
(* the end of a status page) runs while the loop waits for the next        *)
(* command.  A handler that opens a review returns without a reply: the    *)
(* callback sends it.  Each handler and each callback is one action.       *)
(***************************************************************************)
EXTENDS EmailCodec

CONSTANTS
  MAX_TRANSACTION_LEN,   \* size of raw_tx
  P1_MAX,                \* highest chunk index
  P1s, P2s,              \* the P1 and P2 bytes commands are sent with
  Chunks,                \* the data of the payload chunks
  Paths,                 \* the BIP32 paths a command can carry
  TruncatedPath,         \* path data that buffer_read_bip32_path refuses
  NoPath                 \* bip32_path of a context that was zeroed

P2_LAST == 0
P2_MORE == 128
P1_START == 0

ASSUME AppAssumption ==
  /\ MAX_TRANSACTION_LEN \in Nat
  /\ P1_MAX \in Nat /\ P1s \subseteq Nat /\ P2s \subseteq Nat
  /\ Chunks \subseteq Seq(Byte) \ {<< >>}
  /\ TruncatedPath \notin Paths /\ NoPath \notin Paths /\ NoPath # TruncatedPath

VARIABLES
  running,      \* the application is in its APDU loop
  G_context,    \* the global context
  page,         \* the use case NBGL displays
  g_review,     \* the static display buffers of the email review
  g_address,    \* the static display buffer of the address review
  pending,      \* commands received and not answered yet
  reply,        \* what the last reply said, "none" while one is owed
  signatures,   \* every signature sent: its digest, what was displayed, what it proves
  addresses,    \* every key sent after an address review, and what was displayed
  reviews       \* payloads reviewed since the context was last zeroed

vars == <<running, G_context, page, g_review, g_address, pending, reply, signatures,
          addresses, reviews>>
display == <<page, g_review, g_address>>
history == <<signatures, addresses, reviews>>

-----------------------------------------------------------------------------
(* The global context (types.h).  pk_info and tx_info are a union in C:    *)
(* here they are separate fields, and UnionDiscipline states that no more  *)
(* than one of the two is ever in use.                                     *)

\* SHA-256 as an injective function (two payloads with one digest are out of scope).
sha256(p) == [set |-> TRUE, of |-> p]
ZeroDigest == [set |-> FALSE, of |-> << >>]
NoSignature == [by |-> NoPath, digest |-> ZeroDigest]

\* Key derivation (outside src/): the point of a path, then its compressed form.
NoKey == [form |-> "zero", path |-> NoPath]
PointOf(path) == [form |-> "point", path |-> path]
KeyOf(path) == [form |-> "compressed", path |-> path]

\* explicit_bzero(&G_context, sizeof(G_context)); CONFIRM_ADDRESS is the enum value 0.
ZeroContext ==
  [state |-> "STATE_NONE", req_type |-> "CONFIRM_ADDRESS", bip32_path |-> NoPath,
   pk_info |-> NoKey, raw_tx |-> << >>, m_hash |-> ZeroDigest, signature |-> NoSignature]

\* Display buffers that nothing was written to.
BlankAddress == [of |-> NoKey]
BlankReview == ReviewPairs([challenge |-> << >>, from |-> << >>, to |-> << >>,
                            subject |-> << >>, body |-> << >>, has_attachment |-> 0,
                            att_name |-> << >>, att_size |-> 0, att_hash |-> << >>])

\* The last bytes of the digest of the raw public key, in hexadecimal.
address_from_pubkey(key) == [of |-> key]

-----------------------------------------------------------------------------
(* Replies.  A handler answers its own command; a review leaves the answer *)
(* to its callback.  Of the status word the state keeps only whether it    *)
(* reports success.                                                        *)
Outcome(sw) == IF sw = "SWO_SUCCESS" THEN "success" ELSE "error"
io_send_sw(sw) == reply' = Outcome(sw) /\ UNCHANGED pending
AnswerLater == reply' = "none" /\ pending' = pending + 1
\* Mutant: the answer of a callback is lost.
AnswerNow_lost(sw) == reply' = "none" /\ UNCHANGED pending

AnswerNow(sw) == reply' = Outcome(sw) /\ pending' = pending - 1

\* Mutant: the transport accepts a command while the reply to another is owed.
HostMaySend_pipelined == running

\* The transport (outside src/) is half-duplex: io_recv_command yields a command only
\* when the previous one was answered.
HostMaySend == running /\ pending = 0

-----------------------------------------------------------------------------
(* apdu/dispatcher.c                                                       *)
Instructions == {"GET_VERSION", "GET_APP_NAME", "GET_PUBLIC_KEY", "SIGN_TX",
                 "SIGN_TOKEN_TX", "PROVIDE_TOKEN_INFO", "UNKNOWN_INS"}

\* Mutant: the highest chunk index is refused.
ParametersOk_strict(ins, p1, p2) ==
  CASE ins \in {"GET_VERSION", "GET_APP_NAME", "PROVIDE_TOKEN_INFO"} -> p1 = 0 /\ p2 = 0
    [] ins = "GET_PUBLIC_KEY" -> p1 <= 1 /\ p2 = 0
    [] ins \in {"SIGN_TX", "SIGN_TOKEN_TX"} ->
         /\ p1 = P1_START => p2 = P2_MORE
         /\ p1 < P1_MAX
         /\ p2 \in {P2_LAST, P2_MORE}

ParametersOk(ins, p1, p2) ==
  CASE ins \in {"GET_VERSION", "GET_APP_NAME", "PROVIDE_TOKEN_INFO"} -> p1 = 0 /\ p2 = 0
    [] ins = "GET_PUBLIC_KEY" -> p1 <= 1 /\ p2 = 0
    [] ins \in {"SIGN_TX", "SIGN_TOKEN_TX"} ->
         /\ p1 = P1_START => p2 = P2_MORE
         /\ p1 <= P1_MAX
         /\ p2 \in {P2_LAST, P2_MORE}

NeedsData(ins) == ins \notin {"GET_VERSION", "GET_APP_NAME"}

\* Mutant: a command without data reaches its handler.
DispatchError_no_data_check(cla_ok, ins, p1, p2, has_data) ==
  IF ~cla_ok THEN "SWO_INVALID_CLA"
  ELSE IF ins = "UNKNOWN_INS" THEN "SWO_INVALID_INS"
  ELSE IF ~ParametersOk(ins, p1, p2) THEN "SWO_INCORRECT_P1_P2"
  ELSE "SWO_SUCCESS"

\* The checks before a handler is called; has_data is cmd->data # NULL, i.e. Lc > 0.
DispatchError(cla_ok, ins, p1, p2, has_data) ==
  IF ~cla_ok THEN "SWO_INVALID_CLA"
  ELSE IF ins = "UNKNOWN_INS" THEN "SWO_INVALID_INS"
  ELSE IF ~ParametersOk(ins, p1, p2) THEN "SWO_INCORRECT_P1_P2"
  ELSE IF NeedsData(ins) /\ ~has_data THEN "SWO_WRONG_DATA_LENGTH"
  ELSE "SWO_SUCCESS"

\* The command ins with these parameters reaches its handler.
Dispatched(ins, p1, p2, has_data) ==
  /\ HostMaySend
  /\ DispatchError(TRUE, ins, p1, p2, has_data) = "SWO_SUCCESS"

\* apdu_parser (outside src/) refuses the bytes received.
MalformedApdu ==
  /\ HostMaySend
  /\ io_send_sw("SWO_WRONG_DATA_LENGTH")
  /\ UNCHANGED <<running, G_context, display, history>>

\* The status words of all the commands apdu_dispatcher refuses.
Refusals ==
  {DispatchError(cla_ok, ins, p1, p2, has_data) :
     cla_ok \in BOOLEAN, ins \in Instructions, p1 \in P1s, p2 \in P2s,
     has_data \in BOOLEAN} \ {"SWO_SUCCESS"}

\* apdu_dispatcher refuses the command: nothing else happens.
DispatchRefuses ==
  /\ HostMaySend
  /\ \E sw \in Refusals : io_send_sw(sw)
  /\ UNCHANGED <<running, G_context, display, history>>

-----------------------------------------------------------------------------
(* handler/get_version.c and get_app_name.c: constants, no state.          *)
handler_get_constant ==
  /\ \E ins \in {"GET_VERSION", "GET_APP_NAME"}, p1 \in P1s, p2 \in P2s,
        has_data \in BOOLEAN : Dispatched(ins, p1, p2, has_data)
  /\ io_send_sw("SWO_SUCCESS")
  /\ UNCHANGED <<running, G_context, display, history>>

\* handler/provide_token_info.c, as far as this context is concerned: it answers and
\* touches only the token store.
handler_provide_token_info ==
  /\ \E p1 \in P1s, p2 \in P2s : Dispatched("PROVIDE_TOKEN_INFO", p1, p2, TRUE)
  /\ \E sw \in {"SWO_SUCCESS", "SW_INVALID_DYNAMIC_TOKEN"} : io_send_sw(sw)
  /\ UNCHANGED <<running, G_context, display, history>>

-----------------------------------------------------------------------------
(* handler/get_public_key.c and ui/nbgl_display_address.c                  *)

\* ui_display_address on the context ctx its caller left.
ui_display_address(ctx) ==
  \/ /\ ctx.req_type # "CONFIRM_ADDRESS" \/ ctx.state # "STATE_NONE"
     /\ G_context' = [ctx EXCEPT !.state = "STATE_NONE"]
     /\ io_send_sw("SWO_CONDITIONS_NOT_SATISFIED")
     /\ UNCHANGED display
  \/ /\ ctx.req_type = "CONFIRM_ADDRESS" /\ ctx.state = "STATE_NONE"
     /\ G_context' = ctx
     /\ g_address' = address_from_pubkey(ctx.pk_info)
     /\ page' = "address"
     /\ AnswerLater
     /\ UNCHANGED g_review
  \/ /\ ctx.req_type = "CONFIRM_ADDRESS" /\ ctx.state = "STATE_NONE"
     /\ G_context' = ctx                  \* the digest of the key failed
     /\ g_address' = BlankAddress
     /\ io_send_sw("SWO_INCORRECT_DATA")
     /\ UNCHANGED <<page, g_review>>

\* Mutant: the context is not zeroed, only the request type is set.
PubkeyContext_not_zeroed(path) ==
  [G_context EXCEPT !.req_type = "CONFIRM_ADDRESS", !.state = "STATE_NONE",
                    !.bip32_path = path]

\* The context handler_get_public_key starts from, once the path was read.
PubkeyContext(path) ==
  [ZeroContext EXCEPT !.req_type = "CONFIRM_ADDRESS", !.bip32_path = path]

\* Derivation or compression of the key fails: what was computed so far stays.
PubkeyFails(path) ==
  /\ \E key \in {NoKey, PointOf(path)} :
       G_context' = [PubkeyContext(path) EXCEPT !.pk_info = key]
  /\ io_send_sw("CX_ERROR")
  /\ UNCHANGED display

handler_get_public_key(path, displayed) ==
  /\ reviews' = << >>
  /\ \/ /\ path \notin Paths
        /\ G_context' = PubkeyContext(path)
        /\ io_send_sw("SWO_WRONG_DATA_LENGTH")
        /\ UNCHANGED display
     \/ path \in Paths /\ PubkeyFails(path)
     \/ /\ path \in Paths /\ displayed
        /\ ui_display_address([PubkeyContext(path) EXCEPT !.pk_info = KeyOf(path)])
     \/ /\ path \in Paths /\ ~displayed
        /\ G_context' = [PubkeyContext(path) EXCEPT !.pk_info = KeyOf(path)]
        /\ io_send_sw("SWO_SUCCESS")      \* helper_send_response_pubkey
        /\ UNCHANGED display
  /\ UNCHANGED <<running, signatures, addresses>>

GetPublicKey ==
  \E p1 \in P1s, p2 \in P2s, path \in Paths \cup {TruncatedPath} :
    /\ Dispatched("GET_PUBLIC_KEY", p1, p2, TRUE)
    /\ handler_get_public_key(path, p1 = 1)

-----------------------------------------------------------------------------
(* handler/sign_tx.c and ui/nbgl_display_transaction.c                     *)
RequestType(ins) ==
  IF ins = "SIGN_TOKEN_TX" THEN "CONFIRM_TOKEN_TRANSACTION" ELSE "CONFIRM_TRANSACTION"

\* Chunk 0.  The request type is set before the path is read, so it stays set when the
\* path is refused.
init_transaction_context(path, req_type) ==
  /\ G_context' = [ZeroContext EXCEPT !.req_type = req_type, !.bip32_path = path]
  /\ io_send_sw(IF path \in Paths THEN "SWO_SUCCESS" ELSE "SWO_WRONG_DATA_LENGTH")
  /\ reviews' = << >>
  /\ UNCHANGED <<running, display, signatures, addresses>>

SignTxStart ==
  \E ins \in {"SIGN_TX", "SIGN_TOKEN_TX"}, p2 \in P2s,
     path \in Paths \cup {TruncatedPath} :
    /\ Dispatched(ins, P1_START, p2, TRUE)
    /\ init_transaction_context(path, RequestType(ins))

\* Mutant: the static buffers keep what an earlier review wrote.
DisplayBuffers_stale(ctx) == g_review

\* The copies of the email's fields the review pages render.
DisplayBuffers(ctx) == ReviewPairs(email_t(ctx.raw_tx))

\* ui_display_transaction on the context ctx process_transaction left.
ui_display_transaction(ctx) ==
  \/ /\ ctx.req_type # "CONFIRM_TRANSACTION" \/ ctx.state # "STATE_PARSED"
     /\ G_context' = [ctx EXCEPT !.state = "STATE_NONE"]
     /\ io_send_sw("SWO_CONDITIONS_NOT_SATISFIED")
     /\ UNCHANGED <<display, reviews>>
  \/ /\ ctx.req_type = "CONFIRM_TRANSACTION" /\ ctx.state = "STATE_PARSED"
     /\ G_context' = ctx
     /\ g_review' = DisplayBuffers(ctx)
     /\ page' = "review"
     /\ reviews' = Append(reviews, ctx.raw_tx)
     /\ AnswerLater
     /\ UNCHANGED g_address

\* The last chunk arrived: parse, hash and display the payload in ctx.
process_transaction(ctx) ==
  \/ /\ ~Accepted(ctx.raw_tx)
     /\ G_context' = ctx                  \* neither the state nor the payload is reset
     /\ io_send_sw("SWO_INCORRECT_DATA")
     /\ UNCHANGED <<display, reviews>>
  \/ /\ Accepted(ctx.raw_tx)              \* cx_hash_sha256 failed
     /\ G_context' = [ctx EXCEPT !.state = "STATE_PARSED"]
     /\ io_send_sw("SWO_INCORRECT_DATA")
     /\ UNCHANGED <<display, reviews>>
  \/ /\ Accepted(ctx.raw_tx)
     /\ ui_display_transaction([ctx EXCEPT !.state = "STATE_PARSED",
                                           !.m_hash = sha256(ctx.raw_tx)])

\* Mutant: the limit is compared with the bytes already there.
Overflows_off_by_a_chunk(data) == Len(G_context.raw_tx) > MAX_TRANSACTION_LEN

Overflows(data) == Len(G_context.raw_tx) + Len(data) > MAX_TRANSACTION_LEN

\* Mutant: a chunk of one instruction continues a flow of the other.
AccumulateError_any_flow(data, req_type) ==
  IF Overflows(data) THEN "SWO_WRONG_DATA_LENGTH" ELSE "SWO_SUCCESS"

\* Why accumulate_transaction_data refuses a chunk, "SWO_SUCCESS" if it does not.  The
\* chunk index and the state of the context play no part.
AccumulateError(data, req_type) ==
  IF G_context.req_type # req_type THEN "SWO_CONDITIONS_NOT_SATISFIED"
  ELSE IF Overflows(data) THEN "SWO_WRONG_DATA_LENGTH"
  ELSE "SWO_SUCCESS"

accumulate_transaction_data(data) == [G_context EXCEPT !.raw_tx = @ \o data]

\* Chunks 1 ..: accumulate, and process once the last one is there.
handler_sign_tx(data, more, req_type) ==
  /\ \/ /\ AccumulateError(data, req_type) # "SWO_SUCCESS"
        /\ io_send_sw(AccumulateError(data, req_type))
        /\ UNCHANGED <<G_context, display, reviews>>
     \/ /\ AccumulateError(data, req_type) = "SWO_SUCCESS" /\ more
        /\ G_context' = accumulate_transaction_data(data)
        /\ io_send_sw("SWO_SUCCESS")
        /\ UNCHANGED <<display, reviews>>
     \/ /\ AccumulateError(data, req_type) = "SWO_SUCCESS" /\ ~more
        /\ process_transaction(accumulate_transaction_data(data))
  /\ UNCHANGED <<running, signatures, addresses>>

\* data = << >> stands for a command without data.
SignTxChunk ==
  \E ins \in {"SIGN_TX", "SIGN_TOKEN_TX"}, p1 \in P1s \ {P1_START}, p2 \in P2s,
     data \in Chunks \cup {<< >>} :
    /\ Dispatched(ins, p1, p2, data # << >>)
    /\ handler_sign_tx(data, p2 = P2_MORE, RequestType(ins))

-----------------------------------------------------------------------------
(* The user's choice on a page: review_choice of the two display files,    *)
(* with validate_transaction and validate_pubkey (ui/action/validate.c).   *)
\* What a verifier derives from a signed digest (outside src/): it recomputes the payload
\* and renders it.
Proves(digest) ==
  IF digest.set /\ Accepted(digest.of) THEN ReviewPairs(email_t(digest.of)) ELSE BlankReview

crypto_sign_message == [by |-> G_context.bip32_path, digest |-> G_context.m_hash]

\* The user holds to sign and the signature is computed and sent.
ReviewApproved ==
  /\ running /\ page = "review"
  /\ G_context' = [G_context EXCEPT !.state = "STATE_APPROVED",
                                    !.signature = crypto_sign_message]
  /\ signatures' = signatures \cup {[digest |-> crypto_sign_message.digest,
                                     shown  |-> g_review,
                                     proves |-> Proves(crypto_sign_message.digest)]}
  /\ AnswerNow("SWO_SUCCESS")             \* helper_send_response_sig
  /\ page' = "signed"
  /\ UNCHANGED <<running, g_review, g_address, addresses, reviews>>

\* Mutant: validate_transaction does not take STATE_APPROVED back.
SigningFailed_keeps_state == [G_context EXCEPT !.state = "STATE_APPROVED"]

SigningFailed == [G_context EXCEPT !.state = "STATE_NONE"]

\* The user holds to sign and the derivation or the signature fails.
ReviewApprovedButFails ==
  /\ running /\ page = "review"
  /\ G_context' = SigningFailed
  /\ AnswerNow("SWO_SECURITY_ISSUE")
  /\ page' = "signed"                     \* the status page does not depend on the outcome
  /\ UNCHANGED <<running, g_review, g_address, history>>

ReviewRejected ==
  /\ running /\ page = "review"
  /\ G_context' = [G_context EXCEPT !.state = "STATE_NONE"]
  /\ AnswerNow("SWO_CONDITIONS_NOT_SATISFIED")
  /\ page' = "rejected"
  /\ UNCHANGED <<running, g_review, g_address, history>>

AddressConfirmed ==
  /\ running /\ page = "address"
  /\ addresses' = addresses \cup {[key |-> G_context.pk_info, shown |-> g_address]}
  /\ AnswerNow("SWO_SUCCESS")
  /\ page' = "verified"
  /\ UNCHANGED <<running, G_context, g_review, g_address, signatures, reviews>>

AddressRejected ==
  /\ running /\ page = "address"
  /\ AnswerNow("SWO_CONDITIONS_NOT_SATISFIED")
  /\ page' = "address_rejected"
  /\ UNCHANGED <<running, G_context, g_review, g_address, history>>

StatusPages == {"signed", "rejected", "verified", "address_rejected"}

\* The status page ends and calls ui_menu_main.
StatusEnds ==
  /\ running /\ page \in StatusPages
  /\ page' = "home"
  /\ UNCHANGED <<running, G_context, g_review, g_address, pending, reply, history>>

-----------------------------------------------------------------------------
(* app_main.c                                                              *)

\* From the start of the application to its loop: the home page, then the context is
\* zeroed.
AppStart ==
  /\ ~running
  /\ running' = TRUE
  /\ page' = "home"
  /\ G_context' = ZeroContext /\ reviews' = << >>
  /\ UNCHANGED <<g_review, g_address, pending, reply, signatures, addresses>>

\* The application ends: app_quit, a failure of the transport, or the device is
\* unplugged, at any moment between two handlers.  Its RAM is lost, what it sent stays
\* with the host.
AppExit ==
  /\ running
  /\ running' = FALSE
  /\ page' = "off"
  /\ G_context' = ZeroContext /\ reviews' = << >>
  /\ g_review' = BlankReview /\ g_address' = BlankAddress
  /\ pending' = 0 /\ reply' = "none"
  /\ UNCHANGED <<signatures, addresses>>

Init ==
  /\ running = FALSE /\ page = "off"
  /\ G_context = ZeroContext /\ g_review = BlankReview /\ g_address = BlankAddress
  /\ pending = 0 /\ reply = "none"
  /\ signatures = {} /\ addresses = {} /\ reviews = << >>

Command ==
  \/ MalformedApdu \/ DispatchRefuses
  \/ handler_get_constant \/ handler_provide_token_info
  \/ GetPublicKey \/ SignTxStart \/ SignTxChunk

UserChoice ==
  \/ ReviewApproved \/ ReviewApprovedButFails \/ ReviewRejected
  \/ AddressConfirmed \/ AddressRejected

Next == Command \/ UserChoice \/ StatusEnds \/ AppStart \/ AppExit

Spec == Init /\ [][Next]_vars

\* A page that waits for the user is eventually answered, and the ticker of a status
\* page eventually fires.  Nothing is assumed of the host.
Fairness == WF_vars(UserChoice) /\ WF_vars(StatusEnds)

FairSpec == Spec /\ Fairness

-----------------------------------------------------------------------------
Contexts ==
  [state : {"STATE_NONE", "STATE_PARSED", "STATE_APPROVED"},
   req_type : {"CONFIRM_ADDRESS", "CONFIRM_TRANSACTION", "CONFIRM_TOKEN_TRANSACTION"},
   bip32_path : Paths \cup {TruncatedPath, NoPath},
   pk_info : [form : {"zero", "point", "compressed"}, path : Paths \cup {NoPath}],
   raw_tx : Seq(Byte),
   m_hash : [set : BOOLEAN, of : Seq(Byte)],
   signature : [by : Paths \cup {TruncatedPath, NoPath},
                digest : [set : BOOLEAN, of : Seq(Byte)]]]

\* The types of the state; raw_tx is an array of MAX_TRANSACTION_LEN bytes that
\* accumulate_transaction_data never writes past, whatever chunks arrive.
TypeOK ==
  /\ running \in BOOLEAN
  /\ G_context \in Contexts
  /\ Len(G_context.raw_tx) <= MAX_TRANSACTION_LEN
  /\ page \in {"off", "home", "review", "address"} \cup StatusPages
  /\ pending \in Int
  /\ reply \in {"none", "success", "error"}
  /\ reviews \in Seq(Seq(Byte))

\* "The signature binds the display" (README.md): every signature that left the device
\* is over the digest of a payload the parser accepts, and what the review pages showed
\* when the user held to sign is that payload, in full.
SignatureBindsDisplay ==
  \A s \in signatures :
    /\ s.digest.set
    /\ Accepted(s.digest.of)
    /\ s.shown = ReviewPairs(email_t(s.digest.of))

\* One chunk 0 leads to at most one review, so to at most one signature: whatever chunks
\* follow an approval, a rejection or an error, the accumulated payload cannot become
\* acceptable a second time (accumulate_transaction_data checks neither the state nor the
\* chunk index; it is the parser's exact fit and the dispatcher's refusal of empty data
\* that make it so).
OneReviewPerFlow == Len(reviews) <= 1

\* pk_info and tx_info share their memory: a key is only ever there in the address flow
\* with nothing of a transaction, and a payload only in a signing flow.
UnionDiscipline ==
  /\ G_context.pk_info # NoKey =>
       /\ G_context.req_type = "CONFIRM_ADDRESS"
       /\ G_context.raw_tx = << >> /\ ~G_context.m_hash.set
       /\ G_context.signature = NoSignature
  /\ G_context.raw_tx # << >> => G_context.req_type # "CONFIRM_ADDRESS"

\* The key sent once the user confirmed an address is a compressed key, and the address
\* that was displayed is the address of that very key.
DisclosedKeyWasShown ==
  \A a \in addresses :
    a.key.form = "compressed" /\ a.shown = address_from_pubkey(a.key)

\* Every command gets exactly one reply: it is owed precisely while a page waits for the
\* user, and never are two owed or one sent too many.
OneReplyPerCommand ==
  /\ pending \in {0, 1}
  /\ pending = 1 <=> page \in {"review", "address"}
  /\ pending = 1 => reply = "none"

\* STATE_APPROVED is left standing only by a signature that was sent for the payload this
\* flow displayed: continuing the flow with more chunks does
\* not detach the state from what was approved.
ApprovedMeansSigned ==
  G_context.state = "STATE_APPROVED" =>
    /\ Len(reviews) = 1
    /\ G_context.signature = [by |-> G_context.bip32_path, digest |-> sha256(reviews[1])]
    /\ \E s \in signatures : s.digest = sha256(reviews[1])

\* A command that opened a page is eventually answered, or the application has ended.
CommandAnswered == (pending > 0) ~> (pending = 0)

\* The application implements ClearSigning: the document on the screen is what the
\* display buffers hold while the review is open (as a sequence of one, or none), and the
\* documents signed are those the signatures prove.
DocumentOnScreen == IF page = "review" THEN <<g_review>> ELSE << >>
DocumentsSigned == {<<s.proves>> : s \in signatures}
Promise == INSTANCE ClearSigning
             WITH document <- DocumentOnScreen, approved <- DocumentsSigned,
                  NoDocument <- << >>
ImplementsClearSigning == Promise!Spec

-----------------------------------------------------------------------------
(* Statements of the repository's documents that the code does not keep.   *)

\* tests/standalone/test_error_cmd.py:50, "Ensure there is no state confusion when trying
\* wrong APDU sequences", and README.md:97, "Fails closed": a review is opened only in a
\* flow whose first chunk was accepted.
ReviewOnlyInOpenedFlow == page = "review" => G_context.bip32_path \in Paths

\* APP_SPECIFICATION.md:396, 6600 is "Signature of raw transaction failed": the status page
\* that says the email was signed comes with a signature.
SignedPageMeansSigned ==
  [][(page' = "signed" /\ page # "signed") => reply' = "success"]_vars

\* nbgl_display_transaction.c:121, the token flow "clear-sign[s] the same email", and
\* APP_SPECIFICATION.md:133: a token transaction that was parsed and hashed is displayed.
TokenTransactionIsReviewed ==
  [][(/\ G_context'.req_type = "CONFIRM_TOKEN_TRANSACTION"
      /\ ~G_context.m_hash.set /\ G_context'.m_hash.set) => page' = "review"]_vars
=============================================================================
