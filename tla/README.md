# HardMail: TLA+ models, checks and proofs

HardMail is a Ledger application that signs emails. A host sends an email as an
APDU payload in chunks; the device parses it, shows every field on its trusted
screen, and signs its SHA-256 with an ed25519 key once the user holds to sign.
The claim of the repository's README is that *the signature binds the display*:
what is signed is exactly what the human read. This directory states that claim
and the others the code rests on, checks them with TLC on small instances and
proves all of the safety properties with TLAPS for all instances.

Paths below are relative to the repository; the application is in `src/`.

## 1. Inventory

| Part | Source | State | Operations |
|---|---|---|---|
| Email payload codec | `transaction/deserialize.c`, `serialize.c`, `tx_types.h` | none (pure) | parse, write |
| APDU loop, dispatcher | `app_main.c`, `apdu/dispatcher.c` | `G_context` (reset at start) | start, receive, refuse, dispatch, end |
| Email signing flow | `handler/sign_tx.c`, `ui/action/validate.c`, `helper/send_reponse.c` | `G_context.state`, `req_type`, `bip32_path`, `tx_info` | chunk 0, later chunks, parse and hash, sign, reject |
| Email review screen | `ui/nbgl_display_transaction.c` | static display buffers | open the review, choice callback |
| Public key, address review | `handler/get_public_key.c`, `ui/nbgl_display_address.c`, `address.c` | `G_context.pk_info`, `g_address` | derive, show, confirm, reject |
| Version, name | `handler/get_version.c`, `get_app_name.c` | none | answer |
| Token metadata | `handler/provide_token_info.c`, `token/*.c` | `g_dynamic_token_info` (RAM) | provide, look up |
| Home and settings | `ui/menu_nbgl.c`, `globals.h` | `N_storage` (flash), `switches`, `initSettingPage` | touch a switch, answer the warning, show |
| Swap library | `swap/*.c`, the `HAVE_SWAP` parts of `handler/sign_tx.c` | `G_called_from_swap`, `G_swap_validated`, `G_swap_response_ready` | print an amount, check an address, copy the deal, sign without a page, return to Exchange |
| Signing client | `tests/application_client/email_payload.py`, `boilerplate_command_sender.py` | the call in progress | write the payload, cut it into chunks, exchange them, wait for the answer |
| Memo helpers | `transaction/utils.c` | none | called by a unit test and the fuzzer only |

**How they interact.** There is one thread. `app_main` receives a command, the
dispatcher checks its parameters and calls a handler, which runs to its end. A
handler that needs the user's consent opens an NBGL page and returns *without a
reply*; while the loop waits for the next command, NBGL calls the page's
callback, which acts on `G_context` as it is **then**, answers, shows a status
page and finally calls `ui_menu_main`. All handlers share `G_context`, in which
`pk_info` and `tx_info` are a C union.

**What is hard.** The callback uses state written by an earlier command; the
signing flow spans many commands and accepts a chunk by its request type alone
(neither the state nor the chunk index is checked), so flows can be continued
after an approval, a rejection or an error; every step that calls the SDK can
fail after some of its effects; the application can be ended at any moment; the
static display buffers, the RAM token slot and the flash outlive the operation
that wrote them; the wire format has a dozen length boundaries; a transfer is a
sequence of exchanges between which other programs and restarts may come; and
the swap library is entered with the globals an earlier session left. Each of
these is listed, at its line, under `hazards` in `PROJECT.json`.

**What makes each part correct.** Codec: what is accepted is canonical, is
determined by what the screen shows, and is accepted at exactly the documented
limits. Flow: a signature is over a payload that was displayed in full, at most
one review per chunk 0, one reply per command, nothing stale survives in shared
memory. Address: the key that leaves is the key whose address was shown. Token
slot: a lookup never mixes descriptors, and the reply to the descriptor tells
what a lookup will find. Settings: screen and flash agree, and restarts change
nothing. Device: no setting is written under an open review. Client: what is
reviewed and signed is the whole email of the call in progress, or else the
client can tell. Swap: what is signed is what
Exchange displayed, once.

## 2. Modules

| Module | What it is |
|---|---|
| `EmailCodec` | the parser, the writer and the rendering of the review pairs, as operators on byte sequences |
| `EmailChannel` | the codec's environment: an email is written, bytes are changed, inserted or lost, the device parses the rest |
| `ClearSigning` | abstract specification: at most one document on the screen, and only that document can be signed |
| `HardMailApp` | the application: loop, dispatcher, handlers, pages, callbacks, failures, restarts |
| `TokenInfo` | the token slot, the descriptor checks and the lookup |
| `SettingsMenu` | the settings in flash, in the switches and on the screen |
| `HardMailDevice` | the composition of `HardMailApp`, `SettingsMenu` and `TokenInfo`: one life cycle, one screen, one thread |
| `SigningClient` | the composition of the client of `tests/application_client` with `HardMailApp`, other programs and restarts |
| `Swap` | the application as the library of Exchange: sessions one after the other |
| `MC*` | constants for TLC |
| `*Proofs` (one for each of the above but `ClearSigning`) | theorems |

`PROJECT.json` maps every definition to the lines it stands for; names are the
code's where TLA+ allows it.

**EmailCodec.** A `buffer_t` is its payload and an offset. `transaction_deserialize`
returns the status of the first check that fails, in the code's order;
`email_t` is the record of slices its pointers denote; `transaction_serialize`
writes the head and the attachment (`HeadBytes`, `TailBytes`) with the casts of
the code (`LowDigit` is the cut to a byte), `<< >>` is its -1. The alphabet is a parameter: `Radix` values of a byte, some `Printable`,
one `Newline`, the rest (NUL among them) refused. `ReviewPairs` is what the
screen renders: `copy_field` into a buffer of the code's size, up to the first
NUL; hexadecimal; and `"%s (%u bytes)"`, of which the name, the opening
parenthesis and the number are kept, since only they can make two attachments
look alike.

**HardMailApp.** `G_context`, the two static display buffers, the page NBGL
shows, and three histories (signatures, addresses, reviews) that properties
refer to. One action per handler and per callback; the checks of the dispatcher
guard them, and `DispatchRefuses`/`MalformedApdu` are the commands that stop
there. `pending` counts the commands that are not answered yet. SHA-256, the
address and key derivation are injective functions: collisions, and which bytes
of the key the address hashes, are out of scope. Each SDK call that the code
tests for failure may fail (derivation, compression, address digest, payload
digest, signature), leaving what was already written. Three error branches
cannot be taken and are left out: `format_hex` with buffers of exact size, and
`buffer_move` after the bound was checked. `AppExit` (quit, transport failure,
power loss, a negative result of the dispatcher) can happen between any two
handlers.

**TokenInfo.** The SDK's verdict on the descriptor (structure, signature,
version, application name) is a Boolean of the descriptor; the coin type and the
TUID, the application's own TLV, are checked as in the code. Two histories,
`provided` and `accepted`, remember the last descriptor and the last one that
names a token.

**SettingsMenu.** A setting exists three times: flash, `initState`, and the
switch as drawn. NBGL draws pages from the initStates and flips the drawn switch
on a touch before it calls `controls_callback`. A review may replace any page,
the warning included (NBGL keeps one choice callback, so the replaced one is
gone). `touches` and `writes` are histories. The virgin flash is all zero, as
`N_storage_real` has no initialiser.

**HardMailDevice.** `INSTANCE`s of the menu and the token slot beside the
application. A command that opens a review is at the same time the menu's
`ReviewOpens`; the end of a status page is `ui_menu_main`; start and end are
joint; a descriptor is one step of slot and reply. The application sees every
page of the menu as `home`, the menu every review and status page as `other`.
`Sent` are the descriptors the host sends.

**SigningClient.** `client` is the call: phase, instruction, path, email, index of
the next chunk, outcome. `serialize` is the client's own writer, not the device's.
Between two exchanges other programs send any command (`OtherCommand`), also
those that sign (`OtherSigns`: a chunk 0, or any of `OtherChunks`, in any order
and number), the user answers pages, the application ends and starts again.
Chunks carry no mark of their call, so another program that sends *the same*
signing instruction in the middle of a call can continue, restart or end its
flow; the history `intruded` records that this happened, and the properties of
the call distinguish the two cases. A chunk that is not
acknowledged with success raises, as `exchange` does; the last chunk waits. The
client never retries. Emails are enumerated as `email_t` records with ASCII text.

**Swap.** The library is compiled under `HAVE_SWAP`, which the Makefile leaves
off (`Makefile:124`), and it reads fields (`value`, `fee`, `to`) that `email_t`
no longer has; it is modelled as written. A `deal` is what Exchange holds, `shown`
the texts it was given for it. Amounts are big-endian byte strings that
`swap_str_to_u64` (external) folds, coin configurations absent, malformed or a
coin; addresses are hexadecimal texts, whose lower case the copy converts and
the check does not. Formatting a number is the pair of value and decimals, empty
where `format_fpu64` has no room (the room left by the digits is not modelled:
no property depends on the text of a coin other than the native one). Reads of
the path are not tested for failure, so after data that is cut short the path is
any path; nor is the digest of the key, after whose failure the address that is
compared is all zero. Entering the library
clears no global; `swap_copy_transaction_parameters` does, once it accepted the
deal.

**Assumptions about code outside `src/`**, marked external in the map: the SDK's
buffer reads fail when bytes are missing; the transport is half-duplex, so a
command is handed over only when the previous one was answered (`HostMaySend`);
NBGL calls the choice callback of the current page once; `nvm_write` of one
setting is atomic.

## 3. Runs

| Run | Shows | States |
|---|---|---|
| `email_channel` | any two edits of six written emails: `RoundTrip`, `DisplayDeterminesPayload`, `PrefixFree` | 63,767 |
| `email_limits` | the device's real constants, every field at 0, 1, max, max+1, printable text: `AcceptedIffWithinLimits` | 304 |
| `app` | all orders of commands, chunks, choices, failures, restarts: seven invariants, the refinement of `ClearSigning`, and `CommandAnswered` under fairness | 64,952 |
| `token_info` | all sequences of descriptors and restarts: `LookupIsOfOneDescriptor` | 17,290 |
| `settings` | touches, warnings, reviews, restarts: `ScreenShowsStorage`, `WarningOnlyToAllow`, `FlashWear`, `WarningReturnsToItsPage`, `SettingsSurviveRestart` | 520 |
| `device` | the three parts as one program: `FlashIdleDuringReview`, `ReplyTellsTheSlot` | 245,213 |
| `signing_client` | a client, other programs, other signers, restarts: `ReviewedIsSent`, `ReviewShowsTheEmail`, `ChunksFit`, `SignatureIsForTheCall`, `VerifiedWasReviewed`, and `CallEnds` under fairness | 80,231 |
| `swap` | sessions with Exchange: `SignedAsShown`, `SessionSignsOnce`, `ConfirmedAddressIsDerived` | 234,960 |

Four more runs expect a violation; each states what a document or comment says
and shows that the code does otherwise (section 5).

**Bounds.**
- `email_channel`: bytes have 5 values, so that NUL, newline, numerals, the
  parenthesis and length bytes coincide in all ways; field limits 1, 2 and 6
  give lengths below, at and above each limit; two edits suffice to change a
  length and the text that follows it. The limits themselves are checked with
  the real constants in `email_limits`.
- `app`: two payloads of 11 bytes that share a first part, cut in two chunks,
  and a buffer of 16 bytes: payloads can be completed, mixed, extended beyond
  completion and overflow. P1 in 0..2 with `P1_MAX` 1 and P2 in {0, 1, 128} hit
  each parameter check. One path and one truncated path.
- `token_info`: a hardcoded address and a foreign one, TUIDs of up to two
  entries (absent, duplicate, unknown tag, wrong length).
- `settings`: `MaxTouches` 4 turns both switches on and off; three pages, one
  switch to a page.
- `device`: one payload in one chunk, one path, three descriptors (accepted, not
  signed, without a token), one touch. The parts alone have larger instances;
  here what matters is which step of one meets which state of another, and one
  of each suffices for every pair.
- `signing_client`: chunks of 9 bytes, a buffer of 18, which holds two, and
  `P1_MAX` 3, the index of the last chunk of the longest email. The client's
  emails: one of exactly two full chunks, which the device reviews, one of three
  chunks, which the buffer does not hold, and one the client refuses. Other
  programs send the chunks of the first email and of one that differs from it in
  the first chunk only: the chunks of two calls can make up either email, their
  reviews can be told apart, and so can a signature of a flow that is not the
  client's. Two paths. `VIEW MCView` leaves out the last reply, the address
  buffer and the histories of signatures and addresses, on which no guard of the
  composition and no property of the run depends.
- `swap`: bytes of four values and a `uint64_t` of two bytes, amounts with
  leading zeros, at the width and above it; addresses of one byte in both cases;
  the native coin absent and spelled out, with the right and the wrong decimals,
  a token with more decimals than the text has room for; two paths with
  different addresses, neither of them zero, and the text of the zero address.

**Deadlock** is checked everywhere except for the email channel, which really
stops after its last edit.

**Fairness.** `app` (`FairSpec`): weak fairness of the user's choice on a page
that waits (the page stays until it is answered), and of the status page's
timer. Nothing is assumed of the host. The application may also end, which
answers nothing and owes nothing. `signing_client` (`CFairSpec`): weak fairness
of the user's choice, and strong fairness of the client's next exchange. The
client's code goes on without a condition; strong, because the device is not
ready while another program's page is open, so an exchange is possible again and
again, not continuously: the transport must not starve the client for ever.

## 4. Proofs

TLAPS proves, for every alphabet, limits, chunks, paths and sets of constants
that satisfy the named assumptions (`RadixAssumption`, `LengthAssumption`,
`CharAssumption`, `AttachmentLineAssumption`, `AppAssumption`,
`ChannelAssumption`, `EmailsAssumption`, `TokenAssumption`, `MenuAssumption`,
`DeviceAssumption`, `ClientAssumption`, `SwapAssumption`). Of those on the codec
three are worth a look: the numerals are distinct and none is the parenthesis;
`g_attachment` has room for twice the numerals of the largest 16-bit number (12
of its 40 extra bytes; the wording that is left out takes 8); and the emails of
the channel fit the widths of `email_t` (`FitsWidths`), their digests have
`ATT_HASH_LEN` bytes.

The results:

- **`AcceptedPrefixFree`**: two accepted payloads, one a prefix of the other,
  are equal. The offsets at which the parser finds each length depend only on
  bytes before them, so both payloads have the same field boundaries and, by the
  exact fit, the same length.
- **`AcceptedIsCanonical`**: the writer, given the email an accepted payload is
  parsed into, writes that payload. The payload is cut at the parser's offsets
  into adjacent slices (`CanonicalHead`, `CanonicalTail`); each slice is what the
  writer produces for the field, because a byte is the remainder, and a two- or
  four-byte number the sequence of remainders, it was read from (`DivUnique`,
  `TwoDigits`, `SizeBytesOfU32`). `ChannelRoundTrip` follows.
- **`WrittenIsParsed`** (lemma), the other direction: in what the writer writes
  for an email that fits its widths, the parser's offsets are the sums of the
  lengths and its slices the fields (`ParsedAs`). Each part is found by its
  position in the concatenation (`PartAt`). From it **`ChannelLimits`** (all
  checks but the length ones hold of printable text) and
  **`ReviewIsOfTheEmail`** (client).
- **`ReviewDeterminesPayload`**: the review pages of an accepted payload determine
  it. `copy_field` is the identity on accepted texts (no NUL, and the buffer has
  the length of the limit plus one: `ShownField`, `ShownBody`); two digits
  determine a byte (`HexInjective`); the last parenthesis of the attachment line
  separates name and size (`WholeLineInjective`), the line is not cut
  (`SizeFits`), and different numbers have different numerals
  (`DecimalInjective`); so all fields are equal, and equal fields are written
  alike. `ChannelDisplay` follows.
- `Decimal` and the fold of `swap_str_to_u64` are recursive functions. Induction
  theorems cannot be instantiated, so what they compute is proved by **least
  counterexample**: `WFMin` gives the least element of the set of arguments for
  which a claim fails (`LeastElement`). In this way a table of any size exists
  (`TableExists`), tables agree, hence the `CHOOSE` behind the recursive
  definition has a solution (`DecimalUnfold`, `BigEndianValue`); and then
  `DecimalType`, `DecimalInjective`, `DigitsMonotone`, `DigitsOfProduct` (the
  numerals of a number below a product are at most those of both factors) and
  `ValueFits`.
- **`InductiveInvariant`** and what follows from it: `TypeCorrect`,
  `SignatureBinding`, `AtMostOneReview`, `ExactlyOneReply`, `UnionIsSafe`,
  `AddressBinding`, `ApprovalIsBacked`. `SignatureBindsDisplay` is not inductive
  by itself: it needs that *while the review is open* the context still holds
  the payload that was parsed, hashed and copied to the buffers
  (`ReviewIsCurrent`), which needs that no command is handled then, which is
  `OneReplyPerCommand`. `OneReviewPerFlow` needs `FlowExtendsReview`: the
  payload accumulated since a review has the reviewed payload as a prefix; a
  second review would need a longer accepted payload, which
  `AcceptedPrefixFree` excludes, or an empty chunk, which the dispatcher
  refuses.
- **`ApprovalNamesThePayload`** joins the two: the payload a signature is over is
  the only accepted payload displayed like the pages the user approved.
- **`Implementation`**: `Spec => ImplementsClearSigning`. A command that opens a
  review maps to `Show`, an approval to `Sign`, a rejection, a failed signature
  and the end of the application to `Dismiss`, every other step to a stutter.
- **`LookupIsCurrent`**, `TokenTypeCorrect`: the slot is always the one the last
  descriptor leaves, a good last descriptor is the last good one, and the
  handler's checks accept a TUID exactly when it is
  one well-formed address.
- **`ScreenIsFaithful`**, `ConfirmationAllows`, `FlashIsSpared`,
  `RestartKeepsSettings`, `WarningPageIsRestored`, `MenuTypeCorrect`: while the application runs the initStates equal the
  flash; a flash that was never initialised has every setting off, so that
  initialising it after the menu was drawn changes nothing; the touch that
  opened a warning has not written yet; and while a warning is open
  `initSettingPage` is the page of its switch.
- **`DeviceImplementsApp`**, `DeviceImplementsMenu`, `DeviceImplementsTokens`:
  every step of the composition is a step or a stutter of each part, so the
  theorems about the parts hold of the device. `NoWriteDuringReview` follows from
  the application's invariant (a command waits only while a review is open) and
  from the agreement of the two views the parts have of the one screen (the lemma
  `ScreensAgree`); `ProvideReplyIsTrue` from the fact that `DescriptorOk`, which decides
  the reply, is what decides the slot.
- **`ClientRefinesApp`**: client, other programs and restarts only take steps of
  `HardMailApp`. From `InductiveInvariant` and `ClientInv` follow
  **`ReviewIsOfTheCall`**, `PayloadFitsChunks`, `SignatureForTheCall`,
  `ClientTypeCorrect` and **`ReviewIsOfTheEmail`**, for which the client's writer
  is shown to write the same bytes as the device's (`SerializeIsWritten`).
  `ClientInv` says that while a call sends and nobody intruded, the context either
  holds the call's path and exactly the bytes acknowledged so far, or shows by its
  `req_type` that something else took it over, which a later chunk of the call
  cannot undo: a restart clears `req_type`, an address command and a flow of the
  other signing instruction replace it. The index stays within `P1_MAX` because
  each acknowledged chunk but the last is full and every payload the client can
  write has at most `P1_MAX * MAX_APDU_LEN` bytes (2627 and 16 * 255 in the code).
- **`VerifiedSignatureWasReviewed`** has no such condition: whatever other
  programs send, if the signature a call returns is one for the digest of its
  payload, the pages that were approved show the client's email. It follows from
  the application's invariant (the review is of the payload in the context, whose
  digest is what is signed), the injectivity of the digest and
  `SerializeIsWritten`. What is lost when another program intrudes is therefore
  only that the client gets *some* answer for *its* email, and verifying the
  signature, as the repository's tests do, tells.
- **`SwapSignsWhatWasShown`**, `SwapSignsOnce`, `SwapAddressIsDerived`: while a
  session runs, what was copied is a function of the deal whose texts were shown,
  and the guard against a second signature is clear until there is one. Flags of
  an earlier session are cleared by the copy before the loop reads them.
- **`SwapTypeCorrect`**: a byte string of at most `U64_LEN` bytes folds to at most
  `UINT64_MAX`, the fold of as many bytes 0xff, so what is committed after the
  length check is a `uint64_t`. It uses `SwapInv`: a signature is recorded only
  while there is a deal and its texts.

**Only model-checked.** `CommandAnswered` and `CallEnds`: liveness under fairness
is out of the prover's reach. The four properties of section 5 are violated. All
other properties of the runs are theorems.

## 5. Where documents and code disagree

1. `review_after_refused_start`: a chunk 0 whose path is refused leaves the
   request type set, so the flow is open and can reach a review and a signature
   with whatever path was left in the context (`handler/sign_tx.c:81`).
2. `signed_page_without_signature`: if the signature fails, the host gets 6600
   and the screen says it was signed (`ui/nbgl_display_transaction.c:53`).
3. `token_flow_not_reviewed`: `SIGN_TOKEN_TX` is documented as signing after a
   review, and the code comments say it clear-signs the same email; it is always
   refused after parsing and hashing (`ui/nbgl_display_transaction.c:61`).
4. `token_persists`: a refused descriptor erases the token in the slot, which is
   documented to stay until the application ends or a new token is provided
   (`handler/provide_token_info.c:138`). The other properties of the token slot
   leave open which of the two it should be.

Four more, seen while modelling, have no run of their own:

- With an attachment the fields can each be within the bounds of README.md:59-61
  and the payload still exceed the 2600 bytes of `MAX_TX_LEN`
  (`transaction/deserialize.c:63`): with the other fields at their maximum, names
  of 38 to 64 characters are refused. `AcceptedIffWithinLimits` therefore has
  the length of the payload as a second condition.
- `email_payload.py` says it mirrors the parser exactly; it lets through control
  characters and payloads of more than 2600 bytes, which the device refuses. One of
  the emails of `signing_client` is of the second kind.
- `swap_handle_check_address` ignores the result of `address_from_pubkey`
  (`swap/handle_check_address.c:79`). When the digest of the key fails
  (`address.c:40-42`) the address that is compared is all zero, and the text of
  forty zeros is confirmed, although the function is there to "check that the
  address used to receive funds is owned by the device" (line 16). The model has
  this branch, and `ConfirmedAddressIsDerived` excepts exactly this address; TLC
  refutes the property without the exception. The code is not built.
- `swap_handle_check_address` derives on `CX_CURVE_256K1`, `GET_PUBLIC_KEY` on
  `CX_CURVE_Ed25519`: the address the device displays for a path is not the one
  that the check confirms (`swap/handle_check_address.c:67`).

## 6. Not modelled

The memo helpers (`transaction/utils.c`: stateless, and no code of the
application calls them), the application's tests and its fuzzer, icons, build and CI files, the wording and layout of
pages, elliptic-curve arithmetic and hash functions, the BIP32 path encoding,
the SDK's TLV parser and PKI.

## 7. Plan

Done: the codec and its channel; the application with its abstract
specification and the proof that it implements it; the token slot; the settings;
their composition; the client and the device; the swap library.

Every safety property that a run checks is proved.

Next, in this order:

1. The theorems of the parts restated for `HardMailDevice` through its
   refinements.
2. The replies byte by byte (`helper/send_reponse.c`: lengths of key, chain code
   and signature).
