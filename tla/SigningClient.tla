--------------------------- MODULE SigningClient ---------------------------
(***************************************************************************)
(* The host's side of a signing flow (tests/application_client: Email in   *)
(* email_payload.py writes the payload, _sign_transaction of               *)
(* boilerplate_command_sender.py cuts it into chunks and sends them),      *)
(* composed with the device of HardMailApp.                                *)
(*                                                                         *)
(* A call is a sequence of exchanges, and between two of them anything may *)
(* happen to the device: another program sends any command, those that     *)
(* sign included, the user answers a page, the application ends and starts *)
(* again.  Neither side numbers the flow: the client only knows that each  *)
(* chunk was acknowledged.                                                 *)
(***************************************************************************)
EXTENDS HardMailApp

CONSTANTS
  MAX_APDU_LEN,   \* bytes in a chunk
  Emails,         \* the emails a test signs, as email_t records
  OtherChunks     \* the data of the chunks other programs send

VARIABLES
  client,         \* the call in progress: its phase, arguments and next chunk
  intruded        \* history: another program sent the call's own instruction meanwhile

cvars == <<vars, client, intruded>>

-----------------------------------------------------------------------------
(* email_payload.py                                                        *)
\* Characters are ASCII here: encode("ascii") raises for any other.
TextFieldOk(value, max_len) == Len(value) \in 1 .. max_len

\* The assertions of the two serialize methods; to_bytes(4) raises for a size that has
\* more than four bytes.
Serializable(m) ==
  /\ Len(m.challenge) = CHALLENGE_LEN
  /\ TextFieldOk(m.from, MAX_FROM_LEN)
  /\ TextFieldOk(m.to, MAX_TO_LEN)
  /\ TextFieldOk(m.subject, MAX_SUBJECT_LEN)
  /\ TextFieldOk(m.body, MAX_BODY_LEN)
  /\ m.has_attachment = 1 =>
       /\ TextFieldOk(m.att_name, MAX_ATT_NAME_LEN)
       /\ m.att_size < Radix * Radix * Radix * Radix

text_field(value) == <<Len(value)>> \o value
TwoBytes(n) == <<n \div Radix, n % Radix>>
FourBytes(n) == TwoBytes(n \div (Radix * Radix)) \o TwoBytes(n % (Radix * Radix))

\* Mutant: the subject is written before the recipient.
serialize_reordered(m) ==
  m.challenge \o text_field(m.from) \o text_field(m.subject) \o text_field(m.to)
    \o TwoBytes(Len(m.body)) \o m.body \o <<0>>

serialize(m) ==
  m.challenge \o text_field(m.from) \o text_field(m.to) \o text_field(m.subject)
    \o TwoBytes(Len(m.body)) \o m.body
    \o IF m.has_attachment = 1
       THEN <<1>> \o text_field(m.att_name) \o FourBytes(m.att_size) \o m.att_hash
       ELSE <<0>>

-----------------------------------------------------------------------------
(* boilerplate_command_sender.py                                           *)
\* split_message: the i-th slice of max_size bytes, the last one is what remains.
split_message(message, max_size, i) ==
  SubSeq(message, (i - 1) * max_size + 1, Shorter(i * max_size, Len(message)))

\* Mutant: a message of full slices is followed by an empty one.
IsLast_empty_slice(message, max_size, i) == i * max_size > Len(message)

\* messages[-1] as against messages[:-1].
IsLast(message, max_size, i) == i * max_size >= Len(message)

\* There is an index for each chunk of an email the client can write: at most 2627 bytes in
\* 16 chunks of 255.
ASSUME ClientAssumption ==
  /\ MAX_APDU_LEN \in Nat \ {0}
  /\ 0 .. P1_MAX \subseteq P1s /\ {P2_LAST, P2_MORE} \subseteq P2s
  /\ P1_MAX # 0 /\ OtherChunks \subseteq Chunks /\ Emails \subseteq EmailRecords
  /\ \A m \in Emails : Serializable(m) =>
       /\ Len(serialize(m)) <= P1_MAX * MAX_APDU_LEN
       /\ \A i \in 1 .. P1_MAX :
            (i - 1) * MAX_APDU_LEN < Len(serialize(m)) =>
              split_message(serialize(m), MAX_APDU_LEN, i) \in Chunks

FirstIndex == P1_START + 1

Idle(outcome) == [client EXCEPT !.phase = "idle", !.idx = FirstIndex, !.outcome = outcome]
Raised == Idle("raised")                \* ExceptionRAPDU or a transport error

Payload == serialize(client.email)
Chunk == split_message(Payload, MAX_APDU_LEN, client.idx)
More == ~IsLast(Payload, MAX_APDU_LEN, client.idx)

\* sign_tx or sign_token_tx is called: chunk 0 carries the packed path.
CallStarts ==
  \E ins \in {"SIGN_TX", "SIGN_TOKEN_TX"}, path \in Paths, m \in Emails :
    /\ client.phase = "idle" /\ Serializable(m)
    /\ Dispatched(ins, P1_START, P2_MORE, TRUE)
    /\ init_transaction_context(path, RequestType(ins))
    /\ client' = [phase |-> "sending", ins |-> ins, path |-> path, email |-> m,
                  idx |-> FirstIndex, outcome |-> "none"]
    /\ intruded' = FALSE

\* exchange raises when the status is not success.
AfterChunk == IF reply' = "success" THEN [client EXCEPT !.idx = @ + 1] ELSE Raised

\* The exchange of one chunk of messages[:-1].
SendChunk ==
  /\ client.phase = "sending" /\ More
  /\ Dispatched(client.ins, client.idx, P2_MORE, TRUE)
  /\ handler_sign_tx(Chunk, TRUE, RequestType(client.ins))
  /\ client' = AfterChunk
  /\ UNCHANGED intruded

\* exchange_async of the last chunk: a page is open, or the chunk was refused.
SendLastChunk ==
  /\ client.phase = "sending" /\ ~More
  /\ Dispatched(client.ins, client.idx, P2_LAST, TRUE)
  /\ \E data \in {Chunk} : handler_sign_tx(data, FALSE, RequestType(client.ins))
  /\ client' = IF reply' = "none" THEN [client EXCEPT !.phase = "waiting"] ELSE Raised
  /\ UNCHANGED intruded

\* The user answers a page; if it is the client's, get_async_response yields the answer.
UserAnswers ==
  /\ UserChoice
  /\ client' = IF client.phase # "waiting" THEN client
               ELSE IF reply' = "success" THEN Idle("signature") ELSE Raised
  /\ UNCHANGED intruded

\* Mutant: the client goes on waiting.
DeviceEnds_unnoticed == AppExit /\ UNCHANGED <<client, intruded>>

\* The application ends; a client that waits for an answer is told by the transport.
DeviceEnds ==
  /\ AppExit
  /\ client' = IF client.phase = "waiting" THEN Raised ELSE client
  /\ UNCHANGED intruded

\* An exchange with an application that does not run.
DeviceGone ==
  /\ client.phase = "sending" /\ ~running
  /\ client' = Raised
  /\ UNCHANGED <<vars, intruded>>

\* Another program of the host, between two exchanges of the call.
OtherCommand ==
  /\ \/ MalformedApdu \/ DispatchRefuses \/ handler_get_constant
     \/ handler_provide_token_info \/ GetPublicKey
  /\ UNCHANGED <<client, intruded>>

\* Another program that signs: it starts a flow or sends a chunk of one.
OtherSigns ==
  \E ins \in {"SIGN_TX", "SIGN_TOKEN_TX"} :
    /\ \/ \E path \in Paths \cup {TruncatedPath} :
            /\ Dispatched(ins, P1_START, P2_MORE, TRUE)
            /\ init_transaction_context(path, RequestType(ins))
       \/ \E p1 \in P1s \ {P1_START}, p2 \in {P2_LAST, P2_MORE}, data \in OtherChunks :
            /\ Dispatched(ins, p1, p2, TRUE)
            /\ handler_sign_tx(data, p2 = P2_MORE, RequestType(ins))
    /\ intruded' = (intruded \/ (client.phase = "sending" /\ ins = client.ins))
    /\ UNCHANGED client

CInit ==
  /\ Init /\ intruded = FALSE
  /\ \E m \in Emails :
       client = [phase |-> "idle", ins |-> "SIGN_TX", path |-> NoPath, email |-> m,
                 idx |-> FirstIndex, outcome |-> "none"]

CNext ==
  \/ CallStarts \/ SendChunk \/ SendLastChunk \/ DeviceGone
  \/ UserAnswers \/ DeviceEnds \/ OtherCommand \/ OtherSigns
  \/ (StatusEnds \/ AppStart) /\ UNCHANGED <<client, intruded>>

CSpec == CInit /\ [][CNext]_cvars

\* The client goes on with its call: when the device is ready again and again, other
\* programs do not keep it from the transport for ever.  The user answers the pages.
CFairSpec ==
  /\ CSpec
  /\ SF_cvars(SendChunk \/ SendLastChunk \/ DeviceGone)
  /\ WF_cvars(UserAnswers)

-----------------------------------------------------------------------------
\* The types of the client's state; the index of a chunk stays a valid P1, however the
\* device's buffer was emptied under a payload that does not fit it.
CTypeOK ==
  /\ client \in [phase : {"idle", "sending", "waiting"}, ins : {"SIGN_TX", "SIGN_TOKEN_TX"},
                 path : Paths \cup {NoPath}, email : Emails, idx : 1 .. P1_MAX,
                 outcome : {"none", "raised", "signature"}]
  /\ intruded \in BOOLEAN

\* The page the client waits for is the review of the complete payload of its call, unless
\* another program sent the call's own instruction meanwhile.  Address flows, flows of the
\* other signing instruction, restarts: accumulate_transaction_data refuses the rest of a
\* transfer whose beginning was lost to them, although it checks neither the chunk index
\* nor a state.
ReviewedIsSent ==
  client.phase = "waiting" =>
    /\ page = "review"
    /\ ~intruded => G_context.raw_tx = Payload /\ G_context.bip32_path = client.path

\* End to end, from the Email object of the client to the device's screen: the pairs on
\* the review pages are the fields of the email the client was asked to sign.
ReviewShowsTheEmail ==
  client.phase = "waiting" /\ ~intruded => g_review = ReviewPairs(client.email)

\* A chunk the client sends is never stopped by its index, and a payload that fits raw_tx
\* is accumulated to its last byte unless another program took over the context.
ChunksFit ==
  client.phase = "sending" =>
    /\ DispatchError(TRUE, client.ins, client.idx, IF More THEN P2_MORE ELSE P2_LAST, TRUE)
         = "SWO_SUCCESS"
    /\ (/\ Len(Payload) <= MAX_TRANSACTION_LEN
        /\ ~intruded /\ G_context.req_type = RequestType(client.ins))
       => AccumulateError(Chunk, RequestType(client.ins)) = "SWO_SUCCESS"

\* The call returns a signature in this step.
Returns == client'.outcome = "signature" /\ client.outcome # "signature"

\* The signature the client gets is by the key of its path and over the digest of the email
\* it sent, never one an earlier call left in the context, unless another program sent the
\* same instruction meanwhile.
SignatureIsForTheCall ==
  [][Returns /\ ~intruded =>
       G_context'.signature = [by |-> client.path, digest |-> sha256(serialize(client.email))]
    ]_cvars

\* Whatever other programs sign, also into the client's own flow: if the signature the
\* client gets is one for its payload (check_signature_validity in test_sign_cmd.py), then
\* the pages the user has just approved were those of the client's email, however the
\* payload came together.
VerifiedWasReviewed ==
  [][Returns /\ G_context'.signature.digest = sha256(serialize(client.email)) =>
       page = "review" /\ g_review = ReviewPairs(client.email)]_cvars

\* A call always ends, with a signature or an exception, also when other programs use the
\* device between its exchanges and the application restarts.
CallEnds == (client.phase # "idle") ~> (client.phase = "idle")
=============================================================================
