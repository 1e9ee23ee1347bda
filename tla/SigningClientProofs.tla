------------------------ MODULE SigningClientProofs ------------------------
(***************************************************************************)
(* Proofs about a client that sends an email in chunks: for every set of   *)
(* emails, chunk size and buffer size that satisfy ClientAssumption.       *)
(***************************************************************************)
EXTENDS SigningClient, HardMailAppProofs

\* Bytes of the payload that were acknowledged.
Acknowledged == (client.idx - 1) * MAX_APDU_LEN

\* In the middle of a transfer the context holds the acknowledged bytes, unless its request
\* type shows that it was taken over or another program sent the same instruction.
TransferInProgress ==
  client.phase = "sending" =>
    /\ Serializable(client.email)
    /\ Acknowledged < Len(Payload)
    /\ ~intruded /\ G_context.req_type = RequestType(client.ins) =>
         /\ G_context.raw_tx = SubSeq(Payload, 1, Acknowledged)
         /\ G_context.bip32_path = client.path

\* The client waits for an open review, which is its own unless another program intruded.
ReviewIsAwaited ==
  client.phase = "waiting" =>
    /\ page = "review" /\ Serializable(client.email)
    /\ ~intruded => G_context.raw_tx = Payload /\ G_context.bip32_path = client.path

ClientInv == CTypeOK /\ TransferInProgress /\ ReviewIsAwaited

-----------------------------------------------------------------------------
\* Consecutive slices of a sequence make up a longer slice.
LEMMA SlicesJoin ==
  ASSUME NEW p \in Seq(Byte), NEW a \in Nat, NEW b \in Nat, a <= b, b <= Len(p)
  PROVE  SubSeq(p, 1, a) \o SubSeq(p, a + 1, b) = SubSeq(p, 1, b)
OBVIOUS

\* The slice of all elements is the sequence.
LEMMA WholeSlice ==
  ASSUME NEW p \in Seq(Byte)
  PROVE  SubSeq(p, 1, Len(p)) = p
OBVIOUS

\* A factor that is at least one is order preserving.
LEMMA FewerChunks ==
  ASSUME NEW i \in Nat, NEW n \in Nat, NEW m \in Nat, i * m < n * m
  PROVE  i < n
<1>1. SUFFICES ASSUME i >= n PROVE i * m >= n * m
  BY <1>1
<1>2. PICK d \in Nat : i = n + d
  <2>1. i - n \in Nat /\ i = n + (i - n)
    BY <1>1
  <2> QED BY <2>1
<1>3. i * m = n * m + d * m /\ d * m >= 0
  BY <1>2
<1> QED BY <1>3

\* Two pairs of bytes make up four bytes.
LEMMA PairsJoin ==
  ASSUME NEW a \in Byte, NEW b \in Byte, NEW c \in Byte, NEW d \in Byte
  PROVE  <<a, b>> \o <<c, d>> = <<a, b, c, d>>
<1> DEFINE s == <<a, b>>
           t == <<c, d>>
           u == s \o t
           v == <<a, b, c, d>>
<1>1. s \in Seq(Byte) /\ t \in Seq(Byte) /\ Len(s) = 2 /\ Len(t) = 2
  OBVIOUS
<1>2. s[1] = a /\ s[2] = b /\ t[1] = c /\ t[2] = d
  OBVIOUS
<1>3. v \in Seq(Byte) /\ Len(v) = 4
  OBVIOUS
<1>4. v[1] = a /\ v[2] = b /\ v[3] = c /\ v[4] = d
  OBVIOUS
<1> HIDE DEF s, t, v
<1>5. /\ u \in Seq(Byte) /\ Len(u) = Len(s) + Len(t)
      /\ \A i \in 1 .. Len(s) : u[i] = s[i]
      /\ \A i \in 1 .. Len(t) : u[Len(s) + i] = t[i]
  BY <1>1, ConcatParts, Zenon
<1> HIDE DEF u
<1>6. 1 \in 1 .. 2 /\ 2 \in 1 .. 2 /\ 2 + 1 = 3 /\ 2 + 2 = 4
  OBVIOUS
<1>7. u[1] = s[1] /\ u[2] = s[2] /\ u[3] = t[1] /\ u[4] = t[2]
  <2>1. u[2 + 1] = t[1] /\ u[2 + 2] = t[2]
    BY <1>1, <1>5, <1>6, Zenon
  <2> QED BY <1>1, <1>5, <1>6, <2>1, Zenon
<1>8. \A i \in 1 .. 4 : u[i] = v[i]
  <2>1. \A i \in 1 .. 4 : i = 1 \/ i = 2 \/ i = 3 \/ i = 4
    OBVIOUS
  <2> QED BY <1>2, <1>4, <1>7, <2>1, Zenon
<1>9. u \in Seq(Byte) /\ Len(u) = 4
  BY <1>1, <1>5, <1>6, Zenon
<1>10. u = v
  BY <1>3, <1>8, <1>9
<1> QED BY <1>10, Zenon DEF s, t, u, v

\* The client's writer and the device's write the same bytes: the lengths the client
\* asserts fit the widths of email_t, and to_bytes writes the digits that the casts leave.
LEMMA SerializeIsWritten ==
  ASSUME NEW m \in Emails, Serializable(m)
  PROVE  /\ FitsWidths(m)
         /\ serialize(m) = HeadBytes(m) \o TailBytes(m)
         /\ serialize(m) \in Seq(Byte) \ {<< >>}
<1>1. m \in EmailRecords
  BY ClientAssumption
<1>2. /\ m.challenge \in Seq(Byte) /\ m.from \in Seq(Byte) /\ m.to \in Seq(Byte)
      /\ m.subject \in Seq(Byte) /\ m.body \in Seq(Byte) /\ m.att_name \in Seq(Byte)
      /\ m.att_hash \in Seq(Byte) /\ m.att_size \in Nat /\ m.has_attachment \in {0, 1}
  BY <1>1 DEF EmailRecords
<1>3. \A s \in Seq(Byte), max \in 1 .. Radix - 1 :
        TextFieldOk(s, max) => Len(s) < Radix /\ text_field(s) = Prefixed(s)
  <2> SUFFICES ASSUME NEW s \in Seq(Byte), NEW max \in 1 .. Radix - 1, TextFieldOk(s, max)
               PROVE  Len(s) < Radix /\ text_field(s) = Prefixed(s)
    OBVIOUS
  <2>1. Len(s) \in Nat /\ Len(s) < Radix
    BY RadixAssumption DEF TextFieldOk
  <2>2. Len(s) \in Byte
    BY <2>1, RadixAssumption DEF Byte
  <2> QED BY <2>1, <2>2, LowDigitOfByte, Zenon DEF text_field, Prefixed
<1>4. /\ Len(m.from) < Radix /\ text_field(m.from) = Prefixed(m.from)
      /\ Len(m.to) < Radix /\ text_field(m.to) = Prefixed(m.to)
      /\ Len(m.subject) < Radix /\ text_field(m.subject) = Prefixed(m.subject)
  BY <1>2, <1>3, LengthAssumption, Zenon DEF Serializable
<1>5. Len(m.body) < Radix * Radix /\ TwoBytes(Len(m.body)) = BodyLength(Len(m.body))
  <2>1. Len(m.body) \in Nat /\ Len(m.body) < Radix * Radix
    <3> DEFINE S == Radix * Radix
    <3>1. MAX_BODY_LEN \in 1 .. S - 1 /\ Len(m.body) \in 1 .. MAX_BODY_LEN
      BY LengthAssumption DEF Serializable, TextFieldOk
    <3>2. S \in Nat /\ Len(m.body) \in Nat
      <4>1. \A r \in Nat : r * r \in Nat
        OBVIOUS
      <4> QED BY <1>2, <4>1, RadixAssumption
    <3> HIDE DEF S
    <3>3. Len(m.body) < S
      BY <3>1, <3>2
    <3> QED BY <3>2, <3>3 DEF S
  <2> QED BY <2>1, BodyLengthDigits, Zenon DEF TwoBytes
<1>6. ASSUME m.has_attachment = 1
      PROVE  /\ Len(m.att_name) < Radix /\ text_field(m.att_name) = Prefixed(m.att_name)
             /\ m.att_size \div (Radix * Radix) < Radix * Radix
             /\ FourBytes(m.att_size) = SizeBytes(m.att_size)
  <2>1. /\ TextFieldOk(m.att_name, MAX_ATT_NAME_LEN)
        /\ m.att_size < Radix * Radix * Radix * Radix
    BY <1>6, Zenon DEF Serializable
  <2>2. Len(m.att_name) < Radix /\ text_field(m.att_name) = Prefixed(m.att_name)
    BY <1>2, <1>3, <2>1, LengthAssumption, Zenon
  <2> DEFINE S == Radix * Radix
             z == m.att_size
  <2>3. S \in Nat /\ S > 0 /\ Radix * Radix * Radix * Radix = S * S
    <3>1. \A r \in Nat : r >= 2 => r * r \in Nat /\ r * r > 0 /\ r * r * r * r = (r * r) * (r * r)
      OBVIOUS
    <3> QED BY <3>1, RadixAssumption
  <2>4. z \in Nat /\ z < S * S
    BY <1>2, <2>1, <2>3, Zenon
  <2>5. z \div S < S
    <3> HIDE DEF S, z
    <3>1. z \div S \in Nat /\ z % S \in Nat /\ z = S * (z \div S) + (z % S)
      BY <2>3, <2>4, DivMod
    <3>2. \A x, y, w \in Nat : x * y + w < x * x => y < x
      <4> SUFFICES ASSUME NEW x \in Nat, NEW y \in Nat, NEW w \in Nat, y >= x
                   PROVE  x * y + w >= x * x
        OBVIOUS
      <4>1. x * y >= x * x
        OBVIOUS
      <4> QED BY <4>1
    <3> DEFINE q == z \div S
               r == z % S
    <3>3. q \in Nat /\ r \in Nat /\ S * q + r < S * S
      BY <2>4, <3>1, Zenon
    <3> HIDE DEF q, r
    <3>4. q < S
      BY <2>3, <3>2, <3>3
    <3> QED BY <3>4 DEF q
  <2>6. PICK a \in Byte, b \in Byte, c \in Byte, d \in Byte :
          /\ SizeBytes(z) = <<a, b, c, d>>
          /\ z = (a * Radix + b) * Radix * Radix + (c * Radix + d)
          /\ a * Radix + b = z \div S
          /\ c * Radix + d = z % S
    BY <2>4, <2>5, SizeDigits, Zenon
  <2>7. TwoBytes(z \div S) = <<a, b>> /\ TwoBytes(z % S) = <<c, d>>
    <3>1. /\ (a * Radix + b) \div Radix = a /\ (a * Radix + b) % Radix = b
          /\ (c * Radix + d) \div Radix = c /\ (c * Radix + d) % Radix = d
      BY TwoDigits, Zenon DEF LowDigit
    <3> QED BY <2>6, <3>1, Zenon DEF TwoBytes
  <2>8. <<a, b>> \o <<c, d>> = <<a, b, c, d>>
    BY PairsJoin
  <2>9. FourBytes(z) = SizeBytes(z)
    BY <2>6, <2>7, <2>8, Zenon DEF FourBytes
  <2> QED BY <2>2, <2>5, <2>9, Zenon
<1>7. FitsWidths(m)
  BY <1>4, <1>5, <1>6, Zenon DEF FitsWidths, Serializable
<1>8. serialize(m) = HeadBytes(m) \o TailBytes(m)
  <2>1. m.has_attachment = 1 <=> m.has_attachment # 0
    BY <1>2
  <2> QED BY <1>4, <1>5, <1>6, <2>1, Zenon DEF serialize, HeadBytes, TailBytes
<1>9. serialize(m) \in Seq(Byte) /\ ParsedAs(serialize(m), m)
  BY <1>1, <1>7, <1>8, SerializeType, WrittenIsParsed, Zenon
<1>10. serialize(m) # << >>
  <2>1. CHALLENGE_LEN + 1 <= Len(serialize(m))
    BY <1>9, Zenon DEF ParsedAs
  <2>2. ~(CHALLENGE_LEN + 1 <= 0) /\ Len(<< >>) = 0
    BY LengthAssumption
  <2> QED BY <2>1, <2>2, Zenon
<1> QED BY <1>7, <1>8, <1>9, <1>10, Zenon

\* What the client sends next.
LEMMA ChunkFacts ==
  ASSUME ClientInv, client.phase = "sending"
  PROVE  /\ Payload \in Seq(Byte)
         /\ client.idx \in 1 .. P1_MAX /\ P1_MAX \in Nat
         /\ Acknowledged \in Nat /\ client.idx * MAX_APDU_LEN = Acknowledged + MAX_APDU_LEN
         /\ MAX_APDU_LEN \in Nat \ {0}
         /\ Chunk \in Chunks /\ Chunk # << >> /\ Chunk \in Seq(Byte)
         /\ Chunk = SubSeq(Payload, Acknowledged + 1,
                           Shorter(Acknowledged + MAX_APDU_LEN, Len(Payload)))
         /\ More <=> Acknowledged + MAX_APDU_LEN < Len(Payload)
<1>1. /\ client.email \in Emails /\ client.idx \in 1 .. P1_MAX
      /\ Serializable(client.email) /\ Acknowledged < Len(Payload)
  BY DEF ClientInv, CTypeOK, TransferInProgress
<1>2. MAX_APDU_LEN \in Nat \ {0} /\ P1_MAX \in Nat
  BY ClientAssumption, AppAssumption
<1>3. /\ Acknowledged \in Nat
      /\ client.idx * MAX_APDU_LEN = Acknowledged + MAX_APDU_LEN
  <2>1. PICK k \in Nat : client.idx = k + 1
    <3>1. client.idx - 1 \in Nat /\ client.idx = (client.idx - 1) + 1
      BY <1>1, <1>2
    <3> QED BY <3>1
  <2>2. k * MAX_APDU_LEN \in Nat /\ (k + 1) * MAX_APDU_LEN = k * MAX_APDU_LEN + MAX_APDU_LEN
    BY <1>2, <2>1
  <2>3. client.idx - 1 = k
    BY <2>1
  <2> QED BY <2>1, <2>2, <2>3 DEF Acknowledged
<1>4. Payload \in Seq(Byte) /\ Chunk \in Chunks
  BY <1>1, ClientAssumption, SerializeIsWritten DEF Payload, Chunk, Acknowledged
<1>5. Chunk = SubSeq(Payload, Acknowledged + 1,
                     Shorter(Acknowledged + MAX_APDU_LEN, Len(Payload)))
  BY <1>3 DEF Chunk, split_message, Acknowledged
<1>6. More <=> Acknowledged + MAX_APDU_LEN < Len(Payload)
  BY <1>2, <1>3, <1>4 DEF More, IsLast
<1>7. Chunk \in Seq(Byte) /\ Chunk # << >>
  BY <1>4, AppAssumption
<1> QED BY <1>1, <1>2, <1>3, <1>4, <1>5, <1>6, <1>7

\* A chunk that is accepted extends the acknowledged bytes.
LEMMA ChunkAccepted ==
  ASSUME Inductive, ClientInv, client.phase = "sending", ~intruded,
         AccumulateError(Chunk, RequestType(client.ins)) = "SWO_SUCCESS"
  PROVE  /\ accumulate_transaction_data(Chunk).raw_tx =
              SubSeq(Payload, 1, Shorter(Acknowledged + MAX_APDU_LEN, Len(Payload)))
         /\ accumulate_transaction_data(Chunk).bip32_path = client.path
<1> DEFINE b == Shorter(Acknowledged + MAX_APDU_LEN, Len(Payload))
<1>1. G_context \in Contexts
  BY DEF Inductive, TypeOK
<1>2. G_context.req_type = RequestType(client.ins)
  BY DEF AccumulateError
<1>3. /\ G_context.raw_tx = SubSeq(Payload, 1, Acknowledged) /\ Acknowledged < Len(Payload)
      /\ G_context.bip32_path = client.path
  BY <1>2 DEF ClientInv, TransferInProgress
<1>0. /\ Payload \in Seq(Byte) /\ Len(Payload) \in Nat
      /\ Acknowledged \in Nat /\ MAX_APDU_LEN \in Nat
      /\ Chunk = SubSeq(Payload, Acknowledged + 1, b)
  BY ChunkFacts
<1>4. b \in Nat /\ Acknowledged <= b /\ b <= Len(Payload)
  BY <1>3, <1>0 DEF Shorter
<1> HIDE DEF b
<1>5. SubSeq(Payload, 1, Acknowledged) \o SubSeq(Payload, Acknowledged + 1, b)
        = SubSeq(Payload, 1, b)
  BY <1>0, <1>4, SlicesJoin
<1>6. G_context.raw_tx \o Chunk = SubSeq(Payload, 1, b)
  BY <1>3, <1>0, <1>5, Zenon
<1>7. /\ accumulate_transaction_data(Chunk).raw_tx = G_context.raw_tx \o Chunk
      /\ accumulate_transaction_data(Chunk).bip32_path = G_context.bip32_path
  BY <1>1 DEF accumulate_transaction_data, Contexts
<1> QED BY <1>3, <1>6, <1>7 DEF b

-----------------------------------------------------------------------------
\* The steps of the composition are steps of the application.
LEMMA CallStartsIsSignTxStart ==
  ASSUME CallStarts
  PROVE  SignTxStart
<1>1. PICK ins \in {"SIGN_TX", "SIGN_TOKEN_TX"}, path \in Paths, m \in Emails :
        /\ Dispatched(ins, P1_START, P2_MORE, TRUE)
        /\ init_transaction_context(path, RequestType(ins))
  BY DEF CallStarts
<1>2. P2_MORE \in P2s
  BY ClientAssumption
<1> QED BY <1>1, <1>2 DEF SignTxStart

\* An exchange of a chunk is the dispatch of a SIGN_TX chunk with data.
LEMMA ChunkIsSignTxChunk ==
  ASSUME ClientInv, SendChunk \/ SendLastChunk
  PROVE  SignTxChunk
<1>1. client.phase = "sending"
  BY DEF SendChunk, SendLastChunk
<1>2. /\ client.idx \in P1s \ {P1_START} /\ {P2_LAST, P2_MORE} \subseteq P2s
      /\ client.ins \in {"SIGN_TX", "SIGN_TOKEN_TX"}
      /\ Chunk \in Chunks \cup {<< >>} /\ Chunk # << >>
  BY <1>1, ChunkFacts, ClientAssumption DEF P1_START, ClientInv, CTypeOK
<1>3. (P2_MORE = P2_MORE) = TRUE /\ (P2_LAST = P2_MORE) = FALSE /\ (Chunk # << >>) = TRUE
  BY <1>2 DEF P2_LAST, P2_MORE
<1>4. CASE SendChunk
  <2>1. /\ Dispatched(client.ins, client.idx, P2_MORE, Chunk # << >>)
        /\ handler_sign_tx(Chunk, P2_MORE = P2_MORE, RequestType(client.ins))
    BY <1>3, <1>4 DEF SendChunk
  <2> QED BY <1>2, <2>1 DEF SignTxChunk
<1>5. CASE SendLastChunk
  <2>1. /\ Dispatched(client.ins, client.idx, P2_LAST, Chunk # << >>)
        /\ handler_sign_tx(Chunk, P2_LAST = P2_MORE, RequestType(client.ins))
    BY <1>3, <1>5 DEF SendLastChunk
  <2> QED BY <1>2, <2>1 DEF SignTxChunk
<1> QED BY <1>4, <1>5

\* What another program sends when it signs: chunk 0, or a chunk with data.
LEMMA OtherSignsIsSignTx ==
  ASSUME OtherSigns
  PROVE  SignTxStart \/ SignTxChunk
<1>1. PICK ins \in {"SIGN_TX", "SIGN_TOKEN_TX"} :
        \/ \E path \in Paths \cup {TruncatedPath} :
             /\ Dispatched(ins, P1_START, P2_MORE, TRUE)
             /\ init_transaction_context(path, RequestType(ins))
        \/ \E p1 \in P1s \ {P1_START}, p2 \in {P2_LAST, P2_MORE}, data \in OtherChunks :
             /\ Dispatched(ins, p1, p2, TRUE)
             /\ handler_sign_tx(data, p2 = P2_MORE, RequestType(ins))
  BY DEF OtherSigns
<1>2. {P2_LAST, P2_MORE} \subseteq P2s /\ OtherChunks \subseteq Chunks
  BY ClientAssumption
<1>3. CASE \E path \in Paths \cup {TruncatedPath} :
             /\ Dispatched(ins, P1_START, P2_MORE, TRUE)
             /\ init_transaction_context(path, RequestType(ins))
  BY <1>2, <1>3 DEF SignTxStart
<1>4. ASSUME NEW p1 \in P1s \ {P1_START}, NEW p2 \in {P2_LAST, P2_MORE},
             NEW data \in OtherChunks,
             Dispatched(ins, p1, p2, TRUE),
             handler_sign_tx(data, p2 = P2_MORE, RequestType(ins))
      PROVE  SignTxChunk
  <2>1. data \in Chunks \cup {<< >>} /\ data # << >> /\ p2 \in P2s
    BY <1>2, AppAssumption
  <2>2. Dispatched(ins, p1, p2, data # << >>)
    <3>1. (data # << >>) = TRUE
      BY <2>1
    <3> QED BY <1>4, <3>1
  <2> QED BY <1>4, <2>1, <2>2 DEF SignTxChunk
<1> QED BY <1>1, <1>3, <1>4

\* Every step of the composition is a step of the application or leaves it alone.
LEMMA AppSteps ==
  ASSUME ClientInv, [CNext]_cvars
  PROVE  [Next]_vars
<1>1. CASE CallStarts
  BY <1>1, CallStartsIsSignTxStart DEF Next, Command
<1>2. CASE SendChunk \/ SendLastChunk
  BY <1>2, ChunkIsSignTxChunk DEF Next, Command
<1>3. CASE DeviceGone
  BY <1>3 DEF DeviceGone
<1>4. CASE UserAnswers \/ DeviceEnds \/ StatusEnds \/ AppStart
  BY <1>4 DEF UserAnswers, DeviceEnds, Next
<1>5. CASE OtherCommand
  BY <1>5 DEF OtherCommand, Next, Command
<1>6. CASE OtherSigns
  BY <1>6, OtherSignsIsSignTx DEF Next, Command
<1>7. CASE UNCHANGED cvars
  BY <1>7 DEF cvars
<1> QED BY <1>1, <1>2, <1>3, <1>4, <1>5, <1>6, <1>7 DEF CNext
-----------------------------------------------------------------------------
(* The steps of the composition keep ClientInv.                            *)
\* The first chunk's index is one the device accepts.
LEMMA FirstIndexIsValid == FirstIndex = 1 /\ FirstIndex \in 1 .. P1_MAX
  BY ClientAssumption, AppAssumption DEF FirstIndex, P1_START

\* Initially nothing is sent and nothing displayed.
LEMMA ClientInit == CInit => ClientInv
<1> SUFFICES ASSUME CInit PROVE ClientInv
  OBVIOUS
<1>1. PICK m \in Emails :
        client = [phase |-> "idle", ins |-> "SIGN_TX", path |-> NoPath, email |-> m,
                  idx |-> FirstIndex, outcome |-> "none"]
  BY DEF CInit
<1>2. intruded = FALSE
  BY DEF CInit
<1> QED BY <1>1, <1>2, FirstIndexIsValid
        DEF ClientInv, CTypeOK, TransferInProgress, ReviewIsAwaited

\* A call that ended.
LEMMA CallIsOver ==
  ASSUME ClientInv, intruded' = intruded, NEW outcome \in {"none", "raised", "signature"},
         client' = Idle(outcome)
  PROVE  ClientInv'
<1>1. CTypeOK' /\ client'.phase = "idle"
  BY FirstIndexIsValid DEF ClientInv, CTypeOK, Idle
<1> QED BY <1>1 DEF ClientInv, TransferInProgress, ReviewIsAwaited

\* A step leaves what the transfer has reached in the context.
SameTransfer ==
  /\ G_context'.req_type = G_context.req_type
  /\ G_context'.raw_tx = G_context.raw_tx
  /\ G_context'.bip32_path = G_context.bip32_path

\* A call that goes on: what it transferred is still there, or the context was taken over
\* visibly, or another program intruded.
LEMMA CallGoesOn ==
  ASSUME ClientInv, client' = client, client.phase # "waiting",
         \/ intruded' = TRUE
         \/ /\ intruded' = intruded
            /\ \/ SameTransfer
               \/ G_context'.req_type # RequestType(client.ins)
               \/ client.phase = "idle"
  PROVE  ClientInv'
<1>1. CTypeOK' /\ ReviewIsAwaited'
  BY DEF ClientInv, CTypeOK, ReviewIsAwaited
<1>2. Payload' = Payload /\ Acknowledged' = Acknowledged
  BY DEF Payload, Acknowledged
<1>3. TransferInProgress'
  <2> SUFFICES ASSUME client.phase = "sending"
               PROVE  /\ Serializable(client.email)
                      /\ Acknowledged < Len(Payload)
                      /\ ~intruded' /\ G_context'.req_type = RequestType(client.ins) =>
                           /\ G_context'.raw_tx = SubSeq(Payload, 1, Acknowledged)
                           /\ G_context'.bip32_path = client.path
    BY <1>2 DEF TransferInProgress
  <2> QED BY DEF ClientInv, TransferInProgress, SameTransfer
<1> QED BY <1>1, <1>3 DEF ClientInv

\* Chunk 0 empties the context, and nothing was acknowledged yet.
LEMMA CallStartsStep ==
  ASSUME Inductive, ClientInv, CallStarts
  PROVE  ClientInv'
<1>1. PICK ins \in {"SIGN_TX", "SIGN_TOKEN_TX"}, path \in Paths, m \in Emails :
        /\ Serializable(m) /\ HostMaySend
        /\ init_transaction_context(path, RequestType(ins))
        /\ client' = [phase |-> "sending", ins |-> ins, path |-> path, email |-> m,
                      idx |-> FirstIndex, outcome |-> "none"]
        /\ intruded' = FALSE
  BY DEF CallStarts, Dispatched
<1>2. G_context'.raw_tx = << >> /\ G_context'.bip32_path = path
  BY <1>1 DEF init_transaction_context, ZeroContext
<1>4. /\ CTypeOK' /\ client'.phase = "sending" /\ client'.email = m /\ client'.idx = 1
      /\ client'.path = path
  BY <1>1, FirstIndexIsValid DEF CTypeOK
<1>6. Acknowledged' = 0
  BY <1>4, ClientAssumption DEF Acknowledged
<1>7. Payload' = serialize(m) /\ serialize(m) \in Seq(Byte) /\ serialize(m) # << >>
  BY <1>1, <1>4, SerializeIsWritten DEF Payload
<1>8. 0 < Len(Payload') /\ SubSeq(Payload', 1, 0) = << >>
  BY <1>7
<1>9. TransferInProgress'
  BY <1>1, <1>2, <1>4, <1>6, <1>8 DEF TransferInProgress
<1> QED BY <1>4, <1>9 DEF ClientInv, ReviewIsAwaited

\* An intermediate chunk: refused, or accumulated.
LEMMA SendChunkStep ==
  ASSUME Inductive, ClientInv, SendChunk
  PROVE  ClientInv'
<1> DEFINE req_type == RequestType(client.ins)
           a == Acknowledged + MAX_APDU_LEN
<1>1. /\ client.phase = "sending" /\ More /\ HostMaySend
      /\ handler_sign_tx(Chunk, TRUE, req_type) /\ client' = AfterChunk
      /\ intruded' = intruded
  BY DEF SendChunk, Dispatched
<1>3. CASE reply' # "success"
  <2>1. client' = Idle("raised")
    BY <1>1, <1>3 DEF AfterChunk, Raised
  <2> QED BY <1>1, <2>1, CallIsOver
<1>4. CASE reply' = "success"
  <2>1. AccumulateError(Chunk, req_type) = "SWO_SUCCESS"
    <3>1. CASE AccumulateError(Chunk, req_type) # "SWO_SUCCESS"
      BY <1>1, <1>4, <3>1 DEF handler_sign_tx, io_send_sw, Outcome
    <3> QED BY <3>1
  <2>2. G_context' = accumulate_transaction_data(Chunk)
    BY <1>1, <2>1 DEF handler_sign_tx
  <2>3. /\ Payload \in Seq(Byte) /\ client.idx \in 1 .. P1_MAX /\ P1_MAX \in Nat
        /\ Acknowledged \in Nat /\ client.idx * MAX_APDU_LEN = a
        /\ MAX_APDU_LEN \in Nat /\ a < Len(Payload) /\ a \in Nat /\ Len(Payload) \in Nat
    BY <1>1, ChunkFacts
  <2>4. Shorter(a, Len(Payload)) = a
    BY <2>3 DEF Shorter
  <2>5. ~intruded => /\ G_context'.raw_tx = SubSeq(Payload, 1, a)
                     /\ G_context'.bip32_path = client.path
    BY <1>1, <2>1, <2>2, <2>4, ChunkAccepted
  <2>6. client.idx < P1_MAX
    <3>1. Serializable(client.email) /\ client.email \in Emails
      BY <1>1 DEF ClientInv, TransferInProgress, CTypeOK
    <3>2. Len(Payload) <= P1_MAX * MAX_APDU_LEN
      BY <3>1, ClientAssumption DEF Payload
    <3>3. client.idx * MAX_APDU_LEN < P1_MAX * MAX_APDU_LEN
      <4>1. P1_MAX * MAX_APDU_LEN \in Nat
        BY <2>3
      <4> QED BY <2>3, <3>2, <4>1
    <3> QED BY <2>3, <3>3, FewerChunks
  <2>7. client' = [client EXCEPT !.idx = @ + 1]
    BY <1>1, <1>4 DEF AfterChunk
  <2>8. CTypeOK'
    <3>1. client.idx + 1 \in 1 .. P1_MAX
      BY <2>3, <2>6
    <3> QED BY <1>1, <2>7, <3>1 DEF ClientInv, CTypeOK
  <2>9. /\ client'.phase = "sending" /\ client'.email = client.email
        /\ client'.idx = client.idx + 1 /\ client'.path = client.path
    BY <1>1, <2>7 DEF ClientInv, CTypeOK
  <2>10. Payload' = Payload /\ Acknowledged' = a
    <3>1. client'.idx - 1 = client.idx
      BY <2>3, <2>9
    <3> QED BY <2>3, <2>9, <3>1 DEF Payload, Acknowledged
  <2>11. Serializable(client.email)
    BY <1>1 DEF ClientInv, TransferInProgress
  <2>12. TransferInProgress'
    BY <1>1, <2>3, <2>5, <2>9, <2>10, <2>11 DEF TransferInProgress
  <2> QED BY <2>8, <2>9, <2>12 DEF ClientInv, ReviewIsAwaited
<1> QED BY <1>3, <1>4

\* The last chunk: a page opens on the whole payload, or the call is over.
LEMMA SendLastChunkStep ==
  ASSUME Inductive, ClientInv, SendLastChunk
  PROVE  ClientInv'
<1> DEFINE req_type == RequestType(client.ins)
           ctx == accumulate_transaction_data(Chunk)
<1>1. /\ client.phase = "sending" /\ ~More /\ HostMaySend
      /\ handler_sign_tx(Chunk, FALSE, req_type)
      /\ client' = IF reply' = "none" THEN [client EXCEPT !.phase = "waiting"] ELSE Raised
      /\ intruded' = intruded
  BY DEF SendLastChunk, Dispatched
<1>3. \/ reply' # "none" /\ page' = page
      \/ /\ reply' = "none" /\ page' = "review"
         /\ AccumulateError(Chunk, req_type) = "SWO_SUCCESS"
         /\ G_context' = [ctx EXCEPT !.state = "STATE_PARSED", !.m_hash = sha256(ctx.raw_tx)]
  BY <1>1 DEF handler_sign_tx, process_transaction, ui_display_transaction, io_send_sw,
              Outcome, AnswerLater, display
<1>4. CASE reply' # "none" /\ page' = page
  <2>1. client' = Idle("raised")
    BY <1>1, <1>4 DEF Raised
  <2> QED BY <1>1, <2>1, CallIsOver
<1>5. CASE /\ reply' = "none" /\ page' = "review"
           /\ AccumulateError(Chunk, req_type) = "SWO_SUCCESS"
           /\ G_context' = [ctx EXCEPT !.state = "STATE_PARSED",
                                       !.m_hash = sha256(ctx.raw_tx)]
  <2>1. /\ Payload \in Seq(Byte) /\ Len(Payload) \in Nat
        /\ Acknowledged + MAX_APDU_LEN >= Len(Payload)
        /\ Acknowledged \in Nat /\ MAX_APDU_LEN \in Nat
    BY <1>1, ChunkFacts
  <2>2. Shorter(Acknowledged + MAX_APDU_LEN, Len(Payload)) = Len(Payload)
    BY <2>1 DEF Shorter
  <2>3. ~intruded => ctx.raw_tx = SubSeq(Payload, 1, Len(Payload))
                     /\ ctx.bip32_path = client.path
    BY <1>1, <1>5, <2>2, ChunkAccepted
  <2>4. ~intruded => ctx.raw_tx = Payload /\ ctx.bip32_path = client.path
    BY <2>1, <2>3, WholeSlice
  <2>5. G_context'.raw_tx = ctx.raw_tx /\ G_context'.bip32_path = ctx.bip32_path
    <3>1. G_context \in Contexts
      BY DEF Inductive, TypeOK
    <3>2. DOMAIN ctx = DOMAIN G_context
      BY DEF accumulate_transaction_data
    <3> HIDE DEF ctx
    <3> QED BY <1>5, <3>1, <3>2 DEF Contexts
  <2>6. client' = [client EXCEPT !.phase = "waiting"]
    BY <1>1, <1>5
  <2>7. /\ CTypeOK' /\ client'.phase = "waiting" /\ client'.email = client.email
        /\ client'.path = client.path
    BY <1>1, <2>6 DEF ClientInv, CTypeOK
  <2>8. Payload' = Payload
    BY <2>7 DEF Payload
  <2>9. Serializable(client.email)
    BY <1>1 DEF ClientInv, TransferInProgress
  <2>10. Serializable(client'.email)
    BY <2>7, <2>9
  <2> QED BY <1>1, <1>5, <2>4, <2>5, <2>7, <2>8, <2>10
          DEF ClientInv, TransferInProgress, ReviewIsAwaited
<1> QED BY <1>3, <1>4, <1>5

\* An answer ends the call that waits for it, and leaves any other transfer as it is.
LEMMA UserAnswersStep ==
  ASSUME Inductive, ClientInv, UserAnswers
  PROVE  ClientInv'
<1>1. intruded' = intruded
  BY DEF UserAnswers
<1>2. CASE client.phase = "waiting"
  <2>1. client' = Idle("signature") \/ client' = Idle("raised")
    BY <1>2 DEF UserAnswers, Raised
  <2> QED BY <1>1, <2>1, CallIsOver
<1>3. CASE client.phase # "waiting"
  <2>1. client' = client
    BY <1>3 DEF UserAnswers
  <2>2. G_context \in Contexts
    BY DEF Inductive, TypeOK
  <2>3. \/ G_context' = G_context
        \/ \E state \in {"STATE_NONE"} : G_context' = [G_context EXCEPT !.state = state]
        \/ G_context' = [G_context EXCEPT !.state = "STATE_APPROVED",
                                          !.signature = crypto_sign_message]
    BY DEF UserAnswers, UserChoice, ReviewApproved, ReviewApprovedButFails, ReviewRejected,
           AddressConfirmed, AddressRejected, SigningFailed
  <2>4. SameTransfer
    BY <2>2, <2>3 DEF SameTransfer, Contexts
  <2> QED BY <1>1, <1>3, <2>1, <2>4, CallGoesOn
<1> QED BY <1>2, <1>3

\* An end or a start of the application zeroes the context, which is then not that of a
\* signing flow.
LEMMA LifeCycleStep ==
  ASSUME Inductive, ClientInv,
         \/ DeviceEnds \/ DeviceGone
         \/ (StatusEnds \/ AppStart) /\ UNCHANGED <<client, intruded>>
  PROVE  ClientInv'
<1>0. RequestType(client.ins) # "CONFIRM_ADDRESS"
  BY DEF RequestType
<1>1. CASE DeviceEnds
  <2>1. G_context'.req_type = "CONFIRM_ADDRESS" /\ intruded' = intruded
    BY <1>1 DEF DeviceEnds, AppExit, ZeroContext
  <2>2. CASE client.phase = "waiting"
    <3>1. client' = Idle("raised")
      BY <1>1, <2>2 DEF DeviceEnds, Raised
    <3> QED BY <2>1, <3>1, CallIsOver
  <2>3. CASE client.phase # "waiting"
    <3>1. client' = client
      BY <1>1, <2>3 DEF DeviceEnds
    <3> QED BY <1>0, <2>1, <2>3, <3>1, CallGoesOn
  <2> QED BY <2>2, <2>3
<1>2. CASE DeviceGone
  <2>1. intruded' = intruded /\ client' = Idle("raised")
    BY <1>2 DEF DeviceGone, Raised
  <2> QED BY <2>1, CallIsOver
<1>3. CASE (StatusEnds \/ AppStart) /\ UNCHANGED <<client, intruded>>
  <2>1. /\ page # "review"
        /\ G_context' = G_context \/ G_context'.req_type = "CONFIRM_ADDRESS"
    BY <1>3 DEF StatusEnds, StatusPages, AppStart, Inductive, OffWhenStopped, ZeroContext
  <2>2. client.phase # "waiting"
    BY <2>1 DEF ClientInv, ReviewIsAwaited
  <2>3. SameTransfer \/ G_context'.req_type # RequestType(client.ins)
    BY <1>0, <2>1 DEF SameTransfer
  <2> QED BY <1>3, <2>2, <2>3, CallGoesOn
<1> QED BY <1>1, <1>2, <1>3

\* A command of another program that does not sign leaves the context alone or turns it
\* into that of an address flow.
LEMMA OtherCommandStep ==
  ASSUME Inductive, ClientInv, OtherCommand
  PROVE  ClientInv'
<1>1. HostMaySend
  BY DEF OtherCommand, MalformedApdu, DispatchRefuses, handler_get_constant,
         handler_provide_token_info, GetPublicKey, Dispatched
<1>2. page # "review"
  BY <1>1, NoPageWaits
<1>3. client.phase # "waiting" /\ client' = client /\ intruded' = intruded
  BY <1>2 DEF OtherCommand, ClientInv, ReviewIsAwaited
<1>4. CASE MalformedApdu \/ DispatchRefuses \/ handler_get_constant
           \/ handler_provide_token_info
  <2>1. SameTransfer
    BY <1>4 DEF MalformedApdu, DispatchRefuses, handler_get_constant,
                handler_provide_token_info, SameTransfer
  <2> QED BY <1>3, <2>1, CallGoesOn
<1>5. CASE GetPublicKey
  <2>1. PICK p1 \in P1s, path \in Paths \cup {TruncatedPath} :
          handler_get_public_key(path, p1 = 1)
    BY <1>5 DEF GetPublicKey
  <2>2. G_context'.req_type = "CONFIRM_ADDRESS"
    BY <2>1 DEF handler_get_public_key, PubkeyFails, ui_display_address, PubkeyContext,
                ZeroContext
  <2>3. G_context'.req_type # RequestType(client.ins)
    BY <2>2 DEF RequestType
  <2> QED BY <1>3, <2>3, CallGoesOn
<1> QED BY <1>4, <1>5 DEF OtherCommand

\* A chunk is refused, or continues a flow of its own request type.
LEMMA ChunkKeepsRequest ==
  ASSUME Inductive, NEW data, NEW more \in BOOLEAN, NEW req_type,
         handler_sign_tx(data, more, req_type)
  PROVE  G_context' = G_context \/ G_context'.req_type = req_type
<1> DEFINE ctx == accumulate_transaction_data(data)
<1>1. CASE AccumulateError(data, req_type) # "SWO_SUCCESS"
  BY <1>1 DEF handler_sign_tx
<1>2. CASE AccumulateError(data, req_type) = "SWO_SUCCESS"
  <2>1. G_context \in Contexts /\ G_context.req_type = req_type
    BY <1>2 DEF Inductive, TypeOK, AccumulateError
  <2>2. ctx.req_type = req_type /\ {"req_type", "state", "m_hash"} \subseteq DOMAIN ctx
    BY <2>1 DEF accumulate_transaction_data, Contexts
  <2>3. \/ G_context' = ctx
        \/ G_context' = [ctx EXCEPT !.state = "STATE_PARSED"]
        \/ G_context' = [ctx EXCEPT !.state = "STATE_PARSED", !.m_hash = sha256(ctx.raw_tx)]
        \/ G_context' = [[ctx EXCEPT !.state = "STATE_PARSED", !.m_hash = sha256(ctx.raw_tx)]
                          EXCEPT !.state = "STATE_NONE"]
    BY <1>2 DEF handler_sign_tx, process_transaction, ui_display_transaction
  <2> HIDE DEF ctx
  <2> QED BY <2>2, <2>3
<1> QED BY <1>1, <1>2

\* Another program that signs with the call's instruction is an intruder; one that signs
\* with the other instruction leaves the transfer alone or takes over the context visibly.
LEMMA OtherSignsStep ==
  ASSUME Inductive, ClientInv, OtherSigns
  PROVE  ClientInv'
<1>1. PICK ins \in {"SIGN_TX", "SIGN_TOKEN_TX"} :
        /\ \/ \E path \in Paths \cup {TruncatedPath} :
                /\ Dispatched(ins, P1_START, P2_MORE, TRUE)
                /\ init_transaction_context(path, RequestType(ins))
           \/ \E p1 \in P1s \ {P1_START}, p2 \in {P2_LAST, P2_MORE}, data \in OtherChunks :
                /\ Dispatched(ins, p1, p2, TRUE)
                /\ handler_sign_tx(data, p2 = P2_MORE, RequestType(ins))
        /\ intruded' = (intruded \/ (client.phase = "sending" /\ ins = client.ins))
        /\ client' = client
  BY DEF OtherSigns
<1>2. HostMaySend
  BY <1>1 DEF Dispatched
<1>3. client.phase # "waiting"
  BY <1>2, NoPageWaits DEF ClientInv, ReviewIsAwaited
<1>4. CASE client.phase = "sending" /\ ins = client.ins
  <2>1. intruded' = TRUE
    BY <1>1, <1>4
  <2> QED BY <1>1, <1>3, <2>1, CallGoesOn
<1>5. CASE client.phase # "sending"
  <2>1. client.phase = "idle" /\ intruded' = intruded
    BY <1>1, <1>3, <1>5 DEF ClientInv, CTypeOK
  <2> QED BY <1>1, <1>3, <2>1, CallGoesOn
<1>6. CASE ins # client.ins
  <2>1. intruded' = intruded
    BY <1>1, <1>6 DEF ClientInv, CTypeOK
  <2>2. RequestType(ins) # RequestType(client.ins)
    <3>1. client.ins \in {"SIGN_TX", "SIGN_TOKEN_TX"}
      BY DEF ClientInv, CTypeOK
    <3> QED BY <1>1, <1>6, <3>1 DEF RequestType
  <2>3. G_context' = G_context \/ G_context'.req_type = RequestType(ins)
    <3>1. ASSUME NEW path \in Paths \cup {TruncatedPath},
                 init_transaction_context(path, RequestType(ins))
          PROVE  G_context'.req_type = RequestType(ins)
      BY <3>1 DEF init_transaction_context, ZeroContext
    <3>2. ASSUME NEW data \in OtherChunks, NEW p2 \in {P2_LAST, P2_MORE},
                 handler_sign_tx(data, p2 = P2_MORE, RequestType(ins))
          PROVE  G_context' = G_context \/ G_context'.req_type = RequestType(ins)
      BY <3>2, ChunkKeepsRequest
    <3> QED BY <1>1, <3>1, <3>2
  <2>4. SameTransfer \/ G_context'.req_type # RequestType(client.ins)
    BY <2>2, <2>3 DEF SameTransfer
  <2> QED BY <1>1, <1>3, <2>1, <2>4, CallGoesOn
<1> QED BY <1>4, <1>5, <1>6

\* The invariant of the composition is inductive.
LEMMA ClientStep == Inductive /\ ClientInv /\ [CNext]_cvars => ClientInv'
<1> SUFFICES ASSUME Inductive, ClientInv, [CNext]_cvars PROVE ClientInv'
  OBVIOUS
<1>1. CASE CallStarts
  BY <1>1, CallStartsStep
<1>2. CASE SendChunk
  BY <1>2, SendChunkStep
<1>3. CASE SendLastChunk
  BY <1>3, SendLastChunkStep
<1>4. CASE UserAnswers
  BY <1>4, UserAnswersStep
<1>5. CASE \/ DeviceEnds \/ DeviceGone
           \/ (StatusEnds \/ AppStart) /\ UNCHANGED <<client, intruded>>
  BY <1>5, LifeCycleStep
<1>6. CASE OtherCommand
  BY <1>6, OtherCommandStep
<1>7. CASE OtherSigns
  BY <1>7, OtherSignsStep
<1>8. CASE UNCHANGED cvars
  BY <1>8 DEF cvars, vars, ClientInv, CTypeOK, TransferInProgress, ReviewIsAwaited,
              Acknowledged, Payload
<1> QED BY <1>1, <1>2, <1>3, <1>4, <1>5, <1>6, <1>7, <1>8 DEF CNext

-----------------------------------------------------------------------------
\* What the device and the client keep together: the device's own invariant, and that the
\* context and the client agree on how far the transfer went.
THEOREM ClientInvariant == CSpec => [](Inductive /\ ClientInv)
<1>1. CInit => Inductive /\ ClientInv
  BY InductiveInit, ClientInit DEF CInit
<1>2. Inductive /\ ClientInv /\ [CNext]_cvars => (Inductive /\ ClientInv)'
  BY AppSteps, InductiveStep, ClientStep
<1> QED BY <1>1, <1>2, PTL DEF CSpec

\* A client that cuts and sends an email, other programs and restarts included, only takes
\* steps of HardMailApp: everything proved of the application holds while it is used so.
THEOREM ClientRefinesApp == CSpec => Spec
<1>1. CInit => Init
  BY DEF CInit
<1>2. Inductive /\ ClientInv /\ [CNext]_cvars => [Next]_vars
  BY AppSteps
<1> QED BY <1>1, <1>2, ClientInvariant, PTL DEF CSpec, Spec

\* The client's state keeps its types; in particular its chunk index stays a valid P1.
THEOREM ClientTypeCorrect == CSpec => []CTypeOK
<1>1. Inductive /\ ClientInv => CTypeOK
  BY DEF ClientInv
<1> QED BY <1>1, ClientInvariant, PTL

\* The page the client waits for is the review of its own payload, on its own path, unless
\* another program sent the call's own instruction: programs that sign with the other
\* instruction, address flows and restarts do not get into the call.
THEOREM ReviewIsOfTheCall == CSpec => []ReviewedIsSent
<1>1. Inductive /\ ClientInv => ReviewedIsSent
  BY DEF ClientInv, ReviewIsAwaited, ReviewedIsSent
<1> QED BY <1>1, ClientInvariant, PTL

\* A review whose payload is that of the client's email shows the fields of that email.
LEMMA PagesOfTheEmail ==
  ASSUME Inductive, ClientInv, page = "review", Serializable(client.email),
         G_context.raw_tx = serialize(client.email)
  PROVE  g_review = ReviewPairs(client.email)
<1> DEFINE m == client.email
           p == G_context.raw_tx
<1>1. m \in Emails /\ Serializable(m) /\ p = serialize(m)
  BY DEF ClientInv, CTypeOK
<1>2. Accepted(p) /\ g_review = ReviewPairs(email_t(p))
  BY DEF Inductive, ReviewIsCurrent
<1> HIDE DEF m, p
<1>3. m \in EmailRecords
  BY <1>1, ClientAssumption
<1>4. FitsWidths(m) /\ p = HeadBytes(m) \o TailBytes(m) /\ p \in Seq(Byte)
  BY <1>1, SerializeIsWritten, Zenon
<1>5. ParsedAs(p, m)
  BY <1>3, <1>4, WrittenIsParsed, Zenon
<1>6. ReviewPairs(email_t(p)) = ReviewPairs(m)
  BY <1>2, <1>3, <1>4, <1>5, ReviewOfWritten, Zenon
<1> QED BY <1>2, <1>6, Zenon DEF m

\* End to end: the pairs on the review pages are the fields of the email the client was
\* asked to sign, for every email the client's assertions let through.
THEOREM ReviewIsOfTheEmail == CSpec => []ReviewShowsTheEmail
<1>1. Inductive /\ ClientInv => ReviewShowsTheEmail
  BY PagesOfTheEmail DEF ReviewShowsTheEmail, ClientInv, ReviewIsAwaited, Payload
<1> QED BY <1>1, ClientInvariant, PTL

\* The index and the size of a chunk never stop a payload that fits raw_tx.
THEOREM PayloadFitsChunks == CSpec => []ChunksFit
<1>1. Inductive /\ ClientInv => ChunksFit
  <2> SUFFICES ASSUME Inductive, ClientInv, client.phase = "sending"
               PROVE  /\ DispatchError(TRUE, client.ins, client.idx,
                                       IF More THEN P2_MORE ELSE P2_LAST, TRUE)
                           = "SWO_SUCCESS"
                      /\ (/\ Len(Payload) <= MAX_TRANSACTION_LEN
                          /\ ~intruded /\ G_context.req_type = RequestType(client.ins))
                         => AccumulateError(Chunk, RequestType(client.ins)) = "SWO_SUCCESS"
    BY DEF ChunksFit
  <2> DEFINE p2 == IF More THEN P2_MORE ELSE P2_LAST
             b == Shorter(Acknowledged + MAX_APDU_LEN, Len(Payload))
  <2>1. /\ client.idx \in 1 .. P1_MAX /\ P1_MAX \in Nat
        /\ client.ins \in {"SIGN_TX", "SIGN_TOKEN_TX"} /\ p2 \in {P2_LAST, P2_MORE}
    BY ChunkFacts DEF ClientInv, CTypeOK
  <2> HIDE DEF p2
  <2>2. client.idx <= P1_MAX /\ client.idx # P1_START
    BY <2>1 DEF P1_START
  <2>3. ParametersOk(client.ins, client.idx, p2)
    BY <2>1, <2>2 DEF ParametersOk
  <2>4. DispatchError(TRUE, client.ins, client.idx, p2, TRUE) = "SWO_SUCCESS"
    BY <2>1, <2>3 DEF DispatchError
  <2>5. ASSUME Len(Payload) <= MAX_TRANSACTION_LEN, ~intruded,
               G_context.req_type = RequestType(client.ins)
        PROVE  AccumulateError(Chunk, RequestType(client.ins)) = "SWO_SUCCESS"
    <3>1. /\ Payload \in Seq(Byte) /\ Len(Payload) \in Nat
          /\ Acknowledged \in Nat /\ MAX_APDU_LEN \in Nat
          /\ Chunk = SubSeq(Payload, Acknowledged + 1, b)
      BY ChunkFacts
    <3>2. G_context.raw_tx = SubSeq(Payload, 1, Acknowledged) /\ Acknowledged < Len(Payload)
      BY <2>5 DEF ClientInv, TransferInProgress
    <3>3. b \in Nat /\ Acknowledged <= b /\ b <= Len(Payload)
      BY <3>1, <3>2 DEF Shorter
    <3> HIDE DEF b
    <3>4. Len(G_context.raw_tx) = Acknowledged /\ Len(Chunk) = b - Acknowledged
      BY <3>1, <3>2, <3>3
    <3>5. ~Overflows(Chunk)
      BY <2>5, <3>1, <3>3, <3>4, AppAssumption DEF Overflows
    <3> QED BY <2>5, <3>5 DEF AccumulateError
  <2> QED BY <2>4, <2>5 DEF p2
<1> QED BY <1>1, ClientInvariant, PTL

\* A call returns a signature only by an approval of the review it waits for, and it is the
\* signature of the context's digest by the context's path.
LEMMA CallReturns ==
  ASSUME Inductive, ClientInv, CNext, Returns
  PROVE  /\ client.phase = "waiting" /\ page = "review"
         /\ G_context'.signature =
              [by |-> G_context.bip32_path, digest |-> sha256(G_context.raw_tx)]
<1>1. UserAnswers /\ client.phase = "waiting" /\ reply' = "success"
  <2>1. client = [phase |-> client.phase, ins |-> client.ins, path |-> client.path,
                  email |-> client.email, idx |-> client.idx, outcome |-> client.outcome]
    BY DEF ClientInv, CTypeOK
  <2>2. CASE CallStarts
    BY <2>2 DEF CallStarts, Returns
  <2>3. CASE SendChunk \/ SendLastChunk \/ DeviceGone \/ DeviceEnds
    <3>1. \/ client' = client
          \/ client' = [client EXCEPT !.phase = "idle", !.idx = FirstIndex,
                                      !.outcome = "raised"]
          \/ client' = [client EXCEPT !.idx = @ + 1]
          \/ client' = [client EXCEPT !.phase = "waiting"]
      BY <2>3 DEF SendChunk, SendLastChunk, DeviceGone, DeviceEnds, AfterChunk, Raised, Idle
    <3>2. client'.outcome \in {client.outcome, "raised"}
      BY <2>1, <3>1
    <3> QED BY <3>2 DEF Returns
  <2>4. CASE UserAnswers
    <3>1. client.phase = "waiting"
      BY <2>4 DEF UserAnswers, Returns
    <3>2. CASE reply' # "success"
      <4>1. client' = [client EXCEPT !.phase = "idle", !.idx = FirstIndex,
                                     !.outcome = "raised"]
        BY <2>4, <3>1, <3>2 DEF UserAnswers, Raised, Idle
      <4> QED BY <2>1, <4>1 DEF Returns
    <3> QED BY <2>4, <3>1, <3>2
  <2>5. CASE \/ (StatusEnds \/ AppStart) /\ UNCHANGED <<client, intruded>>
             \/ OtherCommand \/ OtherSigns
    BY <2>5 DEF OtherCommand, OtherSigns, Returns
  <2> QED BY <2>2, <2>3, <2>4, <2>5 DEF CNext
<1>2. page = "review"
  BY <1>1 DEF ClientInv, ReviewIsAwaited
<1>3. ReviewApproved
  BY <1>1, <1>2 DEF UserAnswers, UserChoice, ReviewApprovedButFails, ReviewRejected,
                    AddressConfirmed, AddressRejected, AnswerNow, Outcome
<1>4. G_context.m_hash = sha256(G_context.raw_tx) /\ G_context \in Contexts
  BY <1>2 DEF Inductive, ReviewIsCurrent, TypeOK
<1>5. G_context'.signature = crypto_sign_message
  BY <1>3, <1>4 DEF ReviewApproved, Contexts
<1> QED BY <1>1, <1>2, <1>4, <1>5 DEF crypto_sign_message

\* The signature a call returns is over the digest of the email the call was made with and
\* by the key of its path, unless another program sent the call's own instruction.
THEOREM SignatureForTheCall == CSpec => SignatureIsForTheCall
<1> DEFINE A == Returns /\ ~intruded =>
                  G_context'.signature =
                    [by |-> client.path, digest |-> sha256(serialize(client.email))]
<1>1. Inductive /\ ClientInv /\ [CNext]_cvars => [A]_cvars
  <2> SUFFICES ASSUME Inductive, ClientInv, CNext, Returns, ~intruded
               PROVE  G_context'.signature =
                        [by |-> client.path, digest |-> sha256(serialize(client.email))]
    OBVIOUS
  <2>1. /\ client.phase = "waiting"
        /\ G_context'.signature =
             [by |-> G_context.bip32_path, digest |-> sha256(G_context.raw_tx)]
    BY CallReturns
  <2>2. G_context.raw_tx = serialize(client.email) /\ G_context.bip32_path = client.path
    BY <2>1 DEF ClientInv, ReviewIsAwaited, Payload
  <2> QED BY <2>1, <2>2
<1> QED BY <1>1, ClientInvariant, PTL DEF CSpec, SignatureIsForTheCall

\* Whatever other programs sign and when: a signature the client can verify against its own
\* payload was given on the pages of the client's email.
THEOREM VerifiedSignatureWasReviewed == CSpec => VerifiedWasReviewed
<1> DEFINE A == Returns /\ G_context'.signature.digest = sha256(serialize(client.email)) =>
                  page = "review" /\ g_review = ReviewPairs(client.email)
<1>1. Inductive /\ ClientInv /\ [CNext]_cvars => [A]_cvars
  <2> SUFFICES ASSUME Inductive, ClientInv, CNext, Returns,
                      G_context'.signature.digest = sha256(serialize(client.email))
               PROVE  page = "review" /\ g_review = ReviewPairs(client.email)
    OBVIOUS
  <2>1. /\ client.phase = "waiting" /\ page = "review"
        /\ G_context'.signature =
             [by |-> G_context.bip32_path, digest |-> sha256(G_context.raw_tx)]
    BY CallReturns
  <2>2. sha256(G_context.raw_tx) = sha256(serialize(client.email))
    BY <2>1
  <2>3. G_context.raw_tx = serialize(client.email)
    BY <2>2 DEF sha256
  <2>4. Serializable(client.email)
    BY <2>1 DEF ClientInv, ReviewIsAwaited
  <2> QED BY <2>1, <2>3, <2>4, PagesOfTheEmail
<1> QED BY <1>1, ClientInvariant, PTL DEF CSpec, VerifiedWasReviewed
=============================================================================
