------------------------- MODULE HardMailAppProofs -------------------------
(***************************************************************************)
(* Proofs about HardMailApp, for every alphabet, every field limit, every  *)
(* set of chunks, paths and parameters.                                    *)
(***************************************************************************)
EXTENDS HardMailApp, EmailCodecProofs

\* While the email review is open, the context still holds the payload that was parsed
\* and hashed, and the display buffers hold its pairs.
ReviewIsCurrent ==
  page = "review" =>
    /\ G_context.m_hash = sha256(G_context.raw_tx)
    /\ Accepted(G_context.raw_tx)
    /\ g_review = ReviewPairs(email_t(G_context.raw_tx))
    /\ Len(reviews) = 1 /\ reviews[1] = G_context.raw_tx

\* While the address review is open, the context still holds the key it is about.
AddressIsCurrent ==
  page = "address" =>
    /\ G_context.pk_info.form = "compressed"
    /\ g_address = address_from_pubkey(G_context.pk_info)

\* A payload reviewed in this flow was accepted and starts the payload accumulated since.
FlowExtendsReview ==
  \/ reviews = << >>
  \/ /\ Len(reviews) = 1
     /\ Accepted(reviews[1])
     /\ Len(reviews[1]) <= Len(G_context.raw_tx)
     /\ \A i \in 1 .. Len(reviews[1]) : reviews[1][i] = G_context.raw_tx[i]

\* The page is blank exactly while the application does not run.
OffWhenStopped == running <=> page # "off"

Inductive ==
  /\ TypeOK
  /\ OffWhenStopped
  /\ OneReplyPerCommand
  /\ ReviewIsCurrent
  /\ AddressIsCurrent
  /\ FlowExtendsReview
  /\ UnionDiscipline
  /\ ApprovedMeansSigned
  /\ SignatureBindsDisplay
  /\ DisclosedKeyWasShown

-----------------------------------------------------------------------------
\* The contexts the handlers start from are well-typed.
LEMMA ZeroContextType ==
  /\ ZeroContext \in Contexts
  /\ \A path \in Paths \cup {TruncatedPath},
        r \in {"CONFIRM_ADDRESS", "CONFIRM_TRANSACTION", "CONFIRM_TOKEN_TRANSACTION"} :
       [ZeroContext EXCEPT !.req_type = r, !.bip32_path = path] \in Contexts
<1>1. ZeroContext \in Contexts
  BY DEF ZeroContext, Contexts, NoKey, ZeroDigest, NoSignature
<1>2. ASSUME NEW path \in Paths \cup {TruncatedPath},
             NEW r \in {"CONFIRM_ADDRESS", "CONFIRM_TRANSACTION", "CONFIRM_TOKEN_TRANSACTION"}
      PROVE  [ZeroContext EXCEPT !.req_type = r, !.bip32_path = path] \in Contexts
  BY <1>1 DEF Contexts
<1> QED BY <1>1, <1>2

\* The initial state satisfies the invariant.
LEMMA InductiveInit == Init => Inductive
<1> SUFFICES ASSUME Init PROVE Inductive
  OBVIOUS
<1> USE DEF Init
<1>1. TypeOK
  <2>1. G_context \in Contexts
    BY ZeroContextType
  <2>2. Len(G_context.raw_tx) <= MAX_TRANSACTION_LEN
    BY AppAssumption DEF ZeroContext
  <2>3. reviews \in Seq(Seq(Byte))
    OBVIOUS
  <2>4. running \in BOOLEAN /\ page \in {"off", "home", "review", "address"} \cup StatusPages
    OBVIOUS
  <2>5. pending \in Int /\ reply \in {"none", "success", "error"}
    OBVIOUS
  <2> HIDE DEF Init
  <2> QED BY <2>1, <2>2, <2>3, <2>4, <2>5 DEF TypeOK
<1>2. OffWhenStopped /\ OneReplyPerCommand /\ ReviewIsCurrent /\ AddressIsCurrent
  BY DEF OffWhenStopped, OneReplyPerCommand, ReviewIsCurrent, AddressIsCurrent
<1>3. FlowExtendsReview
  BY DEF FlowExtendsReview
<1>4. UnionDiscipline /\ ApprovedMeansSigned
  BY DEF UnionDiscipline, ApprovedMeansSigned, ZeroContext
<1>5. SignatureBindsDisplay /\ DisclosedKeyWasShown
  BY DEF SignatureBindsDisplay, DisclosedKeyWasShown
<1> QED BY <1>1, <1>2, <1>3, <1>4, <1>5 DEF Inductive

-----------------------------------------------------------------------------
\* A command is only received when no page waits for the user.
LEMMA NoPageWaits ==
  ASSUME Inductive, HostMaySend
  PROVE  /\ running /\ pending = 0
         /\ page \notin {"review", "address"}
  BY DEF Inductive, HostMaySend, OneReplyPerCommand

\* Commands that only answer: the context, the pages and the histories stay.
LEMMA AnswerOnlyStep ==
  ASSUME Inductive, HostMaySend, NEW sw, io_send_sw(sw),
         UNCHANGED <<running, G_context, display, history>>
  PROVE  Inductive'
<1> USE NoPageWaits DEF Inductive, display, history, io_send_sw
<1>1. TypeOK'
  BY DEF TypeOK, Outcome
<1>2. OffWhenStopped' /\ OneReplyPerCommand' /\ ReviewIsCurrent' /\ AddressIsCurrent'
  BY DEF OffWhenStopped, OneReplyPerCommand, ReviewIsCurrent, AddressIsCurrent
<1>3. FlowExtendsReview'
  BY DEF FlowExtendsReview
<1>4. UnionDiscipline' /\ ApprovedMeansSigned'
  BY DEF UnionDiscipline, ApprovedMeansSigned
<1>5. SignatureBindsDisplay' /\ DisclosedKeyWasShown'
  BY DEF SignatureBindsDisplay, DisclosedKeyWasShown
<1> QED BY <1>1, <1>2, <1>3, <1>4, <1>5

\* A context that was just zeroed and given its request type, path and possibly a key.
Fresh(ctx) ==
  /\ ctx \in Contexts
  /\ ctx.state = "STATE_NONE" /\ ctx.raw_tx = << >> /\ ctx.m_hash = ZeroDigest
  /\ ctx.signature = NoSignature
  /\ ctx.pk_info # NoKey => ctx.req_type = "CONFIRM_ADDRESS"

\* Commands that start from a fresh context and answer at once.
LEMMA FreshAnswerStep ==
  ASSUME Inductive, HostMaySend, NEW sw, io_send_sw(sw), Fresh(G_context'),
         reviews' = << >>, UNCHANGED <<running, page, signatures, addresses>>
  PROVE  Inductive'
<1> USE NoPageWaits DEF Inductive, io_send_sw
<1>1. TypeOK'
  <2>1. G_context' \in Contexts /\ Len(G_context'.raw_tx) <= MAX_TRANSACTION_LEN
    BY AppAssumption DEF Fresh
  <2>2. reviews' \in Seq(Seq(Byte))
    OBVIOUS
  <2>3. reply' \in {"none", "success", "error"}
    BY DEF Outcome
  <2> QED BY <2>1, <2>2, <2>3 DEF TypeOK
<1>2. OffWhenStopped' /\ OneReplyPerCommand' /\ ReviewIsCurrent' /\ AddressIsCurrent'
  BY DEF OffWhenStopped, OneReplyPerCommand, ReviewIsCurrent, AddressIsCurrent
<1>3. FlowExtendsReview'
  BY DEF FlowExtendsReview
<1>4. UnionDiscipline' /\ ApprovedMeansSigned'
  BY DEF UnionDiscipline, ApprovedMeansSigned, Fresh, ZeroDigest
<1>5. SignatureBindsDisplay' /\ DisclosedKeyWasShown'
  BY DEF SignatureBindsDisplay, DisclosedKeyWasShown
<1> QED BY <1>1, <1>2, <1>3, <1>4, <1>5

\* The command that opens the address review of a key it just derived.
LEMMA FreshAddressStep ==
  ASSUME Inductive, HostMaySend, AnswerLater, Fresh(G_context'),
         reviews' = << >>, UNCHANGED <<running, signatures, addresses>>,
         page' = "address", G_context'.pk_info.form = "compressed",
         g_address' = address_from_pubkey(G_context'.pk_info)
  PROVE  Inductive'
<1> USE NoPageWaits DEF Inductive, AnswerLater
<1>1. TypeOK'
  <2>1. G_context' \in Contexts /\ Len(G_context'.raw_tx) <= MAX_TRANSACTION_LEN
    BY AppAssumption DEF Fresh
  <2>2. reviews' \in Seq(Seq(Byte))
    OBVIOUS
  <2>3. pending' \in Int /\ running' \in BOOLEAN
    BY DEF TypeOK
  <2> QED BY <2>1, <2>2, <2>3 DEF TypeOK
<1>2. OffWhenStopped' /\ OneReplyPerCommand' /\ ReviewIsCurrent' /\ AddressIsCurrent'
  BY DEF OffWhenStopped, OneReplyPerCommand, ReviewIsCurrent, AddressIsCurrent
<1>3. FlowExtendsReview'
  BY DEF FlowExtendsReview
<1>4. UnionDiscipline' /\ ApprovedMeansSigned'
  BY DEF UnionDiscipline, ApprovedMeansSigned, Fresh, ZeroDigest
<1>5. SignatureBindsDisplay' /\ DisclosedKeyWasShown'
  BY DEF SignatureBindsDisplay, DisclosedKeyWasShown
<1> QED BY <1>1, <1>2, <1>3, <1>4, <1>5

\* GET_PUBLIC_KEY, all outcomes.
LEMMA GetPublicKeyStep ==
  ASSUME Inductive, GetPublicKey
  PROVE  Inductive'
<1>1. PICK p1 \in P1s, p2 \in P2s, path \in Paths \cup {TruncatedPath} :
        /\ HostMaySend
        /\ handler_get_public_key(path, p1 = 1)
  BY DEF GetPublicKey, Dispatched
<1> DEFINE ctx(key) == [PubkeyContext(path) EXCEPT !.pk_info = key]
<1>2. Fresh(PubkeyContext(path))
  <2>1. PubkeyContext(path) \in Contexts
    BY ZeroContextType DEF PubkeyContext
  <2> QED BY <2>1 DEF Fresh, PubkeyContext, ZeroContext
<1>3. ASSUME path \in Paths, NEW key \in {NoKey, PointOf(path), KeyOf(path)}
      PROVE  Fresh(ctx(key)) /\ ctx(key).pk_info = key
  <2>1. key \in [form : {"zero", "point", "compressed"}, path : Paths \cup {NoPath}]
    BY <1>3 DEF NoKey, PointOf, KeyOf
  <2>2. PubkeyContext(path) \in Contexts
    BY <1>2 DEF Fresh
  <2>3. ctx(key) \in Contexts /\ ctx(key).pk_info = key
    BY <2>1, <2>2 DEF Contexts
  <2>4. /\ ctx(key).state = "STATE_NONE" /\ ctx(key).raw_tx = << >>
        /\ ctx(key).m_hash = ZeroDigest /\ ctx(key).signature = NoSignature
        /\ ctx(key).req_type = "CONFIRM_ADDRESS"
    BY DEF PubkeyContext, ZeroContext
  <2> HIDE DEF ctx
  <2> QED BY <2>3, <2>4 DEF Fresh
<1> HIDE DEF ctx
<1>4. reviews' = << >> /\ UNCHANGED <<running, signatures, addresses>>
  BY <1>1 DEF handler_get_public_key
<1>5. CASE /\ path \notin Paths
           /\ G_context' = PubkeyContext(path)
           /\ io_send_sw("SWO_WRONG_DATA_LENGTH")
           /\ UNCHANGED display
  BY <1>1, <1>2, <1>4, <1>5, FreshAnswerStep DEF display
<1>6. CASE path \in Paths /\ PubkeyFails(path)
  <2>1. PICK key \in {NoKey, PointOf(path)} : G_context' = ctx(key)
    BY <1>6 DEF PubkeyFails, ctx
  <2>2. Fresh(G_context')
    BY <1>3, <1>6, <2>1
  <2>3. io_send_sw("CX_ERROR") /\ UNCHANGED page
    BY <1>6 DEF PubkeyFails, display
  <2> QED BY <1>1, <1>4, <2>2, <2>3, FreshAnswerStep
<1>7. CASE /\ path \in Paths
           /\ ui_display_address(ctx(KeyOf(path)))
  <2>1. /\ Fresh(ctx(KeyOf(path))) /\ ctx(KeyOf(path)).pk_info = KeyOf(path)
        /\ ctx(KeyOf(path)).state = "STATE_NONE"
        /\ ctx(KeyOf(path)).req_type = "CONFIRM_ADDRESS"
    <3>1. Fresh(ctx(KeyOf(path))) /\ ctx(KeyOf(path)).pk_info = KeyOf(path)
      BY <1>3, <1>7
    <3>2. KeyOf(path) # NoKey
      BY DEF KeyOf, NoKey
    <3> QED BY <3>1, <3>2 DEF Fresh
  <2>2. G_context' = ctx(KeyOf(path))
    BY <1>7, <2>1 DEF ui_display_address
  <2>3. CASE page' = "address" /\ AnswerLater
             /\ g_address' = address_from_pubkey(ctx(KeyOf(path)).pk_info)
    <3>1. G_context'.pk_info.form = "compressed"
      BY <2>1, <2>2 DEF KeyOf
    <3> QED BY <1>1, <1>4, <2>1, <2>2, <2>3, <3>1, FreshAddressStep
  <2>4. CASE UNCHANGED page /\ \E sw : io_send_sw(sw)
    BY <1>1, <1>4, <2>1, <2>2, <2>4, FreshAnswerStep
  <2> QED BY <1>7, <2>1, <2>3, <2>4 DEF ui_display_address, display
<1>8. CASE /\ path \in Paths
           /\ G_context' = ctx(KeyOf(path))
           /\ io_send_sw("SWO_SUCCESS")
           /\ UNCHANGED display
  <2>1. Fresh(G_context')
    BY <1>3, <1>8
  <2> QED BY <1>1, <1>4, <1>8, <2>1, FreshAnswerStep DEF display
<1> QED BY <1>1, <1>5, <1>6, <1>7, <1>8 DEF handler_get_public_key, ctx

\* Chunk 0 of a signing flow.
LEMMA SignTxStartStep ==
  ASSUME Inductive, SignTxStart
  PROVE  Inductive'
<1>1. PICK ins \in {"SIGN_TX", "SIGN_TOKEN_TX"}, path \in Paths \cup {TruncatedPath} :
        /\ HostMaySend
        /\ init_transaction_context(path, RequestType(ins))
  BY DEF SignTxStart, Dispatched
<1>2. RequestType(ins) \in {"CONFIRM_TRANSACTION", "CONFIRM_TOKEN_TRANSACTION"}
  BY DEF RequestType
<1>3. Fresh(G_context')
  <2>1. G_context' = [ZeroContext EXCEPT !.req_type = RequestType(ins), !.bip32_path = path]
    BY <1>1 DEF init_transaction_context
  <2>2. G_context' \in Contexts
    BY <1>2, <2>1, ZeroContextType
  <2> QED BY <2>1, <2>2 DEF Fresh, ZeroContext
<1>4. /\ reviews' = << >> /\ UNCHANGED <<running, page, signatures, addresses>>
      /\ \E sw : io_send_sw(sw)
  BY <1>1 DEF init_transaction_context, display
<1> QED BY <1>1, <1>3, <1>4, FreshAnswerStep

-----------------------------------------------------------------------------
\* Once a payload of this flow was reviewed, no longer one is accepted.
LEMMA NoSecondAccept ==
  ASSUME Inductive, NEW data \in Seq(Byte), data # << >>, Accepted(G_context.raw_tx \o data)
  PROVE  reviews = << >>
<1> DEFINE p == reviews[1]
           q == G_context.raw_tx \o data
<1> SUFFICES ASSUME reviews # << >> PROVE FALSE
  OBVIOUS
<1>1. /\ Len(reviews) = 1 /\ Accepted(p) /\ Len(p) <= Len(G_context.raw_tx)
      /\ \A i \in 1 .. Len(p) : p[i] = G_context.raw_tx[i]
  BY DEF Inductive, FlowExtendsReview
<1>2. G_context.raw_tx \in Seq(Byte) /\ p \in Seq(Byte)
  BY <1>1 DEF Inductive, TypeOK, Contexts
<1>3. /\ q \in Seq(Byte) /\ Len(q) > Len(G_context.raw_tx)
      /\ \A i \in 1 .. Len(G_context.raw_tx) : q[i] = G_context.raw_tx[i]
  BY <1>2
<1> HIDE DEF p, q
<1>4. Len(p) < Len(q) /\ \A i \in 1 .. Len(p) : p[i] = q[i]
  BY <1>1, <1>2, <1>3
<1>5. Accepted(q)
  BY DEF q
<1>6. /\ p \in Seq(Byte) /\ q \in Seq(Byte) /\ Accepted(p) /\ Len(p) <= Len(q)
      /\ \A i \in 1 .. Len(p) : p[i] = q[i]
  BY <1>1, <1>2, <1>3, <1>4
<1>7. p = q
  BY <1>5, <1>6, AcceptedPrefixFree, Zenon
<1> QED BY <1>3, <1>4, <1>7

\* The context after a chunk was appended, whatever became of its state and digest.
Accumulated(ctx, data) ==
  /\ ctx \in Contexts /\ Len(ctx.raw_tx) <= MAX_TRANSACTION_LEN
  /\ ctx.raw_tx = G_context.raw_tx \o data
  /\ ctx.req_type = G_context.req_type /\ ctx.req_type # "CONFIRM_ADDRESS"
  /\ ctx.bip32_path = G_context.bip32_path
  /\ ctx.pk_info = G_context.pk_info /\ ctx.signature = G_context.signature
  /\ ctx.state = "STATE_APPROVED" => G_context.state = "STATE_APPROVED"

\* A chunk that is appended and answered at once.
LEMMA AccumulateAnswerStep ==
  ASSUME Inductive, HostMaySend, NEW sw, io_send_sw(sw), NEW data \in Seq(Byte),
         Accumulated(G_context', data),
         UNCHANGED <<running, page, reviews, signatures, addresses>>
  PROVE  Inductive'
<1> USE NoPageWaits DEF Inductive, io_send_sw
<1>1. TypeOK'
  BY DEF TypeOK, Accumulated, Outcome
<1>2. OffWhenStopped' /\ OneReplyPerCommand' /\ ReviewIsCurrent' /\ AddressIsCurrent'
  BY DEF OffWhenStopped, OneReplyPerCommand, ReviewIsCurrent, AddressIsCurrent
<1>3. FlowExtendsReview'
  <2>1. CASE reviews = << >>
    BY <2>1 DEF FlowExtendsReview
  <2>2. CASE reviews # << >>
    <3>1. G_context.raw_tx \in Seq(Byte) /\ reviews[1] \in Seq(Byte)
      BY <2>2 DEF TypeOK, Contexts, FlowExtendsReview
    <3>2. /\ Len(G_context'.raw_tx) >= Len(G_context.raw_tx)
          /\ \A i \in 1 .. Len(G_context.raw_tx) : G_context'.raw_tx[i] = G_context.raw_tx[i]
      BY <3>1 DEF Accumulated
    <3>3. Len(G_context'.raw_tx) \in Nat /\ Len(reviews[1]) \in Nat
      BY <3>1 DEF Accumulated
    <3> QED BY <2>2, <3>1, <3>2, <3>3 DEF FlowExtendsReview
  <2> QED BY <2>1, <2>2
<1>4. UnionDiscipline' /\ ApprovedMeansSigned'
  BY DEF UnionDiscipline, ApprovedMeansSigned, Accumulated
<1>5. SignatureBindsDisplay' /\ DisclosedKeyWasShown'
  BY DEF SignatureBindsDisplay, DisclosedKeyWasShown
<1> QED BY <1>1, <1>2, <1>3, <1>4, <1>5

\* The last chunk of a payload that was parsed, hashed and displayed.
LEMMA ReviewOpensStep ==
  ASSUME Inductive, HostMaySend, AnswerLater, NEW data \in Seq(Byte),
         Accumulated(G_context', data), G_context'.state = "STATE_PARSED",
         G_context'.m_hash = sha256(G_context'.raw_tx), Accepted(G_context'.raw_tx),
         g_review' = ReviewPairs(email_t(G_context'.raw_tx)), page' = "review",
         reviews = << >>, reviews' = Append(reviews, G_context'.raw_tx),
         UNCHANGED <<running, signatures, addresses>>
  PROVE  Inductive'
<1> USE NoPageWaits DEF Inductive, AnswerLater
<1>1. G_context'.raw_tx \in Seq(Byte)
  BY DEF Accumulated, Contexts
<1>2. reviews' \in Seq(Seq(Byte)) /\ Len(reviews') = 1 /\ reviews'[1] = G_context'.raw_tx
  BY <1>1
<1>3. TypeOK'
  <2>1. pending' \in Int /\ running' \in BOOLEAN
    BY DEF TypeOK
  <2> QED BY <1>2, <2>1 DEF TypeOK, Accumulated
<1>4. OffWhenStopped' /\ OneReplyPerCommand' /\ ReviewIsCurrent' /\ AddressIsCurrent'
  BY <1>2 DEF OffWhenStopped, OneReplyPerCommand, ReviewIsCurrent, AddressIsCurrent
<1>5. FlowExtendsReview'
  <2>1. Len(reviews'[1]) <= Len(G_context'.raw_tx)
    BY <1>1, <1>2
  <2> QED BY <1>1, <1>2, <2>1 DEF FlowExtendsReview
<1>6. UnionDiscipline' /\ ApprovedMeansSigned'
  BY DEF UnionDiscipline, ApprovedMeansSigned, Accumulated
<1>7. SignatureBindsDisplay' /\ DisclosedKeyWasShown'
  BY DEF SignatureBindsDisplay, DisclosedKeyWasShown
<1> QED BY <1>3, <1>4, <1>5, <1>6, <1>7

\* Chunks 1 .. of a signing flow, all outcomes.
LEMMA SignTxChunkStep ==
  ASSUME Inductive, SignTxChunk
  PROVE  Inductive'
<1>1. PICK ins \in {"SIGN_TX", "SIGN_TOKEN_TX"}, p1 \in P1s \ {P1_START}, p2 \in P2s,
           data \in Chunks \cup {<< >>} :
        /\ HostMaySend
        /\ DispatchError(TRUE, ins, p1, p2, data # << >>) = "SWO_SUCCESS"
        /\ handler_sign_tx(data, p2 = P2_MORE, RequestType(ins))
  BY DEF SignTxChunk, Dispatched
<1>2. data # << >>
  BY <1>1 DEF DispatchError, NeedsData
<1>3. data \in Seq(Byte)
  BY <1>2, AppAssumption
<1> DEFINE req == RequestType(ins)
           acc == accumulate_transaction_data(data)
<1>4. UNCHANGED <<running, signatures, addresses>>
  BY <1>1 DEF handler_sign_tx
<1>5. CASE AccumulateError(data, req) # "SWO_SUCCESS"
  <2>1. io_send_sw(AccumulateError(data, req)) /\ UNCHANGED <<G_context, display, reviews>>
    BY <1>1, <1>5 DEF handler_sign_tx
  <2> QED BY <1>1, <1>4, <2>1, AnswerOnlyStep DEF history
<1>6. CASE AccumulateError(data, req) = "SWO_SUCCESS"
  <2>1. /\ G_context.req_type # "CONFIRM_ADDRESS"
        /\ Len(G_context.raw_tx) + Len(data) <= MAX_TRANSACTION_LEN
    <3>1. G_context.req_type = req /\ ~Overflows(data)
      BY <1>6 DEF AccumulateError
    <3>2. G_context.raw_tx \in Seq(Byte)
      BY DEF Inductive, TypeOK, Contexts
    <3> QED BY <1>3, <3>1, <3>2, AppAssumption DEF Overflows, RequestType
  <2>2. Accumulated(acc, data) /\ acc.raw_tx = G_context.raw_tx \o data
    <3>1. G_context \in Contexts /\ G_context.raw_tx \in Seq(Byte)
      BY DEF Inductive, TypeOK, Contexts
    <3>2. G_context.raw_tx \o data \in Seq(Byte)
          /\ Len(G_context.raw_tx \o data) <= MAX_TRANSACTION_LEN
      BY <1>3, <2>1, <3>1
    <3>3. acc \in Contexts /\ acc.raw_tx = G_context.raw_tx \o data
      BY <3>1, <3>2 DEF Contexts, accumulate_transaction_data
    <3> QED BY <2>1, <3>1, <3>2, <3>3 DEF Accumulated, Contexts, accumulate_transaction_data
  <2>3. ASSUME NEW st \in {"STATE_NONE", "STATE_PARSED"}
        PROVE  /\ Accumulated([acc EXCEPT !.state = st], data)
               /\ Accumulated([acc EXCEPT !.state = st, !.m_hash = sha256(acc.raw_tx)], data)
    <3>1. acc \in Contexts /\ acc.raw_tx \in Seq(Byte)
      BY <2>2 DEF Accumulated, Contexts
    <3>2. sha256(acc.raw_tx) \in [set : BOOLEAN, of : Seq(Byte)]
      BY <3>1 DEF sha256
    <3> HIDE DEF acc
    <3> QED BY <2>2, <3>1, <3>2 DEF Accumulated, Contexts
  <2> HIDE DEF acc
  <2>4. CASE G_context' = acc /\ (\E sw : io_send_sw(sw)) /\ UNCHANGED <<display, reviews>>
    BY <1>1, <1>3, <1>4, <2>2, <2>4, AccumulateAnswerStep DEF display
  <2>5. CASE process_transaction(acc)
    <3>1. CASE ~Accepted(acc.raw_tx)
      BY <2>4, <2>5, <3>1 DEF process_transaction
    <3>2. CASE Accepted(acc.raw_tx) /\ G_context' = [acc EXCEPT !.state = "STATE_PARSED"]
               /\ (\E sw : io_send_sw(sw)) /\ UNCHANGED <<display, reviews>>
      BY <1>1, <1>3, <1>4, <2>3, <3>2, AccumulateAnswerStep DEF display
    <3>3. CASE /\ Accepted(acc.raw_tx)
               /\ ui_display_transaction([acc EXCEPT !.state = "STATE_PARSED",
                                                     !.m_hash = sha256(acc.raw_tx)])
      <4> DEFINE ctx == [acc EXCEPT !.state = "STATE_PARSED", !.m_hash = sha256(acc.raw_tx)]
      <4>1. Accumulated(ctx, data)
        BY <2>3
      <4>2. /\ ctx.state = "STATE_PARSED" /\ ctx.m_hash = sha256(ctx.raw_tx)
            /\ ctx.raw_tx = acc.raw_tx
        <5>1. acc \in Contexts
          BY <2>2 DEF Accumulated
        <5> QED BY <5>1 DEF Contexts
      <4>3. reviews = << >>
        BY <1>2, <1>3, <2>2, <3>3, NoSecondAccept
      <4>4. Accumulated([ctx EXCEPT !.state = "STATE_NONE"], data)
        BY <4>1 DEF Accumulated, Contexts
      <4>5. ui_display_transaction(ctx)
        BY <3>3
      <4> HIDE DEF ctx
      <4>6. CASE /\ G_context' = [ctx EXCEPT !.state = "STATE_NONE"]
                 /\ (\E sw : io_send_sw(sw)) /\ UNCHANGED <<display, reviews>>
        BY <1>1, <1>3, <1>4, <4>4, <4>6, AccumulateAnswerStep DEF display
      <4>7. CASE /\ G_context' = ctx /\ g_review' = ReviewPairs(email_t(ctx.raw_tx))
                 /\ page' = "review" /\ reviews' = Append(reviews, ctx.raw_tx) /\ AnswerLater
        BY <1>1, <1>3, <1>4, <3>3, <4>1, <4>2, <4>3, <4>7, ReviewOpensStep
      <4> QED BY <4>5, <4>6, <4>7 DEF ui_display_transaction, DisplayBuffers
    <3> QED BY <2>5, <3>1, <3>2, <3>3 DEF process_transaction
  <2> QED BY <1>1, <1>6, <2>4, <2>5 DEF handler_sign_tx, acc
<1> QED BY <1>5, <1>6

-----------------------------------------------------------------------------
\* The user approves: the signature that is sent is over the payload on the screen.
LEMMA ReviewApprovedStep ==
  ASSUME Inductive, ReviewApproved
  PROVE  Inductive'
<1> DEFINE sig == [by |-> G_context.bip32_path, digest |-> sha256(G_context.raw_tx)]
<1> USE DEF Inductive
<1>1. /\ G_context.m_hash = sha256(G_context.raw_tx) /\ Accepted(G_context.raw_tx)
      /\ g_review = ReviewPairs(email_t(G_context.raw_tx))
      /\ Len(reviews) = 1 /\ reviews[1] = G_context.raw_tx /\ pending = 1 /\ running
  BY DEF ReviewApproved, ReviewIsCurrent, OneReplyPerCommand
<1>2. /\ G_context \in Contexts /\ G_context.raw_tx \in Seq(Byte)
      /\ G_context.bip32_path \in Paths \cup {TruncatedPath, NoPath}
  BY DEF TypeOK, Contexts
<1>3. sig \in [by : Paths \cup {TruncatedPath, NoPath},
               digest : [set : BOOLEAN, of : Seq(Byte)]]
  BY <1>2 DEF sha256
<1>4. G_context' = [G_context EXCEPT !.state = "STATE_APPROVED", !.signature = sig]
  BY <1>1 DEF ReviewApproved, crypto_sign_message
<1> HIDE DEF sig
<1>5. /\ G_context' \in Contexts /\ G_context'.raw_tx = G_context.raw_tx
      /\ G_context'.pk_info = G_context.pk_info /\ G_context'.signature = sig
      /\ G_context'.req_type = G_context.req_type
      /\ G_context'.bip32_path = G_context.bip32_path
  BY <1>2, <1>3, <1>4 DEF Contexts
<1>6. /\ page' = "signed" /\ pending' = 0 /\ reply' = "success"
      /\ UNCHANGED <<running, g_review, g_address, addresses, reviews>>
  BY <1>1 DEF ReviewApproved, AnswerNow, Outcome
<1>7. signatures' = signatures \cup {[digest |-> sha256(G_context.raw_tx), shown |-> g_review,
                                      proves |-> Proves(sha256(G_context.raw_tx))]}
  BY <1>1 DEF ReviewApproved, crypto_sign_message
<1>8. TypeOK'
  BY <1>5, <1>6 DEF TypeOK, StatusPages
<1>9. OffWhenStopped' /\ OneReplyPerCommand' /\ ReviewIsCurrent' /\ AddressIsCurrent'
  BY <1>1, <1>6 DEF OffWhenStopped, OneReplyPerCommand, ReviewIsCurrent, AddressIsCurrent
<1>10. FlowExtendsReview'
  BY <1>5, <1>6 DEF FlowExtendsReview
<1>11. UnionDiscipline'
  <2>1. G_context.pk_info = NoKey
    BY <1>1 DEF UnionDiscipline, sha256
  <2> QED BY <1>5, <2>1 DEF UnionDiscipline
<1>12. ApprovedMeansSigned'
  <2>1. \E s \in signatures' : s.digest = sha256(reviews'[1])
    <3> DEFINE s == [digest |-> sha256(G_context.raw_tx), shown |-> g_review,
                     proves |-> Proves(sha256(G_context.raw_tx))]
    <3>1. s \in signatures' /\ s.digest = sha256(G_context.raw_tx)
      BY <1>7
    <3>2. reviews'[1] = G_context.raw_tx
      BY <1>1, <1>6
    <3> HIDE DEF s
    <3> QED BY <3>1, <3>2
  <2>2. G_context'.signature = [by |-> G_context'.bip32_path, digest |-> sha256(reviews'[1])]
    BY <1>1, <1>5, <1>6 DEF sig
  <2> QED BY <1>1, <1>6, <2>1, <2>2 DEF ApprovedMeansSigned
<1>13. SignatureBindsDisplay'
  BY <1>1, <1>7 DEF SignatureBindsDisplay, sha256
<1>14. DisclosedKeyWasShown'
  BY <1>6 DEF DisclosedKeyWasShown
<1> QED BY <1>8, <1>9, <1>10, <1>11, <1>12, <1>13, <1>14

\* The review is closed without a signature.
LEMMA ReviewClosedStep ==
  ASSUME Inductive, ReviewApprovedButFails \/ ReviewRejected
  PROVE  Inductive'
<1> USE DEF Inductive
<1>1. /\ page = "review" /\ pending = 1 /\ running
      /\ G_context' = [G_context EXCEPT !.state = "STATE_NONE"]
      /\ page' \in {"signed", "rejected"} /\ pending' = 0 /\ reply' = "error"
      /\ UNCHANGED <<running, g_review, g_address, history>>
  BY DEF ReviewApprovedButFails, SigningFailed, ReviewRejected, OneReplyPerCommand, AnswerNow,
         Outcome
<1>2. /\ G_context' \in Contexts /\ G_context'.raw_tx = G_context.raw_tx
      /\ G_context'.pk_info = G_context.pk_info /\ G_context'.m_hash = G_context.m_hash
      /\ G_context'.signature = G_context.signature /\ G_context'.state = "STATE_NONE"
      /\ G_context'.req_type = G_context.req_type
  BY <1>1 DEF TypeOK, Contexts
<1>3. TypeOK'
  BY <1>1, <1>2 DEF TypeOK, StatusPages, history
<1>4. OffWhenStopped' /\ OneReplyPerCommand' /\ ReviewIsCurrent' /\ AddressIsCurrent'
  BY <1>1 DEF OffWhenStopped, OneReplyPerCommand, ReviewIsCurrent, AddressIsCurrent
<1>5. FlowExtendsReview'
  BY <1>1, <1>2 DEF FlowExtendsReview, history
<1>6. UnionDiscipline' /\ ApprovedMeansSigned'
  BY <1>2 DEF UnionDiscipline, ApprovedMeansSigned
<1>7. SignatureBindsDisplay' /\ DisclosedKeyWasShown'
  BY <1>1 DEF SignatureBindsDisplay, DisclosedKeyWasShown, history
<1> QED BY <1>3, <1>4, <1>5, <1>6, <1>7

\* Steps that leave the context and go to a page that waits for nobody: the user's choice
\* on an address, the end of a status page.
LEMMA PageClosedStep ==
  ASSUME Inductive, AddressConfirmed \/ AddressRejected \/ StatusEnds
  PROVE  Inductive'
<1> USE DEF Inductive
<1>1. /\ running /\ UNCHANGED <<running, G_context, g_review, g_address, signatures, reviews>>
      /\ page' \in {"verified", "address_rejected", "home"} /\ pending' = 0
      /\ reply' \in {"none", "success", "error"}
  BY DEF AddressConfirmed, AddressRejected, StatusEnds, StatusPages, OneReplyPerCommand,
         AnswerNow, Outcome, history, TypeOK
<1>2. DisclosedKeyWasShown'
  <2>1. CASE AddressConfirmed
    BY <2>1 DEF AddressConfirmed, DisclosedKeyWasShown, AddressIsCurrent
  <2>2. CASE AddressRejected \/ StatusEnds
    BY <2>2 DEF AddressRejected, StatusEnds, DisclosedKeyWasShown, history
  <2> QED BY <2>1, <2>2
<1>3. TypeOK'
  BY <1>1 DEF TypeOK, StatusPages
<1>4. OffWhenStopped' /\ OneReplyPerCommand' /\ ReviewIsCurrent' /\ AddressIsCurrent'
  BY <1>1 DEF OffWhenStopped, OneReplyPerCommand, ReviewIsCurrent, AddressIsCurrent
<1>5. FlowExtendsReview'
  BY <1>1 DEF FlowExtendsReview
<1>6. UnionDiscipline' /\ ApprovedMeansSigned'
  BY <1>1 DEF UnionDiscipline, ApprovedMeansSigned
<1>7. SignatureBindsDisplay'
  BY <1>1 DEF SignatureBindsDisplay
<1> QED BY <1>2, <1>3, <1>4, <1>5, <1>6, <1>7

\* The application starts or ends.
LEMMA StartExitStep ==
  ASSUME Inductive, AppStart \/ AppExit
  PROVE  Inductive'
<1> USE DEF Inductive
<1>1. /\ G_context' = ZeroContext /\ reviews' = << >>
      /\ UNCHANGED <<signatures, addresses>>
      /\ pending' = 0 /\ running' \in BOOLEAN /\ reply' \in {"none", "success", "error"}
      /\ page' = IF running' THEN "home" ELSE "off"
  BY DEF AppStart, AppExit, OffWhenStopped, OneReplyPerCommand, TypeOK
<1>2. TypeOK'
  <2>1. G_context' \in Contexts /\ Len(G_context'.raw_tx) <= MAX_TRANSACTION_LEN
    <3>1. ZeroContext.raw_tx = << >>
      BY DEF ZeroContext
    <3>2. G_context' \in Contexts
      BY <1>1, ZeroContextType
    <3>3. Len(G_context'.raw_tx) = 0
      BY <1>1, <3>1
    <3> QED BY <3>2, <3>3, AppAssumption
  <2>2. reviews' \in Seq(Seq(Byte))
    BY <1>1
  <2>3. pending' \in Int /\ page' \in {"off", "home", "review", "address"} \cup StatusPages
    BY <1>1
  <2> QED BY <1>1, <2>1, <2>2, <2>3 DEF TypeOK
<1>3. OffWhenStopped' /\ OneReplyPerCommand' /\ ReviewIsCurrent' /\ AddressIsCurrent'
  BY <1>1 DEF OffWhenStopped, OneReplyPerCommand, ReviewIsCurrent, AddressIsCurrent
<1>4. FlowExtendsReview'
  BY <1>1 DEF FlowExtendsReview
<1>5. UnionDiscipline' /\ ApprovedMeansSigned'
  BY <1>1 DEF UnionDiscipline, ApprovedMeansSigned, ZeroContext
<1>6. SignatureBindsDisplay' /\ DisclosedKeyWasShown'
  BY <1>1 DEF SignatureBindsDisplay, DisclosedKeyWasShown
<1> QED BY <1>2, <1>3, <1>4, <1>5, <1>6

-----------------------------------------------------------------------------
\* Every step of the application preserves the invariant.
LEMMA InductiveStep == Inductive /\ [Next]_vars => Inductive'
<1> SUFFICES ASSUME Inductive, [Next]_vars PROVE Inductive'
  OBVIOUS
<1>1. CASE MalformedApdu \/ DispatchRefuses \/ handler_get_constant
           \/ handler_provide_token_info
  <2>1. /\ HostMaySend /\ (\E sw : io_send_sw(sw))
        /\ UNCHANGED <<running, G_context, display, history>>
    BY <1>1 DEF MalformedApdu, DispatchRefuses, handler_get_constant,
                handler_provide_token_info, Dispatched
  <2> QED BY <2>1, AnswerOnlyStep
<1>2. CASE GetPublicKey
  BY <1>2, GetPublicKeyStep
<1>3. CASE SignTxStart
  BY <1>3, SignTxStartStep
<1>4. CASE SignTxChunk
  BY <1>4, SignTxChunkStep
<1>5. CASE ReviewApproved
  BY <1>5, ReviewApprovedStep
<1>6. CASE ReviewApprovedButFails \/ ReviewRejected
  BY <1>6, ReviewClosedStep
<1>7. CASE AddressConfirmed \/ AddressRejected \/ StatusEnds
  BY <1>7, PageClosedStep
<1>8. CASE AppStart \/ AppExit
  BY <1>8, StartExitStep
<1>9. CASE UNCHANGED vars
  BY <1>9 DEF vars, Inductive, TypeOK, OffWhenStopped, OneReplyPerCommand, ReviewIsCurrent,
              AddressIsCurrent, FlowExtendsReview, UnionDiscipline, ApprovedMeansSigned,
              SignatureBindsDisplay, DisclosedKeyWasShown
<1> QED BY <1>1, <1>2, <1>3, <1>4, <1>5, <1>6, <1>7, <1>8, <1>9
        DEF Next, Command, UserChoice

\* The invariant is inductive, hence holds in every reachable state.
THEOREM InductiveInvariant == Spec => []Inductive
BY InductiveInit, InductiveStep, PTL DEF Spec

\* The state keeps its types and raw_tx its bound.
THEOREM TypeCorrect == Spec => []TypeOK
<1>1. Inductive => TypeOK
  BY DEF Inductive
<1> QED BY <1>1, InductiveInvariant, PTL

\* Every signature that leaves the device binds what the review pages displayed.
THEOREM SignatureBinding == Spec => []SignatureBindsDisplay
<1>1. Inductive => SignatureBindsDisplay
  BY DEF Inductive
<1> QED BY <1>1, InductiveInvariant, PTL

\* The digests that were signed are digests of byte sequences.
SignedDigests == \A s \in signatures : s.digest \in [set : BOOLEAN, of : Seq(Byte)]

\* The payload a signature is over can be told from the pages the user approved: it is
\* the only accepted payload that is displayed like this.
ApprovedPagesNameThePayload ==
  \A s \in signatures : \A p \in Seq(Byte) :
    Accepted(p) /\ ReviewPairs(email_t(p)) = s.shown => s.digest = sha256(p)

\* "The signature binds the display", in the strong sense: whatever happened on the way, a
\* signature given for these pages cannot be one over another payload, since no other
\* payload has these pages (ReviewDeterminesPayload).
THEOREM ApprovalNamesThePayload == Spec => []ApprovedPagesNameThePayload
<1>1. Init => SignedDigests
  BY DEF Init, SignedDigests
<1>2. Inductive /\ SignedDigests /\ [Next]_vars => SignedDigests'
  <2> SUFFICES ASSUME Inductive, SignedDigests, [Next]_vars PROVE SignedDigests'
    OBVIOUS
  <2>1. CASE ReviewApproved
    <3>1. G_context.m_hash \in [set : BOOLEAN, of : Seq(Byte)]
      BY DEF Inductive, TypeOK, Contexts
    <3> DEFINE sent == [digest |-> G_context.m_hash, shown |-> g_review,
                        proves |-> Proves(G_context.m_hash)]
    <3>2. signatures' = signatures \cup {sent}
      BY <2>1 DEF ReviewApproved, crypto_sign_message
    <3>3. sent.digest = G_context.m_hash
      OBVIOUS
    <3> HIDE DEF sent
    <3> QED BY <3>1, <3>2, <3>3, Zenon DEF SignedDigests
  <2>2. CASE UNCHANGED signatures
    BY <2>2 DEF SignedDigests
  <2>3. ASSUME Command PROVE UNCHANGED signatures
    BY <2>3 DEF Command, MalformedApdu, DispatchRefuses, handler_get_constant,
           handler_provide_token_info, GetPublicKey, SignTxStart, SignTxChunk, Dispatched,
           handler_get_public_key, init_transaction_context, handler_sign_tx, history
  <2>4. ASSUME \/ ReviewApprovedButFails \/ ReviewRejected \/ AddressConfirmed
               \/ AddressRejected \/ StatusEnds \/ AppStart \/ AppExit \/ UNCHANGED vars
        PROVE  UNCHANGED signatures
    BY <2>4 DEF ReviewApprovedButFails, ReviewRejected, AddressConfirmed, AddressRejected,
                StatusEnds, AppStart, AppExit, vars, history
  <2> QED BY <2>1, <2>2, <2>3, <2>4 DEF Next, UserChoice
<1>3. Inductive /\ SignedDigests => ApprovedPagesNameThePayload
  <2> SUFFICES ASSUME Inductive, SignedDigests, NEW s \in signatures, NEW p \in Seq(Byte),
                      Accepted(p), ReviewPairs(email_t(p)) = s.shown
               PROVE  s.digest = sha256(p)
    BY DEF ApprovedPagesNameThePayload
  <2>1. /\ s.digest.set /\ Accepted(s.digest.of)
        /\ s.shown = ReviewPairs(email_t(s.digest.of))
    BY DEF Inductive, SignatureBindsDisplay
  <2>2. s.digest \in [set : BOOLEAN, of : Seq(Byte)]
    BY DEF SignedDigests
  <2>3. s.digest.of \in Seq(Byte) /\ s.digest.set \in BOOLEAN
    BY <2>2
  <2>4. s.digest.of = p
    BY <2>1, <2>3, ReviewDeterminesPayload, Zenon
  <2>5. s.digest = [set |-> TRUE, of |-> p]
    BY <2>1, <2>2, <2>4
  <2> QED BY <2>5 DEF sha256
<1> QED BY <1>1, <1>2, <1>3, InductiveInvariant, PTL DEF Spec

\* One chunk 0 leads to at most one review.
THEOREM AtMostOneReview == Spec => []OneReviewPerFlow
<1>1. Inductive => OneReviewPerFlow
  <2> SUFFICES ASSUME Inductive PROVE Len(reviews) <= 1
    BY DEF OneReviewPerFlow
  <2>1. CASE reviews = << >>
    BY <2>1
  <2>2. CASE Len(reviews) = 1
    BY <2>2
  <2> QED BY <2>1, <2>2 DEF Inductive, FlowExtendsReview
<1> QED BY <1>1, InductiveInvariant, PTL

\* A reply is owed exactly while a page waits for the user.
THEOREM ExactlyOneReply == Spec => []OneReplyPerCommand
<1>1. Inductive => OneReplyPerCommand
  BY DEF Inductive
<1> QED BY <1>1, InductiveInvariant, PTL

\* pk_info and tx_info, which share their memory, are never in use together.
THEOREM UnionIsSafe == Spec => []UnionDiscipline
<1>1. Inductive => UnionDiscipline
  BY DEF Inductive
<1> QED BY <1>1, InductiveInvariant, PTL

\* The key sent after an address review is the one whose address was displayed.
THEOREM AddressBinding == Spec => []DisclosedKeyWasShown
<1>1. Inductive => DisclosedKeyWasShown
  BY DEF Inductive
<1> QED BY <1>1, InductiveInvariant, PTL

\* STATE_APPROVED stands only with a signature sent for what this flow displayed.
THEOREM ApprovalIsBacked == Spec => []ApprovedMeansSigned
<1>1. Inductive => ApprovedMeansSigned
  BY DEF Inductive
<1> QED BY <1>1, InductiveInvariant, PTL

-----------------------------------------------------------------------------
(* HardMailApp implements ClearSigning.                                    *)

\* Nothing is on the screen of ClearSigning before or after: it stutters.
LEMMA NoReviewStutters ==
  ASSUME page # "review", page' # "review", UNCHANGED signatures
  PROVE  UNCHANGED <<DocumentOnScreen, DocumentsSigned>>
BY DEF DocumentOnScreen, DocumentsSigned

\* A command either leaves ClearSigning where it is or shows a document.
LEMMA CommandRefines ==
  ASSUME Inductive, Command
  PROVE  Promise!Show \/ UNCHANGED <<DocumentOnScreen, DocumentsSigned>>
<1>1. HostMaySend /\ UNCHANGED signatures
  BY DEF Command, MalformedApdu, DispatchRefuses, handler_get_constant,
         handler_provide_token_info, GetPublicKey, SignTxStart, SignTxChunk, Dispatched,
         handler_get_public_key, init_transaction_context, handler_sign_tx, history
<1>2. page # "review"
  BY <1>1, NoPageWaits
<1>3. CASE page' = "review"
  BY <1>1, <1>2, <1>3 DEF Promise!Show, DocumentOnScreen, DocumentsSigned
<1>4. CASE page' # "review"
  BY <1>1, <1>2, <1>4, NoReviewStutters
<1> QED BY <1>3, <1>4

\* An approval signs the document on the screen.
LEMMA ApprovalRefines ==
  ASSUME Inductive, ReviewApproved
  PROVE  Promise!Sign
<1>1. /\ page = "review" /\ page' # "review"
      /\ signatures' = signatures \cup {[digest |-> G_context.m_hash, shown |-> g_review,
                                         proves |-> Proves(G_context.m_hash)]}
  BY DEF ReviewApproved, crypto_sign_message
<1>2. Proves(G_context.m_hash) = g_review
  BY <1>1 DEF Inductive, ReviewIsCurrent, Proves, sha256
<1>3. DocumentsSigned' = DocumentsSigned \cup {<<g_review>>}
  <2> DEFINE sent == [digest |-> G_context.m_hash, shown |-> g_review, proves |-> g_review]
  <2>1. signatures' = signatures \cup {sent} /\ sent.proves = g_review
    BY <1>1, <1>2
  <2> HIDE DEF sent
  <2>2. ASSUME NEW d PROVE d \in DocumentsSigned' <=> d \in DocumentsSigned \cup {<<g_review>>}
    BY <2>1 DEF DocumentsSigned
  <2> QED BY <2>2
<1>4. DocumentOnScreen = <<g_review>> /\ DocumentOnScreen' = << >>
  BY <1>1 DEF DocumentOnScreen
<1>5. <<g_review>> # << >>
  OBVIOUS
<1> QED BY <1>3, <1>4, <1>5 DEF Promise!Sign

\* A review that is rejected, whose signature fails, or that the application's end
\* interrupts is dismissed.
LEMMA DismissalRefines ==
  ASSUME page = "review", page' # "review", UNCHANGED signatures
  PROVE  Promise!Dismiss
BY DEF Promise!Dismiss, DocumentOnScreen, DocumentsSigned

\* The whole application, every command, callback, failure and restart of it, implements
\* what ClearSigning promises: only a document on the screen is ever signed.
THEOREM Implementation == Spec => ImplementsClearSigning
<1>1. Init => Promise!Init
  BY DEF Init, Promise!Init, DocumentOnScreen, DocumentsSigned
<1>2. Inductive /\ [Next]_vars => [Promise!Next]_<<DocumentOnScreen, DocumentsSigned>>
  <2> SUFFICES ASSUME Inductive, [Next]_vars
               PROVE  Promise!Next \/ UNCHANGED <<DocumentOnScreen, DocumentsSigned>>
    OBVIOUS
  <2>1. CASE Command
    BY <2>1, CommandRefines DEF Promise!Next
  <2>2. CASE ReviewApproved
    BY <2>2, ApprovalRefines DEF Promise!Next
  <2>3. CASE ReviewApprovedButFails \/ ReviewRejected
    <3>1. page = "review" /\ page' # "review" /\ UNCHANGED signatures
      BY <2>3 DEF ReviewApprovedButFails, ReviewRejected, history
    <3> QED BY <3>1, DismissalRefines DEF Promise!Next
  <2>4. CASE AddressConfirmed \/ AddressRejected \/ StatusEnds \/ AppStart
    <3>1. page # "review" /\ page' # "review" /\ UNCHANGED signatures
      BY <2>4 DEF AddressConfirmed, AddressRejected, StatusEnds, AppStart, StatusPages,
                  history, Inductive, OffWhenStopped
    <3> QED BY <3>1, NoReviewStutters
  <2>5. CASE AppExit
    <3>1. page' # "review" /\ UNCHANGED signatures
      BY <2>5 DEF AppExit
    <3>2. CASE page = "review"
      BY <3>1, <3>2, DismissalRefines DEF Promise!Next
    <3>3. CASE page # "review"
      BY <3>1, <3>3, NoReviewStutters
    <3> QED BY <3>2, <3>3
  <2>6. CASE UNCHANGED vars
    BY <2>6 DEF vars, DocumentOnScreen, DocumentsSigned
  <2> QED BY <2>1, <2>2, <2>3, <2>4, <2>5, <2>6 DEF Next, UserChoice
<1> QED BY <1>1, <1>2, InductiveInvariant, PTL DEF Spec, ImplementsClearSigning, Promise!Spec
=============================================================================
