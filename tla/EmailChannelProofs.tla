------------------------ MODULE EmailChannelProofs ------------------------
(***************************************************************************)
(* However an email's payload is edited on its way, it stays a sequence of *)
(* bytes, and if what arrives is accepted it is neither a proper prefix    *)
(* nor a proper extension of the payload that was written, it is canonical *)
(* and its review pages are those of the written payload only if it is     *)
(* that payload.  Unedited, it is accepted exactly within the limits.      *)
(***************************************************************************)
EXTENDS EmailChannel, EmailCodecProofs

\* What the writer produces for the emails of the channel is a sequence of bytes.
LEMMA WrittenType ==
  ASSUME NEW m \in Emails
  PROVE  transaction_serialize(m, OUT_LEN) \in Seq(Byte)
<1>1. m \in EmailRecords
  BY EmailsAssumption
<1> QED BY <1>1, SerializeType DEF transaction_serialize

\* The types of the state.
TypeOK ==
  /\ email \in Emails
  /\ wire \in Seq(Byte)
  /\ edits \in 0 .. MaxEdits

\* The state keeps its types: whatever is edited, the wire carries bytes.
LEMMA ChannelTypes == Spec => []TypeOK
<1>1. Init => TypeOK
  BY WrittenType, ChannelAssumption DEF Init, TypeOK
<1>2. TypeOK /\ [Next]_vars => TypeOK'
  <2> SUFFICES ASSUME TypeOK, [Next]_vars PROVE TypeOK'
    OBVIOUS
  <2> USE ChannelAssumption DEF TypeOK
  <2>1. ASSUME NEW w \in Seq(Byte), Deliver(w) PROVE TypeOK'
    BY <2>1 DEF Deliver
  <2>2. CASE Substitute
    <3>1. PICK i \in 1 .. Len(wire), b \in Byte : Deliver([wire EXCEPT ![i] = b])
      BY <2>2 DEF Substitute
    <3>2. [wire EXCEPT ![i] = b] \in Seq(Byte)
      OBVIOUS
    <3> QED BY <2>1, <3>1, <3>2
  <2>3. CASE Insert
    <3>1. PICK i \in 0 .. Len(wire), b \in Byte :
            Deliver(SubSeq(wire, 1, i) \o <<b>> \o SubSeq(wire, i + 1, Len(wire)))
      BY <2>3 DEF Insert
    <3>2. /\ SubSeq(wire, 1, i) \in Seq(Byte) /\ SubSeq(wire, i + 1, Len(wire)) \in Seq(Byte)
          /\ <<b>> \in Seq(Byte)
      OBVIOUS
    <3>3. SubSeq(wire, 1, i) \o <<b>> \o SubSeq(wire, i + 1, Len(wire)) \in Seq(Byte)
      BY <3>2
    <3> QED BY <2>1, <3>1, <3>3
  <2>4. CASE Lose
    <3>1. PICK i \in 1 .. Len(wire) :
            Deliver(SubSeq(wire, 1, i - 1) \o SubSeq(wire, i + 1, Len(wire)))
      BY <2>4 DEF Lose
    <3>2. /\ SubSeq(wire, 1, i - 1) \in Seq(Byte)
          /\ SubSeq(wire, i + 1, Len(wire)) \in Seq(Byte)
      OBVIOUS
    <3>3. SubSeq(wire, 1, i - 1) \o SubSeq(wire, i + 1, Len(wire)) \in Seq(Byte)
      BY <3>2
    <3> QED BY <2>1, <3>1, <3>3
  <2>5. CASE UNCHANGED vars
    BY <2>5 DEF vars
  <2> QED BY <2>2, <2>3, <2>4, <2>5 DEF Next
<1> QED BY <1>1, <1>2, PTL DEF Spec

\* For every alphabet, every field limit and any number of edits: a payload that arrives
\* and is accepted is neither a proper prefix nor a proper extension of the one written.
THEOREM ChannelPrefixFree == Spec => []PrefixFree
<1>1. TypeOK => PrefixFree
  <2> SUFFICES ASSUME TypeOK, Accepted(wire), Accepted(Written)
               PROVE  ~IsProperPrefix(wire, Written) /\ ~IsProperPrefix(Written, wire)
    BY DEF PrefixFree
  <2>1. wire \in Seq(Byte) /\ Written \in Seq(Byte)
    BY WrittenType DEF TypeOK, Written
  <2>2. ASSUME NEW p \in Seq(Byte), NEW q \in Seq(Byte), Accepted(p), Accepted(q)
        PROVE  ~IsProperPrefix(p, q)
    <3> SUFFICES ASSUME IsProperPrefix(p, q) PROVE FALSE
      OBVIOUS
    <3>1. Len(p) < Len(q) /\ \A i \in 1 .. Len(p) : p[i] = q[i]
      BY DEF IsProperPrefix
    <3>2. p = q
      BY <2>2, <3>1, AcceptedPrefixFree
    <3> QED BY <3>1, <3>2
  <2> QED BY <2>1, <2>2
<1> QED BY <1>1, ChannelTypes, PTL

\* For every alphabet, every field limit and any number of edits: what arrives and is
\* accepted is the canonical form of the email it is parsed into.
THEOREM ChannelRoundTrip == Spec => []RoundTrip
<1>1. TypeOK => RoundTrip
  BY AcceptedIsCanonical DEF TypeOK, RoundTrip
<1> QED BY <1>1, ChannelTypes, PTL

\* For every alphabet, every field limit and any number of edits: when the review pages
\* of what arrived are those of the email that was written, nothing was changed.
THEOREM ChannelDisplay == Spec => []DisplayDeterminesPayload
<1>1. TypeOK => DisplayDeterminesPayload
  <2> SUFFICES ASSUME TypeOK, Accepted(wire), Accepted(Written),
                      ReviewPairs(email_t(wire)) = ReviewPairs(email_t(Written))
               PROVE  wire = Written
    BY DEF DisplayDeterminesPayload
  <2>1. wire \in Seq(Byte) /\ Written \in Seq(Byte)
    BY WrittenType DEF TypeOK, Written
  <2> QED BY <2>1, ReviewDeterminesPayload
<1> QED BY <1>1, ChannelTypes, PTL

-----------------------------------------------------------------------------
(* The limits.                                                             *)
\* read_text_field on a field of printable text: only its length matters.
LEMMA ReadPlainField ==
  ASSUME NEW p \in Seq(Byte), NEW o \in Nat, NEW f \in Seq(Byte), f \in Seq(Printable),
         NEW max \in Nat, o + 1 <= Len(p), p[o + 1] = Len(f), TextField(p, o) = f,
         o + 1 + Len(f) <= Len(p)
  PROVE  read_text_field(p, o, max) <=> Len(f) \in 1 .. max
<1>1. Len(f) \in Nat
  OBVIOUS
<1>2. CanRead(p, o, 1) /\ CanRead(p, o + 1, Len(f))
  BY DEF CanRead
<1>3. text_ok(p, o + 1, Len(f), FALSE)
  <2> SUFFICES ASSUME NEW i \in (o + 1) + 1 .. (o + 1) + Len(f) PROVE p[i] \in Printable
    BY DEF text_ok
  <2> DEFINE n == Len(f)
             j == i - (o + 1)
  <2>1. n \in Nat /\ o + 1 + n <= Len(p)
    BY <1>1
  <2>2. j \in 1 .. n
    BY <1>1
  <2>3. f = SubSeq(p, (o + 1) + 1, (o + 1) + n)
    BY Zenon DEF TextField, Slice
  <2>4. SubSeq(p, (o + 1) + 1, (o + 1) + n)[j] = p[i]
    <3> HIDE DEF n
    <3>1. i \in (o + 1) + 1 .. (o + 1) + n
      BY DEF n
    <3> QED BY <2>1, <3>1
  <2>5. f[j] \in Printable
    <3> HIDE DEF j
    <3> QED BY <2>2
  <2> QED BY <2>3, <2>4, <2>5, Zenon
<1>4. read_text_field(p, o, max) <=> (Len(f) # 0 /\ Len(f) <= max)
  BY <1>2, <1>3, Zenon DEF read_text_field
<1> QED BY <1>1, <1>4

\* The limits decide whether a written email of printable text is accepted.
LEMMA WithinLimits ==
  ASSUME NEW m \in EmailRecords, FitsWidths(m), PlainText(m),
         m.has_attachment = 1 => Len(m.att_hash) = ATT_HASH_LEN
  PROVE  LET p == HeadBytes(m) \o TailBytes(m)
         IN  Accepted(p) <=> FieldsWithinLimits(m) /\ Len(p) <= MAX_TX_LEN
<1> DEFINE p == HeadBytes(m) \o TailBytes(m)
<1>1. p \in Seq(Byte) /\ ParsedAs(p, m)
  BY SerializeType, WrittenIsParsed, Zenon
<1> HIDE DEF p
<1>2. /\ m.from \in Seq(Byte) /\ m.to \in Seq(Byte) /\ m.subject \in Seq(Byte)
      /\ m.body \in Seq(Byte) /\ m.att_name \in Seq(Byte) /\ m.att_hash \in Seq(Byte)
      /\ m.has_attachment \in {0, 1}
  BY DEF EmailRecords
<1>3. /\ CHALLENGE_LEN \in Nat /\ ATT_HASH_LEN \in Nat /\ MAX_FROM_LEN \in Nat
      /\ MAX_TO_LEN \in Nat /\ MAX_SUBJECT_LEN \in Nat /\ MAX_BODY_LEN \in Nat
      /\ MAX_ATT_NAME_LEN \in Nat /\ MAX_TX_LEN \in Nat
  <2>1. \A r \in Nat : r * r \in Nat
    OBVIOUS
  <2> QED BY <2>1, LengthAssumption, RadixAssumption
<1> DEFINE to == ToAt(p)  su == SubjectAt(p)  bo == BodyAt(p)  at == AttAt(p)
           lf == Len(m.from)  lt == Len(m.to)  ls == Len(m.subject)  lb == Len(m.body)
           ln == Len(m.att_name)  n == Len(p)
<1>4. /\ lf \in Nat /\ lt \in Nat /\ ls \in Nat /\ lb \in Nat /\ ln \in Nat /\ n \in Nat
      /\ Len(m.att_hash) \in Nat
  BY <1>1, <1>2
<1>5. /\ CHALLENGE_LEN + 1 <= n /\ to = CHALLENGE_LEN + 1 + lf /\ to + 1 <= n
      /\ su = to + 1 + lt /\ su + 1 <= n /\ bo = su + 1 + ls /\ bo + 2 <= n
      /\ at = bo + 2 + lb /\ at + 1 <= n
  BY <1>1, Zenon DEF ParsedAs
<1>6. /\ to \in Nat /\ su \in Nat /\ bo \in Nat /\ at \in Nat
      /\ CHALLENGE_LEN + 1 + lf <= n /\ to + 1 + lt <= n /\ su + 1 + ls <= n
      /\ bo + 2 + lb <= n
  <2> HIDE DEF to, su, bo, at, lf, lt, ls, lb, ln, n
  <2> QED BY <1>3, <1>4, <1>5
<1>7. /\ read_text_field(p, CHALLENGE_LEN, MAX_FROM_LEN) <=> lf \in 1 .. MAX_FROM_LEN
      /\ read_text_field(p, to, MAX_TO_LEN) <=> lt \in 1 .. MAX_TO_LEN
      /\ read_text_field(p, su, MAX_SUBJECT_LEN) <=> ls \in 1 .. MAX_SUBJECT_LEN
  <2>1. /\ m.from \in Seq(Printable) /\ m.to \in Seq(Printable) /\ m.subject \in Seq(Printable)
    BY DEF PlainText
  <2>2. /\ p[CHALLENGE_LEN + 1] = lf /\ TextField(p, CHALLENGE_LEN) = m.from
        /\ p[to + 1] = lt /\ TextField(p, to) = m.to
        /\ p[su + 1] = ls /\ TextField(p, su) = m.subject
    BY <1>1, Zenon DEF ParsedAs
  <2> HIDE DEF to, su
  <2>3. read_text_field(p, CHALLENGE_LEN, MAX_FROM_LEN) <=> lf \in 1 .. MAX_FROM_LEN
    BY <1>1, <1>2, <1>3, <1>5, <1>6, <2>1, <2>2, ReadPlainField, Zenon
  <2>4. read_text_field(p, to, MAX_TO_LEN) <=> lt \in 1 .. MAX_TO_LEN
    BY <1>1, <1>2, <1>3, <1>5, <1>6, <2>1, <2>2, ReadPlainField, Zenon
  <2>5. read_text_field(p, su, MAX_SUBJECT_LEN) <=> ls \in 1 .. MAX_SUBJECT_LEN
    BY <1>1, <1>2, <1>3, <1>5, <1>6, <2>1, <2>2, ReadPlainField, Zenon
  <2> QED BY <2>3, <2>4, <2>5, Zenon DEF to, su
<1>8. /\ BodyInBounds(p, bo) <=> lb \in 1 .. MAX_BODY_LEN
      /\ text_ok(p, bo + 2, U16(p, bo), TRUE)
  <2>1. U16(p, bo) = lb /\ Slice(p, bo + 2, lb) = m.body
    BY <1>1, Zenon DEF ParsedAs
  <2>2. CanRead(p, bo, 2) /\ CanRead(p, bo + 2, lb)
    BY <1>5, <1>6, Zenon DEF CanRead
  <2>3. BodyInBounds(p, bo) <=> (lb # 0 /\ lb <= MAX_BODY_LEN)
    BY <2>1, <2>2, Zenon DEF BodyInBounds
  <2>4. (lb # 0 /\ lb <= MAX_BODY_LEN) <=> lb \in 1 .. MAX_BODY_LEN
    <3> HIDE DEF lb
    <3> QED BY <1>3, <1>4
  <2>5. text_ok(p, bo + 2, lb, TRUE)
    <3> SUFFICES ASSUME NEW i \in (bo + 2) + 1 .. (bo + 2) + lb
                 PROVE  p[i] \in Printable \/ p[i] = Newline
      BY Zenon DEF text_ok
    <3> DEFINE j == i - (bo + 2)
    <3>1. m.body = SubSeq(p, (bo + 2) + 1, (bo + 2) + lb)
      BY <2>1, Zenon DEF Slice
    <3>2. m.body \in Seq(Printable \cup {Newline})
      BY DEF PlainText
    <3>3. j \in 1 .. lb
      <4> HIDE DEF bo, lb
      <4> QED BY <1>4, <1>6
    <3>4. SubSeq(p, (bo + 2) + 1, (bo + 2) + lb)[j] = p[i]
      <4> HIDE DEF bo, lb
      <4>1. (bo + 2) + lb <= Len(p)
        BY <1>6 DEF n
      <4> QED BY <1>1, <1>4, <1>6, <4>1
    <3>5. m.body[j] \in Printable \cup {Newline}
      <4> HIDE DEF j
      <4> QED BY <3>2, <3>3
    <3> QED BY <3>1, <3>4, <3>5, Zenon
  <2> QED BY <2>1, <2>3, <2>4, <2>5, Zenon
<1>9. /\ CanRead(p, at, 1) /\ ~(p[at + 1] > 1) /\ p[at + 1] = m.has_attachment
      /\ ~(~CanRead(p, 0, CHALLENGE_LEN))
  <2>1. p[at + 1] = m.has_attachment
    BY <1>1, Zenon DEF ParsedAs
  <2>2. ~(m.has_attachment > 1)
    BY <1>2
  <2>3. CanRead(p, at, 1)
    BY <1>5, Zenon DEF CanRead
  <2>4. CanRead(p, 0, CHALLENGE_LEN)
    <3>1. 0 + CHALLENGE_LEN <= n
      <4> HIDE DEF n
      <4> QED BY <1>3, <1>4, <1>5
    <3> QED BY <3>1, Zenon DEF CanRead
  <2> QED BY <2>1, <2>2, <2>3, <2>4, Zenon
<1>10. ASSUME m.has_attachment = 1
       PROVE  /\ AttachmentOk(p, at + 1) <=> ln \in 1 .. MAX_ATT_NAME_LEN
              /\ ExactFit(p)
  <2> DEFINE sz == AttSizeAt(p)
  <2>1. /\ at + 2 <= n /\ p[at + 2] = ln /\ TextField(p, at + 1) = m.att_name
        /\ sz = at + 2 + ln /\ sz + 4 + Len(m.att_hash) = n
    BY <1>1, <1>10, Zenon DEF ParsedAs
  <2>2. Len(m.att_hash) = ATT_HASH_LEN /\ m.att_name \in Seq(Printable)
    BY <1>10 DEF PlainText
  <2>3. sz = FieldEnd(p, at + 1)
    BY DEF AttSizeAt
  <2> DEFINE k == at + 1
  <2>4. k \in Nat /\ k + 1 <= n /\ k + 1 = at + 2 /\ k + 1 + ln <= n
    <3> HIDE DEF at, ln, n, sz
    <3> QED BY <1>3, <1>4, <1>6, <2>1, <2>2
  <2>5. p[k + 1] = ln /\ TextField(p, k) = m.att_name
    BY <2>1, <2>4, Zenon
  <2> HIDE DEF k
  <2>6. read_text_field(p, k, MAX_ATT_NAME_LEN) <=> ln \in 1 .. MAX_ATT_NAME_LEN
    BY <1>1, <1>2, <1>3, <2>2, <2>4, <2>5, ReadPlainField, Zenon
  <2>7. CanRead(p, sz, 4) /\ CanRead(p, sz + 4, ATT_HASH_LEN)
    <3>1. sz + 4 <= n /\ sz + 4 + ATT_HASH_LEN <= n /\ sz \in Nat
      <4> HIDE DEF at, ln, n, sz
      <4> QED BY <1>3, <1>4, <1>6, <2>1, <2>2
    <3> QED BY <3>1, Zenon DEF CanRead
  <2>8. AttachmentOk(p, at + 1) <=> ln \in 1 .. MAX_ATT_NAME_LEN
    BY <2>3, <2>6, <2>7, Zenon DEF AttachmentOk, k
  <2>9. ExactFit(p)
    BY <1>9, <1>10, <2>1, <2>2, Zenon DEF ExactFit, EndAt
  <2> QED BY <2>8, <2>9
<1>11. ASSUME m.has_attachment = 0 PROVE ExactFit(p)
  <2>1. at + 1 = n /\ p[at + 1] # 1
    <3>1. 0 # 1
      OBVIOUS
    <3> QED BY <1>1, <1>9, <1>11, <3>1, Zenon DEF ParsedAs
  <2> QED BY <2>1, Zenon DEF ExactFit, EndAt
<1>12. ExactFit(p)
  BY <1>2, <1>10, <1>11, Zenon
<1>13. p[at + 1] = 1 /\ ~AttachmentOk(p, at + 1)
         <=> m.has_attachment = 1 /\ ~(ln \in 1 .. MAX_ATT_NAME_LEN)
  BY <1>9, <1>10, Zenon
<1>14. ~(n > MAX_TX_LEN) <=> n <= MAX_TX_LEN
  <2> HIDE DEF n
  <2> QED BY <1>3, <1>4
<1>15. FieldsWithinLimits(m) <=>
         /\ lf \in 1 .. MAX_FROM_LEN /\ lt \in 1 .. MAX_TO_LEN /\ ls \in 1 .. MAX_SUBJECT_LEN
         /\ lb \in 1 .. MAX_BODY_LEN
         /\ m.has_attachment = 1 => ln \in 1 .. MAX_ATT_NAME_LEN
  BY Zenon DEF FieldsWithinLimits
<1>16. ASSUME Accepted(p) PROVE FieldsWithinLimits(m) /\ n <= MAX_TX_LEN
  <2>1. /\ ~(Len(p) > MAX_TX_LEN)
        /\ read_text_field(p, CHALLENGE_LEN, MAX_FROM_LEN)
        /\ read_text_field(p, ToAt(p), MAX_TO_LEN)
        /\ read_text_field(p, SubjectAt(p), MAX_SUBJECT_LEN)
        /\ BodyInBounds(p, BodyAt(p))
        /\ p[AttAt(p) + 1] = 1 => AttachmentOk(p, AttAt(p) + 1)
    BY <1>16, AcceptedChecks, Zenon
  <2> QED BY <1>7, <1>8, <1>13, <1>14, <1>15, <2>1, Zenon
<1>17. ASSUME FieldsWithinLimits(m), n <= MAX_TX_LEN PROVE Accepted(p)
  <2>1. /\ ~(Len(p) > MAX_TX_LEN)
        /\ ~(~read_text_field(p, CHALLENGE_LEN, MAX_FROM_LEN))
        /\ ~(~read_text_field(p, ToAt(p), MAX_TO_LEN))
        /\ ~(~read_text_field(p, SubjectAt(p), MAX_SUBJECT_LEN))
        /\ ~(~BodyInBounds(p, BodyAt(p)))
        /\ ~(p[AttAt(p) + 1] = 1 /\ ~AttachmentOk(p, AttAt(p) + 1))
    BY <1>7, <1>8, <1>13, <1>14, <1>15, <1>17, Zenon
  <2>2. ~(~text_ok(p, BodyAt(p) + 2, U16(p, BodyAt(p)), TRUE))
    BY <1>8, Zenon
  <2>3. ~(~CanRead(p, AttAt(p), 1) \/ p[AttAt(p) + 1] > 1)
    BY <1>9, Zenon
  <2>4. ~(~CanRead(p, 0, CHALLENGE_LEN))
    BY <1>9, Zenon
  <2>5. transaction_deserialize(p) = "PARSING_OK"
    BY <1>12, <2>1, <2>2, <2>3, <2>4, Zenon DEF transaction_deserialize
  <2> QED BY <2>5 DEF Accepted
<1> QED BY <1>16, <1>17, Zenon DEF p

\* Until the first edit the wire carries what was written.
LEMMA UneditedIsWritten == Spec => [](edits = 0 => wire = Written)
<1>1. Init => (edits = 0 => wire = Written)
  BY DEF Init, Written
<1>2. TypeOK /\ (edits = 0 => wire = Written) /\ [Next]_vars => (edits = 0 => wire = Written)'
  <2> SUFFICES ASSUME TypeOK, edits = 0 => wire = Written, [Next]_vars, edits' = 0
               PROVE  wire' = Written'
    OBVIOUS
  <2>1. edits \in Nat
    BY ChannelAssumption DEF TypeOK
  <2>2. ~Next
    <3>1. Next => edits' = edits + 1
      BY Zenon DEF Next, Substitute, Insert, Lose, Deliver
    <3>2. edits' # edits + 1
      BY <2>1
    <3> QED BY <3>1, <3>2, Zenon
  <2> QED BY <2>2 DEF vars, Written
<1> QED BY <1>1, <1>2, ChannelTypes, PTL DEF Spec

\* For all values of the limits: an email of printable text whose fields fit the widths of
\* email_t, once written, is accepted exactly when it keeps the limits.
THEOREM ChannelLimits == Spec => []AcceptedIffWithinLimits
<1>1. TypeOK /\ (edits = 0 => wire = Written) => AcceptedIffWithinLimits
  <2> SUFFICES ASSUME email \in Emails, wire = Written, wire # << >>, PlainText(email)
               PROVE  Accepted(wire) <=> FieldsWithinLimits(email) /\ Len(wire) <= MAX_TX_LEN
    BY DEF TypeOK, AcceptedIffWithinLimits
  <2>1. wire = HeadBytes(email) \o TailBytes(email)
    BY DEF Written, transaction_serialize
  <2>2. /\ email \in EmailRecords /\ FitsWidths(email)
        /\ email.has_attachment = 1 => Len(email.att_hash) = ATT_HASH_LEN
    BY EmailsAssumption
  <2> QED BY <2>1, <2>2, WithinLimits, Zenon
<1> QED BY <1>1, ChannelTypes, UneditedIsWritten, PTL
=============================================================================
