------------------------- MODULE EmailCodecProofs -------------------------
(***************************************************************************)
(* Four facts about the email codec, for every alphabet and every limit.   *)
(* The set of payloads the parser accepts is prefix-free: it reads the     *)
(* same lengths at the same offsets in a payload and in any extension of   *)
(* it, and requires both to end exactly after the last field.  A payload   *)
(* it accepts is the canonical form of the email it is parsed into; what   *)
(* the writer writes is parsed back; and the review pages of an accepted   *)
(* payload determine it.                                                   *)
(***************************************************************************)
EXTENDS EmailCodec, WellFoundedInduction, TLAPS

\* What an accepted payload satisfies, as far as its layout is concerned: every length
\* byte the parser used lies within the payload, and the payload ends after the last field.
Layout(p) ==
  /\ CHALLENGE_LEN + 1 <= Len(p)
  /\ ToAt(p) + 1 <= Len(p)
  /\ SubjectAt(p) + 1 <= Len(p)
  /\ BodyAt(p) + 2 <= Len(p)
  /\ AttAt(p) + 1 <= Len(p)
  /\ p[AttAt(p) + 1] = 1 => AttAt(p) + 2 <= Len(p)
  /\ EndAt(p) = Len(p)

\* The checks that a payload the parser accepts has passed, none of them expanded.
LEMMA AcceptedChecks ==
  ASSUME NEW p, Accepted(p)
  PROVE  /\ ~(Len(p) > MAX_TX_LEN)
         /\ read_text_field(p, CHALLENGE_LEN, MAX_FROM_LEN)
         /\ read_text_field(p, ToAt(p), MAX_TO_LEN)
         /\ read_text_field(p, SubjectAt(p), MAX_SUBJECT_LEN)
         /\ BodyInBounds(p, BodyAt(p))
         /\ CanRead(p, AttAt(p), 1)
         /\ p[AttAt(p) + 1] = 1 => AttachmentOk(p, AttAt(p) + 1)
         /\ ExactFit(p)
  BY DEF Accepted, transaction_deserialize

\* Where a text field that was read ends.
LEMMA FieldEndType ==
  ASSUME NEW p \in Seq(Byte), NEW o \in Nat, o + 1 <= Len(p)
  PROVE  FieldEnd(p, o) \in Nat
<1>1. p[o + 1] \in Byte
  OBVIOUS
<1> QED BY <1>1, RadixAssumption DEF FieldEnd, Byte

\* A payload the parser accepts has that layout (deserialize.c reads every length through
\* a bounds-checked buffer read and ends with the exact-fit test), and its offsets are
\* natural numbers.
LEMMA AcceptedLayout ==
  ASSUME NEW p \in Seq(Byte), Accepted(p)
  PROVE  /\ Layout(p)
         /\ ToAt(p) \in Nat /\ SubjectAt(p) \in Nat /\ BodyAt(p) \in Nat /\ AttAt(p) \in Nat
<1> USE LengthAssumption
<1>1. CHALLENGE_LEN + 1 <= Len(p)
  BY AcceptedChecks DEF read_text_field, CanRead
<1>2. ToAt(p) \in Nat /\ ToAt(p) + 1 <= Len(p)
  BY <1>1, AcceptedChecks, FieldEndType DEF read_text_field, CanRead, ToAt
<1>3. SubjectAt(p) \in Nat /\ SubjectAt(p) + 1 <= Len(p)
  BY <1>2, AcceptedChecks, FieldEndType DEF read_text_field, CanRead, SubjectAt
<1>4. BodyAt(p) \in Nat /\ BodyAt(p) + 2 <= Len(p)
  BY <1>3, AcceptedChecks, FieldEndType DEF BodyInBounds, CanRead, BodyAt
<1>5. U16(p, BodyAt(p)) \in Nat
  <2>1. p[BodyAt(p) + 1] \in Nat /\ p[BodyAt(p) + 2] \in Nat
    BY <1>4, RadixAssumption DEF Byte
  <2>2. \A a, b, r \in Nat : a * r + b \in Nat
    OBVIOUS
  <2> QED BY <2>1, <2>2, RadixAssumption DEF U16
<1>6. AttAt(p) \in Nat /\ AttAt(p) + 1 <= Len(p)
  BY <1>4, <1>5, AcceptedChecks DEF AttAt, CanRead
<1>7. p[AttAt(p) + 1] = 1 => AttAt(p) + 2 <= Len(p)
  <2>1. p[AttAt(p) + 1] = 1 => CanRead(p, AttAt(p) + 1, 1)
    BY AcceptedChecks DEF AttachmentOk, read_text_field
  <2> QED BY <1>6, <2>1 DEF CanRead
<1>8. EndAt(p) = Len(p)
  BY AcceptedChecks DEF ExactFit
<1> QED BY <1>1, <1>2, <1>3, <1>4, <1>6, <1>7, <1>8 DEF Layout

\* No accepted payload is a proper prefix of another one.
THEOREM AcceptedPrefixFree ==
  ASSUME NEW p \in Seq(Byte), NEW q \in Seq(Byte), Accepted(p), Accepted(q),
         Len(p) <= Len(q), \A i \in 1 .. Len(p) : p[i] = q[i]
  PROVE  p = q
<1> USE RadixAssumption, LengthAssumption
<1>1. Layout(p) /\ Layout(q)
  BY AcceptedLayout
<1>2. ToAt(p) \in Nat /\ SubjectAt(p) \in Nat /\ BodyAt(p) \in Nat /\ AttAt(p) \in Nat
  BY AcceptedLayout
<1>3. ToAt(q) = ToAt(p)
  BY <1>1 DEF Layout, ToAt, FieldEnd
<1>4. SubjectAt(q) = SubjectAt(p)
  BY <1>1, <1>2, <1>3 DEF Layout, SubjectAt, FieldEnd
<1>5. BodyAt(q) = BodyAt(p)
  BY <1>1, <1>2, <1>4 DEF Layout, BodyAt, FieldEnd
<1>6. AttAt(q) = AttAt(p)
  <2>1. /\ p[BodyAt(p) + 1] = q[BodyAt(p) + 1]
        /\ p[BodyAt(p) + 2] = q[BodyAt(p) + 2]
    BY <1>1, <1>2 DEF Layout
  <2> QED BY <2>1, <1>5 DEF AttAt, U16
<1>7. EndAt(q) = EndAt(p)
  <2>1. p[AttAt(p) + 1] = q[AttAt(p) + 1]
    BY <1>1, <1>2 DEF Layout
  <2>2. CASE p[AttAt(p) + 1] = 1
    <3>1. p[AttAt(p) + 2] = q[AttAt(p) + 2]
      BY <2>2, <1>1, <1>2 DEF Layout
    <3>2. AttSizeAt(q) = AttSizeAt(p)
      BY <3>1, <1>2, <1>6 DEF AttSizeAt, FieldEnd
    <3> QED BY <2>1, <3>2, <1>6 DEF EndAt
  <2>3. CASE p[AttAt(p) + 1] # 1
    BY <2>1, <2>3, <1>6 DEF EndAt
  <2> QED BY <2>2, <2>3
<1>8. Len(p) = Len(q)
  BY <1>1, <1>7 DEF Layout
<1> QED BY <1>8

-----------------------------------------------------------------------------
(* Division.                                                               *)
\* Quotient and remainder.
LEMMA DivMod ==
  ASSUME NEW n \in Nat, NEW d \in Nat, d > 0
  PROVE  /\ n \div d \in Nat /\ n % d \in 0 .. d - 1
         /\ n = d * (n \div d) + (n % d)
OBVIOUS

\* Nothing else is the quotient and the remainder.
LEMMA DivUnique ==
  ASSUME NEW a \in Nat, NEW b \in Nat, NEW d \in Nat, b < d
  PROVE  (a * d + b) \div d = a /\ (a * d + b) % d = b
<1> DEFINE n == a * d + b
<1>1. n \in Nat
  OBVIOUS
<1>2. /\ n \div d \in Nat /\ n % d \in 0 .. d - 1
      /\ n = d * (n \div d) + (n % d)
  BY <1>1, DivMod
<1>3. ASSUME NEW q \in Nat, NEW r \in Nat, r < d, a * d + b = d * q + r
      PROVE  q = a /\ r = b
  <2>1. ~(q < a)
    <3> SUFFICES ASSUME q < a PROVE FALSE
      OBVIOUS
    <3>1. d * a >= d * (q + 1)
      OBVIOUS
    <3>2. d * (q + 1) = d * q + d /\ a * d = d * a
      OBVIOUS
    <3> QED BY <1>3, <3>1, <3>2
  <2>2. ~(a < q)
    <3> SUFFICES ASSUME a < q PROVE FALSE
      OBVIOUS
    <3>1. d * q >= d * (a + 1)
      OBVIOUS
    <3>2. d * (a + 1) = d * a + d /\ a * d = d * a
      OBVIOUS
    <3> QED BY <1>3, <3>1, <3>2
  <2>3. q = a
    BY <2>1, <2>2
  <2> QED BY <1>3, <2>3
<1> QED BY <1>1, <1>2, <1>3

\* The cast to a byte leaves a byte alone.
LEMMA LowDigitOfByte == \A b \in Byte : LowDigit(b) = b
  BY RadixAssumption DEF LowDigit, Byte

\* The bytes of a u16 are read back as that u16.
LEMMA TwoDigits ==
  ASSUME NEW a \in Byte, NEW b \in Byte
  PROVE  /\ a * Radix + b \in Nat
         /\ (a * Radix + b) \div Radix = a
         /\ LowDigit(a * Radix + b) = b
         /\ a * Radix + b < Radix * Radix
<1> USE RadixAssumption
<1>1. a \in Nat /\ b \in Nat /\ a + 1 <= Radix /\ b < Radix
  BY DEF Byte
<1>2. (a * Radix + b) \div Radix = a /\ (a * Radix + b) % Radix = b
  BY <1>1, DivUnique
<1>3. \A x, r \in Nat : x + 1 <= r => x * r + r <= r * r
  <2> SUFFICES ASSUME NEW x \in Nat, NEW r \in Nat, x + 1 <= r PROVE x * r + r <= r * r
    OBVIOUS
  <2>1. (x + 1) * r <= r * r
    OBVIOUS
  <2> QED BY <2>1
<1>4. a * Radix + Radix <= Radix * Radix
  BY <1>1, <1>3
<1>5. a * Radix \in Nat /\ Radix * Radix \in Nat
  BY <1>1
<1> QED BY <1>1, <1>2, <1>4, <1>5 DEF LowDigit

\* The two bytes transaction_serialize writes for a body length are the ones it was read
\* from.
LEMMA BodyLengthOfU16 ==
  ASSUME NEW a \in Byte, NEW b \in Byte
  PROVE  BodyLength(a * Radix + b) = <<a, b>>
  BY TwoDigits, LowDigitOfByte DEF BodyLength

\* The four bytes it writes for the size of the attachment are the ones it was read from.
LEMMA SizeBytesOfU32 ==
  ASSUME NEW a \in Byte, NEW b \in Byte, NEW c \in Byte, NEW d \in Byte
  PROVE  SizeBytes((a * Radix + b) * Radix * Radix + (c * Radix + d)) = <<a, b, c, d>>
<1> USE RadixAssumption
<1> DEFINE R == Radix
           hi == a * R + b
           lo == c * R + d
           n == hi * R * R + lo
<1>1. /\ hi \in Nat /\ hi \div R = a /\ LowDigit(hi) = b
      /\ lo \in Nat /\ lo \div R = c /\ LowDigit(lo) = d /\ lo < R * R
  BY TwoDigits
<1>2. /\ a \in Nat /\ b \in Nat /\ c \in Nat /\ d \in Nat /\ R \in Nat
      /\ a < R /\ b < R /\ c < R /\ d < R /\ R * R \in Nat
  BY DEF Byte
<1>3. n \div (R * R) = hi
  <2> HIDE DEF hi, lo, R
  <2>1. \A x, r \in Nat : x * r * r = x * (r * r)
    OBVIOUS
  <2>2. hi * R * R = hi * (R * R)
    BY <1>1, <1>2, <2>1
  <2>3. (hi * (R * R) + lo) \div (R * R) = hi
    BY <1>1, <1>2, DivUnique
  <2> QED BY <2>2, <2>3
<1>4. /\ n = (hi * R + c) * R + d /\ hi * R + c \in Nat
  <2> HIDE DEF hi, R
  <2>1. \A x, y, z, r \in Nat : x * r * r + (y * r + z) = (x * r + y) * r + z
    OBVIOUS
  <2>2. \A x, y, r \in Nat : x * r + y \in Nat
    OBVIOUS
  <2> QED BY <1>1, <1>2, <2>1, <2>2
<1>5. n \div R = hi * R + c /\ n % R = d
  <2> HIDE DEF hi, R
  <2> QED BY <1>2, <1>4, DivUnique
<1>6. (hi * R + c) % R = c
  <2> HIDE DEF hi, R
  <2> QED BY <1>1, <1>2, DivUnique
<1>7. n \div (R * R * R) = a
  <2> DEFINE rest == b * (R * R) + lo
  <2>1. rest \in Nat /\ rest < R * R * R
    <3> HIDE DEF lo, R
    <3>1. \A x, y, r \in Nat : (x + 1 <= r /\ y < r * r) => x * (r * r) + y < r * r * r
      <4> SUFFICES ASSUME NEW x \in Nat, NEW y \in Nat, NEW r \in Nat, x + 1 <= r, y < r * r
                   PROVE  x * (r * r) + y < r * r * r
        OBVIOUS
      <4>1. \A s \in Nat : (x + 1) * s <= r * s /\ (x + 1) * s = x * s + s
        OBVIOUS
      <4>2. r * r \in Nat
        OBVIOUS
      <4>3. x * (r * r) + r * r <= r * (r * r)
        BY <4>1, <4>2
      <4>4. r * (r * r) = r * r * r /\ x * (r * r) \in Nat
        BY <4>2
      <4> QED BY <4>2, <4>3, <4>4
    <3>2. b * (R * R) + lo \in Nat
      BY <1>1, <1>2
    <3> QED BY <1>1, <1>2, <3>1, <3>2
  <2>2. n = a * (R * R * R) + rest
    <3> HIDE DEF lo, R
    <3>1. \A x, y, r \in Nat : (x * r + y) * r * r = x * (r * r * r) + y * (r * r)
      OBVIOUS
    <3>2. (a * R + b) * R * R = a * (R * R * R) + b * (R * R)
      BY <1>2, <3>1
    <3>3. a * (R * R * R) \in Nat /\ b * (R * R) \in Nat
      BY <1>2
    <3> QED BY <1>1, <3>2, <3>3
  <2>3. R * R * R \in Nat
    <3> HIDE DEF R
    <3> QED BY <1>2
  <2> HIDE DEF n, rest, R
  <2> QED BY <1>2, <2>1, <2>2, <2>3, DivUnique
<1>8. SizeBytes(n) = <<LowDigit(a), LowDigit(hi), LowDigit(hi * R + c), LowDigit(n)>>
  <2> HIDE DEF n, hi
  <2> QED BY <1>3, <1>5, <1>7 DEF SizeBytes
<1>9. LowDigit(hi * R + c) = c /\ LowDigit(n) = d
  <2> HIDE DEF n, hi
  <2> QED BY <1>5, <1>6 DEF LowDigit
<1> QED BY <1>1, <1>8, <1>9, LowDigitOfByte

-----------------------------------------------------------------------------
(* An accepted payload is the concatenation of what the writer writes for  *)
(* the email it was parsed into.                                           *)
\* Adjacent slices make up one slice.
LEMMA SliceJoin ==
  ASSUME NEW p \in Seq(Byte), NEW k \in Nat, NEW a \in Nat, NEW c \in Nat, NEW b \in Nat,
         1 <= k, k <= c, c = a + 1, a <= b, b <= Len(p)
  PROVE  SubSeq(p, k, a) \o SubSeq(p, c, b) = SubSeq(p, k, b)
OBVIOUS

\* The length and the elements of a slice.
LEMMA SliceElements ==
  ASSUME NEW p \in Seq(Byte), NEW k \in Nat, NEW b \in Nat, 1 <= k, k <= b + 1, b <= Len(p)
  PROVE  /\ SubSeq(p, k, b) \in Seq(Byte)
         /\ Len(SubSeq(p, k, b)) = (b + 1) - k
         /\ \A i \in 1 .. (b + 1) - k : SubSeq(p, k, b)[i] = p[k + i - 1]
OBVIOUS

\* A slice and the next two bytes.
LEMMA TwoElements ==
  ASSUME NEW p \in Seq(Byte), NEW o \in Nat, o + 2 <= Len(p)
  PROVE  SubSeq(p, 1, o) \o <<p[o + 1], p[o + 2]>> = SubSeq(p, 1, o + 2)
<1>1. <<p[o + 1], p[o + 2]>> = SubSeq(p, o + 1, o + 2)
  OBVIOUS
<1>2. SubSeq(p, 1, o) \o SubSeq(p, o + 1, o + 2) = SubSeq(p, 1, o + 2)
  BY SliceJoin
<1> QED BY <1>1, <1>2, Zenon

\* A slice of four bytes.
LEMMA FourElements ==
  ASSUME NEW p \in Seq(Byte), NEW o \in Nat, o + 4 <= Len(p)
  PROVE  <<p[o + 1], p[o + 2], p[o + 3], p[o + 4]>> = SubSeq(p, o + 1, o + 4)
<1> DEFINE s == SubSeq(p, o + 1, o + 4)
<1>1. s \in Seq(Byte) /\ Len(s) = 4
  OBVIOUS
<1>2. s[1] = p[o + 1] /\ s[2] = p[o + 2] /\ s[3] = p[o + 3] /\ s[4] = p[o + 4]
  OBVIOUS
<1> HIDE DEF s
<1>3. <<s[1], s[2], s[3], s[4]>> = s
  BY <1>1
<1> QED BY <1>2, <1>3 DEF s

\* A slice with the byte before it.
LEMMA SliceAfterByte ==
  ASSUME NEW p \in Seq(Byte), NEW o \in Nat, NEW n \in Nat, o + 1 + n <= Len(p)
  PROVE  /\ SubSeq(p, o + 2, o + 1 + n) \in Seq(Byte)
         /\ Len(SubSeq(p, o + 2, o + 1 + n)) = n
         /\ <<p[o + 1]>> \o SubSeq(p, o + 2, o + 1 + n) = SubSeq(p, o + 1, o + 1 + n)
<1>1. <<p[o + 1]>> = SubSeq(p, o + 1, o + 1)
  OBVIOUS
<1>2. SubSeq(p, o + 1, o + 1) \o SubSeq(p, o + 2, o + 1 + n) = SubSeq(p, o + 1, o + 1 + n)
  BY SliceJoin
<1>3. Len(SubSeq(p, o + 2, o + 1 + n)) = n
  OBVIOUS
<1>4. SubSeq(p, o + 2, o + 1 + n) \in Seq(Byte)
  OBVIOUS
<1> QED BY <1>1, <1>2, <1>3, <1>4, Zenon

\* A text field of a payload, written again with its length in front, is the slice it was
\* read from.
LEMMA FieldIsSlice ==
  ASSUME NEW p \in Seq(Byte), NEW o \in Nat, o + 1 <= Len(p), FieldEnd(p, o) <= Len(p)
  PROVE  /\ FieldEnd(p, o) \in Nat /\ o + 1 <= FieldEnd(p, o)
         /\ Prefixed(TextField(p, o)) = SubSeq(p, o + 1, FieldEnd(p, o))
         /\ TextField(p, o) \in Seq(Byte)
         /\ Len(TextField(p, o)) = p[o + 1]
<1> DEFINE n == p[o + 1]
<1>1. n \in Byte
  OBVIOUS
<1>2. n \in Nat
  BY RadixAssumption DEF Byte
<1>3. FieldEnd(p, o) = o + 1 + n
  BY DEF FieldEnd
<1>4. TextField(p, o) = SubSeq(p, o + 2, o + 1 + n)
  <2> HIDE DEF n
  <2>1. o + 1 + 1 = o + 2
    OBVIOUS
  <2> QED BY <2>1, Zenon DEF TextField, Slice, n
<1>5. /\ TextField(p, o) \in Seq(Byte)
      /\ Len(TextField(p, o)) = n
      /\ <<n>> \o TextField(p, o) = SubSeq(p, o + 1, o + 1 + n)
  <2>1. o + 1 + n <= Len(p)
    BY <1>3, Zenon
  <2>2. n = p[o + 1]
    OBVIOUS
  <2> HIDE DEF n
  <2>3. /\ SubSeq(p, o + 2, o + 1 + n) \in Seq(Byte)
        /\ Len(SubSeq(p, o + 2, o + 1 + n)) = n
        /\ <<p[o + 1]>> \o SubSeq(p, o + 2, o + 1 + n) = SubSeq(p, o + 1, o + 1 + n)
    BY <1>2, <2>1, SliceAfterByte
  <2> QED BY <1>4, <2>2, <2>3, Zenon
<1>6. Prefixed(TextField(p, o)) = <<n>> \o TextField(p, o)
  BY <1>1, <1>5, LowDigitOfByte, Zenon DEF Prefixed
<1>7. FieldEnd(p, o) \in Nat /\ o + 1 <= FieldEnd(p, o)
  <2> HIDE DEF n
  <2> QED BY <1>2, <1>3
<1> QED BY <1>3, <1>5, <1>6, <1>7, Zenon

\* The fields of the parsed email, by the offsets at which the parser finds them.
LEMMA EmailFields ==
  ASSUME NEW p
  PROVE  /\ email_t(p).challenge = Slice(p, 0, CHALLENGE_LEN)
         /\ email_t(p).from = TextField(p, CHALLENGE_LEN)
         /\ email_t(p).to = TextField(p, ToAt(p))
         /\ email_t(p).subject = TextField(p, SubjectAt(p))
         /\ email_t(p).body = Slice(p, BodyAt(p) + 2, U16(p, BodyAt(p)))
         /\ email_t(p).has_attachment = p[AttAt(p) + 1]
         /\ p[AttAt(p) + 1] = 1 =>
              /\ email_t(p).att_name = TextField(p, AttAt(p) + 1)
              /\ email_t(p).att_size = U32(p, AttSizeAt(p))
              /\ email_t(p).att_hash = Slice(p, AttSizeAt(p) + 4, ATT_HASH_LEN)
         /\ p[AttAt(p) + 1] # 1 =>
              /\ email_t(p).att_name = << >>
              /\ email_t(p).att_size = 0
              /\ email_t(p).att_hash = << >>
<1>1. email_t(p) =
        [challenge |-> Slice(p, 0, CHALLENGE_LEN),
         from      |-> TextField(p, CHALLENGE_LEN),
         to        |-> TextField(p, ToAt(p)),
         subject   |-> TextField(p, SubjectAt(p)),
         body      |-> Slice(p, BodyAt(p) + 2, U16(p, BodyAt(p))),
         has_attachment |-> p[AttAt(p) + 1],
         att_name  |-> IF p[AttAt(p) + 1] = 1 THEN TextField(p, AttAt(p) + 1) ELSE << >>,
         att_size  |-> IF p[AttAt(p) + 1] = 1 THEN U32(p, AttSizeAt(p)) ELSE 0,
         att_hash  |-> IF p[AttAt(p) + 1] = 1 THEN Slice(p, AttSizeAt(p) + 4, ATT_HASH_LEN)
                       ELSE << >>]
  BY Zenon DEF email_t, SubjectAt, BodyAt, AttAt, AttSizeAt
<1> QED BY <1>1

\* Every field of an accepted payload ends within it.
LEMMA AcceptedEnds ==
  ASSUME NEW p \in Seq(Byte), Accepted(p)
  PROVE  /\ CHALLENGE_LEN + 1 <= Len(p) /\ ToAt(p) <= Len(p)
         /\ ToAt(p) \in Nat /\ ToAt(p) + 1 <= Len(p) /\ SubjectAt(p) <= Len(p)
         /\ SubjectAt(p) \in Nat /\ SubjectAt(p) + 1 <= Len(p) /\ BodyAt(p) <= Len(p)
         /\ BodyAt(p) \in Nat /\ BodyAt(p) + 2 <= AttAt(p)
         /\ U16(p, BodyAt(p)) \in Nat
         /\ AttAt(p) \in Nat /\ AttAt(p) + 1 <= Len(p)
         /\ p[AttAt(p) + 1] \in {0, 1}
         /\ p[AttAt(p) + 1] = 1 =>
              /\ AttAt(p) + 2 <= Len(p)
              /\ AttSizeAt(p) \in Nat
              /\ AttSizeAt(p) + 4 + ATT_HASH_LEN = Len(p)
         /\ p[AttAt(p) + 1] # 1 => AttAt(p) + 1 = Len(p)
<1>1. /\ Layout(p)
      /\ ToAt(p) \in Nat /\ SubjectAt(p) \in Nat /\ BodyAt(p) \in Nat /\ AttAt(p) \in Nat
      /\ Len(p) \in Nat
  BY AcceptedLayout
<1>2. U16(p, BodyAt(p)) \in Nat
  <2> DEFINE o == BodyAt(p)
  <2>0. o \in Nat /\ o + 2 <= Len(p)
    BY <1>1 DEF Layout
  <2>1. p[o + 1] \in Byte /\ p[o + 2] \in Byte
    <3> HIDE DEF o
    <3> QED BY <2>0
  <2> QED BY <2>1, TwoDigits DEF U16
<1>3. BodyAt(p) + 2 <= AttAt(p)
  BY <1>1, <1>2 DEF AttAt
<1>4. p[AttAt(p) + 1] \in {0, 1}
  <2>1. p[AttAt(p) + 1] \in Byte
    BY <1>1 DEF Layout
  <2>2. ~(p[AttAt(p) + 1] > 1)
    BY DEF Accepted, transaction_deserialize
  <2> QED BY <2>1, <2>2, RadixAssumption DEF Byte
<1>5. ASSUME p[AttAt(p) + 1] = 1
      PROVE  AttSizeAt(p) \in Nat /\ AttSizeAt(p) + 4 + ATT_HASH_LEN = Len(p)
  BY <1>1, <1>5, FieldEndType DEF AttSizeAt, EndAt, Layout
<1>6. p[AttAt(p) + 1] # 1 => AttAt(p) + 1 = Len(p)
  BY <1>1 DEF EndAt, Layout
<1>7. /\ CHALLENGE_LEN + 1 <= Len(p) /\ ToAt(p) + 1 <= Len(p) /\ SubjectAt(p) + 1 <= Len(p)
      /\ BodyAt(p) + 2 <= Len(p) /\ AttAt(p) + 1 <= Len(p)
      /\ p[AttAt(p) + 1] = 1 => AttAt(p) + 2 <= Len(p)
  BY <1>1, Zenon DEF Layout
<1>8. ToAt(p) <= Len(p) /\ SubjectAt(p) <= Len(p) /\ BodyAt(p) <= Len(p)
  BY <1>1, <1>7
<1> QED BY <1>1, <1>2, <1>3, <1>4, <1>5, <1>6, <1>7, <1>8, Zenon

\* The challenge, the text fields and the body are written back as they were read.
LEMMA CanonicalHead ==
  ASSUME NEW p \in Seq(Byte), Accepted(p)
  PROVE  HeadBytes(email_t(p)) = SubSeq(p, 1, AttAt(p))
<1> DEFINE e == email_t(p)
<1>1. /\ CHALLENGE_LEN \in Nat /\ ToAt(p) \in Nat /\ SubjectAt(p) \in Nat
      /\ BodyAt(p) \in Nat /\ AttAt(p) \in Nat /\ Len(p) \in Nat
  BY AcceptedEnds, LengthAssumption
<1>2. e.challenge = SubSeq(p, 1, CHALLENGE_LEN)
  <2>1. 0 + 1 = 1 /\ 0 + CHALLENGE_LEN = CHALLENGE_LEN
    BY <1>1
  <2> QED BY <2>1, EmailFields, Zenon DEF Slice
<1>3. ASSUME NEW o \in Nat, o + 1 <= Len(p), FieldEnd(p, o) <= Len(p)
      PROVE  SubSeq(p, 1, o) \o Prefixed(TextField(p, o)) = SubSeq(p, 1, FieldEnd(p, o))
  <2>1. FieldEnd(p, o) \in Nat /\ o + 1 <= FieldEnd(p, o)
    BY <1>3, FieldIsSlice
  <2>2. Prefixed(TextField(p, o)) = SubSeq(p, o + 1, FieldEnd(p, o))
    BY <1>3, FieldIsSlice
  <2>3. SubSeq(p, 1, o) \o SubSeq(p, o + 1, FieldEnd(p, o)) = SubSeq(p, 1, FieldEnd(p, o))
    BY <1>3, <2>1, SliceJoin
  <2> QED BY <2>2, <2>3
<1>4. e.challenge \o Prefixed(e.from) = SubSeq(p, 1, ToAt(p))
  BY <1>1, <1>2, <1>3, EmailFields, AcceptedEnds DEF ToAt
<1>5. SubSeq(p, 1, ToAt(p)) \o Prefixed(e.to) = SubSeq(p, 1, SubjectAt(p))
  BY <1>1, <1>3, EmailFields, AcceptedEnds DEF SubjectAt
<1>6. SubSeq(p, 1, SubjectAt(p)) \o Prefixed(e.subject) = SubSeq(p, 1, BodyAt(p))
  BY <1>1, <1>3, EmailFields, AcceptedEnds DEF BodyAt
<1>7. SubSeq(p, 1, BodyAt(p)) \o BodyLength(Len(e.body)) = SubSeq(p, 1, BodyAt(p) + 2)
  <2>1. BodyAt(p) + 2 <= Len(p) /\ BodyAt(p) + 2 + U16(p, BodyAt(p)) <= Len(p)
    BY <1>1, AcceptedEnds DEF AttAt
  <2>2. Len(e.body) = U16(p, BodyAt(p))
    BY <1>1, <2>1, EmailFields, AcceptedEnds DEF Slice
  <2>3. p[BodyAt(p) + 1] \in Byte /\ p[BodyAt(p) + 2] \in Byte
    BY <1>1, <2>1
  <2>4. BodyLength(Len(e.body)) = <<p[BodyAt(p) + 1], p[BodyAt(p) + 2]>>
    BY <2>2, <2>3, BodyLengthOfU16 DEF U16
  <2>5. SubSeq(p, 1, BodyAt(p)) \o <<p[BodyAt(p) + 1], p[BodyAt(p) + 2]>>
          = SubSeq(p, 1, BodyAt(p) + 2)
    BY <1>1, <2>1, TwoElements, Zenon
  <2> QED BY <2>4, <2>5, Zenon
<1>8. SubSeq(p, 1, BodyAt(p) + 2) \o e.body = SubSeq(p, 1, AttAt(p))
  <2> DEFINE o == BodyAt(p) + 2
  <2>1. e.body = SubSeq(p, o + 1, AttAt(p))
    BY EmailFields, Zenon DEF Slice, AttAt
  <2>2. o \in Nat /\ o <= AttAt(p) /\ AttAt(p) <= Len(p)
    BY <1>1, AcceptedEnds
  <2> HIDE DEF e, o
  <2>3. SubSeq(p, 1, o) \o SubSeq(p, o + 1, AttAt(p)) = SubSeq(p, 1, AttAt(p))
    BY <1>1, <2>2, SliceJoin
  <2> QED BY <2>1, <2>3 DEF o
<1> HIDE DEF e
<1>9. HeadBytes(e) = SubSeq(p, 1, AttAt(p))
  BY <1>4, <1>5, <1>6, <1>7, <1>8, Zenon DEF HeadBytes
<1> QED BY <1>9 DEF e

\* The attachment is written back as it was read.
LEMMA CanonicalTail ==
  ASSUME NEW p \in Seq(Byte), Accepted(p)
  PROVE  TailBytes(email_t(p)) = SubSeq(p, AttAt(p) + 1, Len(p))
<1> DEFINE e == email_t(p)
           at == AttAt(p)
           sz == AttSizeAt(p)
<1>1. at \in Nat /\ at + 1 <= Len(p) /\ Len(p) \in Nat /\ p[at + 1] \in {0, 1}
  BY AcceptedEnds
<1>2. e.has_attachment = p[at + 1]
  BY EmailFields
<1>3. <<p[at + 1]>> = SubSeq(p, at + 1, at + 1)
  <2> HIDE DEF at
  <2> QED BY <1>1
<1>4. CASE p[at + 1] # 1
  <2>1. p[at + 1] = 0 /\ at + 1 = Len(p)
    BY <1>1, <1>4, AcceptedEnds
  <2> QED BY <1>2, <1>3, <2>1 DEF TailBytes
<1>5. CASE p[at + 1] = 1
  <2>1. /\ at + 2 <= Len(p) /\ sz \in Nat /\ sz + 4 + ATT_HASH_LEN = Len(p)
        /\ ATT_HASH_LEN \in Nat
    BY <1>5, AcceptedEnds, LengthAssumption
  <2>2. /\ e.att_name = TextField(p, at + 1) /\ e.att_size = U32(p, sz)
        /\ e.att_hash = Slice(p, sz + 4, ATT_HASH_LEN)
    BY <1>5, EmailFields
  <2>3. sz = FieldEnd(p, at + 1)
    BY DEF AttSizeAt
  <2>4. TailBytes(e) = <<1>> \o Prefixed(e.att_name) \o SizeBytes(e.att_size) \o e.att_hash
    <3>1. e.has_attachment = 1
      BY <1>2, <1>5, Zenon
    <3>2. 1 # 0
      OBVIOUS
    <3> HIDE DEF e
    <3> QED BY <3>1, <3>2, Zenon DEF TailBytes
  <2> HIDE DEF e, at, sz
  <2>5. at + 1 <= sz /\ Prefixed(e.att_name) = SubSeq(p, at + 1 + 1, sz)
    <3>1. at + 1 \in Nat /\ at + 1 + 1 <= Len(p) /\ FieldEnd(p, at + 1) <= Len(p)
      BY <1>1, <2>1, <2>3
    <3>2. /\ at + 1 + 1 <= FieldEnd(p, at + 1)
          /\ Prefixed(TextField(p, at + 1)) = SubSeq(p, at + 1 + 1, FieldEnd(p, at + 1))
      BY <3>1, FieldIsSlice
    <3>3. at + 1 <= sz
      BY <1>1, <2>1, <2>3, <3>2
    <3> QED BY <2>2, <2>3, <3>2, <3>3, Zenon
  <2>6. <<1>> \o Prefixed(e.att_name) = SubSeq(p, at + 1, sz)
    <3>1. SubSeq(p, at + 1, at + 1) \o SubSeq(p, at + 1 + 1, sz) = SubSeq(p, at + 1, sz)
      BY <1>1, <2>1, <2>5, SliceJoin
    <3> QED BY <1>3, <1>5, <2>5, <3>1
  <2>7. SizeBytes(e.att_size) = SubSeq(p, sz + 1, sz + 4)
    <3>1. p[sz + 1] \in Byte /\ p[sz + 2] \in Byte /\ p[sz + 3] \in Byte /\ p[sz + 4] \in Byte
      BY <2>1
    <3>2. sz + 2 + 1 = sz + 3 /\ sz + 2 + 2 = sz + 4
      BY <2>1
    <3>3. U32(p, sz) = (p[sz + 1] * Radix + p[sz + 2]) * Radix * Radix
                         + (p[sz + 3] * Radix + p[sz + 4])
      BY <3>2 DEF U32, U16
    <3>4. SizeBytes(e.att_size) = <<p[sz + 1], p[sz + 2], p[sz + 3], p[sz + 4]>>
      <4> DEFINE a == p[sz + 1]  b == p[sz + 2]  c == p[sz + 3]  d == p[sz + 4]
      <4>1. a \in Byte /\ b \in Byte /\ c \in Byte /\ d \in Byte
        BY <3>1, Zenon
      <4>2. e.att_size = (a * Radix + b) * Radix * Radix + (c * Radix + d)
        BY <2>2, <3>3, Zenon
      <4> HIDE DEF a, b, c, d
      <4>3. SizeBytes((a * Radix + b) * Radix * Radix + (c * Radix + d)) = <<a, b, c, d>>
        BY <4>1, SizeBytesOfU32, Zenon
      <4> QED BY <4>2, <4>3, Zenon DEF a, b, c, d
    <3>5. <<p[sz + 1], p[sz + 2], p[sz + 3], p[sz + 4]>> = SubSeq(p, sz + 1, sz + 4)
      BY <2>1, FourElements
    <3> QED BY <3>4, <3>5, Zenon
  <2>8. SubSeq(p, at + 1, sz) \o SizeBytes(e.att_size) = SubSeq(p, at + 1, sz + 4)
    BY <1>1, <2>1, <2>5, <2>7, SliceJoin
  <2>9. SubSeq(p, at + 1, sz + 4) \o e.att_hash = SubSeq(p, at + 1, Len(p))
    <3>1. e.att_hash = SubSeq(p, sz + 4 + 1, Len(p))
      BY <2>1, <2>2 DEF Slice
    <3>2. sz + 4 \in Nat /\ at + 1 <= sz + 4 + 1 /\ sz + 4 <= Len(p) /\ at + 1 \in Nat
      BY <1>1, <2>1, <2>5
    <3> DEFINE o == sz + 4
               k == at + 1
    <3>3. /\ o \in Nat /\ o + 1 \in Nat /\ k <= o + 1 /\ o <= Len(p) /\ k \in Nat /\ 1 <= k
          /\ o + 1 = o + 1
      BY <1>1, <3>2
    <3> HIDE DEF o, k
    <3>4. SubSeq(p, k, o) \o SubSeq(p, o + 1, Len(p)) = SubSeq(p, k, Len(p))
      <4> DEFINE b == Len(p)
      <4>1. b <= Len(p) /\ b \in Nat /\ o <= b
        BY <3>3
      <4> HIDE DEF b
      <4>2. SubSeq(p, k, o) \o SubSeq(p, o + 1, b) = SubSeq(p, k, b)
        BY <3>3, <4>1, SliceJoin
      <4> QED BY <4>2 DEF b
    <3> QED BY <3>1, <3>4, Zenon DEF o, k
  <2>10. TailBytes(e) = SubSeq(p, at + 1, Len(p))
    BY <2>4, <2>6, <2>8, <2>9, Zenon
  <2> QED BY <2>10 DEF e, at
<1> QED BY <1>4, <1>5

\* The two parts the writer joins are the two parts of an accepted payload.
LEMMA AcceptedIsWritten ==
  ASSUME NEW p \in Seq(Byte), Accepted(p)
  PROVE  HeadBytes(email_t(p)) \o TailBytes(email_t(p)) = p
<1> DEFINE at == AttAt(p)
           end == Len(p)
<1>1. at \in Nat /\ at <= end /\ end \in Nat /\ end <= Len(p)
  BY AcceptedEnds
<1>2. SubSeq(p, 1, at) \o SubSeq(p, at + 1, end) = SubSeq(p, 1, end)
  <2> HIDE DEF at, end
  <2> QED BY <1>1, SliceJoin
<1>3. SubSeq(p, 1, Len(p)) = p
  OBVIOUS
<1> QED BY <1>2, <1>3, CanonicalHead, CanonicalTail

\* An accepted payload is canonical: transaction_serialize, given a buffer of exactly its
\* length, writes it again from the email transaction_deserialize parsed it into.
THEOREM AcceptedIsCanonical ==
  ASSUME NEW p \in Seq(Byte), Accepted(p)
  PROVE  transaction_serialize(email_t(p), Len(p)) = p
<1>1. HeadBytes(email_t(p)) \o TailBytes(email_t(p)) = p
  BY AcceptedIsWritten
<1>2. ~(Len(p) > Len(p))
  OBVIOUS
<1> QED BY <1>1, <1>2 DEF transaction_serialize

-----------------------------------------------------------------------------
(* The parser reads back what the writer wrote.                            *)
\* The cast to a byte yields a byte.
LEMMA LowDigitType == \A n \in Nat : LowDigit(n) \in Byte
  BY RadixAssumption DEF LowDigit, Byte

\* A length-prefixed field is a sequence of bytes.
LEMMA PrefixedType ==
  ASSUME NEW s \in Seq(Byte)
  PROVE  Prefixed(s) \in Seq(Byte) /\ Len(Prefixed(s)) = 1 + Len(s)
<1>1. LowDigit(Len(s)) \in Byte
  BY LowDigitType
<1>2. <<LowDigit(Len(s))>> \in Seq(Byte) /\ Len(<<LowDigit(Len(s))>>) = 1
  BY <1>1
<1> QED BY <1>2 DEF Prefixed

\* The length of a body and the size of an attachment are written as bytes.
LEMMA NumbersType ==
  ASSUME NEW n \in Nat
  PROVE  /\ BodyLength(n) \in Seq(Byte) /\ Len(BodyLength(n)) = 2
         /\ SizeBytes(n) \in Seq(Byte) /\ Len(SizeBytes(n)) = 4
<1>1. /\ Radix \in Nat /\ Radix > 0 /\ Radix * Radix \in Nat /\ Radix * Radix > 0
      /\ Radix * Radix * Radix \in Nat /\ Radix * Radix * Radix > 0
  <2>1. \A a, b \in Nat : (a > 0 /\ b > 0) => (a * b \in Nat /\ a * b > 0)
    OBVIOUS
  <2>2. Radix \in Nat /\ Radix > 0
    BY RadixAssumption
  <2>3. Radix * Radix \in Nat /\ Radix * Radix > 0
    BY <2>1, <2>2
  <2> QED BY <2>1, <2>2, <2>3
<1>2. /\ n \div (Radix * Radix * Radix) \in Nat /\ n \div (Radix * Radix) \in Nat
      /\ n \div Radix \in Nat
  BY <1>1, DivMod
<1>3. /\ LowDigit(n \div (Radix * Radix * Radix)) \in Byte
      /\ LowDigit(n \div (Radix * Radix)) \in Byte
      /\ LowDigit(n \div Radix) \in Byte /\ LowDigit(n) \in Byte
  BY <1>2, LowDigitType
<1> QED BY <1>3 DEF BodyLength, SizeBytes

\* The writer's output is a sequence of bytes, whatever the lengths and the size are.
LEMMA SerializeType ==
  ASSUME NEW m \in EmailRecords
  PROVE  HeadBytes(m) \o TailBytes(m) \in Seq(Byte)
<1>1. /\ m.challenge \in Seq(Byte) /\ m.from \in Seq(Byte) /\ m.to \in Seq(Byte)
      /\ m.subject \in Seq(Byte) /\ m.body \in Seq(Byte) /\ m.att_name \in Seq(Byte)
      /\ m.att_hash \in Seq(Byte) /\ m.att_size \in Nat
  BY DEF EmailRecords
<1>2. /\ Prefixed(m.from) \in Seq(Byte) /\ Prefixed(m.to) \in Seq(Byte)
      /\ Prefixed(m.subject) \in Seq(Byte) /\ Prefixed(m.att_name) \in Seq(Byte)
  BY <1>1, PrefixedType
<1>3. BodyLength(Len(m.body)) \in Seq(Byte) /\ SizeBytes(m.att_size) \in Seq(Byte)
  BY <1>1, NumbersType
<1>4. <<0>> \in Seq(Byte) /\ <<1>> \in Seq(Byte)
  BY RadixAssumption DEF Byte
<1>5. HeadBytes(m) \in Seq(Byte)
  BY <1>1, <1>2, <1>3 DEF HeadBytes
<1>6. TailBytes(m) \in Seq(Byte)
  BY <1>1, <1>2, <1>3, <1>4 DEF TailBytes
<1> QED BY <1>5, <1>6

\* The sequence s is the beginning of the payload p.
Begins(s, p) == Len(s) <= Len(p) /\ \A i \in 1 .. Len(s) : p[i] = s[i]

\* Beginnings of a concatenation, and beginnings of beginnings.
LEMMA BeginsConcat ==
  ASSUME NEW s \in Seq(Byte), NEW t \in Seq(Byte)
  PROVE  Begins(s, s \o t)
  BY DEF Begins

\* A beginning of a beginning is a beginning.
LEMMA BeginsTrans ==
  ASSUME NEW r \in Seq(Byte), NEW s \in Seq(Byte), NEW p \in Seq(Byte),
         Begins(r, s), Begins(s, p)
  PROVE  Begins(r, p)
  BY DEF Begins

\* Concatenation is associative.
LEMMA ConcatAssoc ==
  ASSUME NEW r \in Seq(Byte), NEW s \in Seq(Byte), NEW t \in Seq(Byte)
  PROVE  r \o (s \o t) = (r \o s) \o t
OBVIOUS

\* The length and the elements of a concatenation.
LEMMA ConcatParts ==
  ASSUME NEW s \in Seq(Byte), NEW t \in Seq(Byte)
  PROVE  /\ s \o t \in Seq(Byte) /\ Len(s \o t) = Len(s) + Len(t)
         /\ \A i \in 1 .. Len(s) : (s \o t)[i] = s[i]
         /\ \A i \in 1 .. Len(t) : (s \o t)[Len(s) + i] = t[i]
OBVIOUS

\* What follows a beginning of the payload.
LEMMA PartAt ==
  ASSUME NEW p \in Seq(Byte), NEW s \in Seq(Byte), NEW t \in Seq(Byte), Begins(s \o t, p)
  PROVE  /\ Len(s \o t) = Len(s) + Len(t) /\ Len(s) + Len(t) <= Len(p)
         /\ \A i \in 1 .. Len(t) : p[Len(s) + i] = t[i]
         /\ Slice(p, Len(s), Len(t)) = t
<1>1. Len(s \o t) = Len(s) + Len(t) /\ s \o t \in Seq(Byte)
  OBVIOUS
<1>2. Len(s) + Len(t) <= Len(p)
  BY <1>1 DEF Begins
<1>3. ASSUME NEW i \in 1 .. Len(t) PROVE p[Len(s) + i] = t[i]
  <2>1. Len(s) + i \in 1 .. Len(s \o t) /\ (s \o t)[Len(s) + i] = t[i]
    OBVIOUS
  <2> QED BY <2>1 DEF Begins
<1>4. Slice(p, Len(s), Len(t)) = t
  <2> DEFINE u == SubSeq(p, Len(s) + 1, Len(s) + Len(t))
  <2>1. u \in Seq(Byte) /\ Len(u) = Len(t)
    BY <1>2
  <2>2. \A i \in 1 .. Len(t) : u[i] = p[Len(s) + i]
    BY <1>2
  <2>3. \A i \in 1 .. Len(t) : u[i] = t[i]
    BY <1>3, <2>2, Zenon
  <2> HIDE DEF u
  <2>4. u = t
    BY <2>1, <2>3
  <2> QED BY <2>4 DEF u, Slice
<1> QED BY <1>1, <1>2, <1>3, <1>4

\* A field that was written with its length in front is read back.
LEMMA FieldAt ==
  ASSUME NEW p \in Seq(Byte), NEW s \in Seq(Byte), NEW f \in Seq(Byte), Len(f) < Radix,
         Begins(s \o Prefixed(f), p)
  PROVE  /\ p[Len(s) + 1] = Len(f)
         /\ FieldEnd(p, Len(s)) = Len(s \o Prefixed(f))
         /\ FieldEnd(p, Len(s)) = Len(s) + 1 + Len(f)
         /\ FieldEnd(p, Len(s)) <= Len(p)
         /\ TextField(p, Len(s)) = f
<1> DEFINE n == <<LowDigit(Len(f))>>
<1>1. LowDigit(Len(f)) = Len(f) /\ LowDigit(Len(f)) \in Byte
  BY RadixAssumption, LowDigitOfByte, LowDigitType DEF Byte
<1>2. n \in Seq(Byte) /\ Len(n) = 1
  BY <1>1
<1>0. n[1] = Len(f)
  BY <1>1
<1> HIDE DEF n
<1>3. Prefixed(f) = n \o f
  BY DEF Prefixed, n
<1>4. Prefixed(f) \in Seq(Byte) /\ Len(Prefixed(f)) = 1 + Len(f)
  BY PrefixedType
<1>5. /\ Len(s \o Prefixed(f)) = Len(s) + (1 + Len(f))
      /\ Len(s) + (1 + Len(f)) <= Len(p)
      /\ p[Len(s) + 1] = Prefixed(f)[1]
  <2> DEFINE t == Prefixed(f)
  <2>1. t \in Seq(Byte) /\ Len(t) = 1 + Len(f) /\ Begins(s \o t, p)
    BY <1>4
  <2> HIDE DEF t
  <2>2. /\ Len(s \o t) = Len(s) + Len(t) /\ Len(s) + Len(t) <= Len(p)
        /\ \A i \in 1 .. Len(t) : p[Len(s) + i] = t[i]
    BY <2>1, PartAt, Zenon
  <2>3. 1 \in 1 .. Len(t)
    BY <2>1
  <2>4. p[Len(s) + 1] = t[1]
    BY <2>2, <2>3, Zenon
  <2> QED BY <2>1, <2>2, <2>4, Zenon DEF t
<1>6. Prefixed(f)[1] = Len(f)
  <2>1. (n \o f)[1] = n[1]
    <3>1. 1 \in 1 .. Len(n)
      BY <1>2
    <3> QED BY <1>2, <3>1, ConcatParts, Zenon
  <2> QED BY <1>0, <1>3, <2>1, Zenon
<1>7. p[Len(s) + 1] = Len(f)
  BY <1>5, <1>6
<1>8. TextField(p, Len(s)) = f
  <2>1. s \o Prefixed(f) = (s \o n) \o f /\ s \o n \in Seq(Byte) /\ Len(s \o n) = Len(s) + 1
    <3>1. s \o (n \o f) = (s \o n) \o f
      BY <1>2, ConcatAssoc
    <3>2. s \o n \in Seq(Byte) /\ Len(s \o n) = Len(s) + 1
      <4>1. s \o n \in Seq(Byte) /\ Len(s \o n) = Len(s) + Len(n)
        BY <1>2, ConcatParts, Zenon
      <4> QED BY <1>2, <4>1, Zenon
    <3> QED BY <1>3, <3>1, <3>2, Zenon
  <2>2. Slice(p, Len(s \o n), Len(f)) = f
    BY <2>1, PartAt
  <2> QED BY <1>7, <2>1, <2>2 DEF TextField
<1>9. FieldEnd(p, Len(s)) = Len(s) + 1 + Len(f)
  BY <1>7 DEF FieldEnd
<1>10. /\ Len(s) + 1 + Len(f) = Len(s) + (1 + Len(f))
  OBVIOUS
<1> QED BY <1>5, <1>7, <1>8, <1>9, <1>10

\* What the parser finds in a payload that the writer wrote for m: each length and each
\* field where it was written.
ParsedAs(p, m) ==
  /\ CHALLENGE_LEN + 1 <= Len(p)
  /\ Slice(p, 0, CHALLENGE_LEN) = m.challenge
  /\ p[CHALLENGE_LEN + 1] = Len(m.from) /\ TextField(p, CHALLENGE_LEN) = m.from
  /\ ToAt(p) = CHALLENGE_LEN + 1 + Len(m.from) /\ ToAt(p) + 1 <= Len(p)
  /\ p[ToAt(p) + 1] = Len(m.to) /\ TextField(p, ToAt(p)) = m.to
  /\ SubjectAt(p) = ToAt(p) + 1 + Len(m.to) /\ SubjectAt(p) + 1 <= Len(p)
  /\ p[SubjectAt(p) + 1] = Len(m.subject) /\ TextField(p, SubjectAt(p)) = m.subject
  /\ BodyAt(p) = SubjectAt(p) + 1 + Len(m.subject) /\ BodyAt(p) + 2 <= Len(p)
  /\ U16(p, BodyAt(p)) = Len(m.body)
  /\ Slice(p, BodyAt(p) + 2, Len(m.body)) = m.body
  /\ AttAt(p) = BodyAt(p) + 2 + Len(m.body) /\ AttAt(p) + 1 <= Len(p)
  /\ p[AttAt(p) + 1] = m.has_attachment
  /\ m.has_attachment = 0 => AttAt(p) + 1 = Len(p)
  /\ m.has_attachment = 1 =>
       /\ AttAt(p) + 2 <= Len(p)
       /\ p[AttAt(p) + 2] = Len(m.att_name) /\ TextField(p, AttAt(p) + 1) = m.att_name
       /\ AttSizeAt(p) = AttAt(p) + 2 + Len(m.att_name)
       /\ AttSizeAt(p) + 4 + Len(m.att_hash) = Len(p)
       /\ U32(p, AttSizeAt(p)) = m.att_size
       /\ Slice(p, AttSizeAt(p) + 4, Len(m.att_hash)) = m.att_hash

\* A u16 that is below its range is its two digits.
LEMMA TwoDigitsOf ==
  ASSUME NEW n \in Nat, n < Radix * Radix
  PROVE  /\ n \div Radix \in Byte /\ n % Radix \in Byte
         /\ LowDigit(n \div Radix) = n \div Radix
         /\ (n \div Radix) * Radix + (n % Radix) = n
<1>1. Radix \in Nat /\ Radix > 0
  BY RadixAssumption
<1>2. /\ n \div Radix \in Nat /\ n % Radix \in 0 .. Radix - 1
      /\ n = Radix * (n \div Radix) + (n % Radix)
  BY <1>1, DivMod
<1>3. n \div Radix < Radix
  <2> DEFINE q == n \div Radix
             r == n % Radix
  <2>1. q \in Nat /\ r \in Nat /\ n = Radix * q + r
    BY <1>1, <1>2
  <2> HIDE DEF q, r
  <2>2. \A x, y, z \in Nat : x * y + z < x * x => y < x
    <3> SUFFICES ASSUME NEW x \in Nat, NEW y \in Nat, NEW z \in Nat, y >= x
                 PROVE  x * y + z >= x * x
      OBVIOUS
    <3>1. x * y >= x * x
      OBVIOUS
    <3> QED BY <3>1
  <2>3. q < Radix
    BY <1>1, <2>1, <2>2
  <2> QED BY <2>3 DEF q
<1>4. n \div Radix \in Byte /\ n % Radix \in Byte
  BY <1>1, <1>2, <1>3 DEF Byte
<1>5. Radix * (n \div Radix) = (n \div Radix) * Radix
  BY <1>1, <1>2
<1> QED BY <1>2, <1>4, <1>5, LowDigitOfByte, Zenon

\* The two bytes written for a body length that fits, and the four written for a size
\* that fits, are its digits.
LEMMA BodyLengthDigits ==
  ASSUME NEW n \in Nat, n < Radix * Radix
  PROVE  BodyLength(n) = <<n \div Radix, n % Radix>>
  BY TwoDigitsOf, Zenon DEF BodyLength, LowDigit

\* The four bytes of a size that fits a uint32_t carry it whole.
LEMMA SizeDigits ==
  ASSUME NEW n \in Nat, n \div (Radix * Radix) < Radix * Radix
  PROVE  \E a, b, c, d \in Byte :
           /\ SizeBytes(n) = <<a, b, c, d>>
           /\ n = (a * Radix + b) * Radix * Radix + (c * Radix + d)
           /\ a * Radix + b = n \div (Radix * Radix)
           /\ c * Radix + d = n % (Radix * Radix)
<1> DEFINE S == Radix * Radix
           hi == n \div S
           lo == n % S
<1>1. Radix \in Nat /\ Radix > 0 /\ S \in Nat /\ S > 0
  <2>1. \A x \in Nat : x > 0 => x * x \in Nat /\ x * x > 0
    OBVIOUS
  <2> QED BY <2>1, RadixAssumption
<1>2. hi \in Nat /\ lo \in Nat /\ lo < S /\ n = S * hi + lo
  <2> HIDE DEF S
  <2> QED BY <1>1, DivMod
<1>3. /\ hi \div Radix \in Byte /\ hi % Radix \in Byte
      /\ (hi \div Radix) * Radix + (hi % Radix) = hi
      /\ lo \div Radix \in Byte /\ lo % Radix \in Byte
      /\ (lo \div Radix) * Radix + (lo % Radix) = lo
  <2>1. hi < Radix * Radix /\ lo < Radix * Radix
    BY <1>2
  <2> HIDE DEF hi, lo
  <2> QED BY <1>2, <2>1, TwoDigitsOf
<1> DEFINE a == hi \div Radix  b == hi % Radix  c == lo \div Radix  d == lo % Radix
<1>4. a \in Byte /\ b \in Byte /\ c \in Byte /\ d \in Byte
  BY <1>3
<1>5. n = hi * Radix * Radix + lo
  <2> HIDE DEF hi, lo
  <2>1. \A x, r \in Nat : (r * r) * x = x * r * r
    OBVIOUS
  <2>2. S * hi = hi * Radix * Radix
    BY <1>1, <1>2, <2>1
  <2> QED BY <1>2, <2>2
<1>6. n = (a * Radix + b) * Radix * Radix + (c * Radix + d)
  <2>1. a * Radix + b = hi /\ c * Radix + d = lo
    BY <1>3
  <2> HIDE DEF a, b, c, d, hi, lo
  <2> QED BY <1>5, <2>1, Zenon
<1>7. a * Radix + b = hi /\ c * Radix + d = lo
  BY <1>3
<1> HIDE DEF a, b, c, d
<1>8. SizeBytes(n) = <<a, b, c, d>>
  <2>1. SizeBytes((a * Radix + b) * Radix * Radix + (c * Radix + d)) = <<a, b, c, d>>
    BY <1>4, SizeBytesOfU32, Zenon
  <2> QED BY <1>6, <2>1, Zenon
<1> QED BY <1>4, <1>6, <1>7, <1>8, Zenon

\* The head of a payload, read back.
LEMMA HeadIsParsed ==
  ASSUME NEW m \in EmailRecords, FitsWidths(m), NEW t \in Seq(Byte), NEW p \in Seq(Byte),
         p = HeadBytes(m) \o t, Len(t) >= 1
  PROVE  /\ HeadBytes(m) \in Seq(Byte)
         /\ AttAt(p) = Len(HeadBytes(m))
         /\ CHALLENGE_LEN + 1 <= Len(p)
         /\ Slice(p, 0, CHALLENGE_LEN) = m.challenge
         /\ p[CHALLENGE_LEN + 1] = Len(m.from) /\ TextField(p, CHALLENGE_LEN) = m.from
         /\ ToAt(p) = CHALLENGE_LEN + 1 + Len(m.from) /\ ToAt(p) + 1 <= Len(p)
         /\ p[ToAt(p) + 1] = Len(m.to) /\ TextField(p, ToAt(p)) = m.to
         /\ SubjectAt(p) = ToAt(p) + 1 + Len(m.to) /\ SubjectAt(p) + 1 <= Len(p)
         /\ p[SubjectAt(p) + 1] = Len(m.subject) /\ TextField(p, SubjectAt(p)) = m.subject
         /\ BodyAt(p) = SubjectAt(p) + 1 + Len(m.subject) /\ BodyAt(p) + 2 <= Len(p)
         /\ U16(p, BodyAt(p)) = Len(m.body)
         /\ Slice(p, BodyAt(p) + 2, Len(m.body)) = m.body
         /\ AttAt(p) = BodyAt(p) + 2 + Len(m.body) /\ AttAt(p) + 1 <= Len(p)
<1> DEFINE bl == BodyLength(Len(m.body))
           h1 == m.challenge
           h2 == h1 \o Prefixed(m.from)
           h3 == h2 \o Prefixed(m.to)
           h4 == h3 \o Prefixed(m.subject)
           h5 == h4 \o bl
           h6 == h5 \o m.body
<1>1. /\ h1 \in Seq(Byte) /\ m.from \in Seq(Byte) /\ m.to \in Seq(Byte)
      /\ m.subject \in Seq(Byte) /\ m.body \in Seq(Byte)
  BY DEF EmailRecords
<1>2. /\ Prefixed(m.from) \in Seq(Byte) /\ Prefixed(m.to) \in Seq(Byte)
      /\ Prefixed(m.subject) \in Seq(Byte) /\ bl \in Seq(Byte) /\ Len(bl) = 2
  <2>1. Len(m.body) \in Nat
    BY <1>1
  <2>2. bl \in Seq(Byte) /\ Len(bl) = 2
    BY <2>1, NumbersType, Zenon
  <2> QED BY <1>1, <2>2, PrefixedType, Zenon
<1>3. /\ Len(h1) = CHALLENGE_LEN /\ Len(m.from) < Radix /\ Len(m.to) < Radix
      /\ Len(m.subject) < Radix /\ Len(m.body) < Radix * Radix
  BY DEF FitsWidths
<1>4. HeadBytes(m) = h6
  BY Zenon DEF HeadBytes
<1>5. bl = <<Len(m.body) \div Radix, Len(m.body) % Radix>>
  BY <1>1, <1>3, BodyLengthDigits
<1> HIDE DEF bl, h1
<1>6. h2 \in Seq(Byte)
  BY <1>1, <1>2, ConcatParts, Zenon
<1> HIDE DEF h2
<1>7. h3 \in Seq(Byte)
  BY <1>2, <1>6, ConcatParts, Zenon
<1> HIDE DEF h3
<1>8. h4 \in Seq(Byte)
  BY <1>2, <1>7, ConcatParts, Zenon
<1> HIDE DEF h4
<1>9. h5 \in Seq(Byte)
  BY <1>2, <1>8, ConcatParts, Zenon
<1> HIDE DEF h5
<1>10. h6 \in Seq(Byte)
  BY <1>1, <1>9, ConcatParts, Zenon
<1> HIDE DEF h6
<1>11. Begins(h6, p) /\ Len(p) = Len(h6) + Len(t)
  BY <1>4, <1>10, BeginsConcat, ConcatParts, Zenon
<1>12. Begins(h5, p)
  <2>1. Begins(h5, h6)
    BY <1>1, <1>9, BeginsConcat, Zenon DEF h6
  <2> QED BY <1>9, <1>10, <1>11, <2>1, BeginsTrans, Zenon
<1>13. Begins(h4, p)
  <2>1. Begins(h4, h5)
    BY <1>2, <1>8, BeginsConcat, Zenon DEF h5
  <2> QED BY <1>8, <1>9, <1>12, <2>1, BeginsTrans, Zenon
<1>14. Begins(h3, p)
  <2>1. Begins(h3, h4)
    BY <1>2, <1>7, BeginsConcat, Zenon DEF h4
  <2> QED BY <1>7, <1>8, <1>13, <2>1, BeginsTrans, Zenon
<1>15. Begins(h2, p)
  <2>1. Begins(h2, h3)
    BY <1>2, <1>6, BeginsConcat, Zenon DEF h3
  <2> QED BY <1>6, <1>7, <1>14, <2>1, BeginsTrans, Zenon
<1>16. /\ p[CHALLENGE_LEN + 1] = Len(m.from) /\ TextField(p, CHALLENGE_LEN) = m.from
       /\ ToAt(p) = CHALLENGE_LEN + 1 + Len(m.from) /\ ToAt(p) = Len(h2)
  <2>1. /\ p[Len(h1) + 1] = Len(m.from)
        /\ FieldEnd(p, Len(h1)) = Len(h1 \o Prefixed(m.from))
        /\ FieldEnd(p, Len(h1)) = Len(h1) + 1 + Len(m.from)
        /\ TextField(p, Len(h1)) = m.from
    BY <1>1, <1>3, <1>15, FieldAt, Zenon DEF h2
  <2> QED BY <1>3, <2>1, Zenon DEF ToAt, h2
<1>17. /\ p[ToAt(p) + 1] = Len(m.to) /\ TextField(p, ToAt(p)) = m.to
       /\ SubjectAt(p) = ToAt(p) + 1 + Len(m.to) /\ SubjectAt(p) = Len(h3)
  <2>1. /\ p[Len(h2) + 1] = Len(m.to)
        /\ FieldEnd(p, Len(h2)) = Len(h2 \o Prefixed(m.to))
        /\ FieldEnd(p, Len(h2)) = Len(h2) + 1 + Len(m.to)
        /\ TextField(p, Len(h2)) = m.to
    BY <1>1, <1>3, <1>6, <1>14, FieldAt, Zenon DEF h3
  <2> QED BY <1>16, <2>1, Zenon DEF SubjectAt, h3
<1>18. /\ p[SubjectAt(p) + 1] = Len(m.subject) /\ TextField(p, SubjectAt(p)) = m.subject
       /\ BodyAt(p) = SubjectAt(p) + 1 + Len(m.subject) /\ BodyAt(p) = Len(h4)
  <2>1. /\ p[Len(h3) + 1] = Len(m.subject)
        /\ FieldEnd(p, Len(h3)) = Len(h3 \o Prefixed(m.subject))
        /\ FieldEnd(p, Len(h3)) = Len(h3) + 1 + Len(m.subject)
        /\ TextField(p, Len(h3)) = m.subject
    BY <1>1, <1>3, <1>7, <1>13, FieldAt, Zenon DEF h4
  <2> QED BY <1>17, <2>1, Zenon DEF BodyAt, h4
<1>19. U16(p, BodyAt(p)) = Len(m.body) /\ Len(h5) = BodyAt(p) + 2
  <2>1. /\ Len(h5) = Len(h4) + Len(bl)
        /\ \A i \in 1 .. Len(bl) : p[Len(h4) + i] = bl[i]
    <3>1. Begins(h4 \o bl, p)
      BY <1>12, Zenon DEF h5
    <3>2. Len(h4 \o bl) = Len(h4) + Len(bl)
      BY <1>2, <1>8, ConcatParts, Zenon
    <3>3. \A i \in 1 .. Len(bl) : p[Len(h4) + i] = bl[i]
      <4>1. bl \in Seq(Byte)
        BY <1>2
      <4> QED BY <1>8, <3>1, <4>1, PartAt
    <3> QED BY <3>2, <3>3, Zenon DEF h5
  <2>2. p[Len(h4) + 1] = bl[1] /\ p[Len(h4) + 2] = bl[2]
    <3>1. 1 \in 1 .. Len(bl) /\ 2 \in 1 .. Len(bl)
      BY <1>2
    <3> QED BY <2>1, <3>1, Zenon
  <2>3. bl[1] = Len(m.body) \div Radix /\ bl[2] = Len(m.body) % Radix
    BY <1>5
  <2>4. (Len(m.body) \div Radix) * Radix + (Len(m.body) % Radix) = Len(m.body)
    <3>1. Len(m.body) \in Nat
      BY <1>1
    <3> QED BY <1>3, <3>1, TwoDigitsOf, Zenon
  <2> QED BY <1>2, <1>18, <2>1, <2>2, <2>3, <2>4, Zenon DEF U16
<1>20. /\ Slice(p, BodyAt(p) + 2, Len(m.body)) = m.body
       /\ Len(h6) = BodyAt(p) + 2 + Len(m.body)
  <2>1. Slice(p, Len(h5), Len(m.body)) = m.body /\ Len(h6) = Len(h5) + Len(m.body)
    <3>1. Begins(h5 \o m.body, p)
      BY <1>11, Zenon DEF h6
    <3>2. Slice(p, Len(h5), Len(m.body)) = m.body
      <4>1. m.body \in Seq(Byte)
        BY <1>1
      <4> QED BY <1>9, <3>1, <4>1, PartAt
    <3>3. Len(h5 \o m.body) = Len(h5) + Len(m.body)
      BY <1>1, <1>9, <3>1, PartAt
    <3> QED BY <3>2, <3>3, Zenon DEF h6
  <2> QED BY <1>19, <2>1, Zenon
<1>21. AttAt(p) = BodyAt(p) + 2 + Len(m.body)
  BY <1>19, Zenon DEF AttAt
<1>22. Slice(p, 0, CHALLENGE_LEN) = m.challenge
  <2>1. Begins(h1, p)
    <3>1. Begins(h1, h2)
      BY <1>1, <1>2, BeginsConcat, Zenon DEF h2
    <3> QED BY <1>1, <1>6, <1>15, <3>1, BeginsTrans, Zenon
  <2>2. << >> \in Seq(Byte) /\ << >> \o h1 = h1 /\ Len(<< >>) = 0
    BY <1>1
  <2> DEFINE none == << >>
  <2>3. none \in Seq(Byte) /\ Begins(none \o h1, p)
    BY <2>1, <2>2, Zenon
  <2>4. Len(none) = 0
    BY <2>2
  <2> HIDE DEF none
  <2>5. Slice(p, Len(none), Len(h1)) = h1
    BY <1>1, <2>3, PartAt
  <2> QED BY <1>3, <2>4, <2>5, Zenon DEF h1
<1>23. /\ CHALLENGE_LEN + 1 <= Len(p) /\ ToAt(p) + 1 <= Len(p) /\ SubjectAt(p) + 1 <= Len(p)
       /\ BodyAt(p) + 2 <= Len(p) /\ AttAt(p) + 1 <= Len(p)
  <2>1. /\ Len(m.from) \in Nat /\ Len(m.to) \in Nat /\ Len(m.subject) \in Nat
        /\ Len(m.body) \in Nat /\ CHALLENGE_LEN \in Nat /\ Len(t) \in Nat
    BY <1>1, LengthAssumption
  <2>2. ToAt(p) = CHALLENGE_LEN + 1 + Len(m.from) /\ SubjectAt(p) = ToAt(p) + 1 + Len(m.to)
    BY <1>16, <1>17
  <2>3. /\ BodyAt(p) = SubjectAt(p) + 1 + Len(m.subject)
        /\ AttAt(p) = BodyAt(p) + 2 + Len(m.body)
    BY <1>18, <1>21
  <2>4. Len(p) = AttAt(p) + Len(t)
    BY <1>11, <1>20, <1>21, Zenon
  <2> DEFINE to == ToAt(p)  su == SubjectAt(p)  bo == BodyAt(p)  at == AttAt(p)
             c == CHALLENGE_LEN  lf == Len(m.from)  lt == Len(m.to)  ls == Len(m.subject)
             lb == Len(m.body)  n == Len(p)  r == Len(t)
  <2>5. /\ c \in Nat /\ lf \in Nat /\ lt \in Nat /\ ls \in Nat /\ lb \in Nat
        /\ r \in Nat /\ r >= 1
        /\ to = c + 1 + lf /\ su = to + 1 + lt /\ bo = su + 1 + ls /\ at = bo + 2 + lb
        /\ n = at + r
    BY <2>1, <2>2, <2>3, <2>4, Zenon
  <2> HIDE DEF to, su, bo, at, c, lf, lt, ls, lb, n, r
  <2>6. c + 1 <= n /\ to + 1 <= n /\ su + 1 <= n /\ bo + 2 <= n /\ at + 1 <= n
    BY <2>5
  <2> QED BY <2>6 DEF to, su, bo, at, c, n
<1> QED BY <1>4, <1>10, <1>16, <1>17, <1>18, <1>19, <1>20, <1>21, <1>22, <1>23, Zenon

\* What the writer wrote for an email whose fields fit their widths is parsed back field
\* by field.
LEMMA WrittenIsParsed ==
  ASSUME NEW m \in EmailRecords, FitsWidths(m)
  PROVE  ParsedAs(HeadBytes(m) \o TailBytes(m), m)
<1> DEFINE h == HeadBytes(m)
           t == TailBytes(m)
           p == h \o t
           nm == Prefixed(m.att_name)
           sb == SizeBytes(m.att_size)
           hash == m.att_hash
<1>1. /\ m.att_name \in Seq(Byte) /\ hash \in Seq(Byte) /\ m.att_size \in Nat
      /\ m.has_attachment \in {0, 1}
  BY DEF EmailRecords
<1>2. nm \in Seq(Byte) /\ sb \in Seq(Byte) /\ Len(sb) = 4
  BY <1>1, PrefixedType, NumbersType, Zenon
<1>3. <<0>> \in Seq(Byte) /\ <<1>> \in Seq(Byte) /\ Len(<<0>>) = 1 /\ Len(<<1>>) = 1
  BY RadixAssumption DEF Byte
<1>4. /\ m.has_attachment = 1 => t = ((<<1>> \o nm) \o sb) \o hash
      /\ m.has_attachment = 0 => t = <<0>>
  <2>1. ASSUME m.has_attachment = 1 PROVE m.has_attachment # 0
    BY <2>1
  <2> QED BY <2>1 DEF TailBytes
<1>5. t \in Seq(Byte) /\ Len(t) >= 1 /\ t[1] = m.has_attachment
  <2>1. CASE m.has_attachment = 0
    <3>1. <<0>> \in Seq(Byte) /\ Len(<<0>>) >= 1 /\ <<0>>[1] = 0
      BY <1>3
    <3> QED BY <1>4, <2>1, <3>1, Zenon
  <2>2. CASE m.has_attachment = 1
    <3> DEFINE one == <<1>>
    <3>1. one \in Seq(Byte) /\ Len(one) = 1
      BY <1>3
    <3>2. one[1] = 1
      OBVIOUS
    <3> HIDE DEF one, nm, sb, hash
    <3>3. /\ one \o nm \in Seq(Byte) /\ Len(one \o nm) = Len(one) + Len(nm)
          /\ (one \o nm)[1] = one[1]
      <4>1. 1 \in 1 .. Len(one)
        BY <3>1
      <4> QED BY <1>2, <3>1, <4>1, ConcatParts, Zenon
    <3>4. /\ (one \o nm) \o sb \in Seq(Byte)
          /\ Len((one \o nm) \o sb) = Len(one \o nm) + Len(sb)
          /\ ((one \o nm) \o sb)[1] = one[1]
      <4>1. 1 \in 1 .. Len(one \o nm)
        <5>1. Len(nm) \in Nat
          BY <1>2
        <5> QED BY <3>1, <3>3, <5>1
      <4> QED BY <1>2, <3>3, <4>1, ConcatParts, Zenon
    <3>5. /\ ((one \o nm) \o sb) \o hash \in Seq(Byte)
          /\ Len(((one \o nm) \o sb) \o hash) = Len((one \o nm) \o sb) + Len(hash)
          /\ (((one \o nm) \o sb) \o hash)[1] = one[1]
      <4>1. 1 \in 1 .. Len((one \o nm) \o sb)
        <5>1. Len(nm) \in Nat
          BY <1>2
        <5> QED BY <1>2, <3>1, <3>3, <3>4, <5>1
      <4> QED BY <1>1, <3>4, <4>1, ConcatParts, Zenon
    <3>6. Len((one \o nm) \o sb) + Len(hash) >= 1
      <4>1. Len(nm) \in Nat /\ Len(hash) \in Nat
        BY <1>1, <1>2
      <4> QED BY <1>2, <3>1, <3>3, <3>4, <4>1
    <3>7. t = ((one \o nm) \o sb) \o hash
      BY <1>4, <2>2, Zenon DEF one
    <3> QED BY <2>2, <3>2, <3>5, <3>6, <3>7, Zenon
  <2> QED BY <1>1, <2>1, <2>2, Zenon
<1>6. p \in Seq(Byte)
  BY SerializeType
<1> HIDE DEF t, nm, sb, hash
<1>7. /\ h \in Seq(Byte)
      /\ AttAt(p) = Len(h)
      /\ CHALLENGE_LEN + 1 <= Len(p)
      /\ Slice(p, 0, CHALLENGE_LEN) = m.challenge
      /\ p[CHALLENGE_LEN + 1] = Len(m.from) /\ TextField(p, CHALLENGE_LEN) = m.from
      /\ ToAt(p) = CHALLENGE_LEN + 1 + Len(m.from) /\ ToAt(p) + 1 <= Len(p)
      /\ p[ToAt(p) + 1] = Len(m.to) /\ TextField(p, ToAt(p)) = m.to
      /\ SubjectAt(p) = ToAt(p) + 1 + Len(m.to) /\ SubjectAt(p) + 1 <= Len(p)
      /\ p[SubjectAt(p) + 1] = Len(m.subject) /\ TextField(p, SubjectAt(p)) = m.subject
      /\ BodyAt(p) = SubjectAt(p) + 1 + Len(m.subject) /\ BodyAt(p) + 2 <= Len(p)
      /\ U16(p, BodyAt(p)) = Len(m.body)
      /\ Slice(p, BodyAt(p) + 2, Len(m.body)) = m.body
      /\ AttAt(p) = BodyAt(p) + 2 + Len(m.body) /\ AttAt(p) + 1 <= Len(p)
  BY <1>5, <1>6, HeadIsParsed, Zenon
<1> HIDE DEF h
<1>8. Len(p) = AttAt(p) + Len(t) /\ p[AttAt(p) + 1] = m.has_attachment
  <2>1. 1 \in 1 .. Len(t)
    BY <1>5
  <2>2. Len(p) = Len(h) + Len(t) /\ p[Len(h) + 1] = t[1]
    BY <1>5, <1>7, <2>1, ConcatParts, Zenon
  <2> QED BY <1>5, <1>7, <2>2, Zenon
<1>9. m.has_attachment = 0 => AttAt(p) + 1 = Len(p)
  BY <1>3, <1>4, <1>8, Zenon
<1>10. ASSUME m.has_attachment = 1
       PROVE  /\ AttAt(p) + 2 <= Len(p)
              /\ p[AttAt(p) + 2] = Len(m.att_name) /\ TextField(p, AttAt(p) + 1) = m.att_name
              /\ AttSizeAt(p) = AttAt(p) + 2 + Len(m.att_name)
              /\ AttSizeAt(p) + 4 + Len(m.att_hash) = Len(p)
              /\ U32(p, AttSizeAt(p)) = m.att_size
              /\ Slice(p, AttSizeAt(p) + 4, Len(m.att_hash)) = m.att_hash
  <2> DEFINE one == <<1>>
             k1 == h \o one
             k2 == k1 \o nm
             k3 == k2 \o sb
  <2>1. one \in Seq(Byte) /\ Len(one) = 1
    BY <1>3
  <2> HIDE DEF one
  <2>2. k1 \in Seq(Byte) /\ Len(k1) = AttAt(p) + 1
    <3>1. k1 \in Seq(Byte) /\ Len(k1) = Len(h) + Len(one)
      BY <1>7, <2>1, ConcatParts, Zenon
    <3> QED BY <1>7, <2>1, <3>1, Zenon
  <2>3. k2 \in Seq(Byte)
    BY <1>2, <2>2, ConcatParts, Zenon
  <2>4. k3 \in Seq(Byte) /\ Len(k3) = Len(k2) + 4
    <3>1. k3 \in Seq(Byte) /\ Len(k3) = Len(k2) + Len(sb)
      BY <1>2, <2>3, ConcatParts, Zenon
    <3> QED BY <1>2, <3>1, Zenon
  <2>5. p = k3 \o hash
    <3>1. one \o nm \in Seq(Byte)
      BY <1>2, <2>1, ConcatParts, Zenon
    <3>2. (one \o nm) \o sb \in Seq(Byte)
      BY <1>2, <3>1, ConcatParts, Zenon
    <3>3. t = ((one \o nm) \o sb) \o hash
      BY <1>4, <1>10, Zenon DEF one
    <3>4. p = (h \o ((one \o nm) \o sb)) \o hash
      BY <1>1, <1>7, <3>2, <3>3, ConcatAssoc, Zenon
    <3>5. h \o ((one \o nm) \o sb) = (h \o (one \o nm)) \o sb
      BY <1>2, <1>7, <3>1, ConcatAssoc, Zenon
    <3>6. h \o (one \o nm) = (h \o one) \o nm
      BY <1>2, <1>7, <2>1, ConcatAssoc, Zenon
    <3> QED BY <3>4, <3>5, <3>6, Zenon
  <2> HIDE DEF k1, k2, k3, p
  <2>6. Begins(k3 \o hash, p)
    <3>1. Len(p) <= Len(p) /\ \A i \in 1 .. Len(p) : p[i] = p[i]
      BY <1>6
    <3> QED BY <2>5, <3>1, Zenon DEF Begins
  <2>7. Begins(k2 \o sb, p)
    <3>1. Begins(k3, p)
      BY <1>1, <2>4, <2>5, BeginsConcat, Zenon
    <3> QED BY <3>1, Zenon DEF k3
  <2>8. Begins(k1 \o nm, p)
    <3>1. Begins(k2, k3)
      BY <1>2, <2>3, BeginsConcat, Zenon DEF k3
    <3>2. Begins(k3, p)
      BY <2>7, Zenon DEF k3
    <3>3. Begins(k2, p)
      BY <1>6, <2>3, <2>4, <3>1, <3>2, BeginsTrans, Zenon
    <3> QED BY <3>3, Zenon DEF k2
  <2>9. Len(m.att_name) < Radix /\ m.att_size \div (Radix * Radix) < Radix * Radix
    BY <1>10, Zenon DEF FitsWidths
  <2>10. /\ p[Len(k1) + 1] = Len(m.att_name)
         /\ FieldEnd(p, Len(k1)) = Len(k2)
         /\ FieldEnd(p, Len(k1)) = Len(k1) + 1 + Len(m.att_name)
         /\ FieldEnd(p, Len(k1)) <= Len(p)
         /\ TextField(p, Len(k1)) = m.att_name
    BY <1>1, <1>6, <2>2, <2>8, <2>9, FieldAt, Zenon DEF nm, k2
  <2>11. AttSizeAt(p) = Len(k2) /\ TextField(p, AttAt(p) + 1) = m.att_name
    BY <2>2, <2>10, Zenon DEF AttSizeAt
  <2>12. /\ p[AttAt(p) + 2] = Len(m.att_name)
         /\ AttSizeAt(p) = AttAt(p) + 2 + Len(m.att_name)
         /\ AttAt(p) + 2 <= Len(p)
    <3>1. AttAt(p) \in Nat
      <4>1. h \in Seq(Byte) /\ AttAt(p) = Len(h)
        BY <1>7, Zenon DEF p
      <4>2. Len(h) \in Nat
        BY <4>1
      <4> QED BY <4>1, <4>2, Zenon
    <3> DEFINE at == AttAt(p)  n == Len(m.att_name)  z == Len(p)
    <3>2. at \in Nat /\ n \in Nat /\ z \in Nat
      BY <1>1, <1>6, <3>1
    <3>3. p[at + 1 + 1] = n /\ AttSizeAt(p) = at + 1 + 1 + n /\ at + 1 + 1 + n <= z
      BY <2>2, <2>10, <2>11, Zenon
    <3> HIDE DEF at, n, z
    <3>4. at + 1 + 1 = at + 2 /\ (at + 1 + 1 + n <= z => at + 2 <= z)
      BY <3>2
    <3>5. p[at + 2] = n /\ AttSizeAt(p) = at + 2 + n /\ at + 2 <= z
      BY <3>3, <3>4, Zenon
    <3> QED BY <3>5, Zenon DEF at, n, z
  <2>13. Slice(p, AttSizeAt(p) + 4, Len(hash)) = hash
    <3>1. Slice(p, Len(k3), Len(hash)) = hash
      BY <1>1, <1>6, <2>4, <2>6, PartAt
    <3> QED BY <2>4, <2>11, <3>1, Zenon
  <2>14. AttSizeAt(p) + 4 + Len(hash) = Len(p)
    <3>1. Len(k3 \o hash) = Len(k3) + Len(hash)
      BY <1>1, <2>4, ConcatParts, Zenon
    <3> QED BY <2>4, <2>5, <2>11, <3>1, Zenon
  <2>15. U32(p, AttSizeAt(p)) = m.att_size
    <3>1. PICK a \in Byte, b \in Byte, c \in Byte, d \in Byte :
            /\ sb = <<a, b, c, d>>
            /\ m.att_size = (a * Radix + b) * Radix * Radix + (c * Radix + d)
            /\ a * Radix + b = m.att_size \div (Radix * Radix)
            /\ c * Radix + d = m.att_size % (Radix * Radix)
      BY <1>1, <2>9, SizeDigits, Zenon DEF sb
    <3>2. \A i \in 1 .. Len(sb) : p[Len(k2) + i] = sb[i]
      <4>1. sb \in Seq(Byte)
        BY <1>2
      <4> QED BY <1>6, <2>3, <2>7, <4>1, PartAt
    <3>3. /\ 1 \in 1 .. Len(sb) /\ 2 \in 1 .. Len(sb) /\ 3 \in 1 .. Len(sb)
          /\ 4 \in 1 .. Len(sb)
      BY <1>2
    <3>4. sb[1] = a /\ sb[2] = b /\ sb[3] = c /\ sb[4] = d
      BY <3>1
    <3> DEFINE z == AttSizeAt(p)
    <3>5. p[z + 1] = a /\ p[z + 2] = b /\ p[z + 3] = c /\ p[z + 4] = d
      BY <2>11, <3>2, <3>3, <3>4, Zenon
    <3>6. z + 2 + 1 = z + 3 /\ z + 2 + 2 = z + 4
      <4>1. z \in Nat
        BY <2>3, <2>11
      <4> HIDE DEF z
      <4> QED BY <4>1
    <3> HIDE DEF z
    <3>7. U32(p, z) = (a * Radix + b) * Radix * Radix + (c * Radix + d)
      BY <3>5, <3>6, Zenon DEF U32, U16
    <3> QED BY <3>1, <3>7, Zenon DEF z
  <2> QED BY <2>11, <2>12, <2>13, <2>14, <2>15, Zenon DEF hash
<1> QED BY <1>7, <1>8, <1>9, <1>10, Zenon DEF ParsedAs, h, t

\* The parser accepts a digest of one length only.
LEMMA AcceptedDigest ==
  ASSUME NEW p \in Seq(Byte), NEW m \in EmailRecords, ParsedAs(p, m), Accepted(p),
         m.has_attachment = 1
  PROVE  Len(m.att_hash) = ATT_HASH_LEN
<1> DEFINE z == AttSizeAt(p)
           n == Len(m.att_hash)
<1>1. p[AttAt(p) + 1] = 1 /\ z + 4 + n = Len(p)
  BY Zenon DEF ParsedAs
<1>2. z \in Nat /\ z + 4 + ATT_HASH_LEN = Len(p)
  BY <1>1, AcceptedEnds, Zenon
<1>3. n \in Nat /\ ATT_HASH_LEN \in Nat /\ Len(p) \in Nat
  BY LengthAssumption DEF EmailRecords
<1>4. z + 4 + n = z + 4 + ATT_HASH_LEN
  BY <1>1, <1>2, Zenon
<1> HIDE DEF z, n
<1>5. n = ATT_HASH_LEN
  BY <1>2, <1>3, <1>4
<1> QED BY <1>5 DEF n

\* The review of an email that was written and parsed back shows the email.
LEMMA ReviewOfWritten ==
  ASSUME NEW p \in Seq(Byte), NEW m \in EmailRecords, ParsedAs(p, m), Accepted(p)
  PROVE  ReviewPairs(email_t(p)) = ReviewPairs(m)
<1> DEFINE e == email_t(p)
<1>1. /\ e.challenge = m.challenge /\ e.from = m.from /\ e.to = m.to /\ e.subject = m.subject
      /\ e.body = m.body /\ e.has_attachment = m.has_attachment
  BY EmailFields, Zenon DEF ParsedAs
<1>2. ASSUME m.has_attachment = 1
      PROVE  e.att_name = m.att_name /\ e.att_size = m.att_size /\ e.att_hash = m.att_hash
  <2>1. Len(m.att_hash) = ATT_HASH_LEN
    BY <1>2, AcceptedDigest, Zenon
  <2>2. p[AttAt(p) + 1] = 1
    BY <1>2, Zenon DEF ParsedAs
  <2>3. /\ e.att_name = TextField(p, AttAt(p) + 1)
        /\ e.att_size = U32(p, AttSizeAt(p))
        /\ e.att_hash = Slice(p, AttSizeAt(p) + 4, ATT_HASH_LEN)
    BY <2>2, EmailFields, Zenon
  <2> QED BY <1>2, <2>1, <2>3, Zenon DEF ParsedAs
<1>3. m.has_attachment = 1 \/ ~(m.has_attachment # 0)
  BY DEF EmailRecords
<1> HIDE DEF e
<1>4. ReviewPairs(e) = ReviewPairs(m)
  <2>1. CASE m.has_attachment = 1
    BY <1>1, <1>2, <2>1, Zenon DEF ReviewPairs
  <2>2. CASE ~(m.has_attachment # 0)
    BY <1>1, <2>2, Zenon DEF ReviewPairs
  <2> QED BY <1>3, <2>1, <2>2
<1> QED BY <1>4 DEF e

-----------------------------------------------------------------------------
(* Numbers as text.  Decimal is defined by recursion on its argument; that *)
(* the recursion has a solution is shown from its finite beginnings, and   *)
(* what it computes by looking at the least number it would be wrong for.  *)
\* Every non-empty set of natural numbers has a least element.
LEMMA LeastElement ==
  ASSUME NEW S \in SUBSET Nat, S # {}
  PROVE  \E m \in S : \A k \in S : ~(k < m)
<1>1. \E x \in S : \A y \in S : ~(<<y, x>> \in OpToRel(<, Nat))
  BY NatLessThanWellFounded, WFMin, Zenon
<1>2. \A x, y \in Nat : <<y, x>> \in OpToRel(<, Nat) <=> y < x
  BY DEF OpToRel
<1> QED BY <1>1, <1>2, Zenon

Base == Len(Numerals)
LastNumeral(n) == <<Numerals[(n % Base) + 1]>>
DecimalStep(f, n) == IF n < Base THEN LastNumeral(n) ELSE f[n \div Base] \o LastNumeral(n)

\* Dropping the last digit yields a smaller number.
LEMMA QuotientSmaller ==
  ASSUME NEW n \in Nat, ~(n < Base)
  PROVE  n \div Base \in Nat /\ n \div Base < n
<1>1. Base \in Nat /\ Base >= 2
  BY CharAssumption DEF Base
<1>2. n \div Base \in Nat /\ n % Base \in Nat /\ n = Base * (n \div Base) + (n % Base)
  BY <1>1, DivMod
<1> DEFINE q == n \div Base
           r == n % Base
<1>3. q \in Nat /\ r \in Nat /\ n = Base * q + r
  BY <1>2
<1> HIDE DEF q, r
<1>4. \A b, x \in Nat : b >= 2 => b * x >= x + x
  OBVIOUS
<1>5. Base * q >= q + q
  BY <1>1, <1>3, <1>4
<1>6. Base * q \in Nat
  BY <1>1, <1>3
<1>7. q < n
  BY <1>1, <1>3, <1>5, <1>6
<1> QED BY <1>3, <1>7 DEF q

\* f is the table of the numbers up to k.
IsTable(f, k) == f = [n \in 0 .. k |-> DecimalStep(f, n)]

\* There is a table of any size.
LEMMA TableExists == \A k \in Nat : \E f : IsTable(f, k)
<1> DEFINE S == {k \in Nat : ~\E f : IsTable(f, k)}
<1> SUFFICES ASSUME S # {} PROVE FALSE
  OBVIOUS
<1>1. PICK k \in S : \A j \in S : ~(j < k)
  BY LeastElement
<1>2. k \in Nat /\ ~\E f : IsTable(f, k)
  OBVIOUS
<1>3. PICK f : k = 0 \/ IsTable(f, k - 1)
  <2>1. CASE k = 0
    BY <2>1
  <2>2. CASE k # 0
    <3>1. k - 1 \in Nat /\ k - 1 < k
      BY <1>2, <2>2
    <3> QED BY <1>1, <3>1
  <2> QED BY <2>1, <2>2
<1> DEFINE g == [n \in 0 .. k |-> DecimalStep(f, n)]
<1>4. ASSUME NEW n \in 0 .. k PROVE DecimalStep(f, n) = DecimalStep(g, n)
  <2>1. CASE n < Base
    BY <2>1, Zenon DEF DecimalStep
  <2>2. CASE ~(n < Base)
    <3> DEFINE q == n \div Base
    <3>0. n \in Nat /\ n <= k
      BY <1>2
    <3>1. q \in Nat /\ q < n
      BY <2>2, <3>0, QuotientSmaller
    <3> HIDE DEF q
    <3>2. q \in 0 .. k /\ q \in 0 .. k - 1 /\ k # 0
      BY <1>2, <3>0, <3>1
    <3>3. g[q] = DecimalStep(f, q)
      BY <3>2, Zenon
    <3>4. f[q] = DecimalStep(f, q)
      <4>1. f = [i \in 0 .. k - 1 |-> DecimalStep(f, i)]
        BY <1>3, <3>2, Zenon DEF IsTable
      <4> HIDE DEF g
      <4>2. [i \in 0 .. k - 1 |-> DecimalStep(f, i)][q] = DecimalStep(f, q)
        BY <3>2, Zenon
      <4> QED BY <4>1, <4>2, Zenon
    <3> HIDE DEF g
    <3> QED BY <2>2, <3>3, <3>4, Zenon DEF DecimalStep, q
  <2> QED BY <2>1, <2>2
<1>5. g = [n \in 0 .. k |-> DecimalStep(g, n)]
  <2> DEFINE h == [n \in 0 .. k |-> DecimalStep(g, n)]
  <2>1. \A n \in 0 .. k : g[n] = DecimalStep(g, n)
    BY <1>4, Zenon
  <2> QED BY <2>1, Zenon
<1>6. IsTable(g, k)
  BY <1>5, Zenon DEF IsTable
<1> QED BY <1>2, <1>6, Zenon

\* An entry of a table.
LEMMA TableEntry ==
  ASSUME NEW f, NEW k \in Nat, IsTable(f, k), NEW n \in 0 .. k
  PROVE  f[n] = DecimalStep(f, n)
<1>1. f = [i \in 0 .. k |-> DecimalStep(f, i)]
  BY Zenon DEF IsTable
<1>2. [i \in 0 .. k |-> DecimalStep(f, i)][n] = DecimalStep(f, n)
  BY Zenon
<1> QED BY <1>1, <1>2, Zenon

\* Two tables agree where both have entries.
LEMMA TablesAgree ==
  ASSUME NEW f, NEW g, NEW k \in Nat, NEW j \in Nat, IsTable(f, k), IsTable(g, j)
  PROVE  \A n \in Nat : n <= k /\ n <= j => f[n] = g[n]
<1> DEFINE S == {n \in Nat : n <= k /\ n <= j /\ f[n] # g[n]}
<1> SUFFICES ASSUME S # {} PROVE FALSE
  BY Zenon
<1>1. PICK n \in S : \A i \in S : ~(i < n)
  <2> HIDE DEF S
  <2>1. S \in SUBSET Nat
    BY DEF S
  <2> QED BY <2>1, LeastElement
<1>2. n \in Nat /\ n <= k /\ n <= j /\ f[n] # g[n]
  BY Zenon
<1>3. n \in 0 .. k /\ n \in 0 .. j
  BY <1>2
<1>4. f[n] = DecimalStep(f, n) /\ g[n] = DecimalStep(g, n)
  BY <1>3, TableEntry, Zenon
<1>5. CASE n < Base
  BY <1>2, <1>4, <1>5, Zenon DEF DecimalStep
<1>6. CASE ~(n < Base)
  <2> DEFINE q == n \div Base
  <2>1. q \in Nat /\ q < n
    BY <1>2, <1>6, QuotientSmaller, Zenon
  <2> HIDE DEF q
  <2>2. q <= k /\ q <= j
    BY <1>2, <2>1
  <2>3. f[q] = g[q]
    BY <1>1, <2>1, <2>2, Zenon
  <2> QED BY <1>2, <1>4, <1>6, <2>3, Zenon DEF DecimalStep, q
<1> QED BY <1>5, <1>6

\* The recursive definition of Decimal has a solution: Decimal satisfies its equation.
LEMMA DecimalUnfold == \A n \in Nat : Decimal[n] = DecimalStep(Decimal, n)
<1> DEFINE T(k) == CHOOSE f : IsTable(f, k)
           d == [n \in Nat |-> T(n)[n]]
<1>1. \A k \in Nat : IsTable(T(k), k)
  BY TableExists, Zenon
<1> HIDE DEF T
<1>2. ASSUME NEW n \in Nat PROVE d[n] = DecimalStep(d, n)
  <2>1. d[n] = T(n)[n]
    OBVIOUS
  <2>2. T(n)[n] = DecimalStep(T(n), n)
    <3>1. n \in 0 .. n
      OBVIOUS
    <3> QED BY <1>1, <3>1, TableEntry, Zenon
  <2>3. CASE n < Base
    BY <2>1, <2>2, <2>3, Zenon DEF DecimalStep
  <2>4. CASE ~(n < Base)
    <3> DEFINE q == n \div Base
    <3>1. q \in Nat /\ q < n
      BY <2>4, QuotientSmaller, Zenon
    <3> HIDE DEF q
    <3>2. q <= n /\ q <= q
      BY <3>1
    <3>3. T(n)[q] = T(q)[q]
      <4>1. IsTable(T(n), n) /\ IsTable(T(q), q)
        BY <1>1, <3>1, Zenon
      <4> QED BY <3>1, <3>2, <4>1, TablesAgree, Zenon
    <3>4. d[q] = T(q)[q]
      BY <3>1, Zenon
    <3> HIDE DEF d
    <3>5. DecimalStep(T(n), n) = DecimalStep(d, n)
      BY <2>4, <3>3, <3>4, Zenon DEF DecimalStep, q
    <3> QED BY <2>1, <2>2, <3>5, Zenon
  <2> QED BY <2>3, <2>4
<1>3. d = [n \in Nat |-> DecimalStep(d, n)]
  BY <1>2, Zenon
<1> HIDE DEF d
<1>4. \E g : g = [n \in Nat |-> DecimalStep(g, n)]
  BY <1>3, Zenon
<1>5. Decimal = CHOOSE g : g = [n \in Nat |-> DecimalStep(g, n)]
  BY Zenon DEF Decimal, DecimalStep, LastNumeral, Base
<1>6. Decimal = [n \in Nat |-> DecimalStep(Decimal, n)]
  BY <1>4, <1>5, Zenon
<1> SUFFICES ASSUME NEW n \in Nat PROVE Decimal[n] = DecimalStep(Decimal, n)
  OBVIOUS
<1>7. [i \in Nat |-> DecimalStep(Decimal, i)][n] = DecimalStep(Decimal, n)
  BY Zenon
<1> QED BY <1>6, <1>7, Zenon

\* A numeral of its own for each digit.
LEMMA LastNumeralFacts ==
  ASSUME NEW n \in Nat
  PROVE  /\ LastNumeral(n) \in Seq(Printable \ {Paren}) /\ Len(LastNumeral(n)) = 1
         /\ LastNumeral(n)[1] = Numerals[(n % Base) + 1]
         /\ (n % Base) + 1 \in 1 .. Len(Numerals)
<1>1. Base \in Nat /\ Base > 0 /\ Base = Len(Numerals)
  BY CharAssumption DEF Base
<1>2. n % Base \in 0 .. Base - 1
  BY <1>1, DivMod
<1>3. (n % Base) + 1 \in 1 .. Len(Numerals)
  BY <1>1, <1>2
<1>4. Numerals[(n % Base) + 1] \in Printable \ {Paren}
  <2> DEFINE i == (n % Base) + 1
  <2>1. i \in 1 .. Len(Numerals)
    BY <1>3
  <2> HIDE DEF i
  <2>2. Numerals \in Seq(Printable \ {Paren})
    BY CharAssumption
  <2>3. Numerals[i] \in Printable \ {Paren}
    BY <2>1, <2>2
  <2> QED BY <2>3 DEF i
<1>5. \A x \in Printable \ {Paren} :
        <<x>> \in Seq(Printable \ {Paren}) /\ Len(<<x>>) = 1 /\ <<x>>[1] = x
  OBVIOUS
<1> QED BY <1>3, <1>4, <1>5, Zenon DEF LastNumeral

\* The length and the elements of a concatenation of characters.
LEMMA TextConcat ==
  ASSUME NEW C, NEW s \in Seq(C), NEW t \in Seq(C)
  PROVE  /\ s \o t \in Seq(C) /\ Len(s \o t) = Len(s) + Len(t)
         /\ \A i \in 1 .. Len(s) : (s \o t)[i] = s[i]
         /\ \A i \in 1 .. Len(t) : (s \o t)[Len(s) + i] = t[i]
OBVIOUS

\* A number is written with at least one numeral, and with nothing but numerals.
LEMMA DecimalType ==
  \A n \in Nat : Decimal[n] \in Seq(Printable \ {Paren}) /\ Len(Decimal[n]) >= 1
<1> DEFINE Ok(n) == Decimal[n] \in Seq(Printable \ {Paren}) /\ Len(Decimal[n]) >= 1
           S == {n \in Nat : ~Ok(n)}
<1> SUFFICES ASSUME S # {} PROVE FALSE
  BY Zenon
<1>1. PICK n \in S : \A i \in S : ~(i < n)
  <2> HIDE DEF S
  <2>1. S \in SUBSET Nat
    BY DEF S
  <2> QED BY <2>1, LeastElement
<1>2. n \in Nat /\ ~Ok(n)
  BY Zenon
<1>3. Decimal[n] = DecimalStep(Decimal, n)
  BY <1>2, DecimalUnfold, Zenon
<1>4. LastNumeral(n) \in Seq(Printable \ {Paren}) /\ Len(LastNumeral(n)) = 1 /\ 1 >= 1
  <2>1. LastNumeral(n) \in Seq(Printable \ {Paren}) /\ Len(LastNumeral(n)) = 1
    BY <1>2, LastNumeralFacts, Zenon
  <2>2. 1 >= 1
    OBVIOUS
  <2> QED BY <2>1, <2>2, Zenon
<1>5. CASE n < Base
  <2>1. Decimal[n] = LastNumeral(n)
    BY <1>3, <1>5, Zenon DEF DecimalStep
  <2> QED BY <1>2, <1>4, <2>1, Zenon
<1>6. CASE ~(n < Base)
  <2> DEFINE q == n \div Base
             s == Decimal[q]
             t == LastNumeral(n)
  <2>1. q \in Nat /\ q < n
    BY <1>2, <1>6, QuotientSmaller, Zenon
  <2>2. Decimal[n] = s \o t
    BY <1>3, <1>6, Zenon DEF DecimalStep
  <2>3. Ok(q)
    BY <1>1, <2>1, Zenon
  <2>4. s \in Seq(Printable \ {Paren}) /\ Len(s) >= 1 /\ Len(s) \in Nat
    <3>1. s \in Seq(Printable \ {Paren})
      BY <2>3, Zenon
    <3>2. Len(s) \in Nat
      <4> HIDE DEF s
      <4> QED BY <3>1
    <3> QED BY <2>3, <3>1, <3>2, Zenon
  <2>5. t \in Seq(Printable \ {Paren}) /\ Len(t) = 1
    BY <1>4, Zenon
  <2> HIDE DEF s, t
  <2>6. s \o t \in Seq(Printable \ {Paren}) /\ Len(s \o t) = Len(s) + Len(t)
    BY <2>4, <2>5, TextConcat, Zenon
  <2>7. Len(s) + Len(t) >= 1
    BY <2>4, <2>5
  <2> QED BY <1>2, <2>2, <2>6, <2>7, Zenon
<1> QED BY <1>5, <1>6

\* A number of one digit, and the recursion for the others: the number without its last
\* digit, and the numeral of that digit.
LEMMA DecimalCases ==
  ASSUME NEW n \in Nat
  PROVE  /\ n < Base => Len(Decimal[n]) = 1
         /\ ~(n < Base) =>
              /\ n \div Base \in Nat /\ n \div Base < n
              /\ Len(Decimal[n]) = Len(Decimal[n \div Base]) + 1
              /\ \A i \in 1 .. Len(Decimal[n \div Base]) :
                   Decimal[n][i] = Decimal[n \div Base][i]
         /\ Decimal[n][Len(Decimal[n])] = Numerals[(n % Base) + 1]
         /\ Len(Decimal[n]) \in Nat
<1> DEFINE t == LastNumeral(n)
<1>1. /\ t \in Seq(Printable \ {Paren}) /\ Len(t) = 1
      /\ t[1] = Numerals[(n % Base) + 1]
  BY LastNumeralFacts, Zenon
<1>2. Decimal[n] = DecimalStep(Decimal, n)
  BY DecimalUnfold, Zenon
<1>3. Len(Decimal[n]) \in Nat
  <2> DEFINE s == Decimal[n]
  <2>1. s \in Seq(Printable \ {Paren})
    BY DecimalType, Zenon
  <2> HIDE DEF s
  <2>2. Len(s) \in Nat
    BY <2>1
  <2> QED BY <2>2 DEF s
<1>4. CASE n < Base
  <2>1. Decimal[n] = t
    BY <1>2, <1>4, Zenon DEF DecimalStep
  <2> QED BY <1>1, <1>3, <1>4, <2>1, Zenon
<1>5. CASE ~(n < Base)
  <2> DEFINE q == n \div Base
             s == Decimal[q]
  <2>1. q \in Nat /\ q < n
    BY <1>5, QuotientSmaller, Zenon
  <2>2. Decimal[n] = s \o t
    BY <1>2, <1>5, Zenon DEF DecimalStep
  <2>3. s \in Seq(Printable \ {Paren})
    BY <2>1, DecimalType, Zenon
  <2>0. t \in Seq(Printable \ {Paren})
    BY <1>1, Zenon
  <2> HIDE DEF s, t
  <2>4. /\ Len(s \o t) = Len(s) + Len(t)
        /\ \A i \in 1 .. Len(s) : (s \o t)[i] = s[i]
        /\ \A i \in 1 .. Len(t) : (s \o t)[Len(s) + i] = t[i]
    <3> DEFINE C == Printable \ {Paren}
    <3>1. s \in Seq(C) /\ t \in Seq(C)
      BY <2>0, <2>3, Zenon
    <3> HIDE DEF C
    <3> QED BY <3>1, TextConcat
  <2>5. 1 \in 1 .. 1
    OBVIOUS
  <2>6. (s \o t)[Len(s) + 1] = t[1]
    BY <1>1, <2>4, <2>5, Zenon
  <2> QED BY <1>1, <1>3, <1>5, <2>1, <2>2, <2>4, <2>6, Zenon DEF s
<1> QED BY <1>4, <1>5

\* Different numbers are written differently.
LEMMA DecimalInjective == \A m, n \in Nat : Decimal[m] = Decimal[n] => m = n
<1> DEFINE S == {m \in Nat : \E n \in Nat : Decimal[m] = Decimal[n] /\ m # n}
<1> SUFFICES ASSUME S # {} PROVE FALSE
  BY Zenon
<1>1. PICK m \in S : \A i \in S : ~(i < m)
  <2> HIDE DEF S
  <2>1. S \in SUBSET Nat
    BY DEF S
  <2> QED BY <2>1, LeastElement
<1>2. PICK n \in Nat : m \in Nat /\ Decimal[m] = Decimal[n] /\ m # n
  BY Zenon
<1>0. Base \in Nat /\ Base >= 2
  BY CharAssumption DEF Base
<1>3. m % Base = n % Base
  <2>1. Numerals[(m % Base) + 1] = Numerals[(n % Base) + 1]
    <3>1. Decimal[m][Len(Decimal[m])] = Numerals[(m % Base) + 1]
      BY <1>2, DecimalCases, Zenon
    <3>2. Decimal[n][Len(Decimal[n])] = Numerals[(n % Base) + 1]
      BY <1>2, DecimalCases, Zenon
    <3> QED BY <1>2, <3>1, <3>2, Zenon
  <2>2. (m % Base) + 1 \in 1 .. Len(Numerals) /\ (n % Base) + 1 \in 1 .. Len(Numerals)
    BY <1>2, LastNumeralFacts, Zenon
  <2>3. (m % Base) + 1 = (n % Base) + 1
    BY <2>1, <2>2, CharAssumption, Zenon
  <2>4. m % Base \in Nat /\ n % Base \in Nat
    BY <1>0, <1>2, DivMod
  <2> DEFINE a == m % Base
             b == n % Base
  <2> HIDE DEF a, b
  <2>5. a + 1 = b + 1 /\ a \in Nat /\ b \in Nat
    BY <2>3, <2>4, Zenon DEF a, b
  <2>6. a = b
    BY <2>5
  <2> QED BY <2>6 DEF a, b
<1>4. ASSUME NEW k \in Nat, k < Base PROVE k % Base = k
  BY <1>0, <1>4
<1>5. ASSUME NEW k \in Nat, NEW l \in Nat, k < Base, ~(l < Base)
      PROVE  Decimal[k] # Decimal[l]
  <2>1. Len(Decimal[k]) = 1
    BY <1>5, DecimalCases, Zenon
  <2>2. /\ Len(Decimal[l]) = Len(Decimal[l \div Base]) + 1
        /\ l \div Base \in Nat
    BY <1>5, DecimalCases, Zenon
  <2>3. Len(Decimal[l \div Base]) >= 1 /\ Len(Decimal[l \div Base]) \in Nat
    BY <2>2, DecimalType, DecimalCases, Zenon
  <2>4. \A x \in Nat : x >= 1 => 1 # x + 1
    OBVIOUS
  <2> QED BY <2>1, <2>2, <2>3, <2>4, Zenon
<1>6. CASE m < Base /\ n < Base
  BY <1>2, <1>3, <1>4, <1>6, Zenon
<1>7. CASE ~(m < Base) /\ ~(n < Base)
  <2> DEFINE a == m \div Base
             b == n \div Base
  <2>1. /\ a \in Nat /\ a < m /\ Len(Decimal[m]) = Len(Decimal[a]) + 1
        /\ \A i \in 1 .. Len(Decimal[a]) : Decimal[m][i] = Decimal[a][i]
    BY <1>2, <1>7, DecimalCases, Zenon
  <2>2. /\ b \in Nat /\ Len(Decimal[n]) = Len(Decimal[b]) + 1
        /\ \A i \in 1 .. Len(Decimal[b]) : Decimal[n][i] = Decimal[b][i]
    BY <1>2, <1>7, DecimalCases, Zenon
  <2>3. Len(Decimal[a]) = Len(Decimal[b])
    <3>1. Len(Decimal[a]) \in Nat /\ Len(Decimal[b]) \in Nat
      BY <2>1, <2>2, DecimalCases, Zenon
    <3>2. \A x, y \in Nat : x + 1 = y + 1 => x = y
      OBVIOUS
    <3> QED BY <1>2, <2>1, <2>2, <3>1, <3>2, Zenon
  <2>4. Decimal[a] = Decimal[b]
    <3> DEFINE s == Decimal[a]
               t == Decimal[b]
    <3>1. s \in Seq(Printable \ {Paren}) /\ t \in Seq(Printable \ {Paren})
      BY <2>1, <2>2, DecimalType, Zenon
    <3>2. Len(s) = Len(t) /\ \A i \in 1 .. Len(s) : s[i] = t[i]
      BY <1>2, <2>1, <2>2, <2>3, Zenon
    <3> HIDE DEF s, t
    <3>3. s = t
      BY <3>1, <3>2
    <3> QED BY <3>3 DEF s, t
  <2>5. a = b
    BY <1>1, <2>1, <2>2, <2>4, Zenon
  <2>6. m = Base * a + (m % Base) /\ n = Base * b + (n % Base)
    BY <1>0, <1>2, DivMod
  <2> QED BY <1>2, <1>3, <2>5, <2>6, Zenon
<1> QED BY <1>2, <1>5, <1>6, <1>7, Zenon

-----------------------------------------------------------------------------
(* How long the numbers are that the attachment line shows.                *)

\* The number of numerals %u writes.
Digits(n) == Len(Decimal[n])

\* One digit below the base, and one more than the quotient otherwise.
LEMMA DigitsCases ==
  ASSUME NEW n \in Nat
  PROVE  /\ Digits(n) \in Nat /\ Digits(n) >= 1
         /\ n < Base => Digits(n) = 1
         /\ ~(n < Base) => /\ n \div Base \in Nat /\ n \div Base < n
                           /\ Digits(n) = Digits(n \div Base) + 1
<1>1. Len(Decimal[n]) \in Nat /\ Len(Decimal[n]) >= 1
  BY DecimalCases, DecimalType, Zenon
<1> QED BY <1>1, DecimalCases, Zenon DEF Digits

\* A product bounds the quotient by its other factor.
LEMMA QuotientBelow ==
  ASSUME NEW d \in Nat, d > 0, NEW n \in Nat, NEW k \in Nat, n < k * d
  PROVE  n \div d < k
<1> DEFINE q == n \div d
           r == n % d
<1>1. q \in Nat /\ r \in Nat /\ n = d * q + r
  BY DivMod
<1> HIDE DEF q, r
<1>2. ASSUME ~(q < k) PROVE FALSE
  <2>1. PICK e \in Nat : q = k + e
    <3>1. q - k \in Nat /\ q = k + (q - k)
      BY <1>1, <1>2
    <3> QED BY <3>1
  <2>2. d * (k + e) = k * d + d * e /\ d * e \in Nat /\ k * d \in Nat
    BY <2>1
  <2>3. \A x, y, z \in Nat : ~(x + y + z < x)
    OBVIOUS
  <2>4. n = k * d + d * e + r
    BY <1>1, <2>1, <2>2, Zenon
  <2> QED BY <1>1, <2>2, <2>3, <2>4, Zenon
<1>3. q < k
  BY <1>2, Zenon
<1> QED BY <1>3 DEF q

\* Quotients by the base keep the order.
LEMMA QuotientMonotone ==
  ASSUME NEW m \in Nat, NEW n \in Nat, m <= n
  PROVE  m \div Base <= n \div Base
<1>0. Base \in Nat /\ Base > 0
  BY CharAssumption DEF Base
<1> DEFINE q == n \div Base
           r == n % Base
           p == m \div Base
<1>1. q \in Nat /\ r \in 0 .. Base - 1 /\ n = Base * q + r
  BY <1>0, DivMod
<1>2. p \in Nat
  BY <1>0, DivMod
<1> HIDE DEF q, r
<1>3. m < (q + 1) * Base
  <2>1. (q + 1) * Base = Base * q + Base /\ Base * q \in Nat
    BY <1>0, <1>1
  <2> DEFINE x == Base * q
  <2>2. n = x + r /\ x \in Nat
    BY <1>1, <2>1
  <2> HIDE DEF x
  <2>3. m < x + Base
    BY <1>0, <1>1, <2>2
  <2> QED BY <2>1, <2>3 DEF x
<1>4. p < q + 1
  <2>1. q + 1 \in Nat
    BY <1>1
  <2> QED BY <1>0, <1>3, <2>1, QuotientBelow
<1> HIDE DEF p
<1>5. p <= q
  BY <1>1, <1>2, <1>4
<1> QED BY <1>5 DEF p, q

\* A larger number is not written with fewer numerals.
LEMMA DigitsMonotone == \A n \in Nat : \A m \in Nat : m <= n => Digits(m) <= Digits(n)
<1> DEFINE S == {n \in Nat : \E m \in Nat : m <= n /\ ~(Digits(m) <= Digits(n))}
<1> SUFFICES ASSUME S # {} PROVE FALSE
  BY Zenon
<1>1. PICK n \in S : \A i \in S : ~(i < n)
  <2> HIDE DEF S
  <2>1. S \in SUBSET Nat
    BY DEF S
  <2> QED BY <2>1, LeastElement
<1>2. PICK m \in Nat : n \in Nat /\ m <= n /\ ~(Digits(m) <= Digits(n))
  BY Zenon
<1>3. /\ Digits(m) \in Nat /\ Digits(n) \in Nat /\ Digits(n) >= 1
  BY <1>2, DigitsCases, Zenon
<1>4. CASE m < Base
  <2>1. Digits(m) = 1
    BY <1>2, <1>4, DigitsCases, Zenon
  <2> QED BY <1>2, <1>3, <2>1
<1>5. CASE ~(m < Base)
  <2>1. ~(n < Base)
    <3>1. Base \in Nat
      BY CharAssumption DEF Base
    <3> QED BY <1>2, <1>5, <3>1
  <2> DEFINE a == m \div Base
             b == n \div Base
  <2>2. a \in Nat /\ Digits(m) = Digits(a) + 1
    BY <1>2, <1>5, DigitsCases, Zenon
  <2>3. b \in Nat /\ b < n /\ Digits(n) = Digits(b) + 1
    BY <1>2, <2>1, DigitsCases, Zenon
  <2>4. a <= b
    BY <1>2, QuotientMonotone, Zenon
  <2>5. Digits(a) <= Digits(b)
    BY <1>1, <2>2, <2>3, <2>4, Zenon
  <2>6. Digits(a) \in Nat /\ Digits(b) \in Nat
    BY <2>2, <2>3, DigitsCases, Zenon
  <2>7. \A x, y \in Nat : x <= y => x + 1 <= y + 1
    OBVIOUS
  <2> QED BY <1>2, <2>2, <2>3, <2>5, <2>6, <2>7, Zenon
<1> QED BY <1>4, <1>5

\* A number below a product is written with at most the numerals of both factors.
LEMMA DigitsOfProduct ==
  ASSUME NEW M \in Nat, M > 0
  PROVE  \A a \in Nat : \A n \in Nat :
           n < (a + 1) * M => Digits(n) <= Digits(a) + Digits(M - 1)
<1> DEFINE Ok(a, n) == Digits(n) <= Digits(a) + Digits(M - 1)
           S == {a \in Nat : \E n \in Nat : n < (a + 1) * M /\ ~Ok(a, n)}
<1> SUFFICES ASSUME S # {} PROVE FALSE
  BY Zenon
<1>0. Base \in Nat /\ Base > 0
  BY CharAssumption DEF Base
<1>1. PICK a \in S : \A i \in S : ~(i < a)
  <2> HIDE DEF S
  <2>1. S \in SUBSET Nat
    BY DEF S
  <2> QED BY <2>1, LeastElement
<1>2. PICK n \in Nat : a \in Nat /\ n < (a + 1) * M /\ ~Ok(a, n)
  BY Zenon
<1>3. M - 1 \in Nat
  OBVIOUS
<1>4. /\ Digits(a) \in Nat /\ Digits(a) >= 1 /\ Digits(M - 1) \in Nat
      /\ Digits(M - 1) >= 1
  BY <1>2, <1>3, DigitsCases, Zenon
<1>5. ~(n < Base)
  <2>1. ASSUME n < Base PROVE Ok(a, n)
    <3>1. Digits(n) = 1
      BY <1>2, <2>1, DigitsCases, Zenon
    <3>2. \A x, y \in Nat : x >= 1 => 1 <= x + y
      OBVIOUS
    <3> QED BY <1>4, <3>1, <3>2, Zenon
  <2> QED BY <1>2, <2>1, Zenon
<1> DEFINE q == n \div Base
<1>6. q \in Nat /\ Digits(n) = Digits(q) + 1 /\ Digits(q) \in Nat
  BY <1>2, <1>5, DigitsCases, Zenon
<1>7. ASSUME NEW k \in Nat, a + 1 <= k * Base PROVE q < k * M
  <2>1. n < (k * M) * Base
    <3>1. \A x, y \in Nat : x <= y => x * M <= y * M
      <4> SUFFICES ASSUME NEW x \in Nat, NEW y \in Nat, x <= y PROVE x * M <= y * M
        OBVIOUS
      <4>1. PICK e \in Nat : y = x + e
        <5>1. y - x \in Nat /\ y = x + (y - x)
          OBVIOUS
        <5> QED BY <5>1
      <4>2. (x + e) * M = x * M + e * M /\ e * M \in Nat /\ x * M \in Nat
        OBVIOUS
      <4>3. \A u, v \in Nat : u <= u + v
        OBVIOUS
      <4> QED BY <4>1, <4>2, <4>3, Zenon
    <3>2. (k * Base) * M = (k * M) * Base /\ k * Base \in Nat /\ (k * Base) * M \in Nat
      BY <1>0, <1>7
    <3>3. a + 1 \in Nat /\ (a + 1) * M \in Nat
      BY <1>2
    <3>4. (a + 1) * M <= (k * Base) * M
      BY <1>7, <3>1, <3>2, <3>3, Zenon
    <3>5. \A x, y, z \in Nat : x < y /\ y <= z => x < z
      OBVIOUS
    <3> QED BY <1>2, <3>2, <3>3, <3>4, <3>5, Zenon
  <2>2. k * M \in Nat
    BY <1>7
  <2> QED BY <1>0, <1>2, <2>1, <2>2, QuotientBelow, Zenon
<1>8. CASE a < Base
  <2>1. Digits(a) = 1
    BY <1>2, <1>8, DigitsCases, Zenon
  <2>2. a + 1 <= 1 * Base /\ 1 \in Nat /\ 1 * M = M
    BY <1>0, <1>2, <1>8
  <2>3. q < M
    BY <1>7, <2>2, Zenon
  <2> HIDE DEF q
  <2>4. q <= M - 1
    BY <1>6, <2>3
  <2>5. Digits(q) <= Digits(M - 1)
    BY <1>3, <1>6, <2>4, DigitsMonotone, Zenon
  <2>6. \A x, y \in Nat : x <= y => x + 1 <= 1 + y
    OBVIOUS
  <2> QED BY <1>2, <1>4, <1>6, <2>1, <2>5, <2>6, Zenon
<1>9. CASE ~(a < Base)
  <2> DEFINE b == a \div Base
             c == a % Base
  <2>1. b \in Nat /\ b < a /\ Digits(a) = Digits(b) + 1 /\ Digits(b) \in Nat
    BY <1>2, <1>9, DigitsCases, Zenon
  <2>2. c \in 0 .. Base - 1 /\ a = Base * b + c
    BY <1>0, <1>2, DivMod
  <2>3. a + 1 <= (b + 1) * Base
    <3> HIDE DEF b, c
    <3>1. (b + 1) * Base = Base * b + Base /\ Base * b \in Nat
      BY <1>0, <2>1
    <3> DEFINE x == Base * b
    <3>2. a = x + c /\ x \in Nat
      BY <2>2, <3>1
    <3> HIDE DEF x
    <3>3. a + 1 <= x + Base
      BY <1>0, <2>2, <3>2
    <3> QED BY <3>1, <3>3 DEF x
  <2>4. b + 1 \in Nat
    <3> HIDE DEF b
    <3> QED BY <2>1
  <2>5. q < (b + 1) * M
    BY <1>7, <2>3, <2>4, Zenon
  <2>6. Ok(b, q)
    BY <1>1, <1>6, <2>1, <2>5, Zenon
  <2>7. \A x, y, z \in Nat : x <= y + z => x + 1 <= (y + 1) + z
    OBVIOUS
  <2> QED BY <1>2, <1>4, <1>6, <2>1, <2>6, <2>7, Zenon
<1> QED BY <1>8, <1>9

-----------------------------------------------------------------------------
(* The review determines the payload: every text is shown in full, and no  *)
(* two numbers, digests or challenges look alike.                          *)
\* The parser also checked the text of the body.
LEMMA AcceptedBodyText ==
  ASSUME NEW p, Accepted(p)
  PROVE  text_ok(p, BodyAt(p) + 2, U16(p, BodyAt(p)), TRUE)
  BY DEF Accepted, transaction_deserialize

\* A field without NUL that fits its buffer is copied unchanged.
LEMMA CopyPlain ==
  ASSUME NEW C, 0 \notin C, NEW f \in Seq(C), NEW max \in Nat, Len(f) <= max
  PROVE  copy_field(max + 1, f) = f
<1>1. Len(f) \in Nat
  OBVIOUS
<1>2. Shorter(Len(f), max + 1 - 1) = Len(f)
  BY <1>1 DEF Shorter
<1>3. SubSeq(f, 1, Len(f)) = f
  OBVIOUS
<1>4. CString(f) = f
  <2>1. \A i \in 1 .. Len(f) : f[i] \in C
    OBVIOUS
  <2>2. {i \in 1 .. Len(f) : f[i] = 0} = {}
    BY <2>1, Zenon
  <2> QED BY <2>2, Zenon DEF CString
<1>5. SubSeq(f, 1, Shorter(Len(f), max + 1 - 1)) = f
  BY <1>2, <1>3
<1>6. copy_field(max + 1, f) = CString(SubSeq(f, 1, Shorter(Len(f), max + 1 - 1)))
  BY DEF copy_field
<1> QED BY <1>4, <1>5, <1>6

\* A slice whose bytes belong to C is a sequence over C.
LEMMA SliceOver ==
  ASSUME NEW C, NEW p \in Seq(Byte), NEW o \in Nat, NEW n \in Nat, o + n <= Len(p),
         \A i \in o + 1 .. o + n : p[i] \in C
  PROVE  Slice(p, o, n) \in Seq(C) /\ Len(Slice(p, o, n)) = n
<1> DEFINE s == SubSeq(p, o + 1, o + n)
<1>1. s \in Seq(Byte) /\ Len(s) = n /\ \A i \in 1 .. n : s[i] = p[o + i]
  OBVIOUS
<1>2. \A i \in 1 .. n : o + i \in o + 1 .. o + n
  OBVIOUS
<1>3. \A i \in 1 .. n : s[i] \in C
  BY <1>1, <1>2, Zenon
<1> HIDE DEF s
<1>4. s \in Seq(C)
  BY <1>1, <1>3
<1> QED BY <1>1, <1>4, Zenon DEF Slice, s

\* A text field the parser read is shown in full.
LEMMA ShownField ==
  ASSUME NEW p \in Seq(Byte), NEW o \in Nat, NEW max \in Nat, read_text_field(p, o, max)
  PROVE  /\ TextField(p, o) \in Seq(Printable) /\ Len(TextField(p, o)) <= max
         /\ copy_field(max + 1, TextField(p, o)) = TextField(p, o)
<1> DEFINE n == p[o + 1]
<1>1. o + 1 <= Len(p)
  BY DEF read_text_field, CanRead
<1>2. n \in Nat
  <2>1. n \in Byte
    BY <1>1
  <2> QED BY <2>1, RadixAssumption DEF Byte
<1>3. n <= max /\ (o + 1) + n <= Len(p)
  BY Zenon DEF read_text_field, CanRead
<1>4. \A i \in (o + 1) + 1 .. (o + 1) + n : p[i] \in Printable
  BY Zenon DEF read_text_field, text_ok
<1> HIDE DEF n
<1>5. Slice(p, o + 1, n) \in Seq(Printable) /\ Len(Slice(p, o + 1, n)) = n
  <2>1. o + 1 \in Nat
    OBVIOUS
  <2> QED BY <1>2, <1>3, <1>4, <2>1, SliceOver
<1>6. TextField(p, o) = Slice(p, o + 1, n)
  BY Zenon DEF TextField, n
<1>7. 0 \notin Printable
  BY CharAssumption
<1>8. TextField(p, o) \in Seq(Printable) /\ Len(TextField(p, o)) <= max
  BY <1>3, <1>5, <1>6, Zenon
<1> QED BY <1>7, <1>8, CopyPlain, Zenon

\* The body, newlines included, is shown in full.
LEMMA ShownBody ==
  ASSUME NEW p \in Seq(Byte), Accepted(p)
  PROVE  copy_field(MAX_BODY_LEN + 1, email_t(p).body) = email_t(p).body
<1> DEFINE o == BodyAt(p)
           n == U16(p, o)
           C == Printable \cup {Newline}
<1>1. o \in Nat /\ n \in Nat
  BY AcceptedEnds, Zenon
<1>2. n <= MAX_BODY_LEN /\ (o + 2) + n <= Len(p)
  BY AcceptedChecks, Zenon DEF BodyInBounds, CanRead
<1>3. \A i \in (o + 2) + 1 .. (o + 2) + n : p[i] \in C
  BY AcceptedBodyText, Zenon DEF text_ok
<1>4. 0 \notin C
  BY CharAssumption
<1>5. email_t(p).body = Slice(p, o + 2, n)
  BY EmailFields, Zenon
<1>6. MAX_BODY_LEN \in Nat
  <2>1. \A r \in Nat : r * r \in Nat
    OBVIOUS
  <2> QED BY <2>1, LengthAssumption, RadixAssumption
<1> HIDE DEF o, n, C
<1>7. o + 2 \in Nat
  BY <1>1
<1>8. Slice(p, o + 2, n) \in Seq(C) /\ Len(Slice(p, o + 2, n)) = n
  BY <1>1, <1>2, <1>3, <1>7, SliceOver
<1>9. copy_field(MAX_BODY_LEN + 1, Slice(p, o + 2, n)) = Slice(p, o + 2, n)
  <2> DEFINE f == Slice(p, o + 2, n)
  <2>1. f \in Seq(C) /\ Len(f) <= MAX_BODY_LEN
    BY <1>2, <1>8, Zenon
  <2> HIDE DEF f
  <2>2. copy_field(MAX_BODY_LEN + 1, f) = f
    BY <1>4, <1>6, <2>1, CopyPlain, Zenon
  <2> QED BY <2>2 DEF f
<1> QED BY <1>5, <1>9, Zenon

\* Two digits per byte determine the byte, and their number the length.
LEMMA HexInjective ==
  ASSUME NEW s \in Seq(Byte), NEW t \in Seq(Byte), format_hex(s) = format_hex(t)
  PROVE  s = t
<1>1. Len(s) \in Nat /\ Len(t) \in Nat /\ HexBase \in Nat /\ HexBase > 0
  BY CharAssumption
<1>2. Len(s) = Len(t)
  <2> DEFINE a == 2 * Len(s)
             b == 2 * Len(t)
  <2>1. DOMAIN format_hex(s) = 1 .. a /\ DOMAIN format_hex(t) = 1 .. b
    BY Zenon DEF format_hex
  <2>2. 1 .. a = 1 .. b
    BY <2>1, Zenon
  <2>3. a \in Nat /\ b \in Nat
    BY <1>1
  <2>4. a = b
    <3> HIDE DEF a, b
    <3>1. \A x, y \in Nat : 1 .. x = 1 .. y => ~(x < y)
      <4> SUFFICES ASSUME NEW x \in Nat, NEW y \in Nat, 1 .. x = 1 .. y, x < y PROVE FALSE
        OBVIOUS
      <4>1. y \in 1 .. y /\ y \notin 1 .. x
        OBVIOUS
      <4> QED BY <4>1, Zenon
    <3>2. ~(a < b) /\ ~(b < a)
      BY <2>2, <2>3, <3>1, Zenon
    <3> QED BY <2>3, <3>2
  <2> QED BY <1>1, <2>4
<1>3. ASSUME NEW u \in Seq(Byte), NEW i \in 1 .. Len(u)
      PROVE  /\ format_hex(u)[2 * i - 1] = u[i] \div HexBase
             /\ format_hex(u)[2 * i] = u[i] % HexBase
  <2>1. Len(u) \in Nat
    OBVIOUS
  <2>2. /\ 2 * i - 1 \in 1 .. 2 * Len(u) /\ (2 * i - 1) % 2 = 1
        /\ ((2 * i - 1) + 1) \div 2 = i
        /\ 2 * i \in 1 .. 2 * Len(u) /\ (2 * i) % 2 # 1 /\ (2 * i) \div 2 = i
    BY <2>1
  <2> QED BY <2>2, Zenon DEF format_hex
<1>4. ASSUME NEW i \in 1 .. Len(s) PROVE s[i] = t[i]
  <2> DEFINE x == s[i]
             y == t[i]
  <2>1. x \in Nat /\ y \in Nat
    <3>1. x \in Byte /\ y \in Byte
      BY <1>2
    <3> QED BY <3>1, RadixAssumption DEF Byte
  <2>2. x \div HexBase = y \div HexBase /\ x % HexBase = y % HexBase
    BY <1>2, <1>3, Zenon
  <2>3. x = HexBase * (x \div HexBase) + (x % HexBase)
    BY <1>1, <2>1, DivMod, Zenon
  <2>4. y = HexBase * (y \div HexBase) + (y % HexBase)
    BY <1>1, <2>1, DivMod, Zenon
  <2> QED BY <2>2, <2>3, <2>4, Zenon
<1> QED BY <1>2, <1>4

\* g_attachment has room for the numerals of any size the parser can read.
LEMMA SizeFits ==
  ASSUME NEW p \in Seq(Byte), NEW o \in Nat, o + 4 <= Len(p)
  PROVE  U32(p, o) \in Nat /\ Digits(U32(p, o)) + 2 <= ATT_LINE_EXTRA
<1> DEFINE S == Radix * Radix
           hi == U16(p, o)
           lo == U16(p, o + 2)
           n == hi * Radix * Radix + lo
<1>1. /\ p[o + 1] \in Byte /\ p[o + 2] \in Byte
      /\ p[(o + 2) + 1] \in Byte /\ p[(o + 2) + 2] \in Byte
  OBVIOUS
<1>2. hi \in Nat /\ hi < S /\ lo \in Nat /\ lo < S
  BY <1>1, TwoDigits, Zenon DEF U16
<1>3. Radix \in Nat /\ S \in Nat /\ S > 0 /\ S - 1 \in Nat /\ (S - 1) + 1 = S
  <2>1. \A r \in Nat : r >= 2 => r * r \in Nat /\ r * r > 0
    OBVIOUS
  <2>2. S \in Nat /\ S > 0
    BY <2>1, RadixAssumption, Zenon
  <2> HIDE DEF S
  <2> QED BY <2>2, RadixAssumption
<1> HIDE DEF hi, lo
<1>4. n = hi * S + lo
  <2>1. \A x, r \in Nat : x * r * r = x * (r * r)
    OBVIOUS
  <2>2. hi * Radix * Radix = hi * S
    BY <1>2, <1>3, <2>1, Zenon
  <2> QED BY <2>2, Zenon
<1>5. n \in Nat /\ n < S * S
  <2> HIDE DEF S
  <2>1. \A x, y, s \in Nat : x < s /\ y < s => x * s + y \in Nat /\ x * s + y < s * s
    <3> SUFFICES ASSUME NEW x \in Nat, NEW y \in Nat, NEW s \in Nat, x < s, y < s
                 PROVE  x * s + y \in Nat /\ x * s + y < s * s
      OBVIOUS
    <3>1. PICK e \in Nat : s = x + 1 + e
      <4>1. s - (x + 1) \in Nat /\ s = x + 1 + (s - (x + 1))
        OBVIOUS
      <4> QED BY <4>1
    <3>2. (x + 1 + e) * s = x * s + s + e * s /\ x * s \in Nat /\ e * s \in Nat
      OBVIOUS
    <3>3. s * s = x * s + s + e * s
      BY <3>1, <3>2, Zenon
    <3> DEFINE u == x * s
               v == e * s
    <3>4. u \in Nat /\ v \in Nat /\ s * s = u + s + v
      BY <3>2, <3>3
    <3> HIDE DEF u, v
    <3>5. u + y \in Nat /\ u + y < u + s + v
      BY <3>4
    <3> QED BY <3>4, <3>5, Zenon DEF u
  <2> QED BY <1>2, <1>3, <1>4, <2>1, Zenon
<1>6. n < ((S - 1) + 1) * S
  BY <1>3, <1>5, Zenon
<1> HIDE DEF n, S
<1>7. Digits(n) <= Digits(S - 1) + Digits(S - 1)
  BY <1>3, <1>5, <1>6, DigitsOfProduct, Zenon
<1>8. 2 * Digits(S - 1) + 2 <= ATT_LINE_EXTRA
  BY AttachmentLineAssumption, Zenon DEF Digits, S
<1>9. Digits(n) \in Nat /\ Digits(S - 1) \in Nat
  BY <1>3, <1>5, DigitsCases, Zenon
<1>10. Digits(n) + 2 <= ATT_LINE_EXTRA
  <2>1. ATT_LINE_EXTRA \in Nat
    BY CharAssumption
  <2> DEFINE x == Digits(n)
             y == Digits(S - 1)
  <2>2. x \in Nat /\ y \in Nat /\ x <= y + y /\ 2 * y + 2 <= ATT_LINE_EXTRA
    BY <1>7, <1>8, <1>9
  <2> HIDE DEF x, y
  <2>3. x + 2 <= ATT_LINE_EXTRA
    BY <2>1, <2>2
  <2> QED BY <2>3 DEF x
<1>11. U32(p, o) = n
  BY Zenon DEF U32, n, hi, lo
<1> QED BY <1>5, <1>10, <1>11, Zenon

\* The attachment line before snprintf cuts it.
WholeLine(name, size) == name \o <<Paren>> \o Decimal[size]

\* The characters of that line: the name, the parenthesis, and numerals only.
LEMMA WholeLineFacts ==
  ASSUME NEW a \in Seq(Printable), NEW n \in Nat
  PROVE  /\ WholeLine(a, n) \in Seq(Printable)
         /\ Len(WholeLine(a, n)) = Len(a) + 1 + Digits(n)
         /\ \A i \in 1 .. Len(a) : WholeLine(a, n)[i] = a[i]
         /\ WholeLine(a, n)[Len(a) + 1] = Paren
         /\ \A i \in 1 .. Digits(n) : WholeLine(a, n)[Len(a) + 1 + i] = Decimal[n][i]
         /\ \A i \in 1 .. Digits(n) : Decimal[n][i] # Paren
<1> DEFINE d == Decimal[n]
           o == <<Paren>>
<1>1. d \in Seq(Printable \ {Paren})
  BY DecimalType, Zenon
<1>2. o \in Seq(Printable) /\ Len(o) = 1 /\ o[1] = Paren
  BY CharAssumption
<1> HIDE DEF d, o
<1>3. d \in Seq(Printable) /\ \A i \in 1 .. Len(d) : d[i] # Paren
  <2>1. \A i \in 1 .. Len(d) : d[i] \in Printable \ {Paren}
    BY <1>1
  <2>2. d \in Seq(Printable)
    BY <1>1
  <2> QED BY <2>1, <2>2, Zenon
<1>4. /\ a \o o \in Seq(Printable) /\ Len(a \o o) = Len(a) + Len(o)
      /\ \A i \in 1 .. Len(a) : (a \o o)[i] = a[i]
      /\ \A i \in 1 .. Len(o) : (a \o o)[Len(a) + i] = o[i]
  <2>1. o \in Seq(Printable)
    BY <1>2, Zenon
  <2> QED BY <2>1, TextConcat
<1> DEFINE h == a \o o
<1>5. h \in Seq(Printable) /\ Len(h) = Len(a) + 1
  BY <1>2, <1>4, Zenon
<1>6. 1 \in 1 .. 1 /\ Len(a) \in Nat
  OBVIOUS
<1>7. h[Len(a) + 1] = Paren
  BY <1>2, <1>4, <1>6, Zenon
<1>8. \A i \in 1 .. Len(a) : h[i] = a[i]
  BY <1>4, Zenon
<1> HIDE DEF h
<1>9. /\ h \o d \in Seq(Printable) /\ Len(h \o d) = Len(h) + Len(d)
      /\ \A i \in 1 .. Len(h) : (h \o d)[i] = h[i]
      /\ \A i \in 1 .. Len(d) : (h \o d)[Len(h) + i] = d[i]
  <2>1. h \in Seq(Printable) /\ d \in Seq(Printable)
    BY <1>3, <1>5, Zenon
  <2> QED BY <2>1, TextConcat
<1>10. WholeLine(a, n) = h \o d
  BY Zenon DEF WholeLine, h, o, d
<1>11. Digits(n) = Len(d)
  BY Zenon DEF Digits, d
<1>12. \A i \in 1 .. Len(a) : i \in 1 .. Len(a) + 1
  BY <1>6
<1>13. Len(a) + 1 \in 1 .. Len(a) + 1
  BY <1>6
<1>14. \A i \in 1 .. Len(a) : (h \o d)[i] = a[i]
  BY <1>5, <1>8, <1>9, <1>12, Zenon
<1>15. (h \o d)[Len(a) + 1] = Paren
  BY <1>5, <1>7, <1>9, <1>13, Zenon
<1>16. \A i \in 1 .. Len(d) : (h \o d)[Len(a) + 1 + i] = d[i]
  BY <1>5, <1>9, Zenon
<1>17. Len(h \o d) = Len(a) + 1 + Len(d)
  BY <1>5, <1>9, Zenon
<1> QED BY <1>3, <1>9, <1>10, <1>11, <1>14, <1>15, <1>16, <1>17, Zenon DEF d

\* The last parenthesis of the line separates the name from the size.
LEMMA WholeLineInjective ==
  ASSUME NEW a \in Seq(Printable), NEW b \in Seq(Printable), NEW m \in Nat, NEW n \in Nat,
         WholeLine(a, m) = WholeLine(b, n)
  PROVE  a = b /\ m = n
<1>1. ASSUME NEW x \in Seq(Printable), NEW y \in Seq(Printable), NEW i \in Nat, NEW j \in Nat,
             WholeLine(x, i) = WholeLine(y, j)
      PROVE  ~(Len(x) < Len(y))
  <2> SUFFICES ASSUME Len(x) < Len(y) PROVE FALSE
    OBVIOUS
  <2> DEFINE k == Len(y) - Len(x)
             u == Len(x)
             v == Len(y)
             di == Digits(i)
             dj == Digits(j)
  <2>1. u \in Nat /\ v \in Nat /\ u < v
    OBVIOUS
  <2>2. di \in Nat /\ dj \in Nat
    BY DigitsCases, Zenon
  <2>3. u + 1 + di = v + 1 + dj
    <3>1. Len(WholeLine(x, i)) = u + 1 + di
      BY WholeLineFacts, Zenon
    <3>2. Len(WholeLine(y, j)) = v + 1 + dj
      BY WholeLineFacts, Zenon
    <3> QED BY <1>1, <3>1, <3>2, Zenon
  <2>4. k \in 1 .. di /\ u + 1 + k = v + 1
    <3>1. k = v - u
      OBVIOUS
    <3> HIDE DEF k, u, v, di, dj
    <3> QED BY <2>1, <2>2, <2>3, <3>1
  <2>5. WholeLine(x, i)[v + 1] # Paren
    <3>1. WholeLine(x, i)[u + 1 + k] = Decimal[i][k] /\ Decimal[i][k] # Paren
      <4> HIDE DEF k
      <4> QED BY <2>4, WholeLineFacts, Zenon
    <3> QED BY <2>4, <3>1, Zenon
  <2>6. WholeLine(y, j)[v + 1] = Paren
    BY WholeLineFacts, Zenon
  <2> QED BY <1>1, <2>5, <2>6, Zenon
<1>2. ~(Len(a) < Len(b)) /\ ~(Len(b) < Len(a))
  BY <1>1, Zenon
<1>3. Len(a) = Len(b)
  BY <1>2
<1>4. \A i \in 1 .. Len(a) : a[i] = b[i]
  <2>1. \A i \in 1 .. Len(a) : WholeLine(a, m)[i] = a[i]
    BY WholeLineFacts, Zenon
  <2>2. \A i \in 1 .. Len(b) : WholeLine(b, n)[i] = b[i]
    BY WholeLineFacts, Zenon
  <2> QED BY <1>3, <2>1, <2>2, Zenon
<1>5. a = b
  BY <1>3, <1>4
<1>6. Digits(m) = Digits(n)
  <2> DEFINE u == Len(a)
             x == Digits(m)
             y == Digits(n)
  <2>1. u \in Nat /\ x \in Nat /\ y \in Nat
    BY DigitsCases
  <2>2. u + 1 + x = u + 1 + y
    <3>1. Len(WholeLine(a, m)) = u + 1 + x
      BY WholeLineFacts, Zenon
    <3>2. Len(WholeLine(b, n)) = Len(b) + 1 + y
      BY WholeLineFacts, Zenon
    <3> QED BY <1>3, <3>1, <3>2, Zenon
  <2> HIDE DEF u, x, y
  <2>3. x = y
    BY <2>1, <2>2
  <2> QED BY <2>3 DEF x, y
<1>7. Decimal[m] = Decimal[n]
  <2> DEFINE s == Decimal[m]
             t == Decimal[n]
  <2>1. s \in Seq(Printable \ {Paren}) /\ t \in Seq(Printable \ {Paren})
    BY DecimalType, Zenon
  <2>2. Len(s) = Len(t)
    BY <1>6, Zenon DEF Digits
  <2>3. \A i \in 1 .. Len(s) : s[i] = t[i]
    <3>1. \A i \in 1 .. Digits(m) : WholeLine(a, m)[Len(a) + 1 + i] = s[i]
      BY WholeLineFacts, Zenon
    <3>2. \A i \in 1 .. Digits(n) : WholeLine(b, n)[Len(b) + 1 + i] = t[i]
      BY WholeLineFacts, Zenon
    <3>3. Digits(m) = Len(s)
      BY DEF Digits
    <3> HIDE DEF s, t
    <3> QED BY <1>3, <1>6, <3>1, <3>2, <3>3, Zenon
  <2> HIDE DEF s, t
  <2>4. s = t
    BY <2>1, <2>2, <2>3
  <2> QED BY <2>4 DEF s, t
<1> QED BY <1>5, <1>7, DecimalInjective, Zenon

\* An attachment the parser accepted is shown with its whole name and its whole size.
LEMMA ShownAttachment ==
  ASSUME NEW p \in Seq(Byte), Accepted(p), p[AttAt(p) + 1] = 1
  PROVE  LET e == email_t(p)
         IN  /\ e.att_name \in Seq(Printable) /\ e.att_size \in Nat
             /\ e.att_hash \in Seq(Byte)
             /\ AttachmentLine(e.att_name, e.att_size) = WholeLine(e.att_name, e.att_size)
<1> DEFINE e == email_t(p)
           o == AttAt(p) + 1
           z == AttSizeAt(p)
           a == e.att_name
           n == e.att_size
<1>1. a = TextField(p, o) /\ n = U32(p, z) /\ e.att_hash = Slice(p, z + 4, ATT_HASH_LEN)
  BY EmailFields, Zenon
<1>2. /\ AttAt(p) \in Nat /\ z \in Nat /\ z + 4 + ATT_HASH_LEN = Len(p)
  BY AcceptedEnds, Zenon
<1>3. ATT_HASH_LEN \in Nat /\ MAX_ATT_NAME_LEN \in Nat /\ ATT_LINE_EXTRA \in Nat
  BY LengthAssumption, RadixAssumption, CharAssumption
<1>4. o \in Nat
  BY <1>2
<1>5. read_text_field(p, o, MAX_ATT_NAME_LEN)
  BY AcceptedChecks, Zenon DEF AttachmentOk
<1>6. /\ a \in Seq(Printable) /\ Len(a) <= MAX_ATT_NAME_LEN
      /\ copy_field(MAX_ATT_NAME_LEN + 1, a) = a
  BY <1>1, <1>3, <1>4, <1>5, ShownField, Zenon
<1>7. n \in Nat /\ Digits(n) + 2 <= ATT_LINE_EXTRA
  <2>1. z + 4 <= Len(p)
    <3> HIDE DEF z
    <3> QED BY <1>2, <1>3
  <2> QED BY <1>1, <1>2, <2>1, SizeFits, Zenon
<1>8. e.att_hash \in Seq(Byte)
  <2> HIDE DEF z
  <2>1. z + 4 \in Nat /\ (z + 4) + ATT_HASH_LEN <= Len(p)
    BY <1>2, <1>3
  <2>2. \A i \in (z + 4) + 1 .. (z + 4) + ATT_HASH_LEN : p[i] \in Byte
    BY <1>3, <2>1
  <2>3. Slice(p, z + 4, ATT_HASH_LEN) \in Seq(Byte)
    BY <1>3, <2>1, <2>2, SliceOver
  <2> QED BY <1>1, <2>3, Zenon
<1> HIDE DEF a, n, o, z
<1> DEFINE w == WholeLine(a, n)
           room == MAX_ATT_NAME_LEN + ATT_LINE_EXTRA - 1
<1>9. w \in Seq(Printable) /\ Len(w) = Len(a) + 1 + Digits(n)
  BY <1>6, <1>7, WholeLineFacts, Zenon
<1>10. Len(w) <= room /\ Len(w) \in Nat /\ room \in Int
  <2> DEFINE u == Len(a)
             d == Digits(n)
  <2>1. u \in Nat /\ u <= MAX_ATT_NAME_LEN
    BY <1>6
  <2>2. d \in Nat /\ d + 2 <= ATT_LINE_EXTRA
    BY <1>7, DigitsCases, Zenon
  <2>3. Len(w) = u + 1 + d
    BY <1>9
  <2> HIDE DEF u, d, w
  <2> QED BY <1>3, <2>1, <2>2, <2>3
<1>11. AttachmentLine(a, n) = SubSeq(w, 1, Shorter(Len(w), room))
  BY <1>6, Zenon DEF AttachmentLine, WholeLine
<1> HIDE DEF w, room
<1>12. Shorter(Len(w), room) = Len(w)
  BY <1>10 DEF Shorter
<1>13. SubSeq(w, 1, Len(w)) = w
  BY <1>9
<1>14. AttachmentLine(a, n) = w
  BY <1>11, <1>12, <1>13
<1> QED BY <1>6, <1>7, <1>8, <1>14, Zenon DEF a, n, w

\* What the review shows of an accepted payload: its texts as they are.
LEMMA ShownTexts ==
  ASSUME NEW p \in Seq(Byte), Accepted(p)
  PROVE  LET e == email_t(p)
             r == ReviewPairs(e)
         IN  /\ r.From = e.from /\ r.To = e.to /\ r.Subject = e.subject /\ r.Message = e.body
             /\ r.RequestID = format_hex(e.challenge) /\ e.challenge \in Seq(Byte)
<1> DEFINE e == email_t(p)
           r == ReviewPairs(e)
<1>1. /\ r.From = copy_field(MAX_FROM_LEN + 1, e.from)
      /\ r.To = copy_field(MAX_TO_LEN + 1, e.to)
      /\ r.Subject = copy_field(MAX_SUBJECT_LEN + 1, e.subject)
      /\ r.Message = copy_field(MAX_BODY_LEN + 1, e.body)
      /\ r.RequestID = format_hex(e.challenge)
  <2> HIDE DEF e
  <2> QED BY DEF ReviewPairs
<1>2. /\ e.from = TextField(p, CHALLENGE_LEN) /\ e.to = TextField(p, ToAt(p))
      /\ e.subject = TextField(p, SubjectAt(p)) /\ e.challenge = Slice(p, 0, CHALLENGE_LEN)
  BY EmailFields, Zenon
<1>3. /\ CHALLENGE_LEN \in Nat /\ MAX_FROM_LEN \in Nat /\ MAX_TO_LEN \in Nat
      /\ MAX_SUBJECT_LEN \in Nat
  BY LengthAssumption, RadixAssumption
<1>4. ToAt(p) \in Nat /\ SubjectAt(p) \in Nat /\ CHALLENGE_LEN + 1 <= Len(p)
  BY AcceptedEnds, Zenon
<1>5. /\ read_text_field(p, CHALLENGE_LEN, MAX_FROM_LEN)
      /\ read_text_field(p, ToAt(p), MAX_TO_LEN)
      /\ read_text_field(p, SubjectAt(p), MAX_SUBJECT_LEN)
  BY AcceptedChecks, Zenon
<1> HIDE DEF e, r
<1>6. r.From = e.from
  BY <1>1, <1>2, <1>3, <1>5, ShownField, Zenon
<1>7. r.To = e.to
  BY <1>1, <1>2, <1>3, <1>4, <1>5, ShownField, Zenon
<1>8. r.Subject = e.subject
  BY <1>1, <1>2, <1>3, <1>4, <1>5, ShownField, Zenon
<1>9. r.Message = e.body
  BY <1>1, ShownBody, Zenon DEF e
<1>10. e.challenge \in Seq(Byte)
  <2>1. 0 \in Nat /\ 0 + CHALLENGE_LEN <= Len(p)
    BY <1>3, <1>4
  <2>2. \A i \in 0 + 1 .. 0 + CHALLENGE_LEN : p[i] \in Byte
    BY <1>3, <2>1
  <2>3. Slice(p, 0, CHALLENGE_LEN) \in Seq(Byte)
    BY <1>3, <2>1, <2>2, SliceOver
  <2> QED BY <1>2, <2>3, Zenon
<1> QED BY <1>1, <1>6, <1>7, <1>8, <1>9, <1>10, Zenon DEF e, r

\* "The signature binds the display": two accepted payloads whose review pages are the
\* same, character for character, are the same payload.  No field is cut or ended early
\* (nbgl_display_transaction.c gives each its maximum), and the renderings of sizes,
\* digests and challenges are injective.
THEOREM ReviewDeterminesPayload ==
  ASSUME NEW p \in Seq(Byte), NEW q \in Seq(Byte), Accepted(p), Accepted(q),
         ReviewPairs(email_t(p)) = ReviewPairs(email_t(q))
  PROVE  p = q
<1> DEFINE e == email_t(p)
           f == email_t(q)
           r == ReviewPairs(e)
<1>1. /\ r.From = e.from /\ r.To = e.to /\ r.Subject = e.subject /\ r.Message = e.body
      /\ r.RequestID = format_hex(e.challenge) /\ e.challenge \in Seq(Byte)
  BY ShownTexts, Zenon
<1>2. /\ r.From = f.from /\ r.To = f.to /\ r.Subject = f.subject /\ r.Message = f.body
      /\ r.RequestID = format_hex(f.challenge) /\ f.challenge \in Seq(Byte)
  BY ShownTexts, Zenon
<1>3. e.has_attachment = p[AttAt(p) + 1] /\ f.has_attachment = q[AttAt(q) + 1]
  BY EmailFields, Zenon
<1>4. e.has_attachment \in {0, 1} /\ f.has_attachment \in {0, 1}
  BY <1>3, AcceptedEnds, Zenon
<1>5. ASSUME p[AttAt(p) + 1] = 1
      PROVE  /\ e.att_name \in Seq(Printable) /\ e.att_size \in Nat
             /\ e.att_hash \in Seq(Byte)
             /\ AttachmentLine(e.att_name, e.att_size) = WholeLine(e.att_name, e.att_size)
  BY <1>5, ShownAttachment, Zenon
<1>6. ASSUME q[AttAt(q) + 1] = 1
      PROVE  /\ f.att_name \in Seq(Printable) /\ f.att_size \in Nat
             /\ f.att_hash \in Seq(Byte)
             /\ AttachmentLine(f.att_name, f.att_size) = WholeLine(f.att_name, f.att_size)
  BY <1>6, ShownAttachment, Zenon
<1>7. HeadBytes(e) \o TailBytes(e) = p /\ HeadBytes(f) \o TailBytes(f) = q
  BY AcceptedIsWritten, Zenon
<1>8. r = ReviewPairs(f)
  OBVIOUS
<1> HIDE DEF e, f
<1> DEFINE Shown(m) == IF m.has_attachment # 0
                       THEN <<AttachmentLine(m.att_name, m.att_size), format_hex(m.att_hash)>>
                       ELSE << >>
<1>9. \A m : ReviewPairs(m).Attachment = Shown(m)
  BY DEF ReviewPairs
<1>10. Shown(e) = Shown(f)
  <2> HIDE DEF Shown
  <2> QED BY <1>8, <1>9, Zenon DEF r
<1>11. e.challenge = f.challenge
  BY <1>1, <1>2, HexInjective, Zenon
<1>12. HeadBytes(e) = HeadBytes(f)
  BY <1>1, <1>2, <1>11, Zenon DEF HeadBytes
<1>13. \A x, y : <<x, y>> # << >>
  OBVIOUS
<1>14. \A x, y, u, v : <<x, y>> = <<u, v>> => x = u /\ y = v
  OBVIOUS
<1>15. 0 # 1
  OBVIOUS
<1>16. TailBytes(e) = TailBytes(f)
  <2>1. CASE e.has_attachment = 0 /\ f.has_attachment = 0
    BY <2>1, Zenon DEF TailBytes
  <2>2. CASE e.has_attachment = 1 /\ f.has_attachment = 1
    <3>1. /\ AttachmentLine(e.att_name, e.att_size) = AttachmentLine(f.att_name, f.att_size)
          /\ format_hex(e.att_hash) = format_hex(f.att_hash)
      BY <1>10, <1>14, <1>15, <2>2, Zenon
    <3>2. e.att_hash = f.att_hash
      BY <1>3, <1>5, <1>6, <2>2, <3>1, HexInjective, Zenon
    <3>3. WholeLine(e.att_name, e.att_size) = WholeLine(f.att_name, f.att_size)
      BY <1>3, <1>5, <1>6, <2>2, <3>1, Zenon
    <3>4. e.att_name = f.att_name /\ e.att_size = f.att_size
      <4> DEFINE a == e.att_name
                 b == f.att_name
                 m == e.att_size
                 n == f.att_size
      <4>1. a \in Seq(Printable) /\ m \in Nat
        BY <1>3, <1>5, <2>2, Zenon
      <4>2. b \in Seq(Printable) /\ n \in Nat
        BY <1>3, <1>6, <2>2, Zenon
      <4>3. WholeLine(a, m) = WholeLine(b, n)
        BY <3>3, Zenon
      <4> HIDE DEF a, b, m, n
      <4>4. a = b /\ m = n
        BY <4>1, <4>2, <4>3, WholeLineInjective
      <4> QED BY <4>4, Zenon DEF a, b, m, n
    <3> QED BY <2>2, <3>2, <3>4, Zenon DEF TailBytes
  <2>3. CASE e.has_attachment = 1 /\ f.has_attachment = 0
    BY <1>10, <1>13, <1>15, <2>3, Zenon
  <2>4. CASE e.has_attachment = 0 /\ f.has_attachment = 1
    BY <1>10, <1>13, <1>15, <2>4, Zenon
  <2> QED BY <1>4, <2>1, <2>2, <2>3, <2>4, Zenon
<1> QED BY <1>7, <1>12, <1>16, Zenon
=============================================================================
