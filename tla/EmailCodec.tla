---------------------------- MODULE EmailCodec ----------------------------
(***************************************************************************)
(* The email payload a HardMail device signs: its wire format, the parser  *)
(* (transaction/deserialize.c), the writer (transaction/serialize.c) and   *)
(* the text the review pages show for it (ui/nbgl_display_transaction.c).  *)
(*                                                                         *)
(* A payload is a sequence of bytes 0 .. Radix-1 (Radix is 256 on the      *)
(* device).  A buffer_t is its payload and an offset o, the number of      *)
(* bytes already consumed, so the next byte is p[o + 1].                   *)
(***************************************************************************)
EXTENDS Integers, Sequences

CONSTANTS
  Radix,             \* number of values of a byte
  CHALLENGE_LEN, MAX_FROM_LEN, MAX_TO_LEN, MAX_SUBJECT_LEN, MAX_BODY_LEN,
  MAX_ATT_NAME_LEN, ATT_HASH_LEN, MAX_TX_LEN,
  Printable,         \* bytes 0x20 .. 0x7e
  Newline,           \* the byte '\n'
  HexBase,           \* base of format_hex: one byte is two digits
  Numerals,          \* the characters %u writes, in increasing order
  Paren,             \* the character that opens " (%u bytes)"
  ATT_LINE_EXTRA     \* room g_attachment has beyond the name

Byte == 0 .. Radix - 1

ASSUME RadixAssumption == Radix \in Nat /\ Radix >= 2
ASSUME LengthAssumption ==
  /\ CHALLENGE_LEN \in Nat \ {0} /\ ATT_HASH_LEN \in Nat \ {0} /\ MAX_TX_LEN \in Nat
  /\ MAX_FROM_LEN \in 1 .. Radix - 1 /\ MAX_TO_LEN \in 1 .. Radix - 1
  /\ MAX_SUBJECT_LEN \in 1 .. Radix - 1 /\ MAX_ATT_NAME_LEN \in 1 .. Radix - 1
  /\ MAX_BODY_LEN \in 1 .. Radix * Radix - 1
ASSUME CharAssumption ==
  /\ Printable \subseteq Byte \ {0}
  /\ Newline \in Byte \ ({0} \cup Printable)
  /\ Paren \in Printable
  /\ HexBase \in Nat /\ HexBase >= 2 /\ Radix <= HexBase * HexBase
  /\ Numerals \in Seq(Printable \ {Paren}) /\ Len(Numerals) >= 2
  /\ \A i, j \in 1 .. Len(Numerals) : Numerals[i] = Numerals[j] => i = j
  /\ ATT_LINE_EXTRA \in Nat \ {0}

-----------------------------------------------------------------------------
\* The SDK's buffer_t reads (outside src/): buffer_seek_cur and the integer reads
\* fail when fewer than n bytes are left; multi-byte integers are big-endian.
CanRead(p, o, n) == o + n <= Len(p)
U16(p, o) == p[o + 1] * Radix + p[o + 2]
U32(p, o) == U16(p, o) * Radix * Radix + U16(p, o + 2)

-----------------------------------------------------------------------------
\* Mutant: only the upper bound of the printable range is tested.
text_ok_no_lower_bound(p, o, len, allow_newline) ==
  \A i \in o + 1 .. o + len : p[i] \in Printable \cup {0}

\* Printable ASCII only; the body may also contain newlines.
text_ok(p, o, len, allow_newline) ==
  \A i \in o + 1 .. o + len :
    \/ p[i] \in Printable
    \/ allow_newline /\ p[i] = Newline

\* Mutant: the maximum itself is refused.
read_text_field_strict(p, o, max_len) ==
  /\ CanRead(p, o, 1)
  /\ p[o + 1] # 0 /\ p[o + 1] < max_len
  /\ CanRead(p, o + 1, p[o + 1])
  /\ text_ok(p, o + 1, p[o + 1], FALSE)

\* A u8 length within 1 .. max_len, that many bytes, all of them printable.
read_text_field(p, o, max_len) ==
  /\ CanRead(p, o, 1)
  /\ p[o + 1] # 0 /\ p[o + 1] <= max_len
  /\ CanRead(p, o + 1, p[o + 1])
  /\ text_ok(p, o + 1, p[o + 1], FALSE)

\* Where read_text_field leaves the offset.
FieldEnd(p, o) == o + 1 + p[o + 1]

\* The offset of each part of a payload, as the parser reaches it.
ToAt(p) == FieldEnd(p, CHALLENGE_LEN)
SubjectAt(p) == FieldEnd(p, ToAt(p))
BodyAt(p) == FieldEnd(p, SubjectAt(p))
AttAt(p) == BodyAt(p) + 2 + U16(p, BodyAt(p))
AttSizeAt(p) == FieldEnd(p, AttAt(p) + 1)
EndAt(p) ==
  IF p[AttAt(p) + 1] = 1 THEN AttSizeAt(p) + 4 + ATT_HASH_LEN ELSE AttAt(p) + 1

\* The two-byte length and the text of the body.
BodyInBounds(p, o) ==
  /\ CanRead(p, o, 2)
  /\ U16(p, o) # 0 /\ U16(p, o) <= MAX_BODY_LEN
  /\ CanRead(p, o + 2, U16(p, o))

\* The name, size and digest of the one attachment.
AttachmentOk(p, o) ==
  /\ read_text_field(p, o, MAX_ATT_NAME_LEN)
  /\ CanRead(p, FieldEnd(p, o), 4)
  /\ CanRead(p, FieldEnd(p, o) + 4, ATT_HASH_LEN)

\* Mutant: bytes may follow the last field.
ExactFit_trailing(p) == EndAt(p) <= Len(p)

\* The last check of the parser: no trailing bytes.
ExactFit(p) == EndAt(p) = Len(p)

\* The parser's status: the first check that fails decides.
transaction_deserialize(p) ==
  IF Len(p) > MAX_TX_LEN THEN "WRONG_LENGTH_ERROR"
  ELSE IF ~CanRead(p, 0, CHALLENGE_LEN) THEN "CHALLENGE_PARSING_ERROR"
  ELSE IF ~read_text_field(p, CHALLENGE_LEN, MAX_FROM_LEN) THEN "FROM_PARSING_ERROR"
  ELSE IF ~read_text_field(p, ToAt(p), MAX_TO_LEN) THEN "TO_PARSING_ERROR"
  ELSE IF ~read_text_field(p, SubjectAt(p), MAX_SUBJECT_LEN) THEN "SUBJECT_PARSING_ERROR"
  ELSE IF ~BodyInBounds(p, BodyAt(p)) THEN "BODY_PARSING_ERROR"
  ELSE IF ~text_ok(p, BodyAt(p) + 2, U16(p, BodyAt(p)), TRUE) THEN "FIELD_ENCODING_ERROR"
  ELSE IF ~CanRead(p, AttAt(p), 1) \/ p[AttAt(p) + 1] > 1 THEN "ATTACHMENT_PARSING_ERROR"
  ELSE IF p[AttAt(p) + 1] = 1 /\ ~AttachmentOk(p, AttAt(p) + 1)
       THEN "ATTACHMENT_PARSING_ERROR"
  ELSE IF ExactFit(p) THEN "PARSING_OK" ELSE "WRONG_LENGTH_ERROR"

Accepted(p) == transaction_deserialize(p) = "PARSING_OK"

-----------------------------------------------------------------------------
Slice(p, o, len) == SubSeq(p, o + 1, o + len)
TextField(p, o) == Slice(p, o + 1, p[o + 1])

\* The email_t the parser fills in for a payload it accepts.  Its pointers refer
\* into the payload, so its fields are slices of it.
email_t(p) ==
  LET to == ToAt(p)
      subject == FieldEnd(p, to)
      body == FieldEnd(p, subject)
      att == body + 2 + U16(p, body)
      size == FieldEnd(p, att + 1)
      attached == p[att + 1] = 1
  IN  [challenge |-> Slice(p, 0, CHALLENGE_LEN),
       from      |-> TextField(p, CHALLENGE_LEN),
       to        |-> TextField(p, to),
       subject   |-> TextField(p, subject),
       body      |-> Slice(p, body + 2, U16(p, body)),
       has_attachment |-> p[att + 1],
       att_name  |-> IF attached THEN TextField(p, att + 1) ELSE << >>,
       att_size  |-> IF attached THEN U32(p, size) ELSE 0,
       att_hash  |-> IF attached THEN Slice(p, size + 4, ATT_HASH_LEN) ELSE << >>]

\* The fields of an email_t, and the widths of its lengths and of its size: uint8_t for
\* the texts, uint16_t for the body, uint32_t for the size.
EmailRecords ==
  [challenge : Seq(Byte), from : Seq(Byte), to : Seq(Byte), subject : Seq(Byte),
   body : Seq(Byte), has_attachment : {0, 1},
   att_name : Seq(Byte), att_size : Nat, att_hash : Seq(Byte)]
FitsWidths(m) ==
  /\ Len(m.challenge) = CHALLENGE_LEN
  /\ Len(m.from) < Radix /\ Len(m.to) < Radix /\ Len(m.subject) < Radix
  /\ Len(m.body) < Radix * Radix
  /\ m.has_attachment = 1 =>
       Len(m.att_name) < Radix /\ m.att_size \div (Radix * Radix) < Radix * Radix

\* A length or a size, cut down to the width of the field that carries it.
LowDigit(n) == n % Radix
Prefixed(s) == <<LowDigit(Len(s))>> \o s

\* Mutant: the two bytes of the body length are swapped.
BodyLength_swapped(n) == <<LowDigit(n), LowDigit(n \div Radix)>>

\* The big-endian u16 length of the body.
BodyLength(n) == <<LowDigit(n \div Radix), LowDigit(n)>>

\* The big-endian u32 size of the attachment.
SizeBytes(n) ==
  <<LowDigit(n \div (Radix * Radix * Radix)), LowDigit(n \div (Radix * Radix)),
    LowDigit(n \div Radix), LowDigit(n)>>

\* The parts every payload has, and the attachment.
HeadBytes(tx) ==
  tx.challenge \o Prefixed(tx.from) \o Prefixed(tx.to) \o Prefixed(tx.subject)
    \o BodyLength(Len(tx.body)) \o tx.body
TailBytes(tx) ==
  IF tx.has_attachment # 0
  THEN <<1>> \o Prefixed(tx.att_name) \o SizeBytes(tx.att_size) \o tx.att_hash
  ELSE <<0>>

\* The bytes written for an email, << >> for the return value -1 (they do not fit).
transaction_serialize(tx, out_len) ==
  IF Len(HeadBytes(tx) \o TailBytes(tx)) > out_len THEN << >>
  ELSE HeadBytes(tx) \o TailBytes(tx)

-----------------------------------------------------------------------------
Shorter(m, n) == IF m < n THEN m ELSE n

\* What NBGL renders of a character array: the bytes before the first NUL.
CString(s) ==
  LET nul == {i \in 1 .. Len(s) : s[i] = 0}
  IN  IF nul = {} THEN s
      ELSE SubSeq(s, 1, (CHOOSE i \in nul : \A j \in nul : i <= j) - 1)

\* Copies at most dst_sz - 1 bytes and terminates them.
copy_field(dst_sz, src) == CString(SubSeq(src, 1, Shorter(Len(src), dst_sz - 1)))

\* Two digits per byte, high one first.
format_hex(s) ==
  [i \in 1 .. 2 * Len(s) |->
     IF i % 2 = 1 THEN s[(i + 1) \div 2] \div HexBase ELSE s[i \div 2] % HexBase]

\* %u: most significant numeral first, no leading zero.
Decimal[n \in Nat] ==
  LET last == <<Numerals[(n % Len(Numerals)) + 1]>>
  IN  IF n < Len(Numerals) THEN last ELSE Decimal[n \div Len(Numerals)] \o last

\* g_attachment has room for any uint32_t: its halves are numbers below Radix * Radix.
ASSUME AttachmentLineAssumption ==
  2 * Len(Decimal[Radix * Radix - 1]) + 2 <= ATT_LINE_EXTRA

\* snprintf(g_attachment, sizeof g_attachment, "%s (%u bytes)", name, size); of the
\* fixed wording only the parenthesis before the number is kept.
AttachmentLine(name, size) ==
  LET line == copy_field(MAX_ATT_NAME_LEN + 1, name) \o <<Paren>> \o Decimal[size]
  IN  SubSeq(line, 1, Shorter(Len(line), MAX_ATT_NAME_LEN + ATT_LINE_EXTRA - 1))

\* The tag/value pairs of the review; an email without attachment has none of the
\* two attachment pairs (attachment = << >>).
ReviewPairs(email) ==
  [From    |-> copy_field(MAX_FROM_LEN + 1, email.from),
   To      |-> copy_field(MAX_TO_LEN + 1, email.to),
   Subject |-> copy_field(MAX_SUBJECT_LEN + 1, email.subject),
   Message |-> copy_field(MAX_BODY_LEN + 1, email.body),
   Attachment |-> IF email.has_attachment # 0
                  THEN <<AttachmentLine(email.att_name, email.att_size),
                         format_hex(email.att_hash)>>
                  ELSE << >>,
   RequestID  |-> format_hex(email.challenge)]
=============================================================================
