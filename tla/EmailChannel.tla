--------------------------- MODULE EmailChannel ---------------------------
(***************************************************************************)
(* An email is written to its wire form and, on its way to the device,     *)
(* bytes are changed, inserted or lost.  The device parses what arrives    *)
(* and, if the parser accepts it, shows it.  This is the environment of    *)
(* the codec: what tests/standalone/test_sign_cmd.py and the unit tests do *)
(* by hand to single bytes of single payloads.                             *)
(***************************************************************************)
EXTENDS EmailCodec

CONSTANTS
  Emails,    \* the emails written, as email_t records
  OUT_LEN,   \* size of the buffer handed to transaction_serialize
  MaxEdits   \* bound on the number of bytes changed on the way

ASSUME ChannelAssumption == OUT_LEN \in Nat /\ MaxEdits \in Nat
ASSUME EmailsAssumption ==
  \A m \in Emails :
    /\ m \in EmailRecords /\ FitsWidths(m)
    /\ m.has_attachment = 1 => Len(m.att_hash) = ATT_HASH_LEN

VARIABLES
  email,     \* the email that was written
  wire,      \* its payload, as it is after the edits so far
  edits      \* how many edits were made

vars == <<email, wire, edits>>

\* The payload the writer produced.
Written == transaction_serialize(email, OUT_LEN)

Init ==
  /\ email \in Emails
  /\ wire = transaction_serialize(email, OUT_LEN)
  /\ edits = 0

Deliver(w) ==
  /\ edits < MaxEdits
  /\ wire' = w
  /\ edits' = edits + 1
  /\ UNCHANGED email

Substitute ==
  \E i \in 1 .. Len(wire), b \in Byte : wire[i] # b /\ Deliver([wire EXCEPT ![i] = b])

Insert ==
  \E i \in 0 .. Len(wire), b \in Byte :
    Deliver(SubSeq(wire, 1, i) \o <<b>> \o SubSeq(wire, i + 1, Len(wire)))

Lose ==
  \E i \in 1 .. Len(wire) :
    Deliver(SubSeq(wire, 1, i - 1) \o SubSeq(wire, i + 1, Len(wire)))

Next == Substitute \/ Insert \/ Lose

Spec == Init /\ [][Next]_vars

-----------------------------------------------------------------------------
\* Whatever bytes arrive, a payload the parser accepts is the canonical form of the
\* email it was parsed into: writing that email again needs exactly as many bytes and
\* yields exactly the same ones (deserialize.c and serialize.c mirror each other, so
\* no accepted byte is ignored and none is interpreted twice).
RoundTrip ==
  Accepted(wire) => transaction_serialize(email_t(wire), Len(wire)) = wire

\* "The signature binds the display" (README.md): if the review pages of what arrived
\* are, character for character, those of the email that was written, then the bytes
\* are the same, so a signature over them approves the email the human read.  No field
\* is truncated, ended early by a NUL, or rendered like a different value.
DisplayDeterminesPayload ==
  (Accepted(wire) /\ Accepted(Written)
     /\ ReviewPairs(email_t(wire)) = ReviewPairs(email_t(Written)))
    => wire = Written

IsProperPrefix(p, q) == Len(p) < Len(q) /\ \A i \in 1 .. Len(p) : p[i] = q[i]

\* Exact fit: no accepted payload is a proper prefix of another, so a flow whose payload
\* was accepted can only be continued into payloads that are refused (deserialize.c
\* requires offset == size after the last field).
PrefixFree ==
  (Accepted(wire) /\ Accepted(Written)) =>
    ~IsProperPrefix(wire, Written) /\ ~IsProperPrefix(Written, wire)

\* The limits of tx_types.h on the fields of an email.
FieldsWithinLimits(m) ==
  /\ Len(m.from) \in 1 .. MAX_FROM_LEN
  /\ Len(m.to) \in 1 .. MAX_TO_LEN
  /\ Len(m.subject) \in 1 .. MAX_SUBJECT_LEN
  /\ Len(m.body) \in 1 .. MAX_BODY_LEN
  /\ m.has_attachment = 1 => Len(m.att_name) \in 1 .. MAX_ATT_NAME_LEN

\* Text the parser has no objection to.
PlainText(m) ==
  /\ m.from \in Seq(Printable) /\ m.to \in Seq(Printable) /\ m.subject \in Seq(Printable)
  /\ m.body \in Seq(Printable \cup {Newline})
  /\ m.has_attachment = 1 => m.att_name \in Seq(Printable)

\* Every length limit at its exact boundary: an email of printable text that was written is
\* accepted by transaction_deserialize iff each field is non-empty and at most its maximum,
\* and the payload is at most MAX_TX_LEN bytes.
AcceptedIffWithinLimits ==
  (edits = 0 /\ wire # << >> /\ PlainText(email)) =>
    (Accepted(wire) <=> FieldsWithinLimits(email) /\ Len(wire) <= MAX_TX_LEN)
=============================================================================
