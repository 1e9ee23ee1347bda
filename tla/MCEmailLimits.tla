--------------------------- MODULE MCEmailLimits ---------------------------
(* The device's own constants: every field at 0, 1, its maximum and one     *)
(* more, without and with an attachment.                                    *)
EXTENDS EmailChannel

MCPrintable == 32 .. 126
MCNumerals == <<48, 49, 50, 51, 52, 53, 54, 55, 56, 57>>

\* n times the letter 'a'.
Run(n) == [i \in 1 .. n |-> 97]

Around(max) == {0, 1, max, max + 1}

Plain(f, t, s, b) ==
  [challenge |-> Run(CHALLENGE_LEN), from |-> Run(f), to |-> Run(t),
   subject |-> Run(s), body |-> Run(b),
   has_attachment |-> 0, att_name |-> << >>, att_size |-> 0, att_hash |-> << >>]

Attached(m, n) ==
  [m EXCEPT !.has_attachment = 1, !.att_name = Run(n), !.att_size = 65535,
            !.att_hash = Run(ATT_HASH_LEN)]

PlainEmails ==
  {Plain(f, t, s, b) : f \in Around(MAX_FROM_LEN), t \in Around(MAX_TO_LEN),
                       s \in Around(MAX_SUBJECT_LEN), b \in Around(MAX_BODY_LEN)}

\* 37 and 38: the longest name that fits MAX_TX_LEN when every other field is at its
\* maximum, and the shortest that does not.
AttachedEmails ==
  {Attached(Plain(f, f, s, b), n) :
     f \in {1, MAX_FROM_LEN}, s \in {1, MAX_SUBJECT_LEN}, b \in {1, MAX_BODY_LEN},
     n \in Around(MAX_ATT_NAME_LEN) \cup {37, 38}}

MCEmails == PlainEmails \cup AttachedEmails
============================================================================
