---------------------------- MODULE ClearSigning ----------------------------
(***************************************************************************)
(* What the device promises its user, without the protocol that does it:   *)
(* at most one document is on the trusted screen, and the only documents   *)
(* it ever signs are documents that were on the screen at that moment.     *)
(***************************************************************************)
CONSTANT NoDocument

VARIABLES
  document,   \* the document on the screen, NoDocument when there is none
  approved    \* the documents that were signed

Init == document = NoDocument /\ approved = {}

Show ==
  /\ document = NoDocument
  /\ document' # NoDocument
  /\ UNCHANGED approved

Sign ==
  /\ document # NoDocument
  /\ approved' = approved \cup {document}
  /\ document' = NoDocument

\* Rejected, failed or interrupted.
Dismiss ==
  /\ document # NoDocument
  /\ document' = NoDocument
  /\ UNCHANGED approved

Next == Show \/ Sign \/ Dismiss

Spec == Init /\ [][Next]_<<document, approved>>
=============================================================================
