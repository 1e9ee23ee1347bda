-------------------------- MODULE MCSigningClient --------------------------
(* The alphabet of MCEmailChannel; chunks of 9 bytes, of which raw_tx      *)
(* holds two.                                                              *)
EXTENDS SigningClient

MCPrintable == {2, 3, 4}
MCNumerals == <<2, 3>>
MCP1s == 0 .. 3
MCP2s == {0, 1, 128}

Plain(from, subject, body) ==
  [challenge |-> <<0>>, from |-> from, to |-> <<3>>, subject |-> subject, body |-> body,
   has_attachment |-> 0, att_name |-> << >>, att_size |-> 0, att_hash |-> << >>]

\* Its payload is two chunks and fills raw_tx.
WithFile(from) ==
  [Plain(from, <<2>>, <<3>>) EXCEPT
     !.has_attachment = 1, !.att_name = <<2>>, !.att_size = 7, !.att_hash = <<4>>]

\* Its payload is three chunks, one more than raw_tx holds.
Long == Plain(<<2>>, <<2, 2>>, [i \in 1 .. 16 |-> 3])

\* One the device reviews, one it has no room for, one the client refuses.
MCEmails == {WithFile(<<2>>), Long, Plain(<<2>>, << >>, <<3>>)}

ChunksOf(m) ==
  {split_message(serialize(m), MAX_APDU_LEN, i) : i \in 1 .. P1_MAX} \ {<< >>}

\* Other programs sign the first email too, and one that differs from it in its first
\* chunk only, so that the chunks of two calls can make up an email.
MCOtherChunks == ChunksOf(WithFile(<<2>>)) \cup ChunksOf(WithFile(<<3>>))

MCChunks == MCOtherChunks \cup ChunksOf(Long)

\* What steps and properties of the composition depend on: no guard reads the last reply,
\* the address buffer or the histories of what was sent.
MCView == <<running, G_context, page, g_review, pending, reviews, client, intruded>>
=============================================================================
