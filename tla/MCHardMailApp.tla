--------------------------- MODULE MCHardMailApp ---------------------------
(* Payloads of 11 bytes in the alphabet of MCEmailChannel: 0 = NUL,        *)
(* 1 = newline, 2 and 3 = numerals, 4 = '('.                               *)
EXTENDS HardMailApp

MCPrintable == {2, 3, 4}
MCNumerals == <<2, 3>>
MCP1s == {0, 1, 2}
MCP2s == {0, 1, 128}

\* challenge, from, to and the length of the subject
FirstPart == <<0, 1, 2, 1, 3, 1>>
\* the subject, two different bodies, "no attachment"
LastPartA == <<2, 0, 1, 3, 0>>
LastPartB == <<2, 0, 1, 2, 0>>

\* The parts of two payloads; a last part also serves to extend a payload that is
\* complete.
MCChunks == {FirstPart, LastPartA, LastPartB}

\* Each payload in one chunk.
WholePayloads == {FirstPart \o LastPartA, FirstPart \o LastPartB}
============================================================================
