-------------------------- MODULE MCHardMailDevice --------------------------
(* One payload in one chunk, one path, one token, in the alphabet of       *)
(* MCEmailChannel.                                                         *)
EXTENDS HardMailDevice

CONSTANTS usdc, USDC, NEWT

MCPrintable == {2, 3, 4}
MCNumerals == <<2, 3>>
MCP1s == {0, 1}
MCP2s == {0, 128}
MCChunks == {<<0, 1, 2, 1, 3, 1, 2, 0, 1, 3, 0>>}

MCSwitchPage ==
  [s \in {"DUMMY_SWITCH_1", "DUMMY_SWITCH_2"} |-> IF s = "DUMMY_SWITCH_1" THEN 0 ELSE 1]
MCTOKENS == [a \in {usdc} |-> [ticker |-> USDC, decimals |-> 12]]
MCMagnitudes == {0}

\* A descriptor that is accepted, one that is not signed, one that names no token.
Good ==
  [verified |-> TRUE, coin_type |-> "SLIP44",
   TUID |-> <<[tag |-> "TAG_TOKEN_ADDRESS", value |-> usdc]>>, ticker |-> NEWT,
   magnitude |-> 0]
MCSent ==
  {Good, [Good EXCEPT !.verified = FALSE], [Good EXCEPT !.TUID = << >>]}
=============================================================================
