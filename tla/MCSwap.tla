------------------------------- MODULE MCSwap -------------------------------
(* An address is one byte, an amount at most two bytes of four values.     *)
EXTENDS Swap

CONSTANTS path1, path2

\* "A1" and "B2", as digits
AddressA == <<10, 1>>
AddressB == <<11, 2>>
MCAddresses == {AddressA, AddressB}
MCAddressOf == [path \in Paths |-> IF path = path1 THEN AddressA ELSE AddressB]

\* "A1", "a1", "B2", "00" and a text that is too short
MCDestinations == {<<65, 49>>, <<97, 49>>, <<66, 50>>, <<48, 48>>, <<65>>, NULL}
\* 1, 1 with a leading zero, 4, and 16, which takes three bytes
MCAmounts == {<<1>>, <<0, 1>>, <<1, 0>>, <<1, 0, 0>>, NULL}
MCFees == {<<1>>, <<0, 0, 1>>, NULL}
MCTickers == {"BOL", "USDC"}
MCConfigs == {NULL, Malformed, [ticker |-> "BOL", decimals |-> 3],
              [ticker |-> "BOL", decimals |-> 2], [ticker |-> "USDC", decimals |-> 30]}
MCValues == {0, 1, 4}
=============================================================================
