---------------------------- MODULE MCTokenInfo ----------------------------
EXTENDS TokenInfo

CONSTANTS usdc, other, USDC, NEWT

\* One hardcoded token, and one address only a descriptor can name.
MCTOKENS == [a \in {usdc} |-> [ticker |-> USDC, decimals |-> 12]]
MCMagnitudes == {0, 12}
============================================================================
