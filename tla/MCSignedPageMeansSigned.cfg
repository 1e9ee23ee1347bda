SPECIFICATION FairSpec
CONSTANTS
  Radix = 5
  CHALLENGE_LEN = 1
  MAX_FROM_LEN = 2
  MAX_TO_LEN = 1
  MAX_SUBJECT_LEN = 2
  MAX_BODY_LEN = 6
  MAX_ATT_NAME_LEN = 2
  ATT_HASH_LEN = 1
  MAX_TX_LEN = 11
  Printable <- MCPrintable
  Newline = 1
  HexBase = 3
  Numerals <- MCNumerals
  Paren = 4
  ATT_LINE_EXTRA = 12
  MAX_TRANSACTION_LEN = 11
  P1_MAX = 1
  P1s <- MCP1s
  P2s <- MCP2s
  Chunks <- WholePayloads
  Paths = {path1}
  TruncatedPath = TruncatedPath
  NoPath = NoPath
PROPERTY
  SignedPageMeansSigned
