SPECIFICATION Spec
CONSTANTS
  Radix = 256
  CHALLENGE_LEN = 16
  MAX_FROM_LEN = 128
  MAX_TO_LEN = 128
  MAX_SUBJECT_LEN = 200
  MAX_BODY_LEN = 2048
  MAX_ATT_NAME_LEN = 64
  ATT_HASH_LEN = 32
  MAX_TX_LEN = 2600
  Printable <- MCPrintable
  Newline = 10
  HexBase = 16
  Numerals <- MCNumerals
  Paren = 40
  ATT_LINE_EXTRA = 40
  Emails <- MCEmails
  OUT_LEN = 4096
  MaxEdits = 0
INVARIANTS
  AcceptedIffWithinLimits
CHECK_DEADLOCK FALSE
