SPECIFICATION Spec
CONSTANTS
  NULL = NULL
  Radix = 4
  U64_LEN = 2
  ADDRESS_LEN = 1
  EXPONENT_SMALLEST_UNIT = 3
  MAX_FPU_DECIMALS = 27
  Malformed = Malformed
  Destinations <- MCDestinations
  Amounts <- MCAmounts
  Fees <- MCFees
  Tickers <- MCTickers
  Configs <- MCConfigs
  Values <- MCValues
  Addresses <- MCAddresses
  path1 = path1
  path2 = path2
  Paths = {path1, path2}
  TruncatedPath = TruncatedPath
  AddressOf <- MCAddressOf
INVARIANTS
  TypeOK
  SignedAsShown
  SessionSignsOnce
  ConfirmedAddressIsDerived
