SPECIFICATION Spec
CONSTANTS
  usdc = usdc
  other = other
  USDC = USDC
  NEWT = NEWT
  Addresses = {usdc, other}
  NoAddress = NoAddress
  BadLength = BadLength
  Tickers = {USDC, NEWT}
  NoTicker = NoTicker
  Magnitudes <- MCMagnitudes
  TOKENS <- MCTOKENS
  NotFound = NotFound
INVARIANTS
  TypeOK
  LookupIsOfOneDescriptor
