SPECIFICATION Spec
CONSTANTS
  UINT64_MAX = 65535
  MaxDigits = 5
  MAX_BIP32_PATH = 3
  NUL = NUL
  AmountSize = 11
  PathSize = 7
  AddressSize = 7
  FunctionSize = 12
  StructSize = 18
  Decimals = 4
  ADDRESS_LEN = 2
  TypeText <- MCTypeText
  Char <- MCChar
  AddressOf <- MCAddressOf
  Paths <- MCPaths
  Reviewed <- MCReviewed
INVARIANT PathShownWhole
