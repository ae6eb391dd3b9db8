SPECIFICATION Spec
CONSTANTS
  NoData = NoData
  coin = coin
  call = call
  script = script
  data = data
  half1 = half1
  half2 = half2
  note = note
  tail = tail
  good = good
  long = long
  short = short
  Data <- MCData
  ChunkBytes <- MCChunkBytes
  Paths <- MCPaths
  NoPath <- MCNoPath
  PathRead <- MCPathRead
  Derivable <- MCDerivable
  SignOutcomes = {"ok", "error"}
  HostCommands <- MCHostCommands
  Verdict <- MCVerdict
  MaxChunks = 2
  MaxReviews = 2
  SizeMod = 128
  MAX_TX_LEN = 60
  PREFIX_RAW_TX_HASHED <- Prefix
  PREFIX_RAW_TX_WITH_DATA_HASHED <- PrefixWithData
  TX_HASHED_PREFIX_LEN = 4
  ADDRESS_LEN = 4
  U64_LEN = 3
  AptosAccount <- MCAptosAccount
  Coin <- MCCoin
  Transfer <- MCTransfer
  Radix = 16
  MaxGroups = 2
  UINT32_MAX = 127
  Transactions <- MCTransactions
  UINT64_MAX = 32767
  MaxDigits = 5
  MAX_BIP32_PATH = 3
  NUL = NUL
  AmountSize = 11
  PathSize = 8
  AddressSize = 11
  FunctionSize = 13
  StructSize = 24
  Decimals = 4
  TypeText <- MCTypeText
  Char <- MCChar
  AddressOf <- MCAddressOf
INVARIANTS
  ReviewsAgree
  FeeIsSigned
PROPERTY AnsweredAsShown
