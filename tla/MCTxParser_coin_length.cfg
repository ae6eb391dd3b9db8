SPECIFICATION Spec
CONSTANTS
  SizeMod = 64
  MAX_TX_LEN = 40
  PREFIX_RAW_TX_HASHED <- Prefix
  PREFIX_RAW_TX_WITH_DATA_HASHED <- PrefixWithData
  TX_HASHED_PREFIX_LEN = 2
  ADDRESS_LEN = 2
  U64_LEN = 1
  AptosAccount <- MCAptosAccount
  Coin <- MCCoin
  Transfer <- MCTransfer
  Radix = 16
  MaxGroups = 2
  UINT32_MAX = 127
  RawTxs <- MCRawTxs
  Transactions <- MCTransactions
CHECK_DEADLOCK FALSE
INVARIANTS
  CoinTransferIsEncoding
