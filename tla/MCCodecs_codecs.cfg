SPECIFICATION Spec
CONSTANTS
  UINT64_MAX = 65535
  MaxDigits = 5
  MAX_BIP32_PATH = 3
  NUL = NUL
  ByteRange = 4
  MAX_DEC_INPUT_SIZE = 9
  MAX_ENC_INPUT_SIZE = 8
  Calls <- MCCalls
  Fill = 3
CHECK_DEADLOCK FALSE
INVARIANTS
  WordsKept
  VarintKept
  Base58Kept
  Utf8Accepted
  NumberFormatted
