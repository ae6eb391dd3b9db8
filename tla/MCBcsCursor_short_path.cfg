SPECIFICATION BcsSpec
CONSTANTS
  SizeMod = 64
  MaxSize = 18
  Arguments <- MCArguments
  MAX_BIP32_PATH = 12
  Radix = 16
  MaxGroups = 2
  UINT32_MAX = 63
  MAX_SEQUENCE_LENGTH = 31
  ADDRESS_LEN = 17
  PointerSize = 4
  Lengths <- MCLengths
  OutSizes <- MCOutSizes
INVARIANTS
  ShortPathRefused
