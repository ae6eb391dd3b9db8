SPECIFICATION FairSpec
CONSTANTS
  a = a b = b good = good long = long far = far short = short
  pGood = pGood pLong = pLong pFar = pFar pPart = pPart
  NoData = NoData NoPath = NoPath
  Data <- MCData
  DataLen <- MCDataLen
  Paths <- MCPaths
  PathRead <- MCPathRead
  Unformattable = {pLong}
  Derivable = {pGood, pLong, pPart}
  MaxTxLen = 3
  Verdict <- MCVerdict
  SignOutcomes = {"ok", "error"}
  HostCommands <- OrderlyHost
INVARIANTS
  TypeOK
  RecvNeverFails
  TxFitsBuffer
  ReviewMatchesContext
  ReviewHasRequest
  OnlyAnswersOnWire
  AnswerFitsCommand
PROPERTIES
  HandlerStaysInLoop
  ServiceSpec
  EveryCommandAnswered
