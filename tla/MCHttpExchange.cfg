SPECIFICATION Spec
CONSTANTS
  None = None
  NoPage = NoPage
  Hex <- HexByte
  Number <- NumberAt
  Boundary <- BoundaryDef
  Disposition <- DispositionDef
  Packed <- Pack
  Files <- FilesDef
  Pages <- PagesDef
  Exchanges <- ExchangesDef
  Compressors = {"gzip"}
  PartialMin = 4
  MaxHeader = 14
  Taken = {0, 1, 3}
  Width = 256
  Sizes = {1, 6, 7, 11, 13}
  MaxPlain = 64
  ExtraMin = 20
CHECK_DEADLOCK FALSE
INVARIANTS BodyAsSent BodyAsOne AnswerInFull AnswerAsAnnounced
