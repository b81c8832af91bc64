SPECIFICATION FairSpec
CONSTANTS
  a = a
  b = b
  Conn = {a, b}
  Texts <- ManyTexts
  Prefix <- Prefixes
  Welcome <- WelcomeLine
  Err <- ErrLine
  Slash <- SlashByte
  Space <- SpaceByte
  Exit <- ExitLine
  Newlines <- NewlineBytes
  MaxTextLen = 3
  MinLimit = 2
  MaxLimit = 5
  DefaultLimit = 3
  Setups <- TwoSetups
  Claimers = {a}
  Typists = {a}
  Leavers = {a}
  MaxTexts = 2
  ChunkSizes <- Pieces
INVARIANTS LineInv LinkInv TypedIsStored RelayedInOrder ServerFitsGateway
PROPERTIES IsChannel AllRelayed LossIsSeen
CHECK_DEADLOCK FALSE
