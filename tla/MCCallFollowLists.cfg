SPECIFICATION FairSpec
CONSTANTS
  Sites <- MCSites
  Receivers <- TwoReceivers
  Tgids = {t1, t2}
  HomeOf <- MCHomeOf
  CCCount <- OneCC
  CCTimeoutRetries = 1
  VCTimeoutRetries = 1
  NoRx = NoRx
  NoSite = NoSite
  NoTg = NoTg
  Prio <- MCPrio
  HoldTime = 1
  SkipTime = 1
  CryptSkips = TRUE
  EarlyGrants = FALSE
  Database = TRUE
  FileBlack = {}
  FileWhite = {t1, t2}
  Commands = {"skip", "lockout"}
  a = a
  t1 = t1
  t2 = t2
PROPERTIES ListsRespected 
