SPECIFICATION Spec
CONSTANTS
  Sites <- MCSites
  Receivers <- TwoReceivers
  Tgids = {t1, t2}
  HomeOf <- MCHomeOf
  CCCount <- OneCC
  CCTimeoutRetries = 1
  VCTimeoutRetries = 1
  NoRx = NoRx
  NoSite = NoSite
  NoTg = NoTg
  Prio <- MCPrio
  HoldTime = 1
  SkipTime = 1
  CryptSkips = FALSE
  EarlyGrants = TRUE
  Database = FALSE
  FileBlack = {t1}
  FileWhite = {}
  Commands = {"hold", "whitelist", "reload"}
  a = a
  t1 = t1
  t2 = t2
INVARIANTS TypeOK CallsMatch ClaimantListens ServedIfPossible
PROPERTIES HoldReserves OnlyBetterPreempts ListsRespected
