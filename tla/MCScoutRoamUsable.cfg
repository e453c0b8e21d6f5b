SPECIFICATION Spec
CONSTANTS
  a = a  b = b  c = c
  NoRx = NoRx  NoSite = NoSite  NoTg = NoTg
  Primary = 1  Scout = 2
  Tgids = {t1}
  Sites <- MCSites
  Receivers <- MCReceivers
  HomeOf <- MCHomeOf
  CCCount <- OneCC
  Neighbours <- AllAdjacent
  CCTimeoutRetries = 1
  VCTimeoutRetries = 1
  Stale = 1  VoiceDebounce = 1  Grace = 1  Window = 1  MinTsbk = 1
  QueueMax = 1
INVARIANTS MonitoredSiteUsable
