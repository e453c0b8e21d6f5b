SPECIFICATION FairSpec
CONSTANTS
  a = a  b = b  c = c
  NoRx = NoRx  NoSite = NoSite  NoTg = NoTg
  Primary = 1  Scout = 2
  Tgids = {t1}
  Sites <- MCSites
  Receivers <- MCReceivers
  HomeOf <- MCHomeOf
  CCCount <- OneCC
  Neighbours <- Ring
  CCTimeoutRetries = 1
  VCTimeoutRetries = 1
  Stale = 2  VoiceDebounce = 1  Grace = 1  Window = 1  MinTsbk = 1
  QueueMax = 2
INVARIANTS TypeOK ClaimantListens ScoutParked ServedIfPossible
PROPERTIES CycleEnds OnlyHandOffMovesPrimary
