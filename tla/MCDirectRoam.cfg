SPECIFICATION FairSpec
CONSTANTS
  a = a  b = b  c = c
  NoRx = NoRx  NoSite = NoSite  NoTg = NoTg
  Primary = 1
  Tgids = {t1}
  Sites <- MCSites
  Receivers <- MCReceivers
  HomeOf <- MCHomeOf
  CCCount <- TwoCCAtHome
  Neighbours <- AllAdjacent
  CCTimeoutRetries = 1
  VCTimeoutRetries = 1
  Stale = 2  VoiceDebounce = 1  Grace = 1  Window = 1  MinTsbk = 1
  QueueMax = 2
  Cooldown = 2  ColdCooldown = 2
INVARIANTS TypeOK ClaimantListens NeverDeaf LegIsBound TriggersExclusive
PROPERTIES CycleEnds EndsOnHomeOrProven QuietAfterExhaustion
