SPECIFICATION FairSpec
CONSTANTS
  a = a  b = b
  Sites <- MCSites
  Home = a
  CallLogMaxLen = 1
  RoamEventsMaxLen = 1
  CallBound = 1
  EventBound = 2
  PostBound = 2
INVARIANTS TypeOK
PROPERTIES EventsKept CallsKept SiteWrittenBack
