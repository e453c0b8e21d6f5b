SPECIFICATION Spec
CONSTANTS
  a = a  b = b
  Sites <- MCSites
  Home = a
  CallLogMaxLen = 2
  RoamEventsMaxLen = 1
  CallBound = 2
  EventBound = 1
  PostBound = 1
INVARIANTS CallsAttributed
