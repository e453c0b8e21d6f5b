SPECIFICATION Spec
CONSTANTS
  Mode <- MCMode
  BodyLen <- MCBodyLen
  FrameBits = 12
  Masks = {3, 4}
  Second = 7
  CounterMod = 19
  Patience = 18
  Busy = {0}
  OnAir = {"P25P1", "DMR"}
INVARIANTS TypeOK FrameFits   QuietChannelReports GoodSignalDecodes
