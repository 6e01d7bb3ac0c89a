SPECIFICATION LimiterLiveSpec
CONSTANTS
  Requests = {r1, r2, r3}
  Keys = {k1}
  Missing = Missing
  Cost = 3
  Burst = 1
  Idle = 3
  MaxStall = 1
  MaxTime = 8
INVARIANTS
  WindowBounded
  AddressBounded
PROPERTIES
  ForgetsOnlyFull
  SilentForgotten
