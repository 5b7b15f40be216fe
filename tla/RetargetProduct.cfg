SPECIFICATION MCSpec
CONSTANTS
  Q = 5
  ByteBits = 2
  MaxSize = 15
  Timespan = 4
  Limits <- SmallLimits
  Time <- Times
  TimeModulus = 256
INVARIANT ProductsAgree
