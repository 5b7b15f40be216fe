CONSTANTS
  W16 = 1
  W32 = 2
  W64 = 3
  HashSize = 1
  MaxVecSize = 60
  Chunk = 3
  Slack = 4
  ControlBaseSize = 2
  MaxMsgSize = 200
  Order = 19
  TapTweakHash <- MCTapTweakHash
  Hash20 = 2
  Hash160 <- MCHash160
  HashOf <- MCHashOf
  Hmac <- MCHmac
  MaxKeyDepth = 255
  MaxNodeCount = 2
  MinProgram = 1
  MaxProgram = 4
  MaxElementSize = 3
  MaxLegacyText = 12
  Bytes = {0, 1, 2, 8, 9, 127, 128, 253, 254, 255}
  ShortWire = 6
  Q = 5
  ByteBits = 2
  MaxSize = 15
  Timespan = 4
  Limits <- SmallLimits
  Time <- Times
  TimeModulus = 256

SPECIFICATION Spec
CHECK_DEADLOCK FALSE

INVARIANT TargetsHold
PROPERTIES RoundTrip SelfDelimiting   ArithmeticAgrees EpochsHold
