SPECIFICATION Spec
CHECK_DEADLOCK FALSE
CONSTANTS
  MaxU64 = 134217727
  InputLimit = 50
  Kwu = 1000
  WitnessScaleFactor = 4
  TxInBaseWeight = 164
  U32 = 128
  U16 = 8
  Threshold = 40
  Interval = 4
  TypeFlag = 16
  MaxText = 5
  MaxOps = 2
  Opening <- MCOpening
  Operands = {0, 1, 3, 10, 999, 67108864, 100000000}
  RateSet = {0, 1, 249, 250, 333, 1000}
  Weights = {1, 3, 4, 164, 400}
  MaxTip = 9
  Coins <- MCCoins
  Fee = 2
  VaultLocks = {2, 41}
  Deltas = {1, 2, 39}
  MaxVault = 5
  BlockSize = 4
  LenSize = 2
  HashLen = 2
  DigestByte <- MCDigestByte
  ChunkSize = 2
  MaxInterrupts = 2
  HexBuf = 3
  MaxItems = 2
  Width = 2
  MaxReplies = 4
  MaxFed = 13
  MaxPiece = 11
  MaxSipPiece = 19
  MaxSip = 28
INVARIANTS EnginesHold HashesKnown StreamsHold FormsReadBack  NetworksHold   
PROPERTIES Returns 
