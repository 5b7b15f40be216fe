CONSTANTS
  W16 = 2
  W32 = 3
  W64 = 4
  HashSize = 4
  MaxVecSize = 1200
  Chunk = 3
  Slack = 2
  ControlBaseSize = 2
  Order = 19
  TapTweakHash <- MCTapTweakHash
  Hash20 = 3
  Hash160 <- MCHash160
  HashOf <- MCHashOf
  Hmac <- MCHmac
  MaxKeyDepth = 3
  MaxNodeCount = 2
  MinProgram = 1
  MaxProgram = 5
  MaxElementSize = 3
  MaxLegacyText = 14
  MaxSteps = 3
  Ints <- MCInts
  Pushed <- MCPushed
  Lengths = {1, 75, 76, 255, 256}
  Sizes = {0, 1, 253}
  Indices = {0, 1}
  NoValue = NoValue
  MaxTransactions = 8
  CommitmentMagic <- MCMagic
  P = 2
  M = 5
  WordBits = 3
  HashRange = 4096
  SipHash <- MCSipHash
  SiphashKeys <- MCSiphashKeys
  ShortIdOf <- MCShortIdOf
  MaxBlock = 4
  MaxProof = 5
  MaxTouched = 1
  SmallProof = 3
  MaxForged = 3
  Heights = {0, 16, 17, 128, 256}
  ann = ann
  ben = ben
  Bad = Bad
  Party = {ann, ben}
  PegoutKeys = 2
  InSlots = 2
  OutSlots = 1
  Offers <- OffersOfPlans
  Plans <- MwebPlans
  MaxMail = 1
  MaxFaults = 1

SPECIFICATION Spec
CHECK_DEADLOCK FALSE

INVARIANTS MerkleProofsHold CommitmentBinds CompactRebuilds FiltersMatch  AddressFaithful WitnessHolds  MapsTravel
PROPERTIES ExtractedStable ImplementsKnowledge
