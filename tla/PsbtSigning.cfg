SPECIFICATION PlanSpec
CONSTANTS
  a = a
  b = b
  k1 = k1
  k2 = k2
  l1 = l1
  g1 = g1
  tx1 = tx1
  tx2 = tx2
  None = None
  NumInputs = 2
  NumOutputs = 1
  NumXpubs = 0
  Key = {k1, k2}
  Leaf = {l1}
  Tag = {}
  OutputValue <- OneOutput
  U64Max = 4000
  BaseWeight = 400
  WitnessWeight = 100
  MaxFeeRate = 5
  Party = {a, b}
  Tx = {tx1}
  UnsignedTx = {tx1}
  Held <- HeldByEach
  Offers <- OffersOfPlans
  OutputOffers <- OutputOffersOfPlans
  XpubOffers <- XpubOffersOfPlans
  Newer <- NewerOfPlans
  Finalizers = {a}
  MaxMail = 1
  MaxFaults = 0
  Plans <- SignPlans
INVARIANTS SigsCommitToFunding ExtractSound
