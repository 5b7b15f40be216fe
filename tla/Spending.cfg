SPECIFICATION SpendingSpec
CONSTANTS
  Hash <- Hashes
  Join <- Mix
  Before <- Less
  Script <- Scripts
  LeafHash <- LeafHashes
  MaxDepth = 3
  LeafScript <- Leaves
  HiddenHash <- HiddenLeaf
  MaxNodes = 5
  Weight = {0, 1, 5}
  WeightMax = 12
  Txs <- Transactions
  Calls <- SmallCalls
INVARIANTS BranchSound TreeIsDescribed ControlBlocksProve HuffmanOptimal CacheTransparent 
