SPECIFICATION PlanSpec
CONSTANTS
  ann = ann
  ben = ben
  Bad = Bad
  Party = {ann, ben}
  PegoutKeys = 2
  InSlots = 2
  OutSlots = 1
  Offers <- OffersOfPlans
  Plans <- PegoutPlans
  MaxMail = 1
  MaxFaults = 1
CHECK_DEADLOCK FALSE
INVARIANTS
  FullFidelity
