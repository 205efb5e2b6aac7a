SPECIFICATION Spec
CONSTANTS
  NumSeats = 3
  SmallBlind = 2
  BigBlind = 4
  InitialStacks = {0, 1, 4}
  BuyIns = {}
  MaxAmount = 5
  AllInAmounts = {}
  MaxHands = 1
  Strengths = {0, 1}
  Departures = "never"
INVARIANT ChipsConserved
CHECK_DEADLOCK FALSE
