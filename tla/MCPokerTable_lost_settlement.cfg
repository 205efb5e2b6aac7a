SPECIFICATION Spec
CONSTANTS
  NumSeats = 3
  SmallBlind = 1
  BigBlind = 2
  InitialStacks = {0, 2, 4}
  BuyIns = {}
  MaxAmount = 0
  AllInAmounts = {}
  MaxHands = 1
  Strengths = {0, 1}
  Departures = "in_play"
INVARIANT ChipsConserved
