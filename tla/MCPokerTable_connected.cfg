SPECIFICATION Spec
CONSTANTS
  NumSeats = 3
  SmallBlind = 1
  BigBlind = 2
  InitialStacks = {0, 2, 4, 5}
  BuyIns = {}
  MaxAmount = 5
  AllInAmounts = {2, 4, 5}
  MaxHands = 1
  Strengths = {0, 1, 2}
  Departures = "never"
INVARIANTS ChipsConserved TableStakes OffersAreAccepted
PROPERTIES KeepsPromise
