SPECIFICATION Spec
CONSTANTS
  NumSeats = 3
  SmallBlind = 1
  BigBlind = 2
  InitialStacks = {0, 2}
  BuyIns = {2}
  MaxAmount = 0
  AllInAmounts = {}
  MaxHands = 2
  Strengths = {0, 1}
  Departures = "in_play"
INVARIANTS SeatsAreHonest
PROPERTIES FirstHandWaits KeepsToView
