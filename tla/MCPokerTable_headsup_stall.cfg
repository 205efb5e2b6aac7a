SPECIFICATION HeadsUpSpec
CONSTANTS
  NumSeats = 2
  SmallBlind = 1
  BigBlind = 2
  InitialStacks = {1, 2}
  BuyIns = {}
  MaxAmount = 0
  AllInAmounts = {}
  MaxHands = 1
  Strengths = {0}
  Departures = "never"
PROPERTY HandEnds
