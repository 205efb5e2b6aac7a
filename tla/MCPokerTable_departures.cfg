SPECIFICATION FairSpec
CONSTANTS
  NumSeats = 3
  SmallBlind = 1
  BigBlind = 2
  InitialStacks = {0, 2, 4}
  BuyIns = {}
  MaxAmount = 4
  AllInAmounts = {}
  MaxHands = 1
  Strengths = {0, 1}
  Departures = "any_time"
INVARIANTS StakesIntact DiscardDiscipline RoundIsPaid
PROPERTIES HandEnds
