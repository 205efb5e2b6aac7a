SPECIFICATION FairSpec
CONSTANTS
  p1 = p1
  p2 = p2
  p3 = p3
  People <- ThreePlayers
  Sessions <- OneWithTwoTabs
  NoOne = none
  MaxPlayers = 3
INVARIANTS ChangesAreCheckpointed ClientsAreCurrent
PROPERTIES PauseIsHonest SeatsAreKept GraceSparesConnected NextHandIsWanted LostSeatIsFreed PauseEnds
