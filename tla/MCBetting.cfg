SPECIFICATION FairSpec
CONSTANTS
  MaxSeats = 3
  SmallBlind = 1
  BigBlind = 2
  FallbackBlind = 2
  BombAnte = 1
  MaxStack = 5
  MaxAmount = 6
  AutoAway = TRUE
  Straddles <- BothToggles
  BombPots <- BothToggles
  Openings <- MCOpenings
  Start = "any"
INVARIANTS
  TypeOK
  PotIsContributions
  BetsAreCovered
  TurnIsPlayable
  OnlyTheDealtPlay
  OfferedShoveIsAccepted
PROPERTIES
  ChipsStayWithTheirSeat
  StreetClosesEven
  EveryHandEnds
