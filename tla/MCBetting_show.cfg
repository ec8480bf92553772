SPECIFICATION Spec
CONSTANTS
  MaxSeats = 3
  SmallBlind = 1
  BigBlind = 2
  FallbackBlind = 2
  BombAnte = 0
  MaxStack = 5
  MaxAmount = 5
  AutoAway = FALSE
  Straddles <- Off
  BombPots <- Off
  Openings <- MCOpenings
  Start = "fresh"
INVARIANT
  FirstToShowIsAContender
