SPECIFICATION Spec
CONSTANTS
  MaxSeats = 3
  SmallBlind = 1
  BigBlind = 2
  FallbackBlind = 2
  BombAnte = 0
  MaxStack = 2
  MaxAmount = 2
  AutoAway = FALSE
  Straddles <- Off
  BombPots <- Off
  Openings <- MCOpenings
  Start = "fresh"
  AllowRunItTwice = FALSE
  RunCount = 2
  RakeBps = 0
  RakeCap = 0
  RakeMinPot = 0
  NoFlopNoDrop = FALSE
  AutoBuyBack = 0
  BuyIns = {}
  MaxRank = 2
  MaxHands = 2
INVARIANT
  NeverStuckInBetting
