SPECIFICATION SteadySpec
CONSTANTS
  MaxSeats = 3
  SmallBlind = 1
  BigBlind = 2
  FallbackBlind = 2
  BombAnte = 0
  MaxStack = 3
  MaxAmount = 4
  AutoAway = FALSE
  Straddles <- Off
  BombPots <- Off
  Openings <- MCOpenings
  Start = "fresh"
  AllowRunItTwice = TRUE
  RunCount = 2
  RakeBps = 0
  RakeCap = 0
  RakeMinPot = 0
  NoFlopNoDrop = FALSE
  AutoBuyBack = 0
  BuyIns = {}
  MaxRank = 3
  MaxHands = 1
PROPERTY
  AllInBeforeTheRiverCanRunTwice
