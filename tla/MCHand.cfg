SPECIFICATION FairSpec
CONSTANTS
  MaxSeats = 3
  SmallBlind = 1
  BigBlind = 2
  FallbackBlind = 2
  BombAnte = 0
  MaxStack = 4
  MaxAmount = 4
  AutoAway = FALSE
  Straddles <- Off
  BombPots <- BothToggles
  Openings <- MCOpenings
  Start = "fresh"
  AllowRunItTwice = TRUE
  RunCount = 2
  RakeBps = 2500
  RakeCap = 2
  RakeMinPot = 8
  NoFlopNoDrop = TRUE
  AutoBuyBack = 0
  BuyIns = {}
  MaxRank = 2
  MaxHands = 2
INVARIANTS
  TypeOK
PROPERTIES
  OnlyUnclaimedChipsVanish
  TableStakes
  NobodyWinsMoreThanMatched
  RakeIsTakenFromThePot
  EveryHandIsSettled
