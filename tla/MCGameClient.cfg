SPECIFICATION Spec
CONSTANTS
  MaxHands = 2
  MaxTurns = 2
  MaxSessions = 2
  MaxDown = 1
  MaxUp = 1
  Buttons = {"check", "call", "raise"}
  Queued = {"check_fold"}
INVARIANTS
  TypeOK
  AppliedOnce
  LateOnlyAfterTheClock
  BarIsUpOnMyTurn
  OnlyOvertakenCardsAreStale
CHECK_DEADLOCK FALSE
