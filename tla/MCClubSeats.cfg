CONSTANTS
  MaxSeats = 2
  member = member
  guest = guest
  stranger = stranger
  Players = {member, guest, stranger}
  Nobody = Nobody
  Guests = {guest}
  Members = {member}
  MemberPlayOnLoan = FALSE
  AutoApproveNonMembers = TRUE
  NonMemberLoan = 2
  AutoBuyBack = 2
  MinBuyIn = 2
  MaxBuyIn = 3
  Funds <- MCFunds
  Grants <- MCGrants
  Rakes = {1}
  BuyIns = {3}
  Bets = {2}
  MaxHands = 1
  MaxAdvanced = 3
  MaxFailures = 1
SPECIFICATION FairSpec
INVARIANTS
  TypeOK
  TableCanPay
  AccountsAgree
PROPERTIES
  PaidInFull
  KickHitsTheMeant
  HostIsObeyed
CHECK_DEADLOCK FALSE
