CONSTANTS
  Processes = {p1, p2}
  Nobody = Nobody
  MaxClaims = 3
  MaxDeaths = 2
SPECIFICATION LeaseSpec
INVARIANTS SingleWinner
CHECK_DEADLOCK FALSE
