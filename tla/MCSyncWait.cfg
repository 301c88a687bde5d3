SPECIFICATION FairSpec
CONSTANTS
  r1 = r1
  r2 = r2
  r3 = r3
  Ranks <- MCRanks
  MaxRounds = 3
INVARIANTS
  RoundsInv
  SameRound
  FailStop
PROPERTIES
  ImplementsRendezvous
  AgreedOutcome
