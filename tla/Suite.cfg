SPECIFICATION FairSpec
CONSTANTS
  Commit <- MCCommit
  Mainline <- MCMainline
  CommitTime <- MCCommitTime
  Now = 3
  Offers <- MCOffers
  Sdk <- MCSdk
  NoCommit = NoCommit
  Setups <- MCSetups
  Daemons <- MCDaemons
  MaxMoves = 2
  MaxIncidents = 1
INVARIANTS
  TypeOK
  GatedIsBlocked
  HalvesStayTogether
  MergesDoNotAbort
  MainlineIsCertified
  NeverAllHeld
PROPERTIES
  ImplementsRun
  SuiteEnds
