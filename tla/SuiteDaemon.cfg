SPECIFICATION Spec
CONSTANTS
  Commit <- MCCommit
  Mainline <- MCMainline
  CommitTime <- MCCommitTime
  Now = 3
  Offers <- MCOffers
  Sdk <- MCSdk
  NoCommit = NoCommit
  Setups <- MCSetups
  Daemons <- MCDaemons
  MaxMoves = 0
  MaxIncidents = 0
INVARIANT StaleDaemonIsRefused
