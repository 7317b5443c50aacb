SPECIFICATION FairSpec
CONSTANTS
  ExchangeLimit = 3
  SendBound = 4
INVARIANTS
  TypeOK
  OnlyTheInitiatorCarried
  BlockingReceiptIsCaught
  SoundReceiptIsNotBlamed
  GrantIsCaught
  ArmedWithOwnRequest
  RefusalIsNotBlamed
  HoleIsWitnessed
  BooksAreNotBlamed
  NameReversionsAreCaught
  ReaderNeverObeysAfterPass
  StaleBreachIsNotBlamed
  ReturnCleansUp
PROPERTY
  ClaimEnds
