SPECIFICATION Spec
CONSTANTS
  Frameworks = {"shipped", "wakesCold", "queuesIdle", "acceptsOnly", "queuesDeleted", "dropsCold"}
INVARIANTS
  TypeOK
  IdlePassIsEarned
  ReversionsAreCaught
  ShippedIsNotBlamed
  ReturnCleansUp
