SPECIFICATION Spec
CONSTANTS
  Frameworks = {"shipped", "wakesCold", "queuesIdle", "acceptsOnly", "queuesDeleted", "dropsCold"}
INVARIANTS
  SpawnFailureIsReported
