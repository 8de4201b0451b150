SPECIFICATION Spec
CONSTANTS
  refund = refund
  rollback = rollback
  alice = alice
  bob = bob
  Operations <- MCOperations
  Workers <- MCWorkers
  Overflowing <- MCOverflowing
  MaxAttempts = 4
  BaseDelay = 1
  MaxDelay = 2
  MaxDuration = 3
  LeaseTime = 2
  BatchSize = 1
PROPERTY EveryAttemptIsSpaced
