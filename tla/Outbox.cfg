SPECIFICATION Spec
CONSTANTS
  MaxEvents = 4
  BatchLimit = 2
  MaxAttempts = 2
  MaxRequeues = 1
  MaxRestarts = 1
  Garbled = {4}
INVARIANTS
  AttemptsAccountForReceipts
  PendingHasAttemptLeft
  BatchIsPending
PROPERTIES
  AnsweredDeliveriesSettle
