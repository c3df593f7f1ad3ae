SPECIFICATION Spec
CONSTANTS
  MaxEvents = 2
  BatchLimit = 2
  MaxAttempts = 2
  MaxRequeues = 0
  MaxRestarts = 0
  Garbled = {1}
PROPERTIES
  AnsweredDeliveriesSettle
