CONSTANTS
  Utterances <- MCUtterances
  MaxAttempts = 2
SPECIFICATION LiveSpec
INVARIANTS
  OutboxTypeOK
  RequestsInBounds
  NothingDropped
PROPERTY DeliveryResolves
