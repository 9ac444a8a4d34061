CONSTANTS
  Utterances <- MCUtterances
  MaxAttempts = 2
SPECIFICATION Spec
INVARIANTS
  TypeOK
PROPERTY PromiseSpec
