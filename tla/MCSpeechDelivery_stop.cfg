CONSTANTS
  Utterances <- MCUtterances
  MaxAttempts = 2
SPECIFICATION Spec
INVARIANT StopIsFinal
