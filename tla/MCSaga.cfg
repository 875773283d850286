SPECIFICATION FairSpec
CONSTANTS
  MaxAttempts = 3
  MaxRetries = 1
INVARIANTS
  TypeOK
  StatusFollowsState
  ResendsTheAwaitedCommand
  NoSilentStall
  CompensatesInOrder
  SentEffectsUndone
PROPERTIES
  NeverMovesBack
  ImplementsTransaction
  DeadlinesKeepItMoving
