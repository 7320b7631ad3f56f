SPECIFICATION FairSpec
CONSTANTS
  wDocument = wDocument
  wReplaced = wReplaced
  wBuild = wBuild
  Workflows = {wDocument, wReplaced, wBuild}
  MaxAttempts = 2
  MaxRecorded = 2
  MaxCrashes = 2
  Intents = {1, 2, 3, 4}
  Operation <- MCOperation
  Target <- MCTarget
  Names <- MCNames
CHECK_DEADLOCK FALSE
INVARIANTS
  TypeOK
  StartedAtMostOnce
  AbandonedWorkIsFailed
PROPERTIES
  EventuallySettled
  KeepsDeliveryContract
  DeadLetterSparesBegunWork
