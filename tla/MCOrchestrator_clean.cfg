SPECIFICATION FairSpec
CONSTANTS
  MaxRevisions = 1
  MaxToolCalls = 7
  MaxDelegationFailures = 2
  MaxTurns = 9
  ScreeningReasons <- MCScreening
  ClassificationReasons <- MCWideTriage
  QAReasons <- MCQAReasons
  Answers <- MCOperator
  IOFaults = FALSE
  Interrupts = FALSE
INVARIANTS
  TypeOK
  RestrictedWorkIsApproved
  DraftsMatchRevisions
  DelegationLogInOrder
PROPERTIES
  ReasonIsFinal
  RunSettles
