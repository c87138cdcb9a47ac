SPECIFICATION FairSpec
CONSTANTS
  MaxRevisions = 1
  MaxToolCalls = 5
  MaxDelegationFailures = 2
  MaxTurns = 6
  ScreeningReasons <- MCScreening
  ClassificationReasons <- MCClassification
  QAReasons <- MCOneQAReason
  Answers <- MCOperator
  IOFaults = TRUE
  Interrupts = TRUE
INVARIANTS
  PublishedDraftWasApproved
  ApprovalCoversDraft
  RestrictedEscalationAskedHumanOrQA
  EscalatedIffReason
  StreakEndsRun
  BudgetBoundsDelegations
PROPERTIES
  SettledIsFinal
  EveryStepSpends
  RunEnds
  ImplementsLifecycle
