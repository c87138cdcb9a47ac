SPECIFICATION Spec
CONSTANTS
  MaxRevisions = 1
  MaxDelegationFailures = 2
  ScreeningReasons <- MCScreening
  ClassificationReasons <- MCClassification
  QAReasons <- MCQAReasons
  Answers <- MCOperator
  MaxToolCalls = 5
  MaxTurns = 5
  IOFaults = FALSE
  Interrupts = FALSE
INVARIANT
  RestrictedEscalationAskedHuman
