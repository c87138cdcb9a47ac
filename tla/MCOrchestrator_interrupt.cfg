SPECIFICATION Spec
CONSTANTS
  MaxRevisions = 1
  MaxDelegationFailures = 2
  ScreeningReasons <- MCScreening
  ClassificationReasons <- MCClassification
  QAReasons <- MCQAReasons
  Answers <- MCOperator
  MaxToolCalls = 2
  MaxTurns = 2
  IOFaults = FALSE
  Interrupts = TRUE
INVARIANT
  ArtifactsWhateverEndsTheRun
