SPECIFICATION Spec
CONSTANTS
  Verdicts <- MCVerdicts
  Ids <- MCIds
  TicketFiles <- MCFiles
  Inputs <- MCInputs
  ChatIds <- MCChatIds
  Samples <- MCSamples
  LaterReasons <- MCLater
  Answers <- MCAnswers
  MaxRuns = 2
  MaxDrafts = 1
INVARIANTS
  EscalationFileOnlyWhenEscalated
