SPECIFICATION FairSpec
CONSTANTS
  Verdicts <- MCVerdicts
  Ids <- MCIds
  TicketFiles <- MCFiles
  Inputs <- MCInputs
  ChatIds <- MCChatIds
  Samples <- MCSamples
  LaterReasons <- MCLater
  Answers <- MCAnswers
  MaxRuns = 2
  MaxDrafts = 1
INVARIANTS
  TypeOK
  GateCannotWaiveSecrets
  TriageIsOfThisTicket
  TornRecordShows
  AnswerTellsTheRecord
  ExitCodeTellsTheDisk
  OfflineEvaluationPredicts
  CleanBatchIsReal
PROPERTIES
  RunsAreLifecycles
  MessagesAreAnswered
