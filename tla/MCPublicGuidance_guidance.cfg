SPECIFICATION Spec
CONSTANTS
  Records <- MCRecords
  Folded <- MCFolded
  Texts = {}
  Urls <- MCUrls
  SafeUrls <- MCSafeUrls
  Serves <- MCServes
  MaxPages = 2
  MinimumCharacters = 2
  MinimumMatches = 2
  Topics <- MCTopics
  Mentionable <- MCMentionable
INVARIANTS
  TypeOK
  EmptyResearchEscalates
  EvidenceIsVetted
  ConflictEscalationIsReal
  PublishedArticleIsPublic
