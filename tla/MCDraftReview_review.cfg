SPECIFICATION Spec
CONSTANTS
  MaxRevisions = 1
  MaxReseeds = 1
  Records <- MCRecords
  Folded <- MCFolded
  Texts <- MCTexts
  Holds <- MCHolds
  Citable <- MCCitable
  shop = shop
  mirror = mirror
  Pages <- MCPages
SYMMETRY MCSymmetry
INVARIANTS
  TypeOK
  ApprovedDraftIsGrounded
  ApprovedReplyKeepsToItsAuthority
  AbsenceIsReal
  OneIdPerRecord
  GroundingNeverFails
  EscalationNamesTheFault
  RevisionIsAchievable
PROPERTY
  SubmissionsStand
