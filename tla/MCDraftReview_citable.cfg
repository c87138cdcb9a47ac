SPECIFICATION Spec
CONSTANTS
  MaxRevisions = 1
  MaxReseeds = 0
  Records <- MCRecords
  Folded <- MCFolded
  Texts <- MCTexts
  Holds <- MCHolds
  Citable <- MCCitable
  shop = shop
  mirror = mirror
  Pages <- MCPages
SYMMETRY MCSymmetry
INVARIANT
  EveryLookupIsCitable
