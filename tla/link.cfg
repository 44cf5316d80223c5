SPECIFICATION Spec
CONSTANTS
  Pairings = 3
  MaxDrops = 3
INVARIANTS
  TypeOK
  OneLink
  StatusTrue
PROPERTIES
  CredsKept
  LinkReturns
