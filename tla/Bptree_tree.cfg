SPECIFICATION Spec
CONSTANTS
  M = 3
  Uninit = Uninit
  Hole = Hole
  Trashed = Trashed
  Entries <- Unique8
  Keys = {2, 5}
INVARIANTS
  TypeOK
  NodesSorted
  LeafSlotsInserted
  VisitsWritten
  TreeWhole
  SearchSound
  ShallowSearchComplete
