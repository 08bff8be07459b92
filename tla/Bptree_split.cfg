SPECIFICATION Spec
CONSTANTS
  M = 3
  Uninit = Uninit
  Hole = Hole
  Trashed = Trashed
  Entries <- Unique6
  Keys = {2, 5}
INVARIANT SearchComplete
