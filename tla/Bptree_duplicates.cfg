SPECIFICATION Spec
CONSTANTS
  M = 3
  Uninit = Uninit
  Hole = Hole
  Trashed = Trashed
  Entries <- Repeated
  Keys = {}
INVARIANT NoPageLost
