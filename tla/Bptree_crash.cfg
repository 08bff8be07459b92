SPECIFICATION CrashSpec
CONSTANTS
  M = 3
  Uninit = Uninit
  Hole = Hole
  Trashed = Trashed
  Entries <- Unique6
  Keys = {4}
  MaxKills = 2
INVARIANTS KillsSpareTree NothingErased
PROPERTIES MapSpec CallsEnd
