SPECIFICATION FairSpec
CONSTANTS
  c1 = c1
  c2 = c2
  Clients = {c1, c2}
  Texts = {"text", "x.end"}
  Mimic = "x.end"
  MaxFds = 1
  MaxStatements = 2
  MaxStrays = 1
  Cut = {"request", "answer"}
  Crashes = TRUE
INVARIANTS
  TypeOK
  InStep
PROPERTIES
  Answered
  ChildrenEnd
CHECK_DEADLOCK FALSE
