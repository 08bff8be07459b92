SPECIFICATION Spec
CONSTANTS
  t1 = t1
  s2 = s2
  s1 = s1
  Fields <- MCFields
  FieldList <- MCFieldList
  None = None
  Absent = Absent
  Torn = Torn
  Sessions = {s1, s2}
  Tables = {t1}
  Values = {0}
  Ops = {"use", "insert", "update", "delete"}
  Clauses <- ByIdOrAge
  SetFields = {"age"}
  InitialTables = {t1}
  MaxRows = 2
  MaxEntries = 4
  MaxTableNum = 1
  MaxDeaths = 1
SYMMETRY Symmetry
INVARIANTS
  CountBehindRows
  ReadsInside
  EntriesHaveRows
PROPERTIES
  StepsSurvive
