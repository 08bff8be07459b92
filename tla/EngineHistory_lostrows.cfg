SPECIFICATION HistorySpec
CONSTANTS
  t1 = t1
  s2 = s2
  s1 = s1
  Fields <- MCFields
  FieldList <- MCFieldList
  None = None
  Absent = Absent
  Torn = Torn
  Sessions = {s1, s2}
  Tables = {t1}
  Values = {1, 2}
  Ops = {"use", "insert"}
  Clauses <- ByKey
  SetFields = {"age"}
  InitialTables = {t1}
  MaxRows = 2
  MaxEntries = 4
  MaxTableNum = 1
  MaxDeaths = 0
INVARIANTS
  AckedRowsFound
