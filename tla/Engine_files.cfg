SPECIFICATION FairSpec
CONSTANTS
  t1 = t1
  s1 = s1
  s2 = s2
  Fields <- MCFields
  FieldList <- MCFieldList
  None = None
  Absent = Absent
  Torn = Torn
  Sessions = {s1, s2}
  Tables = {t1}
  Values = {0}
  Ops = {"use", "drop database", "drop table", "create index", "insert", "update"}
  Clauses <- ById
  SetFields = {"age"}
  InitialTables = {t1}
  MaxRows = 1
  MaxEntries = 1
  MaxTableNum = 1
  MaxDeaths = 0
INVARIANT TypeOK
PROPERTIES
  StatementsReturn
  StepsAdvance
