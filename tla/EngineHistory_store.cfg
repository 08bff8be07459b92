SPECIFICATION HistorySpec
CONSTANTS
  t1 = t1
  s1 = s1
  Fields <- MCFields
  FieldList <- MCFieldList
  None = None
  Absent = Absent
  Torn = Torn
  Sessions = {s1}
  Tables = {t1}
  Values = {1}
  Ops = {"use", "create database", "create table", "insert", "select", "update", "delete"}
  Clauses <- Various
  SetFields = {"age"}
  InitialTables = {}
  MaxRows = 2
  MaxEntries = 4
  MaxTableNum = 1
  MaxDeaths = 1
INVARIANT DeathsSpareRows
PROPERTY StoreSpec
