SPECIFICATION Spec
CONSTANTS
  t2 = t2
  t1 = t1
  s1 = s1
  Fields <- MCFields
  FieldList <- MCFieldList
  None = None
  Absent = Absent
  Torn = Torn
  Sessions = {s1}
  Tables = {t1, t2}
  Values = {0}
  Ops <- Everything
  Clauses <- ById
  SetFields = {None}
  InitialTables = {}
  MaxRows = 1
  MaxEntries = 3
  MaxTableNum = 2
  MaxDeaths = 1
INVARIANT CatalogBacked
