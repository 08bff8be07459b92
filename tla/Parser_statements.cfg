CONSTANTS
  student = student  teacher = teacher  id = id  age = age
  Fields = {id, age}
  Catalog <- MCCatalog
  Stored <- MCStored
  None = None
  Values = {2}
  Quoted = {student}
  MaxTokens = 13
  MaxOptions = 2
SPECIFICATION Spec
INVARIANTS TypeOK OneCall SentencesCalled NoRowDropped PlainClausesExact SelectsExact
PROPERTIES EveryTextEnds
CHECK_DEADLOCK FALSE
