SPECIFICATION LiveSpec
CONSTANTS
  Exercised = {"settles", "merge", "mixed", "growth", "faults"}
  Null = Null
  Scopes = {"s1", "s2"}
  Identifiers = {1, 2, 3, 4}
  CurrentId = 3
  Nameless = {4}
  FactIds = {"f1"}
  NoFact = NoFact
  MaxWrites = 2
PROPERTIES MemoryProceeds
CHECK_DEADLOCK FALSE
