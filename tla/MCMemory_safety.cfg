SPECIFICATION Spec
CONSTANTS
  Exercised = {"history", "contested", "merge", "merge_alone", "fact_vectors",
               "entity_vectors", "certainty", "endpoints", "spans", "kinds", "bounded",
               "tree", "themes", "swaps", "cuts", "pack", "merit", "walk", "lane", "sources",
               "study", "triples", "profiles", "growth", "insight", "reuse", "faults",
               "two"}
  Null = Null
  Scopes = {"s1", "s2"}
  Identifiers = {1, 2, 3, 4}
  CurrentId = 3
  Nameless = {4}
  FactIds = {"f1"}
  NoFact = NoFact
  MaxWrites = 2
INVARIANTS TypeOK
PROPERTIES NamesStayHeld GraphKeeps ExtractionKeeps RetrievalKeeps EvaluationKeeps
CHECK_DEADLOCK FALSE
