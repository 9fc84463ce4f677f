SPECIFICATION McSpec
CONSTANTS
  Texts = {0, 1, 2, 3}
  Versions = {0, 1, 2}
  Arities = {0, 1, 2}
  Schemas = {"none"}
  OperandTypes = {"any"}
  LastIndex = 1
  MaxWord = 99
  Offered <- McOfferedOperations
  MaxBatch = 2
  OfferedFields <- McFields
  OfferedEntries <- McEntries
  MaxFields = 3
  MaxEntries = 2
  ValidTypes = {"f32"}
  RuleKeys <- McRuleKeys
  EmptyKey = "none"
  OfferedRules <- McOfferedRules
  MaxOffers = 3
  DefaultRules = {"a", "b"}
  AllTraits = {"associative", "commutative"}
  DefaultTraits = {"associative"}
  Touched = {"shape_normalization", "other"}
  UnknownPhase = "other"
INVARIANTS IndexesExact CompatibilityFaithful AttributesExact RulesScheduled FoldsExact
PROPERTIES KeepsRegistry OrderIrrelevant
CHECK_DEADLOCK FALSE
