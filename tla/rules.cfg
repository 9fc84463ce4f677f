SPECIFICATION McSpec
CONSTANTS
  W = 3
  Infinity = 3
  One = 1
  FAdd <- FieldAdd
  FMultiply <- FieldMultiply
  FDivide <- FieldDivide
  FSqrt <- NoSqrt
  Operations <- McOperations
  Merges <- McMerges
  Leaves <- McLeaves
  Types <- McTypes
  Values <- Words
  Meaning <- WordMeaning
  Signature <- McSignature
  MaxArity = 4
  OperationKeys <- McOperationKeys
  AttributeCode <- McCode
  Catalogue <- BuiltinOperations
  EnabledTraits <- Lattice
  MaxFlattened = 3
  StartGraphs <- WordGraphs
  MaxNodes = 5
  MaxOperands <- McLimit
  Defined <- Always
  Families <- WordFamilies
INVARIANTS AnswersSound MeasuresHold
CHECK_DEADLOCK FALSE
