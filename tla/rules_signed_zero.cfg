SPECIFICATION BitSpec
CONSTANTS
  W = 3
  Infinity = 1
  One = 1
  FAdd <- NoFloat
  FMultiply <- NoFloat
  FDivide <- NoFloat
  FSqrt <- NoSqrt
  Operations <- McOperations
  Merges <- McMerges
  Leaves <- McLeaves
  Types <- McTypes
  Values <- Words
  Meaning <- BitMeaning
  Signature <- McSignature
  MaxArity = 3
  OperationKeys <- McOperationKeys
  AttributeCode <- McCode
  Catalogue <- BuiltinOperations
  EnabledTraits <- Lattice
  MaxFlattened = 3
  StartGraphs <- BitGraphs
  MaxNodes = 5
  MaxOperands <- McLimit
  Defined <- Always
  Families <- BitFamilies
INVARIANT BitwiseExact
CHECK_DEADLOCK FALSE
