SPECIFICATION Spec
CONSTANTS
  W = 2
  Infinity = 1
  One = 1
  FAdd <- NoFloat
  FMultiply <- NoFloat
  FDivide <- NoFloat
  FSqrt <- NoSqrt
  Operations <- McOperations
  Merges <- McMerges
  Leaves <- McLeaves
  Types <- McTypes
  Values <- Words
  Meaning <- WordMeaning
  Signature <- McSignature
  MaxArity = 4
  OperationKeys <- McOperationKeys
  AttributeCode <- McCode
  Catalogue <- BuiltinOperations
  EnabledTraits <- Lattice
  MaxFlattened = 64
  MaxImports = 20
  MaxOutput = 20
  MaxGrowth = 20
  MaxSteps = 1000
  MaxRewrites = 200
  MaxNodeRewrites = 20
  MaxIterations = 60
  Rules <- McRuleNames
  EnabledRules <- McRuleNames
  Outcomes <- OutcomesOf
  CollectTrace = FALSE
  Plans <- McBuiltinPlans
  Inputs <- McInputs
  RuleKeys <- McRuleKeys
  EmptyKey = "none"
INVARIANTS OnePass CompleteIsStable SameForm RulesKeepContract

CHECK_DEADLOCK FALSE
