SPECIFICATION Spec
CONSTANTS
  Operations <- McOperations
  Merges <- McMerges
  Leaves <- McLeaves
  Types <- McTypes
  Values <- McValues
  Meaning <- McMeaning
  Signature <- McSignature
  MaxArity = 2
  MaxImports = 9
  MaxOutput = 12
  MaxGrowth = 9
  MaxSteps = 90
  MaxRewrites = 20
  MaxNodeRewrites = 9
  MaxIterations = 20
  Rules <- McRules
  EnabledRules <- SoundRules
  Outcomes <- McOutcomes
  CollectTrace = TRUE
  Plans <- McPlans
  Inputs <- MergeInputs
INVARIANT ReachesStability
CHECK_DEADLOCK FALSE
