SPECIFICATION FairSpec
CONSTANTS
  Operations <- McOperations
  Merges <- McMerges
  Leaves <- McLeaves
  Types <- McTypes
  Values <- McValues
  Meaning <- McMeaning
  Signature <- McSignature
  MaxArity = 2
  MaxImports = 4
  MaxOutput = 5
  MaxGrowth = 1
  MaxSteps = 3
  MaxRewrites = 2
  MaxNodeRewrites = 2
  MaxIterations = 3
  Rules <- McRules
  EnabledRules <- AnyEnabled
  Outcomes <- AnyOutcomes
  CollectTrace = TRUE
  Plans <- AnyPlans
  Inputs <- AnyInputs
INVARIANTS TypeOK RunInv MappingSound ReportExact WithinBudgets
PROPERTIES CompactionIsSafe KeepsPromise Termination
CHECK_DEADLOCK FALSE
