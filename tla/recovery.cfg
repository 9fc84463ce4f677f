SPECIFICATION FairSpec
CONSTANTS
  Registers <- McRegisters
  Types <- McTypes
  LaneOps <- McOps
  Calls <- McCalls
  ScalarTypes <- McScalars
  UnknownType = "unknown"
  Lowerable <- McLowerable
  Signature <- McSignature
  Cells <- McCells
  MaxPath = 5
INVARIANTS TypeOK NoQueryTwice Memoized RecursionBounded ProvenanceMatches StatusHonest AnswersCover
PROPERTIES Termination
CHECK_DEADLOCK FALSE
