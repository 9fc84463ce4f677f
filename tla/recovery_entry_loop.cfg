SPECIFICATION Spec
CONSTANTS
  Registers <- McRegisters
  Types <- McTypes
  LaneOps <- McOps
  Calls <- EntryLoopCalls
  ScalarTypes <- McScalars
  UnknownType = "unknown"
  Lowerable <- McLowerable
  Signature <- McSignature
  Cells <- McCells
  MaxPath = 5
INVARIANT AnswersCover
CHECK_DEADLOCK FALSE
