SPECIFICATION McSpec
CONSTANTS
  Xmms <- McXmms
  Bases <- McBases
  CellOffsets <- McCellOffsets
  Instructions <- McInstructions
  Built <- McBuilt
  MaxEncoded = 3
  MaxInstructions = 2
  RangeLimit = 256
  Locations <- McLocations
  Characters <- McCharacters
  MaxLength = 5
  Names <- McNames
  Values <- McValues
  MaxUnsigned = 7
  MaxDisplacement = 3
  MaxTokens = 8
INVARIANTS MatchesArchitecture ResolvesTheEncodable EffectsDeclared RelationExact TokensExact ParsesTheLines
PROPERTY Reads
CHECK_DEADLOCK FALSE
