CONSTANTS
  Pieces <- MCPieces
  Replies <- MCAll
  Images <- MCImages
  Hidden <- MCHidden
  Nothing = Nothing
  Spoken <- MCSpoken
  Drawn <- MCDrawn
  Orders <- MCOrders
  MaxThoughts = 2
  Native <- MCNative
  NativeImages <- MCImages
  MaxSwaps = 1
  Unset = Unset
  Asks <- MCAsks
  Outputs <- MCOutputs
  Answers <- MCAnswers
  Setups <- MCSetups
  MaxAsks = 3
  Configured <- MCConfigured
  Declared <- MCDeclared
  Sizes <- MCSizes
  MaxBody = 7
SPECIFICATION ServingSpec
INVARIANT
  HeartbeatIsNoData
CHECK_DEADLOCK FALSE
