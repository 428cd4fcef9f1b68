CONSTANTS
  Pieces <- MCPieces
  Replies <- MCBrackets
  Images <- MCNone
  Hidden <- MCHidden
  Nothing = Nothing
SPECIFICATION Spec
INVARIANT
  FoundAgain
CHECK_DEADLOCK FALSE
