SPECIFICATION Spec
CONSTANTS
  Keys <- mcKeys
  Turns <- mcTurns
  Commands <- mcCommands
  SeqWrap = 3
  MaxLost = 3
  Unknown = Unknown
INVARIANT
  MaskIsCurrent
