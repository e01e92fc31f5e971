CONSTANTS
  Size = 2
  Wrap = 8
  Lengths = {2}
  MaxPackets = 3
  Losses = FALSE
  Halts = {}
  Resets = FALSE
  Reconfigs = FALSE
  Descriptors = FALSE
SPECIFICATION Spec
INVARIANT NoPacketLost
CHECK_DEADLOCK FALSE
