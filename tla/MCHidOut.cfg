CONSTANTS
  Size = 2
  Wrap = 8
  Lengths = {0, 1, 2}
  MaxPackets = 2
  Losses = TRUE
  Halts = {"CLEAR", "SET"}
  Resets = TRUE
  Reconfigs = TRUE
  Descriptors = TRUE
SPECIFICATION FairSpec
INVARIANTS TypeOK ReaderExact NothingForgotten TakenInOnce HostBeliefTrue
PROPERTY TakenInIsHandled
