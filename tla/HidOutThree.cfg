CONSTANTS
  Size = 2
  Wrap = 8
  Lengths = {0, 1, 2}
  MaxPackets = 3
  Losses = TRUE
  Halts = {"CLEAR", "SET"}
  Resets = TRUE
  Reconfigs = TRUE
  Descriptors = FALSE
SPECIFICATION Spec
INVARIANTS TypeOK ReaderExact NothingForgotten TakenInOnce HostBeliefTrue
