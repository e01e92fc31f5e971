CONSTANTS
  Slots = 2
  ConSlots = 1
  KBD_map <- NoMap
  MaxSteps = 2
  Inputs = {"K1", "K2"}
  Order <- MCOrder
  Left = "L"
  Right = "R"
  Defaults <- HoldDefaults
  NewBindings <- MCBindings
  Resets = TRUE
SPECIFICATION FairSpec
INVARIANTS TypeOK NothingStuck HeldChordStays
PROPERTY StableInputHandled
