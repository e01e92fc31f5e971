CONSTANTS
  Slots = 2
  ConSlots = 2
  KBD_map <- SmallMap
  Chords <- SmallChords
  Keys <- SmallKeys
  ConKeys = {0, 181, 205, 233}
SPECIFICATION Spec
INVARIANTS TypeOK OneSlotPerCode HostKnowsKeys
PROPERTIES IsKeySet ConTapEnds
