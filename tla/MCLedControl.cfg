CONSTANTS
  Packets <- MCPackets
  TickWrap = 6
  FREQ_SYS = 16
SPECIFICATION Spec
INVARIANTS TypeOK KeysShowTheirColors EffectsKeepShape
