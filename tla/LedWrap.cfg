CONSTANTS
  Packets <- OnlyDefault
  TickWrap = 65536
  FREQ_SYS = 16
SPECIFICATION Spec
PROPERTY PeriodKept
