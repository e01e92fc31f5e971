SPECIFICATION FairTimeSpec
CONSTANTS
  FREQ_SYS = 16000
  ACTION_MAX_STEPS = 5
  Counts = {0,5}
  Sent = {2}
  PollTimes <- mcPollTimes
INVARIANTS
  TimeTypeOK
  RoundFitsWatchdog
PROPERTIES
  LoopComesRound
