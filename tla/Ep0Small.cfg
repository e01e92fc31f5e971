CONSTANTS
  Packet = 3
  Descrs <- SmallDescrs
  DescrLen <- SmallLen
  Asked <- SmallAsked
  Choice <- SmallSelected
  Meant <- SmallSelected
  Lengths = {0, 1, 3, 6, 7, 9}
  Addresses = {1, 2}
  Losses = TRUE
  Aborts = TRUE
  Resets = TRUE
  Unknown = Unknown
SPECIFICATION FairSpec
INVARIANTS TypeOK DataExact AddressAgrees
PROPERTY ControlEnds
