CONSTANTS
  Packet = 64
  Descrs = {"DEVICE", "CONFIG", "KEYBOARD", "RAW", "LANG", "MANUF", "PROD", "INTERF"}
  DescrLen <- MCLen
  Asked <- MCAsked
  Choice <- MCSelected
  Meant <- MCMeant
  Lengths = {0, 9, 64, 255}
  Addresses = {1, 2}
  Losses = TRUE
  Aborts = TRUE
  Resets = TRUE
  Unknown = Unknown
SPECIFICATION FairSpec
INVARIANTS TypeOK DataExact DriverAgrees AddressAgrees
PROPERTY ControlEnds
