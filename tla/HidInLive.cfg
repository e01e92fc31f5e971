CONSTANTS
  Eps = {EP1}
  LiveEps = {EP1}
  Size = 2
  Bytes = {0, 1, 2, 9}
  Zero = 0
  Reports <- FewReports
  Halts = {}
  Resets = TRUE
  Descriptors = TRUE
  Stray = 2
  Nothing = Nothing
  Junk = Junk
SPECIFICATION FairSpec
PROPERTIES SendReturns ReportReachesHost
