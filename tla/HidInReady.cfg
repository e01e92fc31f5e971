CONSTANTS
  Eps = {EP1, EP2}
  LiveEps = {EP1}
  Size = 2
  Bytes = {0, 1, 2, 9}
  Zero = 0
  Reports <- FewReports
  Halts = {}
  Resets = TRUE
  Descriptors = FALSE
  Stray = 2
  Nothing = Nothing
  Junk = Junk
SPECIFICATION Spec
PROPERTY ReadyToWrite
