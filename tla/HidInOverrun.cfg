CONSTANTS
  Eps = {EP1}
  LiveEps = {EP1}
  Size = 2
  Bytes = {0, 1, 2, 9}
  Zero = 0
  Reports <- FewReports
  Halts = {"CLEAR", "SET"}
  Resets = TRUE
  Descriptors = TRUE
  Stray = 2
  Nothing = Nothing
  Junk = Junk
SPECIFICATION Spec
INVARIANTS TypeOK WholeReports
PROPERTY IsPipe
