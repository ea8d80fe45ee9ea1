SPECIFICATION Spec
CONSTANTS
  r1 = r1
  r2 = r2
  r3 = r3
  r4 = r4
  r5 = r5
  ip = ip
  NoVerdict = NoVerdict
  NoHeader = NoHeader
  Requests <- MCRequests
  Keys <- MCKeys
  Limits <- MCLimits
  Window = 2
  Second = 2
  MaxLen = 3
  MaxTime = 5
INVARIANT TypeOK
PROPERTIES
  ImplementsWindow
  HeaderIsSafe
  RetrySuffices
SYMMETRY Interchangeable
CHECK_DEADLOCK FALSE
