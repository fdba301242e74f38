CONSTANTS
  Settle = 2
  Dim = 0
  Divisor = 19
  Parts = 10
  Accum = 2
  Level = 100
  Period = 5
  MaxRequests = 2
SPECIFICATION Spec
INVARIANTS WholeMean OnlyDark
