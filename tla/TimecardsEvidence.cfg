SPECIFICATION MCSpec
CONSTANTS
  c1 = c1
  c2 = c2
  t1 = t1
  t2 = t2
  q1 = q1
  q2 = q2
  Calls = {c1, c2}
  Txs = {t1, t2}
  Keys <- SomeKeys
  NPeriods = 1
  PeriodDays = 2
  DayUnits = 2
  MaxNow = 4
  MaxIntervals = 2
  CorrectedSpans <- FirstDay
  Second = 2
  MinuteUnits = 4
  MaxIntervalUnits = 24
  BasisPoints = 2
  SheetDays <- ShortAndLongDays
  SheetInstants <- Instants
  SheetPays <- Pays
  SheetDeductions <- Deductions
SYMMETRY Symmetry
INVARIANT
  ApprovedAsAttended
CHECK_DEADLOCK FALSE
