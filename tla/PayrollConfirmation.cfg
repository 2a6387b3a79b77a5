\* Two previews or confirmations at once, while employees are edited, pay
\* settings saved, timecards approved, the schedule changed and runs completed.
\* Overtime is enabled: a payroll pays by approved timecards.  With every bound
\* reached and nothing under way, nothing is left to do.
SPECIFICATION MCSpec
CONSTANTS
  s1 = s1
  s2 = s2
  c1 = c1
  c2 = c2
  t1 = t1
  t2 = t2
  t3 = t3
  e1 = e1
  e2 = e2
  q1 = q1
  q2 = q2
  Nobody = Nobody
  MinDay = 0
  MaxDay = 3
  MonthStarts <- ShortMonths
  HalfMonth = 2
  Week = 1
  Administrators = {a1}
  Sessions = {s1, s2}
  Savers = {c1}
  Employees = {e1}
  Tokens = {t1, t2}
  Requests = {q1, q2}
  Frequencies = {"weekly", "semimonthly"}
  OvertimeEnabled = TRUE
  EmployeeLimit = 1
  FirstDay = 2
  FirstFrequency = "semimonthly"
  StartDates = {0}
  HireDates = {0}
  CardDates = {0, 2}
  Ranges <- PastOrOngoing
  MaxUnderWay = 2
  MaxEdits = 2
  MaxSettings = 2
  MaxSchedules = 2
INVARIANTS
  TypeOK
  OneOpenRun
  ConfirmedAsPreviewed
  FrozenIsCurrent
  InsertionNeverRefused
  LockProtects
PROPERTIES
  ImplementsLedger
SYMMETRY Symmetry
CHECK_DEADLOCK FALSE
