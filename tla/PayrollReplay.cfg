\* A request is repeated while the first one has not been answered yet.
SPECIFICATION Spec
CONSTANTS
  s1 = s1
  s2 = s2
  c1 = c1
  c2 = c2
  t1 = t1
  t2 = t2
  t3 = t3
  e1 = e1
  e2 = e2
  q1 = q1
  q2 = q2
  Nobody = Nobody
  MinDay = 0
  MaxDay = 3
  MonthStarts <- ShortMonths
  HalfMonth = 2
  Week = 1
  Administrators = {a1}
  Sessions = {s1, s2}
  Savers = {c1, c2}
  Employees = {e1}
  Tokens = {t1, t2}
  Requests = {q1, q2}
  Frequencies = {"weekly", "semimonthly"}
  OvertimeEnabled = FALSE
  EmployeeLimit = 1
  FirstDay = 2
  FirstFrequency = "semimonthly"
  StartDates = {0}
  HireDates = {0}
  CardDates = {}
  Ranges <- PastOrOngoing
  MaxUnderWay = 2
  MaxEdits = 2
  MaxSettings = 1
  MaxSchedules = 2
INVARIANT
  ReplayIsAnswered
CHECK_DEADLOCK FALSE
