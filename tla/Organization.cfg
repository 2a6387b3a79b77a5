SPECIFICATION OrganizationSpec
CONSTANTS
  s1 = s1
  s2 = s2
  w1 = w1
  w2 = w2
  e1 = e1
  m1 = m1
  m2 = m2
  a1 = a1
  founder = founder
  colleague = colleague
  t1 = t1
  t2 = t2
  n1 = n1
  n2 = n2
  Subjects <- MCSubjects
  Executions <- MCExecutions
  BatchSize = 1
  MaxRows = 2
  MaxRequests = 2
  MaxFaults = 1
  Employees <- MCEmployees
  ManagerOf <- MCManagerOf
  Managers <- MCManagers
  Administrators <- MCAdministrators
  None = None
  MaxRetryId = 2
  MaxDay = 1
  MaxLeaves = 2
  People <- MCPeople
  Founders <- MCPeople
  Calls <- MCCalls
  Assigned <- MCAssigned
  Names <- MCNames
  MaxOrganizations = 2
  Nobody = Nobody
  MaxEmployees = 2
  MaxAt = 3
  Millisecond = 2
  Ids = {1, 2, 3}
  PageSize = 2
INVARIANTS
  TypesOK
  LeaveFollowsHistory
  FoundsOnce
  AccessAgrees
  ListedOnce
PROPERTIES
  ErasedWhenCompleted
  HoldsStop
  DeletionSettles
CHECK_DEADLOCK FALSE
