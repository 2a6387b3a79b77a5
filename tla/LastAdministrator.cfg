SPECIFICATION MembershipsSpec
CONSTANTS
  founder = founder
  colleague = colleague
  t1 = t1
  t2 = t2
  n1 = n1
  People <- MCPeople
  Founders <- MCFounders
  Calls <- MCCalls
  Names <- MCNames
  Assigned <- MCAssigned
  MaxOrganizations = 1
INVARIANT AdministratorRemains
CHECK_DEADLOCK FALSE
