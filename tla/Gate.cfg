SPECIFICATION GateSpec
CONSTANTS
  c1 = c1
  c2 = c2
  v1 = v1
  u1 = u1
  u2 = u2
  i1 = i1
  Conn = {c1, c2}
  Sub = {s1}
  Host = {h1}
  ClientId = {k1}
  Anonymous = anon
  Visitor = {v1}
  User = {u1, u2}
  Ip = {i1}
  UserOf <- MCUserOf
  IpOf <- MCIpOf
  HomeOf <- MCHomeOf
  Mgmt = mgmt
  Wildcard = TRUE
  None = None
INVARIANTS GateTypeOK NobodyUnchecked
PROPERTIES GetsIn
