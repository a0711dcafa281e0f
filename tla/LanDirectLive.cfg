SPECIFICATION LanFairSpec
CONSTANTS
  Conn = {c1, c2}
  Visitor = {v1}
  Sub = {s1}
  Host = {}
  ClientId = {k1}
  Anonymous = anon
  None = None
  IP = {i1}
PROPERTIES DeadNameFreed PreemptedEnds TeardownEnds
