SPECIFICATION LanSpec
CONSTANTS
  Conn = {c1, c2}
  Visitor = {v1}
  Sub = {s1}
  Host = {h1}
  ClientId = {anon, k1}
  Anonymous = anon
  None = None
  IP = {i1, i2}
INVARIANTS LanTypeOK RecordOfLoneTunnel
SYMMETRY Symmetry
