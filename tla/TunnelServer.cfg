SPECIFICATION Spec
CONSTANTS
  Conn = {c1, c2, c3}
  Visitor = {v1}
  Sub = {s1, s2}
  Host = {h1}
  ClientId = {anon, k1}
  Anonymous = anon
  None = None
SYMMETRY Symmetry
INVARIANTS TypeOK HostsAgree NoCorpse NoOrphan
PROPERTIES OnlyLawfulLoss ImplementsDirectory
