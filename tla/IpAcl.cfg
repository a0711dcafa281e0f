SPECIFICATION AclSpec
CONSTANTS
  one = one
  net = net
  here = here
  near = near
  zoned = zoned
  Sub = {s1, g}
  GlobalName = g
  Entry = {one, net}
  Addr = {here, near, zoned}
  Covers <- EntryCovers
  Unread = {zoned}
  None = None
INVARIANTS AclTypeOK AnswersHold BlockedStayOut
PROPERTY RestartKeepsVerdicts
