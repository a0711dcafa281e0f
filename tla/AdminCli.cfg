SPECIFICATION Spec
CONSTANTS
  u1 = u1
  u2 = u2
  k1 = k1
  alice = alice
  Cli = {c1, c2}
  Rule = {r1}
  Token = {t1}
  User = {u1, u2}
  Cred = {k1}
  Sub = {s1}
  Name = {alice}
  NameOf <- MCNameOf
  OwnerOf <- MCOwnerOf
  Typed = {alice}
  None = None
  MaxFaults = 1
  MaxCommands = 3
SYMMETRY Symmetry
INVARIANTS AdminTypeOK ToldHolds RefusalIsHarmless
CHECK_DEADLOCK FALSE
