SPECIFICATION Spec
CONSTANTS
  Browser = {b1, b2}
  Admin = {a1}
  User = {u1, u2}
  Cred = {c1, c2}
  Token = {t1}
  Sub = {s1}
  None = None
SYMMETRY Symmetry
INVARIANTS AccessTypeOK CredentialsOwned DeletedIsForgotten
PROPERTIES OneRedeemer
