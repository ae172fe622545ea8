SPECIFICATION Spec
CONSTANTS
  Email = {m1, m2}
  Password = {w1, w2}
  Request = {r1, r2, r3, r4}
  Faults = TRUE
  None = None
SYMMETRY Symmetry
INVARIANTS
  TypeOK
  OneWinner
  RegisteredMayLogin
  WelcomeIsOwner
PROPERTIES
  ImplementsAccounts
