SPECIFICATION ApiSpec
CONSTANTS
  r1 = r1
  r2 = r2
  r3 = r3
  r4 = r4
  k1 = k1
  k2 = k2
  b1 = b1
  b2 = b2
  Requests = {r1, r2, r3, r4}
  Keys = {k1, k2}
  KeyOf <- MCKeyOf
  BodyOf <- MCBodyOf
  Limit = 2
  NONE = NONE
  REFUSED = REFUSED
INVARIANT AdmittedWithinLimit
PROPERTIES KeyPerformsOnce NoKeyIsStuck
CHECK_DEADLOCK FALSE
