SPECIFICATION FairLogin
CONSTANTS
  t1 = t1
  t2 = t2
  b1 = b1
  b2 = b2
  s1 = s1
  s2 = s2
  Absent = Absent
  Tabs = {t1, t2}
  Browsers = {b1, b2}
  Subs = {s1, s2}
  Issuers = {idp, other}
  idp = idp
  FirstConfig = idp
  Places <- OneOrTwo
  FirstRoles <- Newcomer
  MaxIssued = 3
  MaxMoves = 1
  MaxFaults = 1
CHECK_DEADLOCK FALSE
INVARIANT LoginStaysInBrowser
PROPERTY LoginSettles
