SPECIFICATION Spec
CONSTANTS
  u1 = u1
  u2 = u2
  o1 = o1
  o2 = o2
  x = x
  Orgs <- MCOrgs
  Users <- MCUsers
  Personal <- MCPersonal
  Kinds <- MCKinds
  Alerts <- MCAlerts
  Accounts <- MCAccounts
  Urls = {x}
  Scans = {scan1, scan2}
  Readers = {r1, r2}
  Creators = {w1, w2}
  None = None
  MaxRequests = 3
  MaxScans = 2
SYMMETRY MCSymmetry
CHECK_DEADLOCK FALSE
INVARIANTS
  TypeOK
  EachAlertOnce
  ReplyIsCurrentOrRaced
  UrlOfAMember
