SPECIFICATION Spec
CONSTANTS
  c1 = c1  c2 = c2
  s1 = s1  s2 = s2
  ann = ann
  Conn <- TwoConns
  Sid <- TwoSids
  User <- Users
  Admin = Admin
  Role = {"admin"}
  Editor = {"admin"}
  NoRole = "0"
  Nobody = Nobody
  MaxClients = 2
  MaxSessions = 1
  MaxAge = 1
  RetryThrottle = 0
  MaxLogins = 2
INVARIANTS
  SessionsTypeOK ClientsCounted SessionOutlivesRequest SessionActsForOldest
PROPERTIES
  UsedSessionStays
SYMMETRY Symmetry
