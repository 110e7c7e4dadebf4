SPECIFICATION Spec
CONSTANTS
  None = None
  c1 = c1
  c2 = c2
  c3 = c3
  r1 = r1
  r2 = r2
  admin = admin
  user = user
  a1 = a1
  s1 = s1
  s2 = s2
  v1 = v1
  Commands = {c1, c2}
  Rooms = {r1, r2}
  Users = {admin, user}
  Admins = {admin}
  StaticAgents = {s1, s2}
  Names = {a1}
  Purposes = {"catch-all", "text-generation"}
  Values = {v1}
  CommandsAdminOnly = FALSE
SYMMETRY Symmetry
INVARIANTS
  TypeOK
  AgentsAreDeclared
  HandlersNameDeclared
PROPERTIES
  AccessChangesByAdmins
  UndisturbedCommandIsExact
CHECK_DEADLOCK FALSE
