SPECIFICATION Spec
CONSTANTS
  None = None
  c1 = c1
  c2 = c2
  c3 = c3
  r1 = r1
  r2 = r2
  admin = admin
  user = user
  a1 = a1
  s1 = s1
  s2 = s2
  v1 = v1
  Commands = {c1, c2, c3}
  Rooms = {r1}
  Users = {admin, user}
  Admins = {admin}
  StaticAgents = {}
  Names = {a1}
  Purposes = {"catch-all"}
  Values = {v1}
  CommandsAdminOnly = FALSE
SYMMETRY Symmetry
CONSTRAINT RoomCommands
PROPERTIES
  UsersCannotCreateAgents
CHECK_DEADLOCK FALSE
