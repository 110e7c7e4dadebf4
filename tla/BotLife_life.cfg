CONSTANTS
  None = None
  Unset = None
  Locales = {"en", "ru"}
  CommandHeads = {"usage", "config"}
  StaticIds = {"static/a", "static/gone"}
  MaxStarts = 3
  MaxMishaps = 2
  MaxOthers = 1
  MaxCommands = 2
  Rooms = {"r1", "r2"}
  Crowded = {"r2"}
  Deployments <- MCDeployments
  Agents <- MCAgents
  RoomLocal <- MCRoomLocal
  Numbers <- MCNumbers
  Texts <- MCTexts
SPECIFICATION
  Spec
INVARIANTS
  SignInIsAccounted
  UpAsConfigured
  StatusTellsTruth
PROPERTIES
  NothingLostWithoutConsent
  CommandTakesEffect
  StartsComeUp
CHECK_DEADLOCK FALSE
