SPECIFICATION BothSpec
CONSTANTS
  None = None
  Users = {ann}
  Admin = admin
  Clients = {c1, c2}
  Addrs = {home}
  OpenMode = FALSE
  Window = 1
  MaxAttempts = 2
  Lockout = 2
  MaxTime = 3
  MaxSecrets = 7
  MaxActs = 3
  Names = {google, dav}
  Colls = {work}
  Passwords = {p1}
  Flows = {f1, f2}
  OAuthClients = {k1}
  Desktop = desktop
  Workers = {w1, w2}
  Nothing = Nothing
  Blank = Blank
  Torn = Torn
  MaxRequests = 4
  HandAccounts = {}
  HandColls <- MCHandColls
  Persons = {"ann", "bob"}
  Boards = {"todo", "done"}
  Moves = {"move"}
  MaxSessions = 3
  MaxFetches = 2
  MaxTurns = 2
INVARIANTS
  UsedOnce
  NothingOutlives
  TargetsResolve
  PagesSound
PROPERTIES
  LockHolds
CHECK_DEADLOCK FALSE
SYMMETRY Symmetry
