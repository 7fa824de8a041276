SPECIFICATION EitherSpec
CONSTANTS
  Companies = {c1, c2}
  Services = {r1}
  Sites = {s1}
  Boards = {b1, b2}
  Tenants = {}
  None = None
  Mistyped = {s1}
  MaxScrapes = 1
  Users = {u1}
  Requests = {q1, q2}
  ChecksActive = FALSE
  MaxTokens = 3
  MaxPasswords = 2
SYMMETRY Symmetry
INVARIANTS
  NoTwins
  ChecksSuffice
  ArchivedHidden
  ChangeEndsSessions
  SessionLinear
  WritesKept
CHECK_DEADLOCK FALSE
