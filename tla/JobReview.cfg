\* One admin, two users, two reports to be reviewed; two duplicates marked at once
\* among three jobs.
SPECIFICATION EitherSpec
CONSTANTS
  Admins = {a1}
  Users = {u1, u2}
  Scraper = s
  Titles = {"found"}
  Threshold = 2
  MaxLost = 1
  Jobs = {j1, j2, j3}
  Markers = {m1, m2}
  Writers = {w1}
  NoJob = NoJob
SYMMETRY Symmetry
INVARIANTS
  UsersHeard
  PublicationFollowsAdmins
  CyclesNeedRaces
PROPERTIES
  EditsKept
