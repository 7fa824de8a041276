SPECIFICATION FetchSpec
CONSTANTS
  Workers = {w1, w2}
  Stallers = {w2}
  Rate = 1
  MaxWindow = 2
  MaxCount = 3
  Crawlers = {w1}
  Paths <- AskedPaths
  Bodies <- ServedBodies
  Unreadable = Unreadable
  RobotsTTL = 1
  AllowDynamic = TRUE
  Pieces <- AllPieces
  SampleBodies <- ShortBodies
  SamplePaths <- AllPaths
INVARIANTS
  Metered
  Agreement
PROPERTIES
  RobotsHonoured
