SPECIFICATION EitherSpec
CONSTANTS
  Urls = {u1, u2}
  Detectors = {d1}
  Requests = {a1}
  Scrapes = {t1}
  None = None
  board = board
  careers = careers
  sub = sub
  deep = deep
  UrlOrder <- MCUrlOrder
  Traits <- MCTraits
  Guesses <- MCGuesses
  Paths <- MCPaths
  Subdomains <- MCSubdomains
  Sites <- MCSites
  MaxChecks = 12
  MaxDocs = 2
  MaxProbes = 3
  MaxCandidates = 3
  MinScore = 20
  ShortCircuit = 60
SYMMETRY Symmetry
CHECK_DEADLOCK FALSE
INVARIANTS
  HistoryComplete
  CurrentIsCareerUrl
  ApprovalSettles
  ChecksKept
  ForeignAnswersRejected
  LeadsFound
PROPERTIES
  DetectionProposes
  EvidenceKept
