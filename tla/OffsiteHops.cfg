SPECIFICATION PipelineSpec
CONSTANTS
  board = board
  careers = careers
  sub = sub
  deep = deep
  UrlOrder <- MCUrlOrder
  Traits <- MCTraits
  Guesses <- MCGuesses
  Paths <- MCPaths
  Subdomains <- MCSubdomains
  Sites <- MCSites
  MaxChecks = 12
  MaxDocs = 2
  MaxProbes = 3
  MaxCandidates = 3
  MinScore = 20
  ShortCircuit = 60
CHECK_DEADLOCK FALSE
INVARIANTS
  OffCompanyHopsDead
