\* Baselines up to 4 postings, one retry; three postings that say one of three things.
SPECIFICATION EitherSpec
CONSTANTS
  MaxFound = 4
  MinBaseline = 2
  MaxRetries = 1
  MinInterval = 1
  MaxInterval = 3
  Postings = {p1, p2, p3}
  NoContent = NoContent
  Contents <- MCContents
  Padded = {"padded"}
  NoBody = "none"
SYMMETRY Symmetry
INVARIANTS
  StrikesConfirmed
  Mirrored
PROPERTIES
  IntervalFollows
