SPECIFICATION LiveSpec
CONSTANTS
  Scraper = s
  Detectors = {d1}
  MaxVersion = 3
  Empty = {3}
INVARIANTS
  Vouched
  SkipsOnlyApplied
PROPERTIES
  KeepsUp
