\* One admin and one user are enough: a published job is reported and rejected.
SPECIFICATION EitherSpec
CONSTANTS
  Admins = {a1}
  Users = {u1}
  Scraper = s
  Titles = {"found"}
  Threshold = 1
  MaxLost = 0
  Jobs = {j1, j2}
  Markers = {m1}
  Writers = {}
  NoJob = NoJob
PROPERTIES
  RejectionHides
