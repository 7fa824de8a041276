\* Two postings, one admin request beside the run; one exam cycle, two editors.
SPECIFICATION EitherSpec
CONSTANTS
  Jobs = {j1, j2}
  Admins = {a1}
  None = None
  Editors = {e1, e2}
  Edited = {"result_date"}
  MaxDate = 2
  MaxChanges = 2
SYMMETRY Symmetry
INVARIANTS
  RowsFit
  RowsAgree
  DatesLogged
  ServiceSuffices
PROPERTIES
  AdminDecisionStands
  KeepsPromise
