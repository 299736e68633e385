\* Two callers, kills, failing steps and edits of the published directory.
CONSTANTS
  Procs = {p1, p2}
  Nobody = Nobody
  Requests = {r1, r2, partial}
  Incomplete = {partial}
  MaxDirs = 3
  MaxEdits = 2
  NoSummary = NoSummary
SYMMETRY Symmetry
SPECIFICATION Spec

  
PROPERTIES
  WorkStands
CHECK_DEADLOCK FALSE
