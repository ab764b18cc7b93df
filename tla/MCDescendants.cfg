CONSTANTS
  Pid = {l, p, q}
  Leader = l
  Init1 = Init1
  Nobody = Nobody
  MaxTime = 2
  MaxRecorded = 1
SYMMETRY Symmetry
SPECIFICATION Spec
INVARIANTS
  QuietScanFindsAll
PROPERTIES
  RecordIsTrue
