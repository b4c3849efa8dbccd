SPECIFICATION Spec
CONSTANTS
  w1 = w1 w2 = w2 u1 = u1 b1 = b1 b2 = b2
  Workers = {w1, w2}
  Uploads = {u1}
  Parts = {1, 2}
  Bodies = {b1, b2}
  Requests <- Uploading
  Overlap = FALSE
  Crashes = TRUE
  DiskFaults = TRUE
  None = None
  Torn = Torn
  NoWorker = NoWorker
SYMMETRY Symmetry
INVARIANTS
  
  
  SettledUploads
PROPERTIES
  CommittedBytes
