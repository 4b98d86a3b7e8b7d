SPECIFICATION UploadSpec
SYMMETRY Symmetry
CONSTANTS
  r1 = r1
  r2 = r2
  Records = {r1, r2}
  ByName = TRUE
  Uploads = {u1, u2}
  Workers = {w1, w2}
  Times = {1, 2}
  Batches <- MCBatches
  MaxClock = 2
  MaxRetries = 1
  MaxTroubles = 2
INVARIANTS UploadTypeOK CompletedIsWhole NoneDropped LockEndsWithUpload
PROPERTIES NoUploadUndoesAnother
CHECK_DEADLOCK FALSE
