SPECIFICATION Spec
CONSTANTS
  None = "none"
  Files <- TheFiles
  Callers <- Goroutines
  Walker = "walk"
  Blocks <- NoBlocks
  Chunks <- FileChunks
  Slots = 1
  MaxExpired = 2
INVARIANTS UploadTypeOK NeverAhead DoneMeansPublished
PROPERTY UploadsEnd
CHECK_DEADLOCK FALSE
