SPECIFICATION ClientSpec
CONSTANTS
  None = "none"
  Callers <- Goroutines
  Blocks <- FileBlocks
  MaxExpired = 2
INVARIANTS TypeOK RetryHasNewerToken WholeBodies
