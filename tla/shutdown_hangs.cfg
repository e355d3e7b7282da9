CONSTANTS
  r1 = r1
  c1 = c1
  c2 = c2
  Requests <- OneRequest
  Maintenance = Maintenance
  Closers <- OneCloser
  Outcomes = {"ok", "failed"}
  Cancellable <- Nobody
  MaxCancels = 0
SPECIFICATION PromptSpec
PROPERTIES CloseCloses
CHECK_DEADLOCK FALSE
