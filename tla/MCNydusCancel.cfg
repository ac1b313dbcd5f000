SPECIFICATION LiveSpec
CONSTANTS
  Parts = {"nydus"}
  Containers = {c}
  Clients = {p, q}
  NoClient = NoClient
  Signallers = {q}
  Tasks = {"t", "v"}
  NoTask = NoTask
  Workers = {"w", "x"}
  QueueCap = 1
  WithCallback = {"t", "v"}
  NoRetryConfig = {"v"}
  MaxAttempts = 2
  Cancelled = {"t", "v"}
  Retried = {"t"}
  MaxRetries = 1
  MaxLines = 3
  LookupFails = TRUE
PROPERTIES CancelledForGood
