CONSTANTS
  Requests = {r1, r2}
  Exporters = {traces, metrics}
  NatsTimeout = 3
  ShutdownTimeout = 5
  OtelTimeout = 5
  MaxSignals = 2
  MaxReconnects = 3
SPECIFICATION Spec
CHECK_DEADLOCK FALSE
INVARIANTS
  NothingLeaks
