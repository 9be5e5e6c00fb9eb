SPECIFICATION MetricsSpec
INVARIANT SnapshotAddsUp
CONSTANTS
  StatusCodes = {200, 400}
  Latencies = {0, 2}
  MeteredOrigins = {"o", "p"}
  MaxRecorded = 2
