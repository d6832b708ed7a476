CONSTANTS
  MaxChanges = 2
  MaxFaults = 1
  Varied = {2}
  MaxEvents = 6
  QueueSize = 1
  Attempts = 2
  MaxTicks = 3
  MaxObjectEvents = 2
  MaxTimeouts = 1
  Queues = {"nats", "kafka", "azure"}
  NumMessages = 2
  Retries = 1
  MaxDeliveries = 2
SPECIFICATION Spec
INVARIANTS HandledBeforeGone StoppedIsQuiet 
PROPERTY SourcesSettle
