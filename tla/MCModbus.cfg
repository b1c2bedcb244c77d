SPECIFICATION Spec
CONSTANTS
  Slaves <- MCSlaves
  Polled <- MCPolled
  Lag <- MCLag
  Queued <- MCQueued
  Direct <- MCDirect
  HoldingCount = 3
  Locked = {2}
  Values = {0, 1}
  Clock = 7
  Silence = 1
  Timeout = 5
  MaxRetries = 1
  QueueSize = 2
  MaxRequests = 2
  MaxFaults <- MCMaxFaults
  None = None
  Junk = Junk
INVARIANTS OwnAnswer AckedStands
PROPERTIES GivesUpForAReason Answered
