SPECIFICATION Spec
CONSTANTS
  Users = {u1}
  Clients <- OneReturns
  Senders = {monitor}
  Run = run
  NoClient = none
  BufferSize = 1
  QueueSize = 1
INVARIANTS
  ReconnectsHarmless
CHECK_DEADLOCK FALSE
