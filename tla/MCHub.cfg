SPECIFICATION Spec
CONSTANTS
  Users = {u1, u2}
  Clients <- OneReturns
  Senders = {monitor}
  Run = run
  NoClient = none
  BufferSize = 1
  QueueSize = 1
INVARIANTS
  TypeOK
  RunNeverPanics
  RegisteredOpen
PROPERTIES
  NoGaps
  OwnReasonToLeave
  NoLeak
ACTION_CONSTRAINT OneLasts
CHECK_DEADLOCK FALSE
