SPECIFICATION LiveSpec
CONSTANTS
  d1 = d1
  Conns = {c1}
  Dialogs = {d1}
  Events = {e1, e2, e3}
  DialogOf <- OneDialog
  Missing = Missing
  SendCap = 1
  MaxBroadcasting = 2
INVARIANTS
  HubTypeOK
PROPERTIES
  BroadcastEnds
  QueuedIsWritten
  LostClientFlagged
