SPECIFICATION Spec
CONSTANTS
  d1 = d1
  Conns = {c1, c2}
  Dialogs = {d1}
  Events = {e1}
  DialogOf <- OneDialog
  Missing = Missing
  SendCap = 1
  MaxBroadcasting = 2
SYMMETRY Symmetry
INVARIANTS
  AllClosedAtShutdown
