SPECIFICATION Spec
CONSTANTS
  d1 = d1
  Conns = {c1, c2}
  Dialogs = {d1, d2}
  Events = {e1, e2}
  DialogOf <- OneDialog
  Missing = Missing
  SendCap = 2
  MaxBroadcasting = 2
SYMMETRY Symmetry
INVARIANTS
  OwnEventsOnce
  ClosedMeansShut
  ShutdownMissesNoSubscriber
PROPERTIES
  ImplementsFeed
