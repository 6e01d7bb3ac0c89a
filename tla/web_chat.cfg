SPECIFICATION WebLiveSpec
CONSTANTS
  d1 = d1
  Conns = {c1, c2, c3}
  Dialogs = {d1}
  Events = {e1, e2}
  DialogOf <- OneDialog
  Missing = Missing
  Own = {e1}
  Here = d1
  PageDefault = 2
INVARIANTS
  AddedOnce
  OneSocketAtATime
  MissesOnlyTheGap
  SocketsInOrder
PROPERTIES
  ScreenKeeps
  UnmountedGoesQuiet
