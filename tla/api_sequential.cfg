SPECIFICATION Spec
CONSTANTS
  ann = ann
  bob = bob
  cid = cid
  d1 = d1
  d2 = d2
  ghost = ghost
  nil = nil
  Users = {ann, bob, cid}
  Dialogs = {d1, d2}
  Missing = Missing
  Opened <- TwoOpened
  PageMax = 3
  PageDefault = 2
  LastMessagesLimit = 2
  Requests = {r1, r2, r3, r4}
  Ops = {"postMessage", "listMessages", "unreadCount", "listDialogs"}
  Faults = {}
  MaxInFlight = 1
  MaxSending = 2
  MaxContent = 2
  Strangers = {ghost}
  NilId = nil
  MaxParticipants = 2
  Lengths = {2}
  Limits = {1}
  Invitations <- SomeInvitations
SYMMETRY Symmetry
INVARIANTS
  UnreadExact
  PagesStayInside
