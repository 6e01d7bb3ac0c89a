SPECIFICATION LiveSpec
CONSTANTS
  ann = ann
  bob = bob
  cid = cid
  d1 = d1
  d2 = d2
  ghost = ghost
  nil = nil
  Users = {ann, bob}
  Dialogs = {d1, d2}
  Missing = Missing
  Opened <- OneOpened
  PageMax = 3
  PageDefault = 2
  LastMessagesLimit = 2
  Requests = {r1, r2}
  Ops = {"postMessage", "listMessages", "unreadCount", "createDialog", "listDialogs", "getDialog", "deleteDialog"}
  Faults = {"store", "redis", "resend", "expiry", "crash"}
  MaxInFlight = 2
  MaxSending = 2
  MaxContent = 2
  Strangers = {ghost}
  NilId = nil
  MaxParticipants = 2
  Lengths = {2, 3}
  Limits = {0, 1}
  Invitations <- SomeInvitations
INVARIANTS
  TypeOK
  MembersOnly
  CacheOnlyStored
  AckedIsDurable
  DialogsWhole
  DeletedOnce
PROPERTIES
  OnlyCreatorDeletes
  ImplementsChatLog
  EveryRequestAnswered
