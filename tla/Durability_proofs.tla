-------------------------- MODULE Durability_proofs --------------------------
(***************************************************************************)
(* What was acknowledged, broadcast or cached is stored, dialogs come      *)
(* whole and go once, and the server implements ChatLog: theorems about    *)
(* MessagingApi for every value of its constants and every fault.  They    *)
(* rest on the invariant Owned of MessagingApi_proofs.                     *)
(***************************************************************************)
EXTENDS MessagingApi_proofs

(* m was stored, and still is unless its whole dialog has been deleted. *)
Stored(m) == m.dialog \in minted /\ (Live(m.dialog) => m \in messages)

AfterInsert == {"count", "push", "broadcast"}

(* The INSERT of r has been confirmed to its handler. *)
Confirmed(r) ==
  req[r].pc \in AfterInsert \/ (req[r].op = "postMessage" /\ reply[r].status = "created")

CreatedDone == \A r \in Requests : reply[r].status = "created" => req[r].pc = "done"

CachedStored ==
  \A d \in Dialogs : \A m \in ToSet(lastMessages[d]) : m.dialog = d /\ Stored(m)

Durable ==
  /\ Owned /\ CreatedDone /\ CachedStored
  /\ \A r \in Requests : Confirmed(r) => Stored(MessageOf(r))
  /\ \A m \in published : Stored(m)

-----------------------------------------------------------------------------
(* Once stored, a message goes only with its dialog, and a deleted dialog  *)
(* does not come back.                                                     *)
LEMMA StoredKept ==
  ASSUME Typed, StoreEffect, NEW m, Stored(m)
  PROVE  Stored(m)'
<1>1. m.dialog \in minted' /\ (Live(m.dialog)' => Live(m.dialog))
  BY KnownKept DEF Stored
<1>2. ASSUME m \in messages, Live(m.dialog)' PROVE m \in messages'
  <2>1. ASSUME NEW d, DeleteDialogRow(d) PROVE m \in messages'
    <3>1. dialogs \in [Dialogs -> Dialog \cup {Missing}] /\ m.dialog \in Dialogs
      BY <1>2 DEF Typed, StoreTyped, StoreTypeOK, Message
    <3>2. m.dialog # d
      BY <1>2, <2>1, <3>1 DEF DeleteDialogRow, Live
    <3> QED BY <1>2, <2>1, <3>2 DEF DeleteDialogRow, MessagesOf
  <2> QED BY <1>2, <2>1 DEF StoreEffect, InsertMessage, TouchRead, CreateDialogTx
<1> QED BY <1>1, <1>2 DEF Stored

LEMMA InsertStores ==
  ASSUME LiveMinted, NEW m, m.dialog \in Dialogs, InsertMessage(m)
  PROVE  Stored(m)'
BY DEF LiveMinted, Stored, InsertMessage, Live

-----------------------------------------------------------------------------
(* A step confirms no message but one that it inserts.                     *)

Confirms ==
  \A q \in Requests :
    /\ reply'[q].status = "created" => req'[q].pc = "done"
    /\ Confirmed(q)' =>
         /\ MessageOf(q)' = MessageOf(q)
         /\ Confirmed(q) \/ (req[q].pc = "insert" /\ InsertMessage(MessageOf(q)))

(* Only r moves, and neither to a 201 answer nor past its INSERT. *)
Unconfirming(r) ==
  /\ \A q \in Requests \ {r} : req'[q] = req[q] /\ reply'[q] = reply[q]
  /\ reply'[r].status # "created"
  /\ req'[r].pc \notin AfterInsert

LEMMA UnconfirmingStep ==
  ASSUME CreatedDone, NEW r \in Requests, Unconfirming(r)
  PROVE  Confirms
BY DEF CreatedDone, Unconfirming, Confirms, Confirmed, MessageOf

LEMMA FinishConfirms ==
  ASSUME Typed, CreatedDone, NEW r \in Requests, NEW status, Finish(r, status),
         \/ status # "created"
         \/ req[r].op # "postMessage"
         \/ req[r].pc \in AfterInsert
  PROVE  Confirms
<1>1. /\ \A q \in Requests \ {r} : req'[q] = req[q] /\ reply'[q] = reply[q]
      /\ reply'[r].status = status /\ req'[r] = [req[r] EXCEPT !.pc = "done"]
      /\ req[r] \in Request
  BY DEF Finish, Typed, RequestsTyped, RequestsTypeOK, Reply
<1>2. req'[r].pc = "done" /\ req'[r].op = req[r].op /\ MessageOf(r)' = MessageOf(r)
  BY <1>1 DEF Request, MessageOf
<1> QED BY <1>1, <1>2 DEF CreatedDone, Confirms, Confirmed, MessageOf, AfterInsert

LEMMA GotoConfirms ==
  ASSUME Typed, CreatedDone, NEW r \in Requests, req[r].pc # "done", NEW pc, Goto(r, pc),
         \/ pc \notin AfterInsert
         \/ req[r].pc \in AfterInsert
         \/ req[r].pc = "insert" /\ InsertMessage(MessageOf(r))
  PROVE  Confirms
<1>1. /\ \A q \in Requests \ {r} : req'[q] = req[q] /\ reply'[q] = reply[q]
      /\ reply'[r] = reply[r] /\ req'[r] = [req[r] EXCEPT !.pc = pc]
      /\ req[r] \in Request
  BY DEF Goto, Typed, RequestsTyped, RequestsTypeOK
<1>2. req'[r].pc = pc /\ MessageOf(r)' = MessageOf(r) /\ reply[r].status # "created"
  BY <1>1 DEF Request, MessageOf, CreatedDone
<1> QED BY <1>1, <1>2 DEF CreatedDone, Confirms, Confirmed, MessageOf, AfterInsert

(* A request is edited in some other way, and its status stays. *)
LEMMA EditConfirms ==
  ASSUME Typed, CreatedDone, NEW r \in Requests, req[r].pc # "done",
         NEW f, req' = [req EXCEPT ![r] = f], f.pc \notin AfterInsert, UNCHANGED reply
  PROVE  Confirms
<1>1. Unconfirming(r)
  BY DEF Unconfirming, CreatedDone, Typed, RequestsTyped, RequestsTypeOK
<1> QED BY <1>1, UnconfirmingStep

LEMMA ReceiveConfirms ==
  ASSUME Typed, AllOnPath, CreatedDone, NEW r \in Requests, Receive(r)
  PROVE  Confirms
<1>0. req[r].pc = "new"
  BY DEF Receive, PostMessage, ListMessages, UnreadCount, GetDialog, DeleteDialog,
         CreateDialog, ListDialogs, CanStart
<1>1. req[r].op # "postMessage"
  BY <1>0 DEF AllOnPath, OnPath, Path
<1>2. ASSUME \E status : Finish(r, status) PROVE Confirms
  BY <1>1, <1>2, FinishConfirms
<1>3. ASSUME NEW f, f.pc \notin AfterInsert, req' = [req EXCEPT ![r] = f], UNCHANGED reply
      PROVE  Confirms
  BY <1>0, <1>3, EditConfirms
<1>4. ASSUME NEW u \in Users, NEW d \in Dialogs, NEW length \in Lengths, PostMessage(r, u, d, length)
      PROVE  Confirms
  <2> DEFINE e == [Entered("postMessage", u, d, "insert") EXCEPT !.at = clock]
  <2>1. e.pc \notin AfterInsert
    BY DEF Entered, AfterInsert
  <2> HIDE DEF e
  <2> QED BY <1>2, <1>3, <1>4, <2>1 DEF PostMessage, e
<1>5. ASSUME NEW e, e.pc \notin AfterInsert, EnterAsParticipant(r, e) PROVE Confirms
  BY <1>2, <1>3, <1>5 DEF EnterAsParticipant
<1>6. ASSUME NEW u \in Users, NEW d \in Dialogs, NEW limit \in Limits, NEW cursor \in CursorsHeld,
             ListMessages(r, u, d, limit, cursor)
      PROVE  Confirms
  <2> DEFINE e == [Entered("listMessages", u, d, IF cursor = Epoch THEN "lookup" ELSE "query")
                     EXCEPT !.limit = limit, !.cursor = cursor]
  <2>1. e.pc \notin AfterInsert
    BY DEF Entered, AfterInsert
  <2>2. EnterAsParticipant(r, e)
    BY <1>6 DEF ListMessages
  <2> HIDE DEF e
  <2> QED BY <1>5, <2>1, <2>2
<1>7. \A u, d : /\ Entered("unreadCount", u, d, "unread").pc \notin AfterInsert
                /\ Entered("getDialog", u, d, "detail").pc \notin AfterInsert
                /\ Entered("deleteDialog", u, d, "delete").pc \notin AfterInsert
  BY DEF Entered, AfterInsert
<1>8. ASSUME NEW u \in Users, NEW d \in Dialogs,
             UnreadCount(r, u, d) \/ GetDialog(r, u, d) \/ DeleteDialog(r, u, d)
      PROVE  Confirms
  BY <1>2, <1>3, <1>5, <1>7, <1>8 DEF UnreadCount, GetDialog, DeleteDialog
<1>9. ASSUME NEW u \in Users, ListDialogs(r, u) PROVE Confirms
  <2>1. ASSUME NEW d, NEW S,
               req' = [req EXCEPT ![r] = [Entered("listDialogs", u, d, "unread") EXCEPT !.todo = S]],
               UNCHANGED reply
        PROVE  Confirms
    <3> DEFINE e == [Entered("listDialogs", u, d, "unread") EXCEPT !.todo = S]
    <3>1. e.pc \notin AfterInsert
      BY DEF Entered, AfterInsert
    <3> HIDE DEF e
    <3> QED BY <1>3, <2>1, <3>1 DEF e
  <2> QED BY <1>2, <1>9, <2>1 DEF ListDialogs
<1>10. ASSUME NEW u \in Users, NEW ids \in Invitations, NEW named \in BOOLEAN,
              CreateDialog(r, u, ids, named)
       PROVE  Confirms
  BY <1>2, <1>10 DEF CreateDialog
<1> QED BY <1>4, <1>6, <1>8, <1>9, <1>10 DEF Receive

LEMMA ProceedConfirms ==
  ASSUME Typed, CreatedDone, NEW r \in Requests, Proceed(r)
  PROVE  Confirms
<1>0. /\ req[r].pc # "done" /\ reply[r].status # "created"
      /\ req \in [Requests -> Request] /\ reply \in [Requests -> Reply]
  <2>1. req[r].pc # "done"
    BY DEF Proceed, Insert, CountForOthers, PushLast, Broadcast, LookupPage, QueryPage,
           MarkRead, TouchReadMark, ResetUnreadMark, GetUnread, ReadSince, CountSince,
           GetDialogRow, DeleteRow
  <2> QED BY <2>1 DEF CreatedDone, Typed, RequestsTyped, RequestsTypeOK
<1>1. ASSUME NEW status, status # "created", Finish(r, status) PROVE Confirms
  BY <1>1, FinishConfirms
<1>2. ASSUME NEW pc, pc \notin AfterInsert, Goto(r, pc) PROVE Confirms
  BY <1>0, <1>2, GotoConfirms
<1>3. CASE Insert(r)
  <2>1. CASE req[r].pc = "insert" /\ InsertMessage(MessageOf(r)) /\ Goto(r, "count")
    BY <1>0, <2>1, GotoConfirms
  <2> QED BY <1>1, <1>3, <2>1 DEF Insert
<1>4. CASE CountForOthers(r) \/ PushLast(r)
  <2>1. req[r].pc \in AfterInsert
    BY <1>4 DEF CountForOthers, PushLast, AfterInsert
  <2>2. \E pc : Goto(r, pc)
    BY <1>4 DEF CountForOthers, PushLast
  <2> QED BY <1>0, <2>1, <2>2, GotoConfirms
<1>5. CASE Broadcast(r)
  <2>1. req[r].pc \in AfterInsert /\ Finish(r, "created")
    BY <1>5 DEF Broadcast, AfterInsert
  <2> QED BY <2>1, FinishConfirms
<1>6. CASE LookupPage(r) \/ QueryPage(r)
  <2>1. ASSUME NEW page, NEW next, TakePage(r, page, next) PROVE Confirms
    <3>1. Unconfirming(r)
      BY <1>0, <2>1 DEF Unconfirming, TakePage, Request, Reply, AfterInsert
    <3> QED BY <3>1, UnconfirmingStep
  <2> QED BY <1>1, <1>2, <1>6, <2>1 DEF LookupPage, QueryPage, AfterInsert
<1>7. ASSUME NEW t, NEW pc, pc \notin AfterInsert, UNCHANGED reply,
             req' = [req EXCEPT ![r].at = t, ![r].pc = pc]
      PROVE  Confirms
  <2>1. Unconfirming(r)
    BY <1>0, <1>7 DEF Unconfirming, Request
  <2> QED BY <2>1, UnconfirmingStep
<1>8. CASE MarkRead(r)
  BY <1>1, <1>7, <1>8 DEF MarkRead, AfterInsert
<1>9. CASE ReadSince(r)
  <2>1. UNCHANGED reply /\ \E t : req' = [req EXCEPT ![r].at = t, ![r].pc = "countSince"]
    BY <1>9 DEF ReadSince
  <2>2. "countSince" \notin AfterInsert
    BY DEF AfterInsert
  <2> QED BY <1>7, <2>1, <2>2
<1>10. CASE TouchReadMark(r) \/ ResetUnreadMark(r) \/ GetDialogRow(r) \/ DeleteRow(r)
  <2>1. \/ \E status \in {"ok", "deleted", "notFound", "internal"} : Finish(r, status)
        \/ \E pc \in {"reset", "unread"} : Goto(r, pc)
    BY <1>10 DEF TouchReadMark, ResetUnreadMark, GetDialogRow, DeleteRow
  <2> QED BY <1>1, <1>2, <2>1 DEF AfterInsert
<1>11. CASE GetUnread(r) \/ CountSince(r)
  <2>1. ASSUME NEW n, Counted(r, n) PROVE Confirms
    <3>1. reply'[r].status # "created" /\ \A q \in Requests \ {r} : reply'[q] = reply[q]
      <4> DEFINE s == IF req[r].todo = {} THEN "ok" ELSE reply[r].status
                 e == [reply[r] EXCEPT !.counts[req[r].dialog] = n, !.status = s]
      <4>1. s # "created" /\ reply' = [reply EXCEPT ![r] = e]
        BY <1>0, <2>1 DEF Counted
      <4>2. e.status = s
        BY <1>0 DEF Reply
      <4> HIDE DEF s, e
      <4> QED BY <1>0, <4>1, <4>2
    <3>2. /\ req'[r].pc \in {"done", "unread"}
          /\ \A q \in Requests \ {r} : req'[q] = req[q]
      BY <1>0, <2>1 DEF Counted, Request
    <3>3. Unconfirming(r)
      BY <3>1, <3>2 DEF Unconfirming, AfterInsert
    <3> QED BY <3>3, UnconfirmingStep
  <2> QED BY <1>1, <1>2, <1>11, <2>1 DEF GetUnread, CountSince, AfterInsert
<1> QED BY <1>3, <1>4, <1>5, <1>6, <1>8, <1>9, <1>10, <1>11 DEF Proceed

LEMMA ConfirmsStep ==
  ASSUME Typed, AllOnPath, CreatedDone, [Next]_vars
  PROVE  Confirms
<1>1. CASE Crash
  <2> SUFFICES ASSUME NEW q \in Requests
               PROVE  /\ reply'[q].status = "created" => req'[q].pc = "done"
                      /\ Confirmed(q)' => Confirmed(q) /\ MessageOf(q)' = MessageOf(q)
    BY DEF Confirms
  <2>0. req[q] \in Request /\ reply[q] \in Reply
    BY DEF Typed, RequestsTyped, RequestsTypeOK
  <2>1. CASE req'[q] = req[q] /\ reply'[q] = reply[q]
    BY <2>1 DEF CreatedDone, Confirmed, MessageOf
  <2>2. CASE req'[q] = [req[q] EXCEPT !.pc = "done"] /\ reply'[q].status = "lost"
    BY <2>0, <2>2 DEF Confirmed, Request, AfterInsert
  <2> QED BY <1>1, <2>0, <2>1, <2>2 DEF Crash, Reply
<1>2. CASE UNCHANGED <<req, reply>>
  BY <1>2 DEF CreatedDone, Confirms, Confirmed, MessageOf
<1> QED BY <1>1, <1>2, ReceiveConfirms, ProceedConfirms
        DEF Next, Expire, Quiet, vars, requestVars

-----------------------------------------------------------------------------
(* What is cached or broadcast comes from requests past their INSERT.      *)

LEMMA PushedFrom ==
  ASSUME Typed, NEW d \in Dialogs, NEW m \in Message, NEW n \in Nat, PushLastMessage(d, m, n)
  PROVE  \A c \in Dialogs : ToSet(lastMessages'[c]) \subseteq
           ToSet(lastMessages[c]) \cup (IF c = d THEN {m} ELSE {})
<1> DEFINE pushed == [i \in 1..n |-> m] \o lastMessages[d]
<1>1. lastMessages[d] \in Seq(Message) /\ [i \in 1..n |-> m] \in Seq(Message)
  BY IsASeq DEF Typed, CacheTypeOK
<1>2. ToSet(pushed) \subseteq ToSet(lastMessages[d]) \cup {m}
  <2>1. /\ Len([i \in 1..n |-> m]) = n
        /\ Len(lastMessages[d]) \in Nat /\ DOMAIN lastMessages[d] = 1..Len(lastMessages[d])
    BY <1>1, LenProperties
  <2>2. /\ Len(pushed) = n + Len(lastMessages[d]) /\ pushed \in Seq(Message)
        /\ \A i \in 1..Len(pushed) :
             pushed[i] = IF i <= n THEN [j \in 1..n |-> m][i] ELSE lastMessages[d][i - n]
    BY <1>1, <2>1, ConcatProperties
  <2>3. DOMAIN pushed = 1..Len(pushed)
    BY <2>2, LenProperties
  <2>4. ASSUME NEW i \in 1..Len(pushed)
        PROVE  pushed[i] \in ToSet(lastMessages[d]) \cup {m}
    <3>1. CASE i <= n
      BY <2>1, <2>2, <3>1
    <3>2. CASE i > n
      <4>1. i - n \in DOMAIN lastMessages[d]
        BY <2>1, <2>2, <3>2
      <4> HIDE DEF pushed
      <4>2. pushed[i] = lastMessages[d][i - n]
        BY <2>1, <2>2, <3>2
      <4> QED BY <4>1, <4>2 DEF ToSet
    <3> HIDE DEF pushed
    <3> QED BY <2>1, <2>2, <3>1, <3>2
  <2> HIDE DEF pushed
  <2> QED BY <2>3, <2>4 DEF ToSet
<1>3. pushed \in Seq(Message)
  BY <1>1, ConcatProperties
<1>4. ToSet(FirstOf(pushed, LastMessagesLimit)) \subseteq ToSet(pushed)
  <2> HIDE DEF pushed
  <2> QED BY <1>3, FirstOfType, CacheAssumption
<1>5. lastMessages' = [lastMessages EXCEPT ![d] = FirstOf(pushed, LastMessagesLimit)]
  BY DEF PushLastMessage
<1> HIDE DEF pushed
<1> QED BY <1>2, <1>4, <1>5 DEF Typed, CacheTypeOK

(* The entries a step may add to the lists and to what was broadcast. *)
LEMMA CachedFrom ==
  ASSUME Typed, [Next]_vars
  PROVE  \A d \in Dialogs : \A m \in ToSet(lastMessages'[d]) \ ToSet(lastMessages[d]) :
           \E r \in Requests : req[r].pc = "push" /\ req[r].dialog = d /\ m = MessageOf(r)
<1>1. CASE UNCHANGED lastMessages
  BY <1>1
<1>2. ASSUME NEW r \in Requests, PushLast(r), NEW d \in Dialogs,
             NEW m \in ToSet(lastMessages'[d]) \ ToSet(lastMessages[d])
      PROVE  req[r].pc = "push" /\ req[r].dialog = d /\ m = MessageOf(r)
  <2>1. req[r].pc = "push" /\ req[r].dialog \in Dialogs /\ MessageOf(r) \in Message
    BY <1>2, MessageOfType DEF PushLast, Typed, Placed
  <2>2. CASE \E n \in Sendings : PushLastMessage(req[r].dialog, MessageOf(r), n)
    <3>1. PICK n \in Nat : PushLastMessage(req[r].dialog, MessageOf(r), n)
      BY <2>2 DEF Sendings
    <3> QED BY <1>2, <2>1, <3>1, PushedFrom
  <2> QED BY <1>2, <2>1, <2>2 DEF PushLast, cacheVars
<1>3. ASSUME NEW d \in Dialogs, ExpireLastMessages(d)
      PROVE  \A c \in Dialogs : ToSet(lastMessages'[c]) \subseteq ToSet(lastMessages[c])
  BY <1>3 DEF ExpireLastMessages, ToSet, Typed, CacheTypeOK
<1>4. CASE Expire
  BY <1>1, <1>3, <1>4 DEF Expire, ExpireUnread
<1>5. ASSUME NEW r \in Requests, Receive(r)
      PROVE  UNCHANGED lastMessages
  BY <1>5 DEF Receive, PostMessage, ListMessages, UnreadCount, GetDialog, DeleteDialog,
              CreateDialog, ListDialogs, cacheVars
<1>6. ASSUME NEW r \in Requests, Proceed(r)
      PROVE  UNCHANGED lastMessages \/ PushLast(r)
  BY <1>6 DEF Proceed, Insert, CountForOthers, Broadcast, LookupPage, QueryPage, MarkRead,
              TouchReadMark, ResetUnreadMark, GetUnread, ReadSince, CountSince, GetDialogRow,
              DeleteRow, IncrUnreadForUsers, ResetUnread, cacheVars
<1> QED BY <1>1, <1>2, <1>4, <1>5, <1>6 DEF Next, Crash, Quiet, vars, cacheVars

LEMMA PublishedFrom ==
  ASSUME Typed, [Next]_vars
  PROVE  \A m \in published' \ published :
           \E r \in Requests : req[r].pc = "broadcast" /\ m = MessageOf(r)
<1>1. ASSUME NEW r \in Requests, Receive(r)
      PROVE  UNCHANGED published
  BY <1>1 DEF Receive, PostMessage, ListMessages, UnreadCount, GetDialog, DeleteDialog,
              CreateDialog, ListDialogs
<1>2. ASSUME NEW r \in Requests, Proceed(r)
      PROVE  UNCHANGED published \/ Broadcast(r)
  BY <1>2 DEF Proceed, Insert, CountForOthers, PushLast, LookupPage, QueryPage, MarkRead,
              TouchReadMark, ResetUnreadMark, GetUnread, ReadSince, CountSince, GetDialogRow,
              DeleteRow
<1> QED BY <1>1, <1>2 DEF Next, Expire, Crash, Quiet, Broadcast, vars, requestVars

-----------------------------------------------------------------------------
LEMMA InitDurable == Init => Durable
<1> SUFFICES ASSUME Init PROVE Durable
  OBVIOUS
<1>1. \A d \in Dialogs : ToSet(lastMessages[d]) = {}
  BY DEF Init, CacheInit, ToSet
<1> QED BY <1>1, InitOwned
        DEF Durable, CreatedDone, CachedStored, Confirmed, AfterInsert, Init, RequestsInit, Entered

LEMMA DurableStep ==
  ASSUME Durable, [Next]_vars
  PROVE  Durable'
<1>1. Owned /\ Typed /\ AllOnPath /\ LiveMinted /\ CreatedDone
  BY DEF Durable, Owned
<1>2. Owned' /\ StoreEffect /\ Confirms
  BY <1>1, OwnedStep, StoreSteps, ConfirmsStep
<1>3. \A m : Stored(m) => Stored(m)'
  BY <1>1, <1>2, StoredKept
<1>5. ASSUME NEW r \in Requests, Confirmed(r)' PROVE Stored(MessageOf(r))'
  <2>1. MessageOf(r)' = MessageOf(r)
    BY <1>2, <1>5 DEF Confirms
  <2>2. CASE Confirmed(r)
    BY <1>3, <2>1, <2>2 DEF Durable, Stored
  <2>3. CASE req[r].pc = "insert" /\ InsertMessage(MessageOf(r))
    <3>1. MessageOf(r).dialog \in Dialogs
      BY <1>1, <2>3, MessageOfType DEF Typed, Message
    <3> HIDE DEF MessageOf
    <3>2. Stored(MessageOf(r))'
      BY <1>1, <2>1, <2>3, <3>1, InsertStores DEF Stored
    <3> QED BY <3>2
  <2> QED BY <1>2, <1>5, <2>2, <2>3 DEF Confirms
<1>6. ASSUME NEW m \in published' PROVE Stored(m)'
  <2>1. CASE m \in published
    BY <1>3, <2>1 DEF Durable
  <2>2. CASE m \notin published
    BY <1>1, <1>3, <2>2, PublishedFrom DEF Durable, Confirmed, AfterInsert
  <2> QED BY <2>1, <2>2
<1>7. ASSUME NEW d \in Dialogs, NEW m \in ToSet(lastMessages'[d])
      PROVE  m.dialog = d /\ Stored(m)'
  <2>1. CASE m \in ToSet(lastMessages[d])
    BY <1>3, <2>1 DEF Durable, CachedStored
  <2>2. CASE m \notin ToSet(lastMessages[d])
    <3>1. PICK r \in Requests : req[r].pc = "push" /\ req[r].dialog = d /\ m = MessageOf(r)
      BY <1>1, <2>2, CachedFrom
    <3>2. Stored(m) /\ m.dialog = d
      BY <3>1 DEF Durable, Confirmed, AfterInsert, MessageOf
    <3> QED BY <1>3, <3>2
  <2> QED BY <2>1, <2>2
<1>8. CreatedDone' /\ CachedStored'
  BY <1>2, <1>7 DEF Confirms, CreatedDone, CachedStored
<1> QED BY <1>2, <1>5, <1>6, <1>8 DEF Durable

LEMMA AlwaysDurable == Spec => []Durable
BY InitDurable, DurableStep, PTL DEF Spec

(* AckedDurably: a client that got a 201, or a listener that got the       *)
(* event, finds the message stored as long as the dialog exists, whatever  *)
(* failed, crashed or ran at the same time.                                *)
THEOREM AckedDurably == Spec => []AckedIsDurable
<1>1. Durable => AckedIsDurable
  BY DEF Durable, AckedIsDurable, Acked, Confirmed, Stored
<1> QED BY <1>1, AlwaysDurable, PTL

(* CacheWithinStore: whatever requests push, resend or leave behind, the   *)
(* cached list of a live dialog shows only messages of that dialog that    *)
(* PostgreSQL has.                                                         *)
THEOREM CacheWithinStore == Spec => []CacheOnlyStored
<1>1. Durable => CacheOnlyStored
  BY DEF Durable, CachedStored, CacheOnlyStored, Stored, MessagesOf
<1> QED BY <1>1, AlwaysDurable, PTL


-----------------------------------------------------------------------------
(* Dialogs come whole. *)

LEMMA InitWhole == Init => DialogsWhole
<1> SUFFICES ASSUME Init, NEW d \in Dialogs, Live(d)
             PROVE  /\ IsParticipant(d, dialogs[d].createdBy)
                    /\ Cardinality(GetParticipants(d)) \in 2..MaxParticipants
                    /\ dialogs[d].type = "direct" => Cardinality(GetParticipants(d)) = 2
                    /\ \A u \in GetParticipants(d) : reads[<<d, u>>] # Missing
  BY DEF DialogsWhole
<1>1. d \in DOMAIN Opened /\ dialogs[d] = Opened[d].row
  BY DEF Init, StoreInit, Live
<1>2. /\ Opened[d].row \in Dialog /\ Opened[d].members \subseteq Users
      /\ Opened[d].row.createdBy \in Opened[d].members
  BY <1>1, StoreAssumption
<1>3. \A u \in Users : <<d, u>> \in participants <=> u \in Opened[d].members
  BY <1>1 DEF Init, StoreInit, Member
<1>4. GetParticipants(d) = Opened[d].members
  BY <1>2, <1>3 DEF GetParticipants
<1>5. IsParticipant(d, dialogs[d].createdBy)
  BY <1>1, <1>2, <1>3 DEF IsParticipant
<1>6. \A u \in GetParticipants(d) : reads[<<d, u>>] # Missing
  BY MissingAssumption DEF GetParticipants, Member, Init, StoreInit
<1> QED BY <1>1, <1>4, <1>5, <1>6, DialogAssumption

(* A step that leaves a dialog's row, participants and marks leaves it whole. *)
LEMMA WholeKept ==
  ASSUME DialogsWhole, NEW d \in Dialogs, Live(d), dialogs'[d] = dialogs[d],
         \A u \in Users : <<d, u>> \in participants' <=> <<d, u>> \in participants,
         \A u \in Users : reads[<<d, u>>] # Missing => reads'[<<d, u>>] # Missing
  PROVE  /\ IsParticipant(d, dialogs[d].createdBy)
         /\ GetParticipants(d)' = GetParticipants(d)
         /\ Cardinality(GetParticipants(d)) \in 2..MaxParticipants
         /\ dialogs[d].type = "direct" => Cardinality(GetParticipants(d)) = 2
         /\ \A u \in GetParticipants(d) : reads'[<<d, u>>] # Missing
<1>1. GetParticipants(d)' = GetParticipants(d)
  BY DEF GetParticipants
<1>2. /\ IsParticipant(d, dialogs[d].createdBy)
      /\ Cardinality(GetParticipants(d)) \in 2..MaxParticipants
      /\ dialogs[d].type = "direct" => Cardinality(GetParticipants(d)) = 2
      /\ \A u \in GetParticipants(d) : reads[<<d, u>>] # Missing
  BY DEF DialogsWhole
<1> QED BY <1>1, <1>2 DEF GetParticipants

LEMMA WholeStep ==
  ASSUME Owned, DialogsWhole, StoreEffect
  PROVE  DialogsWhole'
<1>0. /\ dialogs \in [Dialogs -> Dialog \cup {Missing}] /\ participants \subseteq Member
      /\ reads \in [Member -> Nat \cup {Missing}] /\ clock \in Nat /\ clock # Missing
      /\ LiveMinted /\ \A k \in participants : Live(k[1])
      /\ \A d \in Dialogs : Live(d) => dialogs[d].createdBy \in Users
  BY MissingAssumption
     DEF Owned, MembersOnly, Typed, StoreTyped, StoreTypeOK, Epoch, Live, Dialog
<1> SUFFICES ASSUME NEW d \in Dialogs, Live(d)'
             PROVE  /\ IsParticipant(d, dialogs[d].createdBy)'
                    /\ Cardinality(GetParticipants(d)') \in 2..MaxParticipants
                    /\ dialogs'[d].type = "direct" => Cardinality(GetParticipants(d)') = 2
                    /\ \A u \in GetParticipants(d)' : reads'[<<d, u>>] # Missing
  BY DEF DialogsWhole
<1> DEFINE Goal == /\ IsParticipant(d, dialogs[d].createdBy)'
                   /\ Cardinality(GetParticipants(d)') \in 2..MaxParticipants
                   /\ dialogs'[d].type = "direct" => Cardinality(GetParticipants(d)') = 2
                   /\ \A u \in GetParticipants(d)' : reads'[<<d, u>>] # Missing
<1>1. ASSUME Live(d), dialogs'[d] = dialogs[d],
             \A u \in Users : <<d, u>> \in participants' <=> <<d, u>> \in participants,
             \A u \in Users : reads[<<d, u>>] # Missing => reads'[<<d, u>>] # Missing
      PROVE  Goal
  <2>1. dialogs[d].createdBy \in Users
    BY <1>0, <1>1
  <2>2. /\ IsParticipant(d, dialogs[d].createdBy)
        /\ GetParticipants(d)' = GetParticipants(d)
        /\ Cardinality(GetParticipants(d)) \in 2..MaxParticipants
        /\ dialogs[d].type = "direct" => Cardinality(GetParticipants(d)) = 2
        /\ \A u \in GetParticipants(d) : reads'[<<d, u>>] # Missing
    BY <1>1, WholeKept
  <2> QED BY <1>1, <2>1, <2>2 DEF IsParticipant
<1>2. CASE UNCHANGED <<dialogs, participants, reads>>
  <2>1. Live(d)
    BY <1>2 DEF Live
  <2> QED BY <1>1, <1>2, <2>1
<1>3. ASSUME NEW c \in Dialogs \ minted, NEW u \in Users, NEW members \in SUBSET Users,
             NEW named \in BOOLEAN, u \in members, AcceptedSize(members),
             CreateDialogTx(c, [type |-> DialogTypeOf(members, named), createdBy |-> u], members)
      PROVE  Goal
  <2>1. /\ dialogs' = [dialogs EXCEPT ![c] = [type |-> DialogTypeOf(members, named), createdBy |-> u]]
        /\ participants' = participants \cup ({c} \X members)
        /\ \A k \in Member : reads'[k] = IF k \in {c} \X members THEN clock ELSE reads[k]
    BY <1>3 DEF CreateDialogTx
  <2>2. CASE d # c
    <3>1. dialogs'[d] = dialogs[d] /\ Live(d)
      BY <1>0, <2>1, <2>2 DEF Live
    <3>2. \A v \in Users : /\ <<d, v>> \in participants' <=> <<d, v>> \in participants
                           /\ reads'[<<d, v>>] = reads[<<d, v>>]
      BY <2>1, <2>2 DEF Member
    <3> QED BY <1>1, <3>1, <3>2
  <2>3. CASE d = c
    <3>1. dialogs'[d].type = DialogTypeOf(members, named) /\ dialogs'[d].createdBy = u
      BY <1>0, <2>1, <2>3
    <3>2. \A v \in Users : <<d, v>> \notin participants
      BY <1>0, <1>3, <2>3 DEF LiveMinted
    <3>3. \A v \in Users : <<d, v>> \in participants' <=> v \in members
      BY <2>1, <2>3, <3>2
    <3>4. GetParticipants(d)' = members
      BY <3>3 DEF GetParticipants
    <3>5. \A v \in members : reads'[<<d, v>>] # Missing
      BY <1>0, <2>1, <2>3 DEF Member
    <3>6. dialogs'[d].type = "direct" => Cardinality(members) = 2
      BY <3>1 DEF DialogTypeOf
    <3>7. IsParticipant(d, dialogs[d].createdBy)'
      BY <1>3, <3>1, <3>3 DEF IsParticipant
    <3> QED BY <1>3, <3>4, <3>5, <3>6, <3>7 DEF AcceptedSize
  <2> QED BY <2>2, <2>3
<1>4. ASSUME NEW r \in Requests, TouchRead(req[r].dialog, req[r].user, req[r].at)
      PROVE  Goal
  <2>1. req[r].at # Missing
    BY MissingAssumption DEF Owned, Typed, RequestsTyped, RequestsTypeOK, Request
  <2>2. /\ UNCHANGED <<dialogs, participants>>
        /\ \A k \in Member : reads'[k] = reads[k] \/ reads'[k] = req[r].at
    BY <1>0, <1>4 DEF TouchRead
  <2>3. Live(d) /\ \A u \in Users : <<d, u>> \in Member
    BY <2>2 DEF Live, Member
  <2> QED BY <1>1, <2>1, <2>2, <2>3
<1>5. ASSUME NEW c, DeleteDialogRow(c) PROVE Goal
  <2>1. d # c /\ dialogs'[d] = dialogs[d] /\ Live(d)
    BY <1>0, <1>5 DEF DeleteDialogRow, Live
  <2>2. \A u \in Users : /\ <<d, u>> \in participants' <=> <<d, u>> \in participants
                         /\ reads'[<<d, u>>] = reads[<<d, u>>]
    BY <1>5, <2>1 DEF DeleteDialogRow, Member
  <2> QED BY <1>1, <2>1, <2>2
<1>6. ASSUME NEW m, InsertMessage(m) PROVE Goal
  BY <1>2, <1>6 DEF InsertMessage
<1> QED BY <1>2, <1>3, <1>4, <1>5, <1>6 DEF StoreEffect

(* WholeAlways: every live dialog has its creator, two to MaxParticipants  *)
(* members with their read marks, and two if it is direct.                 *)
THEOREM WholeAlways == Spec => []DialogsWhole
<1>1. Owned /\ DialogsWhole /\ [Next]_vars => DialogsWhole'
  <2>1. Owned /\ [Next]_vars => StoreEffect
    BY StoreSteps DEF Owned
  <2> QED BY <2>1, WholeStep
<1> QED BY <1>1, InitWhole, AlwaysOwned, PTL DEF Spec

-----------------------------------------------------------------------------
(* Dialogs go once. *)

(* A request that was answered "deleted" is over, and so is its dialog. *)
Gone ==
  /\ \A r \in Requests : reply[r].status = "deleted" =>
       req[r].pc = "done" /\ req[r].dialog \in minted /\ ~Live(req[r].dialog)
  /\ DeletedOnce

(* Only r moves, and it is not answered "deleted". *)
Undeleting(r) ==
  /\ \A q \in Requests \ {r} : req'[q] = req[q] /\ reply'[q] = reply[q]
  /\ reply'[r].status # "deleted"

LEMMA FinishUndeleting ==
  ASSUME Typed, NEW r \in Requests, NEW status, status # "deleted", Finish(r, status)
  PROVE  Undeleting(r)
BY DEF Finish, Undeleting, Typed, RequestsTyped, RequestsTypeOK, Reply

LEMMA EditUndeleting ==
  ASSUME Typed, NEW r \in Requests, reply[r].status # "deleted",
         NEW f, req' = [req EXCEPT ![r] = f], UNCHANGED reply
  PROVE  Undeleting(r)
BY DEF Undeleting, Typed, RequestsTyped, RequestsTypeOK

LEMMA ReceiveUndeleting ==
  ASSUME Typed, Gone, NEW r \in Requests, Receive(r)
  PROVE  Undeleting(r)
<1>1. reply[r].status # "deleted"
  BY DEF Gone, Receive, PostMessage, ListMessages, UnreadCount, GetDialog, DeleteDialog,
         CreateDialog, ListDialogs, CanStart
<1>2. ASSUME \E status : status # "deleted" /\ Finish(r, status) PROVE Undeleting(r)
  BY <1>2, FinishUndeleting
<1>3. ASSUME UNCHANGED reply, \E f : req' = [req EXCEPT ![r] = f] PROVE Undeleting(r)
  BY <1>1, <1>3, EditUndeleting
<1>4. ASSUME NEW e, EnterAsParticipant(r, e) PROVE Undeleting(r)
  BY <1>2, <1>3, <1>4 DEF EnterAsParticipant, EnsureErrors
<1>5. ASSUME NEW u \in Users, NEW d \in Dialogs, NEW length \in Lengths, PostMessage(r, u, d, length)
      PROVE  Undeleting(r)
  <2>1. \/ UNCHANGED reply /\ \E f : req' = [req EXCEPT ![r] = f]
        \/ \E status : status # "deleted" /\ Finish(r, status)
    BY <1>5 DEF PostMessage, EnsureErrors
  <2> QED BY <1>2, <1>3, <2>1
<1>6. ASSUME NEW u \in Users, NEW d \in Dialogs, NEW limit \in Limits, NEW cursor \in CursorsHeld,
             ListMessages(r, u, d, limit, cursor)
      PROVE  Undeleting(r)
  <2>1. \E e : EnterAsParticipant(r, e)
    BY <1>6 DEF ListMessages
  <2> QED BY <1>4, <2>1
<1>7. ASSUME NEW u \in Users, NEW d \in Dialogs,
             UnreadCount(r, u, d) \/ GetDialog(r, u, d) \/ DeleteDialog(r, u, d)
      PROVE  Undeleting(r)
  BY <1>2, <1>3, <1>4, <1>7 DEF UnreadCount, GetDialog, DeleteDialog
<1>8. ASSUME NEW u \in Users, ListDialogs(r, u) PROVE Undeleting(r)
  <2>1. \/ UNCHANGED reply /\ \E f : req' = [req EXCEPT ![r] = f]
        \/ \E status : status # "deleted" /\ Finish(r, status)
    BY <1>8 DEF ListDialogs
  <2> QED BY <1>2, <1>3, <2>1
<1>9. ASSUME NEW u \in Users, NEW ids \in Invitations, NEW named \in BOOLEAN,
             CreateDialog(r, u, ids, named)
      PROVE  Undeleting(r)
  BY <1>2, <1>9 DEF CreateDialog
<1> QED BY <1>5, <1>6, <1>7, <1>8, <1>9 DEF Receive

LEMMA ProceedUndeleting ==
  ASSUME Typed, Gone, NEW r \in Requests, Proceed(r)
  PROVE  \/ Undeleting(r)
         \/ req[r].pc = "delete" /\ DeleteDialogRow(req[r].dialog) /\ Finish(r, "deleted")
<1>1. /\ reply[r].status # "deleted"
      /\ req \in [Requests -> Request] /\ reply \in [Requests -> Reply]
  BY DEF Gone, Proceed, Insert, CountForOthers, PushLast, Broadcast, LookupPage, QueryPage,
         MarkRead, TouchReadMark, ResetUnreadMark, GetUnread, ReadSince, CountSince,
         GetDialogRow, DeleteRow, Typed, RequestsTyped, RequestsTypeOK
<1>2. ASSUME \E status : status # "deleted" /\ Finish(r, status) PROVE Undeleting(r)
  BY <1>2, FinishUndeleting
<1>3. ASSUME NEW pc, Goto(r, pc) PROVE Undeleting(r)
  BY <1>1, <1>3 DEF Goto, Undeleting
<1>4. ASSUME NEW page, NEW next, TakePage(r, page, next) PROVE Undeleting(r)
  BY <1>1, <1>4 DEF TakePage, Undeleting, Reply
<1>5. ASSUME NEW n, Counted(r, n) PROVE Undeleting(r)
  <2> DEFINE s == IF req[r].todo = {} THEN "ok" ELSE reply[r].status
             e == [reply[r] EXCEPT !.counts[req[r].dialog] = n, !.status = s]
  <2>1. s # "deleted" /\ reply' = [reply EXCEPT ![r] = e]
    BY <1>1, <1>5 DEF Counted
  <2>2. e.status = s
    BY <1>1 DEF Reply
  <2>3. \A q \in Requests \ {r} : req'[q] = req[q]
    BY <1>1, <1>5 DEF Counted
  <2> HIDE DEF s, e
  <2> QED BY <1>1, <2>1, <2>2, <2>3 DEF Undeleting
<1>6. CASE Insert(r) \/ CountForOthers(r) \/ PushLast(r) \/ Broadcast(r)
  BY <1>2, <1>3, <1>6 DEF Insert, CountForOthers, PushLast, Broadcast
<1>7. CASE LookupPage(r) \/ QueryPage(r)
  BY <1>2, <1>3, <1>4, <1>7 DEF LookupPage, QueryPage
<1>8. CASE MarkRead(r) \/ ReadSince(r)
  <2>1. \/ \E status : status # "deleted" /\ Finish(r, status)
        \/ UNCHANGED reply /\ \A q \in Requests \ {r} : req'[q] = req[q]
    BY <1>1, <1>8 DEF MarkRead, ReadSince
  <2> QED BY <1>1, <1>2, <2>1 DEF Undeleting
<1>9. CASE TouchReadMark(r) \/ ResetUnreadMark(r) \/ GetDialogRow(r)
  BY <1>2, <1>3, <1>9 DEF TouchReadMark, ResetUnreadMark, GetDialogRow
<1>10. CASE GetUnread(r) \/ CountSince(r)
  BY <1>2, <1>3, <1>5, <1>10 DEF GetUnread, CountSince
<1>11. CASE DeleteRow(r)
  BY <1>2, <1>11 DEF DeleteRow
<1> QED BY <1>6, <1>7, <1>8, <1>9, <1>10, <1>11 DEF Proceed

LEMMA GoneStep ==
  ASSUME Owned, Gone, [Next]_vars
  PROVE  Gone'
<1>0. Typed /\ LiveMinted /\ req \in [Requests -> Request] /\ reply \in [Requests -> Reply]
  BY DEF Owned, Typed, RequestsTyped, RequestsTypeOK
<1>1. /\ minted \subseteq minted'
      /\ \A d \in minted : Live(d)' => Live(d)
  BY <1>0, StoreSteps, KnownKept
(* Those who were answered before stay as they are. *)
<1>2. ASSUME \A q \in Requests : reply'[q].status = "deleted" =>
               reply[q].status = "deleted" /\ req'[q] = req[q]
      PROVE  Gone'
  BY <1>1, <1>2 DEF Gone, DeletedOnce
<1>3. ASSUME NEW r \in Requests, Undeleting(r) PROVE Gone'
  BY <1>2, <1>3 DEF Undeleting
<1>4. ASSUME NEW r \in Requests, NEW d \in Dialogs, d = req[r].dialog,
             DeleteDialogRow(d), Finish(r, "deleted")
      PROVE  Gone'
  <2>1. /\ \A q \in Requests \ {r} : req'[q] = req[q] /\ reply'[q] = reply[q]
        /\ req'[r].pc = "done" /\ req'[r].dialog = d
    BY <1>0, <1>4 DEF Finish, Request
  <2>2. Live(d) /\ d \in minted /\ ~Live(d)'
    BY <1>0, <1>4 DEF Typed, StoreTyped, StoreTypeOK, DeleteDialogRow, Live, LiveMinted
  <2>3. \A q \in Requests \ {r} : reply[q].status = "deleted" =>
           req[q].pc = "done" /\ req[q].dialog \in minted /\ ~Live(req[q].dialog) /\ req[q].dialog # d
    BY <2>2 DEF Gone
  <2>4. ASSUME NEW q \in Requests, reply'[q].status = "deleted", NEW c, c = req'[q].dialog
        PROVE  req'[q].pc = "done" /\ c \in minted' /\ ~Live(c)'
    <3>1. CASE q = r
      BY <1>1, <2>1, <2>2, <2>4, <3>1
    <3>2. CASE q # r
      BY <1>1, <2>1, <2>3, <2>4, <3>2
    <3> QED BY <3>1, <3>2
  <2>5. \A p, q \in Requests :
          /\ reply'[p].status = "deleted" /\ reply'[q].status = "deleted"
          /\ req'[p].dialog = req'[q].dialog
          => p = q
    BY <2>1, <2>3 DEF Gone, DeletedOnce
  <2> QED BY <2>4, <2>5 DEF Gone, DeletedOnce, Live
<1>5. CASE Crash
  <2>1. ASSUME NEW q \in Requests, reply'[q].status = "deleted"
        PROVE  reply[q].status = "deleted" /\ req'[q] = req[q]
    BY <1>0, <1>5, <2>1 DEF Crash, Reply
  <2> QED BY <1>2, <2>1
<1>6. CASE UNCHANGED <<req, reply>>
  BY <1>2, <1>6
<1>7. ASSUME NEW r \in Requests, Proceed(r) PROVE Gone'
  <2>1. req[r].pc = "delete" => req[r].dialog \in Dialogs
    BY <1>0 DEF Typed, RequestsTyped, Placed
  <2> QED BY <1>0, <1>3, <1>4, <1>7, <2>1, ProceedUndeleting
<1> QED BY <1>0, <1>3, <1>5, <1>6, <1>7, ReceiveUndeleting
        DEF Next, Expire, Quiet, vars, requestVars

(* GoneOnce: of several requests to delete one dialog at most one is       *)
(* answered "deleted", and that dialog is gone for good.                   *)
THEOREM GoneOnce == Spec => []DeletedOnce
<1>1. Init => Gone
  BY DEF Init, RequestsInit, Gone, DeletedOnce
<1>2. Gone => DeletedOnce
  BY DEF Gone
<1> QED BY <1>1, <1>2, AlwaysOwned, GoneStep, PTL DEF Spec

-----------------------------------------------------------------------------
(* MessagingApi implements ChatLog: the initial states are initial states  *)
(* of ChatLog, and each step of the server is a step of ChatLog or leaves  *)
(* its variables alone.                                                    *)

(* A stamp is given once: no stored message and no other request about to  *)
(* insert has the stamp of a request that is about to.                     *)
Stamped ==
  /\ \A m \in messages : m.at < clock
  /\ \A r \in Requests : req[r].pc = "insert" =>
       /\ req[r].at < clock
       /\ \A m \in messages : m.at # req[r].at
       /\ \A q \in Requests \ {r} : req[q].pc = "insert" => req[q].at # req[r].at

(* How a step changes stamps. *)
StampSteps ==
  /\ clock' >= clock
  /\ \A r \in Requests : req'[r].pc = "insert" =>
       \/ req'[r] = req[r]
       \/ /\ req'[r].at = clock /\ clock' = clock + 1 /\ UNCHANGED messages
          /\ \A q \in Requests \ {r} : req'[q] = req[q]
  /\ \/ messages' \subseteq messages
     \/ \E r \in Requests : /\ req[r].pc = "insert" /\ req'[r].pc # "insert"
                            /\ messages' = messages \cup {MessageOf(r)}

(* r moves alone, and not to its INSERT. *)
NotInserting(r) ==
  /\ \A q \in Requests \ {r} : req'[q] = req[q]
  /\ req'[r].pc # "insert"

LEMMA NotInsertingFinish ==
  ASSUME Typed, NEW r \in Requests, NEW status, Finish(r, status)
  PROVE  NotInserting(r)
<1>1. /\ \A q \in Requests \ {r} : req'[q] = req[q]
      /\ req'[r] = [req[r] EXCEPT !.pc = "done"] /\ req[r] \in Request
  BY DEF Finish, Typed, RequestsTyped, RequestsTypeOK
<1>2. req'[r].pc = "done"
  BY <1>1 DEF Request
<1> QED BY <1>1, <1>2 DEF NotInserting

LEMMA NotInsertingRow ==
  ASSUME Typed, NEW r \in Requests, NEW f, req' = [req EXCEPT ![r] = f], f.pc # "insert"
  PROVE  NotInserting(r)
BY DEF NotInserting, Typed, RequestsTyped, RequestsTypeOK

LEMMA ReceiveInserts ==
  ASSUME Typed, NEW r \in Requests, Receive(r)
  PROVE  \/ NotInserting(r)
         \/ /\ req'[r].at = clock /\ clock' = clock + 1 /\ UNCHANGED messages
            /\ \A q \in Requests \ {r} : req'[q] = req[q]
<1> DEFINE Goal == \/ NotInserting(r)
                   \/ /\ req'[r].at = clock /\ clock' = clock + 1 /\ UNCHANGED messages
                      /\ \A q \in Requests \ {r} : req'[q] = req[q]
<1>1. ASSUME \E status : Finish(r, status) PROVE Goal
  BY <1>1, NotInsertingFinish
<1>2. ASSUME NEW f, f.pc # "insert", req' = [req EXCEPT ![r] = f] PROVE Goal
  BY <1>2, NotInsertingRow
<1>3. ASSUME NEW e, e.pc # "insert", EnterAsParticipant(r, e) PROVE Goal
  BY <1>1, <1>2, <1>3 DEF EnterAsParticipant
<1>4. ASSUME NEW u \in Users, NEW d \in Dialogs, NEW length \in Lengths, PostMessage(r, u, d, length)
      PROVE  Goal
  <2> DEFINE e == [Entered("postMessage", u, d, "insert") EXCEPT !.at = clock]
  <2>1. CASE req' = [req EXCEPT ![r] = e] /\ clock' = clock + 1
    <3>1. e.at = clock
      BY DEF Entered
    <3> HIDE DEF e
    <3> QED BY <1>4, <2>1, <3>1 DEF PostMessage, Typed, RequestsTyped, RequestsTypeOK
  <2> QED BY <1>1, <1>4, <2>1 DEF PostMessage
<1>5. ASSUME NEW u \in Users, NEW d \in Dialogs, NEW limit \in Limits, NEW cursor \in CursorsHeld,
             ListMessages(r, u, d, limit, cursor)
      PROVE  Goal
  <2> DEFINE e == [Entered("listMessages", u, d, IF cursor = Epoch THEN "lookup" ELSE "query")
                     EXCEPT !.limit = limit, !.cursor = cursor]
  <2>1. e.pc # "insert" /\ EnterAsParticipant(r, e)
    BY <1>5 DEF Entered, ListMessages
  <2> HIDE DEF e
  <2> QED BY <1>3, <2>1
<1>6. \A u, d : /\ Entered("unreadCount", u, d, "unread").pc # "insert"
                /\ Entered("getDialog", u, d, "detail").pc # "insert"
                /\ Entered("deleteDialog", u, d, "delete").pc # "insert"
  BY DEF Entered
<1>7. ASSUME NEW u \in Users, NEW d \in Dialogs,
             UnreadCount(r, u, d) \/ GetDialog(r, u, d) \/ DeleteDialog(r, u, d)
      PROVE  Goal
  BY <1>1, <1>2, <1>3, <1>6, <1>7 DEF UnreadCount, GetDialog, DeleteDialog
<1>8. ASSUME NEW u \in Users, ListDialogs(r, u) PROVE Goal
  <2>1. ASSUME NEW d, NEW S,
               req' = [req EXCEPT ![r] = [Entered("listDialogs", u, d, "unread") EXCEPT !.todo = S]]
        PROVE  Goal
    <3> DEFINE e == [Entered("listDialogs", u, d, "unread") EXCEPT !.todo = S]
    <3>1. e.pc # "insert"
      BY DEF Entered
    <3> HIDE DEF e
    <3> QED BY <1>2, <2>1, <3>1 DEF e
  <2> QED BY <1>1, <1>8, <2>1 DEF ListDialogs
<1>9. ASSUME NEW u \in Users, NEW ids \in Invitations, NEW named \in BOOLEAN,
             CreateDialog(r, u, ids, named)
      PROVE  Goal
  BY <1>1, <1>9 DEF CreateDialog
<1> QED BY <1>4, <1>5, <1>7, <1>8, <1>9 DEF Receive

LEMMA ProceedLeavesInsert ==
  ASSUME Typed, NEW r \in Requests, Proceed(r)
  PROVE  NotInserting(r)
<1>0. req \in [Requests -> Request] /\ req[r] \in Request
  BY DEF Typed, RequestsTyped, RequestsTypeOK
<1>1. ASSUME \E status : Finish(r, status) PROVE NotInserting(r)
  BY <1>1, NotInsertingFinish
<1>2. ASSUME NEW pc, pc # "insert", req' = [req EXCEPT ![r].pc = pc] PROVE NotInserting(r)
  BY <1>0, <1>2 DEF NotInserting, Request
<1>3. ASSUME NEW t, NEW pc, pc # "insert", req' = [req EXCEPT ![r].at = t, ![r].pc = pc]
      PROVE  NotInserting(r)
  BY <1>0, <1>3 DEF NotInserting, Request
<1>4. ASSUME NEW n, Counted(r, n) PROVE NotInserting(r)
  <2>1. \E f : f.pc # "insert" /\ req' = [req EXCEPT ![r] = f]
    BY <1>0, <1>4 DEF Counted, Request
  <2> QED BY <2>1, NotInsertingRow
<1>5. CASE Insert(r) \/ CountForOthers(r) \/ PushLast(r) \/ Broadcast(r)
  BY <1>1, <1>2, <1>5 DEF Insert, CountForOthers, PushLast, Broadcast, Goto
<1>6. CASE LookupPage(r) \/ QueryPage(r)
  BY <1>1, <1>2, <1>6 DEF LookupPage, QueryPage, TakePage, Goto
<1>7. CASE MarkRead(r)
  BY <1>1, <1>3, <1>7 DEF MarkRead
<1>8. CASE ReadSince(r)
  <2>1. \E t : req' = [req EXCEPT ![r].at = t, ![r].pc = "countSince"]
    BY <1>8 DEF ReadSince
  <2> QED BY <1>3, <2>1
<1>9. CASE TouchReadMark(r) \/ ResetUnreadMark(r) \/ GetDialogRow(r) \/ DeleteRow(r)
  <2>1. (\E status : Finish(r, status)) \/ \E pc \in {"reset", "unread"} : Goto(r, pc)
    BY <1>9 DEF TouchReadMark, ResetUnreadMark, GetDialogRow, DeleteRow
  <2> QED BY <1>1, <1>2, <2>1 DEF Goto
<1>10. CASE GetUnread(r) \/ CountSince(r)
  BY <1>1, <1>2, <1>4, <1>10 DEF GetUnread, CountSince, Goto
<1> QED BY <1>5, <1>6, <1>7, <1>8, <1>9, <1>10 DEF Proceed

LEMMA StampStepsHold ==
  ASSUME Typed, [Next]_vars
  PROVE  StampSteps
<1>0. clock \in Nat
  BY DEF Typed, StoreTyped, StoreTypeOK
<1>1. clock' \in {clock, clock + 1}
  <2>1. ASSUME NEW r \in Requests, Receive(r) PROVE clock' \in {clock, clock + 1}
    <3>1. CASE UNCHANGED clock \/ clock' = clock + 1
      BY <3>1
    <3>2. ASSUME NEW u \in Users, NEW ids \in Invitations, NEW named \in BOOLEAN,
                 CreateDialog(r, u, ids, named)
          PROVE  UNCHANGED clock \/ clock' = clock + 1
      BY <3>2 DEF CreateDialog, CreateDialogTx, storeVars
    <3> QED BY <2>1, <3>1, <3>2
            DEF Receive, PostMessage, ListMessages, UnreadCount, GetDialog, DeleteDialog,
                ListDialogs, storeVars
  <2>2. ASSUME NEW r \in Requests, Proceed(r) PROVE clock' \in {clock, clock + 1}
    BY <2>2 DEF Proceed, Insert, CountForOthers, PushLast, Broadcast, LookupPage, QueryPage,
                MarkRead, TouchReadMark, ResetUnreadMark, GetUnread, ReadSince, CountSince,
                GetDialogRow, DeleteRow, InsertMessage, TouchRead, DeleteDialogRow, storeVars
  <2> QED BY <2>1, <2>2 DEF Next, Expire, Crash, Quiet, vars, storeVars
<1>2. ASSUME NEW q \in Requests, req'[q].pc = "insert"
      PROVE  \/ req'[q] = req[q]
             \/ /\ req'[q].at = clock /\ clock' = clock + 1 /\ UNCHANGED messages
                /\ \A p \in Requests \ {q} : req'[p] = req[p]
  <2>1. ASSUME NEW r \in Requests, NotInserting(r) PROVE req'[q] = req[q]
    BY <1>2, <2>1 DEF NotInserting
  <2>2. CASE Crash
    <3>1. req[q] \in Request
      BY DEF Typed, RequestsTyped, RequestsTypeOK
    <3> QED BY <1>2, <2>2, <3>1 DEF Crash, Request
  <2>3. ASSUME NEW r \in Requests, Receive(r) \/ Proceed(r)
        PROVE  \/ req'[q] = req[q]
               \/ /\ req'[q].at = clock /\ clock' = clock + 1 /\ UNCHANGED messages
                  /\ \A p \in Requests \ {q} : req'[p] = req[p]
    <3>1. CASE NotInserting(r)
      BY <2>1, <3>1
    <3>2. CASE ~NotInserting(r)
      <4>1. /\ req'[r].at = clock /\ clock' = clock + 1 /\ UNCHANGED messages
            /\ \A p \in Requests \ {r} : req'[p] = req[p]
        BY <2>3, <3>2, ReceiveInserts, ProceedLeavesInsert
      <4> QED BY <4>1
    <3> QED BY <3>1, <3>2
  <2> QED BY <2>2, <2>3 DEF Next, Expire, Quiet, vars, requestVars
<1>3. \/ messages' \subseteq messages
      \/ \E r \in Requests : /\ req[r].pc = "insert" /\ req'[r].pc # "insert"
                             /\ messages' = messages \cup {MessageOf(r)}
  <2>1. ASSUME NEW r \in Requests, Receive(r) PROVE messages' = messages
    BY <2>1 DEF Receive, PostMessage, ListMessages, UnreadCount, GetDialog, DeleteDialog,
                CreateDialog, ListDialogs, CreateDialogTx, storeVars
  <2>2. ASSUME NEW r \in Requests, Proceed(r)
        PROVE  \/ messages' \subseteq messages
               \/ /\ req[r].pc = "insert" /\ req'[r].pc # "insert"
                  /\ messages' = messages \cup {MessageOf(r)}
    <3>1. NotInserting(r)
      BY <2>2, ProceedLeavesInsert
    <3>2. CASE Insert(r)
      BY <3>1, <3>2 DEF Insert, InsertMessage, NotInserting, storeVars
    <3> QED BY <2>2, <3>2
            DEF Proceed, CountForOthers, PushLast, Broadcast, LookupPage, QueryPage,
                MarkRead, TouchReadMark, ResetUnreadMark, GetUnread, ReadSince, CountSince,
                GetDialogRow, DeleteRow, TouchRead, DeleteDialogRow, storeVars
  <2> QED BY <2>1, <2>2 DEF Next, Expire, Crash, Quiet, vars, storeVars
<1> QED BY <1>0, <1>1, <1>2, <1>3 DEF StampSteps

LEMMA StampedStep ==
  ASSUME Typed, Typed', Stamped, StampSteps
  PROVE  Stamped'
<1>0. /\ clock \in Nat /\ clock' \in Nat /\ clock' >= clock /\ messages \subseteq Message
      /\ \A r \in Requests : req[r].at \in Nat
  BY DEF Typed, StoreTyped, StoreTypeOK, RequestsTyped, RequestsTypeOK, Request, StampSteps
<1>1. /\ \A m \in messages : m.at \in Nat /\ m.at < clock
      /\ \A r \in Requests : MessageOf(r).at = req[r].at
  BY <1>0 DEF Stamped, Message, MessageOf
<1>2. ASSUME NEW m \in messages'
      PROVE  \/ m \in messages
             \/ \E r \in Requests : req[r].pc = "insert" /\ req'[r].pc # "insert" /\ m = MessageOf(r)
  BY <1>2 DEF StampSteps
<1>3. ASSUME NEW m \in messages' PROVE m.at \in Nat /\ m.at < clock
  BY <1>0, <1>1, <1>2, <1>3 DEF Stamped
<1>4. ASSUME NEW r \in Requests, req'[r].pc = "insert", req'[r] = req[r]
      PROVE  /\ req'[r].at < clock
             /\ \A m \in messages' : m.at # req'[r].at
  <2>1. req[r].pc = "insert"
    BY <1>4
  <2>2. ASSUME NEW q \in Requests, req[q].pc = "insert", req'[q].pc # "insert"
        PROVE  req[q].at # req[r].at
    BY <1>4, <2>1, <2>2 DEF Stamped
  <2> QED BY <1>1, <1>2, <1>4, <2>1, <2>2 DEF Stamped
<1>5. ASSUME NEW r \in Requests, req'[r].pc = "insert", req'[r] # req[r]
      PROVE  /\ req'[r].at = clock /\ clock' = clock + 1 /\ messages' = messages
             /\ \A q \in Requests \ {r} : req'[q] = req[q]
  BY <1>5 DEF StampSteps
<1>6. ASSUME NEW r \in Requests, req'[r].pc = "insert",
             NEW q \in Requests \ {r}, req'[q].pc = "insert"
      PROVE  req'[q].at # req'[r].at
  <2>1. CASE req'[r] = req[r] /\ req'[q] = req[q]
    BY <1>6, <2>1 DEF Stamped
  <2>2. CASE req'[r] # req[r]
    BY <1>0, <1>5, <1>6, <2>2 DEF Stamped
  <2>3. CASE req'[q] # req[q]
    BY <1>0, <1>5, <1>6, <2>3 DEF Stamped
  <2> QED BY <2>1, <2>2, <2>3
<1>7. ASSUME NEW r \in Requests, req'[r].pc = "insert"
      PROVE  /\ req'[r].at < clock'
             /\ \A m \in messages' : m.at # req'[r].at
  <2>1. CASE req'[r] = req[r]
    BY <1>0, <1>4, <1>7, <2>1 DEF StampSteps
  <2>2. CASE req'[r] # req[r]
    BY <1>0, <1>3, <1>5, <1>7, <2>2
  <2> QED BY <2>1, <2>2
<1>8. \A m \in messages' : m.at < clock'
  BY <1>0, <1>3
<1> QED BY <1>6, <1>7, <1>8 DEF Stamped

LEMMA PublishedAlone ==
  ASSUME [Next]_vars
  PROVE  \/ UNCHANGED published
         \/ /\ UNCHANGED storeVars
            /\ \E r \in Requests : /\ req[r].pc = "broadcast"
                                   /\ published' = published \cup {MessageOf(r)}
<1>1. ASSUME NEW r \in Requests, Receive(r)
      PROVE  UNCHANGED published
  BY <1>1 DEF Receive, PostMessage, ListMessages, UnreadCount, GetDialog, DeleteDialog,
              CreateDialog, ListDialogs
<1>2. ASSUME NEW r \in Requests, Proceed(r)
      PROVE  UNCHANGED published \/ Broadcast(r)
  BY <1>2 DEF Proceed, Insert, CountForOthers, PushLast, LookupPage, QueryPage, MarkRead,
              TouchReadMark, ResetUnreadMark, GetUnread, ReadSince, CountSince, GetDialogRow,
              DeleteRow
<1> QED BY <1>1, <1>2 DEF Next, Expire, Crash, Quiet, Broadcast, vars, requestVars

-----------------------------------------------------------------------------
(* The step simulation. *)

Chats == Durable /\ Stamped

LEMMA InitChats == Init => Chats /\ Log!LogInit
<1> SUFFICES ASSUME Init PROVE Chats /\ Log!LogInit
  OBVIOUS
<1>1. Stamped
  BY DEF Stamped, Init, StoreInit, RequestsInit, Entered
<1>2. \A d \in Dialogs : Live(d) \/ d \notin minted
  BY StoreAssumption, MissingAssumption DEF Live, Init, StoreInit
<1>3. Log!LogInit
  BY <1>2 DEF Log!LogInit, Init, StoreInit, RequestsInit, GetParticipants
<1> QED BY <1>1, <1>3, InitDurable DEF Chats

LEMMA ChatsStep ==
  ASSUME Chats, [Next]_vars
  PROVE  Chats'
<1>1. Typed /\ Durable /\ Stamped
  BY DEF Chats, Durable, Owned
<1>2. Typed' /\ StampSteps
  BY <1>1, TypedStep, StampStepsHold
<1> QED BY <1>1, <1>2, DurableStep, StampedStep DEF Chats

(* Creating a dialog opens a chat: its id was free. *)
LEMMA CreateOpens ==
  ASSUME Owned, NEW d \in Dialogs \ minted, NEW row \in Dialog, NEW ms \in SUBSET Users,
         AcceptedSize(ms), CreateDialogTx(d, row, ms), UNCHANGED published
  PROVE  Log!Open(d, ms)
<1>1. /\ dialogs \in [Dialogs -> Dialog \cup {Missing}] /\ ~Live(d)
      /\ \A k \in participants : Live(k[1])
  BY DEF Owned, LiveMinted, MembersOnly, Typed, StoreTyped, StoreTypeOK
<1>2. Cardinality(ms) >= 2
  BY DialogAssumption DEF AcceptedSize
<1>3. \A c \in Dialogs : /\ Live(c)' <=> (c = d \/ Live(c))
                         /\ c \in minted' <=> (c = d \/ c \in minted)
  BY <1>1, MissingAssumption DEF CreateDialogTx, Live
<1>4. \A c \in Dialogs : GetParticipants(c)' = IF c = d THEN ms ELSE GetParticipants(c)
  BY <1>1 DEF CreateDialogTx, GetParticipants
<1>5. UNCHANGED messages
  BY DEF CreateDialogTx
<1>6. Log!Cardinality(ms) >= 2
  BY <1>2 DEF Log!Cardinality, Cardinality
<1> QED BY <1>1, <1>3, <1>4, <1>5, <1>6 DEF Log!Open

(* Deleting a dialog closes its chat. *)
LEMMA DeleteCloses ==
  ASSUME Owned, NEW d \in Dialogs, DeleteDialogRow(d), UNCHANGED published
  PROVE  Log!Close(d)
<1>1. /\ dialogs \in [Dialogs -> Dialog \cup {Missing}] /\ Live(d) /\ d \in minted
  BY DEF Owned, LiveMinted, Typed, StoreTyped, StoreTypeOK, DeleteDialogRow
<1>2. \A c \in Dialogs : Live(c)' <=> (c # d /\ Live(c))
  BY <1>1 DEF DeleteDialogRow, Live
<1>3. \A c \in Dialogs : GetParticipants(c)' = IF c = d THEN {} ELSE GetParticipants(c)
  BY DEF DeleteDialogRow, GetParticipants
<1>4. messages' = {m \in messages : m.dialog # d} /\ minted' = minted
  BY DEF DeleteDialogRow, MessagesOf
<1> QED BY <1>1, <1>2, <1>3, <1>4 DEF Log!Close

(* An INSERT writes to an open chat, in the name of a member and with a    *)
(* new stamp.                                                              *)
LEMMA InsertWrites ==
  ASSUME Owned, Stamped, NEW r \in Requests, req[r].pc = "insert",
         InsertMessage(MessageOf(r)), UNCHANGED published
  PROVE  Log!Write(MessageOf(r)) /\ MessageOf(r) \in messages' \ messages
<1>1. /\ MessageOf(r).dialog = req[r].dialog /\ MessageOf(r).sender = req[r].user
      /\ MessageOf(r).at = req[r].at /\ req[r].dialog \in Dialogs /\ req[r].user \in Users
  BY DEF MessageOf, Owned, Typed, RequestsTyped, Placed
<1>2. Live(req[r].dialog)
  BY <1>1 DEF InsertMessage
<1>3. IsParticipant(req[r].dialog, req[r].user)
  <2>1. req[r].op # "deleteDialog" /\ req[r].dialog # Missing
    BY <1>1, MissingAssumption DEF Owned, AllOnPath, OnPath, Path
  <2> QED BY <1>2, <2>1 DEF Owned, AllKnown, Known, Targets
<1>4. \A m \in messages : m.at # MessageOf(r).at
  BY <1>1 DEF Stamped
<1>5. MessageOf(r) \in messages' \ messages /\ messages' = messages \cup {MessageOf(r)}
  BY <1>4 DEF InsertMessage
<1>6. req[r].user \in GetParticipants(req[r].dialog)
  BY <1>1, <1>3 DEF GetParticipants, IsParticipant
<1>7. UNCHANGED <<dialogs, participants, minted>>
  BY DEF InsertMessage
<1> QED BY <1>1, <1>2, <1>4, <1>5, <1>6, <1>7 DEF Log!Write, Live, GetParticipants

(* The broadcast announces a message that its chat has, or had. *)
LEMMA BroadcastAnnounces ==
  ASSUME Durable, UNCHANGED storeVars, NEW r \in Requests, req[r].pc = "broadcast",
         published' = published \cup {MessageOf(r)}
  PROVE  Log!Announce(MessageOf(r))
<1>1. Stored(MessageOf(r))
  BY DEF Durable, Confirmed, AfterInsert
<1>2. MessageOf(r).dialog \in Dialogs
  BY MessageOfType DEF Durable, Owned, Typed, Message
<1> HIDE DEF MessageOf
<1> QED BY <1>1, <1>2 DEF Log!Announce, Stored, storeVars, Live, GetParticipants

LEMMA StepsSimulate ==
  ASSUME Chats, [Next]_vars
  PROVE  [Log!LogNext]_(Log!logVars)
<1>1. Owned /\ Durable /\ Stamped /\ Typed
  BY DEF Chats, Durable, Owned
<1>2. StoreEffect
  BY <1>1, StoreSteps
<1>3. CASE ~UNCHANGED published
  <2>1. PICK r \in Requests : /\ UNCHANGED storeVars /\ req[r].pc = "broadcast"
                              /\ published' = published \cup {MessageOf(r)}
    BY <1>3, PublishedAlone
  <2>2. Log!Announce(MessageOf(r)) /\ MessageOf(r) \in published' \ published
    BY <1>1, <1>3, <2>1, BroadcastAnnounces
  <2> QED BY <2>2 DEF Log!LogNext
<1>4. CASE UNCHANGED published
  <2>1. CASE UNCHANGED <<dialogs, participants, messages, minted>>
    BY <1>4, <2>1 DEF Log!logVars, Live, GetParticipants
  <2>2. ASSUME NEW d \in Dialogs \ minted, NEW u \in Users, NEW ms \in SUBSET Users,
               NEW named \in BOOLEAN, AcceptedSize(ms),
               CreateDialogTx(d, [type |-> DialogTypeOf(ms, named), createdBy |-> u], ms)
        PROVE  Log!LogNext
    <3> DEFINE row == [type |-> DialogTypeOf(ms, named), createdBy |-> u]
    <3>1. row \in Dialog
      BY DEF Dialog, DialogType, DialogTypeOf
    <3> HIDE DEF row
    <3>2. Log!Open(d, ms)
      BY <1>1, <1>4, <2>2, <3>1, CreateOpens DEF row
    <3> QED BY <3>2 DEF Log!LogNext
  <2>3. ASSUME NEW r \in Requests, req[r].pc = "insert", InsertMessage(MessageOf(r))
        PROVE  Log!LogNext
    BY <1>1, <1>4, <2>3, InsertWrites DEF Log!LogNext
  <2>4. ASSUME NEW r \in Requests, req[r].pc = "delete", DeleteDialogRow(req[r].dialog)
        PROVE  Log!LogNext
    <3>1. req[r].dialog \in Dialogs
      BY <1>1, <2>4 DEF Typed, RequestsTyped, Placed
    <3> QED BY <1>1, <1>4, <2>4, <3>1, DeleteCloses DEF Log!LogNext
  <2> QED BY <1>2, <2>1, <2>2, <2>3, <2>4 DEF StoreEffect, TouchRead
<1> QED BY <1>3, <1>4

(* Implements: MessagingApi implements ChatLog.  Whatever requests overlap *)
(* and fail, its tables and broadcasts are those of chats that open, grow  *)
(* by messages of members with stamps of their own, announce what was      *)
(* written and close for good.                                             *)
THEOREM Implements == Spec => ImplementsChatLog
<1>1. Spec => []Chats
  BY InitChats, ChatsStep, PTL DEF Spec
<1>2. Chats /\ [Next]_vars => [Log!LogNext]_(Log!logVars)
  BY StepsSimulate
<1>3. Init => Log!LogInit
  BY InitChats
<1> QED BY <1>1, <1>2, <1>3, PTL DEF Spec, ImplementsChatLog, Log!LogSpec

=============================================================================
