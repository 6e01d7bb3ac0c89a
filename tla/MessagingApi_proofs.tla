------------------------- MODULE MessagingApi_proofs -------------------------
(***************************************************************************)
(* Theorems about MessagingApi, for every value of its constants.          *)
(***************************************************************************)
EXTENDS MessagingApi, FiniteSetTheorems, WellFoundedInduction, SequenceTheorems, TLAPS

USE DEF FaultKinds

-----------------------------------------------------------------------------
(* Lemmas about the operators of Store and RedisCache. *)

(* A set of messages has an oldest one, so the cursor of a page is a stamp. *)
LEMMA NextCursorType ==
  ASSUME NEW page \in SUBSET Message, NEW size \in Nat \ {0}
  PROVE  NextCursor(page, size) \in Nat
<1> DEFINE stamps == {m.at : m \in page}
<1>1. CASE Cardinality(page) = size
  <2>1. page # {}
    BY <1>1, FS_EmptySet
  <2>2. stamps # {} /\ stamps \subseteq Nat
    BY <2>1 DEF Message
  <2>3. PICK x \in stamps : \A y \in stamps : <<y, x>> \notin OpToRel(<, Nat)
    <3> HIDE DEF stamps
    <3> QED BY <2>2, NatLessThanWellFounded, WFMin
  <2>4. \A y \in stamps : x <= y
    <3> SUFFICES ASSUME NEW y \in stamps PROVE ~(y < x)
      BY <2>2
    <3>1. <<y, x>> \in Nat \X Nat /\ <<y, x>>[1] = y /\ <<y, x>>[2] = x
      BY <2>2
    <3> HIDE DEF stamps
    <3> QED BY <2>3, <3>1 DEF OpToRel
  <2>5. Min(stamps) \in stamps
    BY <2>3, <2>4 DEF Min
  <2> QED BY <1>1, <2>2, <2>5 DEF NextCursor
<1>2. CASE Cardinality(page) # size
  BY <1>2 DEF NextCursor, Epoch
<1> QED BY <1>1, <1>2

(* The page size is positive. *)
LEMMA PageSizeType ==
  ASSUME NEW limit \in Int
  PROVE  PageSize(limit) \in Nat \ {0}
BY StoreAssumption DEF PageSize

(* What LTRIM and LRANGE leave of a list was in it. *)
LEMMA FirstOfType ==
  ASSUME NEW S, NEW list \in Seq(S), NEW n \in Nat
  PROVE  /\ FirstOf(list, n) \in Seq(S)
         /\ ToSet(FirstOf(list, n)) \subseteq ToSet(list)
<1> DEFINE last == IF n < Len(list) THEN n ELSE Len(list)
<1>1. Len(list) \in Nat /\ last \in Nat /\ last <= Len(list) /\ DOMAIN list = 1..Len(list)
  BY LenProperties
<1>2. \A i \in 1..last : list[i] \in S
  BY <1>1, ElementOfSeq
<1>3. /\ SubSeq(list, 1, last) \in Seq(S)
      /\ \A i \in 1..last : SubSeq(list, 1, last)[i] = list[i]
      /\ Len(SubSeq(list, 1, last)) = last
  <2> HIDE DEF last
  <2> QED BY <1>1, <1>2, SubSeqProperties
<1>4. DOMAIN SubSeq(list, 1, last) = 1..last
  BY <1>1, <1>3, LenProperties
<1> QED BY <1>1, <1>3, <1>4 DEF FirstOf, ToSet

-----------------------------------------------------------------------------
(* Type correctness.  COUNT needs the table messages to be finite, and a   *)
(* request that is being served must know its user and its dialog.         *)

StoreTyped == StoreTypeOK /\ IsFiniteSet(messages)

Placed(e) == e.user \in Users /\ e.dialog \in Dialogs

RequestsTyped ==
  RequestsTypeOK /\ \A r \in Requests : req[r].pc \in {"new", "done"} \/ Placed(req[r])

Typed == StoreTyped /\ CacheTypeOK /\ RequestsTyped

LEMMA StoreKept ==
  ASSUME StoreTyped, UNCHANGED storeVars
  PROVE  StoreTyped'
BY DEF StoreTyped, StoreTypeOK, storeVars

LEMMA CacheKept ==
  ASSUME CacheTypeOK, UNCHANGED cacheVars
  PROVE  CacheTypeOK'
BY DEF CacheTypeOK, cacheVars

(* The statements keep the types of the tables. *)
LEMMA InsertMessageType ==
  ASSUME StoreTyped, NEW m \in Message, InsertMessage(m)
  PROVE  StoreTyped'
<1>1. IsFiniteSet(messages')
  BY FS_AddElement DEF StoreTyped, InsertMessage
<1>2. StoreTypeOK'
  BY DEF StoreTyped, StoreTypeOK, InsertMessage
<1> QED BY <1>1, <1>2 DEF StoreTyped

LEMMA TouchReadType ==
  ASSUME StoreTyped, NEW d \in Dialogs, NEW u \in Users, NEW t \in Nat, TouchRead(d, u, t)
  PROVE  StoreTyped'
BY DEF StoreTyped, StoreTypeOK, TouchRead, Member

LEMMA DeleteDialogRowType ==
  ASSUME StoreTyped, NEW d \in Dialogs, DeleteDialogRow(d)
  PROVE  StoreTyped'
<1>1. IsFiniteSet(messages')
  BY FS_Subset DEF StoreTyped, DeleteDialogRow
<1>2. StoreTypeOK'
  BY DEF StoreTyped, StoreTypeOK, DeleteDialogRow, Member
<1> QED BY <1>1, <1>2 DEF StoreTyped

LEMMA CreateDialogTxType ==
  ASSUME StoreTyped, NEW d \in Dialogs, NEW row \in Dialog, NEW members \in SUBSET Users,
         CreateDialogTx(d, row, members)
  PROVE  StoreTyped'
<1>1. clock \in Nat /\ clock + 1 \in Nat \ {Epoch} /\ clock' = clock + 1
  BY DEF StoreTyped, StoreTypeOK, CreateDialogTx, Epoch
<1>2. reads' \in [Member -> Nat \cup {Missing}]
  BY <1>1 DEF StoreTyped, StoreTypeOK, CreateDialogTx
<1>3. dialogs' \in [Dialogs -> Dialog \cup {Missing}]
  BY DEF StoreTyped, StoreTypeOK, CreateDialogTx
<1>4. participants' \subseteq Member
  BY DEF StoreTyped, StoreTypeOK, CreateDialogTx, Member
<1>5. messages' = messages /\ minted' \subseteq Dialogs
  BY DEF StoreTyped, StoreTypeOK, CreateDialogTx
<1> QED BY <1>1, <1>2, <1>3, <1>4, <1>5 DEF StoreTyped, StoreTypeOK

LEMMA TickType ==
  ASSUME StoreTyped, clock' = clock + 1,
         UNCHANGED <<dialogs, participants, reads, messages, minted>>
  PROVE  StoreTyped'
BY DEF StoreTyped, StoreTypeOK, Epoch

LEMMA CountUnreadSinceType ==
  ASSUME StoreTyped, NEW d, NEW u, NEW t
  PROVE  CountUnreadSince(d, u, t) \in Nat
<1>1. IsFiniteSet({m \in MessagesOf(d) : m.at > t /\ m.sender # u})
  BY FS_Subset DEF StoreTyped, MessagesOf
<1> QED BY <1>1, FS_CardinalityType DEF CountUnreadSince

LEMMA GetLastReadAtType ==
  ASSUME StoreTyped, NEW d \in Dialogs, NEW u \in Users
  PROVE  GetLastReadAt(d, u) \in Nat
BY DEF StoreTyped, StoreTypeOK, GetLastReadAt, Member, Epoch

(* The pipelines keep the types of the keys. *)
LEMMA PushLastMessageType ==
  ASSUME CacheTypeOK, NEW d \in Dialogs, NEW m \in Message, NEW n \in Nat,
         PushLastMessage(d, m, n)
  PROVE  CacheTypeOK'
<1> DEFINE pushed == [i \in 1..n |-> m] \o lastMessages[d]
<1>1. [i \in 1..n |-> m] \in Seq(Message)
  BY IsASeq
<1>2. pushed \in Seq(Message)
  BY <1>1, ConcatProperties DEF CacheTypeOK
<1>3. FirstOf(pushed, LastMessagesLimit) \in Seq(Message)
  BY <1>2, FirstOfType, CacheAssumption
<1> QED BY <1>3 DEF CacheTypeOK, PushLastMessage

LEMMA IncrUnreadType ==
  ASSUME CacheTypeOK, NEW d \in Dialogs, NEW users \in SUBSET Users, NEW n \in Nat,
         IncrUnreadForUsers(d, users, n)
  PROVE  CacheTypeOK'
BY DEF CacheTypeOK, IncrUnreadForUsers

LEMMA ResetUnreadType ==
  ASSUME CacheTypeOK, NEW d \in Dialogs, NEW u \in Users, ResetUnread(u, d)
  PROVE  CacheTypeOK'
BY DEF CacheTypeOK, ResetUnread, Member

(* The bookkeeping of a request keeps the types of req and reply. *)
LEMMA RequestsKept ==
  ASSUME RequestsTyped, UNCHANGED <<req, reply>>, published' \subseteq Message
  PROVE  RequestsTyped'
BY DEF RequestsTyped, RequestsTypeOK, Placed

LEMMA EnteredType ==
  ASSUME NEW op \in Handlers, NEW u \in Users, NEW d \in Dialogs, NEW pc \in Steps
  PROVE  Entered(op, u, d, pc) \in Request /\ Placed(Entered(op, u, d, pc))
BY DEF Entered, Request, Epoch, Placed

LEMMA MessageOfType ==
  ASSUME RequestsTyped, NEW r \in Requests, req[r].pc \notin {"new", "done"}
  PROVE  Placed(req[r]) /\ MessageOf(r) \in Message
BY DEF RequestsTyped, RequestsTypeOK, Request, MessageOf, Message, Placed

LEMMA UpdateType ==
  ASSUME RequestsTyped, NEW r \in Requests, NEW e \in Request, Placed(e),
         req' = [req EXCEPT ![r] = e], reply' \in [Requests -> Reply],
         published' = published
  PROVE  RequestsTyped'
BY DEF RequestsTyped, RequestsTypeOK

(* A request may also change together with its reply, or end. *)
LEMMA RowType ==
  ASSUME RequestsTyped, NEW r \in Requests, NEW e \in Request,
         e.pc \in {"new", "done"} \/ Placed(e), req' = [req EXCEPT ![r] = e],
         reply' \in [Requests -> Reply], published' = published
  PROVE  RequestsTyped'
BY DEF RequestsTyped, RequestsTypeOK

LEMMA GotoType ==
  ASSUME RequestsTyped, NEW r \in Requests, req[r].pc \notin {"new", "done"},
         NEW pc \in Steps, Goto(r, pc), published' = published
  PROVE  RequestsTyped'
<1>1. req' \in [Requests -> Request]
  BY DEF RequestsTyped, RequestsTypeOK, Goto, Request
<1>2. \A q \in Requests : req'[q].pc \in {"new", "done"} \/ Placed(req'[q])
  BY DEF RequestsTyped, RequestsTypeOK, Goto, Request, Placed
<1> QED BY <1>1, <1>2 DEF RequestsTyped, RequestsTypeOK, Goto

LEMMA FinishType ==
  ASSUME RequestsTyped, NEW r \in Requests, NEW status \in Statuses, Finish(r, status),
         published' \subseteq Message
  PROVE  RequestsTyped'
<1>1. req' \in [Requests -> Request]
  BY DEF RequestsTyped, RequestsTypeOK, Finish, Request, Steps
<1>2. reply' \in [Requests -> Reply]
  BY DEF RequestsTyped, RequestsTypeOK, Finish, Reply
<1>3. \A q \in Requests : req'[q].pc \in {"new", "done"} \/ Placed(req'[q])
  BY DEF RequestsTyped, RequestsTypeOK, Finish, Request, Placed
<1> QED BY <1>1, <1>2, <1>3 DEF RequestsTyped, RequestsTypeOK

LEMMA EnterType ==
  ASSUME RequestsTyped, NEW r \in Requests, NEW e \in Request, Placed(e),
         EnterAsParticipant(r, e), published' = published
  PROVE  RequestsTyped'
<1>1. CASE req' = [req EXCEPT ![r] = e] /\ UNCHANGED reply
  BY <1>1, UpdateType DEF RequestsTyped, RequestsTypeOK
<1>2. CASE \E status \in EnsureErrors(e.dialog, e.user) : Finish(r, status)
  <2>1. EnsureErrors(e.dialog, e.user) \subseteq Statuses
    BY DEF EnsureErrors, Statuses
  <2> QED BY <1>2, <2>1, FinishType DEF RequestsTyped, RequestsTypeOK
<1> QED BY <1>1, <1>2 DEF EnterAsParticipant

LEMMA InitTyped == Init => Typed
<1> SUFFICES ASSUME Init PROVE Typed
  OBVIOUS
<1>1. StoreTypeOK
  <2>1. dialogs \in [Dialogs -> Dialog \cup {Missing}]
    BY StoreAssumption DEF Init, StoreInit
  <2>2. participants \subseteq Member /\ reads \in [Member -> Nat \cup {Missing}]
    BY DEF Init, StoreInit
  <2>3. messages = {} /\ minted \subseteq Dialogs /\ clock \in Nat \ {Epoch}
    BY StoreAssumption DEF Init, StoreInit, Epoch
  <2> QED BY <2>1, <2>2, <2>3 DEF StoreTypeOK
<1>2. IsFiniteSet(messages)
  BY FS_EmptySet DEF Init, StoreInit
<1>3. CacheTypeOK
  BY EmptySeq DEF Init, CacheInit, CacheTypeOK
<1>4. RequestsTyped
  <2>1. req \in [Requests -> Request] /\ \A r \in Requests : req[r].pc = "new"
    BY DEF Init, RequestsInit, Entered, Request, Epoch, Steps
  <2>2. reply \in [Requests -> Reply] /\ published \subseteq Message
    BY DEF Init, RequestsInit, Reply, Statuses, Epoch
  <2> QED BY <2>1, <2>2 DEF RequestsTyped, RequestsTypeOK
<1> QED BY <1>1, <1>2, <1>3, <1>4 DEF Typed, StoreTyped

LEMMA PostMessageTyped ==
  ASSUME Typed, NEW r \in Requests, NEW u \in Users, NEW d \in Dialogs, NEW length \in Nat,
         PostMessage(r, u, d, length)
  PROVE  Typed'
<1> USE DEF Typed
<1>1. CacheTypeOK' /\ published' = published
  BY CacheKept DEF PostMessage
<1>2. CASE /\ req' = [req EXCEPT ![r] = [Entered("postMessage", u, d, "insert") EXCEPT !.at = clock]]
           /\ clock' = clock + 1
           /\ UNCHANGED reply
  <2> DEFINE e == [Entered("postMessage", u, d, "insert") EXCEPT !.at = clock]
  <2>1. e \in Request /\ Placed(e)
    BY EnteredType DEF Handlers, Steps, Request, Placed, StoreTyped, StoreTypeOK, Entered
  <2>2. RequestsTyped'
    <3> HIDE DEF e
    <3> QED BY <1>1, <1>2, <2>1, UpdateType DEF RequestsTyped, RequestsTypeOK, e
  <2>3. StoreTyped'
    BY <1>2, TickType DEF PostMessage
  <2> QED BY <1>1, <2>2, <2>3
<1>3. CASE (\E status \in Statuses : Finish(r, status)) /\ UNCHANGED clock
  <2>1. StoreTyped'
    BY <1>3, StoreKept DEF PostMessage, storeVars
  <2>2. RequestsTyped'
    BY <1>1, <1>3, FinishType DEF RequestsTyped, RequestsTypeOK
  <2> QED BY <1>1, <2>1, <2>2
<1>4. EnsureErrors(d, u) \subseteq Statuses /\ "validation" \in Statuses
  BY DEF EnsureErrors, Statuses
<1> QED BY <1>2, <1>3, <1>4 DEF PostMessage

LEMMA InsertTyped ==
  ASSUME Typed, NEW r \in Requests, Insert(r)
  PROVE  Typed'
<1> USE DEF Typed
<1>1. MessageOf(r) \in Message
  BY MessageOfType DEF Insert
<1>2. CacheTypeOK' /\ published' = published
  BY CacheKept DEF Insert
<1>3. StoreTyped'
  BY <1>1, InsertMessageType, StoreKept DEF Insert
<1>4. RequestsTyped'
  <2>1. "count" \in Steps /\ "internal" \in Statuses /\ published' \subseteq Message
    BY <1>2 DEF Steps, Statuses, RequestsTyped, RequestsTypeOK
  <2> QED BY <1>2, <2>1, GotoType, FinishType DEF Insert
<1> QED BY <1>2, <1>3, <1>4

LEMMA CountForOthersTyped ==
  ASSUME Typed, NEW r \in Requests, CountForOthers(r)
  PROVE  Typed'
<1> USE DEF Typed
<1>1. StoreTyped'
  BY StoreKept DEF CountForOthers
<1>2. CacheTypeOK'
  <2>1. Placed(req[r]) /\ UnreadTargets(r) \subseteq Users
    BY MessageOfType DEF CountForOthers, UnreadTargets, GetParticipants
  <2>2. Sendings \subseteq Nat
    BY DEF Sendings
  <2> QED BY <2>1, <2>2, IncrUnreadType, CacheKept DEF CountForOthers, Placed
<1>3. RequestsTyped'
  BY GotoType DEF CountForOthers, Steps
<1> QED BY <1>1, <1>2, <1>3

LEMMA PushLastTyped ==
  ASSUME Typed, NEW r \in Requests, PushLast(r)
  PROVE  Typed'
<1> USE DEF Typed
<1>1. StoreTyped'
  BY StoreKept DEF PushLast
<1>2. CacheTypeOK'
  <2>1. Placed(req[r]) /\ MessageOf(r) \in Message /\ Sendings \subseteq Nat
    BY MessageOfType DEF PushLast, Sendings
  <2> QED BY <2>1, PushLastMessageType, CacheKept DEF PushLast, Placed
<1>3. RequestsTyped'
  BY GotoType DEF PushLast, Steps
<1> QED BY <1>1, <1>2, <1>3

LEMMA BroadcastTyped ==
  ASSUME Typed, NEW r \in Requests, Broadcast(r)
  PROVE  Typed'
<1> USE DEF Typed
<1>1. StoreTyped' /\ CacheTypeOK'
  BY StoreKept, CacheKept DEF Broadcast
<1>2. published' \subseteq Message
  BY MessageOfType DEF Broadcast, RequestsTyped, RequestsTypeOK
<1>3. RequestsTyped'
  BY <1>2, FinishType DEF Broadcast, Statuses
<1> QED BY <1>1, <1>3

LEMMA ListMessagesTyped ==
  ASSUME Typed, NEW r \in Requests, NEW u \in Users, NEW d \in Dialogs, NEW limit \in Int,
         NEW cursor \in CursorsHeld, ListMessages(r, u, d, limit, cursor)
  PROVE  Typed'
<1> USE DEF Typed
<1> DEFINE pc == IF cursor = Epoch THEN "lookup" ELSE "query"
           e == [Entered("listMessages", u, d, pc) EXCEPT !.limit = limit, !.cursor = cursor]
<1>1. StoreTyped' /\ CacheTypeOK' /\ published' = published
  BY StoreKept, CacheKept DEF ListMessages
<1>2. cursor \in Nat \cup {Missing}
  BY DEF CursorsHeld, RequestsTyped, RequestsTypeOK, Reply, Epoch
<1>3. e \in Request /\ Placed(e)
  <2>1. pc \in Steps /\ "listMessages" \in Handlers
    BY DEF Steps, Handlers
  <2> HIDE DEF pc
  <2>2. Entered("listMessages", u, d, pc) \in Request /\ Placed(Entered("listMessages", u, d, pc))
    BY <2>1, EnteredType
  <2> QED BY <1>2, <2>2 DEF Request, Placed
<1>4. RequestsTyped'
  <2> HIDE DEF e
  <2> QED BY <1>1, <1>3, EnterType DEF ListMessages, e
<1> QED BY <1>1, <1>4

LEMMA TakePageTyped ==
  ASSUME RequestsTyped, NEW r \in Requests, req[r].pc \notin {"new", "done"},
         NEW page \in SUBSET Message, NEW next \in Nat, TakePage(r, page, next),
         published' = published
  PROVE  RequestsTyped'
<1>1. reply' \in [Requests -> Reply]
  BY DEF RequestsTyped, RequestsTypeOK, TakePage, Reply
<1>2. req' \in [Requests -> Request]
  BY DEF RequestsTyped, RequestsTypeOK, TakePage, Request, Steps
<1>3. \A q \in Requests : req'[q].pc \in {"new", "done"} \/ Placed(req'[q])
  BY DEF RequestsTyped, RequestsTypeOK, TakePage, Request, Placed
<1> QED BY <1>1, <1>2, <1>3 DEF RequestsTyped, RequestsTypeOK

LEMMA LookupPageTyped ==
  ASSUME Typed, NEW r \in Requests, LookupPage(r)
  PROVE  Typed'
<1> USE DEF Typed
<1> DEFINE hit == GetLastMessages(req[r].dialog, req[r].limit)
           next == IF Len(hit) = req[r].limit THEN hit[Len(hit)].at ELSE Epoch
<1>1. StoreTyped' /\ CacheTypeOK' /\ published' = published
  BY StoreKept, CacheKept DEF LookupPage
<1>2. Placed(req[r]) /\ req[r].limit \in Int
  BY MessageOfType DEF LookupPage, RequestsTyped, RequestsTypeOK, Request
<1>3. hit \in Seq(Message)
  <2>1. lastMessages[req[r].dialog] \in Seq(Message)
    BY <1>2 DEF Placed, CacheTypeOK
  <2>2. (IF req[r].limit \in 1..LastMessagesLimit THEN req[r].limit ELSE LastMessagesLimit) \in Nat
    BY <1>2, CacheAssumption
  <2> QED BY <2>1, <2>2, FirstOfType DEF GetLastMessages
<1>4. CASE hit # <<>> /\ TakePage(r, ToSet(hit), next)
  <2> HIDE DEF hit
  <2>1. ToSet(hit) \subseteq Message /\ hit[Len(hit)] \in Message
    BY <1>3, <1>4 DEF ToSet
  <2>2. next \in Nat
    BY <2>1 DEF Message, Epoch
  <2> QED BY <1>1, <1>4, <2>1, <2>2, TakePageTyped DEF LookupPage
<1>5. CASE Goto(r, "query")
  BY <1>1, <1>5, GotoType DEF LookupPage, Steps
<1> QED BY <1>4, <1>5 DEF LookupPage

LEMMA QueryPageTyped ==
  ASSUME Typed, NEW r \in Requests, QueryPage(r)
  PROVE  Typed'
<1> USE DEF Typed
<1> DEFINE page == ListByDialogDesc(req[r].dialog, req[r].limit, req[r].cursor)
           next == NextCursor(page, PageSize(req[r].limit))
<1>1. StoreTyped' /\ CacheTypeOK' /\ published' = published
  BY StoreKept, CacheKept DEF QueryPage
<1>2. page \subseteq Message
  BY DEF ListByDialogDesc, Newest, MessagesOf, StoreTyped, StoreTypeOK
<1>3. next \in Nat
  <2>1. req[r].limit \in Int
    BY DEF RequestsTyped, RequestsTypeOK, Request
  <2> HIDE DEF page
  <2> QED BY <1>2, <2>1, NextCursorType, PageSizeType
<1>4. CASE TakePage(r, page, next)
  <2> HIDE DEF page, next
  <2> QED BY <1>1, <1>2, <1>3, <1>4, TakePageTyped DEF QueryPage
<1>5. CASE Finish(r, "validation") \/ Finish(r, "internal")
  BY <1>1, <1>5, FinishType DEF QueryPage, Statuses, RequestsTyped, RequestsTypeOK
<1> QED BY <1>4, <1>5 DEF QueryPage

LEMMA UnreadCountTyped ==
  ASSUME Typed, NEW r \in Requests, NEW u \in Users, NEW d \in Dialogs, UnreadCount(r, u, d)
  PROVE  Typed'
BY StoreKept, CacheKept, EnteredType, EnterType DEF Typed, UnreadCount, Handlers, Steps

LEMMA GetDialogTyped ==
  ASSUME Typed, NEW r \in Requests, NEW u \in Users, NEW d \in Dialogs, GetDialog(r, u, d)
  PROVE  Typed'
BY StoreKept, CacheKept, EnteredType, EnterType DEF Typed, GetDialog, Handlers, Steps

LEMMA CountedTyped ==
  ASSUME RequestsTyped, NEW r \in Requests, req[r].pc \notin {"new", "done"},
         NEW n \in Nat, Counted(r, n), published' = published
  PROVE  RequestsTyped'
<1>1. Placed(req[r])
  BY MessageOfType
<1>2. reply' \in [Requests -> Reply]
  <2> DEFINE s == IF req[r].todo = {} THEN "ok" ELSE reply[r].status
             e == [reply[r] EXCEPT !.counts[req[r].dialog] = n, !.status = s]
  <2>1. s \in Statuses
    BY DEF RequestsTyped, RequestsTypeOK, Reply, Statuses
  <2>2. [reply[r].counts EXCEPT ![req[r].dialog] = n] \in [Dialogs -> Nat]
    BY <1>1 DEF RequestsTyped, RequestsTypeOK, Reply, Placed
  <2>3. reply' = [reply EXCEPT ![r] = e]
    BY DEF Counted, RequestsTyped, RequestsTypeOK
  <2>4. e \in Reply
    <3> HIDE DEF s
    <3> QED BY <2>1, <2>2 DEF RequestsTyped, RequestsTypeOK, Reply
  <2> QED BY <2>3, <2>4 DEF RequestsTyped, RequestsTypeOK
<1>3. req \in [Requests -> Request] /\ req[r] \in Request /\ "unread" \in Steps /\ "done" \in Steps
  BY DEF RequestsTyped, RequestsTypeOK, Steps
<1>4. CASE req' = [req EXCEPT ![r].pc = "done"]
  <2> DEFINE e == [req[r] EXCEPT !.pc = "done"]
  <2>1. e \in Request /\ e.pc = "done"
    BY <1>3 DEF Request
  <2>2. req' = [req EXCEPT ![r] = e]
    BY <1>3, <1>4
  <2> QED BY <1>2, <2>1, <2>2, RowType
<1>5. CASE \E d \in req[r].todo :
             req' = [req EXCEPT ![r].dialog = d, ![r].todo = @ \ {d}, ![r].pc = "unread"]
  <2>1. PICK d \in req[r].todo :
          req' = [req EXCEPT ![r].dialog = d, ![r].todo = @ \ {d}, ![r].pc = "unread"]
    BY <1>5
  <2> DEFINE e == [req[r] EXCEPT !.dialog = d, !.todo = @ \ {d}, !.pc = "unread"]
  <2>2. d \in Dialogs /\ req[r].todo \ {d} \subseteq Dialogs
    BY <1>3 DEF Request
  <2>3. e \in Request /\ Placed(e)
    BY <1>1, <1>3, <2>2 DEF Request, Placed
  <2>4. req' = [req EXCEPT ![r] = e]
    BY <1>3, <2>1
  <2> HIDE DEF e
  <2> QED BY <1>2, <2>3, <2>4, RowType
<1> QED BY <1>4, <1>5 DEF Counted

LEMMA GetUnreadTyped ==
  ASSUME Typed, NEW r \in Requests, GetUnread(r)
  PROVE  Typed'
<1> USE DEF Typed
<1>1. StoreTyped' /\ CacheTypeOK' /\ published' = published
  BY StoreKept, CacheKept DEF GetUnread
<1>2. Placed(req[r])
  BY MessageOfType DEF GetUnread
<1>3. unread[<<req[r].dialog, req[r].user>>] \in Nat \cup {Missing}
  BY <1>2 DEF Placed, CacheTypeOK, Member
<1>4. RequestsTyped'
  BY <1>1, <1>3, CountedTyped, GotoType DEF GetUnread, Steps
<1> QED BY <1>1, <1>4

LEMMA ReadSinceTyped ==
  ASSUME Typed, NEW r \in Requests, ReadSince(r)
  PROVE  Typed'
<1> USE DEF Typed
<1>1. StoreTyped' /\ CacheTypeOK' /\ published' = published
  BY StoreKept, CacheKept DEF ReadSince
<1>2. Placed(req[r])
  BY MessageOfType DEF ReadSince
<1>3. PICK since \in Nat : req' = [req EXCEPT ![r].at = since, ![r].pc = "countSince"]
  BY <1>2, GetLastReadAtType DEF ReadSince, Placed, Epoch
<1>4. RequestsTyped'
  <2> DEFINE e == [req[r] EXCEPT !.at = since, !.pc = "countSince"]
  <2>1. e \in Request /\ Placed(e) /\ req' = [req EXCEPT ![r] = e]
    BY <1>2, <1>3 DEF RequestsTyped, RequestsTypeOK, Request, Steps, Placed
  <2>2. reply' \in [Requests -> Reply]
    BY DEF RequestsTyped, RequestsTypeOK, ReadSince
  <2> HIDE DEF e
  <2> QED BY <1>1, <2>1, <2>2, RowType
<1> QED BY <1>1, <1>4

LEMMA CountSinceTyped ==
  ASSUME Typed, NEW r \in Requests, CountSince(r)
  PROVE  Typed'
<1> USE DEF Typed
<1>1. StoreTyped' /\ CacheTypeOK' /\ published' = published /\ published' \subseteq Message
  BY StoreKept, CacheKept DEF CountSince, RequestsTyped, RequestsTypeOK
<1>2. RequestsTyped'
  BY <1>1, CountUnreadSinceType, CountedTyped, FinishType DEF CountSince, Statuses
<1> QED BY <1>1, <1>2

LEMMA CreateDialogTyped ==
  ASSUME Typed, NEW r \in Requests, NEW u \in Users, NEW ids, NEW named,
         CreateDialog(r, u, ids, named)
  PROVE  Typed'
<1> USE DEF Typed
<1> DEFINE members == Members(u, ids)
           row == [type |-> DialogTypeOf(members, named), createdBy |-> u]
<1>1. CacheTypeOK' /\ published' \subseteq Message
  BY CacheKept DEF CreateDialog, RequestsTyped, RequestsTypeOK
<1>2. StoreTyped'
  <2>1. row \in Dialog
    BY DEF Dialog, DialogType, DialogTypeOf
  <2>2. CASE UNCHANGED storeVars
    BY <2>2, StoreKept
  <2>3. CASE /\ members \subseteq Users
             /\ \E d \in Dialogs \ minted : CreateDialogTx(d, row, members)
    <3> HIDE DEF row, members
    <3> QED BY <2>1, <2>3, CreateDialogTxType
  <2> QED BY <2>2, <2>3 DEF CreateDialog
<1>3. RequestsTyped'
  <2>1. \E status \in {"validation", "created", "internal"} : Finish(r, status)
    BY DEF CreateDialog
  <2> QED BY <1>1, <2>1, FinishType DEF Statuses
<1> QED BY <1>1, <1>2, <1>3

LEMMA ListDialogsTyped ==
  ASSUME Typed, NEW r \in Requests, NEW u \in Users, ListDialogs(r, u)
  PROVE  Typed'
<1> USE DEF Typed
<1> DEFINE e(d) == [Entered("listDialogs", u, d, "unread") EXCEPT !.todo = DialogsOf(u) \ {d}]
<1>1. StoreTyped' /\ CacheTypeOK' /\ published' = published
  BY StoreKept, CacheKept DEF ListDialogs
<1>2. \A d \in Dialogs : e(d) \in Request /\ Placed(e(d))
  <2> TAKE d \in Dialogs
  <2> DEFINE e0 == Entered("listDialogs", u, d, "unread")
  <2>1. e0 \in Request /\ Placed(e0)
    BY EnteredType DEF Handlers, Steps
  <2>2. DialogsOf(u) \ {d} \in SUBSET Dialogs
    BY DEF DialogsOf
  <2> HIDE DEF e0
  <2>3. [e0 EXCEPT !.todo = DialogsOf(u) \ {d}] \in Request
        /\ Placed([e0 EXCEPT !.todo = DialogsOf(u) \ {d}])
    BY <2>1, <2>2 DEF Request, Placed
  <2> QED BY <2>3 DEF e0
<1>3. CASE \E d \in DialogsOf(u) : req' = [req EXCEPT ![r] = e(d)] /\ UNCHANGED reply
  <2>1. DialogsOf(u) \subseteq Dialogs
    BY DEF DialogsOf
  <2> HIDE DEF e
  <2>2. RequestsTyped'
    BY <1>1, <1>2, <1>3, <2>1, UpdateType DEF RequestsTyped, RequestsTypeOK
  <2> QED BY <1>1, <2>2
<1>4. CASE Finish(r, "ok") \/ Finish(r, "internal")
  BY <1>1, <1>4, FinishType DEF Statuses, RequestsTyped, RequestsTypeOK
<1> QED BY <1>3, <1>4 DEF ListDialogs

LEMMA GetDialogRowTyped ==
  ASSUME Typed, NEW r \in Requests, GetDialogRow(r)
  PROVE  Typed'
<1> USE DEF Typed
<1>1. StoreTyped' /\ CacheTypeOK' /\ published' = published /\ published' \subseteq Message
  BY StoreKept, CacheKept DEF GetDialogRow, RequestsTyped, RequestsTypeOK
<1>2. RequestsTyped'
  BY <1>1, GotoType, FinishType DEF GetDialogRow, Steps, Statuses
<1> QED BY <1>1, <1>2

LEMMA DeleteDialogTyped ==
  ASSUME Typed, NEW r \in Requests, NEW u \in Users, NEW d \in Dialogs, DeleteDialog(r, u, d)
  PROVE  Typed'
<1> USE DEF Typed
<1> DEFINE e == Entered("deleteDialog", u, d, "delete")
<1>1. StoreTyped' /\ CacheTypeOK' /\ published' = published /\ published' \subseteq Message
  BY StoreKept, CacheKept DEF DeleteDialog, RequestsTyped, RequestsTypeOK
<1>2. e \in Request /\ Placed(e)
  BY EnteredType DEF Handlers, Steps
<1>3. RequestsTyped'
  <2> HIDE DEF e
  <2>1. CASE req' = [req EXCEPT ![r] = e] /\ UNCHANGED reply
    BY <1>1, <1>2, <2>1, UpdateType DEF RequestsTyped, RequestsTypeOK
  <2>2. CASE \E status \in {"forbidden", "notFound", "internal"} : Finish(r, status)
    BY <1>1, <2>2, FinishType DEF Statuses
  <2> QED BY <2>1, <2>2 DEF DeleteDialog, e
<1> QED BY <1>1, <1>3

LEMMA DeleteRowTyped ==
  ASSUME Typed, NEW r \in Requests, DeleteRow(r)
  PROVE  Typed'
<1> USE DEF Typed
<1>1. CacheTypeOK' /\ published' \subseteq Message
  BY CacheKept DEF DeleteRow, RequestsTyped, RequestsTypeOK
<1>2. Placed(req[r])
  BY MessageOfType DEF DeleteRow
<1>3. StoreTyped'
  BY <1>2, StoreKept, DeleteDialogRowType DEF DeleteRow, Placed
<1>4. RequestsTyped'
  BY <1>1, FinishType DEF DeleteRow, Statuses
<1> QED BY <1>1, <1>3, <1>4

LEMMA MarkReadTyped ==
  ASSUME Typed, NEW r \in Requests, MarkRead(r)
  PROVE  Typed'
<1> USE DEF Typed
<1>1. CacheTypeOK' /\ published' = published /\ published' \subseteq Message
  BY CacheKept DEF MarkRead, RequestsTyped, RequestsTypeOK
<1>2. CASE /\ req' = [req EXCEPT ![r].at = clock, ![r].pc = "touch"]
           /\ clock' = clock + 1
           /\ UNCHANGED reply
  <2>1. StoreTyped'
    BY <1>2, TickType DEF MarkRead
  <2>2. Placed(req[r]) /\ clock \in Nat
    BY MessageOfType DEF MarkRead, StoreTyped, StoreTypeOK
  <2> DEFINE e == [req[r] EXCEPT !.at = clock, !.pc = "touch"]
  <2>3. e \in Request /\ Placed(e) /\ req' = [req EXCEPT ![r] = e]
    BY <1>2, <2>2 DEF RequestsTyped, RequestsTypeOK, Request, Steps, Placed
  <2>4. reply' \in [Requests -> Reply]
    BY <1>2 DEF RequestsTyped, RequestsTypeOK
  <2> HIDE DEF e
  <2> QED BY <1>1, <2>1, <2>3, <2>4, RowType
<1>3. CASE Finish(r, "ok") /\ UNCHANGED clock
  <2>1. StoreTyped'
    BY <1>3, StoreKept DEF MarkRead, storeVars
  <2> QED BY <1>1, <1>3, <2>1, FinishType DEF Statuses
<1> QED BY <1>2, <1>3 DEF MarkRead

LEMMA TouchReadMarkTyped ==
  ASSUME Typed, NEW r \in Requests, TouchReadMark(r)
  PROVE  Typed'
<1> USE DEF Typed
<1>1. CacheTypeOK' /\ published' = published /\ published' \subseteq Message
  BY CacheKept DEF TouchReadMark, RequestsTyped, RequestsTypeOK
<1>2. Placed(req[r]) /\ req[r].at \in Nat
  BY MessageOfType DEF TouchReadMark, RequestsTyped, RequestsTypeOK, Request
<1>3. StoreTyped'
  BY <1>2, StoreKept, TouchReadType DEF TouchReadMark, Placed
<1>4. RequestsTyped'
  BY <1>1, GotoType, FinishType DEF TouchReadMark, Steps, Statuses
<1> QED BY <1>1, <1>3, <1>4

LEMMA ResetUnreadMarkTyped ==
  ASSUME Typed, NEW r \in Requests, ResetUnreadMark(r)
  PROVE  Typed'
<1> USE DEF Typed
<1>1. StoreTyped' /\ published' \subseteq Message
  BY StoreKept DEF ResetUnreadMark, RequestsTyped, RequestsTypeOK
<1>2. CacheTypeOK'
  BY MessageOfType, CacheKept, ResetUnreadType DEF ResetUnreadMark, Placed
<1>3. RequestsTyped'
  BY <1>1, FinishType DEF ResetUnreadMark, Statuses
<1> QED BY <1>1, <1>2, <1>3

LEMMA ExpireTyped ==
  ASSUME Typed, Expire
  PROVE  Typed'
<1> USE DEF Typed
<1>1. StoreTyped' /\ RequestsTyped'
  BY StoreKept, RequestsKept DEF Expire, requestVars, RequestsTyped, RequestsTypeOK
<1>2. CacheTypeOK'
  BY EmptySeq DEF Expire, ExpireLastMessages, ExpireUnread, CacheTypeOK
<1> QED BY <1>1, <1>2

LEMMA CrashTyped ==
  ASSUME Typed, Crash
  PROVE  Typed'
<1> USE DEF Typed
<1>1. StoreTyped' /\ CacheTypeOK'
  BY StoreKept, CacheKept DEF Crash
<1>2. req' \in [Requests -> Request]
  <2>1. \A q \in Requests : [req[q] EXCEPT !.pc = "done"] \in Request /\ req[q] \in Request
    BY DEF RequestsTyped, RequestsTypeOK, Request, Steps
  <2> QED BY <2>1 DEF Crash
<1>3. reply' \in [Requests -> Reply]
  <2>1. \A q \in Requests : [reply[q] EXCEPT !.status = "lost"] \in Reply /\ reply[q] \in Reply
    BY DEF RequestsTyped, RequestsTypeOK, Reply, Statuses
  <2> QED BY <2>1 DEF Crash
<1>4. \A q \in Requests : req'[q].pc \in {"new", "done"} \/ Placed(req'[q])
  <2> TAKE q \in Requests
  <2>1. CASE q \in InFlight
    BY <2>1 DEF Crash, RequestsTyped, RequestsTypeOK, Request
  <2>2. CASE q \notin InFlight
    BY <2>2 DEF Crash, RequestsTyped, RequestsTypeOK
  <2> QED BY <2>1, <2>2
<1> QED BY <1>1, <1>2, <1>3, <1>4 DEF RequestsTyped, RequestsTypeOK, Crash

-----------------------------------------------------------------------------

(* Every step of the server keeps the types. *)
LEMMA TypedStep ==
  ASSUME Typed, [Next]_vars
  PROVE  Typed'
<1>1. CASE \E r \in Requests : Receive(r)
  <2> PICK r \in Requests : Receive(r)
    BY <1>1
  <2>1. CASE \E u \in Users, d \in Dialogs : \E length \in Lengths : PostMessage(r, u, d, length)
    BY <2>1, PostMessageTyped, InputAssumption
  <2>2. CASE \E u \in Users, d \in Dialogs :
               \E limit \in Limits, cursor \in CursorsHeld : ListMessages(r, u, d, limit, cursor)
    BY <2>2, ListMessagesTyped, InputAssumption
  <2>3. CASE \E u \in Users, d \in Dialogs :
               UnreadCount(r, u, d) \/ GetDialog(r, u, d) \/ DeleteDialog(r, u, d)
    BY <2>3, UnreadCountTyped, GetDialogTyped, DeleteDialogTyped
  <2>4. CASE \E u \in Users : \E ids \in Invitations, named \in BOOLEAN : CreateDialog(r, u, ids, named)
    BY <2>4, CreateDialogTyped
  <2>5. CASE \E u \in Users : ListDialogs(r, u)
    BY <2>5, ListDialogsTyped
  <2> QED BY <2>1, <2>2, <2>3, <2>4, <2>5 DEF Receive
<1>2. CASE \E r \in Requests : Proceed(r)
  BY <1>2, InsertTyped, CountForOthersTyped, PushLastTyped, BroadcastTyped, LookupPageTyped,
     QueryPageTyped, MarkReadTyped, TouchReadMarkTyped, ResetUnreadMarkTyped, GetUnreadTyped,
     ReadSinceTyped, CountSinceTyped, GetDialogRowTyped, DeleteRowTyped DEF Proceed
<1>3. CASE UNCHANGED vars
  BY <1>3, StoreKept, CacheKept, RequestsKept
     DEF Typed, vars, requestVars, RequestsTyped, RequestsTypeOK
<1> QED BY <1>1, <1>2, <1>3, ExpireTyped, CrashTyped DEF Next, Quiet

(* TypeCorrect: the variables hold values of their types in every state. *)
THEOREM TypeCorrect == Spec => []TypeOK
<1>1. Typed => TypeOK
  BY DEF Typed, StoreTyped, RequestsTyped, TypeOK
<1>2. Spec => []Typed
  BY InitTyped, TypedStep, PTL DEF Spec
<1> QED BY <1>1, <1>2, PTL

-----------------------------------------------------------------------------
(* What a step of the server does to the tables, and what it lets a        *)
(* request refer to.  The invariants below are proved from these two       *)
(* summaries, so each action is looked into once.                          *)

(* The statements that change a table other than by reading the clock. *)
StoreEffect ==
  \/ UNCHANGED <<dialogs, participants, reads, messages, minted>>
  \/ \E d \in Dialogs \ minted, u \in Users, members \in SUBSET Users, named \in BOOLEAN :
       /\ u \in members /\ AcceptedSize(members)
       /\ CreateDialogTx(d, [type |-> DialogTypeOf(members, named), createdBy |-> u], members)
  \/ \E r \in Requests : req[r].pc = "insert" /\ InsertMessage(MessageOf(r))
  \/ \E r \in Requests :
       req[r].pc = "touch" /\ TouchRead(req[r].dialog, req[r].user, req[r].at)
  \/ \E r \in Requests :
       req[r].pc = "delete" /\ req'[r].pc = "done" /\ DeleteDialogRow(req[r].dialog)

(* The dialogs that a request still works on. *)
Targets(e) == e.todo \cup ({e.dialog} \ {Missing})

(* f follows e: it is the same request, or it has just been let in. *)
Follows(e, f) ==
  \/ f.op = e.op /\ f.user = e.user /\ Targets(f) \subseteq Targets(e)
  \/ /\ f.op # "deleteDialog" /\ f.pc # "delete"
     /\ \A d \in Targets(f) : Live(d) /\ IsParticipant(d, f.user)
  \/ /\ f.op = "deleteDialog" /\ f.todo = {}
     /\ Live(f.dialog) /\ dialogs[f.dialog].createdBy = f.user

LEMMA StoreSteps ==
  ASSUME Typed, [Next]_vars
  PROVE  StoreEffect
<1>1. CASE \E r \in Requests : Receive(r)
  <2> PICK r \in Requests : Receive(r)
    BY <1>1
  <2>1. CASE UNCHANGED <<dialogs, participants, reads, messages, minted>>
    BY <2>1 DEF StoreEffect
  <2>2. ASSUME NEW u \in Users, NEW ids \in Invitations, NEW named \in BOOLEAN,
               CreateDialog(r, u, ids, named)
        PROVE  StoreEffect
    <3> DEFINE members == Members(u, ids)
    <3>1. CASE UNCHANGED storeVars
      BY <3>1 DEF storeVars, StoreEffect
    <3>2. CASE /\ AcceptedSize(members) /\ members \subseteq Users
               /\ \E d \in Dialogs \ minted :
                    CreateDialogTx(d, [type |-> DialogTypeOf(members, named), createdBy |-> u], members)
      <4>1. u \in members
        BY DialogAssumption DEF Members
      <4> HIDE DEF members
      <4> QED BY <3>2, <4>1 DEF StoreEffect
    <3> QED BY <2>2, <3>1, <3>2 DEF CreateDialog
  <2> QED BY <2>1, <2>2
          DEF Receive, PostMessage, ListMessages, UnreadCount, GetDialog, DeleteDialog,
              ListDialogs, storeVars
<1>2. CASE \E r \in Requests : Proceed(r)
  <2> PICK r \in Requests : Proceed(r)
    BY <1>2
  <2>1. CASE UNCHANGED <<dialogs, participants, reads, messages, minted>>
    BY <2>1 DEF StoreEffect
  <2>2. CASE Insert(r)
    BY <2>1, <2>2 DEF Insert, storeVars, StoreEffect
  <2>3. CASE TouchReadMark(r)
    BY <2>1, <2>3 DEF TouchReadMark, storeVars, StoreEffect
  <2>4. CASE DeleteRow(r)
    <3>1. req'[r].pc = "done" /\ req[r].pc = "delete"
      BY <2>4 DEF DeleteRow, Finish, Typed, RequestsTyped, RequestsTypeOK, Request
    <3> QED BY <2>1, <2>4, <3>1 DEF DeleteRow, storeVars, StoreEffect
  <2> QED BY <2>1, <2>2, <2>3, <2>4
          DEF Proceed, CountForOthers, PushLast, Broadcast, LookupPage, QueryPage, MarkRead,
              ResetUnreadMark, GetUnread, ReadSince, CountSince, GetDialogRow, storeVars
<1>3. CASE Expire \/ Crash \/ Quiet \/ UNCHANGED vars
  BY <1>3 DEF Expire, Crash, Quiet, vars, storeVars, StoreEffect
<1> QED BY <1>1, <1>2, <1>3 DEF Next

(* A request that ends, or goes to its next call, keeps what it refers to. *)
LEMMA FollowsSelf == \A e : Follows(e, e)
BY DEF Follows

LEMMA FollowsRow ==
  ASSUME RequestsTyped, NEW r \in Requests, NEW f, req' = [req EXCEPT ![r] = f],
         Follows(req[r], f)
  PROVE  \A q \in Requests : Follows(req[q], req'[q])
BY FollowsSelf DEF RequestsTyped, RequestsTypeOK

LEMMA FollowsFinish ==
  ASSUME RequestsTyped, NEW r \in Requests, NEW status, Finish(r, status)
  PROVE  \A q \in Requests : Follows(req[q], req'[q])
<1>1. Follows(req[r], [req[r] EXCEPT !.pc = "done"])
  BY DEF Follows, Targets, RequestsTyped, RequestsTypeOK, Request
<1>2. req' = [req EXCEPT ![r] = [req[r] EXCEPT !.pc = "done"]]
  BY DEF Finish, RequestsTyped, RequestsTypeOK
<1> QED BY <1>1, <1>2, FollowsRow

LEMMA FollowsGoto ==
  ASSUME RequestsTyped, NEW r \in Requests, NEW pc, Goto(r, pc)
  PROVE  \A q \in Requests : Follows(req[q], req'[q])
<1>1. Follows(req[r], [req[r] EXCEPT !.pc = pc])
  BY DEF Follows, Targets, RequestsTyped, RequestsTypeOK, Request
<1>2. req' = [req EXCEPT ![r] = [req[r] EXCEPT !.pc = pc]]
  BY DEF Goto, RequestsTyped, RequestsTypeOK
<1> QED BY <1>1, <1>2, FollowsRow

LEMMA FollowsEnter ==
  ASSUME Typed, NEW r \in Requests, NEW e, e.op # "deleteDialog", e.pc # "delete",
         e.todo = {}, IsParticipant(e.dialog, e.user) => Live(e.dialog),
         EnterAsParticipant(r, e)
  PROVE  \A q \in Requests : Follows(req[q], req'[q])
<1> USE DEF Typed
<1>1. CASE IsParticipant(e.dialog, e.user) /\ req' = [req EXCEPT ![r] = e]
  <2>1. Follows(req[r], e)
    BY <1>1 DEF Follows, Targets
  <2> QED BY <1>1, <2>1, FollowsRow
<1>2. CASE \E status : Finish(r, status)
  BY <1>2, FollowsFinish
<1> QED BY <1>1, <1>2 DEF EnterAsParticipant

LEMMA FollowsCounted ==
  ASSUME RequestsTyped, NEW r \in Requests, NEW n, Counted(r, n)
  PROVE  \A q \in Requests : Follows(req[q], req'[q])
<1>0. req \in [Requests -> Request] /\ req[r] \in Request
  BY DEF RequestsTyped, RequestsTypeOK
<1>1. CASE req' = [req EXCEPT ![r].pc = "done"]
  <2>1. Follows(req[r], [req[r] EXCEPT !.pc = "done"])
    BY <1>0 DEF Follows, Targets, Request
  <2>2. req' = [req EXCEPT ![r] = [req[r] EXCEPT !.pc = "done"]]
    BY <1>0, <1>1
  <2> QED BY <2>1, <2>2, FollowsRow
<1>2. CASE \E d \in req[r].todo :
             req' = [req EXCEPT ![r].dialog = d, ![r].todo = @ \ {d}, ![r].pc = "unread"]
  <2>1. PICK d \in req[r].todo :
          req' = [req EXCEPT ![r].dialog = d, ![r].todo = @ \ {d}, ![r].pc = "unread"]
    BY <1>2
  <2> DEFINE f == [req[r] EXCEPT !.dialog = d, !.todo = @ \ {d}, !.pc = "unread"]
  <2>2. Follows(req[r], f)
    BY <1>0, <2>1 DEF Follows, Targets, Request
  <2>3. req' = [req EXCEPT ![r] = f]
    BY <1>0, <2>1
  <2> HIDE DEF f
  <2> QED BY <2>2, <2>3, FollowsRow
<1> QED BY <1>1, <1>2 DEF Counted

(* The participants of the stored dialogs are those of live ones. *)
LEMMA FollowsReceive ==
  ASSUME Typed, \A k \in participants : Live(k[1]), NEW r \in Requests, Receive(r)
  PROVE  \A q \in Requests : Follows(req[q], req'[q])
<1> USE DEF Typed
<1>0. \A d, u : IsParticipant(d, u) => Live(d)
  BY DEF IsParticipant
<1>1. ASSUME \E status : Finish(r, status)
      PROVE  \A q \in Requests : Follows(req[q], req'[q])
  BY <1>1, FollowsFinish
<1>2. ASSUME NEW u \in Users, NEW d \in Dialogs, NEW length \in Lengths, PostMessage(r, u, d, length)
      PROVE  \A q \in Requests : Follows(req[q], req'[q])
  <2> DEFINE e == [Entered("postMessage", u, d, "insert") EXCEPT !.at = clock]
  <2>1. CASE IsParticipant(d, u) /\ req' = [req EXCEPT ![r] = e]
    <3>1. Follows(req[r], e)
      BY <1>0, <2>1 DEF Follows, Targets, Entered
    <3> HIDE DEF e
    <3> QED BY <2>1, <3>1, FollowsRow
  <2> QED BY <1>1, <1>2, <2>1 DEF PostMessage
<1>3. ASSUME NEW u \in Users, NEW d \in Dialogs, NEW limit \in Limits, NEW cursor \in CursorsHeld,
             ListMessages(r, u, d, limit, cursor)
      PROVE  \A q \in Requests : Follows(req[q], req'[q])
  <2> DEFINE e == [Entered("listMessages", u, d, IF cursor = Epoch THEN "lookup" ELSE "query")
                     EXCEPT !.limit = limit, !.cursor = cursor]
  <2>1. /\ e.op # "deleteDialog" /\ e.pc # "delete" /\ e.todo = {}
        /\ e.dialog = d /\ e.user = u
    BY DEF Entered
  <2>2. EnterAsParticipant(r, e)
    BY <1>3 DEF ListMessages
  <2> HIDE DEF e
  <2> QED BY <1>0, <2>1, <2>2, FollowsEnter
<1>4. ASSUME NEW u \in Users, NEW d \in Dialogs, NEW op \in {"unreadCount", "getDialog"},
             NEW pc \in {"unread", "detail"}, EnterAsParticipant(r, Entered(op, u, d, pc))
      PROVE  \A q \in Requests : Follows(req[q], req'[q])
  <2> DEFINE e == Entered(op, u, d, pc)
  <2>1. /\ e.op # "deleteDialog" /\ e.pc # "delete" /\ e.todo = {}
        /\ e.dialog = d /\ e.user = u
    BY DEF Entered
  <2> HIDE DEF e
  <2> QED BY <1>0, <1>4, <2>1, FollowsEnter DEF e
<1>5. ASSUME NEW u \in Users, NEW d \in Dialogs, DeleteDialog(r, u, d)
      PROVE  \A q \in Requests : Follows(req[q], req'[q])
  <2> DEFINE e == Entered("deleteDialog", u, d, "delete")
  <2>1. CASE Live(d) /\ dialogs[d].createdBy = u /\ req' = [req EXCEPT ![r] = e]
    <3>1. Follows(req[r], e)
      BY <2>1 DEF Follows, Entered
    <3> HIDE DEF e
    <3> QED BY <2>1, <3>1, FollowsRow
  <2> QED BY <1>1, <1>5, <2>1 DEF DeleteDialog
<1>6. ASSUME NEW u \in Users, ListDialogs(r, u)
      PROVE  \A q \in Requests : Follows(req[q], req'[q])
  <2>1. CASE \E d \in DialogsOf(u) :
               req' = [req EXCEPT ![r] =
                 [Entered("listDialogs", u, d, "unread") EXCEPT !.todo = DialogsOf(u) \ {d}]]
    <3> PICK d \in DialogsOf(u) :
               req' = [req EXCEPT ![r] =
                 [Entered("listDialogs", u, d, "unread") EXCEPT !.todo = DialogsOf(u) \ {d}]]
      BY <2>1
    <3> DEFINE e == [Entered("listDialogs", u, d, "unread") EXCEPT !.todo = DialogsOf(u) \ {d}]
    <3>1. e.op = "listDialogs" /\ e.pc = "unread" /\ e.user = u /\ Targets(e) \subseteq DialogsOf(u)
      BY DEF Targets, Entered
    <3>2. Follows(req[r], e)
      <4> HIDE DEF e
      <4> QED BY <3>1 DEF Follows, DialogsOf, IsParticipant
    <3> HIDE DEF e
    <3> QED BY <3>2, FollowsRow DEF e
  <2> QED BY <1>1, <1>6, <2>1 DEF ListDialogs
<1>7. ASSUME NEW u \in Users, NEW ids \in Invitations, NEW named \in BOOLEAN,
             CreateDialog(r, u, ids, named)
      PROVE  \A q \in Requests : Follows(req[q], req'[q])
  BY <1>1, <1>7 DEF CreateDialog
<1> QED BY <1>2, <1>3, <1>4, <1>5, <1>6, <1>7 DEF Receive, UnreadCount, GetDialog

LEMMA FollowsProceed ==
  ASSUME Typed, NEW r \in Requests, Proceed(r)
  PROVE  \A q \in Requests : Follows(req[q], req'[q])
<1> USE DEF Typed
<1>0. req \in [Requests -> Request] /\ req[r] \in Request
  BY DEF RequestsTyped, RequestsTypeOK
<1>1. CASE \E status : Finish(r, status)
  BY <1>1, FollowsFinish
<1>2. CASE \E pc : Goto(r, pc)
  BY <1>2, FollowsGoto
<1>3. CASE \E n : Counted(r, n)
  BY <1>3, FollowsCounted
<1>4. CASE \E t, pc : req' = [req EXCEPT ![r].at = t, ![r].pc = pc]
  <2> PICK t, pc : req' = [req EXCEPT ![r].at = t, ![r].pc = pc]
    BY <1>4
  <2>1. Follows(req[r], [req[r] EXCEPT !.at = t, !.pc = pc])
    BY <1>0 DEF Follows, Targets, Request
  <2>2. req' = [req EXCEPT ![r] = [req[r] EXCEPT !.at = t, !.pc = pc]]
    BY <1>0
  <2> QED BY <2>1, <2>2, FollowsRow
<1>5. CASE \E page, next : TakePage(r, page, next)
  <2>1. Follows(req[r], [req[r] EXCEPT !.pc = "mark"])
    BY <1>0 DEF Follows, Targets, Request
  <2>2. req' = [req EXCEPT ![r] = [req[r] EXCEPT !.pc = "mark"]]
    BY <1>0, <1>5 DEF TakePage
  <2> QED BY <2>1, <2>2, FollowsRow
<1>6. CASE Insert(r) \/ CountForOthers(r) \/ PushLast(r) \/ Broadcast(r)
  BY <1>1, <1>2, <1>6 DEF Insert, CountForOthers, PushLast, Broadcast
<1>7. CASE LookupPage(r) \/ QueryPage(r)
  BY <1>1, <1>2, <1>5, <1>7 DEF LookupPage, QueryPage
<1>8. CASE MarkRead(r)
  BY <1>1, <1>4, <1>8 DEF MarkRead
<1>9. CASE TouchReadMark(r) \/ ResetUnreadMark(r) \/ GetDialogRow(r) \/ DeleteRow(r)
  BY <1>1, <1>2, <1>9 DEF TouchReadMark, ResetUnreadMark, GetDialogRow, DeleteRow
<1>10. CASE GetUnread(r) \/ CountSince(r)
  BY <1>1, <1>2, <1>3, <1>10 DEF GetUnread, CountSince
<1>11. CASE ReadSince(r)
  BY <1>4, <1>11 DEF ReadSince
<1> QED BY <1>6, <1>7, <1>8, <1>9, <1>10, <1>11 DEF Proceed

LEMMA FollowsSteps ==
  ASSUME Typed, \A k \in participants : Live(k[1]), [Next]_vars
  PROVE  \A q \in Requests : Follows(req[q], req'[q])
<1>1. CASE Crash
  <2> SUFFICES ASSUME NEW q \in Requests PROVE Follows(req[q], req'[q])
    OBVIOUS
  <2>1. req'[q] = req[q] \/ req'[q] = [req[q] EXCEPT !.pc = "done"]
    BY <1>1 DEF Crash
  <2> QED BY <2>1, FollowsSelf
          DEF Follows, Targets, Typed, RequestsTyped, RequestsTypeOK, Request
<1>2. CASE UNCHANGED req
  BY <1>2, FollowsSelf
<1> QED BY <1>1, <1>2, FollowsReceive, FollowsProceed
        DEF Next, Expire, Quiet, vars, requestVars

-----------------------------------------------------------------------------
(* Each handler makes the calls of its own path, so a step tells which     *)
(* handler takes it.                                                       *)

Counting == {"unread", "since", "countSince"}

Path(op) ==
  CASE op = "postMessage" -> {"insert", "count", "push", "broadcast"}
    [] op = "listMessages" -> {"lookup", "query", "mark", "touch", "reset"}
    [] op \in {"unreadCount", "listDialogs"} -> Counting
    [] op = "getDialog" -> {"detail"} \cup Counting
    [] op = "deleteDialog" -> {"delete"}
    [] OTHER -> {"new"}

OnPath(e) == e.pc = "done" \/ e.pc \in Path(e.op)

AllOnPath == \A r \in Requests : OnPath(req[r])

LEMMA OnPathRow ==
  ASSUME Typed, AllOnPath, NEW r \in Requests, NEW f, req' = [req EXCEPT ![r] = f], OnPath(f)
  PROVE  AllOnPath'
BY DEF AllOnPath, OnPath, Path, Counting, Typed, RequestsTyped, RequestsTypeOK

LEMMA OnPathFinish ==
  ASSUME Typed, AllOnPath, NEW r \in Requests, NEW status, Finish(r, status)
  PROVE  AllOnPath'
<1> DEFINE f == [req[r] EXCEPT !.pc = "done"]
<1>1. f.pc = "done" /\ req' = [req EXCEPT ![r] = f]
  BY DEF Finish, Typed, RequestsTyped, RequestsTypeOK, Request
<1> HIDE DEF f
<1> QED BY <1>1, OnPathRow DEF OnPath

LEMMA OnPathGoto ==
  ASSUME Typed, AllOnPath, NEW r \in Requests, NEW pc, pc \in Path(req[r].op),
         \/ Goto(r, pc)
         \/ \E t : req' = [req EXCEPT ![r].at = t, ![r].pc = pc]
  PROVE  AllOnPath'
<1>0. req \in [Requests -> Request] /\ req[r] \in Request
  BY DEF Typed, RequestsTyped, RequestsTypeOK
<1>1. PICK f : f.pc = pc /\ f.op = req[r].op /\ req' = [req EXCEPT ![r] = f]
  <2>1. CASE Goto(r, pc)
    <3> WITNESS [req[r] EXCEPT !.pc = pc]
    <3> QED BY <1>0, <2>1 DEF Goto, Request
  <2>2. CASE \E t : req' = [req EXCEPT ![r].at = t, ![r].pc = pc]
    <3> PICK t : req' = [req EXCEPT ![r].at = t, ![r].pc = pc]
      BY <2>2
    <3> WITNESS [req[r] EXCEPT !.at = t, !.pc = pc]
    <3> QED BY <1>0 DEF Request
  <2> QED BY <2>1, <2>2
<1> QED BY <1>1, OnPathRow DEF OnPath

LEMMA OnPathEnter ==
  ASSUME Typed, AllOnPath, NEW r \in Requests, NEW e, OnPath(e), EnterAsParticipant(r, e)
  PROVE  AllOnPath'
BY OnPathRow, OnPathFinish DEF EnterAsParticipant

LEMMA OnPathCounted ==
  ASSUME Typed, AllOnPath, NEW r \in Requests, req[r].pc \in Counting, NEW n, Counted(r, n)
  PROVE  AllOnPath'
<1>0. req \in [Requests -> Request] /\ req[r] \in Request
  BY DEF Typed, RequestsTyped, RequestsTypeOK
<1>1. CASE req' = [req EXCEPT ![r].pc = "done"]
  <2> DEFINE f == [req[r] EXCEPT !.pc = "done"]
  <2>1. f.pc = "done" /\ req' = [req EXCEPT ![r] = f]
    BY <1>0, <1>1 DEF Request
  <2> HIDE DEF f
  <2> QED BY <2>1, OnPathRow DEF OnPath
<1>2. CASE \E d \in req[r].todo :
             req' = [req EXCEPT ![r].dialog = d, ![r].todo = @ \ {d}, ![r].pc = "unread"]
  <2> PICK d \in req[r].todo :
             req' = [req EXCEPT ![r].dialog = d, ![r].todo = @ \ {d}, ![r].pc = "unread"]
    BY <1>2
  <2> DEFINE f == [req[r] EXCEPT !.dialog = d, !.todo = @ \ {d}, !.pc = "unread"]
  <2>1. f.pc = "unread" /\ f.op = req[r].op /\ req' = [req EXCEPT ![r] = f]
    BY <1>0 DEF Request
  <2>2. OnPath(req[r])
    BY DEF AllOnPath
  <2>3. "unread" \in Path(req[r].op)
    BY <2>2 DEF OnPath, Path, Counting
  <2> HIDE DEF f
  <2> QED BY <2>1, <2>3, OnPathRow DEF OnPath
<1> QED BY <1>1, <1>2 DEF Counted

LEMMA OnPathReceive ==
  ASSUME Typed, AllOnPath, NEW r \in Requests, Receive(r)
  PROVE  AllOnPath'
<1>1. ASSUME \E status : Finish(r, status) PROVE AllOnPath'
  BY <1>1, OnPathFinish
<1>2. ASSUME NEW u \in Users, NEW d \in Dialogs, NEW length \in Lengths, PostMessage(r, u, d, length)
      PROVE  AllOnPath'
  <2> DEFINE e == [Entered("postMessage", u, d, "insert") EXCEPT !.at = clock]
  <2>1. OnPath(e)
    BY DEF OnPath, Path, Entered
  <2> HIDE DEF e
  <2> QED BY <1>1, <1>2, <2>1, OnPathRow DEF PostMessage, e
<1>3. ASSUME NEW u \in Users, NEW d \in Dialogs, NEW limit \in Limits, NEW cursor \in CursorsHeld,
             ListMessages(r, u, d, limit, cursor)
      PROVE  AllOnPath'
  <2> DEFINE e == [Entered("listMessages", u, d, IF cursor = Epoch THEN "lookup" ELSE "query")
                     EXCEPT !.limit = limit, !.cursor = cursor]
  <2>1. OnPath(e)
    BY DEF OnPath, Path, Entered
  <2>2. EnterAsParticipant(r, e)
    BY <1>3 DEF ListMessages
  <2> HIDE DEF e
  <2> QED BY <2>1, <2>2, OnPathEnter
<1>4. \A u, d : /\ OnPath(Entered("unreadCount", u, d, "unread"))
                /\ OnPath(Entered("getDialog", u, d, "detail"))
                /\ OnPath(Entered("deleteDialog", u, d, "delete"))
  BY DEF OnPath, Path, Counting, Entered
<1>5. ASSUME NEW u \in Users, NEW d \in Dialogs, UnreadCount(r, u, d) \/ GetDialog(r, u, d)
      PROVE  AllOnPath'
  BY <1>4, <1>5, OnPathEnter DEF UnreadCount, GetDialog
<1>6. ASSUME NEW u \in Users, NEW d \in Dialogs, DeleteDialog(r, u, d)
      PROVE  AllOnPath'
  BY <1>1, <1>4, <1>6, OnPathRow DEF DeleteDialog
<1>7. ASSUME NEW u \in Users, ListDialogs(r, u)
      PROVE  AllOnPath'
  <2>1. CASE \E d, S : req' = [req EXCEPT ![r] =
                         [Entered("listDialogs", u, d, "unread") EXCEPT !.todo = S]]
    <3> PICK d, S : req' = [req EXCEPT ![r] =
                         [Entered("listDialogs", u, d, "unread") EXCEPT !.todo = S]]
      BY <2>1
    <3> DEFINE e == [Entered("listDialogs", u, d, "unread") EXCEPT !.todo = S]
    <3>1. OnPath(e)
      BY DEF OnPath, Path, Counting, Entered
    <3> HIDE DEF e
    <3> QED BY <3>1, OnPathRow DEF e
  <2> QED BY <1>1, <1>7, <2>1 DEF ListDialogs
<1>8. ASSUME NEW u \in Users, NEW ids \in Invitations, NEW named \in BOOLEAN,
             CreateDialog(r, u, ids, named)
      PROVE  AllOnPath'
  BY <1>1, <1>8 DEF CreateDialog
<1> QED BY <1>2, <1>3, <1>5, <1>6, <1>7, <1>8 DEF Receive

LEMMA OnPathProceed ==
  ASSUME Typed, AllOnPath, NEW r \in Requests, Proceed(r)
  PROVE  AllOnPath'
<1>0. OnPath(req[r]) /\ req \in [Requests -> Request] /\ req[r] \in Request
  BY DEF AllOnPath, Typed, RequestsTyped, RequestsTypeOK
<1>1. ASSUME \E status : Finish(r, status) PROVE AllOnPath'
  BY <1>1, OnPathFinish
<1>2. ASSUME NEW pc, pc \in Path(req[r].op), Goto(r, pc) PROVE AllOnPath'
  BY <1>2, OnPathGoto
<1>3. ASSUME NEW pc, pc \in Path(req[r].op), \E t : req' = [req EXCEPT ![r].at = t, ![r].pc = pc]
      PROVE  AllOnPath'
  BY <1>3, OnPathGoto
<1>4. ASSUME req[r].pc \in Counting, \E n : Counted(r, n) PROVE AllOnPath'
  BY <1>4, OnPathCounted
<1>5. ASSUME "mark" \in Path(req[r].op), \E page, next : TakePage(r, page, next) PROVE AllOnPath'
  <2> DEFINE f == [req[r] EXCEPT !.pc = "mark"]
  <2>1. f.pc = "mark" /\ f.op = req[r].op /\ req' = [req EXCEPT ![r] = f]
    BY <1>0, <1>5 DEF TakePage, Request
  <2> HIDE DEF f
  <2> QED BY <1>5, <2>1, OnPathRow DEF OnPath
<1>6. CASE req[r].pc \in {"insert", "count", "push", "broadcast"}
  <2>1. {"count", "push", "broadcast"} \subseteq Path(req[r].op)
    BY <1>0, <1>6 DEF OnPath, Path, Counting
  <2>2. Insert(r) \/ CountForOthers(r) \/ PushLast(r) \/ Broadcast(r)
    BY <1>6 DEF Proceed, LookupPage, QueryPage, MarkRead, TouchReadMark, ResetUnreadMark,
                GetUnread, ReadSince, CountSince, GetDialogRow, DeleteRow
  <2> QED BY <1>1, <1>2, <2>1, <2>2 DEF Insert, CountForOthers, PushLast, Broadcast
<1>7. CASE req[r].pc \in {"lookup", "query", "mark", "touch", "reset"}
  <2>1. {"query", "mark", "touch", "reset"} \subseteq Path(req[r].op)
    BY <1>0, <1>7 DEF OnPath, Path, Counting
  <2>2. CASE LookupPage(r) \/ QueryPage(r)
    BY <1>1, <1>2, <1>5, <2>1, <2>2 DEF LookupPage, QueryPage
  <2>3. CASE MarkRead(r)
    BY <1>1, <1>3, <2>1, <2>3 DEF MarkRead
  <2>4. CASE TouchReadMark(r) \/ ResetUnreadMark(r)
    BY <1>1, <1>2, <2>1, <2>4 DEF TouchReadMark, ResetUnreadMark
  <2> QED BY <1>7, <2>2, <2>3, <2>4
          DEF Proceed, Insert, CountForOthers, PushLast, Broadcast, GetUnread, ReadSince,
              CountSince, GetDialogRow, DeleteRow
<1>8. CASE req[r].pc \in Counting \cup {"detail"}
  <2>1. Counting \subseteq Path(req[r].op)
    BY <1>0, <1>8 DEF OnPath, Path, Counting
  <2>2. CASE GetUnread(r) \/ CountSince(r) \/ GetDialogRow(r)
    BY <1>1, <1>2, <1>4, <2>1, <2>2 DEF GetUnread, CountSince, GetDialogRow, Counting
  <2>3. CASE ReadSince(r)
    BY <1>3, <2>1, <2>3 DEF ReadSince, Counting
  <2> QED BY <1>8, <2>2, <2>3
          DEF Proceed, Insert, CountForOthers, PushLast, Broadcast, LookupPage, QueryPage,
              MarkRead, TouchReadMark, ResetUnreadMark, DeleteRow, Counting
<1>9. CASE req[r].pc = "delete"
  BY <1>1, <1>9 DEF Proceed, Insert, CountForOthers, PushLast, Broadcast, LookupPage, QueryPage,
              MarkRead, TouchReadMark, ResetUnreadMark, GetUnread, ReadSince, CountSince,
              GetDialogRow, DeleteRow
<1>10. CASE req[r].pc \in {"new", "done"}
  BY <1>10 DEF Proceed, Insert, CountForOthers, PushLast, Broadcast, LookupPage, QueryPage,
              MarkRead, TouchReadMark, ResetUnreadMark, GetUnread, ReadSince, CountSince,
              GetDialogRow, DeleteRow
<1> QED BY <1>0, <1>6, <1>7, <1>8, <1>9, <1>10 DEF Request, Steps, Counting

LEMMA AllOnPathStep ==
  ASSUME Typed, AllOnPath, [Next]_vars
  PROVE  AllOnPath'
<1>1. CASE Crash
  BY <1>1 DEF Crash, AllOnPath, OnPath, Typed, RequestsTyped, RequestsTypeOK, Request
<1>2. CASE UNCHANGED req
  BY <1>2 DEF AllOnPath, OnPath, Path, Counting
<1> QED BY <1>1, <1>2, OnPathReceive, OnPathProceed DEF Next, Expire, Quiet, vars, requestVars

-----------------------------------------------------------------------------
(* Who may write.  A row is written some steps after its author was found  *)
(* among the participants.  It is right to write it all the same because   *)
(* participants only lose their place when the whole dialog goes, and the  *)
(* id of a deleted dialog is never handed out again.                       *)

LiveMinted == \A d \in Dialogs : Live(d) => d \in minted

(* e was let in rightly: what is left of its dialogs still has its user. *)
Known(e) ==
  /\ Targets(e) \subseteq minted
  /\ \A d \in Targets(e) : Live(d) =>
       IF e.op = "deleteDialog" THEN dialogs[d].createdBy = e.user ELSE IsParticipant(d, e.user)

AllKnown == \A r \in Requests : Known(req[r])

Owned == Typed /\ AllOnPath /\ LiveMinted /\ MembersOnly /\ AllKnown

LEMMA InitOwned == Init => Owned
<1> SUFFICES ASSUME Init PROVE Owned
  OBVIOUS
<1>1. Typed
  BY InitTyped
<1>2. LiveMinted
  BY DEF LiveMinted, Live, Init, StoreInit
<1>3. MembersOnly
  <2>1. \A k \in participants : Live(k[1])
    BY StoreAssumption, MissingAssumption DEF Live, Init, StoreInit, Member
  <2>2. \A k \in Member : reads[k] # Missing => k \in participants
    BY DEF Init, StoreInit
  <2> QED BY <2>1, <2>2 DEF MembersOnly, Init, StoreInit
<1>4. AllKnown
  BY DEF AllKnown, Known, Targets, Init, RequestsInit, Entered
<1>5. AllOnPath
  BY RequestsAssumption DEF AllOnPath, OnPath, Path, Handlers, Init, RequestsInit, Entered
<1> QED BY <1>1, <1>2, <1>3, <1>4, <1>5 DEF Owned

LEMMA KnownFollows ==
  ASSUME LiveMinted, NEW e, NEW f \in Request, Known(e), Follows(e, f)
  PROVE  Known(f)
<1>1. Targets(f) \subseteq Dialogs
  BY DEF Request, Targets
<1>2. CASE f.op = e.op /\ f.user = e.user /\ Targets(f) \subseteq Targets(e)
  BY <1>2 DEF Known
<1>3. CASE /\ f.op # "deleteDialog"
           /\ \A d \in Targets(f) : Live(d) /\ IsParticipant(d, f.user)
  BY <1>1, <1>3 DEF Known, LiveMinted
<1>4. CASE /\ f.op = "deleteDialog" /\ f.todo = {}
           /\ Live(f.dialog) /\ dialogs[f.dialog].createdBy = f.user
  BY <1>1, <1>4 DEF Known, LiveMinted, Targets
<1> QED BY <1>2, <1>3, <1>4 DEF Follows

(* Creating a dialog does not touch the others, and deleting one only      *)
(* makes it unlive.                                                        *)
LEMMA KnownKept ==
  ASSUME Typed, StoreEffect
  PROVE  /\ minted \subseteq minted'
         /\ \A d \in minted : Live(d)' => /\ Live(d) /\ dialogs'[d] = dialogs[d]
                                          /\ \A u : IsParticipant(d, u)' <=> IsParticipant(d, u)
<1> USE DEF Live, IsParticipant
<1>1. CASE UNCHANGED <<dialogs, participants, minted>>
  BY <1>1
<1>2. ASSUME NEW d \in Dialogs \ minted, NEW row, NEW members, CreateDialogTx(d, row, members)
      PROVE  /\ minted \subseteq minted'
             /\ \A c \in minted : dialogs'[c] = dialogs[c]
                                  /\ \A u : IsParticipant(c, u)' <=> IsParticipant(c, u)
  <2>1. dialogs \in [Dialogs -> Dialog \cup {Missing}] /\ minted \subseteq Dialogs
    BY DEF Typed, StoreTyped, StoreTypeOK
  <2> QED BY <1>2, <2>1 DEF CreateDialogTx
<1>3. ASSUME NEW r \in Requests, DeleteDialogRow(req[r].dialog)
      PROVE  /\ minted \subseteq minted'
             /\ \A c \in minted : Live(c)' => /\ dialogs'[c] = dialogs[c]
                                   /\ \A u : IsParticipant(c, u)' <=> IsParticipant(c, u)
  <2>1. dialogs \in [Dialogs -> Dialog \cup {Missing}] /\ minted \subseteq Dialogs
    BY DEF Typed, StoreTyped, StoreTypeOK
  <2> QED BY <1>3, <2>1 DEF DeleteDialogRow
<1> QED BY <1>1, <1>2, <1>3 DEF StoreEffect, InsertMessage, TouchRead

LEMMA AllKnownStep ==
  ASSUME Owned, Typed', StoreEffect, \A r \in Requests : Follows(req[r], req'[r])
  PROVE  AllKnown'
<1> SUFFICES ASSUME NEW r \in Requests PROVE Known(req[r])'
  BY DEF AllKnown
<1>1. req'[r] \in Request
  BY DEF Typed, RequestsTyped, RequestsTypeOK
<1>2. Known(req'[r])
  BY <1>1, KnownFollows DEF Owned, AllKnown
<1>3. Typed
  BY DEF Owned
<1> QED BY <1>2, <1>3, KnownKept DEF Known, Targets

LEMMA LiveMintedStep ==
  ASSUME Owned, StoreEffect
  PROVE  LiveMinted'
<1> USE DEF LiveMinted, Live
<1>0. dialogs \in [Dialogs -> Dialog \cup {Missing}] /\ LiveMinted
  BY DEF Owned, Typed, StoreTyped, StoreTypeOK
<1>1. CASE UNCHANGED <<dialogs, minted>>
  BY <1>0, <1>1
<1>2. CASE \E d \in Dialogs : \E row, members : CreateDialogTx(d, row, members)
  BY <1>0, <1>2 DEF CreateDialogTx
<1>3. CASE \E d : DeleteDialogRow(d)
  BY <1>0, <1>3 DEF DeleteDialogRow
<1> QED BY <1>1, <1>2, <1>3 DEF StoreEffect, InsertMessage, TouchRead

LEMMA MembersOnlyStep ==
  ASSUME Owned, StoreEffect
  PROVE  MembersOnly'
<1> USE DEF Live, IsParticipant
<1>0. /\ dialogs \in [Dialogs -> Dialog \cup {Missing}] /\ participants \subseteq Member
      /\ reads \in [Member -> Nat \cup {Missing}] /\ messages \subseteq Message
      /\ minted \subseteq Dialogs
  BY DEF Owned, Typed, StoreTyped, StoreTypeOK
<1>1. MembersOnly /\ LiveMinted /\ AllKnown /\ AllOnPath
  BY DEF Owned
<1>2. ASSUME NEW r \in Requests, req[r].pc \in {"insert", "touch"}, Live(req[r].dialog)
      PROVE  <<req[r].dialog, req[r].user>> \in participants
  <2>1. req[r].dialog \in Dialogs
    BY <1>2 DEF Owned, Typed, RequestsTyped, Placed
  <2>2. req[r].dialog # Missing
    BY <2>1, MissingAssumption
  <2>3. req[r].op # "deleteDialog"
    BY <1>1, <1>2 DEF AllOnPath, OnPath, Path
  <2> QED BY <1>1, <1>2, <2>2, <2>3 DEF AllKnown, Known, Targets
<1>3. CASE UNCHANGED <<dialogs, participants, reads, messages, minted>>
  BY <1>1, <1>3 DEF MembersOnly
<1>4. CASE \E r \in Requests : req[r].pc = "insert" /\ InsertMessage(MessageOf(r))
  BY <1>1, <1>2, <1>4 DEF MembersOnly, InsertMessage, MessageOf
<1>5. CASE \E r \in Requests :
             req[r].pc = "touch" /\ TouchRead(req[r].dialog, req[r].user, req[r].at)
  BY <1>0, <1>1, <1>2, <1>5 DEF MembersOnly, TouchRead
<1>6. CASE \E d : DeleteDialogRow(d)
  BY <1>0, <1>1, <1>6 DEF MembersOnly, DeleteDialogRow, MessagesOf, Member
<1>7. CASE \E d \in Dialogs \ minted, row \in Dialog, members \in SUBSET Users :
             CreateDialogTx(d, row, members)
  BY <1>0, <1>1, <1>7, MissingAssumption DEF MembersOnly, CreateDialogTx, Member, LiveMinted
<1>8. \A u \in Users : \A members, named :
        [type |-> DialogTypeOf(members, named), createdBy |-> u] \in Dialog
  BY DEF Dialog, DialogType, DialogTypeOf
<1> QED BY <1>3, <1>4, <1>5, <1>6, <1>7, <1>8 DEF StoreEffect

LEMMA OwnedStep ==
  ASSUME Owned, [Next]_vars
  PROVE  Owned'
<1>1. Typed /\ AllOnPath /\ \A k \in participants : Live(k[1])
  BY DEF Owned, MembersOnly
<1>2. Typed' /\ AllOnPath' /\ StoreEffect
  BY <1>1, TypedStep, AllOnPathStep, StoreSteps
<1>3. \A q \in Requests : Follows(req[q], req'[q])
  BY <1>1, FollowsSteps
<1>4. LiveMinted' /\ MembersOnly' /\ AllKnown'
  BY <1>2, <1>3, LiveMintedStep, MembersOnlyStep, AllKnownStep
<1> QED BY <1>2, <1>4 DEF Owned

LEMMA AlwaysOwned == Spec => []Owned
BY InitOwned, OwnedStep, PTL DEF Spec

(* MembersAlways: whatever requests run at once and whichever call fails,  *)
(* no message and no read mark is ever left to somebody who is not in the  *)
(* dialog, or to a dialog that is gone.                                    *)
THEOREM MembersAlways == Spec => []MembersOnly
<1>1. Owned => MembersOnly
  BY DEF Owned
<1> QED BY <1>1, AlwaysOwned, PTL

(* CreatorsAlways: a dialog goes only by the request of its creator.  What *)
(* the creator check found stays true, a dialog's row never being changed. *)
THEOREM CreatorsAlways == Spec => OnlyCreatorDeletes
<1> DEFINE Right(d) == \E r \in Requests :
             /\ req[r].op = "deleteDialog" /\ req[r].dialog = d
             /\ req[r].user = dialogs[d].createdBy
             /\ req[r].pc = "delete" /\ req'[r].pc = "done"
<1>1. ASSUME Owned, [Next]_vars, NEW d \in Dialogs, Live(d), ~Live(d)'
      PROVE  Right(d)
  <2>0. Typed /\ AllKnown /\ AllOnPath /\ dialogs \in [Dialogs -> Dialog \cup {Missing}]
    BY <1>1 DEF Owned, Typed, StoreTyped, StoreTypeOK
  <2>1. ASSUME NEW r \in Requests, req[r].pc = "delete", req'[r].pc = "done",
               DeleteDialogRow(req[r].dialog)
        PROVE  Right(d)
    <3>1. req[r].dialog = d
      BY <1>1, <2>0, <2>1 DEF DeleteDialogRow, Live
    <3>2. req[r].op = "deleteDialog"
      BY <2>0, <2>1 DEF AllOnPath, OnPath, Path, Counting
    <3>3. req[r].user = dialogs[d].createdBy
      BY <1>1, <2>0, <3>1, <3>2, MissingAssumption DEF AllKnown, Known, Targets
    <3> QED BY <2>1, <3>1, <3>2, <3>3
  <2>2. ASSUME NEW c, NEW u \in Users, NEW members, NEW named,
               CreateDialogTx(c, [type |-> DialogTypeOf(members, named), createdBy |-> u], members)
        PROVE  Live(d)'
    BY <1>1, <2>0, <2>2, MissingAssumption
       DEF CreateDialogTx, Live, Dialog, DialogTypeOf, DialogType
  <2> QED BY <1>1, <2>0, <2>1, <2>2, StoreSteps DEF StoreEffect, InsertMessage, TouchRead, Live
<1>2. Owned /\ [Next]_vars =>
        [\A d \in Dialogs : Live(d) /\ ~Live(d)' => Right(d)]_vars
  BY <1>1
<1> QED BY <1>2, AlwaysOwned, PTL DEF Spec, OnlyCreatorDeletes

=============================================================================
