---------------------------- MODULE Pages_proofs ----------------------------
(***************************************************************************)
(* What requests answer, for every value of the constants of MessagingApi: *)
(* pages show the dialog that was asked for to its participants, whichever *)
(* cursor a client sends and whether Redis or PostgreSQL answers, and      *)
(* counters show no more unread messages than there are.                   *)
(***************************************************************************)
EXTENDS Durability_proofs

(* Only listMessages fills a page, with messages of its own dialog. *)
PagesTaken ==
  \A r \in Requests : \A m \in reply[r].page :
    req[r].op = "listMessages" /\ m.dialog = req[r].dialog

(* How a step changes pages: a page is kept with the dialog it was read    *)
(* from, or it is read from the dialog of its request.                     *)
SamePlace(r) == req'[r].op = req[r].op /\ req'[r].dialog = req[r].dialog

PageKept(r) ==
  reply'[r].page = reply[r].page /\ (req[r].op = "listMessages" => SamePlace(r))

PageRead(r) ==
  /\ req[r].op = "listMessages" /\ SamePlace(r)
  /\ \A m \in reply'[r].page : m.dialog = req[r].dialog

PageSteps == \A r \in Requests : PageKept(r) \/ PageRead(r)

LEMMA PageFinish ==
  ASSUME Typed, NEW r \in Requests, NEW status, Finish(r, status)
  PROVE  PageSteps
<1>1. /\ \A q \in Requests \ {r} : req'[q] = req[q] /\ reply'[q] = reply[q]
      /\ req'[r] = [req[r] EXCEPT !.pc = "done"] /\ req[r] \in Request
      /\ reply'[r] = [reply[r] EXCEPT !.status = status] /\ reply[r] \in Reply
  BY DEF Finish, Typed, RequestsTyped, RequestsTypeOK
<1>2. reply'[r].page = reply[r].page /\ SamePlace(r)
  BY <1>1 DEF Request, Reply, SamePlace
<1> QED BY <1>1, <1>2 DEF PageSteps, PageKept, SamePlace

(* A request is edited, and stays where it is if it is a listMessages. *)
LEMMA PageEdit ==
  ASSUME Typed, NEW r \in Requests, NEW f, req' = [req EXCEPT ![r] = f], UNCHANGED reply,
         req[r].op = "listMessages" => f.op = req[r].op /\ f.dialog = req[r].dialog
  PROVE  PageSteps
BY DEF PageSteps, PageKept, SamePlace, Typed, RequestsTyped, RequestsTypeOK

LEMMA PageStay ==
  ASSUME Typed, NEW r \in Requests, UNCHANGED reply,
         \/ \E pc : req' = [req EXCEPT ![r].pc = pc]
         \/ \E t, pc : req' = [req EXCEPT ![r].at = t, ![r].pc = pc]
  PROVE  PageSteps
<1>1. \E f : /\ req' = [req EXCEPT ![r] = f]
             /\ f.op = req[r].op /\ f.dialog = req[r].dialog
  <2>0. req \in [Requests -> Request] /\ req[r] \in Request
    BY DEF Typed, RequestsTyped, RequestsTypeOK
  <2>1. ASSUME NEW pc, req' = [req EXCEPT ![r].pc = pc]
        PROVE  \E f : req' = [req EXCEPT ![r] = f] /\ f.op = req[r].op /\ f.dialog = req[r].dialog
    <3> WITNESS [req[r] EXCEPT !.pc = pc]
    <3> QED BY <2>0, <2>1 DEF Request
  <2>2. ASSUME NEW t, NEW pc, req' = [req EXCEPT ![r].at = t, ![r].pc = pc]
        PROVE  \E f : req' = [req EXCEPT ![r] = f] /\ f.op = req[r].op /\ f.dialog = req[r].dialog
    <3> WITNESS [req[r] EXCEPT !.at = t, !.pc = pc]
    <3> QED BY <2>0, <2>2 DEF Request
  <2> QED BY <2>1, <2>2
<1> QED BY <1>1, PageEdit

LEMMA PageReceive ==
  ASSUME Typed, AllOnPath, NEW r \in Requests, Receive(r)
  PROVE  PageSteps
<1>0. req[r].op # "listMessages"
  <2>1. req[r].pc = "new"
    BY DEF Receive, PostMessage, ListMessages, UnreadCount, GetDialog, DeleteDialog,
           CreateDialog, ListDialogs, CanStart
  <2> QED BY <2>1 DEF AllOnPath, OnPath, Path
<1>1. ASSUME \E status : Finish(r, status) PROVE PageSteps
  BY <1>1, PageFinish
<1>2. ASSUME NEW f, req' = [req EXCEPT ![r] = f], UNCHANGED reply PROVE PageSteps
  BY <1>0, <1>2, PageEdit
<1>3. ASSUME NEW u \in Users, NEW d \in Dialogs, NEW length \in Lengths, PostMessage(r, u, d, length)
      PROVE  PageSteps
  BY <1>1, <1>2, <1>3 DEF PostMessage
<1>4. ASSUME NEW e, EnterAsParticipant(r, e) PROVE PageSteps
  BY <1>1, <1>2, <1>4 DEF EnterAsParticipant
<1>5. ASSUME NEW u \in Users, NEW d \in Dialogs, NEW limit \in Limits, NEW cursor \in CursorsHeld,
             ListMessages(r, u, d, limit, cursor)
      PROVE  PageSteps
  BY <1>4, <1>5 DEF ListMessages
<1>6. ASSUME NEW u \in Users, NEW d \in Dialogs,
             UnreadCount(r, u, d) \/ GetDialog(r, u, d) \/ DeleteDialog(r, u, d)
      PROVE  PageSteps
  BY <1>1, <1>2, <1>4, <1>6 DEF UnreadCount, GetDialog, DeleteDialog
<1>7. ASSUME NEW u \in Users, ListDialogs(r, u) PROVE PageSteps
  BY <1>1, <1>2, <1>7 DEF ListDialogs
<1>8. ASSUME NEW u \in Users, NEW ids \in Invitations, NEW named \in BOOLEAN,
             CreateDialog(r, u, ids, named)
      PROVE  PageSteps
  BY <1>1, <1>8 DEF CreateDialog
<1> QED BY <1>3, <1>5, <1>6, <1>7, <1>8 DEF Receive

(* A page that is taken holds messages of one dialog. *)
LEMMA PageTake ==
  ASSUME Typed, NEW r \in Requests, req[r].op = "listMessages",
         NEW page, NEW next, TakePage(r, page, next),
         \A m \in page : m.dialog = req[r].dialog
  PROVE  PageSteps
<1>0. /\ req \in [Requests -> Request] /\ reply \in [Requests -> Reply]
      /\ req[r] \in Request /\ reply[r] \in Reply
  BY DEF Typed, RequestsTyped, RequestsTypeOK
<1>1. \A q \in Requests \ {r} : req'[q] = req[q] /\ reply'[q] = reply[q]
  BY <1>0 DEF TakePage
<1>2. SamePlace(r)
  BY <1>0 DEF TakePage, SamePlace, Request
<1>3. reply'[r].page = page
  <2>1. reply' = [reply EXCEPT ![r] = [reply[r] EXCEPT !.page = page, !.next = next]]
    BY <1>0 DEF TakePage
  <2> QED BY <1>0, <2>1 DEF Reply
<1>4. PageRead(r)
  BY <1>2, <1>3 DEF PageRead
<1> QED BY <1>1, <1>4 DEF PageSteps, PageKept, SamePlace

LEMMA PageProceed ==
  ASSUME Typed, AllOnPath, CachedStored, NEW r \in Requests, Proceed(r)
  PROVE  PageSteps
<1>0. req \in [Requests -> Request] /\ reply \in [Requests -> Reply] /\ OnPath(req[r])
  BY DEF Typed, RequestsTyped, RequestsTypeOK, AllOnPath
<1>1. ASSUME \E status : Finish(r, status) PROVE PageSteps
  BY <1>1, PageFinish
<1>2. ASSUME \E pc : Goto(r, pc) PROVE PageSteps
  BY <1>2, PageStay DEF Goto
<1>3. CASE Insert(r) \/ CountForOthers(r) \/ PushLast(r) \/ Broadcast(r)
  BY <1>1, <1>2, <1>3 DEF Insert, CountForOthers, PushLast, Broadcast
<1>4. CASE LookupPage(r)
  <2> DEFINE hit == GetLastMessages(req[r].dialog, req[r].limit)
  <2>1. req[r].op = "listMessages" /\ req[r].dialog \in Dialogs /\ req[r].limit \in Int
    BY <1>0, <1>4 DEF LookupPage, OnPath, Path, Counting, Typed, RequestsTyped, Placed, Request
  <2>2. ToSet(hit) \subseteq ToSet(lastMessages[req[r].dialog])
    <3> DEFINE n == IF req[r].limit \in 1..LastMessagesLimit THEN req[r].limit
                                                             ELSE LastMessagesLimit
               list == lastMessages[req[r].dialog]
    <3>1. n \in Nat
      BY CacheAssumption
    <3>2. list \in Seq(Message)
      BY <2>1 DEF Typed, CacheTypeOK
    <3>3. hit = FirstOf(list, n)
      BY DEF GetLastMessages
    <3> HIDE DEF n, list, hit
    <3>4. ToSet(hit) \subseteq ToSet(list)
      BY <3>1, <3>2, <3>3, FirstOfType
    <3> QED BY <3>4 DEF list
  <2>3. \A m \in ToSet(hit) : m.dialog = req[r].dialog
    <3> HIDE DEF hit
    <3> QED BY <2>1, <2>2 DEF CachedStored
  <2>4. (\E next : TakePage(r, ToSet(hit), next)) \/ Goto(r, "query")
    BY <1>4 DEF LookupPage
  <2> HIDE DEF hit
  <2> QED BY <1>2, <2>1, <2>3, <2>4, PageTake
<1>5. CASE QueryPage(r)
  <2> DEFINE page == ListByDialogDesc(req[r].dialog, req[r].limit, req[r].cursor)
  <2>1. req[r].op = "listMessages"
    BY <1>0, <1>5 DEF QueryPage, OnPath, Path, Counting
  <2>2. \A m \in page : m.dialog = req[r].dialog
    BY DEF ListByDialogDesc, Newest, MessagesOf
  <2>3. (\E next : TakePage(r, page, next)) \/ \E status : Finish(r, status)
    BY <1>5 DEF QueryPage
  <2> HIDE DEF page
  <2> QED BY <1>1, <2>1, <2>2, <2>3, PageTake
<1>6. CASE MarkRead(r)
  BY <1>1, <1>6, PageStay DEF MarkRead
<1>7. CASE TouchReadMark(r) \/ ResetUnreadMark(r) \/ GetDialogRow(r) \/ DeleteRow(r)
  BY <1>1, <1>2, <1>7 DEF TouchReadMark, ResetUnreadMark, GetDialogRow, DeleteRow
<1>8. CASE ReadSince(r)
  BY <1>8, PageStay DEF ReadSince
<1>9. ASSUME req[r].pc \in Counting, NEW n, Counted(r, n) PROVE PageSteps
  <2>1. req[r].op # "listMessages"
    BY <1>0, <1>9 DEF OnPath, Path, Counting
  <2>2. \A q \in Requests \ {r} : req'[q] = req[q] /\ reply'[q] = reply[q]
    BY <1>0, <1>9 DEF Counted
  <2>3. reply'[r].page = reply[r].page
    <3> DEFINE s == IF req[r].todo = {} THEN "ok" ELSE reply[r].status
               e == [reply[r] EXCEPT !.counts[req[r].dialog] = n, !.status = s]
    <3>1. reply' = [reply EXCEPT ![r] = e]
      BY <1>0, <1>9 DEF Counted
    <3>2. e.page = reply[r].page
      BY <1>0 DEF Reply
    <3> HIDE DEF e
    <3> QED BY <1>0, <3>1, <3>2
  <2> QED BY <2>1, <2>2, <2>3 DEF PageSteps, PageKept, SamePlace
<1>10. CASE GetUnread(r) \/ CountSince(r)
  BY <1>1, <1>2, <1>9, <1>10 DEF GetUnread, CountSince, Counting
<1> QED BY <1>3, <1>4, <1>5, <1>6, <1>7, <1>8, <1>10 DEF Proceed

LEMMA PageStepsHold ==
  ASSUME Durable, [Next]_vars
  PROVE  PageSteps
<1>1. Typed /\ AllOnPath /\ CachedStored
  BY DEF Durable, Owned
<1>2. CASE Crash
  <2> SUFFICES ASSUME NEW q \in Requests PROVE PageKept(q)
    BY DEF PageSteps
  <2>1. req[q] \in Request /\ reply[q] \in Reply
    BY <1>1 DEF Typed, RequestsTyped, RequestsTypeOK
  <2>2. req'[q] = req[q] \/ req'[q] = [req[q] EXCEPT !.pc = "done"]
    BY <1>2 DEF Crash
  <2>3. reply'[q] = reply[q] \/ reply'[q] = [reply[q] EXCEPT !.status = "lost"]
    BY <1>2 DEF Crash
  <2> QED BY <2>1, <2>2, <2>3 DEF PageKept, SamePlace, Request, Reply
<1>3. CASE UNCHANGED <<req, reply>>
  BY <1>3 DEF PageSteps, PageKept, SamePlace
<1> QED BY <1>1, <1>2, <1>3, PageReceive, PageProceed
        DEF Next, Expire, Quiet, vars, requestVars

(* PagesInside: a page shows messages of the dialog that was asked for     *)
(* only, and its reader is, or was while the dialog lived, in that dialog. *)
THEOREM PagesInside == Spec => []PagesStayInside
<1>1. Init => PagesTaken
  BY DEF PagesTaken, Init, RequestsInit
<1>2. ASSUME Durable, PagesTaken, [Next]_vars PROVE PagesTaken'
  <2>1. PageSteps
    BY <1>2, PageStepsHold
  <2> QED BY <1>2, <2>1 DEF PageSteps, PageKept, PageRead, SamePlace, PagesTaken
<1>3. ASSUME Durable, PagesTaken PROVE PagesStayInside
  <2> SUFFICES ASSUME NEW r \in Requests, NEW m \in reply[r].page
               PROVE  /\ m.dialog = req[r].dialog
                      /\ Live(m.dialog) => IsParticipant(m.dialog, req[r].user)
    BY DEF PagesStayInside
  <2>1. req[r].op = "listMessages" /\ m.dialog = req[r].dialog
    BY <1>3 DEF PagesTaken
  <2>2. m.dialog \in Dialogs /\ Known(req[r])
    BY <1>3 DEF Durable, Owned, AllKnown, Typed, RequestsTyped, RequestsTypeOK, Reply, Message
  <2> QED BY <2>1, <2>2, MissingAssumption DEF Known, Targets
<1>4. Spec => []Durable
  BY AlwaysDurable
<1> QED BY <1>1, <1>2, <1>3, <1>4, PTL DEF Spec

-----------------------------------------------------------------------------
(* Unread counters.  A message is written first and counted later, so the  *)
(* bound is not inductive: a counter that has been raised for a message    *)
(* must not be raised for it again, and one that is still to be raised     *)
(* must leave room for it.                                                 *)

Foreign(d, u) == {m \in MessagesOf(d) : m.sender # u}

(* Messages whose request has yet to raise the counters. *)
Uncounted == {MessageOf(q) : q \in {p \in Requests : req[p].pc = "count"}}

Settled(d, u) == Foreign(d, u) \ Uncounted

UnreadBounded(k) ==
  unread[k] # Missing =>
    k[1] \in minted /\ (Live(k[1]) => unread[k] <= Cardinality(Settled(k[1], k[2])))

AnswerBounded(r, d) ==
  reply[r].counts[d] > 0 =>
    /\ req[r].pc # "new" /\ d \in minted
    /\ Live(d) => reply[r].counts[d] <= Cardinality(Foreign(d, req[r].user))

Counters ==
  /\ Chats
  /\ \A r, q \in Requests :
       r # q /\ req[r].pc = "count" /\ req[q].pc = "count" => MessageOf(r) # MessageOf(q)
  /\ \A k \in Member : UnreadBounded(k)
  /\ \A r \in Requests, d \in Dialogs : AnswerBounded(r, d)

(* Sets of messages are finite, and COUNT finds no more than there are. *)
LEMMA ForeignFacts ==
  ASSUME Typed, NEW d, NEW u
  PROVE  /\ IsFiniteSet(Foreign(d, u)) /\ Cardinality(Foreign(d, u)) \in Nat
         /\ IsFiniteSet(Settled(d, u)) /\ Cardinality(Settled(d, u)) \in Nat
         /\ Cardinality(Settled(d, u)) <= Cardinality(Foreign(d, u))
         /\ \A t : CountUnreadSince(d, u, t) <= Cardinality(Foreign(d, u))
<1>1. Foreign(d, u) \subseteq messages /\ Settled(d, u) \subseteq Foreign(d, u)
  BY DEF Foreign, Settled, MessagesOf
<1>2. IsFiniteSet(Foreign(d, u))
  BY <1>1, FS_Subset DEF Typed, StoreTyped
<1>3. /\ IsFiniteSet(Settled(d, u))
      /\ Cardinality(Settled(d, u)) <= Cardinality(Foreign(d, u))
  BY <1>1, <1>2, FS_Subset
<1>4. ASSUME NEW t PROVE CountUnreadSince(d, u, t) <= Cardinality(Foreign(d, u))
  <2>1. {m \in MessagesOf(d) : m.at > t /\ m.sender # u} \subseteq Foreign(d, u)
    BY DEF Foreign
  <2> QED BY <1>2, <2>1, FS_Subset DEF CountUnreadSince
<1> QED BY <1>2, <1>3, <1>4, FS_CardinalityType

-----------------------------------------------------------------------------
(* How a step moves requests to the count of their message.                *)

(* r moves alone, and not to its count. *)
NotCounting(r) ==
  /\ \A q \in Requests \ {r} : req'[q] = req[q]
  /\ req'[r].pc # "count"

CountingStep ==
  \A q \in Requests : req'[q].pc = "count" =>
    \/ req'[q] = req[q]
    \/ /\ req[q].pc = "insert" /\ InsertMessage(MessageOf(q)) /\ MessageOf(q)' = MessageOf(q)
       /\ \A p \in Requests \ {q} : req'[p] = req[p]

LEMMA NotCountingFinish ==
  ASSUME Typed, NEW r \in Requests, NEW status, Finish(r, status)
  PROVE  NotCounting(r)
<1>1. /\ \A q \in Requests \ {r} : req'[q] = req[q]
      /\ req'[r] = [req[r] EXCEPT !.pc = "done"] /\ req[r] \in Request
  BY DEF Finish, Typed, RequestsTyped, RequestsTypeOK
<1>2. req'[r].pc = "done"
  BY <1>1 DEF Request
<1> QED BY <1>1, <1>2 DEF NotCounting

LEMMA NotCountingRow ==
  ASSUME Typed, NEW r \in Requests, NEW f, req' = [req EXCEPT ![r] = f], f.pc # "count"
  PROVE  NotCounting(r)
BY DEF NotCounting, Typed, RequestsTyped, RequestsTypeOK

LEMMA ReceiveDoesNotCount ==
  ASSUME Typed, NEW r \in Requests, Receive(r)
  PROVE  NotCounting(r)
<1>1. ASSUME \E status : Finish(r, status) PROVE NotCounting(r)
  BY <1>1, NotCountingFinish
<1>2. ASSUME NEW e, e.pc # "count", EnterAsParticipant(r, e) PROVE NotCounting(r)
  BY <1>1, <1>2, NotCountingRow DEF EnterAsParticipant
<1>3. ASSUME NEW u \in Users, NEW d \in Dialogs, NEW length \in Lengths, PostMessage(r, u, d, length)
      PROVE  NotCounting(r)
  <2> DEFINE e == [Entered("postMessage", u, d, "insert") EXCEPT !.at = clock]
  <2>1. e.pc # "count"
    BY DEF Entered
  <2>2. req' = [req EXCEPT ![r] = e] \/ \E status : Finish(r, status)
    BY <1>3 DEF PostMessage
  <2> HIDE DEF e
  <2> QED BY <1>1, <2>1, <2>2, NotCountingRow
<1>4. ASSUME NEW u \in Users, NEW d \in Dialogs, NEW limit \in Limits, NEW cursor \in CursorsHeld,
             ListMessages(r, u, d, limit, cursor)
      PROVE  NotCounting(r)
  <2> DEFINE e == [Entered("listMessages", u, d, IF cursor = Epoch THEN "lookup" ELSE "query")
                     EXCEPT !.limit = limit, !.cursor = cursor]
  <2>1. e.pc # "count" /\ EnterAsParticipant(r, e)
    BY <1>4 DEF Entered, ListMessages
  <2> HIDE DEF e
  <2> QED BY <1>2, <2>1
<1>5. \A u, d : /\ Entered("unreadCount", u, d, "unread").pc # "count"
                /\ Entered("getDialog", u, d, "detail").pc # "count"
                /\ Entered("deleteDialog", u, d, "delete").pc # "count"
  BY DEF Entered
<1>6. ASSUME NEW u \in Users, NEW d \in Dialogs,
             UnreadCount(r, u, d) \/ GetDialog(r, u, d) \/ DeleteDialog(r, u, d)
      PROVE  NotCounting(r)
  BY <1>1, <1>2, <1>5, <1>6, NotCountingRow DEF UnreadCount, GetDialog, DeleteDialog
<1>7. ASSUME NEW u \in Users, ListDialogs(r, u) PROVE NotCounting(r)
  <2>1. ASSUME NEW d, NEW S,
               req' = [req EXCEPT ![r] = [Entered("listDialogs", u, d, "unread") EXCEPT !.todo = S]]
        PROVE  NotCounting(r)
    <3> DEFINE e == [Entered("listDialogs", u, d, "unread") EXCEPT !.todo = S]
    <3>1. e.pc # "count"
      BY DEF Entered
    <3> HIDE DEF e
    <3> QED BY <2>1, <3>1, NotCountingRow DEF e
  <2> QED BY <1>1, <1>7, <2>1 DEF ListDialogs
<1>8. ASSUME NEW u \in Users, NEW ids \in Invitations, NEW named \in BOOLEAN,
             CreateDialog(r, u, ids, named)
      PROVE  NotCounting(r)
  BY <1>1, <1>8 DEF CreateDialog
<1> QED BY <1>3, <1>4, <1>6, <1>7, <1>8 DEF Receive

LEMMA ProceedCounts ==
  ASSUME Typed, NEW r \in Requests, Proceed(r)
  PROVE  \/ NotCounting(r)
         \/ /\ req[r].pc = "insert" /\ InsertMessage(MessageOf(r)) /\ MessageOf(r)' = MessageOf(r)
            /\ \A p \in Requests \ {r} : req'[p] = req[p]
<1>0. req \in [Requests -> Request] /\ req[r] \in Request
  BY DEF Typed, RequestsTyped, RequestsTypeOK
<1>1. ASSUME \E status : Finish(r, status) PROVE NotCounting(r)
  BY <1>1, NotCountingFinish
<1>2. ASSUME NEW pc, pc # "count", req' = [req EXCEPT ![r].pc = pc] PROVE NotCounting(r)
  BY <1>0, <1>2 DEF NotCounting, Request
<1>3. ASSUME NEW t, NEW pc, pc # "count", req' = [req EXCEPT ![r].at = t, ![r].pc = pc]
      PROVE  NotCounting(r)
  BY <1>0, <1>3 DEF NotCounting, Request
<1>4. ASSUME NEW n, Counted(r, n) PROVE NotCounting(r)
  <2>1. \E f : f.pc # "count" /\ req' = [req EXCEPT ![r] = f]
    BY <1>0, <1>4 DEF Counted, Request
  <2> QED BY <2>1, NotCountingRow
<1>5. CASE Insert(r)
  <2>1. CASE InsertMessage(MessageOf(r)) /\ Goto(r, "count")
    <3>1. req' = [req EXCEPT ![r].pc = "count"] /\ req[r].pc = "insert"
      BY <1>5, <2>1 DEF Goto, Insert
    <3>2. MessageOf(r)' = MessageOf(r) /\ \A p \in Requests \ {r} : req'[p] = req[p]
      BY <1>0, <3>1 DEF MessageOf, Request
    <3> QED BY <2>1, <3>1, <3>2
  <2> QED BY <1>1, <1>5, <2>1 DEF Insert
<1>6. CASE CountForOthers(r) \/ PushLast(r) \/ Broadcast(r)
  BY <1>1, <1>2, <1>6 DEF CountForOthers, PushLast, Broadcast, Goto
<1>7. CASE LookupPage(r) \/ QueryPage(r)
  BY <1>1, <1>2, <1>7 DEF LookupPage, QueryPage, TakePage, Goto
<1>8. CASE MarkRead(r)
  BY <1>1, <1>3, <1>8 DEF MarkRead
<1>9. CASE ReadSince(r)
  <2>1. \E t : req' = [req EXCEPT ![r].at = t, ![r].pc = "countSince"]
    BY <1>9 DEF ReadSince
  <2> QED BY <1>3, <2>1
<1>10. CASE TouchReadMark(r) \/ ResetUnreadMark(r) \/ GetDialogRow(r) \/ DeleteRow(r)
  <2>1. (\E status : Finish(r, status)) \/ \E pc \in {"reset", "unread"} : Goto(r, pc)
    BY <1>10 DEF TouchReadMark, ResetUnreadMark, GetDialogRow, DeleteRow
  <2> QED BY <1>1, <1>2, <2>1 DEF Goto
<1>11. CASE GetUnread(r) \/ CountSince(r)
  BY <1>1, <1>2, <1>4, <1>11 DEF GetUnread, CountSince, Goto
<1> QED BY <1>5, <1>6, <1>7, <1>8, <1>9, <1>10, <1>11 DEF Proceed

LEMMA CountingSteps ==
  ASSUME Typed, [Next]_vars
  PROVE  CountingStep
<1>1. ASSUME NEW r \in Requests, NotCounting(r) PROVE CountingStep
  BY <1>1 DEF NotCounting, CountingStep
<1>2. ASSUME NEW r \in Requests, Proceed(r) PROVE CountingStep
  <2>1. CASE NotCounting(r)
    BY <1>1, <2>1
  <2>2. CASE ~NotCounting(r)
    BY <1>2, <2>2, ProceedCounts DEF CountingStep
  <2> QED BY <2>1, <2>2
<1>3. CASE Crash
  <2> SUFFICES ASSUME NEW q \in Requests, req'[q].pc = "count" PROVE req'[q] = req[q]
    BY DEF CountingStep
  <2>1. req[q] \in Request
    BY DEF Typed, RequestsTyped, RequestsTypeOK
  <2> QED BY <1>3, <2>1 DEF Crash, Request
<1>4. CASE UNCHANGED req
  BY <1>4 DEF CountingStep
<1> QED BY <1>1, <1>2, <1>3, <1>4, ReceiveDoesNotCount
        DEF Next, Expire, Quiet, vars, requestVars

-----------------------------------------------------------------------------
(* How a step changes the counters in Redis.                               *)

(* The one INCR for the message of r. *)
Raised(r, k) ==
  /\ req[r].pc = "count" /\ req'[r].pc = "push"
  /\ k[1] = req[r].dialog /\ k[2] # req[r].user
  /\ unread'[k] = IF unread[k] = Missing THEN 1 ELSE unread[k] + 1
  /\ UNCHANGED storeVars

UnreadStep ==
  \A k \in Member :
    \/ unread'[k] \in {unread[k], Missing}
    \/ unread'[k] = 0 /\ k[1] \in minted
    \/ \E r \in Requests : Raised(r, k)

LEMMA IncrRaises ==
  ASSUME Typed, NEW r \in Requests, req[r].pc = "count", Goto(r, "push"), UNCHANGED storeVars,
         NEW users \in SUBSET UnreadTargets(r), IncrUnreadForUsers(req[r].dialog, users, 1)
  PROVE  UnreadStep
<1> SUFFICES ASSUME NEW k \in Member PROVE unread'[k] = unread[k] \/ Raised(r, k)
  BY DEF UnreadStep
<1>1. req'[r].pc = "push"
  BY DEF Goto, Typed, RequestsTyped, RequestsTypeOK, Request
<1>2. CASE k \in {req[r].dialog} \X users
  <2>1. k[1] = req[r].dialog /\ k[2] \in users /\ k[2] # req[r].user
    BY <1>2 DEF UnreadTargets
  <2>2. unread'[k] = IF unread[k] = Missing THEN 1 ELSE unread[k] + 1
    BY <1>2 DEF IncrUnreadForUsers
  <2> QED BY <1>1, <2>1, <2>2 DEF Raised
<1>3. CASE k \notin {req[r].dialog} \X users
  BY <1>3 DEF IncrUnreadForUsers
<1> QED BY <1>2, <1>3

LEMMA UnreadSteps ==
  ASSUME Owned, "resend" \notin Faults, [Next]_vars
  PROVE  UnreadStep
<1>0. Typed /\ unread \in [Member -> Nat \cup {Missing}]
  BY DEF Owned, Typed, CacheTypeOK
<1>1. CASE UNCHANGED unread
  BY <1>1 DEF UnreadStep
<1>2. ASSUME NEW r \in Requests, CountForOthers(r) PROVE UnreadStep
  <2>1. Sendings = {1}
    BY DEF Sendings
  <2>2. UnreadTargets(r) \in SUBSET UnreadTargets(r)
    OBVIOUS
  <2>3. \/ UNCHANGED unread
        \/ \E some \in SUBSET UnreadTargets(r) : IncrUnreadForUsers(req[r].dialog, some, 1)
    BY <1>2, <2>1, <2>2 DEF CountForOthers, cacheVars
  <2> QED BY <1>0, <1>1, <1>2, <2>3, IncrRaises DEF CountForOthers
<1>3. ASSUME NEW r \in Requests, ResetUnreadMark(r) PROVE UnreadStep
  <2>1. req[r].dialog \in minted /\ <<req[r].dialog, req[r].user>> \in Member
    <3>1. req[r].dialog \in Dialogs /\ req[r].user \in Users
      BY <1>0, <1>3 DEF ResetUnreadMark, Typed, RequestsTyped, Placed
    <3>2. Known(req[r])
      BY DEF Owned, AllKnown
    <3> QED BY <3>1, <3>2, MissingAssumption DEF Known, Targets, Member
  <2>2. UNCHANGED unread \/ unread' = [unread EXCEPT ![<<req[r].dialog, req[r].user>>] = 0]
    BY <1>3 DEF ResetUnreadMark, ResetUnread, cacheVars
  <2>3. ASSUME NEW k \in Member, unread'[k] # unread[k] PROVE unread'[k] = 0 /\ k[1] \in minted
    <3>1. k = <<req[r].dialog, req[r].user>>
      BY <1>0, <2>2, <2>3
    <3> QED BY <1>0, <2>1, <2>2, <2>3, <3>1
  <2> QED BY <2>3 DEF UnreadStep
<1>4. CASE Expire
  BY <1>0, <1>1, <1>4 DEF Expire, ExpireUnread, ExpireLastMessages, UnreadStep
<1>5. ASSUME NEW r \in Requests, Receive(r) PROVE UNCHANGED unread
  BY <1>5 DEF Receive, PostMessage, ListMessages, UnreadCount, GetDialog, DeleteDialog,
              CreateDialog, ListDialogs, cacheVars
<1>6. ASSUME NEW r \in Requests, Proceed(r), ~CountForOthers(r), ~ResetUnreadMark(r)
      PROVE  UNCHANGED unread
  BY <1>6 DEF Proceed, Insert, PushLast, PushLastMessage, Broadcast, LookupPage, QueryPage,
              MarkRead, TouchReadMark, GetUnread, ReadSince, CountSince, GetDialogRow,
              DeleteRow, cacheVars
<1> QED BY <1>1, <1>2, <1>3, <1>4, <1>5, <1>6 DEF Next, Crash, Quiet, vars, cacheVars

-----------------------------------------------------------------------------
(* How a step changes the counters that were answered.                     *)

(* The answers of q stay those of its user. *)
AnswersKept(q) ==
  /\ reply'[q].counts = reply[q].counts
  /\ req[q].pc = "new" \/ (req'[q].user = req[q].user /\ req'[q].pc # "new")

(* q has read the counter of its dialog, or counted the messages. *)
AnswerTaken(q) ==
  /\ req[q].pc \in Counting /\ req'[q].pc # "new" /\ req'[q].user = req[q].user
  /\ UNCHANGED storeVars
  /\ \A d \in Dialogs \ {req[q].dialog} : reply'[q].counts[d] = reply[q].counts[d]
  /\ LET d == req[q].dialog
         n == reply'[q].counts[d]
     IN  \/ n = unread[<<d, req[q].user>>] /\ n # Missing
         \/ n <= Cardinality(Foreign(d, req[q].user))

AnswerStep == \A q \in Requests : AnswersKept(q) \/ AnswerTaken(q)

LEMMA KeepAnswers ==
  ASSUME Typed, NEW r \in Requests,
         NEW f, req' = [req EXCEPT ![r] = f],
         req[r].pc = "new" \/ (f.user = req[r].user /\ f.pc # "new"),
         \/ UNCHANGED reply
         \/ \E status : reply' = [reply EXCEPT ![r].status = status]
         \/ \E page, next : reply' = [reply EXCEPT ![r].page = page, ![r].next = next]
  PROVE  AnswerStep
<1>0. /\ req \in [Requests -> Request] /\ reply \in [Requests -> Reply]
      /\ \A q \in Requests : reply[q] \in Reply
  BY DEF Typed, RequestsTyped, RequestsTypeOK
<1> SUFFICES ASSUME NEW q \in Requests PROVE AnswersKept(q)
  BY DEF AnswerStep
<1>1. reply'[q].counts = reply[q].counts
  <2>1. CASE UNCHANGED reply
    BY <2>1
  <2>2. ASSUME NEW status, reply' = [reply EXCEPT ![r].status = status]
        PROVE  reply'[q].counts = reply[q].counts
    BY <1>0, <2>2 DEF Reply
  <2>3. ASSUME NEW page, NEW next, reply' = [reply EXCEPT ![r].page = page, ![r].next = next]
        PROVE  reply'[q].counts = reply[q].counts
    BY <1>0, <2>3 DEF Reply
  <2> QED BY <2>1, <2>2, <2>3
<1>2. CASE q = r
  BY <1>0, <1>1, <1>2 DEF AnswersKept
<1>3. CASE q # r
  BY <1>0, <1>1, <1>3 DEF AnswersKept
<1> QED BY <1>2, <1>3

LEMMA FinishAnswers ==
  ASSUME Typed, NEW r \in Requests, NEW status, Finish(r, status)
  PROVE  AnswerStep
<1> DEFINE f == [req[r] EXCEPT !.pc = "done"]
<1>1. req' = [req EXCEPT ![r] = f] /\ f.user = req[r].user /\ f.pc # "new"
  BY DEF Finish, Typed, RequestsTyped, RequestsTypeOK, Request
<1>2. \E s : reply' = [reply EXCEPT ![r].status = s]
  BY DEF Finish
<1> HIDE DEF f
<1> QED BY <1>1, <1>2, KeepAnswers

LEMMA ReceiveAnswers ==
  ASSUME Typed, NEW r \in Requests, Receive(r)
  PROVE  AnswerStep
<1>0. req[r].pc = "new"
  BY DEF Receive, PostMessage, ListMessages, UnreadCount, GetDialog, DeleteDialog,
         CreateDialog, ListDialogs, CanStart
<1>1. ASSUME \E status : Finish(r, status) PROVE AnswerStep
  BY <1>1, FinishAnswers
<1>2. ASSUME UNCHANGED reply, \E f : req' = [req EXCEPT ![r] = f] PROVE AnswerStep
  BY <1>0, <1>2, KeepAnswers
<1>3. ASSUME \E e : EnterAsParticipant(r, e) PROVE AnswerStep
  BY <1>1, <1>2, <1>3 DEF EnterAsParticipant
<1>4. ASSUME NEW u \in Users, NEW d \in Dialogs, NEW length \in Lengths, PostMessage(r, u, d, length)
      PROVE  AnswerStep
  <2>1. \/ UNCHANGED reply /\ \E f : req' = [req EXCEPT ![r] = f]
        \/ \E status : Finish(r, status)
    BY <1>4 DEF PostMessage
  <2> QED BY <1>1, <1>2, <2>1
<1>5. ASSUME NEW u \in Users, NEW d \in Dialogs, NEW limit \in Limits, NEW cursor \in CursorsHeld,
             ListMessages(r, u, d, limit, cursor)
      PROVE  AnswerStep
  <2>1. \E e : EnterAsParticipant(r, e)
    BY <1>5 DEF ListMessages
  <2> QED BY <1>3, <2>1
<1>6. ASSUME NEW u \in Users, NEW d \in Dialogs,
             UnreadCount(r, u, d) \/ GetDialog(r, u, d) \/ DeleteDialog(r, u, d)
      PROVE  AnswerStep
  BY <1>1, <1>2, <1>3, <1>6 DEF UnreadCount, GetDialog, DeleteDialog
<1>7. ASSUME NEW u \in Users, ListDialogs(r, u) PROVE AnswerStep
  <2>1. \/ UNCHANGED reply /\ \E f : req' = [req EXCEPT ![r] = f]
        \/ \E status : Finish(r, status)
    BY <1>7 DEF ListDialogs
  <2> QED BY <1>1, <1>2, <2>1
<1>8. ASSUME NEW u \in Users, NEW ids \in Invitations, NEW named \in BOOLEAN,
             CreateDialog(r, u, ids, named)
      PROVE  AnswerStep
  BY <1>1, <1>8 DEF CreateDialog
<1> QED BY <1>4, <1>5, <1>6, <1>7, <1>8 DEF Receive

LEMMA CountedAnswers ==
  ASSUME Typed, NEW r \in Requests, req[r].pc \in Counting, UNCHANGED storeVars,
         NEW n, Counted(r, n),
         \/ n = unread[<<req[r].dialog, req[r].user>>] /\ n # Missing
         \/ n <= Cardinality(Foreign(req[r].dialog, req[r].user))
  PROVE  AnswerStep
<1>0. /\ req \in [Requests -> Request] /\ reply \in [Requests -> Reply]
      /\ req[r] \in Request /\ reply[r] \in Reply /\ req[r].dialog \in Dialogs
  BY DEF Typed, RequestsTyped, RequestsTypeOK, Placed, Counting
<1>2. ASSUME NEW q \in Requests \ {r} PROVE reply'[q] = reply[q] /\ req'[q] = req[q]
  BY <1>0 DEF Counted
<1>3. req'[r].user = req[r].user /\ req'[r].pc # "new"
  <2>1. CASE req' = [req EXCEPT ![r].pc = "done"]
    BY <1>0, <2>1 DEF Request
  <2>2. ASSUME NEW d \in req[r].todo,
               req' = [req EXCEPT ![r].dialog = d, ![r].todo = @ \ {d}, ![r].pc = "unread"]
        PROVE  req'[r].user = req[r].user /\ req'[r].pc # "new"
    BY <1>0, <2>2 DEF Request
  <2> QED BY <2>1, <2>2 DEF Counted
<1>4. reply'[r].counts = [reply[r].counts EXCEPT ![req[r].dialog] = n]
  <2> DEFINE s == IF req[r].todo = {} THEN "ok" ELSE reply[r].status
             e == [reply[r] EXCEPT !.counts[req[r].dialog] = n, !.status = s]
  <2>1. reply' = [reply EXCEPT ![r] = e]
    BY <1>0 DEF Counted
  <2>2. e.counts = [reply[r].counts EXCEPT ![req[r].dialog] = n]
    BY <1>0 DEF Reply
  <2> HIDE DEF s, e
  <2> QED BY <1>0, <2>1, <2>2
<1>5. AnswerTaken(r)
  <2>1. reply[r].counts \in [Dialogs -> Nat]
    BY <1>0 DEF Reply
  <2>2. reply'[r].counts[req[r].dialog] = n
    BY <1>0, <1>4, <2>1
  <2>3. \A d \in Dialogs \ {req[r].dialog} : reply'[r].counts[d] = reply[r].counts[d]
    BY <1>0, <1>4, <2>1
  <2> QED BY <1>3, <2>2, <2>3 DEF AnswerTaken
<1>6. \A q \in Requests \ {r} : AnswersKept(q)
  BY <1>2 DEF AnswersKept
<1> QED BY <1>5, <1>6 DEF AnswerStep

LEMMA GotoAnswers ==
  ASSUME Typed, NEW r \in Requests, NEW pc, pc # "new", Goto(r, pc)
  PROVE  AnswerStep
<1> DEFINE f == [req[r] EXCEPT !.pc = pc]
<1>1. req' = [req EXCEPT ![r] = f] /\ f.user = req[r].user /\ f.pc # "new"
  BY DEF Goto, Typed, RequestsTyped, RequestsTypeOK, Request
<1>2. UNCHANGED reply
  BY DEF Goto
<1> HIDE DEF f
<1> QED BY <1>1, <1>2, KeepAnswers

LEMMA ProceedAnswers ==
  ASSUME Typed, NEW r \in Requests, Proceed(r)
  PROVE  AnswerStep
<1>0. req \in [Requests -> Request] /\ req[r] \in Request
  BY DEF Typed, RequestsTyped, RequestsTypeOK
<1>1. ASSUME \E status : Finish(r, status) PROVE AnswerStep
  BY <1>1, FinishAnswers
<1>2. ASSUME NEW pc, pc # "new", Goto(r, pc) PROVE AnswerStep
  BY <1>2, GotoAnswers
<1>3. ASSUME NEW t, NEW pc, pc # "new", req' = [req EXCEPT ![r].at = t, ![r].pc = pc],
             UNCHANGED reply
      PROVE  AnswerStep
  <2> DEFINE f == [req[r] EXCEPT !.at = t, !.pc = pc]
  <2>1. req' = [req EXCEPT ![r] = f] /\ f.user = req[r].user /\ f.pc # "new"
    BY <1>0, <1>3 DEF Request
  <2> HIDE DEF f
  <2> QED BY <1>3, <2>1, KeepAnswers
<1>4. ASSUME NEW page, NEW next, TakePage(r, page, next) PROVE AnswerStep
  <2> DEFINE f == [req[r] EXCEPT !.pc = "mark"]
  <2>1. req' = [req EXCEPT ![r] = f] /\ f.user = req[r].user /\ f.pc # "new"
    BY <1>0, <1>4 DEF TakePage, Request
  <2>2. reply' = [reply EXCEPT ![r].page = page, ![r].next = next]
    BY <1>4 DEF TakePage
  <2> HIDE DEF f
  <2> QED BY <2>1, <2>2, KeepAnswers
<1>5. CASE Insert(r) \/ Broadcast(r) \/ CountForOthers(r) \/ PushLast(r)
  BY <1>1, <1>2, <1>5 DEF Insert, Broadcast, CountForOthers, PushLast
<1>6. CASE LookupPage(r) \/ QueryPage(r)
  BY <1>1, <1>2, <1>4, <1>6 DEF LookupPage, QueryPage
<1>7. CASE MarkRead(r)
  BY <1>1, <1>3, <1>7 DEF MarkRead
<1>8. CASE ReadSince(r)
  <2>1. \E t : req' = [req EXCEPT ![r].at = t, ![r].pc = "countSince"] /\ UNCHANGED reply
    BY <1>8 DEF ReadSince
  <2> QED BY <1>3, <2>1
<1>9. CASE TouchReadMark(r) \/ ResetUnreadMark(r) \/ GetDialogRow(r) \/ DeleteRow(r)
  <2>1. (\E status : Finish(r, status)) \/ \E pc \in {"reset", "unread"} : Goto(r, pc)
    BY <1>9 DEF TouchReadMark, ResetUnreadMark, GetDialogRow, DeleteRow
  <2> QED BY <1>1, <1>2, <2>1
<1>10. CASE GetUnread(r)
  <2> DEFINE n == unread[<<req[r].dialog, req[r].user>>]
  <2>1. \/ n # Missing /\ Counted(r, n) /\ UNCHANGED storeVars /\ req[r].pc \in Counting
        \/ Goto(r, "since")
    BY <1>10 DEF GetUnread, Counting
  <2> HIDE DEF n
  <2>2. CASE n # Missing /\ Counted(r, n) /\ UNCHANGED storeVars /\ req[r].pc \in Counting
    BY <2>2, CountedAnswers DEF n
  <2> QED BY <1>2, <2>1, <2>2
<1>11. CASE CountSince(r)
  <2> DEFINE n == CountUnreadSince(req[r].dialog, req[r].user, req[r].at)
             f == Foreign(req[r].dialog, req[r].user)
  <2>1. UNCHANGED storeVars /\ req[r].pc \in Counting
    BY <1>11 DEF CountSince, Counting
  <2>2. n <= Cardinality(f) /\ Cardinality(f) \in Nat
    BY ForeignFacts
  <2>3. CASE Counted(r, n)
    BY <2>1, <2>2, <2>3, CountedAnswers
  <2>4. CASE Counted(r, 0)
    <3>1. 0 <= Cardinality(f)
      BY <2>2
    <3> QED BY <2>1, <2>4, <3>1, CountedAnswers
  <2> QED BY <1>1, <1>11, <2>3, <2>4 DEF CountSince
<1> QED BY <1>5, <1>6, <1>7, <1>8, <1>9, <1>10, <1>11 DEF Proceed

LEMMA AnswerSteps ==
  ASSUME Typed, [Next]_vars
  PROVE  AnswerStep
<1>1. CASE Crash
  <2> SUFFICES ASSUME NEW q \in Requests PROVE AnswersKept(q)
    BY DEF AnswerStep
  <2>1. req[q] \in Request /\ reply[q] \in Reply
    BY DEF Typed, RequestsTyped, RequestsTypeOK
  <2>2. req'[q] = req[q] \/ req'[q] = [req[q] EXCEPT !.pc = "done"]
    BY <1>1 DEF Crash
  <2>3. reply'[q] = reply[q] \/ reply'[q] = [reply[q] EXCEPT !.status = "lost"]
    BY <1>1 DEF Crash
  <2> QED BY <2>1, <2>2, <2>3 DEF AnswersKept, Request, Reply
<1>2. CASE UNCHANGED <<req, reply>>
  BY <1>2 DEF AnswerStep, AnswersKept
<1> QED BY <1>1, <1>2, ReceiveAnswers, ProceedAnswers
        DEF Next, Expire, Quiet, vars, requestVars

-----------------------------------------------------------------------------
(* The bounds are kept.                                                    *)

(* While a dialog lives, the messages that may be counted only gain.       *)
LEMMA SettledGrows ==
  ASSUME Chats, Typed', StoreEffect, CountingStep, NEW d \in minted, NEW u, Live(d)'
  PROVE  /\ Live(d)
         /\ Settled(d, u) \subseteq Settled(d, u)' /\ IsFiniteSet(Settled(d, u)')
         /\ Cardinality(Settled(d, u)) <= Cardinality(Settled(d, u)')
         /\ Cardinality(Foreign(d, u)) <= Cardinality(Foreign(d, u)')
         /\ Cardinality(Settled(d, u)') \in Nat /\ Cardinality(Foreign(d, u)') \in Nat
<1>1. Typed /\ Stamped
  BY DEF Chats, Durable, Owned
<1>2. Live(d)
  BY <1>1, KnownKept
<1>3. MessagesOf(d) \subseteq MessagesOf(d)'
  <2> SUFFICES ASSUME NEW m \in MessagesOf(d) PROVE m \in messages'
    BY DEF MessagesOf
  <2>1. Stored(m) /\ m.dialog = d
    BY DEF MessagesOf, Stored
  <2>2. Stored(m)'
    BY <1>1, <2>1, StoredKept
  <2> QED BY <2>1, <2>2 DEF Stored
<1>4. ASSUME NEW m \in messages, m \in Uncounted' PROVE m \in Uncounted
  <2>1. PICK q \in Requests : req'[q].pc = "count" /\ m = MessageOf(q)'
    BY <1>4 DEF Uncounted
  <2>2. CASE req'[q] = req[q]
    BY <2>1, <2>2 DEF Uncounted, MessageOf
  <2>3. CASE req[q].pc = "insert" /\ MessageOf(q)' = MessageOf(q)
    <3>1. m.at = req[q].at
      BY <2>1, <2>3 DEF MessageOf
    <3> QED BY <1>1, <2>3, <3>1 DEF Stamped
  <2> QED BY <2>1, <2>2, <2>3 DEF CountingStep
<1>5. Foreign(d, u) \subseteq Foreign(d, u)'
  BY <1>3 DEF Foreign
<1>6. Settled(d, u) \subseteq Settled(d, u)'
  BY <1>4, <1>5 DEF Settled, Foreign, MessagesOf
<1>7. IsFiniteSet(Foreign(d, u)') /\ IsFiniteSet(Settled(d, u)')
  <2>1. IsFiniteSet(messages')
    BY DEF Typed, StoreTyped
  <2>2. Foreign(d, u)' \subseteq messages' /\ Settled(d, u)' \subseteq messages'
    BY DEF Foreign, Settled, MessagesOf
  <2> QED BY <2>1, <2>2, FS_Subset
<1> QED BY <1>2, <1>5, <1>6, <1>7, FS_Subset, FS_CardinalityType

(* Two requests that are about to count are about different messages.      *)
LEMMA CountedApart ==
  ASSUME Counters, CountingStep, NEW r \in Requests, NEW q \in Requests, r # q,
         req'[r].pc = "count", req'[q].pc = "count"
  PROVE  MessageOf(r)' # MessageOf(q)'
<1>1. Stamped /\ Durable
  BY DEF Counters, Chats
<1>2. ASSUME NEW p \in Requests, NEW o \in Requests, req'[o] = req[o], req[o].pc = "count",
             req[p].pc = "insert", InsertMessage(MessageOf(p)), MessageOf(p)' = MessageOf(p)
      PROVE  MessageOf(o)' # MessageOf(p)'
  <2>1. Stored(MessageOf(o)) /\ MessageOf(o)' = MessageOf(o)
    BY <1>1, <1>2 DEF Durable, Confirmed, AfterInsert, MessageOf
  <2>2. MessageOf(p) \notin messages
    BY <1>1, <1>2 DEF Stamped, MessageOf
  <2> QED BY <1>2, <2>1, <2>2 DEF Stored, InsertMessage
<1>3. CASE req'[r] = req[r] /\ req'[q] = req[q]
  BY <1>3 DEF Counters, MessageOf
<1>4. CASE req'[r] # req[r]
  BY <1>2, <1>4 DEF CountingStep
<1>5. CASE req'[q] # req[q]
  BY <1>2, <1>5 DEF CountingStep
<1> QED BY <1>3, <1>4, <1>5

(* INCR counts a message that no other request will count.                 *)
LEMMA RaisedBounded ==
  ASSUME Counters, Typed', StoreEffect, CountingStep,
         NEW r \in Requests, NEW k \in Member, Raised(r, k)
  PROVE  UnreadBounded(k)'
<1> DEFINE m == MessageOf(r)
           S == Settled(k[1], k[2])
<1>1. /\ Chats /\ Stored(m) /\ m.dialog = k[1] /\ m.sender # k[2]
      /\ UnreadBounded(k) /\ req[r].pc = "count" /\ unread[k] \in Nat \cup {Missing}
  BY DEF Counters, Chats, Durable, Confirmed, AfterInsert, Raised, MessageOf,
         Owned, Typed, CacheTypeOK
<1>2. k[1] \in minted /\ k[1] \in minted'
  BY <1>1 DEF Stored, Raised, storeVars
<1>3. m \notin Uncounted'
  <2> SUFFICES ASSUME NEW q \in Requests, req'[q].pc = "count", m = MessageOf(q)' PROVE FALSE
    BY DEF Uncounted
  <2>1. q # r /\ req'[r] # req[r]
    BY <1>1 DEF Raised
  <2>2. CASE req'[q] = req[q]
    BY <1>1, <2>1, <2>2 DEF Counters, MessageOf
  <2>3. CASE req'[q] # req[q]
    BY <2>1, <2>3 DEF CountingStep
  <2> QED BY <2>2, <2>3
<1>4. m \in Uncounted
  BY <1>1 DEF Uncounted
<1>5. ASSUME Live(k[1])' PROVE unread'[k] <= Cardinality(S')
  <2>1. /\ Live(k[1]) /\ S \subseteq S' /\ IsFiniteSet(S') /\ Cardinality(S') \in Nat
    BY <1>1, <1>2, <1>5, SettledGrows
  <2>2. m \in messages'
    BY <1>1, <2>1 DEF Stored, Raised, storeVars
  <2>3. m \in S' /\ m \notin S
    BY <1>1, <1>3, <1>4, <2>2 DEF Settled, Foreign, MessagesOf
  <2> HIDE DEF m, S
  <2>4. IsFiniteSet(S) /\ Cardinality(S) \in Nat /\ Cardinality(S \cup {m}) = Cardinality(S) + 1
    BY <2>1, <2>3, FS_Subset, FS_AddElement, FS_CardinalityType
  <2>5. Cardinality(S) + 1 <= Cardinality(S')
    BY <2>1, <2>3, <2>4, FS_Subset
  <2>6. unread[k] # Missing => unread[k] <= Cardinality(S)
    BY <1>1, <2>1 DEF UnreadBounded, S
  <2> QED BY <1>1, <2>1, <2>4, <2>5, <2>6 DEF Raised
<1> QED BY <1>2, <1>5 DEF UnreadBounded

LEMMA UnreadKept ==
  ASSUME Counters, Typed', StoreEffect, CountingStep, UnreadStep, NEW k \in Member
  PROVE  UnreadBounded(k)'
<1>1. Chats /\ Typed /\ UnreadBounded(k) /\ minted \subseteq minted'
  BY KnownKept DEF Counters, Chats, Durable, Owned
<1>2. CASE unread'[k] = unread[k]
  <2> SUFFICES ASSUME unread'[k] # Missing
               PROVE  /\ k[1] \in minted'
                      /\ Live(k[1])' => unread'[k] <= Cardinality(Settled(k[1], k[2])')
    BY DEF UnreadBounded
  <2>1. k[1] \in minted /\ (Live(k[1]) => unread[k] <= Cardinality(Settled(k[1], k[2])))
    BY <1>1, <1>2 DEF UnreadBounded
  <2>2. unread[k] \in Nat /\ Cardinality(Settled(k[1], k[2])) \in Nat
    BY <1>1, <1>2, ForeignFacts DEF Typed, CacheTypeOK
  <2>3. ASSUME Live(k[1])' PROVE unread'[k] <= Cardinality(Settled(k[1], k[2])')
    <3>1. /\ Live(k[1])
          /\ Cardinality(Settled(k[1], k[2])) <= Cardinality(Settled(k[1], k[2])')
          /\ Cardinality(Settled(k[1], k[2])') \in Nat
      BY <1>1, <2>1, <2>3, SettledGrows
    <3> QED BY <1>2, <2>1, <2>2, <3>1
  <2> QED BY <1>1, <2>1, <2>3
<1>3. CASE unread'[k] = Missing
  BY <1>3 DEF UnreadBounded
<1>4. CASE unread'[k] = 0 /\ k[1] \in minted
  <2>1. ASSUME Live(k[1])' PROVE 0 <= Cardinality(Settled(k[1], k[2])')
    BY <1>1, <1>4, <2>1, SettledGrows
  <2> QED BY <1>1, <1>4, <2>1 DEF UnreadBounded
<1>5. CASE \E r \in Requests : Raised(r, k)
  BY <1>5, RaisedBounded
<1> QED BY <1>2, <1>3, <1>4, <1>5 DEF UnreadStep

LEMMA AnswersBounded ==
  ASSUME Counters, Typed', StoreEffect, CountingStep, AnswerStep,
         NEW r \in Requests, NEW d \in Dialogs
  PROVE  AnswerBounded(r, d)'
<1>1. Chats /\ Typed /\ AnswerBounded(r, d) /\ minted \subseteq minted'
  BY KnownKept DEF Counters, Chats, Durable, Owned
<1>2. reply[r].counts[d] \in Nat
  BY <1>1 DEF Typed, RequestsTyped, RequestsTypeOK, Reply
<1> SUFFICES ASSUME reply'[r].counts[d] > 0
             PROVE  /\ req'[r].pc # "new" /\ d \in minted'
                    /\ Live(d)' => reply'[r].counts[d] <= Cardinality(Foreign(d, req[r].user)')
  BY DEF AnswerBounded
<1> PICK u : u = req[r].user
  OBVIOUS
<1>3. ASSUME reply'[r].counts[d] = reply[r].counts[d], req'[r].user = u, req'[r].pc # "new"
      PROVE  /\ req'[r].pc # "new" /\ d \in minted'
             /\ Live(d)' => reply'[r].counts[d] <= Cardinality(Foreign(d, req[r].user)')
  <2>1. d \in minted /\ (Live(d) => reply[r].counts[d] <= Cardinality(Foreign(d, u)))
    BY <1>1, <1>3 DEF AnswerBounded
  <2>2. Cardinality(Foreign(d, u)) \in Nat
    BY <1>1, ForeignFacts
  <2>3. ASSUME Live(d)' PROVE reply'[r].counts[d] <= Cardinality(Foreign(d, u)')
    <3>1. /\ Live(d) /\ Cardinality(Foreign(d, u)) <= Cardinality(Foreign(d, u)')
          /\ Cardinality(Foreign(d, u)') \in Nat
      BY <1>1, <2>1, <2>3, SettledGrows
    <3> QED BY <1>2, <1>3, <2>1, <2>2, <3>1
  <2>4. Foreign(d, req[r].user)' = Foreign(d, u)'
    BY <1>3 DEF Foreign
  <2> QED BY <1>1, <1>3, <2>1, <2>3, <2>4
<1>4. CASE AnswersKept(r)
  <2>1. req[r].pc # "new"
    BY <1>1, <1>4 DEF AnswersKept, AnswerBounded
  <2> QED BY <1>3, <1>4, <2>1 DEF AnswersKept
<1>5. CASE AnswerTaken(r)
  <2>1. CASE d # req[r].dialog
    BY <1>3, <1>5, <2>1 DEF AnswerTaken
  <2>2. CASE d = req[r].dialog
    <3>1. /\ Known(req[r]) /\ d # Missing /\ u \in Users
          /\ req'[r].pc # "new" /\ req'[r].user = u /\ UNCHANGED storeVars
      BY <1>1, <1>5, <2>2, MissingAssumption
         DEF AnswerTaken, Counting, Chats, Durable, Owned, AllKnown, Typed, RequestsTyped, Placed
    <3>2. d \in minted /\ <<d, u>> \in Member
      BY <2>2, <3>1 DEF Known, Targets, Member
    <3>3. Live(d)' <=> Live(d)
      BY <3>1 DEF storeVars, Live
    <3>4. Foreign(d, req[r].user)' = Foreign(d, u)
      BY <3>1 DEF storeVars, Foreign, MessagesOf
    <3>5. CASE reply'[r].counts[d] = unread[<<d, u>>] /\ unread[<<d, u>>] # Missing
      <4>1. Live(d) => unread[<<d, u>>] <= Cardinality(Settled(d, u))
        BY <3>2, <3>5 DEF Counters, UnreadBounded
      <4>2. /\ Cardinality(Settled(d, u)) <= Cardinality(Foreign(d, u))
            /\ Cardinality(Settled(d, u)) \in Nat /\ Cardinality(Foreign(d, u)) \in Nat
        BY <1>1, ForeignFacts
      <4>3. unread[<<d, u>>] \in Nat
        BY <1>1, <3>2, <3>5 DEF Typed, CacheTypeOK
      <4> QED BY <1>1, <3>1, <3>2, <3>3, <3>4, <3>5, <4>1, <4>2, <4>3
    <3>6. CASE reply'[r].counts[d] <= Cardinality(Foreign(d, u))
      BY <1>1, <3>1, <3>2, <3>4, <3>6
    <3> QED BY <1>5, <2>2, <3>5, <3>6 DEF AnswerTaken
  <2> QED BY <2>1, <2>2
<1> QED BY <1>4, <1>5 DEF AnswerStep

LEMMA CountersStep ==
  ASSUME Counters, "resend" \notin Faults, [Next]_vars
  PROVE  Counters'
<1>1. Chats /\ Durable /\ Owned /\ Typed
  BY DEF Counters, Chats, Durable, Owned
<1>2. Chats' /\ Typed'
  BY <1>1, ChatsStep, TypedStep
<1>3. StoreEffect /\ CountingStep /\ UnreadStep /\ AnswerStep
  BY <1>1, StoreSteps, CountingSteps, UnreadSteps, AnswerSteps
<1>4. \A r, q \in Requests :
        r # q /\ req'[r].pc = "count" /\ req'[q].pc = "count" => MessageOf(r)' # MessageOf(q)'
  BY <1>3, CountedApart
<1>5. \A k \in Member : UnreadBounded(k)'
  BY <1>2, <1>3, UnreadKept
<1>6. \A r \in Requests, d \in Dialogs : AnswerBounded(r, d)'
  BY <1>2, <1>3, AnswersBounded
<1>7. Member' = Member
  BY DEF Member
<1> QED BY <1>2, <1>4, <1>5, <1>6, <1>7 DEF Counters

(* CountersBounded: as long as no pipeline is sent twice, neither the      *)
(* counter in Redis nor an answered one shows more unread messages than    *)
(* the others have written, whatever else fails and however the increments *)
(* overlap with resets, expiries and counts.                               *)
THEOREM CountersBounded ==
  ASSUME "resend" \notin Faults
  PROVE  Spec => []UnreadNotInflated
<1>1. Init => Counters
  BY InitChats DEF Counters, UnreadBounded, AnswerBounded, Init, RequestsInit, CacheInit, Entered
<1>2. Counters /\ [Next]_vars => Counters'
  BY CountersStep
<1>3. Counters => UnreadNotInflated
  <2> SUFFICES ASSUME Counters PROVE UnreadNotInflated
    OBVIOUS
  <2>1. Typed
    BY DEF Counters, Chats, Durable, Owned
  <2>2. ASSUME NEW k \in Member, Live(k[1]), unread[k] # Missing
        PROVE  unread[k] <= Cardinality(Foreign(k[1], k[2]))
    <3>1. unread[k] \in Nat /\ unread[k] <= Cardinality(Settled(k[1], k[2]))
      BY <2>1, <2>2 DEF Counters, UnreadBounded, Typed, CacheTypeOK
    <3> QED BY <2>1, <3>1, ForeignFacts
  <2>3. ASSUME NEW r \in Requests, NEW d \in Dialogs, Live(d), reply[r].counts[d] > 0
        PROVE  reply[r].counts[d] <= Cardinality(Foreign(d, req[r].user))
    BY <2>3 DEF Counters, AnswerBounded
  <2> QED BY <2>2, <2>3 DEF UnreadNotInflated, Foreign
<1> QED BY <1>1, <1>2, <1>3, PTL DEF Spec

=============================================================================
