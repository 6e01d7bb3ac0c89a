---------------------------- MODULE Overlap_proofs ----------------------------
(***************************************************************************)
(* What MessagingApi promises about lists, pages and read marks while any  *)
(* number of requests overlap, whatever fails, is resent or expires: what  *)
(* a cached list repeats, where a message is found that was acknowledged,  *)
(* and what moves a read mark.                                             *)
(***************************************************************************)
EXTENDS Pages_proofs

(* What a request is once it has been let in. *)
Posts(e) ==
  /\ e.op = "postMessage" /\ e.pc = "insert" /\ e.at = clock /\ e.cursor = Epoch
  /\ clock' = clock + 1
  /\ UNCHANGED <<dialogs, participants, reads, messages, minted>>

Lists(e) ==
  /\ e.op = "listMessages" /\ e.pc = (IF e.cursor = Epoch THEN "lookup" ELSE "query")
  /\ e.limit \in Limits /\ e.cursor \in CursorsHeld /\ IsParticipant(e.dialog, e.user)
  /\ UNCHANGED storeVars

Asks(e) ==
  /\ e.op \in {"unreadCount", "listDialogs", "getDialog", "deleteDialog"}
  /\ e.pc \in {"unread", "detail", "delete"} /\ e.cursor = Epoch
  /\ UNCHANGED storeVars

LetIn(r) ==
  \E e \in Request :
    /\ req' = [req EXCEPT ![r] = e] /\ UNCHANGED reply
    /\ Posts(e) \/ Lists(e) \/ Asks(e)

(* A request is answered at once, or let in.  Of what is answered at once  *)
(* only createDialog may change the tables.                                *)
LEMMA ReceiveOutcome ==
  ASSUME Typed, NEW r \in Requests, Receive(r)
  PROVE  LetIn(r) \/ (\E status \in Statuses : Finish(r, status))
<1> DEFINE Goal == LetIn(r) \/ (\E status \in Statuses : Finish(r, status))
<1>0. clock \in Nat
  BY DEF Typed, StoreTyped, StoreTypeOK
<1>1. \A d, u : EnsureErrors(d, u) \subseteq Statuses
  BY DEF EnsureErrors, Statuses
<1>2. ASSUME NEW e \in Request, EnterAsParticipant(r, e), IsParticipant(e.dialog, e.user) => Lists(e) \/ Asks(e)
      PROVE  Goal
  BY <1>1, <1>2 DEF EnterAsParticipant, LetIn
<1>3. ASSUME NEW u \in Users, NEW d \in Dialogs, NEW length \in Lengths, PostMessage(r, u, d, length)
      PROVE  Goal
  <2> DEFINE e == [Entered("postMessage", u, d, "insert") EXCEPT !.at = clock]
  <2>1. CASE req' = [req EXCEPT ![r] = e] /\ clock' = clock + 1 /\ UNCHANGED reply
    <3>1. e \in Request /\ e.op = "postMessage" /\ e.pc = "insert" /\ e.at = clock /\ e.cursor = Epoch
      BY <1>0 DEF Entered, Request, Handlers, Steps, Epoch
    <3> HIDE DEF e
    <3> QED BY <1>3, <2>1, <3>1 DEF PostMessage, LetIn, Posts
  <2> QED BY <1>1, <1>3, <2>1 DEF PostMessage, Statuses
<1>4. ASSUME NEW u \in Users, NEW d \in Dialogs, NEW limit \in Limits, NEW cursor \in CursorsHeld,
             ListMessages(r, u, d, limit, cursor)
      PROVE  Goal
  <2> DEFINE e == [Entered("listMessages", u, d, IF cursor = Epoch THEN "lookup" ELSE "query")
                     EXCEPT !.limit = limit, !.cursor = cursor]
  <2>1. cursor \in Nat \cup {Missing} /\ limit \in Int
    BY InputAssumption DEF CursorsHeld, Typed, RequestsTyped, RequestsTypeOK, Reply, Epoch
  <2>2. /\ e \in Request /\ e.op = "listMessages" /\ e.limit = limit /\ e.cursor = cursor
        /\ e.pc = (IF cursor = Epoch THEN "lookup" ELSE "query")
    BY <2>1 DEF Entered, Request, Handlers, Steps, Epoch
  <2>3. EnterAsParticipant(r, e) /\ UNCHANGED storeVars
    BY <1>4 DEF ListMessages
  <2> HIDE DEF e
  <2> QED BY <1>2, <2>2, <2>3 DEF Lists
<1>5. ASSUME NEW u \in Users, NEW d \in Dialogs, NEW op \in Handlers, NEW pc \in Steps,
             op \in {"unreadCount", "listDialogs", "getDialog", "deleteDialog"},
             pc \in {"unread", "detail", "delete"}, UNCHANGED storeVars
      PROVE  /\ Entered(op, u, d, pc) \in Request
             /\ Asks(Entered(op, u, d, pc))
             /\ \A S \in SUBSET Dialogs :
                  /\ [Entered(op, u, d, pc) EXCEPT !.todo = S] \in Request
                  /\ Asks([Entered(op, u, d, pc) EXCEPT !.todo = S])
  BY <1>5 DEF Entered, Request, Asks, Epoch
<1>6. ASSUME NEW u \in Users, NEW d \in Dialogs, UnreadCount(r, u, d) PROVE Goal
  BY <1>2, <1>5, <1>6 DEF UnreadCount, Handlers, Steps
<1>7. ASSUME NEW u \in Users, NEW d \in Dialogs, GetDialog(r, u, d) PROVE Goal
  BY <1>2, <1>5, <1>7 DEF GetDialog, Handlers, Steps
<1>8. ASSUME NEW u \in Users, NEW d \in Dialogs, DeleteDialog(r, u, d) PROVE Goal
  BY <1>5, <1>8 DEF DeleteDialog, Handlers, Steps, LetIn, Statuses
<1>9. ASSUME NEW u \in Users, ListDialogs(r, u) PROVE Goal
  <2>1. DialogsOf(u) \in SUBSET Dialogs
    BY DEF DialogsOf
  <2>2. ASSUME NEW d \in DialogsOf(u), UNCHANGED reply,
               req' = [req EXCEPT ![r] =
                 [Entered("listDialogs", u, d, "unread") EXCEPT !.todo = DialogsOf(u) \ {d}]]
        PROVE  Goal
    <3> DEFINE e == [Entered("listDialogs", u, d, "unread") EXCEPT !.todo = DialogsOf(u) \ {d}]
    <3>1. e \in Request /\ Asks(e)
      BY <1>5, <1>9, <2>1 DEF ListDialogs, Handlers, Steps
    <3> HIDE DEF e
    <3> QED BY <2>2, <3>1 DEF LetIn, e
  <2> QED BY <1>9, <2>2 DEF ListDialogs, Statuses
<1>10. ASSUME NEW u \in Users, NEW ids \in Invitations, NEW named \in BOOLEAN,
             CreateDialog(r, u, ids, named)
      PROVE  Goal
  BY <1>10 DEF CreateDialog, Statuses
<1> QED BY <1>3, <1>4, <1>6, <1>7, <1>8, <1>9, <1>10 DEF Receive

(* Receive starts a request, and Proceed goes on with one that has started. *)
LEMMA ReceiveOne ==
  ASSUME Typed, NEW r \in Requests, Receive(r)
  PROVE  /\ \A q \in Requests \ {r} : req'[q] = req[q]
         /\ req[r].pc = "new" /\ Cardinality(InFlight) < MaxInFlight
         /\ UNCHANGED <<cacheVars, published>>
<1>1. \A q \in Requests \ {r} : req'[q] = req[q]
  BY ReceiveInserts DEF NotInserting
<1>2. /\ req[r].pc = "new" /\ Cardinality(InFlight) < MaxInFlight
      /\ UNCHANGED <<cacheVars, published>>
  BY DEF Receive, PostMessage, ListMessages, UnreadCount, GetDialog, DeleteDialog, CreateDialog,
         ListDialogs, CanStart
<1> QED BY <1>1, <1>2

LEMMA ProceedOne ==
  ASSUME Typed, NEW r \in Requests, Proceed(r)
  PROVE  /\ \A q \in Requests \ {r} : req'[q] = req[q]
         /\ r \in InFlight
<1>1. \A q \in Requests \ {r} : req'[q] = req[q]
  BY ProceedLeavesInsert DEF NotInserting
<1>2. r \in InFlight
  BY DEF Proceed, Insert, CountForOthers, PushLast, Broadcast, LookupPage, QueryPage, MarkRead,
         TouchReadMark, ResetUnreadMark, GetUnread, ReadSince, CountSince, GetDialogRow,
         DeleteRow, InFlight
<1> QED BY <1>1, <1>2

LEMMA CrashEnds ==
  ASSUME Typed, Crash
  PROVE  /\ \A q \in Requests : IF q \in InFlight THEN req'[q] = [req[q] EXCEPT !.pc = "done"]
                                ELSE req'[q] = req[q]
         /\ InFlight' = {}
<1>1. req' = [q \in Requests |-> IF q \in InFlight THEN [req[q] EXCEPT !.pc = "done"] ELSE req[q]]
  BY DEF Crash
<1>2. \A q \in Requests : req[q] \in Request
  BY DEF Typed, RequestsTyped, RequestsTypeOK
<1>3. \A q \in Requests : req'[q].pc \in {"new", "done"}
  BY <1>1, <1>2 DEF InFlight, Request
<1> QED BY <1>1, <1>3 DEF InFlight

-----------------------------------------------------------------------------
(* What a listMessages request does, one disjunct for each way on. *)

SameQuery(q) ==
  /\ req'[q].op = req[q].op /\ req'[q].user = req[q].user /\ req'[q].dialog = req[q].dialog
  /\ req'[q].limit = req[q].limit /\ req'[q].cursor = req[q].cursor

SamePage(q) == reply'[q].page = reply[q].page /\ reply'[q].next = reply[q].next

Hit(q) == GetLastMessages(req[q].dialog, req[q].limit)

FromCache(q) ==
  /\ req[q].pc = "lookup" /\ Hit(q) # <<>>
  /\ reply'[q].page = ToSet(Hit(q))
  /\ reply'[q].next = IF Len(Hit(q)) = req[q].limit THEN Hit(q)[Len(Hit(q))].at ELSE Epoch

FromStore(q) ==
  /\ req[q].pc = "query" /\ req[q].cursor # Missing
  /\ reply'[q].page = ListByDialogDesc(req[q].dialog, req[q].limit, req[q].cursor)
  /\ reply'[q].next = NextCursor(reply'[q].page, PageSize(req[q].limit))

Enters(q) == req[q].pc = "new" /\ Lists(req'[q]) /\ SamePage(q)

Takes(q) ==
  /\ SameQuery(q) /\ req'[q].pc = "mark" /\ UNCHANGED <<storeVars, cacheVars>>
  /\ FromCache(q) \/ FromStore(q)

Stays(q) == SameQuery(q) /\ SamePage(q) /\ req'[q].pc = req[q].pc /\ reply'[q].status = reply[q].status

Misses(q) ==
  /\ SameQuery(q) /\ SamePage(q) /\ UNCHANGED <<storeVars, cacheVars>>
  /\ req[q].pc = "lookup" /\ req'[q].pc = "query"
  /\ Hit(q) = <<>> \/ RedisFails

Refused(q) ==
  /\ SameQuery(q) /\ SamePage(q) /\ req'[q].pc = "done"
  /\ reply'[q].status \in {"validation", "internal", "lost"}

Marking == {"mark", "touch", "reset"}

GoesOn(q) ==
  /\ SameQuery(q) /\ SamePage(q) /\ req[q].pc \in Marking
  /\ req'[q].pc \in Marking \/ (req'[q].pc = "done" /\ reply'[q].status = "ok")

ListStep(q) ==
  Enters(q) \/ Takes(q) \/ Stays(q) \/ Misses(q) \/ Refused(q) \/ GoesOn(q)

LEMMA ReplyOne ==
  ASSUME Typed, NEW r \in Requests, Receive(r) \/ Proceed(r)
  PROVE  \A q \in Requests \ {r} : reply'[q] = reply[q]
<1>0. reply \in [Requests -> Reply]
  BY DEF Typed, RequestsTyped, RequestsTypeOK
<1>1. ASSUME \E status : Finish(r, status) PROVE \A q \in Requests \ {r} : reply'[q] = reply[q]
  BY <1>0, <1>1 DEF Finish
<1>2. CASE Receive(r)
  BY <1>0, <1>1, <1>2, ReceiveOutcome DEF LetIn
<1>3. ASSUME NEW n, Counted(r, n) PROVE \A q \in Requests \ {r} : reply'[q] = reply[q]
  BY <1>0, <1>3 DEF Counted
<1>4. ASSUME NEW page, NEW next, TakePage(r, page, next)
      PROVE  \A q \in Requests \ {r} : reply'[q] = reply[q]
  BY <1>0, <1>4 DEF TakePage
<1>5. ASSUME NEW pc, Goto(r, pc) PROVE \A q \in Requests \ {r} : reply'[q] = reply[q]
  BY <1>5 DEF Goto
<1>6. CASE Proceed(r)
  <2>1. CASE UNCHANGED reply
    BY <2>1
  <2>2. CASE LookupPage(r) \/ QueryPage(r)
    BY <1>1, <1>4, <1>5, <2>2 DEF LookupPage, QueryPage
  <2>3. CASE MarkRead(r) \/ ReadSince(r)
    BY <1>1, <2>3 DEF MarkRead, ReadSince
  <2>4. CASE GetUnread(r) \/ CountSince(r)
    BY <1>1, <1>3, <1>5, <2>4 DEF GetUnread, CountSince
  <2> QED BY <1>1, <1>5, <1>6, <2>2, <2>3, <2>4
          DEF Proceed, Insert, CountForOthers, PushLast, Broadcast, TouchReadMark,
              ResetUnreadMark, GetDialogRow, DeleteRow
<1> QED BY <1>2, <1>6

LEMMA ProceedKeepsOp ==
  ASSUME Typed, NEW q \in Requests, Proceed(q)
  PROVE  req'[q].op = req[q].op
<1>0. req \in [Requests -> Request] /\ req[q] \in Request
  BY DEF Typed, RequestsTyped, RequestsTypeOK
<1>1. ASSUME NEW n, Counted(q, n) PROVE req'[q].op = req[q].op
  <2>1. ASSUME NEW d, req' = [req EXCEPT ![q].dialog = d, ![q].todo = @ \ {d}, ![q].pc = "unread"]
        PROVE  req'[q].op = req[q].op
    <3>1. req'[q] = [req[q] EXCEPT !.dialog = d, !.todo = @ \ {d}, !.pc = "unread"]
      BY <1>0, <2>1
    <3> QED BY <1>0, <3>1 DEF Request
  <2>2. ASSUME req' = [req EXCEPT ![q].pc = "done"] PROVE req'[q].op = req[q].op
    BY <1>0, <2>2 DEF Request
  <2> QED BY <1>1, <2>1, <2>2 DEF Counted
<1>2. ASSUME NEW pc, req' = [req EXCEPT ![q].pc = pc] PROVE req'[q].op = req[q].op
  BY <1>0, <1>2 DEF Request
<1>3. ASSUME NEW t, NEW pc, req' = [req EXCEPT ![q].at = t, ![q].pc = pc]
      PROVE  req'[q].op = req[q].op
  BY <1>0, <1>3 DEF Request
<1>4. ASSUME \E status : Finish(q, status) PROVE req'[q].op = req[q].op
  BY <1>2, <1>4 DEF Finish
<1>5. ASSUME \E pc : Goto(q, pc) PROVE req'[q].op = req[q].op
  BY <1>2, <1>5 DEF Goto
<1>6. ASSUME \E page, next : TakePage(q, page, next) PROVE req'[q].op = req[q].op
  BY <1>2, <1>6 DEF TakePage
<1>7. CASE MarkRead(q)
  BY <1>3, <1>4, <1>7 DEF MarkRead
<1>8. CASE ReadSince(q)
  <2>1. \E t : req' = [req EXCEPT ![q].at = t, ![q].pc = "countSince"]
    BY <1>8 DEF ReadSince
  <2> QED BY <1>3, <2>1
<1> QED BY <1>1, <1>4, <1>5, <1>6, <1>7, <1>8
        DEF Proceed, Insert, CountForOthers, PushLast, Broadcast, LookupPage, QueryPage,
            TouchReadMark, ResetUnreadMark, GetUnread, CountSince, GetDialogRow, DeleteRow

LEMMA ListStepsHold ==
  ASSUME Typed, AllOnPath, [Next]_vars, NEW q \in Requests, req'[q].op = "listMessages"
  PROVE  ListStep(q)
<1>0. /\ req \in [Requests -> Request] /\ reply \in [Requests -> Reply]
      /\ req[q] \in Request /\ reply[q] \in Reply /\ OnPath(req[q])
  BY DEF Typed, RequestsTyped, RequestsTypeOK, AllOnPath
<1>1. CASE req'[q] = req[q] /\ reply'[q] = reply[q]
  BY <1>1 DEF ListStep, Stays, SameQuery, SamePage
<1>2. CASE Receive(q)
  <2>1. req[q].pc = "new" /\ req[q].op # "listMessages"
    BY <1>0, <1>2, ReceiveOne DEF OnPath, Path
  <2>2. ASSUME NEW status, Finish(q, status) PROVE FALSE
    BY <1>0, <2>1, <2>2 DEF Finish, Request
  <2>3. LetIn(q)
    BY <1>2, <2>2, ReceiveOutcome
  <2> QED BY <1>0, <2>1, <2>3 DEF LetIn, Posts, Asks, ListStep, Enters, SamePage
<1>3. CASE Proceed(q)
  <2>1. ASSUME NEW status, status \in {"validation", "internal"}, Finish(q, status) PROVE Refused(q)
    BY <1>0, <2>1 DEF Finish, Request, Reply, Refused, SameQuery, SamePage
  <2>2. ASSUME Finish(q, "ok"), req[q].pc \in Marking PROVE GoesOn(q)
    BY <1>0, <2>2 DEF Finish, Request, Reply, GoesOn, SameQuery, SamePage
  <2>3. ASSUME NEW pc, Goto(q, pc) PROVE SameQuery(q) /\ SamePage(q) /\ req'[q].pc = pc
    BY <1>0, <2>3 DEF Goto, Request, SameQuery, SamePage
  <2>4. ASSUME NEW page, NEW next, TakePage(q, page, next)
        PROVE  /\ SameQuery(q) /\ req'[q].pc = "mark"
               /\ reply'[q].page = page /\ reply'[q].next = next
    <3>1. req'[q] = [req[q] EXCEPT !.pc = "mark"]
      BY <1>0, <2>4 DEF TakePage
    <3>2. reply'[q] = [reply[q] EXCEPT !.page = page, !.next = next]
      BY <1>0, <2>4 DEF TakePage
    <3> QED BY <1>0, <3>1, <3>2 DEF Request, Reply, SameQuery
  <2>5. req[q].op = "listMessages"
    BY <1>3, ProceedKeepsOp
  <2>6. req[q].pc \in {"lookup", "query", "mark", "touch", "reset"}
    BY <1>0, <1>3, <2>5, ProceedOne DEF OnPath, Path, InFlight
  <2>7. CASE LookupPage(q)
    <3> DEFINE hit == GetLastMessages(req[q].dialog, req[q].limit)
               next == IF Len(hit) = req[q].limit THEN hit[Len(hit)].at ELSE Epoch
    <3>1. CASE Goto(q, "query") /\ (hit = <<>> \/ RedisFails)
      BY <2>3, <2>7, <3>1 DEF LookupPage, ListStep, Misses, Hit
    <3>2. CASE TakePage(q, ToSet(hit), next) /\ hit # <<>>
      <4>1. /\ SameQuery(q) /\ req'[q].pc = "mark"
            /\ reply'[q].page = ToSet(hit) /\ reply'[q].next = next
        BY <2>4, <3>2
      <4> QED BY <2>7, <3>2, <4>1 DEF LookupPage, ListStep, Takes, FromCache, Hit
    <3> QED BY <2>7, <3>1, <3>2 DEF LookupPage
  <2>8. CASE QueryPage(q)
    <3> DEFINE page == ListByDialogDesc(req[q].dialog, req[q].limit, req[q].cursor)
               next == NextCursor(page, PageSize(req[q].limit))
    <3>1. CASE TakePage(q, page, next) /\ req[q].cursor # Missing
      <4>1. /\ SameQuery(q) /\ req'[q].pc = "mark"
            /\ reply'[q].page = page /\ reply'[q].next = next
        BY <2>4, <3>1
      <4> QED BY <2>8, <3>1, <4>1 DEF QueryPage, ListStep, Takes, FromStore
    <3> QED BY <2>1, <2>8, <3>1 DEF QueryPage, ListStep
  <2>9. CASE MarkRead(q)
    <3>1. CASE req' = [req EXCEPT ![q].at = clock, ![q].pc = "touch"] /\ UNCHANGED reply
      BY <1>0, <2>9, <3>1 DEF MarkRead, Request, ListStep, GoesOn, SameQuery, SamePage, Marking
    <3> QED BY <2>2, <2>9, <3>1 DEF MarkRead, ListStep, Marking
  <2>10. CASE TouchReadMark(q)
    BY <2>2, <2>3, <2>10 DEF TouchReadMark, ListStep, GoesOn, Marking
  <2>11. CASE ResetUnreadMark(q)
    BY <2>2, <2>11 DEF ResetUnreadMark, ListStep, Marking
  <2> QED BY <1>3, <2>6, <2>7, <2>8, <2>9, <2>10, <2>11
          DEF Proceed, Insert, CountForOthers, PushLast, Broadcast, GetUnread, ReadSince, CountSince,
              GetDialogRow, DeleteRow
<1>4. CASE Crash /\ q \in InFlight
  <2>1. req'[q] = [req[q] EXCEPT !.pc = "done"] /\ reply'[q] = [reply[q] EXCEPT !.status = "lost"]
    BY <1>4 DEF Crash
  <2> QED BY <1>0, <2>1 DEF Request, Reply, ListStep, Refused, SameQuery, SamePage
<1>5. CASE Crash /\ q \notin InFlight
  BY <1>1, <1>5 DEF Crash
<1>6. ASSUME NEW r \in Requests \ {q}, Receive(r) \/ Proceed(r) PROVE ListStep(q)
  BY <1>1, <1>6, ReceiveOne, ProceedOne, ReplyOne
<1> QED BY <1>1, <1>2, <1>3, <1>4, <1>5, <1>6 DEF Next, Expire, Quiet, vars, requestVars

(* All other requests leave pages and cursors as they are. *)

(* What a postMessage request does, one disjunct for each way on. *)

SamePost(q) ==
  /\ req'[q].op = req[q].op /\ req'[q].user = req[q].user
  /\ req'[q].dialog = req[q].dialog /\ req'[q].at = req[q].at

PostEnters(q) ==
  /\ req[q].pc = "new" /\ Posts(req'[q]) /\ UNCHANGED cacheVars
  /\ \A p \in Requests \ {q} : req'[p] = req[p]

PostStores(q) ==
  /\ req[q].pc = "insert" /\ UNCHANGED cacheVars /\ SamePost(q)
  /\ \/ req'[q].pc = "count" /\ InsertMessage(MessageOf(q))
     \/ /\ req'[q].pc = "done" /\ reply'[q].status = "internal"
        /\ (StoreFails /\ InsertMessage(MessageOf(q))) \/ UNCHANGED storeVars

PostCounts(q) ==
  /\ req[q].pc = "count" /\ req'[q].pc = "push" /\ SamePost(q)
  /\ UNCHANGED <<storeVars, lastMessages>>

PostPushes(q) ==
  /\ req[q].pc = "push" /\ req'[q].pc = "broadcast" /\ SamePost(q) /\ UNCHANGED storeVars
  /\ \/ \E n \in Sendings : PushLastMessage(req[q].dialog, MessageOf(q), n)
     \/ RedisFails /\ UNCHANGED cacheVars

PostEnds(q) ==
  /\ req'[q].pc = "done" /\ SamePost(q) /\ UNCHANGED <<storeVars, cacheVars>>
  /\ \/ req[q].pc = "broadcast" /\ reply'[q].status = "created"
     \/ "crash" \in Faults /\ reply'[q].status = "lost"

PostStep(q) ==
  \/ req'[q] = req[q] /\ reply'[q] = reply[q]
  \/ PostEnters(q) \/ PostStores(q) \/ PostCounts(q) \/ PostPushes(q) \/ PostEnds(q)

LEMMA PostStepsHold ==
  ASSUME Typed, AllOnPath, [Next]_vars, NEW q \in Requests, req'[q].op = "postMessage"
  PROVE  PostStep(q)
<1>0. /\ req \in [Requests -> Request] /\ reply \in [Requests -> Reply]
      /\ req[q] \in Request /\ reply[q] \in Reply /\ OnPath(req[q])
  BY DEF Typed, RequestsTyped, RequestsTypeOK, AllOnPath
<1>1. CASE req'[q] = req[q] /\ reply'[q] = reply[q]
  BY <1>1 DEF PostStep
<1>2. CASE Receive(q)
  <2>1. /\ req[q].pc = "new" /\ req[q].op # "postMessage" /\ UNCHANGED cacheVars
        /\ \A p \in Requests \ {q} : req'[p] = req[p]
    BY <1>0, <1>2, ReceiveOne DEF OnPath, Path
  <2>2. ASSUME NEW status, Finish(q, status) PROVE FALSE
    BY <1>0, <2>1, <2>2 DEF Finish, Request
  <2>3. LetIn(q)
    BY <1>2, <2>2, ReceiveOutcome
  <2> QED BY <1>0, <2>1, <2>3 DEF LetIn, Lists, Asks, PostStep, PostEnters
<1>3. CASE Proceed(q)
  <2>1. ASSUME NEW status, Finish(q, status)
        PROVE  SamePost(q) /\ req'[q].pc = "done" /\ reply'[q].status = status
    BY <1>0, <2>1 DEF Finish, Request, Reply, SamePost
  <2>2. ASSUME NEW pc, Goto(q, pc) PROVE SamePost(q) /\ req'[q].pc = pc
    BY <1>0, <2>2 DEF Goto, Request, SamePost
  <2>3. req[q].op = "postMessage"
    BY <1>3, ProceedKeepsOp
  <2>4. CASE Insert(q)
    BY <2>1, <2>2, <2>4 DEF Insert, PostStep, PostStores
  <2>5. CASE CountForOthers(q)
    BY <2>2, <2>5 DEF CountForOthers, IncrUnreadForUsers, cacheVars, PostStep, PostCounts
  <2>6. CASE PushLast(q)
    BY <2>2, <2>6 DEF PushLast, PostStep, PostPushes
  <2>7. CASE Broadcast(q)
    BY <2>1, <2>7 DEF Broadcast, PostStep, PostEnds
  <2>8. req[q].pc \in {"insert", "count", "push", "broadcast"}
    BY <1>0, <1>3, <2>3, ProceedOne DEF OnPath, Path, InFlight
  <2> QED BY <1>3, <2>4, <2>5, <2>6, <2>7, <2>8
          DEF Proceed, LookupPage, QueryPage, MarkRead, TouchReadMark, ResetUnreadMark, GetUnread,
              ReadSince, CountSince, GetDialogRow, DeleteRow
<1>4. CASE Crash /\ q \in InFlight
  <2>1. /\ req'[q] = [req[q] EXCEPT !.pc = "done"] /\ reply'[q] = [reply[q] EXCEPT !.status = "lost"]
        /\ "crash" \in Faults /\ UNCHANGED <<storeVars, cacheVars>>
    BY <1>4 DEF Crash
  <2> QED BY <1>0, <2>1 DEF Request, Reply, PostStep, PostEnds, SamePost
<1>5. CASE Crash /\ q \notin InFlight
  BY <1>1, <1>5 DEF Crash
<1>6. ASSUME NEW r \in Requests \ {q}, Receive(r) \/ Proceed(r)
      PROVE  req'[q] = req[q] /\ reply'[q] = reply[q]
  BY <1>6, ReceiveOne, ProceedOne, ReplyOne
<1> QED BY <1>1, <1>2, <1>3, <1>4, <1>5, <1>6 DEF Next, Expire, Quiet, vars, requestVars

-----------------------------------------------------------------------------
(* Stamps and pages. *)

(* A set of messages has an oldest one. *)
LEMMA OldestExists ==
  ASSUME NEW S \in SUBSET Message, S # {}
  PROVE  \E m \in S : \A k \in S : m.at <= k.at
<1> DEFINE stamps == {m.at : m \in S}
<1>1. stamps # {} /\ stamps \subseteq Nat
  BY DEF Message
<1> HIDE DEF stamps
<1>2. PICK x \in stamps : \A y \in stamps : <<y, x>> \notin OpToRel(<, Nat)
  BY <1>1, NatLessThanWellFounded, WFMin
<1>3. ASSUME NEW y \in stamps PROVE x <= y
  <2>1. <<y, x>> \in Nat \X Nat /\ <<y, x>>[1] = y /\ <<y, x>>[2] = x
    BY <1>1
  <2>2. ~(y < x)
    BY <1>2, <2>1 DEF OpToRel
  <2> QED BY <1>1, <2>2
<1>4. PICK m \in S : m.at = x
  BY DEF stamps
<1>5. \A k \in S : m.at <= k.at
  BY <1>3, <1>4 DEF stamps
<1> QED BY <1>5

(* The cursor of a full page is the stamp of its oldest message. *)
LEMMA NextCursorIs ==
  ASSUME NEW page \in SUBSET Message, NEW size \in Nat \ {0}
  PROVE  \/ Cardinality(page) # size /\ NextCursor(page, size) = Epoch
         \/ \E m \in page : NextCursor(page, size) = m.at /\ \A k \in page : m.at <= k.at
<1>1. CASE Cardinality(page) = size
  <2>1. PICK m \in page : \A k \in page : m.at <= k.at
    BY <1>1, FS_EmptySet, OldestExists
  <2>2. m.at \in {k.at : k \in page} /\ \A y \in {k.at : k \in page} : m.at <= y
    BY <2>1
  <2>3. \A y \in {k.at : k \in page} : y \in Nat

    BY DEF Message
  <2>4. Min({k.at : k \in page}) = m.at
    BY <2>2, <2>3 DEF Min
  <2> QED BY <1>1, <2>1, <2>4 DEF NextCursor
<1> QED BY <1>1 DEF NextCursor

LEMMA HitFrom ==
  ASSUME Typed, NEW q \in Requests, req[q].pc = "lookup"
  PROVE  /\ req[q].dialog \in Dialogs /\ lastMessages[req[q].dialog] \in Seq(Message)
         /\ Hit(q) \in Seq(Message) /\ ToSet(Hit(q)) \subseteq ToSet(lastMessages[req[q].dialog])
         /\ Hit(q) # <<>> => Hit(q)[Len(Hit(q))] \in ToSet(Hit(q))
<1>1. req[q].dialog \in Dialogs /\ lastMessages[req[q].dialog] \in Seq(Message)
  BY DEF Typed, RequestsTyped, Placed, CacheTypeOK
<1>2. (IF req[q].limit \in 1..LastMessagesLimit THEN req[q].limit ELSE LastMessagesLimit) \in Nat
  BY CacheAssumption
<1>3. Hit(q) \in Seq(Message) /\ ToSet(Hit(q)) \subseteq ToSet(lastMessages[req[q].dialog])
  BY <1>1, <1>2, FirstOfType DEF Hit, GetLastMessages
<1>4. Hit(q) # <<>> => Len(Hit(q)) \in DOMAIN Hit(q)
  BY <1>3, LenProperties, EmptySeq
<1> QED BY <1>1, <1>3, <1>4 DEF ToSet

LEMMA InSeq ==
  ASSUME NEW S, NEW list \in Seq(S), NEW m \in ToSet(list)
  PROVE  m \in S
BY ElementOfSeq, LenProperties DEF ToSet

Newer(S, m) == {k \in S : k.at > m.at}

(* What a page leaves out is older than a full page. *)
LEMMA NewestAbove ==
  ASSUME NEW S \in SUBSET Message, IsFiniteSet(S), NEW n \in Nat,
         NEW m \in S, m \notin Newest(S, n)
  PROVE  /\ Cardinality({k \in Newest(S, n) : k.at > m.at}) >= n
         /\ Cardinality(Newest(S, n)) >= n
<1> DEFINE left == S \ Newest(S, n)
           ranks == {Cardinality(Newer(S, u)) : u \in left}
<1>1. \A k \in S : /\ k.at \in Nat /\ IsFiniteSet(Newer(S, k)) /\ Cardinality(Newer(S, k)) \in Nat
  <2> SUFFICES ASSUME NEW k \in S
               PROVE  k.at \in Nat /\ IsFiniteSet(Newer(S, k)) /\ Cardinality(Newer(S, k)) \in Nat
    OBVIOUS
  <2>1. Newer(S, k) \in SUBSET S
    BY DEF Newer
  <2> QED BY <2>1, FS_Subset, FS_CardinalityType DEF Message
<1>2. ranks # {} /\ ranks \subseteq Nat
  BY <1>1
<1>3. PICK x \in ranks : \A y \in ranks : <<y, x>> \notin OpToRel(<, Nat)
  <2> HIDE DEF ranks
  <2> QED BY <1>2, NatLessThanWellFounded, WFMin
<1>4. ASSUME NEW y \in ranks PROVE x <= y
  <2> HIDE DEF ranks
  <2>1. <<y, x>> \in Nat \X Nat /\ <<y, x>>[1] = y /\ <<y, x>>[2] = x
    BY <1>2
  <2>2. ~(y < x)
    BY <1>3, <2>1 DEF OpToRel
  <2> QED BY <1>2, <2>2
<1>5. PICK u \in left : x = Cardinality(Newer(S, u))
  BY <1>3
<1>6. ASSUME NEW k \in left PROVE ~(k.at > u.at)
  <2> SUFFICES ASSUME k.at > u.at PROVE FALSE
    OBVIOUS
  <2>0. k \in S /\ u \in S /\ k.at \in Nat /\ u.at \in Nat /\ k.at > u.at
    BY <1>1
  <2>1. Newer(S, k) \in SUBSET Newer(S, u) /\ k \in Newer(S, u) /\ k \notin Newer(S, k)
    <3>1. ASSUME NEW j \in Newer(S, k) PROVE j \in Newer(S, u)
      <4>1. j \in S /\ j.at \in Nat /\ j.at > k.at
        BY <1>1 DEF Newer
      <4> QED BY <2>0, <4>1 DEF Newer
    <3> QED BY <2>0, <3>1 DEF Newer
  <2>2. Cardinality(Newer(S, k)) < Cardinality(Newer(S, u))
    BY <1>1, <2>1, FS_Subset
  <2>3. x <= Cardinality(Newer(S, k))
    BY <1>4
  <2> QED BY <1>1, <1>5, <2>2, <2>3
<1>7. Newer(S, u) \in SUBSET {k \in Newest(S, n) : k.at > m.at}
  <2>1. ASSUME NEW k \in Newer(S, u) PROVE k \in Newest(S, n) /\ k.at > m.at
    <3>1. k \in S /\ k.at > u.at /\ u \in S /\ m \in left
      BY DEF Newer
    <3>2. k \notin left /\ ~(m.at > u.at)
      <4> HIDE DEF left
      <4> QED BY <1>6, <3>1
    <3>3. k.at \in Nat /\ u.at \in Nat /\ m.at \in Nat
      BY <1>1, <3>1
    <3> QED BY <3>1, <3>2, <3>3
  <2> QED BY <2>1
<1>8. Cardinality(Newer(S, u)) >= n
  <2>1. u \in S /\ u \notin Newest(S, n)
    OBVIOUS
  <2>2. ~(Cardinality(Newer(S, u)) < n)
    BY <2>1 DEF Newest, Newer
  <2> QED BY <1>1, <2>1, <2>2
<1>9. /\ {k \in Newest(S, n) : k.at > m.at} \in SUBSET Newest(S, n) /\ Newest(S, n) \in SUBSET S
  BY DEF Newest
<1> DEFINE above == {k \in Newest(S, n) : k.at > m.at}
<1>10. IsFiniteSet(Newest(S, n)) /\ IsFiniteSet(above) /\ IsFiniteSet(Newer(S, u))
  BY <1>1, <1>9, FS_Subset
<1>11. /\ Cardinality(Newer(S, u)) <= Cardinality(above)
       /\ Cardinality(above) <= Cardinality(Newest(S, n))
       /\ Cardinality(above) \in Nat /\ Cardinality(Newest(S, n)) \in Nat
       /\ Cardinality(Newer(S, u)) \in Nat
  <2> HIDE DEF above
  <2> QED BY <1>7, <1>9, <1>10, FS_Subset, FS_CardinalityType DEF above
<1> QED BY <1>8, <1>11

Distinct(S) == \A m, k \in S : m.at = k.at => m = k

(* A page is never longer than its size. *)
LEMMA NewestBound ==
  ASSUME NEW S \in SUBSET Message, IsFiniteSet(S), Distinct(S), NEW n \in Nat
  PROVE  Cardinality(Newest(S, n)) <= n
<1>1. Newest(S, n) \in SUBSET S /\ IsFiniteSet(Newest(S, n))
  BY FS_Subset DEF Newest
<1>2. CASE Newest(S, n) = {}
  BY <1>2, FS_EmptySet
<1>3. CASE Newest(S, n) # {}
  <2>1. PICK m \in Newest(S, n) : \A k \in Newest(S, n) : m.at <= k.at
    BY <1>1, <1>3, OldestExists
  <2>2. \A k \in S : k.at \in Nat
    BY DEF Message
  <2>3. Newest(S, n) \ {m} \in SUBSET {k \in S : k.at > m.at}
    BY <1>1, <2>1, <2>2 DEF Distinct
  <2>4. /\ IsFiniteSet({k \in S : k.at > m.at}) /\ Cardinality({k \in S : k.at > m.at}) < n
        /\ Cardinality({k \in S : k.at > m.at}) \in Nat
    BY FS_Subset, FS_CardinalityType DEF Newest
  <2>5. Cardinality(Newest(S, n) \ {m}) <= Cardinality({k \in S : k.at > m.at})
    BY <2>3, <2>4, FS_Subset
  <2>6. Cardinality(Newest(S, n) \ {m}) = Cardinality(Newest(S, n)) - 1
        /\ Cardinality(Newest(S, n)) \in Nat
    BY <1>1, <2>1, FS_RemoveElement, FS_CardinalityType
  <2> QED BY <2>4, <2>5, <2>6
<1> QED BY <1>2, <1>3

LEMMA FirstOfIs ==
  ASSUME NEW S, NEW list \in Seq(S), NEW n \in Nat
  PROVE  /\ FirstOf(list, n) \in Seq(S)
         /\ Len(FirstOf(list, n)) = (IF n < Len(list) THEN n ELSE Len(list))
         /\ \A i \in 1..Len(FirstOf(list, n)) : FirstOf(list, n)[i] = list[i]
<1> DEFINE last == IF n < Len(list) THEN n ELSE Len(list)
<1>1. Len(list) \in Nat /\ last \in Nat /\ last <= Len(list)
  BY LenProperties
<1>2. \A i \in 1..last : list[i] \in S
  BY <1>1, ElementOfSeq
<1>3. /\ SubSeq(list, 1, last) \in Seq(S)
      /\ Len(SubSeq(list, 1, last)) = last
      /\ \A i \in 1..last : SubSeq(list, 1, last)[i] = list[i]
  <2> HIDE DEF last
  <2> QED BY <1>1, <1>2, SubSeqProperties
<1> QED BY <1>3 DEF FirstOf

-----------------------------------------------------------------------------
(* RepeatsOnlyResent: a cached list holds a message twice only if Redis    *)
(* ran its pipeline twice: however senders overlap and errors are dropped, *)
(* no two requests push one message, and no request pushes it again.       *)
RepeatsOnlyResent ==
  \A d \in Dialogs : \A i, j \in DOMAIN lastMessages[d] :
    lastMessages[d][i] = lastMessages[d][j] /\ i # j => "resend" \in Faults

(* It rests on this: every message that is yet to be pushed has a stamp    *)
(* of its own, which no list holds.                                        *)

Pushing == {"insert", "count", "push"}

Repeats(list) ==
  \A i, j \in 1..Len(list) :
    list[i] = list[j] /\ i # j => "resend" \in Faults

PushesApart ==
  /\ \A r \in Requests : req[r].pc \in Pushing =>
       /\ req[r].at < clock
       /\ \A q \in Requests \ {r} : req[q].pc \in Pushing => req[q].at # req[r].at
       /\ \A d \in Dialogs : \A m \in ToSet(lastMessages[d]) : m.at # req[r].at
  /\ \A d \in Dialogs : \A m \in ToSet(lastMessages[d]) : m.at < clock
  /\ \A d \in Dialogs : Repeats(lastMessages[d])

(* LPUSH of a message that is new to the list, once or twice, then LTRIM. *)
LEMMA PushRepeats ==
  ASSUME NEW list \in Seq(Message), Repeats(list), NEW m \in Message, m \notin ToSet(list),
         NEW n \in Sendings, NEW limit \in Nat
  PROVE  Repeats(FirstOf([i \in 1..n |-> m] \o list, limit))
<1> DEFINE front == [i \in 1..n |-> m]
           full == front \o list
           new == FirstOf(full, limit)
<1>0. n \in {1, 2} /\ (n = 2 => "resend" \in Faults) /\ Len(list) \in Nat
  BY LenProperties DEF Sendings
<1>1. front \in Seq(Message) /\ Len(front) = n /\ \A i \in 1..n : front[i] = m
  <2>1. front \in Seq(Message)
    BY <1>0, IsASeq
  <2> QED BY <1>0, <2>1, LenProperties
<1> HIDE DEF front
<1>2. /\ full \in Seq(Message) /\ Len(full) = n + Len(list)
      /\ \A i \in 1..(n + Len(list)) : full[i] = IF i <= n THEN front[i] ELSE list[i - n]
  BY <1>0, <1>1, ConcatProperties
<1> HIDE DEF full
<1>3. /\ Len(new) = (IF limit < Len(full) THEN limit ELSE Len(full))
      /\ \A i \in 1..Len(new) : new[i] = full[i]
  BY <1>2, FirstOfIs
<1> HIDE DEF new
<1>4. /\ Len(new) \in Nat /\ Len(new) <= n + Len(list)
      /\ \A i \in 1..Len(new) : new[i] = IF i <= n THEN m ELSE list[i - n]
  BY <1>0, <1>1, <1>2, <1>3
<1>5. \A i \in 1..Len(new) : i > n => i - n \in 1..Len(list) /\ list[i - n] # m
  <2> SUFFICES ASSUME NEW i \in 1..Len(new), i > n PROVE i - n \in 1..Len(list) /\ list[i - n] # m
    OBVIOUS
  <2>1. i - n \in 1..Len(list)
    BY <1>0, <1>4
  <2>2. list[i - n] \in ToSet(list)
    BY <2>1, LenProperties DEF ToSet
  <2> QED BY <2>1, <2>2
<1>6. ASSUME NEW i \in 1..Len(new), NEW j \in 1..Len(new), new[i] = new[j], i < j
      PROVE  "resend" \in Faults
  <2>1. CASE j <= n
    BY <1>0, <1>4, <1>6, <2>1
  <2>2. CASE j > n
    <3>1. new[j] = list[j - n] /\ j - n \in 1..Len(list) /\ new[j] # m
      <4>1. j - n \in 1..Len(list) /\ list[j - n] # m
        BY <1>5, <2>2
      <4>2. new[j] = list[j - n]
        BY <1>0, <1>4, <2>2
      <4> QED BY <4>1, <4>2
    <3>2. i > n
      <4>1. i <= n => new[i] = m
        BY <1>4
      <4> QED BY <1>0, <1>6, <3>1, <4>1
    <3>3. new[i] = list[i - n] /\ i - n \in 1..Len(list)
      BY <1>0, <1>4, <1>5, <3>2
    <3>4. "resend" \in Faults
      BY <1>0, <1>6, <3>1, <3>3 DEF Repeats
    <3> QED BY <1>0, <1>6, <3>4
  <2> QED BY <1>0, <1>6, <2>1, <2>2
<1>7. \A i, j \in 1..Len(new) : i # j => i < j \/ j < i
  BY <1>4
<1> QED BY <1>6, <1>7 DEF Repeats, new, full, front

(* A list is left alone, emptied, or pushed to. *)
LEMMA ListsFrom ==
  ASSUME Typed, AllOnPath, [Next]_vars
  PROVE  \/ UNCHANGED lastMessages
         \/ \E d \in Dialogs : ExpireLastMessages(d)
         \/ \E q \in Requests : PushLast(q)
<1>1. ASSUME NEW r \in Requests, Receive(r) PROVE UNCHANGED lastMessages
  BY <1>1, ReceiveOne DEF cacheVars
<1>2. ASSUME NEW r \in Requests, Proceed(r)
      PROVE  UNCHANGED lastMessages \/ PushLast(r)
  BY <1>2 DEF Proceed, Insert, CountForOthers, Broadcast, LookupPage, QueryPage, MarkRead,
              TouchReadMark, ResetUnreadMark, GetUnread, ReadSince, CountSince, GetDialogRow,
              DeleteRow, IncrUnreadForUsers, ResetUnread, cacheVars
<1> QED BY <1>1, <1>2 DEF Next, Expire, ExpireUnread, Crash, Quiet, vars, cacheVars

(* Who is yet to push was so before, with the same stamp, or enters now. *)
LEMMA PushingFrom ==
  ASSUME Typed, AllOnPath, AllOnPath', [Next]_vars, NEW r \in Requests, req'[r].pc \in Pushing
  PROVE  \/ req[r].pc \in Pushing /\ req'[r].at = req[r].at
         \/ /\ req'[r].at = clock /\ clock' = clock + 1 /\ UNCHANGED cacheVars
            /\ \A q \in Requests \ {r} : req'[q] = req[q]
<1>1. req'[r].op = "postMessage"
  BY DEF AllOnPath, OnPath, Path, Counting, Pushing
<1>2. PostStep(r)
  BY <1>1, PostStepsHold
<1> QED BY <1>2 DEF PostStep, PostEnters, PostStores, PostCounts, PostPushes, PostEnds, SamePost, Posts,
                    Pushing

LEMMA PushesApartStep ==
  ASSUME Typed, AllOnPath, PushesApart, [Next]_vars
  PROVE  PushesApart'
<1>1. /\ Typed' /\ AllOnPath' /\ clock \in Nat /\ clock' \in Nat /\ clock' >= clock
      /\ \A r \in Requests : req[r].at \in Nat /\ req'[r].at \in Nat
      /\ lastMessages \in [Dialogs -> Seq(Message)]
  <2>1. Typed' /\ AllOnPath' /\ StampSteps
    BY TypedStep, AllOnPathStep, StampStepsHold
  <2> QED BY <2>1 DEF Typed, StoreTyped, StoreTypeOK, RequestsTyped, RequestsTypeOK, Request, StampSteps,
                      CacheTypeOK
<1>2. ASSUME NEW d \in Dialogs, NEW m \in ToSet(lastMessages[d])
      PROVE  m.at \in Nat /\ m.at < clock
  <2>1. m \in Message
    BY <1>1, InSeq
  <2> QED BY <2>1 DEF Message, PushesApart
<1>3. ASSUME NEW q \in Requests, PushLast(q)
      PROVE  /\ req[q].pc = "push" /\ req'[q].pc = "broadcast" /\ MessageOf(q) \in Message
             /\ req[q].dialog \in Dialogs
             /\ \A p \in Requests \ {q} : req'[p] = req[p]
  <2>1. /\ req[q].pc = "push" /\ req'[q].pc = "broadcast"
        /\ \A p \in Requests \ {q} : req'[p] = req[p]
    BY <1>3 DEF PushLast, Goto, Typed, RequestsTyped, RequestsTypeOK, Request
  <2> QED BY <2>1, MessageOfType DEF Typed, Placed
<1>4. ASSUME NEW d \in Dialogs, NEW m \in ToSet(lastMessages'[d])
      PROVE  \/ m \in ToSet(lastMessages[d])
             \/ \E q \in Requests : req[q].pc = "push" /\ m.at = req[q].at
  BY CachedFrom DEF MessageOf
<1>5. ASSUME NEW d \in Dialogs, NEW m \in ToSet(lastMessages'[d]) PROVE m.at < clock'
  BY <1>1, <1>2, <1>4, <1>5 DEF PushesApart, Pushing
<1>6. ASSUME NEW r \in Requests, req'[r].pc \in Pushing
      PROVE  /\ req'[r].at < clock'
             /\ \A q \in Requests \ {r} : req'[q].pc \in Pushing => req'[q].at # req'[r].at
             /\ \A d \in Dialogs : \A m \in ToSet(lastMessages'[d]) : m.at # req'[r].at
  <2>1. CASE req[r].pc \in Pushing /\ req'[r].at = req[r].at
    <3>1. req[r].at < clock
      BY <2>1 DEF PushesApart
    <3>2. ASSUME NEW q \in Requests \ {r}, req'[q].pc \in Pushing PROVE req'[q].at # req'[r].at
      <4>1. CASE req[q].pc \in Pushing /\ req'[q].at = req[q].at
        BY <2>1, <4>1 DEF PushesApart
      <4>2. CASE req'[q].at = clock
        BY <1>1, <2>1, <3>1, <4>2
      <4> QED BY <1>1, <3>2, <4>1, <4>2, PushingFrom
    <3>3. ASSUME NEW d \in Dialogs, NEW m \in ToSet(lastMessages'[d]) PROVE m.at # req'[r].at
      <4>1. CASE m \in ToSet(lastMessages[d])
        BY <2>1, <4>1 DEF PushesApart
      <4>2. CASE m \notin ToSet(lastMessages[d])
        <5>1. PICK q \in Requests : PushLast(q)
          <6>1. PICK q \in Requests : req[q].pc = "push" /\ req[q].dialog = d /\ m = MessageOf(q)
            BY <4>2, CachedFrom
          <6>2. lastMessages' # lastMessages /\ ~\E c \in Dialogs : ExpireLastMessages(c)
            <7>1. ASSUME NEW c \in Dialogs, ExpireLastMessages(c) PROVE FALSE
              <8>1. lastMessages'[d] = IF d = c THEN <<>> ELSE lastMessages[d]
                BY <1>1, <7>1 DEF ExpireLastMessages
              <8> QED BY <3>3, <4>2, <8>1 DEF ToSet
            <7> QED BY <3>3, <4>2, <7>1
          <6> QED BY <6>2, ListsFrom
        <5>2. m = MessageOf(q)
          <6>1. PICK n \in Nat : PushLastMessage(req[q].dialog, MessageOf(q), n)
            BY <3>3, <4>2, <5>1 DEF PushLast, Sendings, cacheVars
          <6> QED BY <1>3, <3>3, <4>2, <5>1, <6>1, PushedFrom
        <5>3. q # r
          BY <1>3, <1>6, <5>1 DEF Pushing
        <5>4. req[q].pc \in Pushing /\ m.at = req[q].at
          BY <1>3, <5>1, <5>2 DEF Pushing, MessageOf
        <5> QED BY <2>1, <5>3, <5>4 DEF PushesApart
      <4> QED BY <4>1, <4>2
    <3> QED BY <1>1, <2>1, <3>1, <3>2, <3>3
  <2>2. CASE /\ req'[r].at = clock /\ clock' = clock + 1 /\ UNCHANGED cacheVars
             /\ \A q \in Requests \ {r} : req'[q] = req[q]
    <3>1. \A q \in Requests \ {r} : req'[q].pc \in Pushing => req'[q].at < clock
      BY <2>2 DEF PushesApart
    <3>2. \A d \in Dialogs : \A m \in ToSet(lastMessages'[d]) : m.at \in Nat /\ m.at < clock
      BY <1>2, <2>2 DEF cacheVars
    <3> QED BY <1>1, <2>2, <3>1, <3>2
  <2> QED BY <1>1, <1>6, <2>1, <2>2, PushingFrom
<1>7. ASSUME NEW d \in Dialogs PROVE Repeats(lastMessages'[d])
  <2>1. CASE UNCHANGED lastMessages
    BY <2>1 DEF PushesApart
  <2>2. ASSUME NEW c \in Dialogs, ExpireLastMessages(c) PROVE Repeats(lastMessages'[d])
    <3>1. lastMessages'[d] = IF d = c THEN <<>> ELSE lastMessages[d]
      BY <1>1, <2>2 DEF ExpireLastMessages
    <3>2. Repeats(<<>>)
      BY DEF Repeats
    <3> QED BY <3>1, <3>2 DEF PushesApart
  <2>3. ASSUME NEW q \in Requests, PushLast(q) PROVE Repeats(lastMessages'[d])
    <3>1. ASSUME NEW n \in Sendings, PushLastMessage(req[q].dialog, MessageOf(q), n)
          PROVE  Repeats(lastMessages'[d])
      <4>1. lastMessages'[d] =
              IF d = req[q].dialog
              THEN FirstOf([i \in 1..n |-> MessageOf(q)] \o lastMessages[d], LastMessagesLimit)
              ELSE lastMessages[d]
        BY <1>1, <3>1 DEF PushLastMessage
      <4>2. MessageOf(q) \notin ToSet(lastMessages[d]) /\ MessageOf(q) \in Message
        BY <1>3, <2>3 DEF PushesApart, Pushing, MessageOf
      <4>3. lastMessages[d] \in Seq(Message) /\ Repeats(lastMessages[d])
        BY <1>1 DEF PushesApart
      <4> QED BY <4>1, <4>2, <4>3, CacheAssumption, PushRepeats
    <3> QED BY <2>1, <2>3, <3>1 DEF PushLast, cacheVars
  <2> QED BY <2>1, <2>2, <2>3, ListsFrom
<1> QED BY <1>5, <1>6, <1>7 DEF PushesApart

LEMMA InitPushesApart == Init => PushesApart
<1> SUFFICES ASSUME Init PROVE PushesApart
  OBVIOUS
<1>1. \A d \in Dialogs : lastMessages[d] = <<>>
  BY DEF Init, CacheInit
<1>2. ToSet(<<>>) = {} /\ Repeats(<<>>)
  BY DEF ToSet, Repeats
<1>3. \A r \in Requests : req[r].pc \notin Pushing
  BY DEF Init, RequestsInit, Entered, Pushing
<1> QED BY <1>1, <1>2, <1>3 DEF PushesApart

LEMMA AlwaysPushesApart == Spec => [](Owned /\ PushesApart)
<1>1. Owned /\ PushesApart /\ [Next]_vars => (Owned /\ PushesApart)'
  BY OwnedStep, PushesApartStep DEF Owned
<1> QED BY <1>1, InitOwned, InitPushesApart, PTL DEF Spec

(* RepeatsBySending: a cached list repeats a message only where one        *)
(* pipeline ran twice, however many writers, errors and expiries there are *)
(* and wherever the process dies.                                          *)
THEOREM RepeatsBySending == Spec => []RepeatsOnlyResent
<1>1. Owned /\ PushesApart => RepeatsOnlyResent
  <2> SUFFICES ASSUME Owned, PushesApart, NEW d \in Dialogs
               PROVE  \A i, j \in DOMAIN lastMessages[d] :
                        lastMessages[d][i] = lastMessages[d][j] /\ i # j =>
                          "resend" \in Faults
    BY DEF RepeatsOnlyResent
  <2>1. DOMAIN lastMessages[d] = 1..Len(lastMessages[d])
    BY LenProperties DEF Owned, Typed, CacheTypeOK
  <2> QED BY <2>1 DEF PushesApart, Repeats
<1> QED BY <1>1, AlwaysPushesApart, PTL

(* Who gets a page takes it from its list or from its table. *)
LEMMA TakenFrom ==
  ASSUME Typed, AllOnPath, [Next]_vars, NEW r \in Requests, PageTaken(r)
  PROVE  Takes(r) /\ req[r].op = "listMessages"
<1>1. req'[r].op = "listMessages"
  <2>1. AllOnPath'
    BY AllOnPathStep
  <2> QED BY <2>1 DEF PageTaken, AllOnPath, OnPath, Path, Counting
<1>2. ListStep(r)
  BY <1>1, ListStepsHold
<1> QED BY <1>1, <1>2 DEF PageTaken, ListStep, Enters, Takes, Stays, Misses, Refused, GoesOn, Marking,
                          SameQuery

-----------------------------------------------------------------------------
(* AckedWithinReach: stamps are drawn apart, so a page that leaves out a   *)
(* message the cursor admits is full, and all of it is newer.              *)

LEMMA DistinctStep ==
  ASSUME Stamped, StampSteps, Distinct(messages)
  PROVE  Distinct(messages)'
<1>1. CASE messages' \subseteq messages
  BY <1>1 DEF Distinct
<1>2. ASSUME NEW r \in Requests, req[r].pc = "insert", messages' = messages \cup {MessageOf(r)}
      PROVE  Distinct(messages)'
  <2>1. \A m \in messages : m.at # MessageOf(r).at
    BY <1>2 DEF Stamped, MessageOf
  <2> QED BY <1>2, <2>1 DEF Distinct
<1> QED BY <1>1, <1>2 DEF StampSteps

(* A message that the newest n leave out is older than the cursor they     *)
(* come with.                                                              *)
LEMMA LeftBehindCursor ==
  ASSUME NEW S \in SUBSET Message, IsFiniteSet(S), Distinct(S), NEW n \in Nat \ {0},
         NEW m \in S, m \notin Newest(S, n)
  PROVE  m.at < NextCursor(Newest(S, n), n)
<1> DEFINE page == Newest(S, n)
           above == {k \in page : k.at > m.at}
<1>1. page \in SUBSET S /\ IsFiniteSet(page) /\ above \in SUBSET page /\ IsFiniteSet(above)
  <2>1. page \in SUBSET S /\ IsFiniteSet(page)
    BY FS_Subset DEF Newest
  <2> HIDE DEF page
  <2> QED BY <2>1, FS_Subset
<1>2. Cardinality(above) >= n /\ Cardinality(page) >= n /\ Cardinality(page) <= n
  BY NewestAbove, NewestBound
<1> HIDE DEF page
<1>3. Cardinality(above) = Cardinality(page) /\ Cardinality(page) = n
  <2>1. Cardinality(above) \in Nat /\ Cardinality(page) \in Nat
    BY <1>1, FS_CardinalityType
  <2>2. Cardinality(above) <= Cardinality(page)
    BY <1>1, FS_Subset
  <2> QED BY <1>2, <2>1, <2>2
<1>4. above = page
  BY <1>1, <1>3, FS_Subset
<1>5. PICK k \in page : NextCursor(page, n) = k.at
  <2>1. page \in SUBSET Message
    BY <1>1
  <2> QED BY <1>3, <2>1, NextCursorIs
<1>6. m.at \in Nat /\ k.at \in Nat /\ k.at > m.at
  BY <1>1, <1>4, <1>5 DEF Message
<1> QED BY <1>5, <1>6 DEF page

LEMMA ReachHolds ==
  ASSUME Chats, Distinct(messages), [Next]_vars,
         NEW r \in Requests, PageTaken(r), req[r].pc = "query",
         NEW m \in Acked \cup published, m.dialog = req[r].dialog, Live(m.dialog),
         req[r].cursor = Epoch \/ m.at < req[r].cursor
  PROVE  m \in reply'[r].page \/ m.at < reply'[r].next
<1>1. /\ Typed /\ AllOnPath /\ Durable /\ messages \in SUBSET Message /\ IsFiniteSet(messages)
      /\ req[r].limit \in Int
  BY DEF Chats, Durable, Owned, Typed, StoreTyped, StoreTypeOK, RequestsTyped, RequestsTypeOK, Request
<1>2. m \in messages
  BY <1>1 DEF Durable, Stored, Acked, Confirmed
<1>3. FromStore(r)
  BY <1>1, TakenFrom DEF Takes, FromCache
<1>4. PICK S : S = {k \in MessagesOf(req[r].dialog) : req[r].cursor = Epoch \/ k.at < req[r].cursor}
  OBVIOUS
<1>5. PICK size \in Nat \ {0} : size = PageSize(req[r].limit)
  BY <1>1, PageSizeType
<1>6. m \in S /\ S \subseteq messages
  BY <1>2, <1>4 DEF MessagesOf
<1>7. S \in SUBSET Message /\ IsFiniteSet(S) /\ Distinct(S)
  BY <1>1, <1>6, FS_Subset DEF Distinct
<1>8. reply'[r].page = Newest(S, size) /\ reply'[r].next = NextCursor(Newest(S, size), size)
  BY <1>3, <1>4, <1>5 DEF FromStore, ListByDialogDesc
<1> QED BY <1>5, <1>6, <1>7, <1>8, LeftBehindCursor

(* AckedReached: a page from PostgreSQL shows each acknowledged message    *)
(* that its cursor admits, or its own next cursor lies after it: however   *)
(* many requests overlap, whatever fails, expires or dies.                 *)
THEOREM AckedReached == Spec => AckedWithinReach
<1>1. Init => Chats /\ Distinct(messages)
  BY InitChats DEF Init, StoreInit, Distinct
<1>2. Chats /\ Distinct(messages) /\ [Next]_vars => (Chats /\ Distinct(messages))'
  <2>1. Chats => Typed
    BY DEF Chats, Durable, Owned
  <2> QED BY <2>1, ChatsStep, DistinctStep, StampStepsHold DEF Chats
<1>3. Chats /\ Distinct(messages) /\ [Next]_vars =>
        [\A r \in Requests : PageTaken(r) /\ req[r].pc = "query" =>
           \A m \in Acked \cup published :
             /\ m.dialog = req[r].dialog /\ Live(m.dialog)
             /\ req[r].cursor = Epoch \/ m.at < req[r].cursor
             => m \in reply'[r].page \/ m.at < reply'[r].next]_vars
  BY ReachHolds
<1> QED BY <1>1, <1>2, <1>3, PTL DEF Spec, AckedWithinReach

(* A request that is about to touch was so before, or has read the clock. *)
LEMMA TouchFrom ==
  ASSUME Typed, NEW r \in Requests, req'[r].pc = "touch", [Next]_vars
  PROVE  \/ req'[r] = req[r]
         \/ req[r].pc = "mark" /\ req'[r].at = clock /\ clock' = clock + 1 /\ UNCHANGED reads
<1>0. req \in [Requests -> Request]
  BY DEF Typed, RequestsTyped, RequestsTypeOK
<1>1. ASSUME NEW q \in Requests, Receive(q) PROVE req'[r] = req[r]
  <2>1. CASE \E status \in Statuses : Finish(q, status)
    BY <1>0, <2>1 DEF Finish, Request
  <2>2. CASE LetIn(q)
    BY <1>0, <2>2 DEF LetIn, Posts, Lists, Asks
  <2> QED BY <1>1, <2>1, <2>2, ReceiveOutcome
<1>2. ASSUME Proceed(r)
      PROVE  req[r].pc = "mark" /\ req'[r].at = clock /\ clock' = clock + 1 /\ UNCHANGED reads
  <2>0. req[r] \in Request
    BY <1>0
  <2>1. ASSUME NEW n, Counted(r, n) PROVE FALSE
    BY <1>0, <2>1 DEF Counted, Request
  <2>2. ASSUME NEW page, NEW next, TakePage(r, page, next) PROVE FALSE
    BY <1>0, <2>2 DEF TakePage, Request
  <2>3. ASSUME NEW pc, Goto(r, pc) PROVE pc = "touch"
    BY <1>0, <2>3 DEF Goto, Request
  <2>4. ASSUME \E status : Finish(r, status) PROVE FALSE
    BY <1>0, <2>4 DEF Finish, Request
  <2>5. CASE MarkRead(r)
    BY <1>0, <2>4, <2>5 DEF MarkRead, Request
  <2>6. CASE ReadSince(r)
    BY <1>0, <2>6 DEF ReadSince, Request
  <2> QED BY <1>2, <2>1, <2>2, <2>3, <2>4, <2>5, <2>6
          DEF Proceed, Insert, CountForOthers, PushLast, Broadcast, LookupPage, QueryPage,
              TouchReadMark, ResetUnreadMark, GetUnread, CountSince, GetDialogRow, DeleteRow
<1>3. ASSUME NEW q \in Requests, q # r, Proceed(q) PROVE req'[r] = req[r]
  BY <1>3, ProceedOne
<1>4. CASE Crash
  BY <1>0, <1>4, CrashEnds DEF InFlight, Request
<1> QED BY <1>1, <1>2, <1>3, <1>4 DEF Next, Expire, Quiet, vars, requestVars

-----------------------------------------------------------------------------
(* ReadMarksFollowPages: a mark is either the one a finished upsert wrote, *)
(* or one that was there when each upsert yet to come drew its own.        *)

PageBefore ==
  \A r \in Requests : \A m \in reply[r].page :
    /\ req[r].pc \in Marking => m.at < clock
    /\ req[r].pc = "touch" => m.at < req[r].at

Touches(r, k) == req[r].pc = "touch" /\ <<req[r].dialog, req[r].user>> = k

(* q has upserted the read mark that k has now. *)
Wrote(q, k) ==
  /\ req[q].op = "listMessages" /\ req[q].pc \in {"reset", "done"}
  /\ <<req[q].dialog, req[q].user>> = k /\ req[q].at = reads[k]

MarkKnown(k) ==
  reads[k] # Missing =>
    \/ \E q \in Requests : Wrote(q, k)
    \/ reads[k] < clock /\ \A r \in Requests : Touches(r, k) => reads[k] < req[r].at

SameMark(q) ==
  /\ req'[q].op = req[q].op /\ req'[q].pc \in {"reset", "done"}
  /\ req'[q].dialog = req[q].dialog /\ req'[q].user = req[q].user /\ req'[q].at = req[q].at

(* The three ways in which a read mark changes. *)
ReadStep(k) ==
  \/ reads'[k] \in {reads[k], Missing}
  \/ reads'[k] = clock /\ clock' = clock + 1 /\ k[1] \notin minted
  \/ \E r \in Requests :
       /\ Touches(r, k) /\ reads'[k] = req[r].at
       /\ SameMark(r) /\ clock' = clock

LEMMA ReadSteps ==
  ASSUME Typed, [Next]_vars, NEW k \in Member
  PROVE  ReadStep(k)
<1>0. /\ reads \in [Member -> Nat \cup {Missing}] /\ req \in [Requests -> Request]
      /\ \A r \in Requests : req[r] \in Request
  BY DEF Typed, StoreTyped, StoreTypeOK, RequestsTyped, RequestsTypeOK
<1>1. ASSUME NEW r \in Requests, Receive(r) PROVE ReadStep(k)
  <2>1. CASE UNCHANGED reads
    BY <2>1 DEF ReadStep
  <2>2. ASSUME NEW u \in Users, NEW ids \in Invitations, NEW named \in BOOLEAN,
               CreateDialog(r, u, ids, named)
        PROVE  ReadStep(k)
    <3>1. ASSUME NEW d \in Dialogs \ minted, NEW row, NEW members, CreateDialogTx(d, row, members)
          PROVE  ReadStep(k)
      <4>1. reads'[k] = IF k \in {d} \X members THEN clock ELSE reads[k]
        BY <3>1 DEF CreateDialogTx
      <4>2. clock' = clock + 1
        BY <3>1 DEF CreateDialogTx
      <4> QED BY <3>1, <4>1, <4>2 DEF ReadStep
    <3> QED BY <2>1, <2>2, <3>1 DEF CreateDialog, storeVars
  <2> QED BY <1>1, <2>1, <2>2 DEF Receive, PostMessage, ListMessages, UnreadCount, GetDialog,
                                  DeleteDialog, ListDialogs, storeVars
<1>2. ASSUME NEW r \in Requests, TouchReadMark(r) PROVE ReadStep(k)
  <2>1. CASE UNCHANGED storeVars
    BY <2>1 DEF ReadStep, storeVars
  <2>2. CASE TouchRead(req[r].dialog, req[r].user, req[r].at)
    <3>1. SameMark(r) /\ req[r].pc = "touch"
      BY <1>0, <1>2 DEF TouchReadMark, Goto, Finish, SameMark, Request
    <3>2. /\ reads'[k] = IF k = <<req[r].dialog, req[r].user>> THEN req[r].at ELSE reads[k]
          /\ clock' = clock
      BY <1>0, <2>2 DEF TouchRead
    <3> QED BY <3>1, <3>2 DEF ReadStep, Touches
  <2> QED BY <1>2, <2>1, <2>2 DEF TouchReadMark
<1>3. ASSUME NEW r \in Requests, DeleteRow(r) PROVE ReadStep(k)
  <2>1. CASE UNCHANGED storeVars
    BY <2>1 DEF ReadStep, storeVars
  <2>2. CASE DeleteDialogRow(req[r].dialog)
    BY <2>2 DEF DeleteDialogRow, ReadStep
  <2> QED BY <1>3, <2>1, <2>2 DEF DeleteRow
<1>4. ASSUME NEW r \in Requests, Proceed(r), ~TouchReadMark(r), ~DeleteRow(r) PROVE UNCHANGED reads
  BY <1>4 DEF Proceed, Insert, InsertMessage, CountForOthers, PushLast, Broadcast, LookupPage,
              QueryPage, MarkRead, ResetUnreadMark, GetUnread, ReadSince, CountSince,
              GetDialogRow, storeVars
<1>5. CASE UNCHANGED reads
  BY <1>5 DEF ReadStep
<1> QED BY <1>1, <1>2, <1>3, <1>4, <1>5 DEF Next, Expire, Crash, Quiet, vars, storeVars

(* What wrote a mark keeps its parameters to the end. *)
LEMMA MarkSettled ==
  ASSUME Typed, AllOnPath, [Next]_vars, NEW q \in Requests,
         req[q].op = "listMessages", req[q].pc \in {"reset", "done"}
  PROVE  SameMark(q)
<1>0. req \in [Requests -> Request] /\ req[q] \in Request
  BY DEF Typed, RequestsTyped, RequestsTypeOK
<1>1. CASE req'[q] = req[q]
  BY <1>1 DEF SameMark
<1>2. ASSUME NEW r \in Requests, Receive(r) PROVE req'[q] = req[q]
  <2>1. r # q
    BY <1>2, ReceiveOne
  <2> QED BY <1>2, <2>1, ReceiveOne
<1>3. CASE Proceed(q)
  <2>1. req[q].pc = "reset"
    BY <1>3, ProceedOne DEF InFlight
  <2>2. ResetUnreadMark(q)
    BY <1>3, <2>1 DEF Proceed, Insert, CountForOthers, PushLast, Broadcast, LookupPage, QueryPage,
         MarkRead, TouchReadMark, GetUnread, ReadSince, CountSince, GetDialogRow, DeleteRow
  <2> QED BY <1>0, <2>2 DEF ResetUnreadMark, Finish, Request, SameMark
<1>4. ASSUME NEW r \in Requests \ {q}, Proceed(r) PROVE req'[q] = req[q]
  BY <1>4, ProceedOne
<1>5. CASE Crash
  BY <1>0, <1>5, CrashEnds DEF Request, SameMark
<1> QED BY <1>1, <1>2, <1>3, <1>4, <1>5 DEF Next, Expire, Quiet, vars, requestVars

LEMMA PageBeforeStep ==
  ASSUME Typed, AllOnPath, Stamped, PushesApart, PageBefore, [Next]_vars
  PROVE  PageBefore'
<1>1. /\ Typed' /\ AllOnPath' /\ clock \in Nat /\ clock' \in Nat /\ clock' >= clock
      /\ \A r \in Requests : reply[r].page \subseteq Message /\ req[r].at \in Nat
      /\ \A r \in Requests : reply'[r].page \subseteq Message /\ req'[r].at \in Nat
  <2>1. Typed' /\ AllOnPath' /\ StampSteps
    BY TypedStep, AllOnPathStep, StampStepsHold
  <2> QED BY <2>1 DEF Typed, StoreTyped, StoreTypeOK, RequestsTyped, RequestsTypeOK, Request, Reply,
                      StampSteps
<1>2. \A m \in Message : m.at \in Nat
  BY DEF Message
<1>3. ASSUME NEW r \in Requests, req'[r].pc \in Marking
      PROVE  \/ Takes(r)
             \/ SamePage(r) /\ req[r].pc \in Marking
  <2>1. req'[r].op = "listMessages"
    BY <1>1, <1>3 DEF AllOnPath, OnPath, Path, Counting, Marking
  <2>2. ListStep(r)
    BY <2>1, ListStepsHold
  <2> QED BY <1>3, <2>2 DEF ListStep, Enters, Lists, Stays, Misses, Refused, GoesOn, Marking
<1>4. ASSUME NEW r \in Requests, Takes(r), NEW m \in reply'[r].page
      PROVE  m.at < clock
  <2>1. CASE FromCache(r)
    <3>1. m \in ToSet(lastMessages[req[r].dialog]) /\ req[r].dialog \in Dialogs
      BY <1>4, <2>1, HitFrom DEF FromCache
    <3> QED BY <3>1 DEF PushesApart
  <2>2. CASE FromStore(r)
    <3>1. m \in messages
      BY <1>4, <2>2 DEF FromStore, ListByDialogDesc, Newest, MessagesOf
    <3> QED BY <3>1 DEF Stamped
  <2> QED BY <1>4, <2>1, <2>2 DEF Takes
<1>5. ASSUME NEW r \in Requests, req'[r].pc \in Marking, NEW m \in reply'[r].page
      PROVE  m.at \in Nat /\ m.at < clock
  <2>1. CASE Takes(r)
    BY <1>1, <1>2, <1>4, <1>5, <2>1
  <2>2. CASE SamePage(r) /\ req[r].pc \in Marking
    BY <1>1, <1>2, <1>5, <2>2 DEF SamePage, PageBefore
  <2> QED BY <1>3, <1>5, <2>1, <2>2
<1>6. ASSUME NEW r \in Requests, req'[r].pc = "touch", NEW m \in reply'[r].page
      PROVE  m.at < req'[r].at
  <2>1. CASE req'[r] = req[r]
    <3>1. ~Takes(r)
      BY <1>6 DEF Takes
    <3>2. SamePage(r)
      BY <1>3, <1>6, <3>1 DEF Marking
    <3> QED BY <1>6, <2>1, <3>2 DEF SamePage, PageBefore
  <2>2. CASE req'[r].at = clock
    BY <1>5, <1>6, <2>2 DEF Marking
  <2> QED BY <1>6, <2>1, <2>2, TouchFrom
<1>7. ASSUME NEW r \in Requests, NEW m \in reply'[r].page, req'[r].pc \in Marking
      PROVE  m.at < clock'
  BY <1>1, <1>5, <1>7
<1> QED BY <1>6, <1>7 DEF PageBefore

LEMMA MarkKnownStep ==
  ASSUME Owned, \A k \in Member : MarkKnown(k), [Next]_vars, NEW k \in Member
  PROVE  MarkKnown(k)'
<1>1. /\ Typed /\ AllOnPath /\ AllOnPath' /\ clock \in Nat /\ clock' \in Nat /\ clock' >= clock
      /\ reads[k] \in Nat \cup {Missing} /\ Missing \notin Nat
      /\ \A r \in Requests : req[r].at \in Nat
  <2>1. Typed /\ AllOnPath
    BY DEF Owned
  <2>2. Typed' /\ AllOnPath' /\ StampSteps
    BY <2>1, TypedStep, AllOnPathStep, StampStepsHold
  <2> QED BY <2>1, <2>2, MissingAssumption
          DEF Typed, StoreTyped, StoreTypeOK, RequestsTyped, RequestsTypeOK, Request, StampSteps
<1>2. CASE reads'[k] = Missing
  BY <1>2 DEF MarkKnown
<1>3. CASE reads'[k] = reads[k] /\ reads[k] # Missing
  <2>1. ASSUME NEW q \in Requests, Wrote(q, k) PROVE Wrote(q, k)'
    BY <1>1, <1>3, <2>1, MarkSettled DEF Wrote, SameMark
  <2>2. ASSUME reads[k] < clock, \A r \in Requests : Touches(r, k) => reads[k] < req[r].at,
               NEW r \in Requests, Touches(r, k)'
        PROVE  reads[k] < req'[r].at
    BY <1>1, <2>2, TouchFrom DEF Touches
  <2>3. reads[k] < clock => reads[k] < clock'
    BY <1>1, <1>3
  <2> QED BY <1>3, <2>1, <2>2, <2>3 DEF MarkKnown
<1>4. CASE reads'[k] = clock /\ clock' = clock + 1 /\ k[1] \notin minted /\ reads'[k] # reads[k]
  <2>1. ASSUME NEW r \in Requests, Touches(r, k)' PROVE FALSE
    <3>1. req'[r] = req[r]
      BY <1>1, <1>4, <2>1, TouchFrom DEF Touches
    <3>2. req[r].dialog = k[1]
      <4>1. <<req[r].dialog, req[r].user>>[1] = req[r].dialog
        OBVIOUS
      <4> QED BY <2>1, <3>1, <4>1 DEF Touches
    <3>3. k[1] # Missing
      BY MissingAssumption DEF Member
    <3> QED BY <1>4, <3>2, <3>3 DEF Owned, AllKnown, Known, Targets
  <2> QED BY <1>1, <1>4, <2>1 DEF MarkKnown
<1>5. ASSUME NEW r \in Requests, Touches(r, k), reads'[k] = req[r].at, SameMark(r)
      PROVE  MarkKnown(k)'
  <2>1. req[r].op = "listMessages"
    BY <1>1, <1>5 DEF Touches, AllOnPath, OnPath, Path, Counting
  <2>2. Wrote(r, k)'
    BY <1>5, <2>1 DEF Wrote, SameMark, Touches
  <2> QED BY <2>2 DEF MarkKnown
<1> QED BY <1>1, <1>2, <1>3, <1>4, <1>5, ReadSteps DEF ReadStep

Marks ==
  /\ Chats /\ PushesApart /\ PageBefore
  /\ \A k \in Member : MarkKnown(k)

LEMMA InitMarks == Init => Marks
<1> SUFFICES ASSUME Init PROVE Marks
  OBVIOUS
<1>1. Chats /\ PushesApart
  BY InitChats, InitPushesApart
<1>2. PageBefore
  BY DEF Init, RequestsInit, PageBefore
<1>3. ASSUME NEW k \in Member PROVE MarkKnown(k)
  BY DEF Init, StoreInit, RequestsInit, Entered, MarkKnown, Touches
<1> QED BY <1>1, <1>2, <1>3 DEF Marks

LEMMA MarksStep ==
  ASSUME Marks, [Next]_vars
  PROVE  Marks'
<1>1. Typed /\ AllOnPath /\ Stamped /\ Owned
  BY DEF Marks, Chats, Durable, Owned
<1>2. Chats' /\ PushesApart' /\ PageBefore'
  BY <1>1, ChatsStep, PushesApartStep, PageBeforeStep DEF Marks
<1>3. \A k \in Member : MarkKnown(k)'
  BY <1>1, MarkKnownStep DEF Marks
<1>4. (\A k \in Member : MarkKnown(k))'
  BY <1>3 DEF Member
<1> QED BY <1>2, <1>4 DEF Marks

LEMMA MarkMoves ==
  ASSUME Marks, [Next]_vars, NEW k \in Member,
         reads[k] # Missing, reads'[k] \notin {reads[k], Missing}
  PROVE  \E r \in Requests :
           /\ req[r].pc = "touch" /\ req'[r].pc # "touch"
           /\ <<req[r].dialog, req[r].user>> = k
           /\ \A m \in reply[r].page : m.at < reads'[k]
           /\ reads'[k] > reads[k] \/ \E q \in Requests : Overtaken(r, q, k)
<1>1. /\ Typed /\ AllOnPath /\ Owned /\ reads[k] \in Nat
      /\ \A r \in Requests : req[r].at \in Nat
  BY DEF Marks, Chats, Durable, Owned, Typed, StoreTyped, StoreTypeOK, RequestsTyped, RequestsTypeOK,
         Request
<1>2. k[1] \in minted
  BY <1>1 DEF Owned, MembersOnly, LiveMinted, Member
<1>3. PICK r \in Requests : Touches(r, k) /\ reads'[k] = req[r].at /\ SameMark(r)
  BY <1>1, <1>2, ReadSteps DEF ReadStep
<1>4. \A m \in reply[r].page : m.at < req[r].at
  BY <1>3 DEF Marks, PageBefore, Touches
<1>5. req[r].at > reads[k] \/ \E q \in Requests : Overtaken(r, q, k)
  <2>1. ASSUME NEW q \in Requests, Wrote(q, k), ~(req[r].at > reads[k]) PROVE Overtaken(r, q, k)
    <3>1. req[r].at < req[q].at
      BY <1>1, <1>3, <2>1 DEF Wrote
    <3> QED BY <2>1, <3>1 DEF Wrote, Overtaken
  <2>2. CASE \A p \in Requests : Touches(p, k) => reads[k] < req[p].at
    BY <1>1, <1>3, <2>2
  <2> QED BY <2>1, <2>2 DEF Marks, MarkKnown
<1>6. req[r].pc = "touch" /\ req'[r].pc # "touch" /\ <<req[r].dialog, req[r].user>> = k
  BY <1>3 DEF Touches, SameMark
<1> QED BY <1>3, <1>4, <1>5, <1>6

(* MarksFollow: a read mark changes only to a time after the whole page    *)
(* that its user was served, and moves back only if another request of     *)
(* that user, overlapping, had written the later one.                      *)
THEOREM MarksFollow == Spec => ReadMarksFollowPages
<1>1. Init => Marks
  BY InitMarks
<1>2. Marks /\ [Next]_vars => Marks'
  BY MarksStep
<1>3. Marks /\ [Next]_vars =>
        [\A k \in Member :
           reads[k] # Missing /\ reads'[k] \notin {reads[k], Missing} =>
             \E r \in Requests :
               /\ req[r].pc = "touch" /\ req'[r].pc # "touch"
               /\ <<req[r].dialog, req[r].user>> = k
               /\ \A m \in reply[r].page : m.at < reads'[k]
               /\ reads'[k] > reads[k] \/ \E q \in Requests : Overtaken(r, q, k)]_vars
  BY MarkMoves
<1> QED BY <1>1, <1>2, <1>3, PTL DEF Spec, ReadMarksFollowPages

=============================================================================
