---------------------------- MODULE MessagingApi ----------------------------
(***************************************************************************)
(* The server of cmd/api: the dialog and message handlers over PostgreSQL  *)
(* and Redis, with what can go wrong around them.                          *)
(***************************************************************************)
EXTENDS DialogService

CONSTANTS
  Lengths,       \* content lengths clients send, after TrimSpace
  Limits,        \* values of ?limit=, 0 when it is absent or not a number
  Invitations    \* participant_ids of a createDialog request

ASSUME InputAssumption ==
  /\ Lengths \subseteq Nat
  /\ Limits \subseteq Int
  /\ Invitations \subseteq SUBSET (Users \cup Strangers \cup {NilId})

TypeOK == StoreTypeOK /\ CacheTypeOK /\ RequestsTypeOK

Init == StoreInit /\ CacheInit /\ RequestsInit

(* A request reaches the route it addresses, its token checked. *)
Receive(r) ==
  \E u \in Users :
    \/ \E d \in Dialogs :
         \/ \E length \in Lengths : PostMessage(r, u, d, length)
         \/ \E limit \in Limits, cursor \in CursorsHeld : ListMessages(r, u, d, limit, cursor)
         \/ UnreadCount(r, u, d)
         \/ GetDialog(r, u, d)
         \/ DeleteDialog(r, u, d)
    \/ \E ids \in Invitations, named \in BOOLEAN : CreateDialog(r, u, ids, named)
    \/ ListDialogs(r, u)

(* The handler of r goes on after its last call returned. *)
Proceed(r) ==
  \/ Insert(r) \/ CountForOthers(r) \/ PushLast(r) \/ Broadcast(r)
  \/ LookupPage(r) \/ QueryPage(r)
  \/ MarkRead(r) \/ TouchReadMark(r) \/ ResetUnreadMark(r)
  \/ GetUnread(r) \/ ReadSince(r) \/ CountSince(r)
  \/ GetDialogRow(r) \/ DeleteRow(r)

Expire ==
  /\ "expiry" \in Faults
  /\ \/ \E d \in Dialogs : ExpireLastMessages(d)
     \/ \E k \in Member : ExpireUnread(k)
  /\ UNCHANGED <<storeVars, requestVars>>

(* Every request has been answered. *)
Quiet ==
  /\ \A r \in Requests : req[r].pc = "done"
  /\ UNCHANGED vars

Next ==
  \/ \E r \in Requests : Receive(r) \/ Proceed(r)
  \/ Expire
  \/ Crash
  \/ Quiet

Spec == Init /\ [][Next]_vars

(* The Go scheduler runs every goroutine, and each call to PostgreSQL and  *)
(* to Redis returns an answer or an error.  Nothing obliges clients to send. *)
Fairness == \A r \in Requests : WF_vars(Proceed(r))

LiveSpec == Spec /\ Fairness

-----------------------------------------------------------------------------

(* MembersOnly: every stored message was sent by, and every read mark      *)
(* belongs to, a participant of a dialog that still exists.  The caller is *)
(* checked in one statement and the row is written by a later one, so a    *)
(* dialog deleted in between must not leave orphans behind.                *)
MembersOnly ==
  /\ \A m \in messages : Live(m.dialog) /\ IsParticipant(m.dialog, m.sender)
  /\ \A k \in Member : reads[k] # Missing => Live(k[1]) /\ k \in participants
  /\ \A k \in participants : Live(k[1])

(* PagesStayInside: a page shows messages of the dialog that was asked for *)
(* to a participant of it, whichever dialog the cursor came from and       *)
(* whether Redis or PostgreSQL served it.                                  *)
PagesStayInside ==
  \A r \in Requests : \A m \in reply[r].page :
    /\ m.dialog = req[r].dialog
    /\ Live(m.dialog) => IsParticipant(m.dialog, req[r].user)

(* CacheOnlyStored: the cached list of a live dialog holds no message that *)
(* PostgreSQL does not have, although inserting and pushing are two steps  *)
(* that may fail, be resent or die on their own.                           *)
CacheOnlyStored ==
  \A d \in Dialogs : Live(d) => ToSet(lastMessages[d]) \subseteq MessagesOf(d)

(* A message somebody was told of: by a 201 answer, or by the broadcast. *)
Acked ==
  {MessageOf(r) : r \in {q \in Requests : req[q].op = "postMessage" /\ reply[q].status = "created"}}

(* AckedIsDurable: a message that was acknowledged or broadcast is stored, *)
(* as long as its dialog has not been deleted.                             *)
AckedIsDurable ==
  \A m \in Acked \cup published : Live(m.dialog) => m \in messages

(* UnreadNotInflated: no counter, cached or answered, exceeds the number   *)
(* of messages the others have written to the dialog, however INCR, SET 0, *)
(* expiry and the fallback to the COUNT query interleave, if no INCR is    *)
(* sent twice.                                                             *)
UnreadNotInflated ==
  LET foreign(d, u) == Cardinality({m \in MessagesOf(d) : m.sender # u})
  IN  /\ \A k \in Member :
           Live(k[1]) /\ unread[k] # Missing => unread[k] <= foreign(k[1], k[2])
      /\ \A r \in Requests, d \in Dialogs :
           Live(d) /\ reply[r].counts[d] > 0 => reply[r].counts[d] <= foreign(d, req[r].user)

(* DialogsWhole: a dialog appears with its creator, its other participants *)
(* and their read marks at once, or not at all, and a direct one has two.  *)
DialogsWhole ==
  \A d \in Dialogs : Live(d) =>
    /\ IsParticipant(d, dialogs[d].createdBy)
    /\ Cardinality(GetParticipants(d)) \in 2..MaxParticipants
    /\ dialogs[d].type = "direct" => Cardinality(GetParticipants(d)) = 2
    /\ \A u \in GetParticipants(d) : reads[<<d, u>>] # Missing

(* DeletedOnce: of several requests to delete one dialog at most one is    *)
(* answered "deleted", and that dialog is gone.                            *)
DeletedOnce ==
  \A r, q \in Requests :
    reply[r].status = "deleted" /\ reply[q].status = "deleted" =>
      /\ ~Live(req[r].dialog)
      /\ req[r].dialog = req[q].dialog => r = q

(* OnlyCreatorDeletes: a dialog disappears only by a request of the user   *)
(* who created it, although its creator is read in an earlier step.        *)
OnlyCreatorDeletes ==
  [][\A d \in Dialogs : Live(d) /\ ~Live(d)' =>
       \E r \in Requests :
         /\ req[r].op = "deleteDialog" /\ req[r].dialog = d
         /\ req[r].user = dialogs[d].createdBy
         /\ req[r].pc = "delete" /\ req'[r].pc = "done"]_vars

(* Log: the API implements ChatLog.  A dialog is free until its id has     *)
(* been handed out, and open while its row exists.                         *)
Log == INSTANCE ChatLog WITH
  state <- [d \in Dialogs |-> IF Live(d) THEN "open" ELSE IF d \in minted THEN "closed" ELSE "free"],
  members <- [d \in Dialogs |-> GetParticipants(d)],
  log <- messages,
  announced <- published

(* ImplementsChatLog: dialogs open, grow, announce and close as ChatLog    *)
(* promises, under every interleaving and fault.                           *)
ImplementsChatLog == Log!LogSpec

(* EveryRequestAnswered: a handler that has started answers or dies with   *)
(* the process: no step waits for another request, and the loop over the   *)
(* dialogs of listDialogs ends.                                            *)
EveryRequestAnswered ==
  \A r \in Requests : req[r].pc # "new" ~> req[r].pc = "done"

(* r gets its page in this step, and holds it in the next state. *)
PageTaken(r) == req[r].pc \in {"lookup", "query"} /\ req'[r].pc = "mark"

(* AckedWithinReach: when PostgreSQL serves a page, a message that was     *)
(* acknowledged or broadcast, and that the cursor does not exclude, is on  *)
(* it, or lies behind the cursor the page comes with: a client that        *)
(* follows the cursors gets to it, whatever was sent, slow or refused      *)
(* meanwhile, and whatever Redis has lost.                                 *)
AckedWithinReach ==
  [][\A r \in Requests : PageTaken(r) /\ req[r].pc = "query" =>
       \A m \in Acked \cup published :
         /\ m.dialog = req[r].dialog /\ Live(m.dialog)
         /\ req[r].cursor = Epoch \/ m.at < req[r].cursor
         => m \in reply'[r].page \/ m.at < reply'[r].next]_vars

(* r has been marking the messages of k as read since before the present   *)
(* mark, the time that q had read, was drawn: the two overlap.             *)
Overtaken(r, q, k) ==
  /\ req[q].op = "listMessages" /\ <<req[q].dialog, req[q].user>> = k
  /\ reads[k] = req[q].at /\ req[r].at < req[q].at

(* ReadMarksFollowPages: the read mark of a user changes only to a time    *)
(* after every message of a page this user was just served, and it moves   *)
(* back only when two of the user's own requests for the dialog overlap.   *)
ReadMarksFollowPages ==
  [][\A k \in Member :
       reads[k] # Missing /\ reads'[k] \notin {reads[k], Missing} =>
         \E r \in Requests :
           /\ req[r].pc = "touch" /\ req'[r].pc # "touch"
           /\ <<req[r].dialog, req[r].user>> = k
           /\ \A m \in reply[r].page : m.at < reads'[k]
           /\ reads'[k] > reads[k] \/ \E q \in Requests : Overtaken(r, q, k)]_vars

-----------------------------------------------------------------------------

(* What follows holds only while requests that would race are kept apart:  *)
(* MaxSending = 1 for the history, MaxInFlight = 1 for the counters, and   *)
(* no Redis key expiring.  The runs that drop a condition show why.        *)

(* Sent and stored, but not yet pushed to the list of its dialog. *)
Unpushed == {MessageOf(r) : r \in {q \in Requests : req[q].pc \in {"count", "push"}}}

(* CacheIsNewest: with one writer at a time the cached list is exactly the *)
(* newest messages in PostgreSQL, newest first, but for the message that   *)
(* is on its way to both.                                                  *)
CacheIsNewest ==
  \A d \in Dialogs : Live(d) =>
    LET list == lastMessages[d]
    IN  /\ ToSet(list) = Newest(MessagesOf(d) \ Unpushed, LastMessagesLimit)
        /\ \A i, j \in DOMAIN list : i < j => list[i].at > list[j].at

(* FirstPageShowsAcked: a message acknowledged with 201 is on every first  *)
(* page read from then on, unless newer ones fill the page; so its sender  *)
(* finds it, whether Redis or PostgreSQL serves the page.                  *)
FirstPageShowsAcked ==
  [][\A r \in Requests : PageTaken(r) /\ req[r].cursor = Epoch =>
       \A m \in Acked : m.dialog = req[r].dialog /\ Live(m.dialog) =>
         LET newer == {k \in reply'[r].page : k.at > m.at}
         IN  m \in reply'[r].page \/ Cardinality(newer) >= PageSize(req[r].limit)]_vars

(* NoCursorMeansEnd: a page that comes without a cursor is the last one:   *)
(* nothing older than it is stored.                                        *)
NoCursorMeansEnd ==
  [][\A r \in Requests :
       PageTaken(r) /\ reply'[r].next = Epoch /\ Live(req[r].dialog) =>
         \A m \in MessagesOf(req[r].dialog) :
           req[r].cursor = Epoch \/ m.at < req[r].cursor =>
             \E k \in reply'[r].page : k.at <= m.at]_vars

(* CursorPagesStable: a page read with a cursor stays the right answer: no *)
(* message turns up behind a cursor, so a client that follows the cursors  *)
(* to the end has seen everything that was stored when it began.           *)
CursorPagesStable ==
  \A r \in Requests :
    req[r].op = "listMessages" /\ req[r].pc \in {"mark", "touch", "reset", "done"}
    /\ req[r].cursor \notin {Epoch, Missing} /\ reply[r].status \in {"none", "ok"}
    /\ Live(req[r].dialog)
      => reply[r].page = Newest({m \in MessagesOf(req[r].dialog) : m.at < req[r].cursor},
                                PageSize(req[r].limit))

(* No request is between two steps that belong together. *)
Idle == InFlight = {}

(* UnreadExact: between requests a cached counter is what the COUNT query  *)
(* would answer, so the two ways of counting unread messages agree.        *)
UnreadExact ==
  Idle => \A k \in Member : Live(k[1]) /\ unread[k] # Missing =>
    unread[k] = CountUnreadSince(k[1], k[2], GetLastReadAt(k[1], k[2]))

=============================================================================
