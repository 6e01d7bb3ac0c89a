--------------------------- MODULE MessageService ---------------------------
(***************************************************************************)
(* POST /messages, GET /dialogs/:id/messages up to the read mark, and      *)
(* GET /dialogs/:id/unread_count: internal/services/message_service.go     *)
(* with the handlers of internal/handlers/messages.go around it.           *)
(***************************************************************************)
EXTENDS Requests

CONSTANT MaxContent   \* longest trimmed content Send accepts, in bytes (4000)

ASSUME ContentAssumption == MaxContent \in Nat \ {0}

(* Send validates the content and the sender; then its INSERT starts, and  *)
(* created_at is the time at which it starts.                              *)
PostMessage(r, u, d, length) ==
  /\ CanStart(r, "postMessage")
  /\ Cardinality(Sending) < MaxSending
  /\ \/ /\ length \in 1..MaxContent
        /\ IsParticipant(d, u)
        /\ req' = [req EXCEPT ![r] = [Entered("postMessage", u, d, "insert") EXCEPT !.at = clock]]
        /\ clock' = clock + 1
        /\ UNCHANGED reply
     \/ /\ \/ length \notin 1..MaxContent /\ Finish(r, "validation")
           \/ /\ length \in 1..MaxContent
              /\ \E status \in EnsureErrors(d, u) : Finish(r, status)
        /\ UNCHANGED clock
  /\ UNCHANGED <<dialogs, participants, reads, messages, minted, cacheVars, published>>

(* Mutant of Insert: the error of msgRepo.Create is dropped. *)
InsertIgnoringErrors(r) ==
  /\ req[r].pc = "insert"
  /\ \/ InsertMessage(MessageOf(r))
     \/ ~Live(req[r].dialog) /\ UNCHANGED storeVars
     \/ StoreFails /\ UNCHANGED storeVars
  /\ Goto(r, "count")
  /\ UNCHANGED <<cacheVars, published>>

(* Mutant of Insert: the handler broadcasts before it looks at the error. *)
InsertAnnouncing(r) ==
  /\ req[r].pc = "insert"
  /\ \/ InsertMessage(MessageOf(r)) /\ Goto(r, "count") /\ UNCHANGED published
     \/ /\ StoreFails
        /\ Finish(r, "internal") /\ UNCHANGED storeVars
        /\ published' = published \cup {MessageOf(r)}
  /\ UNCHANGED cacheVars

(* The INSERT commits, or the foreign key refuses it.  When the connection *)
(* is lost the row may have been stored although Send reports an error.    *)
Insert(r) ==
  /\ req[r].pc = "insert"
  /\ \/ InsertMessage(MessageOf(r)) /\ Goto(r, "count")
     \/ ~Live(req[r].dialog) /\ Finish(r, "internal") /\ UNCHANGED storeVars
     \/ /\ StoreFails
        /\ Finish(r, "internal")
        /\ InsertMessage(MessageOf(r)) \/ UNCHANGED storeVars
  /\ UNCHANGED <<cacheVars, published>>

(* Mutant of UnreadTargets: the sender is counted for too. *)
EveryParticipant(r) == GetParticipants(req[r].dialog)

(* The participants whose counter a message raises. *)
UnreadTargets(r) == GetParticipants(req[r].dialog) \ {req[r].user}

(* GetParticipants and IncrUnreadForUsers: the errors of both are dropped, *)
(* and a pipeline that fails half-way has counted for some of the users.   *)
CountForOthers(r) ==
  /\ req[r].pc = "count"
  /\ \/ \E n \in Sendings : IncrUnreadForUsers(req[r].dialog, UnreadTargets(r), n)
     \/ StoreFails /\ UNCHANGED cacheVars
     \/ RedisFails /\ \E some \in SUBSET UnreadTargets(r) :
                         IncrUnreadForUsers(req[r].dialog, some, 1)
  /\ Goto(r, "push")
  /\ UNCHANGED <<storeVars, published>>

PushLast(r) ==
  /\ req[r].pc = "push"
  /\ \/ \E n \in Sendings : PushLastMessage(req[r].dialog, MessageOf(r), n)
     \/ RedisFails /\ UNCHANGED cacheVars
  /\ Goto(r, "broadcast")
  /\ UNCHANGED <<storeVars, published>>

(* The handler hands the stored message to the hub and answers 201. *)
Broadcast(r) ==
  /\ req[r].pc = "broadcast"
  /\ published' = published \cup {MessageOf(r)}
  /\ Finish(r, "created")
  /\ UNCHANGED <<storeVars, cacheVars>>

-----------------------------------------------------------------------------

(* The cursors a client can send: none, one that does not decode, or one   *)
(* that an earlier page came with.                                         *)
CursorsHeld == {Epoch, Missing} \cup {reply[q].next : q \in Requests}

ListMessages(r, u, d, limit, cursor) ==
  /\ CanStart(r, "listMessages")
  /\ EnterAsParticipant(r,
       [Entered("listMessages", u, d, IF cursor = Epoch THEN "lookup" ELSE "query")
          EXCEPT !.limit = limit, !.cursor = cursor])
  /\ UNCHANGED <<storeVars, cacheVars, published>>

(* The page and the cursor for the next one, "" being Epoch. *)
TakePage(r, page, next) ==
  /\ reply' = [reply EXCEPT ![r].page = page, ![r].next = next]
  /\ req' = [req EXCEPT ![r].pc = "mark"]

(* GetLastMessages: a non-empty list answers the request. *)
LookupPage(r) ==
  LET hit == GetLastMessages(req[r].dialog, req[r].limit)
  IN  /\ req[r].pc = "lookup"
      /\ \/ /\ hit # <<>>
            /\ TakePage(r, ToSet(hit),
                 IF Len(hit) = req[r].limit THEN hit[Len(hit)].at ELSE Epoch)
         \/ /\ hit = <<>> \/ RedisFails
            /\ Goto(r, "query")
      /\ UNCHANGED <<storeVars, cacheVars, published>>

(* Mutant of NextCursor: only a page longer than the limit has a successor. *)
NextCursorBeyond(page, size) ==
  IF Cardinality(page) > size THEN Min({m.at : m \in page}) ELSE Epoch

(* A full page comes with the cursor of its oldest message. *)
NextCursor(page, size) ==
  IF Cardinality(page) = size THEN Min({m.at : m \in page}) ELSE Epoch

(* ListByDialogDesc *)
QueryPage(r) ==
  LET page == ListByDialogDesc(req[r].dialog, req[r].limit, req[r].cursor)
  IN  /\ req[r].pc = "query"
      /\ \/ /\ req[r].cursor # Missing
            /\ TakePage(r, page, NextCursor(page, PageSize(req[r].limit)))
         \/ req[r].cursor = Missing /\ Finish(r, "validation")
         \/ req[r].cursor # Missing /\ StoreFails /\ Finish(r, "internal")
      /\ UNCHANGED <<storeVars, cacheVars, published>>

-----------------------------------------------------------------------------

UnreadCount(r, u, d) ==
  /\ CanStart(r, "unreadCount")
  /\ EnterAsParticipant(r, Entered("unreadCount", u, d, "unread"))
  /\ UNCHANGED <<storeVars, cacheVars, published>>

(* Mutant of Counted: the dialog stays among those left. *)
CountedAgain(r, n) ==
  /\ reply' = [reply EXCEPT ![r].counts[req[r].dialog] = n]
  /\ \/ /\ req[r].todo = {}
        /\ req' = [req EXCEPT ![r].pc = "done"]
     \/ \E d \in req[r].todo :
          req' = [req EXCEPT ![r].dialog = d, ![r].pc = "unread"]

(* One counter is known.  listDialogs goes on with the dialogs it has left. *)
Counted(r, n) ==
  /\ reply' = [reply EXCEPT ![r].counts[req[r].dialog] = n,
                            ![r].status = IF req[r].todo = {} THEN "ok" ELSE @]
  /\ \/ /\ req[r].todo = {}
        /\ req' = [req EXCEPT ![r].pc = "done"]
     \/ \E d \in req[r].todo :
          req' = [req EXCEPT ![r].dialog = d, ![r].todo = @ \ {d}, ![r].pc = "unread"]

(* GetUnread: the counter in Redis is the answer when there is one. *)
GetUnread(r) ==
  LET n == unread[<<req[r].dialog, req[r].user>>]
  IN  /\ req[r].pc = "unread"
      /\ \/ /\ n # Missing
            /\ Counted(r, n)
         \/ /\ n = Missing \/ RedisFails
            /\ Goto(r, "since")
      /\ UNCHANGED <<storeVars, cacheVars, published>>

(* Otherwise the messages after last_read_at are counted.  An error of     *)
(* GetLastReadAt is dropped, and its zero time lies before every message.  *)
ReadSince(r) ==
  /\ req[r].pc = "since"
  /\ \E since \in {GetLastReadAt(req[r].dialog, req[r].user)}
                    \cup (IF StoreFails THEN {Epoch} ELSE {}) :
       req' = [req EXCEPT ![r].at = since, ![r].pc = "countSince"]
  /\ UNCHANGED <<storeVars, cacheVars, reply, published>>

(* An error of the count ends unreadCount; the dialog handlers show 0. *)
CountSince(r) ==
  /\ req[r].pc = "countSince"
  /\ \/ Counted(r, CountUnreadSince(req[r].dialog, req[r].user, req[r].at))
     \/ StoreFails /\ req[r].op = "unreadCount" /\ Finish(r, "internal")
     \/ StoreFails /\ req[r].op # "unreadCount" /\ Counted(r, 0)
  /\ UNCHANGED <<storeVars, cacheVars, published>>

=============================================================================
