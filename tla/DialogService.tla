---------------------------- MODULE DialogService ----------------------------
(***************************************************************************)
(* The dialog handlers and the read mark: internal/services/               *)
(* dialog_service.go with internal/handlers/dialogs.go, and the MarkRead   *)
(* that internal/handlers/messages.go calls after it has listed a page.    *)
(***************************************************************************)
EXTENDS MessageService

CONSTANTS
  Strangers,         \* well-formed ids that belong to no account
  NilId,             \* uuid.Nil
  MaxParticipants    \* largest dialog Create accepts (50)

ASSUME DialogAssumption ==
  /\ MaxParticipants \in Nat
  /\ Strangers \cap Users = {} /\ NilId \notin Users \cup Strangers
  /\ \A d \in DOMAIN Opened :
       LET size == Cardinality(Opened[d].members)
       IN  size \in 2..MaxParticipants /\ (Opened[d].row.type = "direct" => size = 2)

(* The creator is added, duplicates and the nil id are dropped. *)
Members(u, ids) == (ids \cup {u}) \ {NilId}

(* Mutant of AcceptedSize: a dialog with oneself is accepted. *)
AcceptedNonEmpty(members) == Cardinality(members) \in 1..MaxParticipants

AcceptedSize(members) == Cardinality(members) \in 2..MaxParticipants

DialogTypeOf(members, named) ==
  IF Cardinality(members) = 2 /\ ~named THEN "direct" ELSE "group"

(* Create: an id that no user has fails the foreign key and rolls the      *)
(* transaction back; a commit whose answer is lost may have happened.      *)
CreateDialog(r, u, ids, named) ==
  LET members == Members(u, ids)
      row == [type |-> DialogTypeOf(members, named), createdBy |-> u]
  IN  /\ CanStart(r, "createDialog")
      /\ \/ /\ ~AcceptedSize(members)
            /\ Finish(r, "validation")
            /\ UNCHANGED storeVars
         \/ /\ AcceptedSize(members)
            /\ \/ /\ members \subseteq Users
                  /\ \E d \in Dialogs \ minted : CreateDialogTx(d, row, members)
                  /\ \E status \in {"created"} \cup (IF StoreFails THEN {"internal"} ELSE {}) :
                       Finish(r, status)
               \/ /\ StoreFails \/ ~(members \subseteq Users)
                  /\ Finish(r, "internal")
                  /\ UNCHANGED storeVars
      /\ UNCHANGED <<cacheVars, published>>

(* ListMyDialogs: the caller's dialogs, then the counter of each of them. *)
ListDialogs(r, u) ==
  LET mine == DialogsOf(u)
  IN  /\ CanStart(r, "listDialogs")
      /\ \/ \E d \in mine :
              /\ req' = [req EXCEPT ![r] =
                   [Entered("listDialogs", u, d, "unread") EXCEPT !.todo = mine \ {d}]]
              /\ UNCHANGED reply
         \/ mine = {} /\ Finish(r, "ok")
         \/ StoreFails /\ Finish(r, "internal")
      /\ UNCHANGED <<storeVars, cacheVars, published>>

GetDialog(r, u, d) ==
  /\ CanStart(r, "getDialog")
  /\ EnterAsParticipant(r, Entered("getDialog", u, d, "detail"))
  /\ UNCHANGED <<storeVars, cacheVars, published>>

(* The dialog may have been deleted since the caller was found in it. *)
GetDialogRow(r) ==
  /\ req[r].pc = "detail"
  /\ \/ Live(req[r].dialog) /\ Goto(r, "unread")
     \/ ~Live(req[r].dialog) /\ Finish(r, "notFound")
     \/ StoreFails /\ Finish(r, "internal")
  /\ UNCHANGED <<storeVars, cacheVars, published>>

-----------------------------------------------------------------------------

(* Mutant of DeleteDialog: any participant may delete. *)
DeleteByParticipant(r, u, d) ==
  /\ CanStart(r, "deleteDialog")
  /\ EnterAsParticipant(r, Entered("deleteDialog", u, d, "delete"))
  /\ UNCHANGED <<storeVars, cacheVars, published>>

(* Delete reads the dialog and compares its creator with the caller. *)
DeleteDialog(r, u, d) ==
  /\ CanStart(r, "deleteDialog")
  /\ \/ /\ Live(d) /\ dialogs[d].createdBy = u
        /\ req' = [req EXCEPT ![r] = Entered("deleteDialog", u, d, "delete")]
        /\ UNCHANGED reply
     \/ Live(d) /\ dialogs[d].createdBy # u /\ Finish(r, "forbidden")
     \/ ~Live(d) /\ Finish(r, "notFound")
     \/ StoreFails /\ Finish(r, "internal")
  /\ UNCHANGED <<storeVars, cacheVars, published>>

(* Mutant of DeleteRow: RowsAffected is ignored. *)
DeleteRowUnchecked(r) ==
  LET d == req[r].dialog
  IN  /\ req[r].pc = "delete"
      /\ DeleteDialogRow(d) \/ (~Live(d) /\ UNCHANGED storeVars)
      /\ Finish(r, "deleted")
      /\ UNCHANGED <<cacheVars, published>>

(* The DELETE itself: no row affected means somebody else was faster. *)
DeleteRow(r) ==
  LET d == req[r].dialog
  IN  /\ req[r].pc = "delete"
      /\ \/ DeleteDialogRow(d) /\ Finish(r, "deleted")
         \/ ~Live(d) /\ Finish(r, "notFound") /\ UNCHANGED storeVars
         \/ StoreFails /\ Finish(r, "internal") /\ (DeleteDialogRow(d) \/ UNCHANGED storeVars)
      /\ UNCHANGED <<cacheVars, published>>

-----------------------------------------------------------------------------

(* MarkRead checks the caller again and reads the wall clock.  The handler *)
(* drops its error: the page it has read is answered either way.           *)
MarkRead(r) ==
  LET d == req[r].dialog
      u == req[r].user
  IN  /\ req[r].pc = "mark"
      /\ \/ /\ IsParticipant(d, u)
            /\ req' = [req EXCEPT ![r].at = clock, ![r].pc = "touch"]
            /\ clock' = clock + 1
            /\ UNCHANGED reply
         \/ EnsureErrors(d, u) # {} /\ Finish(r, "ok") /\ UNCHANGED clock
      /\ UNCHANGED <<dialogs, participants, reads, messages, minted, cacheVars, published>>

TouchReadMark(r) ==
  LET d == req[r].dialog
      touch == TouchRead(d, req[r].user, req[r].at)
  IN  /\ req[r].pc = "touch"
      /\ \/ touch /\ Goto(r, "reset")
         \/ ~Live(d) /\ Finish(r, "ok") /\ UNCHANGED storeVars
         \/ StoreFails /\ Finish(r, "ok") /\ (touch \/ UNCHANGED storeVars)
      /\ UNCHANGED <<cacheVars, published>>

ResetUnreadMark(r) ==
  /\ req[r].pc = "reset"
  /\ \/ ResetUnread(req[r].user, req[r].dialog)
     \/ RedisFails /\ UNCHANGED cacheVars
  /\ Finish(r, "ok")
  /\ UNCHANGED <<storeVars, published>>

=============================================================================
