-------------------------------- MODULE Store --------------------------------
(***************************************************************************)
(* PostgreSQL as the repositories use it: the tables of migrations/ and    *)
(* the statements of internal/repositories, each one atomic at the moment  *)
(* it commits.  The services decide in which order they are issued.        *)
(***************************************************************************)
EXTENDS Models

CONSTANTS
  Opened,       \* dialogs created before the behaviour starts: id -> row and members
  PageMax,      \* largest page ListByDialogDesc serves (200)
  PageDefault   \* page it serves when asked for less than 1 or more than PageMax (50)

VARIABLES
  dialogs,        \* dialogs: id -> row
  participants,   \* dialog_participants: its primary keys
  reads,          \* dialog_reads: primary key -> last_read_at
  messages,       \* messages: its rows
  minted,         \* the dialog ids already handed out, live or deleted
  clock           \* the next instant a timestamp can name

storeVars == <<dialogs, participants, reads, messages, minted, clock>>

ASSUME StoreAssumption ==
  /\ PageMax \in Nat \ {0} /\ PageDefault \in 1..PageMax
  /\ DOMAIN Opened \subseteq Dialogs
  /\ \A d \in DOMAIN Opened :
       /\ Opened[d] \in [row : Dialog, members : SUBSET Users]
       /\ Opened[d].row.createdBy \in Opened[d].members

(* time.Unix(0, 0) and 'epoch' come before every stamp of the clock. *)
Epoch == 0

StoreTypeOK ==
  /\ dialogs \in [Dialogs -> Dialog \cup {Missing}]
  /\ participants \subseteq Member
  /\ reads \in [Member -> Nat \cup {Missing}]
  /\ messages \subseteq Message
  /\ minted \subseteq Dialogs
  /\ clock \in Nat \ {Epoch}

StoreInit ==
  /\ dialogs = [d \in Dialogs |-> IF d \in DOMAIN Opened THEN Opened[d].row ELSE Missing]
  /\ participants = {k \in Member : k[1] \in DOMAIN Opened /\ k[2] \in Opened[k[1]].members}
  /\ reads = [k \in Member |-> IF k \in participants THEN 1 ELSE Missing]
  /\ messages = {}
  /\ minted = DOMAIN Opened
  /\ clock = 2

Live(d) == dialogs[d] # Missing

IsParticipant(d, u) == <<d, u>> \in participants

GetParticipants(d) == {u \in Users : <<d, u>> \in participants}

DialogsOf(u) == {d \in Dialogs : Live(d) /\ <<d, u>> \in participants}

(* The n newest messages of S: ORDER BY created_at DESC LIMIT n. *)
Newest(S, n) == {m \in S : Cardinality({k \in S : k.at > m.at}) < n}

MessagesOf(d) == {m \in messages : m.dialog = d}

(* The page size a request gets: clamp(limit, 1, 200, 50). *)
PageSize(limit) == IF limit \in 1..PageMax THEN limit ELSE PageDefault

(* Mutant of ListByDialogDesc: the cursor's own message is served again. *)
ListUpToCursor(d, limit, cursor) ==
  Newest({m \in MessagesOf(d) : cursor = Epoch \/ m.at <= cursor}, PageSize(limit))

(* Mutant of ListByDialogDesc: a cursor replaces the condition on dialog_id. *)
ListByCursorOnly(d, limit, cursor) ==
  Newest({m \in messages : IF cursor = Epoch THEN m.dialog = d ELSE m.at < cursor},
         PageSize(limit))

(* The page before a cursor; cursor Epoch is the first page. *)
ListByDialogDesc(d, limit, cursor) ==
  Newest({m \in MessagesOf(d) : cursor = Epoch \/ m.at < cursor}, PageSize(limit))

CountUnreadSince(d, u, since) ==
  Cardinality({m \in MessagesOf(d) : m.at > since /\ m.sender # u})

(* Mutant of GetLastReadAt: ErrNoRows is not told from a row. *)
GetLastReadRow(d, u) == reads[<<d, u>>]

GetLastReadAt(d, u) == IF reads[<<d, u>>] = Missing THEN Epoch ELSE reads[<<d, u>>]

(* The transaction of DialogRepo.Create: dialog, participants, read marks. *)
CreateDialogTx(d, row, members) ==
  /\ dialogs' = [dialogs EXCEPT ![d] = row]
  /\ participants' = participants \cup ({d} \X members)
  /\ reads' = [k \in Member |-> IF k \in {d} \X members THEN clock ELSE reads[k]]
  /\ minted' = minted \cup {d}
  /\ clock' = clock + 1
  /\ UNCHANGED messages

(* Mutant of InsertMessage: messages.dialog_id references nothing. *)
InsertUnreferenced(m) ==
  /\ messages' = messages \cup {m}
  /\ UNCHANGED <<dialogs, participants, reads, minted, clock>>

(* The foreign key on dialog_id refuses a message of a deleted dialog. *)
InsertMessage(m) ==
  /\ Live(m.dialog)
  /\ messages' = messages \cup {m}
  /\ UNCHANGED <<dialogs, participants, reads, minted, clock>>

(* Mutant of TouchRead: the upsert falls back to the column's default. *)
TouchDefault(d, u, readAt) ==
  /\ Live(d)
  /\ reads' = [reads EXCEPT ![<<d, u>>] = Epoch]
  /\ UNCHANGED <<dialogs, participants, messages, minted, clock>>

(* The upsert overwrites last_read_at, whatever it held. *)
TouchRead(d, u, readAt) ==
  /\ Live(d)
  /\ reads' = [reads EXCEPT ![<<d, u>>] = readAt]
  /\ UNCHANGED <<dialogs, participants, messages, minted, clock>>

(* Mutant of DeleteDialogRow: messages are kept. *)
DeleteDialogOnly(d) ==
  /\ Live(d)
  /\ dialogs' = [dialogs EXCEPT ![d] = Missing]
  /\ participants' = {k \in participants : k[1] # d}
  /\ reads' = [k \in Member |-> IF k[1] = d THEN Missing ELSE reads[k]]
  /\ UNCHANGED <<messages, minted, clock>>

(* ON DELETE CASCADE takes the rows that refer to the dialog with it. *)
DeleteDialogRow(d) ==
  /\ Live(d)
  /\ dialogs' = [dialogs EXCEPT ![d] = Missing]
  /\ participants' = {k \in participants : k[1] # d}
  /\ reads' = [k \in Member |-> IF k[1] = d THEN Missing ELSE reads[k]]
  /\ messages' = messages \ MessagesOf(d)
  /\ UNCHANGED <<minted, clock>>

=============================================================================
