------------------------------ MODULE Requests ------------------------------
(***************************************************************************)
(* The requests that internal/handlers serves, each in a goroutine of its  *)
(* own.  A request is sent once; its program counter names the next call   *)
(* to PostgreSQL or Redis it will make, and between two of them any other  *)
(* request may run.  A check that only reads is merged with the reading of *)
(* the clock that follows it.                                              *)
(***************************************************************************)
EXTENDS Store, RedisCache

CONSTANTS
  Requests,      \* the HTTP requests of a behaviour
  Ops,           \* the handlers they may address
  Faults,        \* what may go wrong, a subset of FaultKinds
  MaxInFlight,   \* how many requests are served at once
  MaxSending     \* how many of those are postMessage

VARIABLES
  req,         \* request -> what its goroutine knows
  reply,       \* request -> the response
  published    \* messages given to the WebSocket hub for broadcast

requestVars == <<req, reply, published>>
vars == <<storeVars, cacheVars, requestVars>>

FaultKinds == {"store", "redis", "resend", "expiry", "crash"}

Handlers == {"postMessage", "listMessages", "unreadCount",
             "createDialog", "listDialogs", "getDialog", "deleteDialog"}

Steps == {"new", "insert", "count", "push", "broadcast",    \* postMessage
          "lookup", "query", "mark", "touch", "reset",      \* listMessages
          "unread", "since", "countSince",                  \* unread counters
          "detail", "delete", "done"}

Statuses == {"none", "ok", "created", "deleted", "validation", "forbidden",
             "notFound", "internal", "lost"}

ASSUME RequestsAssumption ==
  /\ Faults \subseteq FaultKinds /\ Ops \subseteq Handlers
  /\ MaxInFlight \in Nat \ {0} /\ MaxSending \in Nat \ {0}
  /\ Missing \notin Handlers

Request == [op : Handlers \cup {Missing}, pc : Steps, user : Users \cup {Missing},
            dialog : Dialogs \cup {Missing}, at : Nat, limit : Int,
            cursor : Nat \cup {Missing}, todo : SUBSET Dialogs]

Reply == [status : Statuses, page : SUBSET Message, next : Nat, counts : [Dialogs -> Nat]]

RequestsTypeOK ==
  /\ req \in [Requests -> Request]
  /\ reply \in [Requests -> Reply]
  /\ published \subseteq Message

(* A request when its handler has read its parameters. *)
Entered(op, u, d, pc) ==
  [op |-> op, pc |-> pc, user |-> u, dialog |-> d,
   at |-> Epoch, limit |-> 0, cursor |-> Epoch, todo |-> {}]

RequestsInit ==
  /\ req = [r \in Requests |-> Entered(Missing, Missing, Missing, "new")]
  /\ reply = [r \in Requests |->
       [status |-> "none", page |-> {}, next |-> Epoch, counts |-> [d \in Dialogs |-> 0]]]
  /\ published = {}

InFlight == {r \in Requests : req[r].pc \notin {"new", "done"}}

Sending == {r \in InFlight : req[r].op = "postMessage"}

CanStart(r, op) == op \in Ops /\ req[r].pc = "new" /\ Cardinality(InFlight) < MaxInFlight

(* The message a postMessage request stores, counts, caches and broadcasts. *)
MessageOf(r) == [dialog |-> req[r].dialog, sender |-> req[r].user, at |-> req[r].at]

(* A call to PostgreSQL or to Redis returns an error, the request's context
   having been cancelled or the connection having failed. *)
StoreFails == "store" \in Faults
RedisFails == "redis" \in Faults

(* How often Redis may have run a pipeline that was sent, resent or not. *)
Sendings == IF "resend" \in Faults THEN {1, 2} ELSE {1}

Goto(r, pc) == req' = [req EXCEPT ![r].pc = pc] /\ UNCHANGED reply

Finish(r, status) ==
  /\ req' = [req EXCEPT ![r].pc = "done"]
  /\ reply' = [reply EXCEPT ![r].status = status]

(* The errors EnsureParticipant may answer with. *)
EnsureErrors(d, u) ==
  (IF IsParticipant(d, u) THEN {} ELSE {"forbidden"}) \cup
  (IF StoreFails THEN {"internal"} ELSE {})

(* EnsureParticipant, first call of a handler, and what follows its answer. *)
EnterAsParticipant(r, entered) ==
  \/ /\ IsParticipant(entered.dialog, entered.user)
     /\ req' = [req EXCEPT ![r] = entered]
     /\ UNCHANGED reply
  \/ \E status \in EnsureErrors(entered.dialog, entered.user) : Finish(r, status)

(* The process dies with the requests it serves; PostgreSQL and Redis stay. *)
Crash ==
  /\ "crash" \in Faults
  /\ InFlight # {}
  /\ req' = [r \in Requests |-> IF r \in InFlight THEN [req[r] EXCEPT !.pc = "done"] ELSE req[r]]
  /\ reply' = [r \in Requests |->
       IF r \in InFlight THEN [reply[r] EXCEPT !.status = "lost"] ELSE reply[r]]
  /\ UNCHANGED <<storeVars, cacheVars, published>>

=============================================================================
