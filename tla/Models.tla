------------------------------- MODULE Models -------------------------------
(***************************************************************************)
(* The rows and messages of internal/models, shared by the modules that    *)
(* model PostgreSQL (Store) and Redis (RedisCache).                        *)
(*                                                                         *)
(* Identifiers are uuids in the code: users and dialogs are members of two *)
(* constant sets here.  A message is identified by its created_at stamp,   *)
(* which the model's clock never gives twice, so its uuid is left out; its *)
(* text is left out too.  Missing stands for "no row" and for redis.Nil.   *)
(***************************************************************************)
EXTENDS Integers, FiniteSets

CONSTANTS
  Users,      \* registered accounts
  Dialogs,    \* the dialog ids uuid.New() can return
  Missing     \* no such row, no such key

DialogType == {"direct", "group"}

Dialog == [type : DialogType, createdBy : Users]

Message == [dialog : Dialogs, sender : Users, at : Nat]

(* A (dialog, user) pair: the primary key of dialog_participants and of    *)
(* dialog_reads, and the two variable parts of the Redis key unread:u:d.   *)
Member == Dialogs \X Users

ASSUME MissingAssumption == Missing \notin Nat \cup Users \cup Dialogs \cup Dialog

=============================================================================
