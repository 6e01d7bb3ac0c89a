----------------------------- MODULE RedisCache -----------------------------
(***************************************************************************)
(* The two families of Redis keys of internal/services/redis_cache.go:     *)
(* dialog:<d>:last_messages, a list with the newest message first, and     *)
(* unread:<u>:<d>, a counter.  A pipeline touches each of its keys once    *)
(* before it sets the key's TTL; one pipeline is one action here.  A TTL   *)
(* is not counted: a key may expire at any moment after it was written.    *)
(***************************************************************************)
EXTENDS Models, SequencesExt

CONSTANT LastMessagesLimit   \* how many messages LTRIM leaves in the list (100)

VARIABLES
  lastMessages,   \* dialog -> list; an empty list is a missing key
  unread          \* (dialog, user) -> counter, or Missing

cacheVars == <<lastMessages, unread>>

ASSUME CacheAssumption == LastMessagesLimit \in Nat \ {0}

CacheTypeOK ==
  /\ lastMessages \in [Dialogs -> Seq(Message)]
  /\ unread \in [Member -> Nat \cup {Missing}]

CacheInit ==
  /\ lastMessages = [d \in Dialogs |-> <<>>]
  /\ unread = [k \in Member |-> Missing]

(* Mutant of FirstOf: LTRIM 0 n, LRANGE 0 n. *)
FirstOfOneMore(list, n) == SubSeq(list, 1, IF n < Len(list) THEN n + 1 ELSE Len(list))

(* The first n elements of a list: LTRIM 0 n-1, LRANGE 0 n-1. *)
FirstOf(list, n) == SubSeq(list, 1, IF n < Len(list) THEN n ELSE Len(list))

(* Mutant of PushLastMessage: RPUSH, then LTRIM. *)
AppendLastMessage(d, m, n) ==
  /\ lastMessages' = [lastMessages EXCEPT ![d] =
       FirstOf(@ \o [i \in 1..n |-> m], LastMessagesLimit)]
  /\ UNCHANGED unread

(* LPUSH, then LTRIM.  The client library sends a pipeline again when the  *)
(* connection breaks before the answer, so Redis may have run it n times.  *)
PushLastMessage(d, m, n) ==
  /\ lastMessages' = [lastMessages EXCEPT ![d] =
       FirstOf([i \in 1..n |-> m] \o @, LastMessagesLimit)]
  /\ UNCHANGED unread

(* LRANGE of the first limit entries, LastMessagesLimit when limit is out of range. *)
GetLastMessages(d, limit) ==
  FirstOf(lastMessages[d], IF limit \in 1..LastMessagesLimit THEN limit ELSE LastMessagesLimit)

(* INCR, run n times, creates a missing key at 0 before it adds 1. *)
IncrUnreadForUsers(d, users, n) ==
  /\ unread' = [k \in Member |->
       IF k \in {d} \X users
       THEN IF unread[k] = Missing THEN n ELSE unread[k] + n
       ELSE unread[k]]
  /\ UNCHANGED lastMessages

(* Mutant of ResetUnread: the counter is not touched. *)
KeepUnread(u, d) == UNCHANGED cacheVars

ResetUnread(u, d) ==
  /\ unread' = [unread EXCEPT ![<<d, u>>] = 0]
  /\ UNCHANGED lastMessages

(* The TTLs that the pipelines set: Redis drops a key. *)
ExpireLastMessages(d) ==
  /\ lastMessages[d] # <<>>
  /\ lastMessages' = [lastMessages EXCEPT ![d] = <<>>]
  /\ UNCHANGED unread

ExpireUnread(k) ==
  /\ unread[k] # Missing
  /\ unread' = [unread EXCEPT ![k] = Missing]
  /\ UNCHANGED lastMessages

=============================================================================
