------------------------------ MODULE RateLimiter ------------------------------
(***************************************************************************)
(* internal/middleware/rate_limit.go: a token bucket per client address,   *)
(* shared by the goroutines of the requests, and the goroutine that drops  *)
(* the buckets of addresses that have fallen silent.                       *)
(*                                                                         *)
(* Time is counted in ticks, and so are tokens: a token is worth the Cost  *)
(* ticks (1 / rate) in which a bucket earns it back.  main.go installs the *)
(* limiter before Auth, so no request has a user id yet and the key is     *)
(* always the address.                                                     *)
(***************************************************************************)
EXTENDS Integers, Sequences, FiniteSets

CONSTANTS
  Requests,    \* HTTP requests
  Keys,        \* client addresses
  Missing,     \* no address, no bucket
  Cost,        \* ticks in which a bucket earns a token
  Burst,       \* tokens a bucket holds at most
  Idle,        \* 10 * cleanupPeriod, in ticks
  MaxStall,    \* ticks the scheduler may hold a goroutine up between two steps
  MaxTime      \* where the clock of an instance stops

VARIABLES
  clock,      \* what time.Now() returns
  req,        \* request -> where it is
  bucket,     \* the request that stored it -> a bucket
  map,        \* address -> its bucket in the sync.Map, or Missing
  cleaner     \* where the goroutine that cleans up is

limiterVars == <<clock, req, bucket, map, cleaner>>

Full == Burst * Cost

ASSUME LimiterAssumption ==
  /\ Cost \in Nat \ {0} /\ Burst \in Nat \ {0}
  /\ MaxStall \in Nat /\ MaxTime \in Nat
  /\ Idle \in Nat /\ Full + MaxStall <= Idle + 1
  /\ Missing \notin Keys \cup Requests

Request ==
  [pc : {"new", "load", "allow", "done"}, key : Keys \cup {Missing}, now : Nat,
   bucket : Requests \cup {Missing}, answer : {"none", "passed", "limited"}, at : Nat]

(* grants is history: the value of last at each token taken. *)
Bucket == [tokens : 0..Full, last : Nat, lastSeen : Nat, grants : Seq(Nat)]

Cleaner == [pc : {"wait", "range", "delete"}, now : Nat, left : SUBSET Keys, key : Keys \cup {Missing}]

LimiterTypeOK ==
  /\ clock \in Nat
  /\ req \in [Requests -> Request]
  /\ bucket \in [Requests -> Bucket]
  /\ map \in [Keys -> Requests \cup {Missing}]
  /\ cleaner \in Cleaner

(* A bucket as LoadOrStore offers it. *)
NewBucket(now) == [tokens |-> Full, last |-> now, lastSeen |-> now, grants |-> <<>>]

LimiterInit ==
  /\ clock = 0
  /\ req = [r \in Requests |-> [pc |-> "new", key |-> Missing, now |-> 0,
                                bucket |-> Missing, answer |-> "none", at |-> 0]]
  /\ bucket = [r \in Requests |-> NewBucket(0)]
  /\ map = [k \in Keys |-> Missing]
  /\ cleaner = [pc |-> "wait", now |-> 0, left |-> {}, key |-> Missing]

-----------------------------------------------------------------------------
(* A request. *)

(* The upgrade to a WebSocket is not limited. *)
PassWebSocket(r) ==
  /\ req[r].pc = "new"
  /\ req' = [req EXCEPT ![r].pc = "done", ![r].answer = "passed"]
  /\ UNCHANGED <<clock, bucket, map, cleaner>>

(* ClientIP and time.Now. *)
Arrive(r, k) ==
  /\ req[r].pc = "new"
  /\ req' = [req EXCEPT ![r].pc = "load", ![r].key = k, ![r].now = clock]
  /\ UNCHANGED <<clock, bucket, map, cleaner>>

(* Mutant of LoadOrStore: a plain Store after a failed Load. *)
StoreAnyway(r) ==
  /\ req[r].pc = "load"
  /\ bucket' = [bucket EXCEPT ![r] = NewBucket(req[r].now)]
  /\ map' = [map EXCEPT ![req[r].key] = r]
  /\ req' = [req EXCEPT ![r].pc = "allow", ![r].bucket = r]
  /\ UNCHANGED <<clock, cleaner>>

(* sync.Map.LoadOrStore: the bucket of the address, or a full one. *)
LoadOrStore(r) ==
  /\ req[r].pc = "load"
  /\ LET k == req[r].key
     IN  \/ /\ map[k] # Missing
            /\ req' = [req EXCEPT ![r].pc = "allow", ![r].bucket = map[k]]
            /\ UNCHANGED <<bucket, map>>
         \/ /\ map[k] = Missing
            /\ bucket' = [bucket EXCEPT ![r] = NewBucket(req[r].now)]
            /\ map' = [map EXCEPT ![k] = r]
            /\ req' = [req EXCEPT ![r].pc = "allow", ![r].bucket = r]
  /\ UNCHANGED <<clock, cleaner>>

(* Mutant of Refilled: a late request winds the bucket's clock back. *)
RefilledBack(b, now) ==
  [b EXCEPT !.tokens = IF Full < b.tokens + (now - b.last) THEN Full
                       ELSE IF now > b.last THEN b.tokens + (now - b.last) ELSE b.tokens,
            !.last = now]

(* What the bucket holds at now: only time that has passed refills it. *)
Refilled(b, now) ==
  IF now > b.last
  THEN [b EXCEPT !.tokens = IF Full < b.tokens + (now - b.last) THEN Full
                            ELSE b.tokens + (now - b.last),
                 !.last = now]
  ELSE b

(* bucket.allow, under the bucket's mutex. *)
Allow(r) ==
  /\ req[r].pc = "allow"
  /\ LET b == Refilled(bucket[req[r].bucket], req[r].now)
         passes == b.tokens >= Cost
     IN  /\ bucket' = [bucket EXCEPT ![req[r].bucket] =
              [tokens |-> IF passes THEN b.tokens - Cost ELSE b.tokens,
               last |-> b.last, lastSeen |-> req[r].now,
               grants |-> IF passes THEN Append(b.grants, b.last) ELSE b.grants]]
         /\ req' = [req EXCEPT ![r].pc = "done", ![r].now = 0,
                               ![r].at = IF passes THEN clock ELSE 0,
                               ![r].answer = IF passes THEN "passed" ELSE "limited"]
  /\ UNCHANGED <<clock, map, cleaner>>

-----------------------------------------------------------------------------
(* The cleaner. *)

Sweep ==
  /\ cleaner.pc = "wait"
  /\ cleaner' = [pc |-> "range", now |-> clock, left |-> Keys, key |-> Missing]
  /\ UNCHANGED <<clock, req, bucket, map>>

(* Mutant of IsIdle: one period without a request is enough. *)
IsIdleSoon(b, now) == now - b.lastSeen > 0

IsIdle(b, now) == now - b.lastSeen > Idle

(* Range calls back with k, which may have been stored meanwhile. *)
Test(k) ==
  /\ cleaner.pc = "range" /\ k \in cleaner.left
  /\ LET drop == map[k] # Missing /\ IsIdle(bucket[map[k]], cleaner.now)
     IN  cleaner' = [cleaner EXCEPT !.left = @ \ {k},
                                    !.pc = IF drop THEN "delete" ELSE "range",
                                    !.key = IF drop THEN k ELSE Missing]
  /\ UNCHANGED <<clock, req, bucket, map>>

(* Mutant of Delete: the bucket stays in the map. *)
DeleteNothing ==
  /\ cleaner.pc = "delete"
  /\ cleaner' = [cleaner EXCEPT !.pc = "range", !.key = Missing]
  /\ UNCHANGED <<clock, req, bucket, map>>

(* The bucket is out of its mutex since Test. *)
Delete ==
  /\ cleaner.pc = "delete"
  /\ map' = [map EXCEPT ![cleaner.key] = Missing]
  /\ cleaner' = [cleaner EXCEPT !.pc = "range", !.key = Missing]
  /\ UNCHANGED <<clock, req, bucket>>

SweepEnds ==
  /\ cleaner.pc = "range" /\ cleaner.left = {}
  /\ cleaner' = [cleaner EXCEPT !.pc = "wait", !.now = 0]
  /\ UNCHANGED <<clock, req, bucket, map>>

-----------------------------------------------------------------------------

(* Requests that have read the clock. *)
Started == {r \in Requests : req[r].pc \in {"load", "allow"}}

(* No request is held up for more than MaxStall ticks. *)
Tick ==
  /\ clock < MaxTime
  /\ \A r \in Started : clock < req[r].now + MaxStall
  /\ clock' = clock + 1
  /\ UNCHANGED <<req, bucket, map, cleaner>>

Serve(r) == PassWebSocket(r) \/ (\E k \in Keys : Arrive(r, k)) \/ LoadOrStore(r) \/ Allow(r)

Clean == Sweep \/ (\E k \in Keys : Test(k)) \/ Delete \/ SweepEnds

LimiterNext == (\E r \in Requests : Serve(r)) \/ Clean \/ Tick

LimiterSpec == LimiterInit /\ [][LimiterNext]_limiterVars

(* The ticker of the cleaner never stops, and its goroutine runs. *)
LimiterLiveSpec == LimiterSpec /\ WF_limiterVars(Clean)

-----------------------------------------------------------------------------

(* WindowBounded: whatever the order in which goroutines reach the mutex   *)
(* with the times they read before it, a bucket lets no more than Burst    *)
(* requests through in any stretch of time, plus one for each Cost ticks   *)
(* of it.                                                                  *)
WindowBounded ==
  \A b \in Requests : LET g == bucket[b].grants IN
    \A i, j \in DOMAIN g : i <= j => (j - i + 1) * Cost <= Full + (g[j] - g[i])

(* Requests of address k that passed between two ticks. *)
PassedBetween(k, from, to) ==
  {r \in Requests : req[r].key = k /\ req[r].answer = "passed" /\ req[r].at \in from..to}

(* AddressBounded: requests that slip in between the cleaner's test and    *)
(* its Delete, or hold a bucket that was deleted, give an address a second *)
(* bucket, but never a third within Idle ticks, less two stalls: it gets   *)
(* two bursts at most, and what each bucket earns in its part of the time. *)
(* A bucket's clock may lag a stall behind, at the start of each part.     *)
AddressBounded ==
  \A k \in Keys, from, to \in 0..MaxTime :
    from <= to /\ to + 2 * MaxStall <= from + Idle =>
      Cardinality(PassedBetween(k, from, to)) * Cost <= 2 * Full + (to - from) + 2 * MaxStall

(* ForgetsOnlyFull: a bucket would be full when the cleaner finds it idle, *)
(* so that at that moment a fresh one would give its address no more than  *)
(* it has: lastSeen goes back when requests overtake each other, but not   *)
(* so far.  What requests take from it between this test and the Delete is *)
(* forgotten with the bucket; AddressBounded is about that.                *)
ForgetsOnlyFull ==
  [][cleaner.pc = "range" /\ cleaner'.pc = "delete" =>
       Refilled(bucket[map[cleaner'.key]], clock).tokens = Full]_limiterVars

(* SilentForgotten: the bucket of an address that has fallen silent leaves *)
(* the map, or is used again; so the map does not grow for ever.           *)
SilentForgotten ==
  \A k \in Keys, b \in Requests :
    map[k] = b /\ clock - bucket[b].lastSeen > Idle
      ~> map[k] # b \/ clock - bucket[b].lastSeen <= Idle

=============================================================================
