-------------------------- MODULE RateLimiter_proofs --------------------------
(***************************************************************************)
(* Theorems about RateLimiter, for every value of its constants.           *)
(***************************************************************************)
EXTENDS RateLimiter, SequenceTheorems, FiniteSetTheorems, WellFoundedInduction, TLAPS

-----------------------------------------------------------------------------
(* Lemmas about Full and Refilled. *)

LEMMA FullType == Full \in Nat /\ Full >= Cost
<1>1. Burst * Cost \in Nat
  BY LimiterAssumption
<1>2. PICK n \in Nat : Burst = n + 1
  <2>1. Burst - 1 \in Nat /\ Burst = (Burst - 1) + 1
    BY LimiterAssumption
  <2> QED BY <2>1
<1>3. n * Cost \in Nat /\ (n + 1) * Cost = n * Cost + Cost
  BY <1>2, LimiterAssumption
<1> QED BY <1>1, <1>2, <1>3, LimiterAssumption DEF Full

(* A refill keeps a bucket a bucket: it holds no more than Full, no less   *)
(* than before, and no more than the time since last has earned.           *)
LEMMA RefilledFacts ==
  ASSUME NEW b \in Bucket, NEW now \in Nat
  PROVE  LET f == Refilled(b, now) IN
         /\ f \in Bucket
         /\ f.last = IF now > b.last THEN now ELSE b.last
         /\ b.tokens <= f.tokens /\ f.tokens - b.tokens <= f.last - b.last
         /\ f.lastSeen = b.lastSeen /\ f.grants = b.grants
<1>1. CASE now > b.last
  <2> DEFINE earned == b.tokens + (now - b.last)
             held == IF Full < earned THEN Full ELSE earned
  <2>1. b.tokens \in 0..Full /\ b.last \in Nat /\ earned \in Nat
    BY <1>1, FullType DEF Bucket
  <2>2. held \in 0..Full /\ b.tokens <= held /\ held - b.tokens <= now - b.last
    BY <1>1, <2>1, FullType
  <2>3. Refilled(b, now) = [b EXCEPT !.tokens = held, !.last = now]
    BY <1>1 DEF Refilled
  <2> HIDE DEF held
  <2> QED BY <1>1, <2>2, <2>3 DEF Bucket
<1>2. CASE ~(now > b.last)
  BY <1>2, FullType DEF Refilled, Bucket
<1> QED BY <1>1, <1>2

-----------------------------------------------------------------------------
(* Type correctness. *)

(* A request that is being served knows its address, and its bucket when   *)
(* it is about to take a token; a deletion knows its address.              *)
Placed ==
  /\ \A r \in Requests :
       /\ req[r].pc \in {"load", "allow"} => req[r].key \in Keys
       /\ req[r].pc = "allow" => req[r].bucket \in Requests
  /\ cleaner.pc = "delete" => cleaner.key \in Keys

LimiterTyped == LimiterTypeOK /\ Placed

LEMMA InitTyped == LimiterInit => LimiterTyped
<1> SUFFICES ASSUME LimiterInit PROVE LimiterTyped
  OBVIOUS
<1>1. NewBucket(0) \in Bucket
  BY FullType, EmptySeq DEF NewBucket, Bucket
<1> QED BY <1>1 DEF LimiterInit, LimiterTyped, LimiterTypeOK, Placed, Request, Cleaner

LEMMA AllowTyped ==
  ASSUME LimiterTyped, NEW r \in Requests, Allow(r)
  PROVE  LimiterTyped'
<1> DEFINE c == req[r].bucket
           b == Refilled(bucket[c], req[r].now)
           passes == b.tokens >= Cost
           new == [tokens |-> IF passes THEN b.tokens - Cost ELSE b.tokens,
                   last |-> b.last, lastSeen |-> req[r].now,
                   grants |-> IF passes THEN Append(b.grants, b.last) ELSE b.grants]
<1>1. c \in Requests /\ bucket[c] \in Bucket /\ req[r] \in Request /\ req[r].now \in Nat
  BY DEF Allow, LimiterTyped, LimiterTypeOK, Placed, Request
<1>2. b \in Bucket
  BY <1>1, RefilledFacts
<1>3. new \in Bucket
  <2>1. b.tokens \in 0..Full /\ b.last \in Nat /\ b.grants \in Seq(Nat)
    BY <1>2 DEF Bucket
  <2>2. Append(b.grants, b.last) \in Seq(Nat)
    BY <2>1, AppendProperties
  <2>3. (IF passes THEN b.tokens - Cost ELSE b.tokens) \in 0..Full
    <3> HIDE DEF b
    <3> QED BY <2>1, LimiterAssumption, FullType
  <2> HIDE DEF passes, b
  <2> QED BY <1>1, <2>1, <2>2, <2>3 DEF Bucket
<1>4. bucket' = [bucket EXCEPT ![c] = new]
  BY DEF Allow
<1>5. req' = [req EXCEPT ![r] = [req[r] EXCEPT !.pc = "done", !.now = 0,
                !.at = IF passes THEN clock ELSE 0,
                !.answer = IF passes THEN "passed" ELSE "limited"]]
  <2> HIDE DEF passes
  <2>1. req' = [req EXCEPT ![r].pc = "done", ![r].now = 0, ![r].at = IF passes THEN clock ELSE 0,
                           ![r].answer = IF passes THEN "passed" ELSE "limited"]
    BY DEF Allow, passes
  <2> QED BY <2>1, <1>1 DEF LimiterTyped, LimiterTypeOK
<1>6. UNCHANGED <<clock, map, cleaner>>
  BY DEF Allow
<1> HIDE DEF passes, new, b, c
<1>7. bucket' \in [Requests -> Bucket]
  BY <1>1, <1>3, <1>4 DEF LimiterTyped, LimiterTypeOK
<1>8. /\ req' \in [Requests -> Request]
      /\ \A q \in Requests : q # r => req'[q] = req[q]
      /\ req'[r].pc = "done"
  BY <1>1, <1>5 DEF LimiterTyped, LimiterTypeOK, Request
<1> QED BY <1>6, <1>7, <1>8 DEF LimiterTyped, LimiterTypeOK, Placed

LEMMA LoadOrStoreTyped ==
  ASSUME LimiterTyped, NEW r \in Requests, LoadOrStore(r)
  PROVE  LimiterTyped'
<1> DEFINE k == req[r].key
<1>1. req[r] \in Request /\ req[r].now \in Nat /\ k \in Keys /\ map[k] \in Requests \cup {Missing}
  BY DEF LoadOrStore, LimiterTyped, LimiterTypeOK, Placed, Request
<1>2. NewBucket(req[r].now) \in Bucket
  BY <1>1, FullType, EmptySeq DEF NewBucket, Bucket
<1>3. PICK t \in Requests :
        /\ req' = [req EXCEPT ![r].pc = "allow", ![r].bucket = t]
        /\ bucket' \in [Requests -> Bucket] /\ map' \in [Keys -> Requests \cup {Missing}]
  <2>1. CASE map[k] # Missing
    BY <1>1, <2>1 DEF LoadOrStore, LimiterTyped, LimiterTypeOK
  <2>2. CASE map[k] = Missing
    BY <1>1, <1>2, <2>2 DEF LoadOrStore, LimiterTyped, LimiterTypeOK
  <2> QED BY <2>1, <2>2
<1>4. /\ req' \in [Requests -> Request]
      /\ \A q \in Requests : q # r => req'[q] = req[q]
      /\ req'[r].key = k /\ req'[r].bucket \in Requests
  BY <1>1, <1>3 DEF LimiterTyped, LimiterTypeOK, Request
<1>5. UNCHANGED <<clock, cleaner>>
  BY DEF LoadOrStore
<1> QED BY <1>1, <1>3, <1>4, <1>5 DEF LimiterTyped, LimiterTypeOK, Placed

LEMMA NextTyped == LimiterTyped /\ [LimiterNext]_limiterVars => LimiterTyped'
<1> SUFFICES ASSUME LimiterTyped, [LimiterNext]_limiterVars PROVE LimiterTyped'
  OBVIOUS
<1>1. ASSUME NEW r \in Requests, PassWebSocket(r) PROVE LimiterTyped'
  <2> DEFINE e == [req[r] EXCEPT !.pc = "done", !.answer = "passed"]
  <2>1. e \in Request /\ e.pc = "done"
    BY DEF LimiterTyped, LimiterTypeOK, Request
  <2>2. req' = [req EXCEPT ![r] = e] /\ UNCHANGED <<clock, bucket, map, cleaner>>
    BY <1>1 DEF LimiterTyped, LimiterTypeOK, PassWebSocket
  <2> HIDE DEF e
  <2> QED BY <2>1, <2>2 DEF LimiterTyped, LimiterTypeOK, Placed
<1>2. ASSUME NEW r \in Requests, NEW k \in Keys, Arrive(r, k) PROVE LimiterTyped'
  <2> DEFINE e == [req[r] EXCEPT !.pc = "load", !.key = k, !.now = clock]
  <2>1. e \in Request /\ e.pc = "load" /\ e.key = k
    BY DEF LimiterTyped, LimiterTypeOK, Request
  <2>2. req' = [req EXCEPT ![r] = e] /\ UNCHANGED <<clock, bucket, map, cleaner>>
    BY <1>2 DEF LimiterTyped, LimiterTypeOK, Arrive
  <2> HIDE DEF e
  <2> QED BY <2>1, <2>2 DEF LimiterTyped, LimiterTypeOK, Placed
<1>3. ASSUME NEW k \in Keys, Test(k) PROVE LimiterTyped'
  <2>1. /\ cleaner' \in Cleaner /\ (cleaner'.pc = "delete" => cleaner'.key = k)
        /\ UNCHANGED <<clock, req, bucket, map>>
    BY <1>3 DEF LimiterTyped, LimiterTypeOK, Test, Cleaner
  <2> QED BY <2>1 DEF LimiterTyped, LimiterTypeOK, Placed
<1>4. CASE Sweep
  BY <1>4 DEF LimiterTyped, LimiterTypeOK, Placed, Sweep, Cleaner
<1>5. CASE Delete
  BY <1>5 DEF LimiterTyped, LimiterTypeOK, Placed, Delete, Cleaner
<1>6. CASE SweepEnds
  BY <1>6 DEF LimiterTyped, LimiterTypeOK, Placed, SweepEnds, Cleaner
<1>7. CASE Tick
  BY <1>7 DEF LimiterTyped, LimiterTypeOK, Placed, Tick
<1>8. CASE UNCHANGED limiterVars
  BY <1>8 DEF LimiterTyped, LimiterTypeOK, Placed, limiterVars
<1> QED
  BY <1>1, <1>2, <1>3, <1>4, <1>5, <1>6, <1>7, <1>8, AllowTyped, LoadOrStoreTyped
  DEF LimiterNext, Serve, Clean

(* LimiterTypeCorrect: in every behaviour of the limiter its variables     *)
(* keep their types; a bucket never holds more than Burst tokens.          *)
THEOREM LimiterTypeCorrect == LimiterSpec => []LimiterTypeOK
<1>1. LimiterSpec => []LimiterTyped
  BY InitTyped, NextTyped, PTL DEF LimiterSpec
<1>2. LimiterTyped => LimiterTypeOK
  BY DEF LimiterTyped
<1> QED BY <1>1, <1>2, PTL

-----------------------------------------------------------------------------
(* WindowBounded.  It is not inductive: what a bucket may still grant      *)
(* depends on what it holds.  Since the i-th grant it has paid for all     *)
(* that followed out of Full and the time that passed on its own clock.    *)

Paid(b) ==
  /\ \A i \in DOMAIN b.grants :
       b.tokens + (Len(b.grants) - i + 1) * Cost <= Full + (b.last - b.grants[i])
  /\ \A i, j \in DOMAIN b.grants :
       i <= j => (j - i + 1) * Cost <= Full + (b.grants[j] - b.grants[i])

LimiterInv == LimiterTyped /\ \A b \in Requests : Paid(bucket[b])

LEMMA NewBucketPaid == ASSUME NEW now \in Nat PROVE Paid(NewBucket(now))
BY DEF NewBucket, Paid

LEMMA Shifted ==
  ASSUME NEW tokens \in Int, NEW held \in Int, NEW last \in Int, NEW now \in Int,
         NEW cost \in Int, NEW full \in Int, NEW from \in Int,
         tokens + cost <= full + (last - from), held - tokens <= now - last
  PROVE  held + cost <= full + (now - from)
OBVIOUS

(* What a refill adds, the time that passed has paid for. *)
LEMMA RefilledPaid ==
  ASSUME NEW b \in Bucket, NEW now \in Nat, Paid(b)
  PROVE  Paid(Refilled(b, now))
<1> DEFINE f == Refilled(b, now)
<1>1. /\ f \in Bucket /\ f.grants = b.grants
      /\ f.tokens - b.tokens <= f.last - b.last
  BY RefilledFacts
<1>2. b.tokens \in Int /\ b.last \in Int /\ f.tokens \in Int /\ f.last \in Int
      /\ b.grants \in Seq(Nat)
  BY <1>1 DEF Bucket
<1> HIDE DEF f
<1>3. ASSUME NEW i \in DOMAIN b.grants
      PROVE  f.tokens + (Len(b.grants) - i + 1) * Cost <= Full + (f.last - b.grants[i])
  <2>1. /\ b.grants[i] \in Int
        /\ (Len(b.grants) - i + 1) * Cost \in Int
    <3>1. Len(b.grants) \in Nat /\ i \in 1..Len(b.grants) /\ b.grants[i] \in Nat
      BY <1>2, ElementOfSeq, LenProperties
    <3>2. Len(b.grants) - i + 1 \in Int /\ Cost \in Int
      BY <3>1, LimiterAssumption
    <3> QED BY <3>1, <3>2
  <2>2. b.tokens + (Len(b.grants) - i + 1) * Cost <= Full + (b.last - b.grants[i])
    BY DEF Paid
  <2> DEFINE cost == (Len(b.grants) - i + 1) * Cost
  <2> HIDE DEF cost
  <2>3. f.tokens + cost <= Full + (f.last - b.grants[i])
    <3>1. cost \in Int /\ Full \in Int /\ b.tokens + cost <= Full + (b.last - b.grants[i])
      BY <2>1, <2>2, FullType DEF cost
    <3> QED BY <1>1, <1>2, <2>1, <3>1, Shifted
  <2> QED BY <2>3 DEF cost
<1> QED BY <1>1, <1>3 DEF Paid, f

(* The next grant is paid for by the token it takes. *)
LEMMA GrantPaid ==
  ASSUME NEW b \in Bucket, Paid(b), b.tokens >= Cost, NEW seen \in Nat
  PROVE  Paid([tokens |-> b.tokens - Cost, last |-> b.last, lastSeen |-> seen,
               grants |-> Append(b.grants, b.last)])
<1> DEFINE n == Len(b.grants)
           g == Append(b.grants, b.last)
           new == [tokens |-> b.tokens - Cost, last |-> b.last, lastSeen |-> seen, grants |-> g]
<1>1. /\ b.tokens \in 0..Full /\ b.last \in Nat /\ b.grants \in Seq(Nat) /\ n \in Nat
      /\ DOMAIN b.grants = 1..n /\ Cost \in Nat /\ Full \in Nat
  BY FullType, LimiterAssumption, LenProperties DEF Bucket
<1>2. /\ DOMAIN g = 1..(n + 1) /\ Len(g) = n + 1 /\ g[n + 1] = b.last
      /\ \A i \in 1..n : g[i] = b.grants[i] /\ g[i] \in Nat
  BY <1>1, AppendProperties, ElementOfSeq, LenProperties, SMTT(30)
<1>3. ASSUME NEW k \in Int PROVE k * Cost \in Int /\ (k + 1) * Cost = k * Cost + Cost
  BY <1>1
<1> HIDE DEF g, n
<1>4. ASSUME NEW i \in 1..n
      PROVE  b.tokens - Cost + (Len(g) - i + 1) * Cost <= Full + (b.last - g[i])
  <2> DEFINE k == n - i + 1
  <2>1. k \in Int /\ Len(g) - i + 1 = k + 1
    BY <1>1, <1>2
  <2>2. b.tokens + k * Cost <= Full + (b.last - g[i])
    BY <1>1, <1>2 DEF Paid, n
  <2>3. k * Cost \in Int /\ (k + 1) * Cost = k * Cost + Cost
    BY <1>3, <2>1
  <2> HIDE DEF k
  <2> DEFINE kc == k * Cost
  <2>4. (Len(g) - i + 1) * Cost = kc + Cost /\ kc \in Int
    BY <2>1, <2>3
  <2> HIDE DEF kc
  <2>5. b.tokens + kc <= Full + (b.last - g[i])
    BY <2>2 DEF kc
  <2>6. b.tokens - Cost + (kc + Cost) = b.tokens + kc
    BY <1>1, <2>4
  <2> QED BY <2>4, <2>5, <2>6
<1>5. b.tokens - Cost + 1 * Cost <= Full
  BY <1>1
<1>6. ASSUME NEW i \in DOMAIN g
      PROVE  b.tokens - Cost + (Len(g) - i + 1) * Cost <= Full + (b.last - g[i])
  <2>1. CASE i \in 1..n
    BY <1>4, <2>1
  <2>2. CASE i = n + 1
    <3>1. Len(g) - i + 1 = 1 /\ b.last - g[i] = 0 /\ Full + 0 = Full
      BY <1>1, <1>2, <2>2
    <3> QED BY <1>5, <3>1
  <2> QED BY <1>1, <1>2, <2>1, <2>2
<1>7. ASSUME NEW i \in DOMAIN g, NEW j \in DOMAIN g, i <= j
      PROVE  (j - i + 1) * Cost <= Full + (g[j] - g[i])
  <2>1. CASE j \in 1..n
    <3>1. i \in 1..n
      BY <1>1, <1>2, <1>7, <2>1
    <3>2. g[i] = b.grants[i] /\ g[j] = b.grants[j]
      BY <1>2, <2>1, <3>1
    <3> QED BY <1>1, <1>7, <2>1, <3>1, <3>2 DEF Paid
  <2>2. CASE j = n + 1
    <3>1. b.tokens - Cost + (j - i + 1) * Cost <= Full + (g[j] - g[i])
      BY <1>2, <1>6, <2>2
    <3>2. j - i + 1 \in Int /\ g[j] \in Int /\ g[i] \in Int
      BY <1>1, <1>2, <2>2
    <3>3. (j - i + 1) * Cost \in Int
      BY <1>3, <3>2
    <3> DEFINE jc == (j - i + 1) * Cost
    <3> HIDE DEF jc
    <3>4. jc <= Full + (g[j] - g[i])
      BY <1>1, <3>1, <3>2, <3>3 DEF jc
    <3> QED BY <3>4 DEF jc
  <2> QED BY <1>1, <1>2, <2>1, <2>2
<1> QED BY <1>6, <1>7 DEF Paid, g

LEMMA NextInv == LimiterInv /\ [LimiterNext]_limiterVars => LimiterInv'
<1> SUFFICES ASSUME LimiterInv, [LimiterNext]_limiterVars
             PROVE  \A b \in Requests : Paid(bucket'[b])
  BY NextTyped DEF LimiterInv
<1>1. ASSUME NEW r \in Requests, LoadOrStore(r) PROVE \A b \in Requests : Paid(bucket'[b])
  <2>1. Paid(NewBucket(req[r].now))
    BY NewBucketPaid DEF LimiterInv, LimiterTyped, LimiterTypeOK, Request
  <2>2. \A b \in Requests : bucket'[b] = bucket[b] \/ bucket'[b] = NewBucket(req[r].now)
    BY <1>1 DEF LimiterInv, LimiterTyped, LimiterTypeOK, LoadOrStore
  <2> QED BY <2>1, <2>2 DEF LimiterInv
<1>2. ASSUME NEW r \in Requests, Allow(r) PROVE \A b \in Requests : Paid(bucket'[b])
  <2> DEFINE c == req[r].bucket
             now == req[r].now
             f == Refilled(bucket[c], now)
             kept == [tokens |-> f.tokens, last |-> f.last, lastSeen |-> now, grants |-> f.grants]
             spent == [tokens |-> f.tokens - Cost, last |-> f.last, lastSeen |-> now,
                       grants |-> Append(f.grants, f.last)]
  <2>1. c \in Requests /\ bucket[c] \in Bucket /\ now \in Nat /\ Paid(bucket[c])
    BY <1>2 DEF Allow, LimiterInv, LimiterTyped, LimiterTypeOK, Placed, Request
  <2>2. f \in Bucket /\ Paid(f)
    BY <2>1, RefilledFacts, RefilledPaid
  <2>3. \A b \in Requests :
          bucket'[b] = IF b = c THEN IF f.tokens >= Cost THEN spent ELSE kept ELSE bucket[b]
    BY <1>2, <2>1 DEF Allow, LimiterInv, LimiterTyped, LimiterTypeOK
  <2>4. f.tokens >= Cost => Paid(spent)
    BY <2>1, <2>2, GrantPaid
  <2>5. Paid(kept)
    BY <2>2 DEF Paid
  <2> HIDE DEF f, kept, spent, c
  <2> QED BY <2>3, <2>4, <2>5 DEF LimiterInv
<1>3. CASE UNCHANGED bucket
  BY <1>3 DEF LimiterInv
<1> QED
  BY <1>1, <1>2, <1>3
  DEF LimiterNext, Serve, Clean, PassWebSocket, Arrive, Sweep, Test, Delete, SweepEnds, Tick, limiterVars

(* WindowIsBounded: for every rate, burst and number of requests, and      *)
(* whatever the order in which they reach the mutex, a bucket grants no    *)
(* more than Burst requests in any stretch of its time, plus one for each  *)
(* Cost ticks of it.                                                       *)
THEOREM WindowIsBounded == LimiterSpec => []WindowBounded
<1>1. LimiterInit => LimiterInv
  <2> SUFFICES ASSUME LimiterInit PROVE \A b \in Requests : Paid(bucket[b])
    BY InitTyped DEF LimiterInv
  <2> QED BY NewBucketPaid DEF LimiterInit
<1>2. LimiterInv => WindowBounded
  BY DEF LimiterInv, Paid, WindowBounded
<1> QED BY <1>1, <1>2, NextInv, PTL DEF LimiterSpec

-----------------------------------------------------------------------------
(* ForgetsOnlyFull: requests that overtake each other move lastSeen back,  *)
(* but no further behind last than a goroutine may be held up.             *)

Timely ==
  /\ \A r \in Started : req[r].now <= clock /\ clock <= req[r].now + MaxStall
  /\ \A b \in Requests :
       bucket[b].last <= clock /\ bucket[b].last <= bucket[b].lastSeen + MaxStall
  /\ cleaner.now <= clock

TimedInv == LimiterTyped /\ Timely

LEMMA AllowTimely ==
  ASSUME TimedInv, NEW r \in Requests, Allow(r)
  PROVE  Timely'
<1> DEFINE c == req[r].bucket
           f == Refilled(bucket[c], req[r].now)
<1>1. /\ c \in Requests /\ bucket[c] \in Bucket /\ req[r] \in Request /\ req[r].now \in Nat
      /\ r \in Started /\ clock \in Nat /\ MaxStall \in Nat
  BY LimiterAssumption
  DEF Allow, TimedInv, LimiterTyped, LimiterTypeOK, Placed, Request, Started
<1>2. f.last = (IF req[r].now > bucket[c].last THEN req[r].now ELSE bucket[c].last) /\ f \in Bucket
  BY <1>1, RefilledFacts
<1>3. f.last <= clock /\ f.last <= req[r].now + MaxStall
  <2>1. /\ req[r].now <= clock /\ clock <= req[r].now + MaxStall
        /\ bucket[c].last <= clock /\ bucket[c].last \in Nat
    BY <1>1 DEF TimedInv, Timely, Bucket
  <2> QED BY <1>1, <1>2, <2>1
<1>4. /\ bucket'[c].last = f.last /\ bucket'[c].lastSeen = req[r].now
      /\ \A b \in Requests : b # c => bucket'[b] = bucket[b]
  BY <1>1 DEF Allow, TimedInv, LimiterTyped, LimiterTypeOK
<1>5. \A b \in Requests :
        bucket'[b].last <= clock' /\ bucket'[b].last <= bucket'[b].lastSeen + MaxStall
  <2> HIDE DEF f, c
  <2>1. clock' = clock
    BY DEF Allow
  <2> QED BY <1>3, <1>4, <2>1 DEF TimedInv, Timely
<1>6. req'[r].pc = "done" /\ \A q \in Requests : q # r => req'[q] = req[q]
  BY <1>1 DEF Allow, TimedInv, LimiterTyped, LimiterTypeOK, Request
<1>7. Started' \subseteq Started /\ \A q \in Started' : req'[q] = req[q]
  BY <1>6 DEF Started
<1>8. UNCHANGED <<clock, cleaner>>
  BY DEF Allow
<1> QED BY <1>5, <1>7, <1>8 DEF TimedInv, Timely

LEMMA LoadOrStoreTimely ==
  ASSUME TimedInv, NEW r \in Requests, LoadOrStore(r)
  PROVE  Timely'
<1>1. r \in Started /\ req[r] \in Request
  BY DEF LoadOrStore, TimedInv, LimiterTyped, LimiterTypeOK, Started
<1>2. req[r].now \in Nat /\ req[r].now <= clock /\ clock \in Nat /\ MaxStall \in Nat
  BY <1>1, LimiterAssumption DEF TimedInv, Timely, LimiterTyped, LimiterTypeOK, Request
<1>3. \A b \in Requests : bucket'[b] = bucket[b] \/ bucket'[b] = NewBucket(req[r].now)
  BY DEF LoadOrStore, TimedInv, LimiterTyped, LimiterTypeOK
<1>4. /\ NewBucket(req[r].now).last <= clock
      /\ NewBucket(req[r].now).last <= NewBucket(req[r].now).lastSeen + MaxStall
  BY <1>2 DEF NewBucket
<1>5. PICK t : req' = [req EXCEPT ![r].pc = "allow", ![r].bucket = t]
  BY DEF LoadOrStore
<1>6. \A q \in Requests : req'[q].now = req[q].now /\ (q # r => req'[q].pc = req[q].pc)
  BY <1>1, <1>5 DEF TimedInv, LimiterTyped, LimiterTypeOK, Request
<1>7. Started' \subseteq Started /\ \A q \in Started' : req'[q].now = req[q].now
  BY <1>1, <1>6 DEF Started
<1>8. UNCHANGED <<clock, cleaner>>
  BY DEF LoadOrStore
<1> QED BY <1>3, <1>4, <1>7, <1>8 DEF TimedInv, Timely

LEMMA NextTimely == TimedInv /\ [LimiterNext]_limiterVars => TimedInv'
<1> SUFFICES ASSUME TimedInv, [LimiterNext]_limiterVars PROVE Timely'
  BY NextTyped DEF TimedInv
<1> USE DEF TimedInv
<1>1. ASSUME NEW r \in Requests, PassWebSocket(r) PROVE Timely'
  <2>1. /\ Started' \subseteq Started /\ \A q \in Started' : req'[q] = req[q]
        /\ UNCHANGED <<clock, bucket, cleaner>>
    BY <1>1 DEF PassWebSocket, LimiterTyped, LimiterTypeOK, Started
  <2> QED BY <2>1 DEF Timely
<1>2. ASSUME NEW r \in Requests, NEW k \in Keys, Arrive(r, k) PROVE Timely'
  <2>1. /\ req'[r].now = clock /\ \A q \in Requests : q # r => req'[q] = req[q]
        /\ UNCHANGED <<clock, bucket, cleaner>>
    <3>1. req[r] \in Request
      BY DEF LimiterTyped, LimiterTypeOK
    <3>2. req' = [req EXCEPT ![r] = [req[r] EXCEPT !.pc = "load", !.key = k, !.now = clock]]
      BY <1>2 DEF Arrive, LimiterTyped, LimiterTypeOK
    <3> QED BY <1>2, <3>1, <3>2 DEF Arrive, LimiterTyped, LimiterTypeOK, Request
  <2>2. clock \in Nat /\ MaxStall \in Nat
    BY LimiterAssumption DEF LimiterTyped, LimiterTypeOK
  <2> QED BY <2>1, <2>2 DEF Timely, Started
<1>3. CASE Clean
  <2>1. cleaner'.now \in {clock, cleaner.now, 0} /\ UNCHANGED <<clock, req, bucket>>
    <3>1. ASSUME NEW k \in Keys, Test(k)
          PROVE  cleaner'.now = cleaner.now /\ UNCHANGED <<clock, req, bucket>>
      BY <3>1 DEF Test, LimiterTyped, LimiterTypeOK, Cleaner
    <3>2. CASE Sweep
      BY <3>2 DEF Sweep
    <3>3. CASE Delete
      BY <3>3 DEF Delete, LimiterTyped, LimiterTypeOK, Cleaner
    <3>4. CASE SweepEnds
      BY <3>4 DEF SweepEnds, LimiterTyped, LimiterTypeOK, Cleaner
    <3> QED BY <1>3, <3>1, <3>2, <3>3, <3>4 DEF Clean
  <2> QED BY <2>1 DEF Timely, Started, LimiterTyped, LimiterTypeOK
<1>4. CASE Tick
  <2>1. /\ clock \in Nat /\ MaxStall \in Nat /\ cleaner.now \in Nat
        /\ \A r \in Requests : req[r].now \in Nat /\ bucket[r].last \in Nat
    BY LimiterAssumption DEF LimiterTyped, LimiterTypeOK, Request, Bucket, Cleaner
  <2>2. /\ \A r \in Started : clock < req[r].now + MaxStall /\ r \in Requests
        /\ clock' = clock + 1 /\ UNCHANGED <<req, bucket, cleaner>>
    BY <1>4 DEF Tick, Started
  <2> QED BY <2>1, <2>2 DEF Timely, Started
<1>5. CASE UNCHANGED limiterVars
  BY <1>5 DEF Timely, Started, limiterVars
<1> QED
  BY <1>1, <1>2, <1>3, <1>4, <1>5, AllowTimely, LoadOrStoreTimely DEF LimiterNext, Serve

(* A bucket that was idle for long enough has earned back all it holds. *)
LEMMA DropsFull ==
  ASSUME TimedInv, NEW k \in Keys, Test(k), cleaner'.pc = "delete"
  PROVE  Refilled(bucket[map[cleaner'.key]], clock).tokens = Full
<1> DEFINE b == bucket[map[k]]
<1>1. /\ cleaner'.key = k /\ map[k] \in Requests /\ cleaner.now - b.lastSeen > Idle
  BY DEF TimedInv, LimiterTyped, LimiterTypeOK, Test, Cleaner, IsIdle
<1>2. /\ b \in Bucket /\ b.tokens \in Nat /\ b.last \in Nat /\ b.lastSeen \in Nat
      /\ clock \in Nat /\ cleaner.now \in Nat
  BY <1>1, FullType DEF TimedInv, LimiterTyped, LimiterTypeOK, Bucket, Cleaner
<1>3. b.last <= b.lastSeen + MaxStall /\ cleaner.now <= clock
  BY <1>1 DEF TimedInv, Timely
<1>4. clock - b.last >= Full /\ clock > b.last
  <2>1. Full + MaxStall <= Idle + 1 /\ MaxStall \in Nat /\ Idle \in Nat /\ Full \in Nat /\ Full > 0
    BY FullType, LimiterAssumption
  <2> HIDE DEF b
  <2> QED BY <1>1, <1>2, <1>3, <2>1
<1> HIDE DEF b
<1>5. b.tokens <= Full
  BY <1>2, FullType DEF Bucket
<1>6. Refilled(b, clock).tokens = Full
  <2>1. b.tokens + (clock - b.last) >= Full
    BY <1>2, <1>4, FullType
  <2>2. Refilled(b, clock).tokens =
          IF Full < b.tokens + (clock - b.last) THEN Full ELSE b.tokens + (clock - b.last)
    BY <1>2, <1>4 DEF Refilled, Bucket
  <2> QED BY <1>2, <1>4, <2>1, <2>2, FullType
<1> QED BY <1>1, <1>6 DEF b

(* NothingIsForgiven: for every rate, burst and cleanup period whose Idle  *)
(* exceeds the time a bucket takes to fill by more than a stall, the       *)
(* cleaner only decides to drop buckets that would be full by then.        *)
THEOREM NothingIsForgiven == LimiterSpec => ForgetsOnlyFull
<1>1. LimiterInit => TimedInv
  <2> SUFFICES ASSUME LimiterInit PROVE Timely
    BY InitTyped DEF TimedInv
  <2> QED BY LimiterAssumption DEF LimiterInit, Timely, Started, NewBucket
<1>2. TimedInv /\ [LimiterNext]_limiterVars =>
        [cleaner.pc = "range" /\ cleaner'.pc = "delete" =>
           Refilled(bucket[map[cleaner'.key]], clock).tokens = Full]_limiterVars
  <2> SUFFICES ASSUME TimedInv, LimiterNext, cleaner.pc = "range", cleaner'.pc = "delete"
               PROVE  Refilled(bucket[map[cleaner'.key]], clock).tokens = Full
    BY DEF limiterVars
  <2>1. PICK k \in Keys : Test(k)
    BY DEF LimiterNext, Serve, Clean, PassWebSocket, Arrive, LoadOrStore, Allow, Tick, Sweep,
           Delete, SweepEnds, TimedInv, LimiterTyped, LimiterTypeOK, Cleaner
  <2> QED BY <2>1, DropsFull
<1> QED BY <1>1, <1>2, NextTimely, PTL DEF LimiterSpec, ForgetsOnlyFull

-----------------------------------------------------------------------------
(* AddressBounded.  An address may pass through several buckets, and the   *)
(* proof follows how they replace each other: T[b] is when bucket b was    *)
(* stored, and G[r] is the grant of its bucket that let request r through. *)

(* A bucket that some request stored. *)
Kept(b) == req[b].bucket = b

Linked ==
  /\ \A r \in Requests :
       /\ req[r].pc \in {"new", "load"} => req[r].bucket = Missing
       /\ req[r].pc = "new" => req[r].key = Missing
       /\ req[r].pc # "done" => req[r].answer = "none"
       /\ req[r].bucket # Missing =>
            Kept(req[r].bucket) /\ req[req[r].bucket].key = req[r].key /\ req[r].key \in Keys
       /\ req[r].answer = "passed" /\ req[r].key # Missing => req[r].bucket # Missing
  /\ \A k \in Keys : map[k] # Missing => Kept(map[k]) /\ req[map[k]].key = k
  /\ cleaner.pc = "delete" => map[cleaner.key] # Missing

Answered == \A r \in Requests : req[r].at <= clock

(* The cleaner has found b idle, or has deleted it. *)
Leaving(b) == map[req[b].key] # b \/ (cleaner.pc = "delete" /\ cleaner.key = req[b].key)

(* Nothing in a bucket is more than a stall older than its LoadOrStore. *)
Aged(T, b) ==
  /\ T[b] <= clock /\ T[b] <= bucket[b].last + MaxStall /\ T[b] <= bucket[b].lastSeen + MaxStall
  /\ \A i \in DOMAIN bucket[b].grants :
       T[b] <= bucket[b].grants[i] + MaxStall /\ bucket[b].grants[i] <= bucket[b].last
  /\ \A r \in Requests : req[r].bucket = b /\ req[r].answer = "passed" => T[b] <= req[r].at
  /\ Leaving(b) => Idle + T[b] < clock + MaxStall

(* Bucket c was stored after b had been deleted, so all who hold b had     *)
(* loaded it, and read the clock, before.                                  *)
Replaces(T, b, c) ==
  /\ map[req[b].key] # b
  /\ bucket[b].last <= T[c]
  /\ Idle + T[b] < T[c] + MaxStall
  /\ \A r \in Requests : req[r].bucket = b =>
       /\ req[r].pc = "allow" => req[r].now <= T[c]
       /\ req[r].answer = "passed" => req[r].at <= T[c] + MaxStall

InTurn(T) ==
  /\ \A b \in Requests : Kept(b) => Aged(T, b)
  /\ \A b, c \in Requests : Kept(b) /\ Kept(c) /\ b # c /\ req[b].key = req[c].key =>
       Replaces(T, b, c) \/ Replaces(T, c, b)

Granted(G) ==
  /\ \A r \in Requests : req[r].answer = "passed" /\ req[r].bucket # Missing =>
       LET g == bucket[req[r].bucket].grants IN
       G[r] \in DOMAIN g /\ g[G[r]] <= req[r].at /\ req[r].at <= g[G[r]] + MaxStall
  /\ \A r, q \in Requests :
       /\ req[r].answer = "passed" /\ req[q].answer = "passed"
       /\ req[r].bucket = req[q].bucket /\ req[r].bucket # Missing /\ G[r] = G[q]
       => r = q

AddressInv ==
  /\ LimiterInv /\ Timely /\ Linked /\ Answered
  /\ \E T \in [Requests -> Nat] : InTurn(T)
  /\ \E G \in [Requests -> Nat] : Granted(G)

(* What allow changes. *)
LEMMA AllowEffect ==
  ASSUME LimiterTyped, Timely, Linked, NEW r \in Requests, Allow(r)
  PROVE  /\ req[r].pc = "allow" /\ req[r].bucket \in Requests /\ Kept(req[r].bucket)
         /\ r \in Started /\ req[r].now \in Nat
         /\ \A q \in Requests : q # r => req'[q] = req[q]
         /\ req'[r].pc = "done" /\ req'[r].key = req[r].key /\ req'[r].bucket = req[r].bucket
         /\ req'[r].at = IF req'[r].answer = "passed" THEN clock ELSE 0
         /\ \A b \in Requests : b # req[r].bucket => bucket'[b] = bucket[b]
         /\ LET b == bucket[req[r].bucket]
                n == bucket'[req[r].bucket]
            IN  /\ n.last = (IF req[r].now > b.last THEN req[r].now ELSE b.last)
                /\ n.lastSeen = req[r].now
                /\ n.grants = IF req'[r].answer = "passed" THEN Append(b.grants, n.last)
                              ELSE b.grants
         /\ UNCHANGED <<clock, map, cleaner>>
<1> DEFINE c == req[r].bucket
           f == Refilled(bucket[c], req[r].now)
           passes == f.tokens >= Cost
<1>1. c \in Requests /\ bucket[c] \in Bucket /\ req[r] \in Request /\ req[r].now \in Nat
  BY DEF Allow, LimiterTyped, LimiterTypeOK, Placed, Request
<1>2. /\ f.last = (IF req[r].now > bucket[c].last THEN req[r].now ELSE bucket[c].last)
      /\ f.grants = bucket[c].grants
  BY <1>1, RefilledFacts
<1>3. c # Missing /\ Kept(c)
  BY <1>1, LimiterAssumption DEF Linked
<1>4. bucket' = [bucket EXCEPT ![c] = [tokens |-> IF passes THEN f.tokens - Cost ELSE f.tokens,
                   last |-> f.last, lastSeen |-> req[r].now,
                   grants |-> IF passes THEN Append(f.grants, f.last) ELSE f.grants]]
  BY DEF Allow
<1>5. req' = [req EXCEPT ![r] = [req[r] EXCEPT !.pc = "done", !.now = 0,
                !.at = IF passes THEN clock ELSE 0,
                !.answer = IF passes THEN "passed" ELSE "limited"]]
  <2> HIDE DEF passes
  <2>1. req' = [req EXCEPT ![r].pc = "done", ![r].now = 0, ![r].at = IF passes THEN clock ELSE 0,
                           ![r].answer = IF passes THEN "passed" ELSE "limited"]
    BY DEF Allow, passes
  <2> QED BY <2>1, <1>1 DEF LimiterTyped, LimiterTypeOK
<1> HIDE DEF passes, f
<1>6. /\ \A q \in Requests : q # r => req'[q] = req[q]
      /\ req'[r].pc = "done" /\ req'[r].key = req[r].key /\ req'[r].bucket = c
      /\ req'[r].answer = (IF passes THEN "passed" ELSE "limited")
      /\ req'[r].at = (IF passes THEN clock ELSE 0)
  BY <1>1, <1>5 DEF LimiterTyped, LimiterTypeOK, Request
<1>7. /\ \A b \in Requests : b # c => bucket'[b] = bucket[b]
      /\ bucket'[c].last = f.last /\ bucket'[c].lastSeen = req[r].now
      /\ bucket'[c].grants = IF passes THEN Append(f.grants, f.last) ELSE f.grants
  BY <1>1, <1>4 DEF LimiterTyped, LimiterTypeOK
<1>8. passes <=> req'[r].answer = "passed"
  BY <1>6
<1>9. req[r].pc = "allow" /\ r \in Started /\ UNCHANGED <<clock, map, cleaner>>
  BY DEF Allow, Started
<1> HIDE DEF c
<1>10. /\ bucket'[c].last = (IF req[r].now > bucket[c].last THEN req[r].now ELSE bucket[c].last)
       /\ bucket'[c].grants = IF req'[r].answer = "passed" THEN Append(bucket[c].grants, bucket'[c].last)
                              ELSE bucket[c].grants
  BY <1>2, <1>7, <1>8
<1> QED BY <1>1, <1>3, <1>6, <1>7, <1>8, <1>9, <1>10 DEF c

(* What LoadOrStore changes when it finds a bucket. *)
LEMMA LoadEffect ==
  ASSUME LimiterTyped, Linked, NEW r \in Requests, LoadOrStore(r), map[req[r].key] # Missing
  PROVE  /\ \A q \in Requests : q # r => req'[q] = req[q]
         /\ req[r].pc = "load" /\ req'[r].pc = "allow" /\ req[r].bucket = Missing
         /\ req'[r].key = req[r].key /\ req[r].key \in Keys
         /\ req'[r].answer = req[r].answer /\ req[r].answer = "none" /\ req'[r].now = req[r].now
         /\ req'[r].at = req[r].at
         /\ req'[r].bucket = map[req[r].key] /\ map[req[r].key] \in Requests
         /\ UNCHANGED <<clock, bucket, map, cleaner>>
<1> DEFINE k == req[r].key
<1>1. /\ req[r].pc = "load" /\ req[r] \in Request /\ k \in Keys /\ map[k] \in Requests
      /\ req[r].bucket = Missing /\ req[r].answer = "none"
  BY DEF LoadOrStore, LimiterTyped, LimiterTypeOK, Placed, Request, Linked
<1>2. req' = [req EXCEPT ![r].pc = "allow", ![r].bucket = map[k]]
      /\ UNCHANGED <<clock, bucket, map, cleaner>>
  BY DEF LoadOrStore
<1> QED BY <1>1, <1>2 DEF LimiterTyped, LimiterTypeOK, Request

(* What it changes when it stores one. *)
LEMMA StoreNewEffect ==
  ASSUME LimiterTyped, Linked, NEW r \in Requests, LoadOrStore(r), map[req[r].key] = Missing
  PROVE  /\ \A q \in Requests : q # r => req'[q] = req[q] /\ bucket'[q] = bucket[q]
         /\ req[r].pc = "load" /\ req'[r].pc = "allow" /\ req[r].bucket = Missing
         /\ req'[r].key = req[r].key /\ req[r].key \in Keys
         /\ req'[r].answer = req[r].answer /\ req[r].answer = "none" /\ req'[r].now = req[r].now
         /\ req'[r].at = req[r].at
         /\ req'[r].bucket = r /\ bucket'[r] = NewBucket(req[r].now)
         /\ map' = [map EXCEPT ![req[r].key] = r]
         /\ UNCHANGED <<clock, cleaner>>
<1> DEFINE k == req[r].key
<1>1. /\ req[r].pc = "load" /\ req[r] \in Request /\ k \in Keys
      /\ req[r].bucket = Missing /\ req[r].answer = "none"
  BY DEF LoadOrStore, LimiterTyped, LimiterTypeOK, Placed, Request, Linked
<1>2. /\ req' = [req EXCEPT ![r].pc = "allow", ![r].bucket = r]
      /\ bucket' = [bucket EXCEPT ![r] = NewBucket(req[r].now)]
      /\ map' = [map EXCEPT ![k] = r] /\ UNCHANGED <<clock, cleaner>>
  BY DEF LoadOrStore
<1> QED BY <1>1, <1>2 DEF LimiterTyped, LimiterTypeOK, Request

(* The two first steps of a request touch no bucket. *)
LEMMA EntryEffect ==
  ASSUME LimiterTyped, Linked, NEW r \in Requests,
         PassWebSocket(r) \/ \E k \in Keys : Arrive(r, k)
  PROVE  /\ \A q \in Requests : q # r => req'[q] = req[q]
         /\ req[r].bucket = Missing /\ req'[r].bucket = Missing
         /\ req[r].answer = "none" /\ req[r].pc = "new"
         /\ \/ req'[r].pc = "done" /\ req'[r].key = Missing
            \/ req'[r].pc = "load" /\ req'[r].answer = "none" /\ req'[r].key \in Keys
         /\ UNCHANGED <<clock, bucket, map, cleaner>>
<1>1. req[r] \in Request
  BY DEF LimiterTyped, LimiterTypeOK
<1>2. CASE PassWebSocket(r)
  <2>1. /\ req[r].pc = "new" /\ req[r].bucket = Missing /\ req[r].answer = "none" /\ req[r].key = Missing
        /\ UNCHANGED <<clock, bucket, map, cleaner>>
    BY <1>2 DEF PassWebSocket, Linked
  <2>2. req' = [req EXCEPT ![r] = [req[r] EXCEPT !.pc = "done", !.answer = "passed"]]
    BY <1>2 DEF PassWebSocket, LimiterTyped, LimiterTypeOK
  <2> QED BY <1>1, <2>1, <2>2 DEF LimiterTyped, LimiterTypeOK, Request
<1>3. ASSUME NEW k \in Keys, Arrive(r, k)
      PROVE  /\ \A q \in Requests : q # r => req'[q] = req[q]
             /\ req[r].bucket = Missing /\ req'[r].bucket = Missing
             /\ req[r].answer = "none" /\ req[r].pc = "new"
             /\ req'[r].pc = "load" /\ req'[r].answer = "none" /\ req'[r].key \in Keys
             /\ UNCHANGED <<clock, bucket, map, cleaner>>
  <2>1. /\ req[r].pc = "new" /\ req[r].bucket = Missing /\ req[r].answer = "none"
        /\ UNCHANGED <<clock, bucket, map, cleaner>>
    BY <1>3 DEF Arrive, Linked
  <2>2. req' = [req EXCEPT ![r] = [req[r] EXCEPT !.pc = "load", !.key = k, !.now = clock]]
    BY <1>3 DEF Arrive, LimiterTyped, LimiterTypeOK
  <2> QED BY <1>1, <2>1, <2>2 DEF LimiterTyped, LimiterTypeOK, Request
<1> QED BY <1>2, <1>3

(* The cleaner only ever empties a place in the map, the one it chose. *)
LEMMA CleanEffect ==
  ASSUME LimiterTyped, Clean
  PROVE  /\ UNCHANGED <<clock, req, bucket>>
         /\ \/ Delete
            \/ /\ map' = map
               /\ cleaner'.pc = "delete" =>
                    /\ map[cleaner'.key] # Missing /\ cleaner'.key \in Keys
                    /\ IsIdle(bucket[map[cleaner'.key]], cleaner.now)
<1>1. ASSUME NEW k \in Keys, Test(k)
      PROVE  /\ UNCHANGED <<clock, req, bucket, map>>
             /\ cleaner'.pc = "delete" => cleaner'.key = k /\ map[k] # Missing
                                          /\ IsIdle(bucket[map[k]], cleaner.now)
  BY <1>1 DEF Test, LimiterTyped, LimiterTypeOK, Cleaner
<1>2. CASE Sweep
  BY <1>2 DEF Sweep
<1>3. CASE Delete
  BY <1>3 DEF Delete
<1>4. CASE SweepEnds
  BY <1>4 DEF SweepEnds, LimiterTyped, LimiterTypeOK, Cleaner
<1> QED BY <1>1, <1>2, <1>3, <1>4 DEF Clean

LEMMA NextLinked ==
  ASSUME LimiterTyped, Timely, Linked, [LimiterNext]_limiterVars
  PROVE  Linked'
<1>0. cleaner'.pc = "delete" => map'[cleaner'.key] # Missing
  <2>1. cleaner.pc = "delete" => cleaner.key \in Keys /\ map[cleaner.key] # Missing
    BY DEF Linked, LimiterTyped, Placed
  <2>2. ASSUME NEW r \in Requests, LoadOrStore(r)
        PROVE  UNCHANGED cleaner /\ \A k \in Keys : map[k] # Missing => map'[k] # Missing
    BY <2>2, LimiterAssumption DEF LoadOrStore, LimiterTyped, LimiterTypeOK
  <2>3. ASSUME NEW r \in Requests, PassWebSocket(r) \/ (\E k \in Keys : Arrive(r, k)) \/ Allow(r)
        PROVE  UNCHANGED <<map, cleaner>>
    BY <2>3 DEF PassWebSocket, Arrive, Allow
  <2>4. CASE Clean
    <3>1. CASE Delete
      BY <3>1 DEF Delete, LimiterTyped, LimiterTypeOK, Cleaner
    <3> QED BY <2>4, <3>1, CleanEffect
  <2> QED BY <2>1, <2>2, <2>3, <2>4 DEF LimiterNext, Serve, Tick, limiterVars
<1>1. ASSUME NEW r \in Requests, Allow(r) PROVE Linked'
  <2>1. /\ \A q \in Requests : /\ req'[q].bucket = req[q].bucket /\ req'[q].key = req[q].key
                               /\ q # r => req'[q] = req[q]
        /\ req'[r].pc = "done" /\ req[r].bucket \in Requests /\ map' = map
    BY <1>1, AllowEffect
  <2>2. \A k \in Keys : map[k] \in Requests \cup {Missing}
    BY DEF LimiterTyped, LimiterTypeOK
  <2>3. \A q \in Requests : req[q].bucket \in Requests \cup {Missing}
    BY DEF LimiterTyped, LimiterTypeOK, Request
  <2> QED BY <1>0, <2>1, <2>2, <2>3, LimiterAssumption DEF Linked, Kept
<1>2. ASSUME NEW r \in Requests, LoadOrStore(r), map[req[r].key] # Missing PROVE Linked'
  <2>1. /\ \A q \in Requests : q # r => req'[q] = req[q]
        /\ req'[r].pc = "allow" /\ req'[r].key = req[r].key /\ req[r].key \in Keys
        /\ req[r].bucket = Missing /\ req'[r].answer = "none"
        /\ req'[r].bucket = map[req[r].key] /\ map[req[r].key] \in Requests /\ map' = map
    BY <1>2, LoadEffect
  <2>2. \A q \in Requests : Kept(q) => q # r /\ req'[q] = req[q]
    BY <2>1, LimiterAssumption DEF Kept
  <2>3. \A k \in Keys : map[k] \in Requests \cup {Missing}
    BY DEF LimiterTyped, LimiterTypeOK
  <2>4. \A q \in Requests : req[q].bucket \in Requests \cup {Missing}
    BY DEF LimiterTyped, LimiterTypeOK, Request
  <2> QED BY <1>0, <2>1, <2>2, <2>3, <2>4, LimiterAssumption DEF Linked, Kept
<1>3. ASSUME NEW r \in Requests, LoadOrStore(r), map[req[r].key] = Missing PROVE Linked'
  <2>1. /\ \A q \in Requests : q # r => req'[q] = req[q]
        /\ req'[r].pc = "allow" /\ req'[r].key = req[r].key /\ req[r].key \in Keys
        /\ req[r].bucket = Missing /\ req'[r].answer = "none"
        /\ req'[r].bucket = r /\ map' = [map EXCEPT ![req[r].key] = r]
    BY <1>3, StoreNewEffect
  <2>2. \A q \in Requests : Kept(q) => q # r /\ req'[q] = req[q]
    BY <2>1, LimiterAssumption DEF Kept
  <2>3. /\ \A k \in Keys : map[k] \in Requests \cup {Missing}
        /\ \A k \in Keys : map'[k] = IF k = req[r].key THEN r ELSE map[k]
    BY <2>1 DEF LimiterTyped, LimiterTypeOK
  <2>4. \A q \in Requests : req[q].bucket \in Requests \cup {Missing}
    BY DEF LimiterTyped, LimiterTypeOK, Request
  <2> QED BY <1>0, <2>1, <2>2, <2>3, <2>4, LimiterAssumption DEF Linked, Kept
<1>4. ASSUME NEW r \in Requests, PassWebSocket(r) \/ \E k \in Keys : Arrive(r, k) PROVE Linked'
  <2>1. /\ \A q \in Requests : q # r => req'[q] = req[q]
        /\ req[r].bucket = Missing /\ req'[r].bucket = Missing
        /\ \/ req'[r].pc = "done" /\ req'[r].key = Missing
           \/ req'[r].pc = "load" /\ req'[r].answer = "none" /\ req'[r].key \in Keys
        /\ map' = map
    BY <1>4, EntryEffect
  <2>2. \A q \in Requests : Kept(q) => q # r /\ req'[q] = req[q]
    BY <2>1, LimiterAssumption DEF Kept
  <2>3. \A k \in Keys : map[k] \in Requests \cup {Missing}
    BY DEF LimiterTyped, LimiterTypeOK
  <2>4. \A q \in Requests : req[q].bucket \in Requests \cup {Missing}
    BY DEF LimiterTyped, LimiterTypeOK, Request
  <2> QED BY <1>0, <2>1, <2>2, <2>3, <2>4, LimiterAssumption DEF Linked, Kept
<1>5. CASE Clean
  <2>1. req' = req /\ \A k \in Keys : map'[k] \in {map[k], Missing}
    BY <1>5, CleanEffect DEF Delete, LimiterTyped, LimiterTypeOK
  <2> QED BY <1>0, <2>1 DEF Linked, Kept
<1>6. CASE Tick \/ UNCHANGED limiterVars
  BY <1>6 DEF Linked, Kept, Tick, limiterVars
<1> QED
  BY <1>1, <1>2, <1>3, <1>4, <1>5, <1>6 DEF LimiterNext, Serve

LEMMA NextGranted ==
  ASSUME LimiterTyped, Timely, Linked, [LimiterNext]_limiterVars,
         NEW G \in [Requests -> Nat], Granted(G)
  PROVE  \E H \in [Requests -> Nat] : Granted(H)'
<1> DEFINE Passed(q) == req[q].answer = "passed" /\ req[q].bucket # Missing
<1>1. ASSUME NEW r \in Requests, Allow(r) PROVE \E H \in [Requests -> Nat] : Granted(H)'
  <2> DEFINE c == req[r].bucket
             g == bucket[c].grants
             n == bucket'[c].grants
  <2>1. /\ req[r].pc = "allow" /\ c \in Requests /\ req[r].now \in Nat /\ r \in Started
        /\ \A q \in Requests : q # r => req'[q] = req[q]
        /\ req'[r].bucket = c
        /\ req'[r].answer = "passed" => req'[r].at = clock
        /\ \A b \in Requests : b # c => bucket'[b] = bucket[b]
        /\ bucket'[c].last = (IF req[r].now > bucket[c].last THEN req[r].now ELSE bucket[c].last)
        /\ n = IF req'[r].answer = "passed" THEN Append(g, bucket'[c].last) ELSE g
    BY <1>1, AllowEffect
  <2>2. /\ ~Passed(r) /\ g \in Seq(Nat) /\ bucket[c].last \in Nat /\ clock \in Nat
        /\ \A q \in Requests : req[q].bucket \in Requests \cup {Missing}
    BY <2>1 DEF Linked, LimiterTyped, LimiterTypeOK, Request, Bucket
  <2> HIDE DEF g, n, c
  <2>3. CASE req'[r].answer # "passed"
    <3>1. \A b \in Requests : bucket'[b].grants = bucket[b].grants
      BY <2>1, <2>3 DEF g, n
    <3>2. \A q \in Requests : (Passed(q))' => q # r /\ req'[q] = req[q]
      BY <2>1, <2>3
    <3>3. Granted(G)'
      BY <2>2, <3>1, <3>2 DEF Granted
    <3> QED BY <3>3
  <2>4. CASE req'[r].answer = "passed"
    <3>1. /\ Len(g) \in Nat /\ DOMAIN g = 1..Len(g) /\ DOMAIN n = 1..(Len(g) + 1)
          /\ n[Len(g) + 1] = bucket'[c].last
          /\ \A i \in 1..Len(g) : n[i] = g[i]
      <4>1. bucket'[c].last \in Nat
        BY <2>1, <2>2
      <4> QED BY <2>1, <2>2, <2>4, <4>1, AppendProperties, LenProperties, SMTT(30)
    <3>2. PICK H \in [Requests -> Nat] :
            H[r] = Len(g) + 1 /\ \A q \in Requests : q # r => H[q] = G[q]
      <4>1. [G EXCEPT ![r] = Len(g) + 1] \in [Requests -> Nat]
        BY <3>1
      <4> QED BY <4>1
    <3>3. bucket'[c].last <= clock /\ clock <= bucket'[c].last + MaxStall
      <4>1. /\ req[r].now <= clock /\ clock <= req[r].now + MaxStall
            /\ bucket[c].last <= clock /\ MaxStall \in Nat
        BY <2>1, LimiterAssumption DEF Timely
      <4> QED BY <2>1, <2>2, <4>1
    <3>4. Granted(H)'
      <4> SUFFICES ASSUME NEW q \in Requests, (Passed(q))'
                   PROVE  /\ H[q] \in DOMAIN bucket'[req'[q].bucket].grants
                          /\ bucket'[req'[q].bucket].grants[H[q]] <= req'[q].at
                          /\ req'[q].at <= bucket'[req'[q].bucket].grants[H[q]] + MaxStall
                          /\ \A p \in Requests :
                               req'[p].answer = "passed" /\ req'[q].bucket = req'[p].bucket
                                 /\ H[q] = H[p] => q = p
        BY DEF Granted
      <4>1. \A p \in Requests \ {r} : req[p].answer = "passed" /\ req[p].bucket = c => G[p] \in 1..Len(g)
        BY <2>1, <2>2, <3>1, LimiterAssumption DEF Granted, g
      <4>2. CASE q = r
        BY <2>1, <2>4, <3>1, <3>2, <3>3, <4>1, <4>2 DEF n
      <4>3. CASE q # r
        <5>1. req'[q] = req[q] /\ Passed(q) /\ req[q].bucket \in Requests
          BY <2>1, <2>2, <4>3
        <5>2. /\ H[q] \in DOMAIN bucket'[req'[q].bucket].grants
              /\ bucket'[req'[q].bucket].grants[H[q]] <= req'[q].at
              /\ req'[q].at <= bucket'[req'[q].bucket].grants[H[q]] + MaxStall
          <6>1. CASE req[q].bucket = c
            <7>1. /\ G[q] \in 1..Len(g)
                  /\ g[G[q]] <= req[q].at /\ req[q].at <= g[G[q]] + MaxStall
              <8>1. G[q] \in DOMAIN bucket[c].grants /\ bucket[c].grants[G[q]] <= req[q].at
                    /\ req[q].at <= bucket[c].grants[G[q]] + MaxStall
                BY <5>1, <6>1 DEF Granted
              <8> QED BY <3>1, <8>1 DEF g
            <7>2. bucket'[req'[q].bucket].grants = n /\ H[q] = G[q]
              BY <3>2, <4>3, <5>1, <6>1 DEF n
            <7>3. n[G[q]] = g[G[q]] /\ G[q] \in DOMAIN n
              BY <3>1, <7>1
            <7> QED BY <5>1, <7>1, <7>2, <7>3
          <6>2. CASE req[q].bucket # c
            BY <2>1, <3>2, <4>3, <5>1, <6>2 DEF Granted
          <6> QED BY <6>1, <6>2
        <5>3. ASSUME NEW p \in Requests, req'[p].answer = "passed",
                     req'[q].bucket = req'[p].bucket, H[q] = H[p]
              PROVE  q = p
          <6>1. CASE p = r
            BY <2>1, <3>1, <3>2, <4>1, <4>3, <5>1, <5>3, <6>1
          <6>2. CASE p # r
            BY <2>1, <3>2, <4>3, <5>1, <5>3, <6>2 DEF Granted
          <6> QED BY <6>1, <6>2
        <5> QED BY <5>2, <5>3
      <4> QED BY <4>2, <4>3
    <3> QED BY <3>4
  <2> QED BY <2>3, <2>4
<1>2. ASSUME \A q \in Requests : (Passed(q))' => req'[q] = req[q],
             \A q \in Requests : Kept(q) => bucket'[q] = bucket[q]
      PROVE  \E H \in [Requests -> Nat] : Granted(H)'
  <2>1. \A q \in Requests : (Passed(q))' => Passed(q) /\ bucket'[req'[q].bucket] = bucket[req[q].bucket]
    <3>1. \A q \in Requests : req[q].bucket \in Requests \cup {Missing}
      BY DEF LimiterTyped, LimiterTypeOK, Request
    <3> QED BY <1>2, <3>1 DEF Linked
  <2>2. Granted(G)'
    BY <1>2, <2>1 DEF Granted
  <2> QED BY <2>2
<1>3. ASSUME NEW r \in Requests, LoadOrStore(r), map[req[r].key] # Missing
      PROVE  \E H \in [Requests -> Nat] : Granted(H)'
  BY <1>2, <1>3, LoadEffect
<1>4. ASSUME NEW r \in Requests, LoadOrStore(r), map[req[r].key] = Missing
      PROVE  \E H \in [Requests -> Nat] : Granted(H)'
  <2>1. \A q \in Requests : (Passed(q))' => req'[q] = req[q]
    BY <1>4, StoreNewEffect
  <2>2. \A q \in Requests : Kept(q) => bucket'[q] = bucket[q]
    BY <1>4, StoreNewEffect, LimiterAssumption DEF Kept
  <2> QED BY <1>2, <2>1, <2>2
<1>5. ASSUME NEW r \in Requests, PassWebSocket(r) \/ \E k \in Keys : Arrive(r, k)
      PROVE  \E H \in [Requests -> Nat] : Granted(H)'
  BY <1>2, <1>5, EntryEffect
<1>6. CASE Clean
  BY <1>2, <1>6, CleanEffect
<1>7. CASE Tick \/ UNCHANGED limiterVars
  BY <1>2, <1>7 DEF Tick, limiterVars
<1> QED
  BY <1>1, <1>3, <1>4, <1>5, <1>6, <1>7 DEF LimiterNext, Serve

(* Who holds what is a natural number. *)
LEMMA Numbers ==
  ASSUME LimiterTyped
  PROVE  /\ clock \in Nat /\ MaxStall \in Nat /\ Idle \in Nat /\ cleaner.now \in Nat
         /\ \A r \in Requests : req[r].at \in Nat /\ req[r].now \in Nat
                                /\ req[r].bucket \in Requests \cup {Missing}
         /\ \A b \in Requests :
              /\ bucket[b].last \in Nat /\ bucket[b].lastSeen \in Nat /\ bucket[b].grants \in Seq(Nat)
              /\ \A i \in DOMAIN bucket[b].grants : bucket[b].grants[i] \in Nat
<1>1. /\ \A r \in Requests : req[r] \in Request
      /\ \A b \in Requests : bucket[b] \in Bucket
      /\ cleaner \in Cleaner /\ clock \in Nat
  BY DEF LimiterTyped, LimiterTypeOK
<1>2. \A g \in Seq(Nat) : \A i \in DOMAIN g : g[i] \in Nat
  BY ElementOfSeq, LenProperties
<1> QED BY <1>1, <1>2, LimiterAssumption DEF Request, Bucket, Cleaner

LEMMA AllowInTurn ==
  ASSUME LimiterTyped, Timely, Linked, NEW r \in Requests, Allow(r),
         NEW T \in [Requests -> Nat], InTurn(T)
  PROVE  InTurn(T)'
<1> DEFINE c == req[r].bucket
           now == req[r].now
           o == bucket[c]
           n == bucket'[c]
<1>1. /\ req[r].pc = "allow" /\ c \in Requests /\ now \in Nat /\ r \in Started /\ Kept(c)
      /\ \A q \in Requests : q # r => req'[q] = req[q]
      /\ req'[r].pc = "done" /\ req'[r].bucket = c /\ req'[r].key = req[r].key
      /\ req'[r].answer = "passed" => req'[r].at = clock
      /\ \A b \in Requests : b # c => bucket'[b] = bucket[b]
      /\ n.last = (IF now > o.last THEN now ELSE o.last) /\ n.lastSeen = now
      /\ n.grants = IF req'[r].answer = "passed" THEN Append(o.grants, n.last) ELSE o.grants
      /\ UNCHANGED <<clock, map, cleaner>>
  BY AllowEffect
<1>2. /\ clock \in Nat /\ MaxStall \in Nat /\ Idle \in Nat
      /\ \A q \in Requests : req[q].at \in Nat /\ req[q].now \in Nat
      /\ \A b \in Requests : T[b] \in Nat /\ bucket[b].last \in Nat
      /\ o.last \in Nat /\ o.grants \in Seq(Nat)
      /\ \A i \in DOMAIN o.grants : o.grants[i] \in Nat
  BY <1>1, Numbers
<1>3. now <= clock /\ clock <= now + MaxStall
  BY <1>1 DEF Timely
<1>4. /\ \A q \in Requests : req'[q].bucket = req[q].bucket /\ req'[q].key = req[q].key
      /\ \A b \in Requests : (Kept(b))' <=> Kept(b)
      /\ \A b \in Requests : (Leaving(b))' <=> Leaving(b)
  BY <1>1 DEF Kept, Leaving
<1>5. n.last \in Nat /\ o.last <= n.last /\ now <= n.last
  BY <1>1, <1>2
<1>6. \A i \in DOMAIN n.grants :
        \/ i \in DOMAIN o.grants /\ n.grants[i] = o.grants[i]
        \/ n.grants[i] = n.last
  <2>1. CASE req'[r].answer = "passed"
    <3> DEFINE g == o.grants
    <3>1. /\ g \in Seq(Nat) /\ n.last \in Nat /\ n.grants = Append(g, n.last) /\ Len(g) \in Nat
          /\ DOMAIN g = 1..Len(g)
      BY <1>1, <1>2, <1>5, <2>1, LenProperties
    <3> HIDE DEF g, n
    <3>2. /\ DOMAIN n.grants = 1..(Len(g) + 1) /\ n.grants[Len(g) + 1] = n.last
          /\ \A i \in 1..Len(g) : n.grants[i] = g[i]
      BY <3>1, AppendProperties, LenProperties, SMTT(30)
    <3>3. \A i \in DOMAIN n.grants : i \in DOMAIN g \/ i = Len(g) + 1
      BY <3>1, <3>2
    <3> QED BY <3>1, <3>2, <3>3 DEF g
  <2>2. CASE req'[r].answer # "passed"
    BY <1>1, <2>2
  <2> QED BY <2>1, <2>2
<1> HIDE DEF c, o, n, now
<1>7. ASSUME NEW b \in Requests, Kept(b) PROVE (Aged(T, b))'
  <2>1. Aged(T, b)
    BY <1>7 DEF InTurn
  <2>2. CASE b # c
    <3>1. \A q \in Requests : req'[q].bucket = b => q # r /\ req'[q] = req[q]
      BY <1>1, <2>2
    <3> QED BY <1>1, <1>4, <2>1, <2>2, <3>1 DEF Aged
  <2>3. CASE b = c
    <3>1. T[c] <= clock /\ T[c] <= o.last + MaxStall
      BY <2>1, <2>3 DEF Aged, o
    <3>2. T[c] <= n.last + MaxStall /\ T[c] <= n.lastSeen + MaxStall
      BY <1>1, <1>2, <1>3, <1>5, <3>1
    <3>3. ASSUME NEW i \in DOMAIN n.grants
          PROVE  T[c] <= n.grants[i] + MaxStall /\ n.grants[i] <= n.last
      <4>1. CASE i \in DOMAIN o.grants /\ n.grants[i] = o.grants[i]
        <5>1. T[c] <= o.grants[i] + MaxStall /\ o.grants[i] <= o.last
          BY <2>1, <2>3, <4>1 DEF Aged, o
        <5> QED BY <1>2, <1>5, <4>1, <5>1
      <4>2. CASE n.grants[i] = n.last
        BY <1>5, <3>2, <4>2
      <4> QED BY <1>6, <4>1, <4>2
    <3>4. \A q \in Requests : req'[q].bucket = c /\ req'[q].answer = "passed" => T[c] <= req'[q].at
      BY <1>1, <2>1, <2>3, <3>1 DEF Aged
    <3>5. (Leaving(b))' => Idle + T[b] < clock' + MaxStall
      BY <1>1, <1>4, <2>1, <2>3 DEF Aged
    <3> QED BY <1>1, <2>3, <3>1, <3>2, <3>3, <3>4, <3>5 DEF Aged, n
  <2> QED BY <2>2, <2>3
<1>8. ASSUME NEW b \in Requests, NEW d \in Requests, Replaces(T, b, d)
      PROVE  (Replaces(T, b, d))'
  <2>1. map'[req'[b].key] # b /\ Idle + T[b] < T[d] + MaxStall
    BY <1>1, <1>4, <1>8 DEF Replaces
  <2>2. bucket'[b].last <= T[d]
    <3>1. CASE b = c
      <4>1. o.last <= T[d] /\ now <= T[d]
        BY <1>1, <1>8, <3>1 DEF Replaces, o, c, now
      <4> QED BY <1>1, <1>2, <3>1, <4>1 DEF n
    <3>2. CASE b # c
      BY <1>1, <1>8, <3>2 DEF Replaces
    <3> QED BY <3>1, <3>2
  <2>3. ASSUME NEW q \in Requests, req'[q].bucket = b
        PROVE  /\ req'[q].pc = "allow" => req'[q].now <= T[d]
               /\ req'[q].answer = "passed" => req'[q].at <= T[d] + MaxStall
    <3>1. CASE q = r
      <4>1. now <= T[d]
        BY <1>1, <1>8, <2>3, <3>1 DEF Replaces, c, now
      <4> QED BY <1>1, <1>2, <1>3, <3>1, <4>1
    <3>2. CASE q # r
      BY <1>1, <1>8, <2>3, <3>2 DEF Replaces
    <3> QED BY <3>1, <3>2
  <2> QED BY <2>1, <2>2, <2>3 DEF Replaces
<1> QED BY <1>4, <1>7, <1>8 DEF InTurn

(* Steps that touch neither a bucket nor who holds one. *)
LEMMA QuietInTurn ==
  ASSUME LimiterTyped, NEW T \in [Requests -> Nat], InTurn(T),
         clock' \in Nat, clock <= clock',
         \A b \in Requests : Kept(b) => bucket'[b] = bucket[b],
         \A q \in Requests : req'[q] # req[q] =>
           req'[q].bucket = Missing /\ req[q].bucket = Missing,
         Linked, \A k \in Keys : map'[k] = map[k] \/ map'[k] = Missing,
         \A b \in Requests : Kept(b) /\ (Leaving(b))' => Idle + T[b] < clock' + MaxStall
  PROVE  InTurn(T)'
<1>1. /\ clock \in Nat /\ MaxStall \in Nat /\ Idle \in Nat /\ Missing \notin Requests
      /\ \A b \in Requests : T[b] \in Nat
  BY Numbers, LimiterAssumption
<1>2. /\ \A q \in Requests : req'[q].bucket \in Requests => req'[q] = req[q]
      /\ \A b \in Requests : (Kept(b))' <=> Kept(b)
      /\ \A b \in Requests : Kept(b) => req'[b] = req[b]
  BY <1>1 DEF Kept
<1>3. ASSUME NEW b \in Requests, Kept(b) PROVE (Aged(T, b))'
  BY <1>1, <1>2, <1>3 DEF InTurn, Aged
<1>4. ASSUME NEW b \in Requests, NEW c \in Requests, Kept(b), req[b].key \in Keys, Replaces(T, b, c)
      PROVE  (Replaces(T, b, c))'
  BY <1>1, <1>2, <1>4 DEF Replaces
<1> QED BY <1>1, <1>2, <1>3, <1>4 DEF InTurn, Linked, Kept

LEMMA LoadInTurn ==
  ASSUME LimiterTyped, Linked, NEW r \in Requests, LoadOrStore(r), map[req[r].key] # Missing,
         NEW T \in [Requests -> Nat], InTurn(T)
  PROVE  InTurn(T)'
<1> DEFINE k == req[r].key
           e == map[k]
<1>1. /\ \A q \in Requests : q # r => req'[q] = req[q]
      /\ req[r].bucket = Missing /\ req'[r].key = k /\ k \in Keys
      /\ req'[r].answer = "none" /\ req'[r].bucket = e /\ e \in Requests
      /\ UNCHANGED <<clock, bucket, map, cleaner>>
  BY LoadEffect
<1>2. Kept(e) /\ req[e].key = k /\ e # r /\ r # Missing
  BY <1>1, LimiterAssumption DEF Linked, Kept
<1> HIDE DEF e
<1>3. /\ \A b \in Requests : req'[b].key = req[b].key
      /\ \A b \in Requests : (Kept(b))' <=> Kept(b)
  BY <1>1, <1>2 DEF Kept
<1>4. ASSUME NEW b \in Requests, Kept(b) PROVE (Aged(T, b))'
  BY <1>1, <1>2, <1>3, <1>4 DEF InTurn, Aged, Leaving
<1>5. ASSUME NEW b \in Requests, NEW c \in Requests, Replaces(T, b, c)
      PROVE  (Replaces(T, b, c))'
  <2>1. b # e
    BY <1>2, <1>5 DEF Replaces, e
  <2>2. \A q \in Requests : req'[q].bucket = b => q # r /\ req'[q] = req[q]
    BY <1>1, <2>1
  <2> QED BY <1>1, <1>3, <1>5, <2>2 DEF Replaces
<1> QED BY <1>3, <1>4, <1>5 DEF InTurn

(* A new bucket takes its turn after all that the address had. *)
LEMMA StoreNewInTurn ==
  ASSUME LimiterTyped, Timely, Linked, Answered, NEW r \in Requests, LoadOrStore(r),
         map[req[r].key] = Missing, NEW T \in [Requests -> Nat], InTurn(T)
  PROVE  \E U \in [Requests -> Nat] : InTurn(U)'
<1> DEFINE k == req[r].key
           now == req[r].now
<1>1. /\ \A q \in Requests : q # r => req'[q] = req[q] /\ bucket'[q] = bucket[q]
      /\ req[r].pc = "load" /\ req[r].bucket = Missing /\ req'[r].key = k /\ k \in Keys
      /\ req'[r].answer = "none" /\ req'[r].bucket = r
      /\ bucket'[r].last = now /\ bucket'[r].lastSeen = now /\ bucket'[r].grants = <<>>
      /\ map' = [map EXCEPT ![k] = r] /\ UNCHANGED <<clock, cleaner>>
  <2>1. bucket'[r] = NewBucket(now)
    BY StoreNewEffect
  <2>2. bucket'[r].last = now /\ bucket'[r].lastSeen = now /\ bucket'[r].grants = <<>>
    BY <2>1 DEF NewBucket
  <2> QED BY <2>2, StoreNewEffect
<1>2. /\ clock \in Nat /\ MaxStall \in Nat /\ Idle \in Nat /\ now \in Nat
      /\ now <= clock /\ clock <= now + MaxStall
      /\ \A b \in Requests : T[b] \in Nat /\ bucket[b].last \in Nat
      /\ \A q \in Requests : req[q].at \in Nat /\ req[q].now \in Nat
      /\ \A q \in Requests : req[q].bucket \in Requests \cup {Missing}
  BY <1>1, Numbers DEF Timely, Started
<1>3. /\ r # Missing /\ ~Kept(r)
      /\ \A q \in Requests : req[q].bucket # r
  BY <1>1, LimiterAssumption DEF Linked, Kept
<1>4. /\ \A x \in Keys : map'[x] = IF x = k THEN r ELSE map[x]
      /\ ~(cleaner.pc = "delete" /\ cleaner.key = k)
  BY <1>1 DEF Linked, LimiterTyped, LimiterTypeOK
<1>5. /\ \A b \in Requests : req'[b].key = req[b].key
      /\ \A b \in Requests : (Kept(b))' <=> Kept(b) \/ b = r
      /\ \A b \in Requests : Kept(b) => b # r /\ req[b].key \in Keys
  BY <1>1, <1>3, LimiterAssumption DEF Kept, Linked
<1> DEFINE W == [T EXCEPT ![r] = clock]
<1>6. W \in [Requests -> Nat] /\ W[r] = clock /\ \A b \in Requests : b # r => W[b] = T[b]
  BY <1>2
<1>7. PICK U \in [Requests -> Nat] : U[r] = clock /\ \A b \in Requests : b # r => U[b] = T[b]
  BY <1>6
<1>8. (Aged(U, r))'
  <2>1. ~(Leaving(r))'
    BY <1>1, <1>4 DEF Leaving
  <2>2. \A q \in Requests : req'[q].bucket = r => req'[q].answer # "passed"
    BY <1>1, <1>3
  <2>3. DOMAIN bucket'[r].grants = {}
    BY <1>1
  <2> QED BY <1>1, <1>2, <1>7, <2>1, <2>2, <2>3 DEF Aged
<1>9. ASSUME NEW b \in Requests, Kept(b) PROVE (Aged(U, b))'
  <2>1. Aged(T, b) /\ b # r /\ req'[b] = req[b] /\ bucket'[b] = bucket[b] /\ U[b] = T[b]
    BY <1>1, <1>5, <1>7, <1>9 DEF InTurn
  <2>2. (Leaving(b))' => Leaving(b)
    BY <1>1, <1>4, <1>5, <1>9, <2>1, LimiterAssumption DEF Leaving
  <2>3. \A q \in Requests : req'[q].bucket = b => q # r /\ req'[q] = req[q]
    BY <1>1, <2>1
  <2> QED BY <1>1, <2>1, <2>2, <2>3 DEF Aged
<1>10. ASSUME NEW b \in Requests, NEW c \in Requests, Kept(b), Kept(c), Replaces(T, b, c)
       PROVE  (Replaces(U, b, c))'
  <2>1. b # r /\ c # r /\ U[b] = T[b] /\ U[c] = T[c] /\ bucket'[b] = bucket[b] /\ req'[b] = req[b]
    BY <1>1, <1>5, <1>7, <1>10
  <2>2. map'[req[b].key] # b
    BY <1>4, <1>5, <1>10, <2>1 DEF Replaces
  <2>3. \A q \in Requests : req'[q].bucket = b => q # r /\ req'[q] = req[q]
    BY <1>1, <2>1
  <2> QED BY <1>10, <2>1, <2>2, <2>3 DEF Replaces
<1>11. ASSUME NEW b \in Requests, Kept(b), req[b].key = k
       PROVE  (Replaces(U, b, r))'
  <2>1. b # r /\ U[b] = T[b] /\ bucket'[b] = bucket[b] /\ req'[b] = req[b] /\ Aged(T, b)
    BY <1>1, <1>5, <1>7, <1>11 DEF InTurn
  <2>2. map'[req'[b].key] # b /\ Leaving(b)
    BY <1>1, <1>3, <1>4, <1>11, <2>1, LimiterAssumption DEF Leaving
  <2>3. bucket[b].last <= clock /\ Idle + T[b] < clock + MaxStall
    BY <2>1, <2>2 DEF Timely, Aged
  <2>4. ASSUME NEW q \in Requests, req'[q].bucket = b
        PROVE  /\ req'[q].pc = "allow" => req'[q].now <= clock
               /\ req'[q].answer = "passed" => req'[q].at <= clock + MaxStall
    <3>1. q # r /\ req'[q] = req[q] /\ req[q].bucket = b
      BY <1>1, <2>1, <2>4
    <3>2. req[q].pc = "allow" => req[q].now <= clock
      BY DEF Timely, Started
    <3>3. req[q].at <= clock
      BY DEF Answered
    <3> QED BY <1>2, <3>1, <3>2, <3>3
  <2> QED BY <1>7, <2>1, <2>2, <2>3, <2>4 DEF Replaces
<1>12. InTurn(U)'
  <2>1. ASSUME NEW b \in Requests, (Kept(b))' PROVE (Aged(U, b))'
    BY <1>5, <1>8, <1>9, <2>1
  <2>2. ASSUME NEW b \in Requests, NEW c \in Requests, (Kept(b))', (Kept(c))', b # c,
               req'[b].key = req'[c].key
        PROVE  (Replaces(U, b, c))' \/ (Replaces(U, c, b))'
    <3>1. CASE b # r /\ c # r
      BY <1>5, <1>10, <2>2, <3>1 DEF InTurn
    <3>2. CASE c = r
      BY <1>5, <1>11, <2>2, <3>2
    <3>3. CASE b = r
      BY <1>5, <1>11, <2>2, <3>3
    <3> QED BY <3>1, <3>2, <3>3
  <2> QED BY <2>1, <2>2 DEF InTurn
<1> QED BY <1>12

LEMMA NextInTurn ==
  ASSUME LimiterTyped, Timely, Linked, Answered, [LimiterNext]_limiterVars,
         NEW T \in [Requests -> Nat], InTurn(T)
  PROVE  \E U \in [Requests -> Nat] : InTurn(U)'
<1>0. clock \in Nat /\ Missing \notin Requests
  BY Numbers, LimiterAssumption
<1>1. ASSUME NEW r \in Requests, Allow(r) PROVE \E U \in [Requests -> Nat] : InTurn(U)'
  BY <1>1, AllowInTurn
<1>2. ASSUME NEW r \in Requests, LoadOrStore(r) PROVE \E U \in [Requests -> Nat] : InTurn(U)'
  BY <1>2, LoadInTurn, StoreNewInTurn
<1>3. ASSUME NEW r \in Requests, PassWebSocket(r) \/ \E k \in Keys : Arrive(r, k)
      PROVE  \E U \in [Requests -> Nat] : InTurn(U)'
  <2>1. /\ \A q \in Requests : q # r => req'[q] = req[q]
        /\ req[r].bucket = Missing /\ req'[r].bucket = Missing
        /\ UNCHANGED <<clock, bucket, map, cleaner>>
    BY <1>3, EntryEffect
  <2>2. \A b \in Requests : Kept(b) => req'[b] = req[b]
    BY <1>0, <2>1 DEF Kept
  <2>3. \A b \in Requests : Kept(b) /\ (Leaving(b))' => Idle + T[b] < clock' + MaxStall
    BY <2>1, <2>2 DEF InTurn, Aged, Leaving
  <2>4. InTurn(T)'
    BY <1>0, <2>1, <2>3, QuietInTurn
  <2> QED BY <2>4
<1>4. CASE Clean
  <2>1. /\ UNCHANGED <<clock, req, bucket>>
        /\ \/ Delete
           \/ /\ map' = map
              /\ cleaner'.pc = "delete" =>
                   /\ map[cleaner'.key] # Missing /\ cleaner'.key \in Keys
                   /\ IsIdle(bucket[map[cleaner'.key]], cleaner.now)
    BY <1>4, CleanEffect
  <2>2. \A k \in Keys : map'[k] = map[k] \/ map'[k] = Missing
    BY <2>1 DEF Delete, LimiterTyped, LimiterTypeOK
  <2>3. ASSUME NEW b \in Requests, Kept(b), (Leaving(b))' PROVE Idle + T[b] < clock' + MaxStall
    <3>1. Aged(T, b) /\ req[b].key \in Keys
      BY <1>0, <2>3 DEF InTurn, Linked, Kept
    <3>2. CASE Leaving(b)
      BY <2>1, <3>1, <3>2 DEF Aged
    <3>3. CASE Delete
      <4>1. cleaner.pc = "delete" /\ map' = [map EXCEPT ![cleaner.key] = Missing] /\ cleaner'.pc = "range"
        BY <3>3 DEF Delete, LimiterTyped, LimiterTypeOK, Cleaner
      <4>2. Leaving(b)
        BY <2>1, <2>3, <3>1, <4>1 DEF Leaving, LimiterTyped, LimiterTypeOK
      <4> QED BY <3>2, <4>2
    <3>4. CASE ~Leaving(b) /\ ~Delete
      <4>1. cleaner'.pc = "delete" /\ cleaner'.key = req[b].key /\ map[req[b].key] = b
        BY <2>1, <2>3, <3>4 DEF Leaving
      <4>2. cleaner.now - bucket[b].lastSeen > Idle
        BY <2>1, <3>4, <4>1 DEF IsIdle
      <4>3. T[b] <= bucket[b].lastSeen + MaxStall /\ cleaner.now <= clock
        BY <3>1 DEF Aged, Timely
      <4>4. /\ T[b] \in Nat /\ bucket[b].lastSeen \in Nat /\ cleaner.now \in Nat /\ clock \in Nat
            /\ Idle \in Nat /\ MaxStall \in Nat
        BY Numbers
      <4> QED BY <2>1, <4>2, <4>3, <4>4
    <3> QED BY <3>2, <3>3, <3>4
  <2>4. InTurn(T)'
    BY <1>0, <2>1, <2>2, <2>3, QuietInTurn
  <2> QED BY <2>4
<1>5. CASE Tick \/ UNCHANGED limiterVars
  <2>1. clock' \in Nat /\ clock <= clock' /\ UNCHANGED <<req, bucket, map, cleaner>>
    BY <1>0, <1>5 DEF Tick, limiterVars
  <2>2. ASSUME NEW b \in Requests, Kept(b), (Leaving(b))' PROVE Idle + T[b] < clock' + MaxStall
    <3>1. Idle + T[b] < clock + MaxStall
      BY <2>1, <2>2 DEF InTurn, Aged, Leaving
    <3>2. T[b] \in Nat /\ Idle \in Nat /\ MaxStall \in Nat
      BY Numbers
    <3> QED BY <1>0, <2>1, <3>1, <3>2
  <2>3. InTurn(T)'
    BY <2>1, <2>2, QuietInTurn
  <2> QED BY <2>3
<1> QED
  BY <1>1, <1>2, <1>3, <1>4, <1>5 DEF LimiterNext, Serve

LEMMA NextAddressInv == AddressInv /\ [LimiterNext]_limiterVars => AddressInv'
<1> SUFFICES ASSUME AddressInv, [LimiterNext]_limiterVars PROVE AddressInv'
  OBVIOUS
<1>1. LimiterTyped /\ Timely /\ Linked /\ Answered /\ TimedInv
  BY DEF AddressInv, LimiterInv, TimedInv
<1>2. LimiterInv' /\ Timely' /\ Linked'
  BY <1>1, NextInv, NextTimely, NextLinked DEF AddressInv, TimedInv
<1>3. \E U \in [Requests -> Nat] : InTurn(U)'
  <2>1. PICK T \in [Requests -> Nat] : InTurn(T)
    BY DEF AddressInv
  <2> QED BY <1>1, <2>1, NextInTurn
<1>4. \E H \in [Requests -> Nat] : Granted(H)'
  <2>1. PICK G \in [Requests -> Nat] : Granted(G)
    BY DEF AddressInv
  <2> QED BY <1>1, <2>1, NextGranted
<1>5. Answered'
  <2>1. ASSUME NEW r \in Requests, LoadOrStore(r) PROVE Answered'
    BY <1>1, <2>1, LoadEffect, StoreNewEffect DEF Answered
  <2>2. ASSUME NEW r \in Requests, Allow(r) PROVE Answered'
    BY <1>1, <2>2, AllowEffect, Numbers DEF Answered
  <2>3. ASSUME NEW r \in Requests, PassWebSocket(r) PROVE Answered'
    <3>1. /\ \A q \in Requests : req'[q].at = req[q].at /\ (q # r => req'[q] = req[q])
          /\ clock' = clock
      BY <1>1, <2>3 DEF PassWebSocket, LimiterTyped, LimiterTypeOK, Request
    <3> QED BY <1>1, <3>1 DEF Answered
  <2>4. ASSUME NEW r \in Requests, NEW k \in Keys, Arrive(r, k) PROVE Answered'
    <3>1. /\ \A q \in Requests : req'[q].at = req[q].at /\ req'[q].answer = req[q].answer
          /\ clock' = clock
      BY <1>1, <2>4 DEF Arrive, LimiterTyped, LimiterTypeOK, Request
    <3> QED BY <1>1, <3>1 DEF Answered
  <2>5. CASE Clean
    BY <1>1, <2>5, CleanEffect DEF Answered
  <2>6. CASE Tick \/ UNCHANGED limiterVars
    BY <1>1, <2>6, Numbers DEF Answered, Tick, limiterVars
  <2> QED BY <2>1, <2>2, <2>3, <2>4, <2>5, <2>6 DEF LimiterNext, Serve
<1> QED BY <1>2, <1>3, <1>4, <1>5 DEF AddressInv

LEMMA InitAddressInv == LimiterInit => AddressInv
<1> SUFFICES ASSUME LimiterInit PROVE AddressInv
  OBVIOUS
<1>1. LimiterInv
  <2>1. \A b \in Requests : Paid(bucket[b])
    BY NewBucketPaid DEF LimiterInit
  <2> QED BY <2>1, InitTyped DEF LimiterInv
<1>2. Timely /\ Linked /\ Answered
  BY LimiterAssumption DEF LimiterInit, Timely, Started, NewBucket, Linked, Answered
<1>3. \A b \in Requests : ~Kept(b) /\ req[b].answer = "none"
  BY LimiterAssumption DEF LimiterInit, Kept
<1>4. [r \in Requests |-> 0] \in [Requests -> Nat]
  OBVIOUS
<1>5. \A T \in [Requests -> Nat] : InTurn(T) /\ Granted(T)
  BY <1>3 DEF InTurn, Granted
<1> QED BY <1>1, <1>2, <1>4, <1>5 DEF AddressInv

-----------------------------------------------------------------------------
(* Counting the requests that passed. *)

(* A bounded set of numbers has a least and a greatest one. *)
LEMMA SpanOf ==
  ASSUME NEW S \in SUBSET Nat, S # {}, NEW n \in Nat, \A s \in S : s <= n
  PROVE  \E lo, hi \in S : \A s \in S : lo <= s /\ s <= hi
<1>1. ASSUME NEW R \in SUBSET Nat, R # {} PROVE \E x \in R : \A y \in R : x <= y
  <2>1. PICK x \in R : \A y \in R : <<y, x>> \notin OpToRel(<, Nat)
    BY <1>1, NatLessThanWellFounded, WFMin
  <2>2. \A y \in R : <<y, x>> \in Nat \X Nat /\ <<y, x>>[1] = y /\ <<y, x>>[2] = x
    OBVIOUS
  <2> SUFFICES ASSUME NEW y \in R PROVE ~(y < x)
    OBVIOUS
  <2> QED BY <2>1, <2>2 DEF OpToRel
<1>2. PICK lo \in S : \A y \in S : lo <= y
  BY <1>1
<1> DEFINE R == {n - s : s \in S}
<1>3. R \in SUBSET Nat /\ R # {}
  <2>1. \A s \in S : n - s \in Nat
    OBVIOUS
  <2>2. R \in SUBSET Nat
    BY <2>1, Zenon
  <2>3. n - lo \in R
    BY Zenon
  <2> QED BY <2>2, <2>3, Zenon
<1>4. PICK x \in R : \A y \in R : x <= y
  BY <1>1, <1>3
<1>5. PICK hi \in S : x = n - hi
  BY <1>4
<1>6. ASSUME NEW s \in S PROVE s <= hi
  <2>1. n - hi <= n - s
    BY <1>4, <1>5
  <2> QED BY <2>1
<1> QED BY <1>2, <1>6

LEMMA TimesCost ==
  ASSUME NEW m \in Nat, NEW n \in Nat
  PROVE  /\ m * Cost \in Nat /\ (m + n) * Cost = m * Cost + n * Cost
         /\ m <= n => m * Cost <= n * Cost
<1>1. \A x, y \in Nat : x * Cost \in Nat /\ (x + y) * Cost = x * Cost + y * Cost
  BY LimiterAssumption
<1>2. ASSUME m <= n PROVE m * Cost <= n * Cost
  <2>1. n - m \in Nat /\ n = m + (n - m)
    BY <1>2
  <2>2. n * Cost = m * Cost + (n - m) * Cost /\ (n - m) * Cost \in Nat /\ m * Cost \in Nat
    BY <1>1, <2>1
  <2> QED BY <2>2
<1> QED BY <1>1, <1>2

(* Requests whose grants are of one bucket and between two times. *)
LEMMA OfOneBucket ==
  ASSUME LimiterTyped, NEW b \in Requests, Paid(bucket[b]),
         NEW G \in [Requests -> Nat], Granted(G), NEW P \in SUBSET Requests, P # {},
         \A r \in P : req[r].answer = "passed" /\ req[r].bucket = b,
         NEW lo \in Int, NEW hi \in Int,
         \A r \in P : lo <= bucket[b].grants[G[r]] /\ bucket[b].grants[G[r]] <= hi
  PROVE  IsFiniteSet(P) /\ Cardinality(P) \in Nat /\ Cardinality(P) * Cost <= Full + (hi - lo)
<1> DEFINE g == bucket[b].grants
           S == {G[r] : r \in P}
<1>1. /\ g \in Seq(Nat) /\ Len(g) \in Nat /\ DOMAIN g = 1..Len(g) /\ b # Missing
      /\ \A i \in DOMAIN g : g[i] \in Nat
  BY Numbers, LimiterAssumption, LenProperties
<1>2. \A r \in P : G[r] \in 1..Len(g)
  BY <1>1 DEF Granted
<1>3. PICK i \in S, j \in S : \A s \in S : i <= s /\ s <= j
  <2> HIDE DEF g
  <2>1. S \in SUBSET Nat /\ S # {} /\ \A s \in S : s <= Len(g)
    BY <1>1, <1>2
  <2> HIDE DEF S
  <2> QED BY <1>1, <2>1, SpanOf
<1>4. /\ i \in DOMAIN g /\ j \in DOMAIN g /\ i <= j /\ i \in Nat /\ j \in Nat
      /\ lo <= g[i] /\ g[j] <= hi /\ g[i] \in Nat /\ g[j] \in Nat
  BY <1>1, <1>2, <1>3
<1> DEFINE f == [r \in P |-> G[r]]
<1>5. f \in Injection(P, i..j)
  <2>1. f \in [P -> i..j]
    BY <1>2, <1>3, <1>4
  <2>2. \A r, q \in P : f[r] = f[q] => r = q
    BY <1>1 DEF Granted
  <2> QED BY <2>1, <2>2 DEF Injection, IsInjective
<1>6. /\ IsFiniteSet(P) /\ Cardinality(P) <= Cardinality(i..j) /\ Cardinality(P) \in Nat
      /\ Cardinality(i..j) = j - i + 1
  <2> HIDE DEF f
  <2>1. IsFiniteSet(i..j) /\ Cardinality(i..j) = j - i + 1
    BY <1>4, FS_Interval
  <2>2. IsFiniteSet(P) /\ Cardinality(P) <= Cardinality(i..j)
    BY <1>5, <2>1, FS_Injection
  <2> QED BY <2>1, <2>2, FS_CardinalityType
<1>7. (j - i + 1) * Cost <= Full + (g[j] - g[i])
  BY <1>4 DEF Paid
<1>8. Cardinality(P) * Cost <= (j - i + 1) * Cost
  <2>1. j - i + 1 \in Nat /\ Cardinality(P) <= j - i + 1
    BY <1>4, <1>6
  <2> QED BY <1>6, <2>1, TimesCost
<1>9. Cardinality(P) * Cost \in Nat /\ (j - i + 1) * Cost \in Nat /\ Full \in Nat
  <2>1. j - i + 1 \in Nat
    BY <1>4
  <2> QED BY <1>6, <2>1, TimesCost, FullType
<1> HIDE DEF g
<1>10. (j - i + 1) * Cost <= Full + (hi - lo)
  <2> DEFINE x == (j - i + 1) * Cost
  <2> HIDE DEF x
  <2>1. x \in Nat /\ x <= Full + (g[j] - g[i]) /\ Full \in Nat
    BY <1>7, <1>9 DEF x
  <2>2. x <= Full + (hi - lo)
    BY <1>4, <2>1
  <2> QED BY <2>2 DEF x
<1>11. Cardinality(P) * Cost <= Full + (hi - lo)
  <2> DEFINE x == (j - i + 1) * Cost
             y == Cardinality(P) * Cost
  <2> HIDE DEF x, y
  <2>1. x \in Nat /\ y \in Nat /\ y <= x /\ x <= Full + (hi - lo) /\ Full \in Nat
    BY <1>8, <1>9, <1>10 DEF x, y
  <2>2. y <= Full + (hi - lo)
    BY <2>1
  <2> QED BY <2>2 DEF y
<1> QED BY <1>6, <1>11

(* When a grant of a request of a window was made. *)
LEMMA GrantOf ==
  ASSUME LimiterTyped, Linked, NEW G \in [Requests -> Nat], Granted(G),
         NEW k \in Keys, NEW from \in Int, NEW to \in Int, NEW r \in PassedBetween(k, from, to)
  PROVE  /\ req[r].bucket \in Requests /\ Kept(req[r].bucket) /\ req[req[r].bucket].key = k
         /\ req[r].answer = "passed" /\ req[r].at \in Nat /\ from <= req[r].at /\ req[r].at <= to
         /\ LET g == bucket[req[r].bucket].grants IN
            /\ G[r] \in DOMAIN g /\ g[G[r]] \in Nat /\ g[G[r]] <= to
            /\ from - MaxStall <= g[G[r]]
<1>1. /\ r \in Requests /\ req[r].key = k /\ req[r].answer = "passed" /\ req[r].at \in from..to
  BY DEF PassedBetween
<1>2. k # Missing /\ MaxStall \in Nat /\ req[r].at \in Nat
      /\ req[r].bucket \in Requests \cup {Missing}
  BY <1>1, LimiterAssumption, Numbers
<1>3. req[r].bucket \in Requests /\ Kept(req[r].bucket) /\ req[req[r].bucket].key = k
      /\ req[r].bucket # Missing
  BY <1>1, <1>2 DEF Linked
<1> DEFINE g == bucket[req[r].bucket].grants
<1>4. G[r] \in DOMAIN g /\ g[G[r]] <= req[r].at /\ req[r].at <= g[G[r]] + MaxStall
  BY <1>1, <1>3 DEF Granted
<1>5. g[G[r]] \in Nat
  BY <1>3, <1>4, Numbers
<1> HIDE DEF g
<1>6. g[G[r]] <= to /\ from - MaxStall <= g[G[r]]
  BY <1>1, <1>2, <1>4, <1>5
<1> QED BY <1>1, <1>2, <1>3, <1>4, <1>5, <1>6 DEF g

(* Two buckets, one after the other, and nothing else. *)
LEMMA OfTwoBuckets ==
  ASSUME AddressInv, NEW T \in [Requests -> Nat], InTurn(T),
         NEW k \in Keys, NEW from \in Int, NEW to \in Int, from <= to,
         NEW b \in Requests, NEW c \in Requests, b # c, Kept(b), Kept(c), Replaces(T, b, c),
         \A r \in PassedBetween(k, from, to) : req[r].bucket \in {b, c}
  PROVE  Cardinality(PassedBetween(k, from, to)) * Cost <= 2 * Full + (to - from) + 2 * MaxStall
<1> DEFINE P == PassedBetween(k, from, to)
           B == {r \in P : req[r].bucket = b}
           C == {r \in P : req[r].bucket = c}
<1>1. LimiterTyped /\ Linked /\ Paid(bucket[b]) /\ Paid(bucket[c])
  BY DEF AddressInv, LimiterInv
<1>2. PICK G \in [Requests -> Nat] : Granted(G)
  BY DEF AddressInv
<1>3. MaxStall \in Nat /\ Full \in Nat /\ T[c] \in Nat /\ 0 * Cost = 0
  BY LimiterAssumption, FullType
<1>4. P = B \cup C /\ B \in SUBSET Requests /\ C \in SUBSET Requests
  BY DEF PassedBetween
<1>5. ASSUME NEW r \in B
      PROVE  /\ from - MaxStall <= bucket[b].grants[G[r]] /\ bucket[b].grants[G[r]] <= T[c]
             /\ bucket[b].grants[G[r]] <= to /\ req[r].answer = "passed"
  <2>1. /\ G[r] \in DOMAIN bucket[b].grants /\ bucket[b].grants[G[r]] \in Nat
        /\ bucket[b].grants[G[r]] <= to /\ from - MaxStall <= bucket[b].grants[G[r]]
        /\ req[r].answer = "passed"
    <3>1. r \in PassedBetween(k, from, to) /\ req[r].bucket = b
      OBVIOUS
    <3> HIDE DEF P, B, C
    <3> QED BY <1>1, <1>2, <3>1, GrantOf
  <2>2. bucket[b].grants[G[r]] <= bucket[b].last /\ bucket[b].last <= T[c] /\ bucket[b].last \in Nat
    BY <1>1, <2>1, Numbers DEF InTurn, Aged, Replaces
  <2> QED BY <1>3, <2>1, <2>2
<1>6. ASSUME NEW r \in C
      PROVE  /\ T[c] - MaxStall <= bucket[c].grants[G[r]] /\ bucket[c].grants[G[r]] <= to
             /\ from - MaxStall <= bucket[c].grants[G[r]] /\ req[r].answer = "passed"
  <2>1. /\ G[r] \in DOMAIN bucket[c].grants /\ bucket[c].grants[G[r]] \in Nat
        /\ bucket[c].grants[G[r]] <= to /\ from - MaxStall <= bucket[c].grants[G[r]]
        /\ req[r].answer = "passed"
    <3>1. r \in PassedBetween(k, from, to) /\ req[r].bucket = c
      OBVIOUS
    <3> HIDE DEF P, B, C
    <3> QED BY <1>1, <1>2, <3>1, GrantOf
  <2>2. T[c] <= bucket[c].grants[G[r]] + MaxStall
    BY <2>1 DEF InTurn, Aged
  <2> QED BY <1>3, <2>1, <2>2
<1> HIDE DEF P, B, C
<1>7. B # {} => /\ IsFiniteSet(B) /\ Cardinality(B) \in Nat
                /\ Cardinality(B) * Cost <= Full + (T[c] - (from - MaxStall))
                /\ Cardinality(B) * Cost <= Full + (to - (from - MaxStall))
  <2>1. \A r \in B : req[r].bucket = b
    BY DEF B
  <2>2. from - MaxStall \in Int /\ T[c] \in Int
    BY <1>3
  <2> QED BY <1>1, <1>2, <1>4, <1>5, <2>1, <2>2, OfOneBucket
<1>8. C # {} => /\ IsFiniteSet(C) /\ Cardinality(C) \in Nat
                /\ Cardinality(C) * Cost <= Full + (to - (T[c] - MaxStall))
                /\ Cardinality(C) * Cost <= Full + (to - (from - MaxStall))
  <2>1. \A r \in C : req[r].bucket = c
    BY DEF C
  <2>2. from - MaxStall \in Int /\ T[c] - MaxStall \in Int
    BY <1>3
  <2> QED BY <1>1, <1>2, <1>4, <1>6, <2>1, <2>2, OfOneBucket
<1>9. CASE B = {} /\ C = {}
  <2>1. Cardinality(P) = 0
    BY <1>4, <1>9, FS_EmptySet
  <2> QED BY <1>3, <2>1 DEF P
<1>10. CASE B # {} /\ C = {}
  <2>1. P = B
    BY <1>4, <1>10
  <2> DEFINE x == Cardinality(B) * Cost
  <2>2. x \in Nat /\ x <= Full + (to - (from - MaxStall))
    BY <1>7, <1>10, TimesCost
  <2> HIDE DEF x
  <2>3. x <= 2 * Full + (to - from) + 2 * MaxStall
    BY <1>3, <2>2
  <2> QED BY <2>1, <2>3 DEF x, P
<1>11. CASE B = {} /\ C # {}
  <2>1. P = C
    BY <1>4, <1>11
  <2> DEFINE x == Cardinality(C) * Cost
  <2>2. x \in Nat /\ x <= Full + (to - (from - MaxStall))
    BY <1>8, <1>11, TimesCost
  <2> HIDE DEF x
  <2>3. x <= 2 * Full + (to - from) + 2 * MaxStall
    BY <1>3, <2>2
  <2> QED BY <2>1, <2>3 DEF x, P
<1>12. CASE B # {} /\ C # {}
  <2> DEFINE m == Cardinality(B)
             n == Cardinality(C)
  <2>1. /\ m \in Nat /\ n \in Nat /\ IsFiniteSet(P) /\ Cardinality(P) \in Nat
        /\ Cardinality(P) <= m + n
    <3>1. IsFiniteSet(B) /\ IsFiniteSet(C) /\ m \in Nat /\ n \in Nat
      BY <1>7, <1>8, <1>12
    <3>2. IsFiniteSet(B \cap C)
      BY <3>1, FS_Subset
    <3>3. Cardinality(B \cap C) \in Nat
      BY <3>2, FS_CardinalityType
    <3>4. IsFiniteSet(B \cup C) /\ Cardinality(B \cup C) = m + n - Cardinality(B \cap C)
      BY <3>1, FS_Union
    <3>5. Cardinality(B \cup C) \in Nat
      BY <3>4, FS_CardinalityType
    <3> HIDE DEF m, n
    <3> QED BY <1>4, <3>1, <3>3, <3>4, <3>5
  <2> DEFINE x == m * Cost
             y == n * Cost
             z == Cardinality(P) * Cost
  <2>2. x <= Full + (T[c] - (from - MaxStall)) /\ y <= Full + (to - (T[c] - MaxStall))
    BY <1>7, <1>8, <1>12
  <2> HIDE DEF m, n
  <2>3. x \in Nat /\ y \in Nat /\ z \in Nat /\ z <= (m + n) * Cost /\ (m + n) * Cost = x + y
    <3>1. m + n \in Nat
      BY <2>1
    <3>2. z \in Nat /\ z <= (m + n) * Cost
      BY <2>1, <3>1, TimesCost
    <3> QED BY <2>1, <3>2, TimesCost
  <2> HIDE DEF x, y, z
  <2>4. z <= 2 * Full + (to - from) + 2 * MaxStall
    BY <1>3, <2>2, <2>3
  <2> QED BY <2>4 DEF z, P
<1> QED BY <1>9, <1>10, <1>11, <1>12

(* The bucket after the next comes more than Idle later, less two stalls. *)
LEMMA NoThird ==
  ASSUME AddressInv, NEW T \in [Requests -> Nat], InTurn(T),
         NEW k \in Keys, NEW from \in Int, NEW to \in Int, to + 2 * MaxStall <= from + Idle,
         NEW r \in PassedBetween(k, from, to), NEW q \in PassedBetween(k, from, to),
         NEW c \in Requests,
         Replaces(T, req[r].bucket, c), Replaces(T, c, req[q].bucket)
  PROVE  FALSE
<1>1. LimiterTyped /\ Linked
  BY DEF AddressInv, LimiterInv
<1>2. PICK G \in [Requests -> Nat] : Granted(G)
  BY DEF AddressInv
<1> DEFINE b == req[r].bucket
           d == req[q].bucket
<1>3. /\ r \in Requests /\ b \in Requests /\ req[r].answer = "passed" /\ from <= req[r].at
      /\ req[r].at \in Nat
      /\ q \in Requests /\ d \in Requests /\ Kept(d) /\ req[q].answer = "passed" /\ req[q].at <= to
      /\ req[q].at \in Nat
  BY <1>1, <1>2, GrantOf DEF PassedBetween
<1>4. req[r].at <= T[c] + MaxStall /\ Idle + T[c] < T[d] + MaxStall
  BY <1>3 DEF Replaces
<1>5. T[d] <= req[q].at
  BY <1>3 DEF InTurn, Aged
<1>6. T[c] \in Nat /\ T[d] \in Nat /\ Idle \in Nat /\ MaxStall \in Nat
  BY <1>3, LimiterAssumption
<1> HIDE DEF b, d
<1> QED BY <1>3, <1>4, <1>5, <1>6

LEMMA AddressInvBounded == AddressInv => AddressBounded
<1> SUFFICES ASSUME AddressInv, NEW k \in Keys, NEW from \in 0..MaxTime, NEW to \in 0..MaxTime,
                    from <= to, to + 2 * MaxStall <= from + Idle
             PROVE  Cardinality(PassedBetween(k, from, to)) * Cost
                      <= 2 * Full + (to - from) + 2 * MaxStall
  BY DEF AddressBounded
<1> DEFINE P == PassedBetween(k, from, to)
<1>1. PICK T \in [Requests -> Nat] : InTurn(T)
  BY DEF AddressInv
<1>2. PICK G \in [Requests -> Nat] : Granted(G)
  BY DEF AddressInv
<1>3. LimiterTyped /\ Linked /\ (\A b \in Requests : Paid(bucket[b])) /\ from \in Int /\ to \in Int
  BY DEF AddressInv, LimiterInv
<1>4. MaxStall \in Nat /\ Full \in Nat /\ from - MaxStall \in Int
  BY LimiterAssumption, FullType
<1>5. \A r \in P : req[r].bucket \in Requests /\ Kept(req[r].bucket) /\ req[req[r].bucket].key = k
  BY <1>2, <1>3, GrantOf
<1>6. CASE P = {}
  <2>1. Cardinality(P) = 0 /\ 0 * Cost = 0
    BY <1>6, FS_EmptySet, LimiterAssumption
  <2> QED BY <1>3, <1>4, <2>1
<1>7. ASSUME NEW r \in P, \A q \in P : req[q].bucket = req[r].bucket
      PROVE  Cardinality(P) * Cost <= 2 * Full + (to - from) + 2 * MaxStall
  <2> DEFINE b == req[r].bucket
             x == Cardinality(P) * Cost
  <2>1. /\ b \in Requests /\ P \in SUBSET Requests /\ P # {}
        /\ \A q \in P : req[q].bucket = b /\ req[q].answer = "passed"
    BY <1>5, <1>7 DEF PassedBetween
  <2>2. \A q \in P : from - MaxStall <= bucket[b].grants[G[q]] /\ bucket[b].grants[G[q]] <= to
    BY <1>2, <1>3, <2>1, GrantOf
  <2> HIDE DEF P
  <2>3. Cardinality(P) \in Nat /\ x <= Full + (to - (from - MaxStall))
    BY <1>2, <1>3, <1>4, <2>1, <2>2, OfOneBucket
  <2>4. x \in Nat
    BY <2>3, TimesCost
  <2> HIDE DEF x
  <2>5. x <= 2 * Full + (to - from) + 2 * MaxStall
    BY <1>3, <1>4, <2>3, <2>4
  <2> QED BY <2>5 DEF x
<1>8. ASSUME NEW r \in P, NEW q \in P, req[q].bucket # req[r].bucket
      PROVE  Cardinality(P) * Cost <= 2 * Full + (to - from) + 2 * MaxStall
  <2> DEFINE b == req[r].bucket
             c == req[q].bucket
  <2>1. b \in Requests /\ c \in Requests /\ b # c /\ Kept(b) /\ Kept(c)
        /\ (Replaces(T, b, c) \/ Replaces(T, c, b))
    BY <1>1, <1>5, <1>8 DEF InTurn
  <2>2. ASSUME NEW p \in P, req[p].bucket \notin {b, c} PROVE FALSE
    <3> DEFINE d == req[p].bucket
    <3>1. /\ Replaces(T, b, d) \/ Replaces(T, d, b)
          /\ Replaces(T, c, d) \/ Replaces(T, d, c)
      BY <1>1, <1>5, <1>8, <2>2 DEF InTurn
    <3>2. ASSUME NEW x \in P, NEW y \in P, NEW z \in P,
                 Replaces(T, req[x].bucket, req[y].bucket), Replaces(T, req[y].bucket, req[z].bucket)
          PROVE  FALSE
      BY <1>1, <1>3, <1>5, <3>2, NoThird
    <3> HIDE DEF P
    <3> QED BY <1>8, <2>1, <2>2, <3>1, <3>2
  <2>3. \A p \in P : req[p].bucket \in {b, c}
    BY <2>2
  <2> HIDE DEF b, c
  <2>4. CASE Replaces(T, b, c)
    BY <1>1, <1>3, <2>1, <2>3, <2>4, OfTwoBuckets
  <2>5. CASE Replaces(T, c, b)
    <3>1. \A p \in P : req[p].bucket \in {c, b}
      BY <2>3
    <3> QED BY <1>1, <1>3, <2>1, <2>5, <3>1, OfTwoBuckets
  <2> QED BY <2>1, <2>4, <2>5
<1> QED BY <1>6, <1>7, <1>8

(* AddressIsBounded: for every rate, burst, cleanup period and stall, and  *)
(* however requests and the cleaner interleave, an address gets no more    *)
(* than two bursts and what two buckets earn meanwhile in any stretch of   *)
(* time shorter than Idle by two stalls.                                   *)
THEOREM AddressIsBounded == LimiterSpec => []AddressBounded
BY InitAddressInv, NextAddressInv, AddressInvBounded, PTL DEF LimiterSpec

=============================================================================
