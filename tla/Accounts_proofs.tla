---------------------------- MODULE Accounts_proofs ----------------------------
(***************************************************************************)
(* Theorems about Accounts, for every value of its constants: any number   *)
(* of requests, names and passwords, and statements that fail or do not.   *)
(***************************************************************************)
EXTENDS Accounts, TLAPS

(* The rows: names and ids are unique, and what registration accepted and  *)
(* hashed is what login will accept and compare.                           *)
RowsOK ==
  /\ users \subseteq User
  /\ \A u, v \in users : u.username = v.username \/ u.id = v.id => u = v
  /\ \A u \in users : Head72[u.hash] = u.hash /\ WellFormed(u.username, u.hash)

(* What is known of request r when it is at e and its answer is a. *)
RequestOK(r, e, a) ==
  /\ e \in Request /\ a \in Reply
  /\ e.pc # "done" => a = [status |-> "none", token |-> Missing]
  /\ e.pc # "new" /\ e.op \in {"register", "login"} =>
       /\ e.written \in Names /\ e.name = TrimSpace[e.written] /\ e.password \in Passwords
  /\ e.pc = "insert" => e.op = "register" /\ WellFormed(e.name, e.password) /\ Hashes(e.password)
  /\ e.pc = "read" => e.op = "login"
  /\ e.pc = "issue" =>
       /\ e.op \in {"register", "login"} /\ e.account \in users /\ e.account.username = e.name
       /\ SamePassword(e.account.hash, e.password)
       /\ e.op = "register" => e.account.id = r
  /\ \A u \in users : u.id = r =>
       e.op = "register" /\ e.pc \in {"issue", "done"} /\ e.name = u.username
  /\ a.token # Missing => \E u \in users : u.id = a.token.uid /\ u.username = a.token.usr
  /\ a.status = "created" =>
       e.op = "register" /\ \E u \in users : u.id = r /\ u.username = e.name
  /\ a.status = "conflict" => \E u \in users : u.username = e.name /\ u.id # r

AccountsInv ==
  /\ RowsOK
  /\ req \in [Requests -> Request] /\ reply \in [Requests -> Reply]
  /\ \A r \in Requests : RequestOK(r, req[r], reply[r])

-----------------------------------------------------------------------------
(* How the invariant is kept. *)

(* Request r moves to e with the answer a, and no row changes. *)
Moves(r, e, a) ==
  /\ req' = [req EXCEPT ![r] = e] /\ reply' = [reply EXCEPT ![r] = a]
  /\ UNCHANGED users

LEMMA MovesKeep ==
  ASSUME AccountsInv, NEW r \in Requests, NEW e, NEW a, Moves(r, e, a), RequestOK(r, e, a)
  PROVE  AccountsInv'
<1>1. e \in Request /\ a \in Reply
  BY DEF RequestOK
<1>2. /\ req' \in [Requests -> Request] /\ reply' \in [Requests -> Reply]
      /\ \A q \in Requests : req'[q] = (IF q = r THEN e ELSE req[q])
                             /\ reply'[q] = (IF q = r THEN a ELSE reply[q])
  BY <1>1 DEF AccountsInv, Moves
<1>3. RowsOK'
  BY DEF AccountsInv, Moves, RowsOK
<1>4. ASSUME NEW q \in Requests PROVE RequestOK(q, req[q], reply[q])'
  <2>1. RequestOK(q, req'[q], reply'[q])
    BY <1>2 DEF AccountsInv
  <2> QED BY <2>1 DEF Moves, RequestOK
<1> QED BY <1>2, <1>3, <1>4 DEF AccountsInv

(* A request that waits moves on without an answer. *)
LEMMA WaitingMoves ==
  ASSUME AccountsInv, NEW r \in Requests, NEW e,
         req' = [req EXCEPT ![r] = e], UNCHANGED <<users, reply>>, RequestOK(r, e, reply[r])
  PROVE  AccountsInv'
<1>1. reply' = [reply EXCEPT ![r] = reply[r]]
  BY DEF AccountsInv
<1> QED BY <1>1, MovesKeep DEF Moves

(* A refusal tells nothing but its status. *)
LEMMA RefusalKeeps ==
  ASSUME AccountsInv, NEW r \in Requests, NEW status \in Status \ {"created"},
         req[r].pc # "done",
         status = "conflict" => \E u \in users : u.username = req[r].name /\ u.id # r,
         req[r].pc # "new",
         Refuse(r, status)
  PROVE  AccountsInv'
<1> DEFINE e == [req[r] EXCEPT !.pc = "done"]
           a == [status |-> status, token |-> Missing]
<1>1. req[r] \in Request /\ RequestOK(r, req[r], reply[r])
  BY DEF AccountsInv
<1>2. e \in Request /\ e.pc = "done" /\ e.op = req[r].op /\ e.name = req[r].name
      /\ e.written = req[r].written /\ e.password = req[r].password
  BY <1>1 DEF Request
<1>3. a \in Reply /\ a.token = Missing /\ a.status = status
  BY DEF Reply
<1>4. Moves(r, e, a)
  BY <1>1 DEF AccountsInv, Refuse, Answer, Moves
<1> HIDE DEF e, a
<1>5. RequestOK(r, e, a)
  BY <1>1, <1>2, <1>3 DEF RequestOK
<1> QED BY <1>4, <1>5, MovesKeep

-----------------------------------------------------------------------------
(* The actions. *)

(* A registration or a login that was begun, and is at pc. *)
Begun(r, op, written, password, pc) ==
  [[req[r] EXCEPT !.op = op, !.written = written, !.name = TrimSpace[written], !.password = password]
     EXCEPT !.pc = pc]

LEMMA BegunFacts ==
  ASSUME AccountsInv, NEW r \in Requests, req[r].pc = "new", NEW op \in {"register", "login"},
         NEW written \in Names, NEW password \in Passwords,
         NEW pc \in {"insert", "read", "done"},
         NEW e, e = Begun(r, op, written, password, pc)
  PROVE  /\ e \in Request /\ e.op = op /\ e.written = written /\ e.name = TrimSpace[written]
         /\ e.password = password /\ e.pc = pc
         /\ reply[r] = [status |-> "none", token |-> Missing] /\ reply[r] \in Reply
         /\ \A u \in users : u.id # r
<1>1. req[r] \in Request /\ RequestOK(r, req[r], reply[r])
  BY DEF AccountsInv
<1>2. TrimSpace[written] \in Names
  BY AccountsAssumption
<1>3. /\ e \in Request /\ e.op = op /\ e.written = written /\ e.name = TrimSpace[written]
      /\ e.password = password /\ e.pc = pc
  BY <1>1, <1>2 DEF Begun, Request
<1> QED BY <1>1, <1>3 DEF RequestOK

(* A request that is refused before anything is read. *)
LEMMA BegunRefused ==
  ASSUME AccountsInv, NEW r \in Requests, req[r].pc = "new", NEW op \in {"register", "login"},
         NEW written \in Names, NEW password \in Passwords, NEW status \in {"validation", "internal"},
         req' = [req EXCEPT ![r] = Begun(r, op, written, password, "done")],
         reply' = [reply EXCEPT ![r].status = status], UNCHANGED users
  PROVE  AccountsInv'
<1> DEFINE a == [status |-> status, token |-> Missing]
<1>1. PICK e : e = Begun(r, op, written, password, "done")
  OBVIOUS
<1>2. /\ e \in Request /\ e.op = op /\ e.written = written /\ e.name = TrimSpace[written]
      /\ e.password = password /\ e.pc = "done" /\ \A u \in users : u.id # r
      /\ reply[r] = [status |-> "none", token |-> Missing]
  BY <1>1, BegunFacts
<1>3. reply' = [reply EXCEPT ![r] = a]
  <2>1. [reply[r] EXCEPT !.status = status] = a
    BY <1>2
  <2> QED BY <2>1 DEF AccountsInv
<1>4. Moves(r, e, a)
  BY <1>1, <1>3 DEF Moves
<1>5. a \in Reply /\ a.token = Missing /\ a.status \notin {"created", "conflict"}
  BY DEF Reply, Status
<1> HIDE DEF a
<1>6. RequestOK(r, e, a)
  BY <1>2, <1>5 DEF RequestOK
<1> QED BY <1>4, <1>6, MovesKeep

LEMMA RegisterKeeps ==
  ASSUME AccountsInv, NEW r \in Requests, NEW written \in Names, NEW password \in Passwords,
         Register(r, written, password)
  PROVE  AccountsInv'
<1>0. req[r].pc = "new" /\ UNCHANGED users
  BY DEF Register
<1>1. CASE UNCHANGED reply /\ WellFormed(TrimSpace[written], password) /\ Hashes(password)
           /\ req' = [req EXCEPT ![r] = Begun(r, "register", written, password, "insert")]
  <2>1. PICK e : e = Begun(r, "register", written, password, "insert")
    OBVIOUS
  <2>2. /\ e \in Request /\ e.op = "register" /\ e.written = written
        /\ e.name = TrimSpace[written] /\ e.password = password /\ e.pc = "insert"
        /\ reply[r] = [status |-> "none", token |-> Missing] /\ reply[r] \in Reply
        /\ \A u \in users : u.id # r
    BY <1>0, <2>1, BegunFacts
  <2>3. RequestOK(r, e, reply[r])
    BY <1>1, <2>2 DEF RequestOK
  <2> QED BY <1>0, <1>1, <2>1, <2>3, WaitingMoves
<1>2. CASE \E status \in {"validation", "internal"} :
             /\ reply' = [reply EXCEPT ![r].status = status]
             /\ req' = [req EXCEPT ![r] = Begun(r, "register", written, password, "done")]
  BY <1>0, <1>2, BegunRefused
<1> QED BY <1>1, <1>2 DEF Register, Begun, Trimmed

LEMMA LoginKeeps ==
  ASSUME AccountsInv, NEW r \in Requests, NEW written \in Names, NEW password \in Passwords,
         Login(r, written, password)
  PROVE  AccountsInv'
<1>0. req[r].pc = "new" /\ UNCHANGED users
  BY DEF Login
<1>1. CASE UNCHANGED reply
           /\ req' = [req EXCEPT ![r] = Begun(r, "login", written, password, "read")]
  <2>1. PICK e : e = Begun(r, "login", written, password, "read")
    OBVIOUS
  <2>2. /\ e \in Request /\ e.op = "login" /\ e.written = written
        /\ e.name = TrimSpace[written] /\ e.password = password /\ e.pc = "read"
        /\ reply[r] = [status |-> "none", token |-> Missing] /\ reply[r] \in Reply
        /\ \A u \in users : u.id # r
    BY <1>0, <2>1, BegunFacts
  <2>3. RequestOK(r, e, reply[r])
    BY <2>2 DEF RequestOK
  <2> QED BY <1>0, <1>1, <2>1, <2>3, WaitingMoves
<1>2. CASE /\ reply' = [reply EXCEPT ![r].status = "validation"]
           /\ req' = [req EXCEPT ![r] = Begun(r, "login", written, password, "done")]
  BY <1>0, <1>2, BegunRefused
<1> QED BY <1>1, <1>2 DEF Login, Begun, Trimmed

(* The row of a registration is new, and login will accept it. *)
LEMMA NewUserFacts ==
  ASSUME AccountsInv, NEW r \in Requests, req[r].pc = "insert"
  PROVE  /\ NewUser(r) \in User /\ NewUser(r).id = r /\ NewUser(r).username = req[r].name
         /\ NewUser(r).hash = req[r].password /\ Head72[req[r].password] = req[r].password
         /\ WellFormed(req[r].name, req[r].password)
         /\ \A u \in users : u.id # r
         /\ req[r].op = "register" /\ req[r].name \in Names /\ req[r].password \in Passwords
<1>1. req[r] \in Request /\ RequestOK(r, req[r], reply[r])
  BY DEF AccountsInv
<1>2. /\ req[r].name \in Names /\ req[r].password \in Passwords
      /\ Head72[req[r].password] = req[r].password
  BY <1>1, AccountsAssumption DEF RequestOK, Hashes
<1> QED BY <1>1, <1>2 DEF RequestOK, NewUser, User

(* A row is added, and its request moves to e with the answer a. *)
LEMMA InsertKeeps ==
  ASSUME AccountsInv, NEW r \in Requests, req[r].pc = "insert", ~Taken(req[r].name),
         NEW e \in Request, NEW a \in Reply,
         users' = users \cup {NewUser(r)},
         req' = [req EXCEPT ![r] = e], reply' = [reply EXCEPT ![r] = a],
         e.op = req[r].op, e.name = req[r].name, e.written = req[r].written,
         e.password = req[r].password, a.token = Missing,
         \/ e.pc = "issue" /\ e.account = NewUser(r) /\ a = reply[r]
         \/ e.pc = "done" /\ a.status = "internal"
  PROVE  AccountsInv'
<1> DEFINE new == NewUser(r)
<1>1. /\ new \in User /\ new.id = r /\ new.username = req[r].name
      /\ new.hash = req[r].password /\ Head72[req[r].password] = req[r].password
      /\ WellFormed(req[r].name, req[r].password)
      /\ \A u \in users : u.id # r
      /\ req[r].op = "register"
  BY NewUserFacts
<1>2. \A u \in users : u.username # new.username
  BY <1>1 DEF Taken
<1>3. req[r] \in Request /\ RequestOK(r, req[r], reply[r])
  BY DEF AccountsInv
<1>4. users' = users \cup {new}
  OBVIOUS
<1> HIDE DEF new
<1>5. RowsOK'
  BY <1>1, <1>2, <1>4 DEF AccountsInv, RowsOK, WellFormed
<1>6. /\ req' \in [Requests -> Request] /\ reply' \in [Requests -> Reply]
      /\ \A q \in Requests : req'[q] = (IF q = r THEN e ELSE req[q])
                             /\ reply'[q] = (IF q = r THEN a ELSE reply[q])
  BY DEF AccountsInv
<1>7. ASSUME NEW q \in Requests, q # r PROVE RequestOK(q, req[q], reply[q])'
  <2>1. RequestOK(q, req[q], reply[q]) /\ req'[q] = req[q] /\ reply'[q] = reply[q]
    BY <1>6, <1>7 DEF AccountsInv
  <2> QED BY <1>1, <1>4, <1>7, <2>1 DEF RequestOK
<1>8. RequestOK(r, e, a)'
  <2>1. a = [status |-> "none", token |-> Missing] \/ e.pc = "done"
    BY <1>3 DEF RequestOK
  <2>2. a.status \notin {"created", "conflict"}
    BY <1>3 DEF RequestOK
  <2>3. e.pc = "issue" => e.account \in users' /\ e.account.username = e.name
                          /\ SamePassword(e.account.hash, e.password) /\ e.account.id = r
    BY <1>1, <1>4 DEF SamePassword, new
  <2>4. \A u \in users' : u.id = r => u.username = e.name
    BY <1>1, <1>4
  <2>5. e.written \in Names /\ e.name = TrimSpace[e.written] /\ e.password \in Passwords
    BY <1>1, <1>3 DEF RequestOK
  <2> QED BY <1>1, <2>1, <2>2, <2>3, <2>4, <2>5 DEF RequestOK
<1>9. \A q \in Requests : RequestOK(q, req[q], reply[q])'
  BY <1>6, <1>7, <1>8
<1> QED BY <1>5, <1>6, <1>9 DEF AccountsInv

LEMMA InsertUserKeeps ==
  ASSUME AccountsInv, NEW r \in Requests, InsertUser(r)
  PROVE  AccountsInv'
<1>1. req[r].pc = "insert" /\ req[r] \in Request /\ RequestOK(r, req[r], reply[r])
      /\ reply[r] \in Reply
  BY DEF AccountsInv, InsertUser
<1>2. \A u \in users : u.id # r
  BY <1>1, NewUserFacts
<1>3. CASE Taken(req[r].name) /\ Refuse(r, "conflict")
  BY <1>1, <1>2, <1>3, RefusalKeeps DEF Taken, Status
<1>4. CASE Refuse(r, "internal")
  BY <1>1, <1>4, RefusalKeeps DEF Status
<1>5. CASE ~Taken(req[r].name) /\ Stored(r)
  <2> DEFINE e == [req[r] EXCEPT !.pc = "issue", !.account = NewUser(r)]
  <2>1. /\ e \in Request /\ e.op = req[r].op /\ e.name = req[r].name /\ e.written = req[r].written
        /\ e.password = req[r].password /\ e.pc = "issue" /\ e.account = NewUser(r)
    BY <1>1, NewUserFacts DEF Request
  <2>2. /\ req' = [req EXCEPT ![r] = e] /\ reply' = [reply EXCEPT ![r] = reply[r]]
        /\ users' = users \cup {NewUser(r)}
    BY <1>5 DEF Stored, AccountsInv
  <2>3. reply[r].token = Missing
    BY <1>1 DEF RequestOK
  <2> HIDE DEF e
  <2> QED BY <1>1, <1>5, <2>1, <2>2, <2>3, InsertKeeps
<1>6. CASE ~Taken(req[r].name) /\ StoredUnknown(r)
  <2> DEFINE e == [req[r] EXCEPT !.pc = "done"]
             a == [status |-> "internal", token |-> Missing]
  <2>1. /\ e \in Request /\ e.op = req[r].op /\ e.name = req[r].name /\ e.written = req[r].written
        /\ e.password = req[r].password /\ e.pc = "done"
    BY <1>1 DEF Request
  <2>2. reply[r] = [status |-> "none", token |-> Missing]
    BY <1>1 DEF RequestOK
  <2>3. /\ req' = [req EXCEPT ![r] = e] /\ reply' = [reply EXCEPT ![r] = a]
        /\ users' = users \cup {NewUser(r)}
    <3>1. [reply[r] EXCEPT !.status = "internal"] = a
      BY <2>2
    <3> QED BY <1>6, <3>1 DEF StoredUnknown, AccountsInv
  <2>4. a \in Reply /\ a.token = Missing /\ a.status = "internal"
    BY DEF Reply, Status
  <2> HIDE DEF e, a
  <2> QED BY <1>1, <1>6, <2>1, <2>3, <2>4, InsertKeeps
<1> QED BY <1>3, <1>4, <1>5, <1>6 DEF InsertUser

LEMMA ReadByUsernameKeeps ==
  ASSUME AccountsInv, NEW r \in Requests, ReadByUsername(r)
  PROVE  AccountsInv'
<1>1. req[r].pc = "read" /\ req[r] \in Request /\ RequestOK(r, req[r], reply[r])
  BY DEF AccountsInv, ReadByUsername
<1>2. CASE Refuse(r, "unauthorized") \/ Refuse(r, "internal")
  BY <1>1, <1>2, RefusalKeeps DEF Status
<1>3. ASSUME NEW u \in users, u.username = req[r].name, SamePassword(u.hash, req[r].password),
             req' = [req EXCEPT ![r].pc = "issue", ![r].account = u], UNCHANGED <<users, reply>>
      PROVE  AccountsInv'
  <2>1. u \in User
    BY DEF AccountsInv, RowsOK
  <2>2. PICK e : e = [req[r] EXCEPT !.pc = "issue", !.account = u]
    OBVIOUS
  <2>3. /\ e \in Request /\ e.op = req[r].op /\ e.name = req[r].name /\ e.written = req[r].written
        /\ e.password = req[r].password /\ e.pc = "issue" /\ e.account = u
    BY <1>1, <2>1, <2>2 DEF Request
  <2>4. req' = [req EXCEPT ![r] = e]
    BY <1>3, <2>2 DEF AccountsInv
  <2>5. RequestOK(r, e, reply[r])
    BY <1>1, <1>3, <2>3 DEF RequestOK
  <2> QED BY <1>3, <2>4, <2>5, WaitingMoves
<1> QED BY <1>2, <1>3 DEF ReadByUsername

(* The request that is given a token, and its answer. *)
LEMMA IssueFacts ==
  ASSUME AccountsInv, NEW r \in Requests, IssueAccessToken(r)
  PROVE  LET u == req[r].account
             a == [status |-> IF req[r].op = "register" THEN "created" ELSE "ok",
                   token |-> [uid |-> u.id, usr |-> u.username]]
         IN  /\ u \in users /\ u \in User /\ SamePassword(u.hash, req[r].password)
             /\ u.username = req[r].name /\ req[r].password \in Passwords
             /\ reply[r].token = Missing /\ a \in Reply /\ a.token \in Token
             /\ Moves(r, [req[r] EXCEPT !.pc = "done"], a)
<1> DEFINE u == req[r].account
           t == [uid |-> u.id, usr |-> u.username]
           a == [status |-> IF req[r].op = "register" THEN "created" ELSE "ok", token |-> t]
<1>1. req[r].pc = "issue" /\ req[r] \in Request /\ RequestOK(r, req[r], reply[r])
  BY DEF AccountsInv, IssueAccessToken
<1>2. u \in users /\ u \in User /\ SamePassword(u.hash, req[r].password) /\ u.username = req[r].name
      /\ req[r].password \in Passwords /\ reply[r].token = Missing
  BY <1>1 DEF RequestOK, AccountsInv, RowsOK
<1>3. t \in Token
  BY <1>2 DEF User, Token
<1>4. a \in Reply /\ a.token = t
  BY <1>3 DEF Reply, Status
<1>5. Moves(r, [req[r] EXCEPT !.pc = "done"], a)
  BY DEF IssueAccessToken, Answer, Moves, AccountsInv
<1> QED BY <1>2, <1>3, <1>4, <1>5

LEMMA IssueAccessTokenKeeps ==
  ASSUME AccountsInv, NEW r \in Requests, IssueAccessToken(r)
  PROVE  AccountsInv'
<1>1. req[r].pc = "issue" /\ req[r] \in Request /\ RequestOK(r, req[r], reply[r])
  BY DEF AccountsInv, IssueAccessToken
<1>2. PICK e : e = [req[r] EXCEPT !.pc = "done"]
  OBVIOUS
<1>3. /\ e \in Request /\ e.op = req[r].op /\ e.name = req[r].name /\ e.written = req[r].written
      /\ e.password = req[r].password /\ e.pc = "done"
  BY <1>1, <1>2 DEF Request
<1>4. PICK u \in users, a \in Reply :
        /\ u = req[r].account /\ a.token.uid = u.id /\ a.token.usr = u.username
        /\ a.status = (IF req[r].op = "register" THEN "created" ELSE "ok")
        /\ Moves(r, e, a)
  BY <1>2, IssueFacts
<1>5. RequestOK(r, e, a)
  BY <1>1, <1>3, <1>4 DEF RequestOK
<1> QED BY <1>4, <1>5, MovesKeep

LEMMA GetUserKeeps ==
  ASSUME AccountsInv, NEW r \in Requests, NEW token, NEW id \in Requests, GetUser(r, token, id)
  PROVE  AccountsInv'
<1>1. /\ req[r].pc = "new" /\ req[r] \in Request /\ RequestOK(r, req[r], reply[r])
      /\ reply[r] \in Reply /\ UNCHANGED users
  BY DEF AccountsInv, GetUser
<1>2. reply[r] = [status |-> "none", token |-> Missing] /\ \A u \in users : u.id # r
  BY <1>1 DEF RequestOK
<1>3. CASE /\ reply' = [reply EXCEPT ![r].status = "unauthorized"]
           /\ req' = [req EXCEPT ![r].op = "getUser", ![r].pc = "done"]
  <2>1. PICK e, a : /\ e = [req[r] EXCEPT !.op = "getUser", !.pc = "done"]
                    /\ a = [reply[r] EXCEPT !.status = "unauthorized"]
    OBVIOUS
  <2>2. e \in Request /\ e.op = "getUser" /\ e.pc = "done"
    BY <1>1, <2>1 DEF Request
  <2>3. a \in Reply /\ a.token = Missing /\ a.status = "unauthorized"
    BY <1>2, <2>1 DEF Reply, Status
  <2>4. req' = [req EXCEPT ![r] = e] /\ reply' = [reply EXCEPT ![r] = a]
    BY <1>3, <2>1 DEF AccountsInv
  <2>5. Moves(r, e, a)
    BY <1>1, <2>4 DEF Moves
  <2>6. RequestOK(r, e, a)
    BY <1>2, <2>2, <2>3 DEF RequestOK
  <2> QED BY <2>5, <2>6, MovesKeep
<1>4. CASE /\ req' = [req EXCEPT ![r].op = "getUser", ![r].pc = "get", ![r].id = id]
           /\ UNCHANGED reply
  <2>1. PICK e : e = [req[r] EXCEPT !.op = "getUser", !.pc = "get", !.id = id]
    OBVIOUS
  <2>2. e \in Request /\ e.op = "getUser" /\ e.pc = "get"
    BY <1>1, <2>1 DEF Request
  <2>3. req' = [req EXCEPT ![r] = e]
    BY <1>4, <2>1 DEF AccountsInv
  <2>4. RequestOK(r, e, reply[r])
    BY <1>1, <1>2, <2>2 DEF RequestOK
  <2> QED BY <1>1, <1>4, <2>3, <2>4, WaitingMoves
<1> QED BY <1>3, <1>4 DEF GetUser

LEMMA ReadByIdKeeps ==
  ASSUME AccountsInv, NEW r \in Requests, ReadById(r)
  PROVE  AccountsInv'
BY RefusalKeeps DEF ReadById, Status

LEMMA AccountsInvInit == AccountsInit => AccountsInv
<1> SUFFICES ASSUME AccountsInit PROVE AccountsInv
  OBVIOUS
<1>1. req \in [Requests -> Request] /\ reply \in [Requests -> Reply]
  BY DEF AccountsInit, Request, Reply, Status
<1>2. RowsOK
  BY DEF AccountsInit, RowsOK
<1>3. ASSUME NEW r \in Requests PROVE RequestOK(r, req[r], reply[r])
  BY <1>1 DEF AccountsInit, RequestOK
<1> QED BY <1>1, <1>2, <1>3 DEF AccountsInv

LEMMA AccountsInvNext == AccountsInv /\ [AccountsNext]_accountVars => AccountsInv'
<1> SUFFICES ASSUME AccountsInv, [AccountsNext]_accountVars PROVE AccountsInv'
  OBVIOUS
<1>1. CASE UNCHANGED accountVars
  <2>1. UNCHANGED <<users, req, reply>>
    BY <1>1 DEF accountVars
  <2> QED BY <2>1 DEF AccountsInv, RowsOK, RequestOK
<1> QED
  BY <1>1, RegisterKeeps, LoginKeeps, InsertUserKeeps, ReadByUsernameKeeps, IssueAccessTokenKeeps,
     GetUserKeeps, ReadByIdKeeps
  DEF AccountsNext, AccountsReceive, AccountsProceed, AccountsQuiet

LEMMA AccountsInvariant == AccountsSpec => []AccountsInv
BY AccountsInvInit, AccountsInvNext, PTL DEF AccountsSpec

-----------------------------------------------------------------------------

(* AccountsTypeCorrect: the table, the requests and the answers keep their *)
(* types; in particular only hashes of passwords are stored.               *)
THEOREM AccountsTypeCorrect == AccountsSpec => []AccountsTypeOK
<1>1. AccountsInv => AccountsTypeOK
  BY DEF AccountsInv, RowsOK, AccountsTypeOK
<1> QED BY <1>1, AccountsInvariant, PTL

(* LetInHasAccount: every token that is issued is for a row of the table,  *)
(* under its name.                                                         *)
THEOREM LetInHasAccount == AccountsSpec => []TokensNameAccounts
<1>1. AccountsInv => TokensNameAccounts
  BY DEF AccountsInv, RequestOK, TokensNameAccounts, Issued
<1> QED BY <1>1, AccountsInvariant, PTL

(* NameHasOneOwner: at most one registration of a name is answered         *)
(* "created", and no request conflicts with its own row.                   *)
THEOREM NameHasOneOwner == AccountsSpec => []OneOwner
<1>1. AccountsInv => OneOwner
  BY DEF AccountsInv, RowsOK, RequestOK, OneOwner
<1> QED BY <1>1, AccountsInvariant, PTL

-----------------------------------------------------------------------------
(* NobodyLockedOut. *)

(* A login is turned away by its own step only. *)
LEMMA TurnedAwayBy ==
  ASSUME AccountsInv, AccountsNext, NEW r \in Requests, reply[r].status = "none",
         reply'[r].status \in {"unauthorized", "validation"}, req'[r].op = "login"
  PROVE  \/ \E n \in Names, p \in Passwords : Login(r, n, p)
         \/ ReadByUsername(r)
<1>1. req \in [Requests -> Request] /\ reply \in [Requests -> Reply] /\ req[r] \in Request
  BY DEF AccountsInv
<1>2. ~AccountsQuiet
  BY <1>1 DEF AccountsQuiet, accountVars
<1>3. PICK q \in Requests : AccountsReceive(q) \/ AccountsProceed(q)
  BY <1>2 DEF AccountsNext
<1>4. q = r
  <2>1. CASE AccountsReceive(q)
    BY <1>1, <2>1 DEF AccountsReceive, Register, Login, GetUser, Refuse
  <2>2. CASE AccountsProceed(q)
    BY <1>1, <2>2 DEF AccountsProceed, InsertUser, ReadByUsername, IssueAccessToken, ReadById,
         Refuse, Answer, Stored, StoredUnknown
  <2> QED BY <1>3, <2>1, <2>2
<1>5. ASSUME NEW n \in Names, NEW p \in Passwords, Register(r, n, p) PROVE FALSE
  <2> DEFINE begun == [req[r] EXCEPT !.op = "register", !.written = n,
                         !.name = Trimmed("register", n), !.password = p]
  <2>1. \E pc : req' = [req EXCEPT ![r] = [begun EXCEPT !.pc = pc]]
    BY <1>5 DEF Register
  <2>2. \A pc : [begun EXCEPT !.pc = pc].op = "register"
    BY <1>1 DEF Request
  <2> HIDE DEF begun
  <2>3. req'[r].op = "register"
    BY <1>1, <2>1, <2>2
  <2> QED BY <2>3
<1>6. ASSUME NEW t, NEW id, GetUser(r, t, id) PROVE FALSE
  <2>1. req'[r].op = "getUser"
    BY <1>1, <1>6 DEF GetUser, Request
  <2> QED BY <2>1
<1>7. ~InsertUser(r)
  <2>1. SUFFICES ASSUME InsertUser(r) PROVE req'[r].op # "login"
    OBVIOUS
  <2>2. req[r].op = "register"
    BY <2>1 DEF InsertUser, AccountsInv, RequestOK
  <2>3. req'[r].op = req[r].op
    BY <1>1, <2>1 DEF InsertUser, Refuse, Answer, Stored, StoredUnknown, Request
  <2> QED BY <2>2, <2>3
<1>8. ~IssueAccessToken(r)
  <2>1. SUFFICES ASSUME IssueAccessToken(r) PROVE reply'[r].status \in {"created", "ok"}
    OBVIOUS
  <2> QED BY <1>1, <2>1 DEF IssueAccessToken, Answer
<1>9. ~ReadById(r)
  <2>1. SUFFICES ASSUME ReadById(r) PROVE reply'[r].status \in {"ok", "notFound", "internal"}
    OBVIOUS
  <2> QED BY <1>1, <2>1 DEF ReadById, Refuse, Answer
<1> QED
  BY <1>3, <1>4, <1>5, <1>6, <1>7, <1>8, <1>9 DEF AccountsReceive, AccountsProceed

LEMMA TurnedAwayRightly ==
  ASSUME AccountsInv, AccountsNext, NEW r \in Requests, reply[r].status = "none",
         reply'[r].status \in {"unauthorized", "validation"}, req'[r].op = "login",
         NEW u \in users, u.username = TrimSpace[req'[r].written]
  PROVE  u.hash # req'[r].password
<1>1. /\ req \in [Requests -> Request] /\ reply \in [Requests -> Reply] /\ req[r] \in Request
      /\ RequestOK(r, req[r], reply[r])
      /\ Head72[u.hash] = u.hash /\ WellFormed(u.username, u.hash)
  BY DEF AccountsInv, RowsOK
<1>2. ASSUME NEW n \in Names, NEW p \in Passwords, Login(r, n, p) PROVE u.hash # req'[r].password
  <2>1. ~WellFormed(TrimSpace[n], p)
    BY <1>1, <1>2 DEF Login, Trimmed
  <2>2. req'[r].written = n /\ req'[r].password = p
    <3>1. PICK pc \in {"read", "done"} : req' = [req EXCEPT ![r] = Begun(r, "login", n, p, pc)]
      BY <1>2 DEF Login, Begun, Trimmed
    <3>2. req'[r] = Begun(r, "login", n, p, pc) /\ req[r].pc = "new"
      BY <1>1, <1>2, <3>1 DEF Login
    <3> QED BY <3>2, BegunFacts
  <2> QED BY <1>1, <2>1, <2>2
<1>3. CASE ReadByUsername(r)
  <2>1. req'[r].written = req[r].written /\ req'[r].password = req[r].password
    BY <1>1, <1>3 DEF ReadByUsername, Refuse, Answer, Request
  <2>2. req[r].name = TrimSpace[req[r].written]
    BY <1>1, <1>3 DEF ReadByUsername, RequestOK
  <2>3. ~SamePassword(u.hash, req[r].password)
    BY <1>1, <1>3, <2>1, <2>2 DEF ReadByUsername, Refuse, Answer
  <2> QED BY <1>1, <2>1, <2>3 DEF SamePassword
<1> QED BY <1>2, <1>3, TurnedAwayBy

(* NobodyIsLockedOut: whatever registration takes, login takes. *)
THEOREM NobodyIsLockedOut == AccountsSpec => NobodyLockedOut
<1>1. AccountsInv /\ [AccountsNext]_accountVars =>
        [\A r \in Requests :
           reply[r].status = "none" /\ reply'[r].status \in {"unauthorized", "validation"}
           /\ req'[r].op = "login" =>
             \A u \in users :
               u.username = TrimSpace[req'[r].written] => u.hash # req'[r].password]_accountVars
  BY TurnedAwayRightly
<1> QED BY <1>1, AccountsInvariant, PTL DEF AccountsSpec, NobodyLockedOut

-----------------------------------------------------------------------------
(* Accounts implements Directory. *)

(* The owner of a name is who its one row says. *)
LEMMA OwnerFacts ==
  ASSUME RowsOK, NEW n \in Names
  PROVE  /\ \A u \in users : u.username = n => OwnerOf(n) = [id |-> u.id, secret |-> u.hash]
         /\ ~Taken(n) => OwnerOf(n) = Missing
<1>1. ASSUME NEW u \in users, u.username = n PROVE OwnerOf(n) = [id |-> u.id, secret |-> u.hash]
  <2>1. Taken(n)
    BY <1>1 DEF Taken
  <2>2. (CHOOSE v \in users : v.username = n) = u
    BY <1>1 DEF RowsOK
  <2> QED BY <2>1, <2>2 DEF OwnerOf
<1> QED BY <1>1 DEF OwnerOf

LEMMA OwnerFactsNext ==
  ASSUME RowsOK', NEW n \in Names
  PROVE  /\ \A u \in users' : u.username = n => OwnerOf(n)' = [id |-> u.id, secret |-> u.hash]
         /\ ~Taken(n)' => OwnerOf(n)' = Missing
<1>1. ASSUME NEW u \in users', u.username = n PROVE OwnerOf(n)' = [id |-> u.id, secret |-> u.hash]
  <2>1. Taken(n)'
    BY <1>1 DEF Taken
  <2>2. (CHOOSE v \in users' : v.username = n) = u
    BY <1>1 DEF RowsOK
  <2> QED BY <2>1, <2>2 DEF OwnerOf
<1> QED BY <1>1 DEF OwnerOf

(* Neither a request without a token nor its password is seen. *)
LEMMA SessionsKept ==
  ASSUME NEW r \in Requests, req \in [Requests -> Request], reply \in [Requests -> Reply],
         reply[r].token = Missing, reply'[r].token = Missing,
         \A q \in Requests \ {r} : req'[q] = req[q] /\ reply'[q] = reply[q]
  PROVE  UNCHANGED Sessions
BY DEF Sessions, SessionOf

(* An INSERT that takes effect claims a free name. *)
LEMMA InsertClaims ==
  ASSUME AccountsInv, NEW r \in Requests, req[r].pc = "insert", ~Taken(req[r].name),
         users' = users \cup {NewUser(r)}, UNCHANGED Sessions, RowsOK'
  PROVE  Book!Claim(req[r].name, r, req[r].password)
<1> DEFINE n == req[r].name
           new == [id |-> r, secret |-> req[r].password]
<1>1. /\ NewUser(r).id = r /\ NewUser(r).username = n /\ NewUser(r).hash = req[r].password
      /\ \A u \in users : u.id # r
      /\ n \in Names
  BY NewUserFacts
<1>2. RowsOK
  BY DEF AccountsInv
<1>3. Owners[n] = Missing
  BY <1>1, <1>2, OwnerFacts DEF Owners
<1>4. ASSUME NEW m \in Names, Owners[m] # Missing PROVE Owners[m].id # r
  <2>1. PICK u \in users : u.username = m
    BY <1>2, <1>4, OwnerFacts DEF Owners, Taken
  <2>2. Owners[m] = [id |-> u.id, secret |-> u.hash]
    BY <1>2, <2>1, OwnerFacts DEF Owners
  <2> QED BY <1>1, <2>1, <2>2
<1>5. ASSUME NEW m \in Names PROVE OwnerOf(m)' = IF m = n THEN new ELSE OwnerOf(m)
  <2>1. /\ \A u \in users' : u.username = m => OwnerOf(m)' = [id |-> u.id, secret |-> u.hash]
        /\ ~Taken(m)' => OwnerOf(m)' = Missing
    BY OwnerFactsNext
  <2>2. CASE m = n
    BY <1>1, <2>1, <2>2
  <2>3. CASE m # n /\ Taken(m)
    <3>1. PICK u \in users : u.username = m
      BY <2>3 DEF Taken
    <3> QED BY <1>2, <2>1, <2>3, <3>1, OwnerFacts
  <2>4. CASE m # n /\ ~Taken(m)
    <3>1. ~Taken(m)'
      BY <1>1, <2>4 DEF Taken
    <3> QED BY <1>2, <2>1, <2>4, <3>1, OwnerFacts
  <2> QED BY <2>2, <2>3, <2>4
<1>6. Owners' = [Owners EXCEPT ![n] = new]
  BY <1>5 DEF Owners
<1> QED BY <1>1, <1>3, <1>4, <1>6 DEF Book!Claim

(* A token opens a session of its owner. *)
LEMMA TokenEnters ==
  ASSUME AccountsInv, NEW r \in Requests, IssueAccessToken(r)
  PROVE  \E n \in Names, s \in Passwords : Book!Enter(n, s)
<1> DEFINE p == req[r].password
<1>0. /\ req \in [Requests -> Request] /\ reply \in [Requests -> Reply] /\ req[r] \in Request
      /\ RowsOK
  BY DEF AccountsInv
<1>1. PICK u \in users, a \in Reply :
        /\ u \in User /\ u.username \in Names /\ SamePassword(u.hash, p) /\ p \in Passwords
        /\ reply[r].token = Missing /\ a.token \in Token /\ a.token.uid = u.id
        /\ Moves(r, [req[r] EXCEPT !.pc = "done"], a)
  <2>1. req[r].account.username \in Names
    BY IssueFacts DEF User
  <2> QED BY <2>1, IssueFacts
<1>2. Owners[u.username] = [id |-> u.id, secret |-> u.hash]
  BY <1>0, <1>1, OwnerFacts DEF Owners
<1>3. Owners[u.username] # Missing
  <2>1. [id |-> u.id, secret |-> u.hash] \in [id : Requests, secret : Passwords]
    BY <1>1 DEF User
  <2> QED BY <1>2, <2>1, AccountsAssumption
<1>4. a.token # Missing
  BY <1>1, AccountsAssumption
<1>5. /\ \A q \in Requests : req'[q].password = req[q].password
      /\ \A q \in Requests \ {r} : reply'[q] = reply[q]
      /\ reply'[r] = a
  BY <1>0, <1>1 DEF Moves, Request
<1>6. Sessions' = Sessions \cup {[id |-> u.id, shown |-> p]}
  <2>1. SessionOf(r)' = [id |-> u.id, shown |-> p]
    BY <1>1, <1>5 DEF SessionOf
  <2>2. \A q \in Requests \ {r} : SessionOf(q)' = SessionOf(q)
    BY <1>5 DEF SessionOf
  <2>3. {q \in Requests : reply'[q].token # Missing}
          = {q \in Requests : reply[q].token # Missing} \cup {r}
    BY <1>4, <1>5
  <2>4. r \notin {q \in Requests : reply[q].token # Missing}
    BY <1>1
  <2> QED BY <2>1, <2>2, <2>3, <2>4 DEF Sessions
<1>7. UNCHANGED Owners
  BY <1>1 DEF Moves, Owners, OwnerOf, Taken
<1>8. Book!Enter(u.username, p)
  BY <1>1, <1>2, <1>3, <1>6, <1>7 DEF Book!Enter
<1> QED BY <1>1, <1>8

(* Every other step leaves the rows and the tokens alone. *)
LEMMA OtherStepsKeep ==
  ASSUME AccountsInv, NEW r \in Requests, UNCHANGED users,
         req[r].pc # "done", reply'[r].token = Missing,
         \A q \in Requests \ {r} : req'[q] = req[q] /\ reply'[q] = reply[q]
  PROVE  UNCHANGED Book!directoryVars
<1>1. reply[r].token = Missing
  BY DEF AccountsInv, RequestOK
<1>2. UNCHANGED Sessions
  BY <1>1, SessionsKept DEF AccountsInv
<1>3. UNCHANGED Owners
  BY DEF Owners, OwnerOf, Taken
<1> QED BY <1>2, <1>3 DEF Book!directoryVars

LEMMA StepsOfDirectory ==
  ASSUME AccountsInv, [AccountsNext]_accountVars
  PROVE  [Book!DirectoryNext]_(Book!directoryVars)
<1> DEFINE Goal == [Book!DirectoryNext]_(Book!directoryVars)
<1>0. /\ req \in [Requests -> Request] /\ reply \in [Requests -> Reply]
      /\ \A r \in Requests : req[r].pc # "done" => reply[r].token = Missing
  BY DEF AccountsInv, RequestOK
<1>1. ASSUME NEW r \in Requests, AccountsReceive(r) PROVE Goal
  <2>1. req[r].pc # "done" /\ UNCHANGED users
    BY <1>1 DEF AccountsReceive, Register, Login, GetUser
  <2>2. /\ reply'[r].token = Missing
        /\ \A q \in Requests \ {r} : req'[q] = req[q] /\ reply'[q] = reply[q]
    <3>1. reply[r].token = Missing /\ reply[r] \in Reply
      BY <1>0, <2>1
    <3>2. \/ UNCHANGED reply
          \/ \E status : reply' = [reply EXCEPT ![r].status = status]
      BY <1>1 DEF AccountsReceive, Register, Login, GetUser
    <3>3. \A q \in Requests \ {r} : req'[q] = req[q]
      BY <1>0, <1>1 DEF AccountsReceive, Register, Login, GetUser
    <3> QED BY <1>0, <3>1, <3>2, <3>3 DEF Reply
  <2> QED BY <2>1, <2>2, OtherStepsKeep
<1>2. ASSUME NEW r \in Requests, req[r].pc # "done", NEW status, Refuse(r, status) PROVE Goal
  <2>1. /\ reply'[r].token = Missing /\ UNCHANGED users
        /\ \A q \in Requests \ {r} : req'[q] = req[q] /\ reply'[q] = reply[q]
    BY <1>0, <1>2 DEF Refuse, Answer
  <2> QED BY <1>2, <2>1, OtherStepsKeep
<1>3. ASSUME NEW r \in Requests, InsertUser(r) PROVE Goal
  <2>1. CASE ~Taken(req[r].name) /\ (Stored(r) \/ StoredUnknown(r))
    <3>1. req[r].pc = "insert" /\ users' = users \cup {NewUser(r)}
      BY <1>3, <2>1 DEF InsertUser, Stored, StoredUnknown
    <3>2. /\ reply[r].token = Missing /\ reply[r] \in Reply /\ reply'[r].token = Missing
          /\ \A q \in Requests \ {r} : req'[q] = req[q] /\ reply'[q] = reply[q]
      BY <1>0, <2>1, <3>1 DEF Stored, StoredUnknown, Reply
    <3>3. UNCHANGED Sessions
      BY <1>0, <3>2, SessionsKept
    <3>4. RowsOK'
      BY <1>3, InsertUserKeeps DEF AccountsInv
    <3>5. req[r].name \in Names /\ req[r].password \in Passwords
      BY <3>1, NewUserFacts
    <3> QED BY <2>1, <3>1, <3>3, <3>4, <3>5, InsertClaims DEF Book!DirectoryNext
  <2>2. CASE \E status : Refuse(r, status)
    BY <1>2, <1>3, <2>2 DEF InsertUser
  <2> QED BY <1>3, <2>1, <2>2 DEF InsertUser
<1>4. ASSUME NEW r \in Requests, ReadByUsername(r) PROVE Goal
  <2>1. CASE UNCHANGED <<users, reply>>
    <3>1. reply'[r].token = Missing /\ req[r].pc # "done"
      BY <1>0, <1>4, <2>1 DEF ReadByUsername
    <3>2. \A q \in Requests \ {r} : req'[q] = req[q] /\ reply'[q] = reply[q]
      BY <1>0, <1>4, <2>1 DEF ReadByUsername, Refuse, Answer
    <3> QED BY <2>1, <3>1, <3>2, OtherStepsKeep
  <2> QED BY <1>2, <1>4, <2>1 DEF ReadByUsername
<1>5. ASSUME NEW r \in Requests, IssueAccessToken(r) PROVE Goal
  BY <1>5, TokenEnters DEF Book!DirectoryNext
<1>6. ASSUME NEW r \in Requests, ReadById(r) PROVE Goal
  BY <1>2, <1>6 DEF ReadById
<1>7. CASE UNCHANGED accountVars
  BY <1>7 DEF accountVars, Book!directoryVars, Owners, OwnerOf, Taken, Sessions, SessionOf
<1> QED
  BY <1>1, <1>3, <1>4, <1>5, <1>6, <1>7 DEF AccountsNext, AccountsProceed, AccountsQuiet

(* AccountsAreADirectory: Accounts implements Directory.  However          *)
(* registrations and logins overlap and statements fail, names are claimed *)
(* once, and sessions are opened with the secret of their owner only.      *)
THEOREM AccountsAreADirectory == AccountsSpec => ImplementsDirectory
<1>1. AccountsInit => Book!DirectoryInit
  <2> SUFFICES ASSUME AccountsInit PROVE Book!DirectoryInit
    OBVIOUS
  <2>1. RowsOK /\ \A n \in Names : ~Taken(n)
    BY AccountsInvInit DEF AccountsInit, AccountsInv, Taken
  <2>2. Owners = [n \in Names |-> Missing]
    BY <2>1, OwnerFacts DEF Owners
  <2>3. Sessions = {}
    BY DEF AccountsInit, Sessions
  <2> QED BY <2>2, <2>3 DEF Book!DirectoryInit
<1>2. AccountsInv /\ [AccountsNext]_accountVars => [Book!DirectoryNext]_(Book!directoryVars)
  BY StepsOfDirectory
<1> QED BY <1>1, <1>2, AccountsInvariant, PTL DEF AccountsSpec, ImplementsDirectory, Book!DirectorySpec

=============================================================================
