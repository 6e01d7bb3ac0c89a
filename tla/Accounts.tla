------------------------------- MODULE Accounts -------------------------------
(***************************************************************************)
(* Registration, login and looking a user up: user_service.go over         *)
(* user_repo.go, their handlers, and the tokens that the auth middleware   *)
(* lets in.  A request goes in steps where others may come in between or   *)
(* its call may fail: the checks with bcrypt, the statement, the token.    *)
(*                                                                         *)
(* Names are what clients write; TrimSpace maps them to what is stored.    *)
(* A hash is the password it was made of, and SamePassword is what         *)
(* CompareHashAndPassword finds out about it.  The id that uuid.New gives  *)
(* to a registration is the request itself.                                *)
(***************************************************************************)
EXTENDS Integers, FiniteSets

CONSTANTS
  Requests,       \* HTTP requests
  Names,          \* user names as clients write them
  TrimSpace,      \* name -> the name without the blanks around it
  NameLength,     \* name -> its bytes
  Passwords,      \* passwords clients write
  Length,         \* password -> its bytes
  Head72,         \* password -> its first 72 bytes, as a password
  StoreFails,     \* whether statements fail
  Missing         \* no name, no account, no token

VARIABLES
  users,      \* the table: rows of id, name and password hash
  req,        \* request -> where it is and what it knows
  reply       \* request -> its answer

accountVars == <<users, req, reply>>

BcryptMax == 72

User == [id : Requests, username : Names, hash : Passwords]

(* A token that IssueAccessToken signed: the claims uid and usr. *)
Token == [uid : Requests, usr : Names]

ASSUME AccountsAssumption ==
  /\ TrimSpace \in [Names -> Names]
  /\ \A n \in Names : TrimSpace[TrimSpace[n]] = TrimSpace[n]
  /\ NameLength \in [Names -> Nat] /\ Length \in [Passwords -> Nat]
  /\ Head72 \in [Passwords -> Passwords]
  /\ \A p \in Passwords : Length[p] <= BcryptMax => Head72[p] = p
  /\ StoreFails \in BOOLEAN
  /\ Missing \notin Names \cup Passwords \cup Requests
  /\ Missing \notin User /\ Missing \notin Token /\ Missing \notin [id : Requests, secret : Passwords]

Request ==
  [pc : {"new", "insert", "read", "issue", "get", "done"},
   op : {"none", "register", "login", "getUser"},
   written : Names \cup {Missing}, name : Names \cup {Missing},
   password : Passwords \cup {Missing},
   account : User \cup {Missing}, id : Requests \cup {Missing}]

Status == {"none", "created", "ok", "validation", "unauthorized", "notFound", "conflict", "internal"}

Reply == [status : Status, token : Token \cup {Missing}]

AccountsTypeOK ==
  /\ users \subseteq User
  /\ req \in [Requests -> Request]
  /\ reply \in [Requests -> Reply]

AccountsInit ==
  /\ users = {}
  /\ req = [r \in Requests |-> [pc |-> "new", op |-> "none", written |-> Missing,
              name |-> Missing, password |-> Missing, account |-> Missing, id |-> Missing]]
  /\ reply = [r \in Requests |-> [status |-> "none", token |-> Missing]]

-----------------------------------------------------------------------------

(* writeError, or the JSON of the handler. *)
Answer(r, status, token) ==
  /\ reply' = [reply EXCEPT ![r] = [status |-> status, token |-> token]]
  /\ req' = [req EXCEPT ![r].pc = "done"]

Refuse(r, status) == Answer(r, status, Missing) /\ UNCHANGED users

WellFormed(name, password) == NameLength[name] \in 3..32 /\ Length[password] \in 8..128

(* CompareHashAndPassword reads 72 bytes of a password. *)
SamePassword(hash, password) == Head72[password] = hash

(* Mutant of Trimmed: login takes the name as it was written. *)
TrimmedAtRegistration(op, name) == IF op = "login" THEN name ELSE TrimSpace[name]

Trimmed(op, name) == TrimSpace[name]

(* GenerateFromPassword takes no more than 72 bytes. *)
Hashes(password) == Length[password] <= BcryptMax

(* POST /users up to the INSERT. *)
Register(r, written, password) ==
  /\ req[r].pc = "new"
  /\ LET name == Trimmed("register", written)
         begun == [req[r] EXCEPT !.op = "register", !.written = written, !.name = name, !.password = password]
         answered(status) ==
           /\ reply' = [reply EXCEPT ![r].status = status]
           /\ req' = [req EXCEPT ![r] = [begun EXCEPT !.pc = "done"]]
     IN  \/ ~WellFormed(name, password) /\ answered("validation")
         \/ WellFormed(name, password) /\ ~Hashes(password) /\ answered("internal")
         \/ /\ WellFormed(name, password) /\ Hashes(password)
            /\ req' = [req EXCEPT ![r] = [begun EXCEPT !.pc = "insert"]]
            /\ UNCHANGED reply
  /\ UNCHANGED users

NewUser(r) == [id |-> r, username |-> req[r].name, hash |-> Head72[req[r].password]]

Taken(name) == \E u \in users : u.username = name

Stored(r) ==
  /\ users' = users \cup {NewUser(r)}
  /\ req' = [req EXCEPT ![r].pc = "issue", ![r].account = NewUser(r)]
  /\ UNCHANGED reply

(* The INSERT took effect, its answer did not come. *)
StoredUnknown(r) ==
  /\ users' = users \cup {NewUser(r)}
  /\ reply' = [reply EXCEPT ![r].status = "internal"]
  /\ req' = [req EXCEPT ![r].pc = "done"]

(* Mutant of InsertUser: ON CONFLICT DO UPDATE. *)
InsertOrUpdate(r) ==
  /\ req[r].pc = "insert"
  /\ users' = {u \in users : u.username # req[r].name} \cup {NewUser(r)}
  /\ req' = [req EXCEPT ![r].pc = "issue", ![r].account = NewUser(r)]
  /\ UNCHANGED reply

(* Mutant of InsertUser: an INSERT without an answer is sent again. *)
InsertAgain(r) ==
  /\ req[r].pc = "insert"
  /\ \/ Taken(req[r].name) /\ Refuse(r, "conflict")
     \/ ~Taken(req[r].name) /\ Stored(r)
     \/ StoreFails /\ ~Taken(req[r].name) /\ users' = users \cup {NewUser(r)} /\ UNCHANGED <<req, reply>>

(* UserRepo.Create. *)
InsertUser(r) ==
  /\ req[r].pc = "insert"
  /\ \/ Taken(req[r].name) /\ Refuse(r, "conflict")
     \/ ~Taken(req[r].name) /\ Stored(r)
     \/ StoreFails /\ ~Taken(req[r].name) /\ StoredUnknown(r)
     \/ StoreFails /\ Refuse(r, "internal")

(* POST /auth/login up to the SELECT. *)
Login(r, written, password) ==
  /\ req[r].pc = "new"
  /\ LET name == Trimmed("login", written)
         begun == [req[r] EXCEPT !.op = "login", !.written = written, !.name = name, !.password = password]
     IN  \/ /\ ~WellFormed(name, password)
            /\ reply' = [reply EXCEPT ![r].status = "validation"]
            /\ req' = [req EXCEPT ![r] = [begun EXCEPT !.pc = "done"]]
         \/ /\ WellFormed(name, password)
            /\ req' = [req EXCEPT ![r] = [begun EXCEPT !.pc = "read"]]
            /\ UNCHANGED reply
  /\ UNCHANGED users

(* Mutant of ReadByUsername: the hash is not compared. *)
ReadOnly(r) ==
  /\ req[r].pc = "read"
  /\ \/ ~Taken(req[r].name) /\ Refuse(r, "unauthorized")
     \/ \E u \in users :
          /\ u.username = req[r].name
          /\ req' = [req EXCEPT ![r].pc = "issue", ![r].account = u]
          /\ UNCHANGED <<users, reply>>

(* UserRepo.GetByUsername and CompareHashAndPassword. *)
ReadByUsername(r) ==
  /\ req[r].pc = "read"
  /\ \/ /\ \A u \in users : u.username = req[r].name => ~SamePassword(u.hash, req[r].password)
        /\ Refuse(r, "unauthorized")
     \/ \E u \in users :
          /\ u.username = req[r].name /\ SamePassword(u.hash, req[r].password)
          /\ req' = [req EXCEPT ![r].pc = "issue", ![r].account = u]
          /\ UNCHANGED <<users, reply>>
     \/ StoreFails /\ Refuse(r, "internal")

(* JWT.IssueAccessToken, and the answer. *)
IssueAccessToken(r) ==
  /\ req[r].pc = "issue"
  /\ Answer(r, IF req[r].op = "register" THEN "created" ELSE "ok",
            [uid |-> req[r].account.id, usr |-> req[r].account.username])
  /\ UNCHANGED users

Issued == {reply[r].token : r \in Requests} \ {Missing}

(* Auth with a token that was issued: Parse accepts it until it expires.   *)
(* Then GET /users/:id up to the SELECT.                                   *)
GetUser(r, token, id) ==
  /\ req[r].pc = "new" /\ token \in Issued
  /\ \/ /\ reply' = [reply EXCEPT ![r].status = "unauthorized"]
        /\ req' = [req EXCEPT ![r].op = "getUser", ![r].pc = "done"]
     \/ /\ req' = [req EXCEPT ![r].op = "getUser", ![r].pc = "get", ![r].id = id]
        /\ UNCHANGED reply
  /\ UNCHANGED users

(* UserRepo.GetByID; the hash is blanked. *)
ReadById(r) ==
  /\ req[r].pc = "get"
  /\ \/ (\E u \in users : u.id = req[r].id) /\ Refuse(r, "ok")
     \/ (\A u \in users : u.id # req[r].id) /\ Refuse(r, "notFound")
     \/ StoreFails /\ Refuse(r, "internal")

-----------------------------------------------------------------------------

AccountsReceive(r) ==
  \/ \E n \in Names, p \in Passwords : Register(r, n, p) \/ Login(r, n, p)
  \/ \E t \in Issued, q \in Requests : GetUser(r, t, q)

AccountsProceed(r) == InsertUser(r) \/ ReadByUsername(r) \/ IssueAccessToken(r) \/ ReadById(r)

(* Every request has been answered. *)
AccountsQuiet ==
  /\ \A r \in Requests : req[r].pc = "done"
  /\ UNCHANGED accountVars

AccountsNext == (\E r \in Requests : AccountsReceive(r) \/ AccountsProceed(r)) \/ AccountsQuiet

AccountsSpec == AccountsInit /\ [][AccountsNext]_accountVars

-----------------------------------------------------------------------------

(* TokensNameAccounts: a token is only ever issued for a stored account,   *)
(* under the name it is stored with: whoever is let in exists, although    *)
(* the INSERT may fail after it took effect, or conflict.                  *)
TokensNameAccounts ==
  \A t \in Issued : \E u \in users : u.id = t.uid /\ u.username = t.usr

(* OneOwner: of the requests that register a name, with or without blanks  *)
(* around it and at the same time, at most one is answered "created", and  *)
(* a conflict is always with somebody else's account, never with the row   *)
(* the request itself stored.                                              *)
OneOwner ==
  \A r \in Requests :
    /\ reply[r].status = "created" =>
         \A q \in Requests : reply[q].status = "created" /\ req[q].name = req[r].name => q = r
    /\ reply[r].status = "conflict" =>
         \E u \in users : u.username = req[r].name /\ u.id # r

(* NobodyLockedOut: an account that is stored, although its "created" may *)
(* never have arrived, lets in whoever writes its name, with blanks around *)
(* it or without, and its password: whatever registration took, login      *)
(* takes, and it is only turned away when PostgreSQL does not answer.      *)
NobodyLockedOut ==
  [][\A r \in Requests :
       reply[r].status = "none" /\ reply'[r].status \in {"unauthorized", "validation"}
       /\ req'[r].op = "login" =>
         \A u \in users :
           u.username = TrimSpace[req'[r].written] => u.hash # req'[r].password]_accountVars

(* The accounts as a directory: names are claimed by the INSERT, sessions  *)
(* are opened by the tokens.                                               *)
OwnerOf(n) ==
  IF Taken(n) THEN LET u == CHOOSE v \in users : v.username = n IN [id |-> u.id, secret |-> u.hash]
  ELSE Missing

Owners == [n \in Names |-> OwnerOf(n)]

SessionOf(r) == [id |-> reply[r].token.uid, shown |-> req[r].password]

Sessions == {SessionOf(r) : r \in {q \in Requests : reply[q].token # Missing}}

Book == INSTANCE Directory WITH
  Ids <- Requests, Secrets <- Passwords, Opens <- SamePassword,
  owner <- Owners, sessions <- Sessions

(* ImplementsDirectory: names are claimed once and for good, and a token   *)
(* is issued only to who showed the password of the account it names,      *)
(* whatever overlaps or fails.                                             *)
ImplementsDirectory == Book!DirectorySpec

=============================================================================
