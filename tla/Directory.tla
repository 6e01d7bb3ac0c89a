------------------------------ MODULE Directory ------------------------------
(***************************************************************************)
(* What the accounts promise, apart from requests, hashes and failures: a  *)
(* name is claimed once, with a secret, by somebody new; from then on only *)
(* its secret opens sessions of its owner, and the claim stays.            *)
(***************************************************************************)
CONSTANTS
  Names, Ids, Secrets,
  Missing,             \* nobody
  Opens(_, _)          \* Opens(s, t): secret t is good for what was claimed with s

VARIABLES
  owner,      \* name -> who claimed it, with which secret
  sessions    \* sessions that were opened: whose, and the secret that was shown

directoryVars == <<owner, sessions>>

DirectoryInit == owner = [n \in Names |-> Missing] /\ sessions = {}

Claim(n, i, s) ==
  /\ owner[n] = Missing
  /\ \A m \in Names : owner[m] # Missing => owner[m].id # i
  /\ owner' = [owner EXCEPT ![n] = [id |-> i, secret |-> s]]
  /\ UNCHANGED sessions

Enter(n, s) ==
  /\ owner[n] # Missing
  /\ Opens(owner[n].secret, s)
  /\ sessions' = sessions \cup {[id |-> owner[n].id, shown |-> s]}
  /\ UNCHANGED owner

DirectoryNext ==
  \E n \in Names, s \in Secrets : (\E i \in Ids : Claim(n, i, s)) \/ Enter(n, s)

DirectorySpec == DirectoryInit /\ [][DirectoryNext]_directoryVars

=============================================================================
