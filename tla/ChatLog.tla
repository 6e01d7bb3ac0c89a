------------------------------- MODULE ChatLog -------------------------------
(***************************************************************************)
(* What the message API promises its clients, whatever the requests        *)
(* interleave, fail or die in: a chat is opened once with its members and  *)
(* closed for good at most once; while it is open its log only grows, by   *)
(* one message of a member at a time, and no two messages have the same    *)
(* stamp; only what was written to a log is ever announced.                *)
(***************************************************************************)
EXTENDS Models

VARIABLES
  state,       \* dialog -> "free", "open" or "closed"
  members,     \* dialog -> who may write, {} unless it is open
  log,         \* the messages of the open dialogs
  announced    \* the messages given to the dialog's listeners

logVars == <<state, members, log, announced>>

LogInit ==
  /\ state \in [Dialogs -> {"free", "open"}]
  /\ members \in [Dialogs -> SUBSET Users]
  /\ log = {}
  /\ announced = {}

Open(d, ms) ==
  /\ state[d] = "free"
  /\ Cardinality(ms) >= 2
  /\ state' = [state EXCEPT ![d] = "open"]
  /\ members' = [members EXCEPT ![d] = ms]
  /\ UNCHANGED <<log, announced>>

Write(m) ==
  /\ state[m.dialog] = "open"
  /\ m.sender \in members[m.dialog]
  /\ \A k \in log : k.at # m.at
  /\ log' = log \cup {m}
  /\ UNCHANGED <<state, members, announced>>

Announce(m) ==
  /\ m \in log \/ state[m.dialog] = "closed"
  /\ announced' = announced \cup {m}
  /\ UNCHANGED <<state, members, log>>

Close(d) ==
  /\ state[d] = "open"
  /\ state' = [state EXCEPT ![d] = "closed"]
  /\ members' = [members EXCEPT ![d] = {}]
  /\ log' = {m \in log : m.dialog # d}
  /\ UNCHANGED announced

(* The new message is looked for in the new log, Message being infinite. *)
LogNext ==
  \/ \E d \in Dialogs, ms \in SUBSET Users : Open(d, ms)
  \/ \E m \in log' \ log : Write(m)
  \/ \E m \in announced' \ announced : Announce(m)
  \/ \E d \in Dialogs : Close(d)

LogSpec == LogInit /\ [][LogNext]_logVars

=============================================================================
