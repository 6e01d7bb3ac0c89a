--------------------------------- MODULE Feed ---------------------------------
(***************************************************************************)
(* What the WebSocket side promises to listeners, apart from goroutines,   *)
(* buffers and locks: an event is due to whoever listens to its dialog     *)
(* when its broadcast begins; it reaches each of them at most once, while  *)
(* the socket is open, and not before an earlier event that is still due;  *)
(* or it is lost.                                                          *)
(***************************************************************************)
EXTENDS Naturals, Sequences

CONSTANTS Conns, Dialogs, Events, DialogOf, Missing

VARIABLES
  socket,     \* connection -> "new", "open" or "shut"
  dialog,     \* connection -> the dialog it asked for
  joined,     \* connections that listen
  phase,      \* event -> "new", "sending" or "over"
  before,     \* event -> the events whose broadcast was over when its own began
  due,        \* connections with the events on their way to them
  got         \* connection -> the events that reached it, in order

feedVars == <<socket, dialog, joined, phase, before, due, got>>

FeedInit ==
  /\ socket = [c \in Conns |-> "new"]
  /\ dialog = [c \in Conns |-> Missing]
  /\ joined = {}
  /\ phase = [e \in Events |-> "new"]
  /\ before = [e \in Events |-> {}]
  /\ due = {}
  /\ got = [c \in Conns |-> <<>>]

Open(c) ==
  /\ socket[c] = "new"
  /\ socket' = [socket EXCEPT ![c] = "open"]
  /\ UNCHANGED <<dialog, joined, phase, before, due, got>>

Join(c, d) ==
  /\ socket[c] = "open" /\ dialog[c] = Missing
  /\ dialog' = [dialog EXCEPT ![c] = d]
  /\ joined' = joined \cup {c}
  /\ UNCHANGED <<socket, phase, before, due, got>>

Announce(e) ==
  /\ phase[e] = "new"
  /\ phase' = [phase EXCEPT ![e] = "sending"]
  /\ before' = [before EXCEPT ![e] = {f \in Events : phase[f] = "over"}]
  /\ due' = due \cup ({c \in joined : dialog[c] = DialogOf[e]} \X {e})
  /\ UNCHANGED <<socket, dialog, joined, got>>

Deliver(c, e) ==
  /\ <<c, e>> \in due
  /\ socket[c] = "open"
  /\ \A f \in before[e] : <<c, f>> \notin due
  /\ due' = due \ {<<c, e>>}
  /\ got' = [got EXCEPT ![c] = Append(@, e)]
  /\ UNCHANGED <<socket, dialog, joined, phase, before>>

(* A full buffer, or a client that is closed already. *)
Lose(c, e) ==
  /\ <<c, e>> \in due
  /\ due' = due \ {<<c, e>>}
  /\ UNCHANGED <<socket, dialog, joined, phase, before, got>>

Announced(e) ==
  /\ phase[e] = "sending"
  /\ phase' = [phase EXCEPT ![e] = "over"]
  /\ UNCHANGED <<socket, dialog, joined, before, due, got>>

(* The socket of c is shut; an event that was being written goes with it. *)
Shut(c) ==
  /\ socket[c] = "open"
  /\ socket' = [socket EXCEPT ![c] = "shut"]
  /\ \/ UNCHANGED due
     \/ \E e \in Events : due' = due \ {<<c, e>>}
  /\ UNCHANGED <<dialog, joined, phase, before, got>>

(* The server shuts down and forgets its listeners. *)
ForgetAll ==
  /\ joined' = {}
  /\ UNCHANGED <<socket, dialog, phase, before, due, got>>

FeedNext ==
  \/ \E c \in Conns :
       \/ Open(c) \/ Shut(c)
       \/ \E d \in Dialogs : Join(c, d)
       \/ \E e \in Events : Deliver(c, e) \/ Lose(c, e)
  \/ \E e \in Events : Announce(e) \/ Announced(e)
  \/ ForgetAll

FeedSpec == FeedInit /\ [][FeedNext]_feedVars

=============================================================================
