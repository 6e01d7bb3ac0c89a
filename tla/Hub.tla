--------------------------------- MODULE Hub ---------------------------------
(***************************************************************************)
(* The WebSocket side: internal/websocket/hub.go and client.go, the        *)
(* handler of GET /ws, and the shutdown of cmd/api/main.go.                *)
(*                                                                         *)
(* The goroutines are: the handler, the ReadPump and the WritePump of each *)
(* connection, one broadcaster for each postMessage request (they call     *)
(* Hub.Broadcast), and main, which calls CloseAll once.  The RWMutex of    *)
(* the hub is held across steps by CloseAll only; the other methods take   *)
(* it for one step.  TrySend's test of the closed flag is merged with the  *)
(* non-blocking send that follows it, and Close's test with conn.Close.    *)
(***************************************************************************)
EXTENDS Integers, FiniteSets, SequencesExt

CONSTANTS
  Conns,             \* WebSocket connections
  Dialogs,           \* dialog ids
  Events,            \* messages that postMessage broadcasts
  DialogOf,          \* event -> dialog
  Missing,           \* no dialog, no event
  SendCap,           \* capacity of Client.send (128)
  MaxBroadcasting    \* how many requests broadcast at once

VARIABLES
  conn,     \* connection -> its handler, socket, closed flag and pumps
  send,     \* connection -> Client.send
  got,      \* connection -> the events written to its socket, in order
  subs,     \* dialog -> subscribed connections (subsByDlg)
  cast,     \* event -> its broadcaster: what it has to do, the clients it has left
  main      \* where main and CloseAll are, and the clients CloseAll has left

vars == <<conn, send, got, subs, cast, main>>

ASSUME HubAssumption ==
  /\ SendCap \in Nat \ {0} /\ MaxBroadcasting \in Nat \ {0}
  /\ DialogOf \in [Events -> Dialogs]
  /\ Missing \notin Dialogs \cup Events \cup Conns

(* Where a pump is: it ends by Close, which shuts the socket and then sets *)
(* the closed flag.                                                        *)
PumpState == {"off", "on", "close", "store"}

Connection ==
  [handler : {"none", "hello", "serving", "gone"}, dialog : Dialogs \cup {Missing},
   open : BOOLEAN, closed : BOOLEAN,
   reader : PumpState, writer : PumpState, writing : Events \cup {Missing}]

(* after is history: the events whose broadcast was over at the snapshot. *)
Broadcaster == [pc : {"new", "send", "done"}, left : SUBSET Conns, after : SUBSET Events]

Main == [pc : {"running", "closing", "closed"}, left : SUBSET Conns,
         client : Conns \cup {Missing}]

HubTypeOK ==
  /\ conn \in [Conns -> Connection]
  /\ send \in [Conns -> Seq(Events)]
  /\ got \in [Conns -> Seq(Events)]
  /\ subs \in [Dialogs -> SUBSET Conns]
  /\ cast \in [Events -> Broadcaster]
  /\ main \in Main
  /\ \A c \in Conns : Len(send[c]) <= SendCap

Init ==
  /\ conn = [c \in Conns |->
       [handler |-> "none", dialog |-> Missing, open |-> FALSE, closed |-> FALSE,
        reader |-> "off", writer |-> "off", writing |-> Missing]]
  /\ send = [c \in Conns |-> <<>>]
  /\ got = [c \in Conns |-> <<>>]
  /\ subs = [d \in Dialogs |-> {}]
  /\ cast = [e \in Events |-> [pc |-> "new", left |-> {}, after |-> {}]]
  /\ main = [pc |-> "running", left |-> {}, client |-> Missing]

Subscribed == UNION {subs[d] : d \in Dialogs}

(* The hub's mutex can be had: CloseAll does not hold it. *)
Unlocked == main.pc # "closing"

-----------------------------------------------------------------------------
(* The handler of GET /ws. *)

(* srv.Shutdown follows CloseAll: connections are accepted until then. *)
Accept(c) ==
  /\ conn[c].handler = "none"
  /\ conn' = [conn EXCEPT ![c].handler = "hello", ![c].open = TRUE]
  /\ UNCHANGED <<send, got, subs, cast, main>>

(* No hello within 10 s, a lost connection, or a hello that does not parse. *)
HelloFails(c) ==
  /\ conn[c].handler = "hello"
  /\ conn' = [conn EXCEPT ![c].handler = "gone", ![c].open = FALSE]
  /\ UNCHANGED <<send, got, subs, cast, main>>

(* The hello names the dialog; then both pumps start, and the handler      *)
(* waits for the request's context.  net/http cancels the context of a     *)
(* hijacked connection when ServeHTTP returns and not before, so the wait  *)
(* has no end: Hub.Unsubscribe after it and the context's branch of        *)
(* WritePump are never reached, and no action stands for them.             *)
Subscribe(c, d) ==
  /\ conn[c].handler = "hello"
  /\ Unlocked
  /\ subs' = [subs EXCEPT ![d] = @ \cup {c}]
  /\ conn' = [conn EXCEPT ![c].handler = "serving", ![c].dialog = d,
                          ![c].reader = "on", ![c].writer = "on"]
  /\ UNCHANGED <<send, got, cast, main>>

-----------------------------------------------------------------------------
(* The pumps of a client. *)

(* The peer went away, or sent nothing for 60 s: Read has shut the socket. *)
ReadFails(c) ==
  /\ conn[c].reader = "on"
  /\ conn' = [conn EXCEPT ![c].reader = "close", ![c].open = FALSE]
  /\ UNCHANGED <<send, got, subs, cast, main>>

TakeEvent(c) ==
  /\ conn[c].writer = "on" /\ conn[c].writing = Missing
  /\ send[c] # <<>>
  /\ conn' = [conn EXCEPT ![c].writing = Head(send[c])]
  /\ send' = [send EXCEPT ![c] = Tail(@)]
  /\ UNCHANGED <<got, subs, cast, main>>

Write(c) ==
  /\ conn[c].writing # Missing
  /\ conn[c].open
  /\ got' = [got EXCEPT ![c] = Append(@, conn[c].writing)]
  /\ conn' = [conn EXCEPT ![c].writing = Missing]
  /\ UNCHANGED <<send, subs, cast, main>>

(* Mutant of WriteFails: the pump returns without closing the client. *)
WriteGivesUp(c) ==
  /\ conn[c].writing # Missing
  /\ conn' = [conn EXCEPT ![c].writing = Missing, ![c].writer = "off"]
  /\ UNCHANGED <<send, got, subs, cast, main>>

(* The socket is shut, or the peer did not take the event within 5 s. *)
WriteFails(c) ==
  /\ conn[c].writing # Missing
  /\ conn' = [conn EXCEPT ![c].writing = Missing, ![c].open = FALSE, ![c].writer = "close"]
  /\ UNCHANGED <<send, got, subs, cast, main>>

(* Client.Close of a pump: nothing when the flag is set, else conn.Close   *)
(* and, in a step of its own, the flag.                                    *)
AfterTest(c) == IF conn[c].closed THEN "off" ELSE "store"

(* Mutant of ReaderCloses: the pump returns without closing the client. *)
ReaderReturns(c) ==
  /\ conn[c].reader = "close"
  /\ conn' = [conn EXCEPT ![c].reader = "off"]
  /\ UNCHANGED <<send, got, subs, cast, main>>

ReaderCloses(c) ==
  \/ /\ conn[c].reader = "close"
     /\ conn' = [conn EXCEPT ![c].reader = AfterTest(c), ![c].open = @ /\ conn[c].closed]
     /\ UNCHANGED <<send, got, subs, cast, main>>
  \/ /\ conn[c].reader = "store"
     /\ conn' = [conn EXCEPT ![c].reader = "off", ![c].closed = TRUE]
     /\ UNCHANGED <<send, got, subs, cast, main>>

WriterCloses(c) ==
  \/ /\ conn[c].writer = "close"
     /\ conn' = [conn EXCEPT ![c].writer = AfterTest(c), ![c].open = @ /\ conn[c].closed]
     /\ UNCHANGED <<send, got, subs, cast, main>>
  \/ /\ conn[c].writer = "store"
     /\ conn' = [conn EXCEPT ![c].writer = "off", ![c].closed = TRUE]
     /\ UNCHANGED <<send, got, subs, cast, main>>

-----------------------------------------------------------------------------
(* Hub.Broadcast, called by the request that stored the event. *)

Broadcasting == {e \in Events : cast[e].pc = "send"}

Over == {e \in Events : cast[e].pc = "done"}

(* Mutant of Snapshot: every subscriber gets every event. *)
SnapshotAll(e) ==
  /\ cast[e].pc = "new"
  /\ Cardinality(Broadcasting) < MaxBroadcasting
  /\ Unlocked
  /\ cast' = [cast EXCEPT ![e] = [pc |-> "send", left |-> Subscribed, after |-> Over]]
  /\ UNCHANGED <<conn, send, got, subs, main>>

(* The clients are copied under the read lock. *)
Snapshot(e) ==
  /\ cast[e].pc = "new"
  /\ Cardinality(Broadcasting) < MaxBroadcasting
  /\ Unlocked
  /\ cast' = [cast EXCEPT ![e] = [pc |-> "send", left |-> subs[DialogOf[e]], after |-> Over]]
  /\ UNCHANGED <<conn, send, got, subs, main>>

(* Mutant of TrySend: the select has no default. *)
SendBlocking(e, c) ==
  /\ cast[e].pc = "send" /\ c \in cast[e].left
  /\ Len(send[c]) < SendCap
  /\ cast' = [cast EXCEPT ![e].left = @ \ {c}]
  /\ send' = [send EXCEPT ![c] = Append(@, e)]
  /\ UNCHANGED <<conn, got, subs, main>>

(* Mutant of TrySend: a full buffer grows. *)
SendUnbounded(e, c) ==
  /\ cast[e].pc = "send" /\ c \in cast[e].left
  /\ cast' = [cast EXCEPT ![e].left = @ \ {c}]
  /\ send' = [send EXCEPT ![c] = IF conn[c].closed THEN @ ELSE Append(@, e)]
  /\ UNCHANGED <<conn, got, subs, main>>

(* Mutant of TrySend: the newest event is written first. *)
SendFirst(e, c) ==
  /\ cast[e].pc = "send" /\ c \in cast[e].left
  /\ cast' = [cast EXCEPT ![e].left = @ \ {c}]
  /\ send' = [send EXCEPT ![c] =
       IF conn[c].closed \/ Len(@) = SendCap THEN @ ELSE <<e>> \o @]
  /\ UNCHANGED <<conn, got, subs, main>>

(* TrySend: a closed client and a full buffer lose the event. *)
TrySend(e, c) ==
  /\ cast[e].pc = "send" /\ c \in cast[e].left
  /\ cast' = [cast EXCEPT ![e].left = @ \ {c}]
  /\ send' = [send EXCEPT ![c] =
       IF conn[c].closed \/ Len(@) = SendCap THEN @ ELSE Append(@, e)]
  /\ UNCHANGED <<conn, got, subs, main>>

Sent(e) ==
  /\ cast[e].pc = "send" /\ cast[e].left = {}
  /\ cast' = [cast EXCEPT ![e].pc = "done"]
  /\ UNCHANGED <<conn, send, got, subs, main>>

-----------------------------------------------------------------------------
(* main: a signal arrives, and CloseAll runs with the lock held. *)

CloseAll ==
  /\ main.pc = "running"
  /\ main' = [main EXCEPT !.pc = "closing", !.left = Subscribed]
  /\ UNCHANGED <<conn, send, got, subs, cast>>

(* Mutant of CloseAllClient: the client is flagged, its socket left open. *)
CloseAllFlags(c) ==
  /\ main.pc = "closing" /\ main.client = Missing /\ c \in main.left
  /\ main' = [main EXCEPT !.left = @ \ {c}, !.client = c]
  /\ UNCHANGED <<conn, send, got, subs, cast>>

CloseAllClient(c) ==
  /\ main.pc = "closing" /\ main.client = Missing /\ c \in main.left
  /\ main' = [main EXCEPT !.left = @ \ {c}, !.client = IF conn[c].closed THEN Missing ELSE c]
  /\ conn' = [conn EXCEPT ![c].open = @ /\ conn[c].closed]
  /\ UNCHANGED <<send, got, subs, cast>>

CloseAllStores ==
  /\ main.client # Missing
  /\ conn' = [conn EXCEPT ![main.client].closed = TRUE]
  /\ main' = [main EXCEPT !.client = Missing]
  /\ UNCHANGED <<send, got, subs, cast>>

(* Mutant of CloseAllReturns: the map is dropped with clients left in it. *)
CloseAllReturnsEarly ==
  /\ main.pc = "closing" /\ main.client = Missing
  /\ subs' = [d \in Dialogs |-> {}]
  /\ main' = [main EXCEPT !.pc = "closed", !.left = {}]
  /\ UNCHANGED <<conn, send, got, cast>>

CloseAllReturns ==
  /\ main.pc = "closing" /\ main.client = Missing /\ main.left = {}
  /\ subs' = [d \in Dialogs |-> {}]
  /\ main' = [main EXCEPT !.pc = "closed"]
  /\ UNCHANGED <<conn, send, got, cast>>

-----------------------------------------------------------------------------

Handler(c) ==
  Accept(c) \/ HelloFails(c) \/ \E d \in Dialogs : Subscribe(c, d)

Reader(c) == ReadFails(c) \/ ReaderCloses(c)

Writer(c) == TakeEvent(c) \/ Write(c) \/ WriteFails(c) \/ WriterCloses(c)

Broadcast(e) == Snapshot(e) \/ (\E c \in Conns : TrySend(e, c)) \/ Sent(e)

Shutdown ==
  CloseAll \/ (\E c \in Conns : CloseAllClient(c)) \/ CloseAllStores \/ CloseAllReturns

(* Every socket is shut, every event was broadcast, and main goes on. *)
Quiet ==
  /\ \A c \in Conns : conn[c].handler # "none" /\ ~conn[c].open
  /\ \A e \in Events : cast[e].pc = "done"
  /\ main.pc = "closed"
  /\ UNCHANGED vars

Next ==
  \/ \E c \in Conns : Handler(c) \/ Reader(c) \/ Writer(c)
  \/ \E e \in Events : Broadcast(e)
  \/ Shutdown
  \/ Quiet

Spec == Init /\ [][Next]_vars

(* Goroutines that can run do; Read, Write and Close return because of     *)
(* their timeouts.  Nothing makes a peer connect, speak, listen or leave.  *)
Fairness ==
  /\ \A c \in Conns :
       /\ WF_vars(HelloFails(c)) /\ WF_vars(Writer(c))
       /\ WF_vars(~conn[c].open /\ ReadFails(c)) /\ WF_vars(ReaderCloses(c))
  /\ \A e \in Events : WF_vars(cast[e].pc = "send" /\ Broadcast(e))
  /\ WF_vars(main.pc # "running" /\ Shutdown)

LiveSpec == Spec /\ Fairness

-----------------------------------------------------------------------------

(* OwnEventsOnce: a client is written events of the dialog it subscribed   *)
(* to, each at most once, however broadcasts, pumps and CloseAll overlap.  *)
OwnEventsOnce ==
  \A c \in Conns : \A i, j \in DOMAIN got[c] :
    /\ DialogOf[got[c][i]] = conn[c].dialog
    /\ got[c][i] = got[c][j] => i = j

(* ClosedMeansShut: a client is flagged closed after its socket was shut,  *)
(* never before: no event is dropped for a client that still listens.      *)
ClosedMeansShut == \A c \in Conns : conn[c].closed => ~conn[c].open

(* ShutdownMissesNoSubscriber: once CloseAll has returned, a connection    *)
(* that is served and open is one that subscribed after it.                *)
ShutdownMissesNoSubscriber ==
  main.pc = "closed" =>
    \A c \in Conns : conn[c].handler = "serving" /\ conn[c].open => c \in Subscribed

(* The hub as a feed: an event is due to a client while its broadcaster    *)
(* has the client left, and while it is buffered or being written.         *)
Sockets ==
  [c \in Conns |-> IF conn[c].handler = "none" THEN "new" ELSE IF conn[c].open THEN "open" ELSE "shut"]

Asked == [c \in Conns |-> conn[c].dialog]

Phases ==
  [e \in Events |-> IF cast[e].pc = "send" THEN "sending"
                    ELSE IF cast[e].pc = "done" THEN "over" ELSE "new"]

Earlier == [e \in Events |-> cast[e].after]

DueTo(c, e) == c \in cast[e].left \/ e \in ToSet(send[c]) \/ conn[c].writing = e

Due == {p \in Conns \X Events : DueTo(p[1], p[2])}

Listeners == INSTANCE Feed WITH
  socket <- Sockets, dialog <- Asked, joined <- Subscribed,
  phase <- Phases, before <- Earlier, due <- Due

(* ImplementsFeed: copies of the subscriber map, buffers, pumps and the    *)
(* shutdown together keep what Feed promises; in particular an event that  *)
(* was broadcast after another is not written before it to any client.     *)
ImplementsFeed == Listeners!FeedSpec

(* BroadcastEnds: the request that broadcasts is never held up by a client *)
(* that does not read, nor by one that is closed meanwhile.                *)
BroadcastEnds == \A e \in Events : cast[e].pc = "send" ~> cast[e].pc = "done"

(* QueuedIsWritten: an event that a buffer took is written, unless the     *)
(* socket is shut first.                                                   *)
QueuedIsWritten ==
  \A c \in Conns, e \in Events :
    e \in ToSet(send[c]) ~> e \in ToSet(got[c]) \/ ~conn[c].open

(* LostClientFlagged: when the socket of a served connection is shut, its  *)
(* ReadPump ends and the client is flagged closed, whichever of the pumps  *)
(* and CloseAll found out first: broadcasts stop filling its buffer, which *)
(* nobody may be emptying any more, although the hub keeps the client.     *)
LostClientFlagged ==
  \A c \in Conns :
    conn[c].handler = "serving" /\ ~conn[c].open
      ~> conn[c].closed /\ conn[c].reader = "off"

(* ConnectionReleased: after the socket of a served connection is shut,    *)
(* the hub forgets the client and both of its pumps end, without waiting   *)
(* for the server to shut down.                                            *)
ConnectionReleased ==
  \A c \in Conns :
    conn[c].handler = "serving" /\ ~conn[c].open
      ~> \/ c \notin Subscribed /\ conn[c].reader = "off" /\ conn[c].writer = "off"
         \/ main.pc # "running"

(* AllClosedAtShutdown: when CloseAll has returned no socket is open.      *)
AllClosedAtShutdown == main.pc = "closed" => \A c \in Conns : ~conn[c].open

=============================================================================
