------------------------------ MODULE WebClient ------------------------------
(***************************************************************************)
(* The open chat of the web client: Chat.tsx with ws.ts and api.ts, over   *)
(* what the hub promises its listeners (Feed) and the history the API      *)
(* keeps.  The page runs one callback at a time; requests, sockets and     *)
(* timers answer when they like.                                           *)
(*                                                                         *)
(* One mounted Chat, for one dialog: App.tsx gives every dialog a key, so  *)
(* choosing another one unmounts this one.  Events are messages; Own are   *)
(* those its user sends from it.  The page keeps up with its socket: the   *)
(* hub's buffer of 128 is not filled.                                      *)
(***************************************************************************)
EXTENDS Feed, FiniteSets, SequencesExt

CONSTANTS
  Own,            \* messages the user of the page sends from it
  Here,           \* the dialog the page shows
  PageDefault     \* most messages in the history the page loads

VARIABLES
  stored,     \* the table messages, oldest first
  page,       \* the Chat: where loading is, its socketRef, its timers
  screen,     \* the messages it shows, from top to bottom
  side,       \* connection -> readyState of the page's end
  heard,      \* connection -> how many events onmessage was called with
  sending,    \* own message -> where handleSend is
  deaf        \* history: events that no socket of the page could bring it

chatVars == <<page, screen, side, heard, sending>>
webVars == <<feedVars, stored, chatVars, deaf>>

ASSUME WebAssumption ==
  /\ Own \subseteq Events /\ Here \in Dialogs /\ Missing \notin Conns \cup Dialogs
  /\ DialogOf \in [Events -> {Here}]   \* messages of other dialogs are left out
  /\ PageDefault \in Nat \ {0}

WebTypeOK ==
  /\ stored \in Seq(Events)
  /\ page \in [pc : {"loading", "answered", "shown", "failed", "gone"}, history : Seq(Events),
               ref : Conns \cup {Missing}, timers : 0..1]
  /\ screen \in Seq(Events)
  /\ side \in [Conns -> {"none", "open", "closing", "closed"}]
  /\ heard \in [Conns -> Nat]
  /\ sending \in [Own -> {"no", "posting", "shown", "failed"}]
  /\ deaf \subseteq Events

WebInit ==
  /\ FeedInit
  /\ stored = <<>>
  /\ page = [pc |-> "loading", history |-> <<>>, ref |-> Missing, timers |-> 0]
  /\ screen = <<>>
  /\ side = [c \in Conns |-> "none"]
  /\ heard = [c \in Conns |-> 0]
  /\ sending = [e \in Own |-> "no"]
  /\ deaf = {}

Mounted == page.pc # "gone"

-----------------------------------------------------------------------------
(* The server, as far as the page can tell. *)

(* postMessage stores a message, and then broadcasts it. *)
Store(e) ==
  /\ e \notin ToSet(stored)
  /\ e \in Own => sending[e] # "no"
  /\ stored' = Append(stored, e)
  /\ UNCHANGED <<feedVars, chatVars, deaf>>

(* The page's socket is subscribed and not shut. *)
Subscribed == \E c \in joined : socket[c] = "open" /\ side[c] = "open"

Cast(e) ==
  /\ e \in ToSet(stored)
  /\ \/ Announce(e) /\ deaf' = IF Subscribed THEN deaf ELSE deaf \cup {e}
     \/ Announced(e) /\ UNCHANGED deaf
  /\ UNCHANGED <<stored, chatVars>>

(* The hello has arrived. *)
Subscribe(c) == Join(c, Here) /\ UNCHANGED <<stored, chatVars, deaf>>

Receive(c, e) == Deliver(c, e) /\ UNCHANGED <<stored, chatVars, deaf>>

(* The server shuts a socket that sent nothing for 60 s, as the page's do  *)
(* after their hello, or the network does; or a close is answered.         *)
Disconnect(c) ==
  /\ Shut(c)
  /\ deaf' = deaf \cup {e \in Events : <<c, e>> \in due}
  /\ UNCHANGED <<stored, chatVars>>

-----------------------------------------------------------------------------
(* Chat.tsx. *)

(* What the API may answer to GET /dialogs/:id/messages, reversed as the   *)
(* screen will show it: the newest page of the table, or the list that     *)
(* Redis keeps of it, which may lack messages, repeat them and have them   *)
(* out of order, but has none that is not stored (this is CacheOnlyStored  *)
(* of MessagingApi).  An empty list is not taken for an answer.            *)
Answers == {h \in SeqOf(ToSet(stored), PageDefault) : h = <<>> => stored = <<>>}

LoadReads ==
  /\ page.pc = "loading"
  /\ \E h \in Answers : page' = [page EXCEPT !.pc = "answered", !.history = h]
  /\ UNCHANGED <<feedVars, stored, screen, side, heard, sending, deaf>>

LoadFails ==
  /\ page.pc \in {"loading", "answered"}
  /\ page' = [page EXCEPT !.pc = "failed"]
  /\ UNCHANGED <<feedVars, stored, screen, side, heard, sending, deaf>>

(* Closing a socket that is not open any more does nothing. *)
ClosedByPage(c) == IF c # Missing /\ side[c] = "open" THEN [side EXCEPT ![c] = "closing"] ELSE side

(* Connections the page never opened.  While it is mounted it keeps one    *)
(* for afterwards, which bounds its reconnections.                         *)
Fresh == {c \in Conns : side[c] = "none"}
MayConnect == Cardinality(Fresh) > (IF Mounted THEN 1 ELSE 0)

(* connectSocket: the socket before it is closed, and a new one opened. *)
ConnectSocket(c, chat) ==
  /\ MayConnect /\ c \in Fresh
  /\ Open(c)
  /\ page' = [chat EXCEPT !.ref = c]
  /\ side' = [ClosedByPage(chat.ref) EXCEPT ![c] = "open"]

LoadArrives(c) ==
  /\ page.pc = "answered"
  /\ screen' = page.history
  /\ ConnectSocket(c, [page EXCEPT !.pc = "shown"])
  /\ UNCHANGED <<stored, heard, sending, deaf>>

(* Mutant of AddMessage: nothing is looked up. *)
AddAlways(e) == Append(screen, e)

(* addMessage; on a Chat that is gone it changes nothing. *)
AddMessage(e) == IF ~Mounted \/ e \in ToSet(screen) THEN screen ELSE Append(screen, e)

(* Mutant of OnMessage: the list of messages is taken from an old render. *)
OnMessageOld(c) ==
  /\ side[c] = "open" /\ heard[c] < Len(got[c])
  /\ heard' = [heard EXCEPT ![c] = @ + 1]
  /\ screen' = IF Mounted THEN Append(page.history, got[c][heard[c] + 1]) ELSE screen
  /\ UNCHANGED <<feedVars, stored, page, side, sending, deaf>>

(* Mutant of OnMessage: events that came together are handled as a batch,  *)
(* the last one first.                                                     *)
OnMessageBatch(c) ==
  /\ side[c] = "open" /\ heard[c] < Len(got[c])
  /\ heard' = [heard EXCEPT ![c] = Len(got[c])]
  /\ screen' = IF Mounted
               THEN screen \o SelectSeq(Reverse(SubSeq(got[c], heard[c] + 1, Len(got[c]))),
                                        LAMBDA e : e \notin ToSet(screen))
               ELSE screen
  /\ UNCHANGED <<feedVars, stored, page, side, sending, deaf>>

(* onmessage; after close() the browser drops what still arrives. *)
OnMessage(c) ==
  /\ side[c] = "open" /\ heard[c] < Len(got[c])
  /\ heard' = [heard EXCEPT ![c] = @ + 1]
  /\ screen' = AddMessage(got[c][heard[c] + 1])
  /\ UNCHANGED <<feedVars, stored, page, side, sending, deaf>>

(* Mutant of Reconnects: the flag isCancelled is not looked at. *)
ReconnectsAlways == 1

(* Mutant of Reconnects: onerror schedules a reconnection too. *)
ReconnectsTwice == IF Mounted THEN 2 ELSE 0

(* The timers onclose sets. *)
Reconnects == IF Mounted THEN 1 ELSE 0

(* onclose, after the events that came before it. *)
OnClose(c) ==
  /\ socket[c] = "shut"
  /\ side[c] \in {"open", "closing"}
  /\ side[c] = "open" => heard[c] = Len(got[c])
  /\ side' = [side EXCEPT ![c] = "closed"]
  /\ page' = [page EXCEPT !.timers = @ + Reconnects]
  /\ UNCHANGED <<feedVars, stored, screen, heard, sending, deaf>>

(* The timer of 5 s; nothing clears it. *)
Reconnect(c) ==
  /\ page.timers > 0
  /\ ConnectSocket(c, [page EXCEPT !.timers = @ - 1])
  /\ UNCHANGED <<stored, screen, heard, sending, deaf>>

(* The cleanup of the effect. *)
Unmount ==
  /\ Mounted
  /\ page' = [page EXCEPT !.pc = "gone", !.ref = Missing]
  /\ side' = ClosedByPage(page.ref)
  /\ UNCHANGED <<feedVars, stored, screen, heard, sending, deaf>>

(* handleSend posts the text. *)
Send(e) ==
  /\ page.pc = "shown" /\ sending[e] = "no"
  /\ sending' = [sending EXCEPT ![e] = "posting"]
  /\ UNCHANGED <<feedVars, stored, page, screen, side, heard, deaf>>

(* The 201 of postMessage, which has broadcast by then. *)
SendAnswered(e) ==
  /\ sending[e] = "posting" /\ phase[e] = "over"
  /\ sending' = [sending EXCEPT ![e] = "shown"]
  /\ screen' = AddMessage(e)
  /\ UNCHANGED <<feedVars, stored, page, side, heard, deaf>>

(* An error, although the message may be stored, now or later. *)
SendFails(e) ==
  /\ sending[e] = "posting"
  /\ sending' = [sending EXCEPT ![e] = "failed"]
  /\ UNCHANGED <<feedVars, stored, page, screen, side, heard, deaf>>

-----------------------------------------------------------------------------

Server ==
  \/ \E e \in Events : Store(e) \/ Cast(e)
  \/ \E c \in Conns : Subscribe(c) \/ Disconnect(c) \/ (\E e \in Events : Receive(c, e))

Page ==
  \/ LoadReads \/ LoadFails \/ Unmount
  \/ \E c \in Conns : LoadArrives(c) \/ OnMessage(c) \/ OnClose(c) \/ Reconnect(c)
  \/ \E e \in Own : Send(e) \/ SendAnswered(e) \/ SendFails(e)

(* The page is gone, and so are its sockets and its timers. *)
Silent == ~Mounted /\ page.timers = 0 /\ \A c \in Conns : side[c] \in {"none", "closed"}

(* A silent page, or an instance out of connections, may stop. *)
MayStop == Silent \/ Fresh = {}

WebNext == Server \/ Page \/ (MayStop /\ UNCHANGED webVars)

WebSpec == WebInit /\ [][WebNext]_webVars

(* The browser calls back what it has to, timers fire, and the server's    *)
(* read timeout of 60 s shuts every socket of a page that only listens.    *)
WebFairness ==
  \A c \in Conns :
    WF_webVars(OnMessage(c)) /\ WF_webVars(OnClose(c)) /\ WF_webVars(Reconnect(c))
    /\ WF_webVars(Disconnect(c))

WebLiveSpec == WebSpec /\ WebFairness

-----------------------------------------------------------------------------

(* AddedOnce: the socket and the answer to its own POST may each bring a   *)
(* message the screen has already, in any order, and it is not added       *)
(* again: what is on the screen twice came twice with the history, which   *)
(* Chat shows as it is.  A message whose POST was answered is there.       *)
AddedOnce ==
  /\ \A i, j \in DOMAIN screen : i < j /\ screen[i] = screen[j] => j <= Len(page.history)
  /\ Mounted => \A e \in Own : sending[e] = "shown" => e \in ToSet(screen)

(* ScreenKeeps: what a chat shows stays on the screen, where it is, while  *)
(* the chat is mounted: neither the history nor a new socket replaces it.  *)
ScreenKeeps == [][IsPrefix(screen, screen')]_webVars

(* OneSocketAtATime: reconnecting does not multiply: a chat has one socket *)
(* that it has not closed, or one timer that will open it, never both.     *)
OneSocketAtATime ==
  Cardinality({c \in Conns : side[c] = "open"}) + page.timers <= 1

(* Listening: the page's socket is subscribed, and has nothing left to say. *)
Listening(c) ==
  /\ page.pc = "shown" /\ page.ref = c /\ c \in joined /\ socket[c] = "open"
  /\ heard[c] = Len(got[c])
  /\ \A e \in Events : <<c, e>> \notin due

(* MissesOnlyTheGap: a broadcast message is missing from a chat that is up *)
(* to date with its socket only if no socket could bring it: its broadcast *)
(* began between the history and the first hello, or between a lost socket *)
(* and the next, or it was on its way when the socket was lost.            *)
MissesOnlyTheGap ==
  \A c \in Conns : Listening(c) =>
    {e \in Events : phase[e] # "new"} \subseteq ToSet(screen) \cup deaf

(* BySocket: messages that a socket brought to the screen, and neither the *)
(* history nor the answer to their own POST.                               *)
BySocket ==
  ToSet(screen) \ (ToSet(page.history) \cup {e \in Own : sending[e] = "shown"})

(* SocketsInOrder: of two such messages, one whose broadcast was over      *)
(* before the other's began is not shown below it, on however many sockets *)
(* they came.                                                              *)
SocketsInOrder ==
  \A i, j \in DOMAIN screen :
    i < j /\ {screen[i], screen[j]} \subseteq BySocket => screen[j] \notin before[screen[i]]

(* UnmountedGoesQuiet: a chat that is gone may still open one socket, with *)
(* the timer nobody cleared, but in the end its sockets and timers are     *)
(* gone too.                                                               *)
UnmountedGoesQuiet == ~Mounted ~> Silent

=============================================================================
