--------------------------- MODULE WebClient_proofs ---------------------------
(***************************************************************************)
(* Theorems about WebClient, for every value of its constants: any number  *)
(* of messages and reconnections, any page size, whichever of the messages *)
(* are the user's own.                                                     *)
(***************************************************************************)
EXTENDS WebClient, SequenceTheorems, FiniteSetTheorems, TLAPS

-----------------------------------------------------------------------------
(* Lemmas about sequences of messages. *)

LEMMA EmptyFacts ==
  ASSUME NEW S
  PROVE  <<>> \in Seq(S) /\ ToSet(<<>>) = {} /\ DOMAIN <<>> = {} /\ Len(<<>>) = 0
BY EmptySeq, LenProperties DEF ToSet

LEMMA AppendFacts ==
  ASSUME NEW S, NEW s \in Seq(S), NEW x \in S
  PROVE  /\ Append(s, x) \in Seq(S) /\ Len(Append(s, x)) = Len(s) + 1 /\ Len(s) \in Nat
         /\ DOMAIN s = 1..Len(s) /\ DOMAIN Append(s, x) = 1..(Len(s) + 1)
         /\ \A i \in 1..Len(s) : Append(s, x)[i] = s[i]
         /\ Append(s, x)[Len(s) + 1] = x
         /\ ToSet(Append(s, x)) = ToSet(s) \cup {x}
<1>1. /\ Append(s, x) \in Seq(S) /\ Len(Append(s, x)) = Len(s) + 1 /\ Len(s) \in Nat
      /\ DOMAIN s = 1..Len(s) /\ DOMAIN Append(s, x) = 1..(Len(s) + 1)
      /\ \A i \in 1..Len(s) : Append(s, x)[i] = s[i]
      /\ Append(s, x)[Len(s) + 1] = x
  BY AppendProperties, LenProperties
<1>2. ToSet(Append(s, x)) = ToSet(s) \cup {x}
  BY <1>1 DEF ToSet
<1> QED BY <1>1, <1>2

LEMMA SetFacts ==
  ASSUME NEW S, NEW s \in Seq(S)
  PROVE  /\ Len(s) \in Nat /\ DOMAIN s = 1..Len(s)
         /\ \A i \in 1..Len(s) : s[i] \in S /\ s[i] \in ToSet(s)
         /\ \A x \in ToSet(s) : x \in S /\ \E i \in 1..Len(s) : s[i] = x
BY LenProperties DEF ToSet

LEMMA PrefixEnds ==
  ASSUME NEW S, NEW s \in Seq(S)
  PROVE  IsPrefix(s, s) /\ IsPrefix(<<>>, s)
<1>1. Len(s) \in Nat /\ IsPrefix(s, s)
  BY SetFacts DEF IsPrefix
<1>2. Len(<<>>) = 0 /\ 0 <= Len(s)
  BY <1>1, EmptyFacts
<1>3. SubSeq(<<>>, 1, 0) = SubSeq(s, 1, 0)
  BY SubSeqEmpty
<1> QED BY <1>1, <1>2, <1>3 DEF IsPrefix

LEMMA PrefixFacts ==
  ASSUME NEW S, NEW s \in Seq(S), NEW x \in S
  PROVE  IsPrefix(s, Append(s, x))
<1>2. Len(s) \in Nat /\ Len(Append(s, x)) = Len(s) + 1 /\ DOMAIN s = 1..Len(s)
      /\ \A i \in 1..Len(s) : Append(s, x)[i] = s[i] /\ s[i] \in S
  BY AppendFacts, SetFacts
<1>3. \A i \in 1..Len(s) : s[i] \in S /\ Append(s, x)[i] \in S
  BY <1>2
<1>4. /\ SubSeq(s, 1, Len(s)) \in Seq(S)
      /\ Len(SubSeq(s, 1, Len(s))) = IF 1 <= Len(s) THEN Len(s) - 1 + 1 ELSE 0
      /\ \A i \in 1..(Len(s) - 1 + 1) : SubSeq(s, 1, Len(s))[i] = s[1 + i - 1]
  BY <1>2, <1>3, SubSeqProperties
<1>5. /\ SubSeq(Append(s, x), 1, Len(s)) \in Seq(S)
      /\ Len(SubSeq(Append(s, x), 1, Len(s))) = IF 1 <= Len(s) THEN Len(s) - 1 + 1 ELSE 0
      /\ \A i \in 1..(Len(s) - 1 + 1) :
            SubSeq(Append(s, x), 1, Len(s))[i] = Append(s, x)[1 + i - 1]
  BY <1>2, <1>3, SubSeqProperties
<1>6. \A i \in 1..Len(s) : 1 + i - 1 = i /\ i \in 1..(Len(s) - 1 + 1)
  BY <1>2
<1>7. SubSeq(s, 1, Len(s)) = SubSeq(Append(s, x), 1, Len(s))
  <2> DEFINE a == SubSeq(s, 1, Len(s))
             b == SubSeq(Append(s, x), 1, Len(s))
  <2>1. a \in Seq(S) /\ b \in Seq(S) /\ Len(a) = Len(s) /\ Len(b) = Len(s)
    BY <1>2, <1>4, <1>5
  <2>2. \A i \in 1..Len(s) : a[i] = b[i]
    BY <1>2, <1>4, <1>5, <1>6
  <2> HIDE DEF a, b
  <2>3. a = b
    BY <2>1, <2>2, SeqEqual
  <2> QED BY <2>3 DEF a, b
<1>8. IsPrefix(s, Append(s, x))
  BY <1>2, <1>7 DEF IsPrefix
<1> QED BY <1>8

-----------------------------------------------------------------------------
(* Types of the feed, and what it does to one connection.                  *)

FeedTypes ==
  /\ socket \in [Conns -> {"new", "open", "shut"}]
  /\ dialog \in [Conns -> Dialogs \cup {Missing}]
  /\ joined \subseteq Conns
  /\ phase \in [Events -> {"new", "sending", "over"}]
  /\ before \in [Events -> SUBSET Events]
  /\ due \subseteq Conns \X Events
  /\ got \in [Conns -> Seq(Events)]

(* The history is made of messages. *)
LEMMA AnswersFacts ==
  ASSUME stored \in Seq(Events), NEW h \in Answers
  PROVE  h \in Seq(Events)
<1>1. PICK n \in Nat : h \in [1..n -> ToSet(stored)]
  BY WebAssumption DEF Answers, SeqOf
<1>2. ToSet(stored) \subseteq Events
  BY SetFacts
<1>3. \A i \in 1..n : h[i] \in Events
  BY <1>1, <1>2
<1> QED BY <1>1, <1>3, IsASeq

(* What is on the screen twice is within its first n messages. *)
NewBelow(s, n) == \A i, j \in DOMAIN s : i < j /\ s[i] = s[j] => j <= n

LEMMA NewBelowAppend ==
  ASSUME NEW s \in Seq(Events), NEW e \in Events, NEW n \in Nat, e \notin ToSet(s), NewBelow(s, n)
  PROVE  NewBelow(Append(s, e), n)
<1> DEFINE t == Append(s, e)
<1>1. /\ Len(s) \in Nat /\ DOMAIN s = 1..Len(s) /\ DOMAIN t = 1..(Len(s) + 1)
      /\ \A i \in 1..Len(s) : t[i] = s[i] /\ s[i] \in ToSet(s)
      /\ t[Len(s) + 1] = e
  BY AppendFacts, SetFacts
<1> HIDE DEF t
<1>2. SUFFICES ASSUME NEW i \in 1..(Len(s) + 1), NEW j \in 1..(Len(s) + 1), i < j, t[i] = t[j]
               PROVE  j <= n
  BY <1>1 DEF NewBelow, t
<1>3. i \in 1..Len(s) /\ (j \in 1..Len(s) \/ j = Len(s) + 1)
  BY <1>1, <1>2
<1>4. j \in 1..Len(s)
  BY <1>1, <1>2, <1>3
<1> QED BY <1>1, <1>2, <1>3, <1>4 DEF NewBelow

LEMMA AddMessageFacts ==
  ASSUME screen \in Seq(Events), NEW e \in Events
  PROVE  /\ AddMessage(e) \in Seq(Events) /\ IsPrefix(screen, AddMessage(e))
         /\ \A n \in Nat : NewBelow(screen, n) => NewBelow(AddMessage(e), n)
         /\ AddMessage(e) = screen \/ AddMessage(e) = Append(screen, e)
         /\ ToSet(screen) \subseteq ToSet(AddMessage(e))
         /\ Mounted => ToSet(AddMessage(e)) = ToSet(screen) \cup {e}
BY AppendFacts, NewBelowAppend, PrefixFacts, PrefixEnds DEF AddMessage

(* Connecting opens one fresh connection and closes the referenced one. *)
LEMMA ConnectFacts ==
  ASSUME WebTypeOK, FeedTypes, NEW c \in Conns, NEW chat, ConnectSocket(c, chat),
         chat.ref \in Conns \cup {Missing}
  PROVE  /\ side[c] = "none" /\ socket[c] = "new"
         /\ socket' \in [Conns -> {"new", "open", "shut"}] /\ socket'[c] = "open"
         /\ side' \in [Conns -> {"none", "open", "closing", "closed"}] /\ side'[c] = "open"
         /\ \A b \in Conns \ {c} : socket'[b] = socket[b]
         /\ \A b \in Conns \ {c} : side'[b] = IF b = chat.ref /\ side[b] = "open" THEN "closing" ELSE side[b]
         /\ page' = [chat EXCEPT !.ref = c]
         /\ UNCHANGED <<dialog, joined, phase, before, due, got>>
BY WebAssumption DEF ConnectSocket, Fresh, Open, ClosedByPage, WebTypeOK, FeedTypes

(* The message that onmessage is called with. *)
LEMMA HeardFacts ==
  ASSUME WebTypeOK, FeedTypes, NEW c \in Conns, heard[c] < Len(got[c])
  PROVE  /\ heard[c] \in Nat /\ heard[c] + 1 \in DOMAIN got[c]
         /\ got[c][heard[c] + 1] \in Events /\ got[c][heard[c] + 1] \in ToSet(got[c])
<1>1. got[c] \in Seq(Events) /\ heard[c] \in Nat
  BY DEF WebTypeOK, FeedTypes
<1>2. Len(got[c]) \in Nat /\ DOMAIN got[c] = 1..Len(got[c])
      /\ \A i \in 1..Len(got[c]) : got[c][i] \in Events /\ got[c][i] \in ToSet(got[c])
  BY <1>1, SetFacts
<1>3. heard[c] + 1 \in 1..Len(got[c])
  BY <1>1, <1>2
<1> QED BY <1>1, <1>2, <1>3

LEMMA FeedTypesInit == WebInit => FeedTypes
BY EmptyFacts DEF WebInit, FeedInit, FeedTypes

LEMMA FeedTypesNext == WebTypeOK /\ FeedTypes /\ [WebNext]_webVars => FeedTypes'
<1> SUFFICES ASSUME WebTypeOK, FeedTypes, [WebNext]_webVars
             PROVE  FeedTypes'
  OBVIOUS
<1>1. CASE UNCHANGED feedVars
  BY <1>1 DEF feedVars, FeedTypes
<1>2. ASSUME NEW e \in Events, Store(e) \/ Cast(e) PROVE FeedTypes'
  <2>1. CASE Store(e)
    BY <2>1, <1>1 DEF Store
  <2>2. CASE Announce(e)
    <3>1. phase' \in [Events -> {"new", "sending", "over"}]
      BY <2>2 DEF Announce, FeedTypes
    <3>2. {f \in Events : phase[f] = "over"} \in SUBSET Events
      OBVIOUS
    <3>3. before' \in [Events -> SUBSET Events]
      BY <2>2, <3>2 DEF Announce, FeedTypes
    <3>4. due' \subseteq Conns \X Events
      BY <2>2 DEF Announce, FeedTypes
    <3> QED BY <2>2, <3>1, <3>3, <3>4 DEF Announce, FeedTypes
  <2>3. CASE Announced(e)
    BY <2>3 DEF Announced, FeedTypes
  <2> QED BY <1>2, <2>1, <2>2, <2>3 DEF Cast
<1>3. ASSUME NEW c \in Conns, Subscribe(c) \/ Disconnect(c) PROVE FeedTypes'
  <2>1. CASE Subscribe(c)
    BY <2>1, WebAssumption DEF Subscribe, Join, FeedTypes
  <2>2. CASE Disconnect(c)
    <3>1. due' \subseteq due /\ socket' = [socket EXCEPT ![c] = "shut"]
          /\ UNCHANGED <<dialog, joined, phase, before, got>>
      BY <2>2 DEF Disconnect, Shut
    <3> QED BY <3>1 DEF FeedTypes
  <2> QED BY <1>3, <2>1, <2>2
<1>4. ASSUME NEW c \in Conns, NEW e \in Events, Receive(c, e) PROVE FeedTypes'
  <2>1. Append(got[c], e) \in Seq(Events)
    BY AppendFacts DEF FeedTypes
  <2> QED BY <1>4, <2>1 DEF Receive, Deliver, FeedTypes
<1>5. ASSUME NEW c \in Conns, LoadArrives(c) \/ Reconnect(c) PROVE FeedTypes'
  <2>1. PICK chat : ConnectSocket(c, chat) /\ chat.ref \in Conns \cup {Missing}
    <3>1. page.ref \in Conns \cup {Missing}
      BY DEF WebTypeOK
    <3>2. [page EXCEPT !.pc = "shown"].ref = page.ref
          /\ [page EXCEPT !.timers = @ - 1].ref = page.ref
      BY DEF WebTypeOK
    <3>3. CASE LoadArrives(c)
      BY <3>1, <3>2, <3>3 DEF LoadArrives
    <3>4. CASE Reconnect(c)
      BY <3>1, <3>2, <3>4 DEF Reconnect
    <3> QED BY <1>5, <3>3, <3>4
  <2> QED BY <2>1, ConnectFacts DEF FeedTypes
<1>6. CASE Page
  <2>1. CASE LoadReads \/ LoadFails \/ Unmount
    BY <1>1, <2>1 DEF LoadReads, LoadFails, Unmount
  <2>2. ASSUME NEW c \in Conns, OnMessage(c) \/ OnClose(c) PROVE FeedTypes'
    BY <1>1, <2>2 DEF OnMessage, OnClose
  <2>3. ASSUME NEW e \in Own, Send(e) \/ SendAnswered(e) \/ SendFails(e) PROVE FeedTypes'
    BY <1>1, <2>3 DEF Send, SendAnswered, SendFails
  <2> QED BY <1>5, <1>6, <2>1, <2>2, <2>3 DEF Page
<1> QED BY <1>1, <1>2, <1>3, <1>4, <1>6 DEF WebNext, Server, webVars, feedVars

-----------------------------------------------------------------------------
(* The page: its sockets, its timers and what it shows.                    *)

(* The two ends of a connection: a socket that is open has an end at the   *)
(* page, which closes it only when it goes.                                *)
Ends ==
  \A c \in Conns :
    /\ side[c] = "none" <=> socket[c] = "new"
    /\ socket[c] = "open" => side[c] \in {"open", "closing"}
    /\ side[c] = "closing" => ~Mounted

(* One open end, or one timer, at most. *)
OneEnd ==
  \A c \in Conns : side[c] = "open" =>
    page.timers = 0 /\ \A b \in Conns : side[b] = "open" => b = c

(* Until the history is shown there is no socket, no timer, no sending. *)
Unloaded ==
  page.pc \in {"loading", "answered", "failed"} =>
    /\ screen = <<>> /\ page.timers = 0
    /\ \A c \in Conns : side[c] = "none"
    /\ \A e \in Own : sending[e] = "no"

AnsweredShown == Mounted => \A e \in Own : sending[e] = "shown" => e \in ToSet(screen)

HeardArrived == \A c \in Conns : heard[c] <= Len(got[c])

(* The history, once it is shown, is what the screen begins with. *)
Added == Len(page.history) \in Nat /\ NewBelow(screen, Len(page.history))

PageInv ==
  /\ WebTypeOK /\ FeedTypes /\ Added
  /\ Ends /\ OneEnd /\ Unloaded /\ AnsweredShown /\ HeardArrived

LEMMA PageInit == WebInit => PageInv
<1> SUFFICES ASSUME WebInit PROVE PageInv
  OBVIOUS
<1>1. FeedTypes
  BY FeedTypesInit
<1>2. WebTypeOK
  BY EmptyFacts DEF WebInit, WebTypeOK
<1>3. Added
  BY EmptyFacts DEF WebInit, Added, NewBelow
<1>4. Ends /\ OneEnd /\ Unloaded /\ AnsweredShown /\ HeardArrived
  BY EmptyFacts DEF WebInit, FeedInit, Ends, OneEnd, Unloaded, AnsweredShown, HeardArrived
<1> QED BY <1>1, <1>2, <1>3, <1>4 DEF PageInv

(* Steps of the server leave the page alone. *)
LEMMA ServerKeepsPage == PageInv /\ Server => PageInv'
<1> SUFFICES ASSUME PageInv, Server PROVE PageInv'
  OBVIOUS
<1> USE DEF PageInv
<1>1. FeedTypes'
  BY FeedTypesNext DEF WebNext
<1>2. UNCHANGED chatVars
  BY DEF Server, Store, Cast, Subscribe, Receive, Disconnect
<1>3. deaf' \subseteq Events
  BY DEF Server, Store, Cast, Subscribe, Receive, Disconnect, WebTypeOK
<1>4. stored' \in Seq(Events)
  <2>1. CASE UNCHANGED stored
    BY <2>1 DEF WebTypeOK
  <2>2. ASSUME NEW e \in Events, Store(e) PROVE stored' \in Seq(Events)
    BY <2>2, AppendFacts DEF Store, WebTypeOK
  <2> QED BY <2>1, <2>2 DEF Server, Cast, Subscribe, Receive, Disconnect
<1>5. WebTypeOK'
  BY <1>2, <1>3, <1>4 DEF WebTypeOK, chatVars
<1>6. \A c \in Conns : socket'[c] = socket[c] \/ (socket[c] = "open" /\ socket'[c] = "shut")
  BY DEF Server, Store, Cast, Announce, Announced, Subscribe, Join, Receive, Deliver,
         Disconnect, Shut, feedVars, FeedTypes
<1>7. \A c \in Conns : Len(got[c]) \in Nat /\ Len(got[c]) <= Len(got'[c])
  <2>1. \A c \in Conns : got[c] \in Seq(Events) /\ Len(got[c]) \in Nat
    BY SetFacts DEF FeedTypes
  <2>2. CASE UNCHANGED got
    BY <2>1, <2>2
  <2>3. ASSUME NEW c \in Conns, NEW e \in Events, Receive(c, e)
        PROVE  \A b \in Conns : Len(got[b]) <= Len(got'[b])
    <3>1. Len(Append(got[c], e)) = Len(got[c]) + 1
      BY <2>1, AppendFacts
    <3> QED BY <2>1, <2>3, <3>1 DEF Receive, Deliver, FeedTypes
  <2> QED BY <2>1, <2>2, <2>3 DEF Server, Store, Cast, Announce, Announced, Subscribe, Join,
                                  Disconnect, Shut, feedVars
<1>8. Ends' /\ OneEnd' /\ Unloaded' /\ AnsweredShown' /\ Added'
  BY <1>2, <1>6 DEF Ends, OneEnd, Unloaded, AnsweredShown, Added, NewBelow, Mounted, chatVars
<1>9. HeardArrived'
  <2>1. \A c \in Conns : heard'[c] \in Nat /\ heard'[c] = heard[c] /\ Len(got'[c]) \in Nat
    BY <1>1, <1>2, SetFacts DEF WebTypeOK, FeedTypes, chatVars
  <2> QED BY <2>1, <1>7 DEF HeardArrived
<1> QED BY <1>1, <1>5, <1>8, <1>9

LEMMA ConnectKeepsPage ==
  ASSUME PageInv, NEW c \in Conns, LoadArrives(c) \/ Reconnect(c)
  PROVE  PageInv'
<1> USE DEF PageInv
<1>1. PICK k : /\ ConnectSocket(c, k)
               /\ \/ LoadArrives(c) /\ k = [page EXCEPT !.pc = "shown"]
                  \/ Reconnect(c) /\ k = [page EXCEPT !.timers = @ - 1]
  BY DEF LoadArrives, Reconnect
<1>2. /\ k \in [pc : {"loading", "answered", "shown", "failed", "gone"}, history : Seq(Events),
                ref : Conns \cup {Missing}, timers : 0..1]
      /\ k.history = page.history /\ k.ref = page.ref /\ k.timers = 0
      /\ k.pc # "gone" <=> page.pc # "gone"
      /\ k.pc \notin {"loading", "answered", "failed"}
      /\ \A b \in Conns : side[b] # "open"
  <2>1. CASE LoadArrives(c) /\ k = [page EXCEPT !.pc = "shown"]
    BY <2>1 DEF LoadArrives, WebTypeOK, Unloaded
  <2>2. CASE Reconnect(c) /\ k = [page EXCEPT !.timers = @ - 1]
    <3>1. page.timers = 1
      BY <2>2 DEF Reconnect, WebTypeOK
    <3>2. page.pc \notin {"loading", "answered", "failed"}
      BY <3>1 DEF Unloaded
    <3>3. \A b \in Conns : side[b] # "open"
      BY <3>1 DEF OneEnd
    <3>4. k \in [pc : {"loading", "answered", "shown", "failed", "gone"}, history : Seq(Events),
                 ref : Conns \cup {Missing}, timers : 0..1]
          /\ k.history = page.history /\ k.ref = page.ref /\ k.timers = 0 /\ k.pc = page.pc
      <4>1. k = [page EXCEPT !.timers = page.timers - 1] /\ page.timers - 1 = 0
        BY <2>2, <3>1
      <4>2. k = [page EXCEPT !.timers = 0]
        BY <4>1, Zenon
      <4>3. page \in [pc : {"loading", "answered", "shown", "failed", "gone"}, history : Seq(Events),
                       ref : Conns \cup {Missing}, timers : 0..1] /\ 0 \in 0..1
        BY DEF WebTypeOK
      <4> HIDE DEF PageInv
      <4> QED BY ONLY <4>2, <4>3
    <3> QED BY <3>2, <3>3, <3>4
  <2> QED BY <1>1, <2>1, <2>2
<1>3. /\ side[c] = "none" /\ socket[c] = "new"
      /\ socket' \in [Conns -> {"new", "open", "shut"}] /\ socket'[c] = "open"
      /\ side' \in [Conns -> {"none", "open", "closing", "closed"}] /\ side'[c] = "open"
      /\ \A b \in Conns \ {c} : socket'[b] = socket[b]
      /\ \A b \in Conns \ {c} : side'[b] = IF b = k.ref /\ side[b] = "open" THEN "closing" ELSE side[b]
      /\ page' = [k EXCEPT !.ref = c]
      /\ UNCHANGED <<dialog, joined, phase, before, due, got>>
  <2>1. ConnectSocket(c, k) /\ k.ref \in Conns \cup {Missing}
    BY <1>1, <1>2
  <2>2. WebTypeOK /\ FeedTypes
    OBVIOUS
  <2> HIDE DEF PageInv
  <2> QED BY <2>1, <2>2, ConnectFacts
<1>4. \A b \in Conns \ {c} : side'[b] = side[b]
  BY <1>2, <1>3
<1>5. /\ page' \in [pc : {"loading", "answered", "shown", "failed", "gone"}, history : Seq(Events),
                    ref : Conns \cup {Missing}, timers : 0..1]
      /\ page'.history = page.history /\ page'.timers = 0
      /\ Mounted' <=> Mounted
      /\ page'.pc \notin {"loading", "answered", "failed"}
  BY <1>2, <1>3 DEF Mounted
<1>6. /\ screen' = screen \/ (screen' = page.history /\ screen = <<>> /\ \A e \in Own : sending[e] = "no")
      /\ UNCHANGED <<stored, heard, sending, deaf>>
  BY <1>1 DEF LoadArrives, Reconnect, Unloaded
<1>7. WebTypeOK' /\ Added'
  <2>1. WebTypeOK'
    BY <1>3, <1>5, <1>6 DEF WebTypeOK
  <2>2. NewBelow(page.history, Len(page.history))
    BY SetFacts DEF WebTypeOK, NewBelow
  <2>3. Added'
    BY <1>5, <1>6, <2>2 DEF Added, NewBelow
  <2> QED BY <2>1, <2>3
<1>8. FeedTypes' /\ HeardArrived'
  BY <1>3, <1>6 DEF FeedTypes, HeardArrived
<1>9. Ends'
  BY <1>3, <1>4, <1>5 DEF Ends
<1>10. OneEnd'
  <2>1. page'.timers = 0 /\ \A b \in Conns \ {c} : side'[b] # "open"
    BY <1>2, <1>4, <1>5
  <2> QED BY <2>1 DEF OneEnd
<1>11. Unloaded' /\ AnsweredShown'
  BY <1>5, <1>6 DEF Unloaded, AnsweredShown
<1> QED BY <1>7, <1>8, <1>9, <1>10, <1>11


LEMMA LoadKeepsPage == PageInv /\ (LoadReads \/ LoadFails) => PageInv'
<1> SUFFICES ASSUME PageInv, LoadReads \/ LoadFails PROVE PageInv'
  OBVIOUS
<1> USE DEF PageInv
<1> DEFINE Page0 == [pc : {"loading", "answered", "shown", "failed", "gone"}, history : Seq(Events),
                     ref : Conns \cup {Missing}, timers : 0..1]
<1>1. page \in Page0
  BY DEF WebTypeOK
<1>2. /\ page' \in Page0
      /\ page'.timers = page.timers
      /\ page.pc \in {"loading", "answered", "failed"} /\ page'.pc \in {"answered", "failed"}
  <2>1. CASE LoadReads
    <3>1. PICK h \in Answers :
            page' = [page EXCEPT !.pc = "answered", !.history = h] /\ page.pc = "loading"
      BY <2>1 DEF LoadReads
    <3>2. h \in Seq(Events)
      BY AnswersFacts DEF WebTypeOK
    <3> QED BY ONLY <1>1, <3>1, <3>2
  <2>2. CASE LoadFails
    <3>1. page' = [page EXCEPT !.pc = "failed"] /\ page.pc \in {"loading", "answered"}
      BY <2>2 DEF LoadFails
    <3> QED BY ONLY <1>1, <3>1
  <2> QED BY <2>1, <2>2
<1>3. UNCHANGED <<feedVars, stored, screen, side, heard, sending, deaf>>
  BY DEF LoadReads, LoadFails
<1>4. WebTypeOK' /\ FeedTypes'
  BY <1>2, <1>3 DEF WebTypeOK, FeedTypes, feedVars
<1>5. Mounted /\ Mounted'
  BY <1>2 DEF Mounted
<1> HIDE DEF Page0
<1>6. Ends' /\ OneEnd' /\ HeardArrived'
  BY <1>2, <1>3, <1>5 DEF Ends, OneEnd, HeardArrived, feedVars
<1>7. Unloaded' /\ AnsweredShown'
  BY <1>2, <1>3, <1>5 DEF Unloaded, AnsweredShown
<1>8. Added'
  <2>1. screen' = <<>>
    BY <1>2, <1>3 DEF Unloaded
  <2>2. page'.history \in Seq(Events)
    BY <1>4 DEF WebTypeOK
  <2> QED BY <2>1, <2>2, EmptyFacts, SetFacts DEF Added, NewBelow
<1> QED BY <1>4, <1>6, <1>7, <1>8

LEMMA UnmountKeepsPage == PageInv /\ Unmount => PageInv'
<1> SUFFICES ASSUME PageInv, Unmount PROVE PageInv'
  OBVIOUS
<1> USE DEF PageInv
<1> DEFINE Page0 == [pc : {"loading", "answered", "shown", "failed", "gone"}, history : Seq(Events),
                     ref : Conns \cup {Missing}, timers : 0..1]
<1>1. page \in Page0 /\ page' = [page EXCEPT !.pc = "gone", !.ref = Missing]
  BY DEF WebTypeOK, Unmount
<1>2. /\ page' \in Page0 /\ page'.history = page.history
      /\ page'.timers = page.timers /\ page'.pc = "gone"
  BY ONLY <1>1
<1>3. UNCHANGED <<feedVars, stored, screen, heard, sending, deaf>> /\ Mounted /\ ~Mounted'
  BY <1>2 DEF Unmount, Mounted
<1>4. /\ side' \in [Conns -> {"none", "open", "closing", "closed"}]
      /\ \A c \in Conns : side'[c] = side[c] \/ (side[c] = "open" /\ side'[c] = "closing")
  BY WebAssumption DEF Unmount, ClosedByPage, WebTypeOK
<1>5. WebTypeOK' /\ FeedTypes'
  BY <1>2, <1>3, <1>4 DEF WebTypeOK, FeedTypes, feedVars
<1> HIDE DEF Page0
<1>6. Ends' /\ OneEnd' /\ HeardArrived'
  BY <1>2, <1>3, <1>4 DEF Ends, OneEnd, HeardArrived, feedVars
<1>7. Unloaded' /\ AnsweredShown' /\ Added'
  BY <1>2, <1>3 DEF Unloaded, AnsweredShown, Added, NewBelow
<1> QED BY <1>5, <1>6, <1>7

(* Steps that add to the screen, or only to what is being sent. *)
LEMMA ScreenKeepsPage ==
  ASSUME PageInv, NEW e \in Events, screen' = screen \/ screen' = AddMessage(e),
         UNCHANGED <<feedVars, stored, page, side, deaf>>,
         page.pc \in {"loading", "answered", "failed"} => UNCHANGED <<screen, sending>>,
         heard' \in [Conns -> Nat], \A c \in Conns : heard'[c] <= Len(got[c]),
         sending' \in [Own -> {"no", "posting", "shown", "failed"}],
         \A o \in Own : sending'[o] = "shown" /\ sending[o] # "shown" =>
                           o = e /\ screen' = AddMessage(e)
  PROVE  PageInv'
<1> USE DEF PageInv
<1>1. /\ AddMessage(e) \in Seq(Events)
      /\ \A n \in Nat : NewBelow(screen, n) => NewBelow(AddMessage(e), n)
      /\ ToSet(screen) \subseteq ToSet(AddMessage(e))
      /\ Mounted => ToSet(AddMessage(e)) = ToSet(screen) \cup {e}
  BY AddMessageFacts DEF WebTypeOK
<1>2. WebTypeOK' /\ FeedTypes'
  BY <1>1 DEF WebTypeOK, FeedTypes, feedVars
<1>3. Mounted' <=> Mounted
  BY DEF Mounted
<1>4. Ends' /\ OneEnd' /\ HeardArrived'
  BY <1>3 DEF Ends, OneEnd, HeardArrived, feedVars
<1>5. Unloaded'
  BY DEF Unloaded
<1>6. AnsweredShown'
  BY <1>1, <1>3 DEF AnsweredShown
<1>7. Added'
  BY <1>1 DEF Added, NewBelow
<1> QED BY <1>2, <1>4, <1>5, <1>6, <1>7

LEMMA OnMessageKeepsPage ==
  ASSUME PageInv, NEW c \in Conns, OnMessage(c)
  PROVE  PageInv'
<1> DEFINE e == got[c][heard[c] + 1]
<1>1. e \in Events
  BY HeardFacts DEF OnMessage, PageInv
<1>2. page.pc \notin {"loading", "answered", "failed"}
  BY DEF OnMessage, PageInv, Unloaded
<1>3. heard' \in [Conns -> Nat] /\ \A b \in Conns : heard'[b] <= Len(got[b])
  <2>1. \A b \in Conns : heard[b] \in Nat /\ Len(got[b]) \in Nat /\ heard[b] <= Len(got[b])
    BY SetFacts DEF PageInv, WebTypeOK, FeedTypes, HeardArrived
  <2>2. heard[c] + 1 \in Nat /\ heard[c] + 1 <= Len(got[c])
    BY <2>1 DEF OnMessage
  <2>3. heard' = [heard EXCEPT ![c] = heard[c] + 1]
    BY DEF OnMessage
  <2> QED BY <2>1, <2>2, <2>3 DEF PageInv, WebTypeOK
<1>4. screen' = AddMessage(e) /\ UNCHANGED <<feedVars, stored, page, side, deaf, sending>>
  BY DEF OnMessage
<1>5. sending' \in [Own -> {"no", "posting", "shown", "failed"}] /\ sending' = sending
  BY <1>4 DEF PageInv, WebTypeOK
<1> HIDE DEF e
<1> QED BY <1>1, <1>2, <1>3, <1>4, <1>5, ScreenKeepsPage

LEMMA SendingKeepsPage ==
  ASSUME PageInv, NEW e \in Own, Send(e) \/ SendAnswered(e) \/ SendFails(e)
  PROVE  PageInv'
<1>1. e \in Events
  BY WebAssumption
<1>2. page.pc \notin {"loading", "answered", "failed"}
  BY DEF Send, SendAnswered, SendFails, PageInv, Unloaded
<1>3. heard' \in [Conns -> Nat] /\ \A b \in Conns : heard'[b] <= Len(got[b])
  BY DEF Send, SendAnswered, SendFails, PageInv, WebTypeOK, HeardArrived
<1>4. UNCHANGED <<feedVars, stored, page, side, deaf>>
  BY DEF Send, SendAnswered, SendFails
<1>5. /\ screen' = screen \/ screen' = AddMessage(e)
      /\ sending' \in [Own -> {"no", "posting", "shown", "failed"}]
      /\ \A o \in Own : sending'[o] = "shown" /\ sending[o] # "shown" =>
                           o = e /\ screen' = AddMessage(e)
  BY DEF Send, SendAnswered, SendFails, PageInv, WebTypeOK
<1> QED BY <1>1, <1>2, <1>3, <1>4, <1>5, ScreenKeepsPage

LEMMA OnCloseKeepsPage ==
  ASSUME PageInv, NEW c \in Conns, OnClose(c)
  PROVE  PageInv'
<1> USE DEF PageInv
<1> DEFINE Page0 == [pc : {"loading", "answered", "shown", "failed", "gone"}, history : Seq(Events),
                     ref : Conns \cup {Missing}, timers : 0..1]
<1>1. page \in Page0 /\ page' = [page EXCEPT !.timers = page.timers + Reconnects]
  BY DEF WebTypeOK, OnClose
<1>2. page.timers + Reconnects \in 0..1 /\ Reconnects \in 0..1 /\ (side[c] = "closing" => Reconnects = 0)
      /\ (side[c] = "open" => page.timers = 0)
  BY <1>1 DEF OnClose, Reconnects, Ends, OneEnd
<1>3. /\ page' \in Page0 /\ page'.history = page.history /\ page'.pc = page.pc
      /\ page'.timers = page.timers + Reconnects
  BY ONLY <1>1, <1>2
<1>4. /\ UNCHANGED <<feedVars, stored, screen, heard, sending, deaf>> /\ (Mounted' <=> Mounted)
      /\ side[c] \in {"open", "closing"} /\ socket[c] = "shut"
      /\ page.pc \notin {"loading", "answered", "failed"}
  BY <1>3 DEF OnClose, Mounted, Unloaded
<1>5. /\ side' \in [Conns -> {"none", "open", "closing", "closed"}] /\ side'[c] = "closed"
      /\ \A b \in Conns \ {c} : side'[b] = side[b]
  BY DEF OnClose, WebTypeOK
<1>6. WebTypeOK' /\ FeedTypes'
  BY <1>3, <1>4, <1>5 DEF WebTypeOK, FeedTypes, feedVars
<1>7. Ends' /\ HeardArrived' /\ Unloaded' /\ AnsweredShown' /\ Added'
  BY <1>3, <1>4, <1>5 DEF Ends, HeardArrived, Unloaded, AnsweredShown, Added, NewBelow, feedVars
<1>8. OneEnd'
  <2>1. CASE side[c] = "open"
    BY <1>4, <1>5, <2>1 DEF OneEnd
  <2>2. CASE side[c] = "closing"
    <3>1. page'.timers = page.timers
      BY <1>1, <1>2, <1>3, <2>2
    <3> QED BY <1>5, <3>1 DEF OneEnd
  <2> QED BY <1>4, <2>1, <2>2
<1> QED BY <1>3, <1>4, <1>6, <1>7, <1>8

LEMMA PageNext == PageInv /\ [WebNext]_webVars => PageInv'
<1> SUFFICES ASSUME PageInv, [WebNext]_webVars PROVE PageInv'
  OBVIOUS
<1>1. CASE UNCHANGED webVars
  BY <1>1 DEF webVars, feedVars, chatVars, PageInv, WebTypeOK, FeedTypes, Ends, OneEnd, Unloaded,
              AnsweredShown, HeardArrived, Mounted, Added, NewBelow
<1>2. CASE Page
  BY <1>2, LoadKeepsPage, UnmountKeepsPage, ConnectKeepsPage, OnMessageKeepsPage, OnCloseKeepsPage,
     SendingKeepsPage DEF Page
<1> QED BY <1>1, <1>2, ServerKeepsPage DEF WebNext

LEMMA PageCorrect == WebSpec => []PageInv
BY PageInit, PageNext, PTL DEF WebSpec

(* WebTypeCorrect: the variables of the page keep their types; it never    *)
(* has two timers.                                                         *)
THEOREM WebTypeCorrect == WebSpec => []WebTypeOK
<1>1. PageInv => WebTypeOK
  BY DEF PageInv
<1> QED BY <1>1, PageCorrect, PTL

(* AddedOnceAlways: whatever the history holds, nothing that the socket or *)
(* the answer to a POST adds to the screen is on it already, and a message *)
(* whose POST was answered is on it.                                       *)
THEOREM AddedOnceAlways == WebSpec => []AddedOnce
<1>1. PageInv => AddedOnce
  BY DEF PageInv, Added, NewBelow, AddedOnce, AnsweredShown
<1> QED BY <1>1, PageCorrect, PTL

(* OneSocketAlways: one open socket or one timer that will open it.        *)
THEOREM OneSocketAlways == WebSpec => []OneSocketAtATime
<1>1. ASSUME PageInv PROVE OneSocketAtATime
  <2> DEFINE open == {c \in Conns : side[c] = "open"}
  <2>1. page.timers \in 0..1
    BY <1>1 DEF PageInv, WebTypeOK
  <2>2. CASE open = {}
    BY <2>1, <2>2, FS_EmptySet DEF OneSocketAtATime
  <2>3. CASE open # {}
    <3>1. PICK c \in Conns : side[c] = "open"
      BY <2>3
    <3>2. open = {c} /\ page.timers = 0
      BY <1>1, <3>1 DEF PageInv, OneEnd
    <3>3. Cardinality(open) = 1
      BY <3>2, FS_Singleton
    <3> QED BY <3>2, <3>3 DEF OneSocketAtATime
  <2> QED BY <2>2, <2>3
<1> QED BY <1>1, PageCorrect, PTL

(* ScreenOnlyGrows: what a chat shows keeps its place.                     *)
THEOREM ScreenOnlyGrows == WebSpec => ScreenKeeps
<1>1. ASSUME PageInv, [WebNext]_webVars PROVE [IsPrefix(screen, screen')]_webVars
  <2>1. screen \in Seq(Events)
    BY <1>1 DEF PageInv, WebTypeOK
  <2>2. CASE UNCHANGED screen
    BY <2>1, <2>2, PrefixEnds
  <2>3. ASSUME NEW c \in Conns, LoadArrives(c) PROVE IsPrefix(screen, screen')
    <3>1. screen = <<>> /\ screen' = page.history /\ page.history \in Seq(Events)
      BY <1>1, <2>3 DEF LoadArrives, PageInv, WebTypeOK, Unloaded
    <3> QED BY <3>1, PrefixEnds
  <2>4. ASSUME NEW c \in Conns, OnMessage(c) PROVE IsPrefix(screen, screen')
    BY <1>1, <2>1, <2>4, HeardFacts, AddMessageFacts DEF OnMessage, PageInv
  <2>5. ASSUME NEW e \in Own, SendAnswered(e) PROVE IsPrefix(screen, screen')
    BY <2>1, <2>5, AddMessageFacts, WebAssumption DEF SendAnswered
  <2>6. CASE Page
    BY <2>2, <2>3, <2>4, <2>5, <2>6 DEF Page, LoadReads, LoadFails, Unmount, OnClose, Reconnect,
                                        Send, SendFails
  <2>7. CASE Server
    BY <2>2, <2>7 DEF Server, Store, Cast, Subscribe, Receive, Disconnect, chatVars
  <2> QED BY <1>1, <2>2, <2>6, <2>7 DEF WebNext, webVars, chatVars
<1> QED BY <1>1, PageCorrect, PTL DEF WebSpec, ScreenKeeps


-----------------------------------------------------------------------------
(* What has been on its way, to whom and in which order.                   *)

(* Events reach subscribers of the dialog, and only after their broadcast  *)
(* began; nothing that is due, or that came later, was over before the     *)
(* broadcast of what has arrived began.                                    *)
Past ==
  /\ \A e \in Events : \A f \in before[e] : phase[f] = "over"
  /\ \A c \in joined : dialog[c] = Here /\ socket[c] # "new"
  /\ \A c \in Conns, e \in Events :
       <<c, e>> \in due \/ e \in ToSet(got[c]) => phase[e] # "new" /\ c \in joined
  /\ \A c \in Conns, f \in Events : \A g \in ToSet(got[c]) : <<c, f>> \in due => f \notin before[g]
  /\ \A c \in Conns : \A i, j \in DOMAIN got[c] : i < j => got[c][j] \notin before[got[c][i]]

LEMMA PastInit == WebInit => Past
BY EmptyFacts DEF WebInit, FeedInit, Past

LEMMA AnnounceKeepsPast ==
  ASSUME FeedTypes, Past, NEW e \in Events, Announce(e)
  PROVE  Past'
<1>1. /\ phase[e] = "new" /\ phase'[e] = "sending" /\ before'[e] = {f \in Events : phase[f] = "over"}
      /\ \A f \in Events \ {e} : phase'[f] = phase[f] /\ before'[f] = before[f]
      /\ due' = due \cup ({c \in joined : dialog[c] = DialogOf[e]} \X {e})
      /\ UNCHANGED <<socket, dialog, joined, got>>
  BY DEF Announce, FeedTypes
<1>2. \A f \in Events : \A g \in before[f] : g # e /\ g \in Events
  BY <1>1 DEF Past, FeedTypes
<1>3. \A f \in Events : \A g \in before'[f] : phase'[g] = "over"
  BY <1>1, <1>2 DEF Past
<1>4. ASSUME NEW c \in Conns, NEW g \in ToSet(got[c]) PROVE g \in Events /\ g # e
  <2>1. got[c] \in Seq(Events)
    BY DEF FeedTypes
  <2>2. g \in Events
    BY <2>1, SetFacts
  <2> QED BY <1>1, <2>2 DEF Past
<1>5. \A c \in Conns, f \in Events : <<c, f>> \in due' => <<c, f>> \in due \/ (f = e /\ c \in joined)
  BY <1>1
<1>6. \A c \in Conns, f \in Events :
        <<c, f>> \in due' \/ f \in ToSet(got'[c]) => phase'[f] # "new" /\ c \in joined'
  BY <1>1, <1>4, <1>5 DEF Past
<1>7. \A c \in Conns, f \in Events : \A g \in ToSet(got'[c]) : <<c, f>> \in due' => f \notin before'[g]
  BY <1>1, <1>2, <1>4, <1>5 DEF Past
<1>8. \A c \in Conns : \A i, j \in DOMAIN got'[c] : i < j => got'[c][j] \notin before'[got'[c][i]]
  <2>1. \A c \in Conns : \A i \in DOMAIN got[c] : got[c][i] \in ToSet(got[c])
    BY DEF ToSet
  <2> QED BY <1>1, <1>4, <2>1 DEF Past
<1>9. \A c \in joined' : dialog'[c] = Here /\ socket'[c] # "new"
  BY <1>1 DEF Past
<1> QED BY <1>3, <1>6, <1>7, <1>8, <1>9 DEF Past

LEMMA DeliverKeepsPast ==
  ASSUME FeedTypes, Past, NEW c \in Conns, NEW e \in Events, Deliver(c, e)
  PROVE  Past'
<1>1. /\ <<c, e>> \in due /\ due' = due \ {<<c, e>>} /\ \A f \in before[e] : <<c, f>> \notin due
      /\ got'[c] = Append(got[c], e) /\ \A b \in Conns \ {c} : got'[b] = got[b]
      /\ UNCHANGED <<socket, dialog, joined, phase, before>>
  BY DEF Deliver, FeedTypes
<1>2. /\ Len(got[c]) \in Nat /\ DOMAIN got[c] = 1..Len(got[c])
      /\ DOMAIN got'[c] = 1..(Len(got[c]) + 1) /\ got'[c][Len(got[c]) + 1] = e
      /\ \A i \in 1..Len(got[c]) : got'[c][i] = got[c][i] /\ got[c][i] \in ToSet(got[c])
      /\ ToSet(got'[c]) = ToSet(got[c]) \cup {e}
  BY <1>1, AppendFacts, SetFacts DEF FeedTypes
<1>3. \A b \in Conns, f \in Events :
        <<b, f>> \in due' \/ f \in ToSet(got'[b]) => phase'[f] # "new" /\ b \in joined'
  BY <1>1, <1>2 DEF Past
<1>4. \A b \in Conns, f \in Events : \A g \in ToSet(got'[b]) : <<b, f>> \in due' => f \notin before'[g]
  BY <1>1, <1>2 DEF Past
<1>5. \A b \in Conns : \A i, j \in DOMAIN got'[b] : i < j => got'[b][j] \notin before'[got'[b][i]]
  <2>1. \A i, j \in DOMAIN got'[c] : i < j => got'[c][j] \notin before[got'[c][i]]
    <3> SUFFICES ASSUME NEW i \in 1..(Len(got[c]) + 1), NEW j \in 1..(Len(got[c]) + 1), i < j
                 PROVE  got'[c][j] \notin before[got'[c][i]]
      BY <1>2
    <3>1. i \in 1..Len(got[c]) /\ (j \in 1..Len(got[c]) \/ j = Len(got[c]) + 1)
      BY <1>2
    <3>2. CASE j \in 1..Len(got[c])
      BY <1>2, <3>1, <3>2 DEF Past
    <3>3. CASE j = Len(got[c]) + 1
      BY <1>1, <1>2, <3>1, <3>3 DEF Past
    <3> QED BY <3>1, <3>2, <3>3
  <2> QED BY <1>1, <2>1 DEF Past
<1>6. /\ \A f \in Events : \A g \in before'[f] : phase'[g] = "over"
      /\ \A b \in joined' : dialog'[b] = Here /\ socket'[b] # "new"
  BY <1>1 DEF Past
<1> QED BY <1>3, <1>4, <1>5, <1>6 DEF Past

LEMMA PastNext == PageInv /\ Past /\ [WebNext]_webVars => Past'
<1> SUFFICES ASSUME PageInv, Past, [WebNext]_webVars PROVE Past'
  OBVIOUS
<1> USE DEF PageInv
<1>1. CASE UNCHANGED feedVars
  BY <1>1 DEF feedVars, Past
<1>2. ASSUME NEW e \in Events, Announced(e) PROVE Past'
  <2>1. /\ phase[e] = "sending" /\ phase'[e] = "over" /\ \A f \in Events \ {e} : phase'[f] = phase[f]
        /\ UNCHANGED <<socket, dialog, joined, before, due, got>>
    BY <1>2 DEF Announced, FeedTypes
  <2>2. \A f \in Events : \A g \in before[f] : g \in Events /\ phase[g] = "over" /\ phase'[g] = "over"
    BY <2>1 DEF FeedTypes, Past
  <2>3. \A f \in Events : phase'[f] = "new" => phase[f] = "new"
    BY <2>1
  <2> QED BY <2>1, <2>2, <2>3 DEF Past
<1>3. ASSUME NEW c \in Conns, Subscribe(c) PROVE Past'
  <2>1. /\ socket[c] = "open" /\ dialog'[c] = Here /\ joined' = joined \cup {c}
        /\ \A b \in Conns \ {c} : dialog'[b] = dialog[b]
        /\ UNCHANGED <<socket, phase, before, due, got>>
    BY <1>3 DEF Subscribe, Join, FeedTypes
  <2> QED BY <2>1 DEF Past, FeedTypes
<1>4. ASSUME NEW c \in Conns, Disconnect(c) PROVE Past'
  <2>1. /\ due' \subseteq due /\ \A b \in Conns : socket'[b] = "new" => socket[b] = "new"
        /\ UNCHANGED <<dialog, joined, phase, before, got>>
    BY <1>4 DEF Disconnect, Shut, FeedTypes
  <2> QED BY <2>1 DEF Past, FeedTypes
<1>5. ASSUME NEW c \in Conns, LoadArrives(c) \/ Reconnect(c) PROVE Past'
  <2>1. Open(c)
    BY <1>5 DEF LoadArrives, Reconnect, ConnectSocket
  <2>2. /\ \A b \in Conns : socket'[b] = "new" => socket[b] = "new"
        /\ UNCHANGED <<dialog, joined, phase, before, due, got>>
    BY <2>1 DEF Open, FeedTypes
  <2> QED BY <2>2 DEF Past, FeedTypes
<1>6. CASE Server
  BY <1>1, <1>2, <1>3, <1>4, <1>6, AnnounceKeepsPast, DeliverKeepsPast
  DEF Server, Store, Cast, Receive
<1>7. CASE Page
  <2>1. CASE LoadReads \/ LoadFails \/ Unmount
    BY <1>1, <2>1 DEF LoadReads, LoadFails, Unmount
  <2>2. ASSUME NEW c \in Conns, OnMessage(c) \/ OnClose(c) PROVE Past'
    BY <1>1, <2>2 DEF OnMessage, OnClose
  <2>3. ASSUME NEW e \in Own, Send(e) \/ SendAnswered(e) \/ SendFails(e) PROVE Past'
    BY <1>1, <2>3 DEF Send, SendAnswered, SendFails
  <2> QED BY <1>5, <1>7, <2>1, <2>2, <2>3 DEF Page
<1> QED BY <1>1, <1>6, <1>7 DEF WebNext, webVars, feedVars


-----------------------------------------------------------------------------
(* MissesOnlyTheGap: what is neither shown nor lost is pending.            *)

(* Event e has yet to come to onmessage, on connection c. *)
Pending(c, e) ==
  /\ side[c] = "open"
  /\ \/ socket[c] = "open" /\ <<c, e>> \in due
     \/ \E i \in DOMAIN got[c] : i > heard[c] /\ got[c][i] = e

NothingLost ==
  Mounted => \A e \in Events : phase[e] # "new" =>
    e \in ToSet(screen) \cup deaf \/ \E c \in Conns : Pending(c, e)

LEMMA NothingLostInit == WebInit => NothingLost
BY DEF WebInit, FeedInit, NothingLost

(* Enough for a step of the server to lose nothing. *)
LEMMA KeepsPending ==
  ASSUME NothingLost, Mounted' => Mounted, ToSet(screen) \subseteq ToSet(screen'), deaf \subseteq deaf',
         \A e \in Events : phase'[e] # "new" => phase[e] # "new",
         \A c \in Conns, e \in Events :
           Pending(c, e) => Pending(c, e)' \/ e \in deaf' \/ e \in ToSet(screen')
  PROVE  NothingLost'
BY DEF NothingLost

(* Delivering an event leaves it to be heard. *)
LEMMA DeliverPends ==
  ASSUME PageInv, NEW c \in Conns, NEW e \in Events, Receive(c, e)
  PROVE  \A b \in Conns, f \in Events : Pending(b, f)' <=> Pending(b, f)
<1> USE DEF PageInv
<1>1. /\ <<c, e>> \in due /\ due' = due \ {<<c, e>>} /\ socket[c] = "open"
      /\ got'[c] = Append(got[c], e) /\ \A b \in Conns \ {c} : got'[b] = got[b]
      /\ UNCHANGED <<socket, side, heard>>
  BY DEF Receive, Deliver, FeedTypes, chatVars
<1>2. /\ Len(got[c]) \in Nat /\ DOMAIN got[c] = 1..Len(got[c])
      /\ DOMAIN got'[c] = 1..(Len(got[c]) + 1) /\ got'[c][Len(got[c]) + 1] = e
      /\ \A i \in 1..Len(got[c]) : got'[c][i] = got[c][i]
      /\ heard[c] \in Nat /\ heard[c] <= Len(got[c])
  BY <1>1, AppendFacts, SetFacts DEF FeedTypes, WebTypeOK, HeardArrived
<1>3. ASSUME NEW b \in Conns \ {c}, NEW f \in Events PROVE Pending(b, f)' <=> Pending(b, f)
  BY <1>1, <1>3 DEF Pending
<1>4. ASSUME NEW f \in Events PROVE Pending(c, f)' <=> Pending(c, f)
  <2> DEFINE n == Len(got[c]) + 1
  <2>1. n \in DOMAIN got'[c] /\ n > heard[c] /\ got'[c][n] = e
        /\ \A i \in DOMAIN got'[c] : i \in DOMAIN got[c] \/ i = n
    BY <1>2
  <2>2. \A i \in DOMAIN got[c] : i \in DOMAIN got'[c] /\ got'[c][i] = got[c][i]
    BY <1>2
  <2> HIDE DEF n
  <2>3. CASE f = e
    BY <1>1, <2>1, <2>2, <2>3 DEF Pending
  <2>4. CASE f # e
    BY <1>1, <2>1, <2>2, <2>4 DEF Pending
  <2> QED BY <2>3, <2>4
<1> QED BY <1>3, <1>4

(* Hearing an event leaves the others. *)
LEMMA HearPends ==
  ASSUME PageInv, NEW c \in Conns, OnMessage(c)
  PROVE  LET e == got[c][heard[c] + 1]
         IN  /\ Pending(c, e)
             /\ \A b \in Conns, f \in Events : Pending(b, f)' => Pending(b, f)
             /\ \A b \in Conns, f \in Events : Pending(b, f) => Pending(b, f)' \/ f = e
             /\ \A f \in Events : Pending(c, f)' =>
                  <<c, f>> \in due \/ \E i \in DOMAIN got[c] : heard[c] + 1 < i /\ got[c][i] = f
<1> USE DEF PageInv
<1>1. /\ side[c] = "open" /\ heard[c] \in Nat /\ heard[c] + 1 \in DOMAIN got[c]
      /\ heard'[c] = heard[c] + 1 /\ \A b \in Conns \ {c} : heard'[b] = heard[b]
      /\ UNCHANGED <<socket, due, got, side>>
  BY HeardFacts DEF OnMessage, WebTypeOK, feedVars
<1>2. /\ heard[c] + 1 > heard[c]
      /\ \A i \in DOMAIN got[c] : i > heard[c] + 1 => i > heard[c]
      /\ \A i \in DOMAIN got[c] : i > heard[c] => i > heard[c] + 1 \/ i = heard[c] + 1
      /\ \A i \in DOMAIN got[c] : i > heard[c] + 1 => heard[c] + 1 < i
  <2>1. DOMAIN got[c] = 1..Len(got[c]) /\ Len(got[c]) \in Nat
    BY SetFacts DEF FeedTypes
  <2> QED BY <1>1, <2>1
<1>3. Pending(c, got[c][heard[c] + 1])
  BY <1>1, <1>2 DEF Pending
<1>4. ASSUME NEW b \in Conns \ {c}, NEW f \in Events PROVE Pending(b, f)' <=> Pending(b, f)
  BY <1>1, <1>4 DEF Pending
<1>5. ASSUME NEW f \in Events
      PROVE  /\ Pending(c, f)' => Pending(c, f)
             /\ Pending(c, f) => Pending(c, f)' \/ f = got[c][heard[c] + 1]
             /\ Pending(c, f)' =>
                  <<c, f>> \in due \/ \E i \in DOMAIN got[c] : heard[c] + 1 < i /\ got[c][i] = f
  <2> DEFINE n == heard[c] + 1
             Via == socket[c] = "open" /\ <<c, f>> \in due
  <2>1. Pending(c, f)' <=> Via \/ \E i \in DOMAIN got[c] : i > n /\ got[c][i] = f
    BY <1>1 DEF Pending
  <2>2. Pending(c, f) <=> Via \/ \E i \in DOMAIN got[c] : i > heard[c] /\ got[c][i] = f
    BY <1>1 DEF Pending
  <2>3. /\ \A i \in DOMAIN got[c] : i > n => i > heard[c]
        /\ \A i \in DOMAIN got[c] : i > n => n < i
        /\ \A i \in DOMAIN got[c] : i > heard[c] => i > n \/ i = n
    BY <1>2
  <2> HIDE DEF n
  <2>4. Pending(c, f)' => Pending(c, f)
    BY <2>1, <2>2, <2>3
  <2>5. Pending(c, f) => Pending(c, f)' \/ f = got[c][n]
    BY <2>1, <2>2, <2>3
  <2>6. Pending(c, f)' => <<c, f>> \in due \/ \E i \in DOMAIN got[c] : n < i /\ got[c][i] = f
    BY <2>1, <2>3
  <2> QED BY <2>4, <2>5, <2>6 DEF n
<1> QED BY <1>3, <1>4, <1>5

LEMMA CastLosesNothing ==
  ASSUME PageInv, Past, NothingLost, NEW e \in Events, Cast(e)
  PROVE  NothingLost'
<1> USE DEF PageInv
<1>1. UNCHANGED <<socket, dialog, joined, got, stored, chatVars>> /\ deaf \subseteq deaf'
      /\ (Mounted' <=> Mounted)
  BY DEF Cast, Announce, Announced, chatVars, Mounted
<1>2. CASE Announced(e)
  <2>1. \A f \in Events : phase'[f] # "new" => phase[f] # "new"
    BY <1>2 DEF Announced, FeedTypes
  <2>2. \A c \in Conns, f \in Events : Pending(c, f)' <=> Pending(c, f)
    BY <1>1, <1>2 DEF Announced, Pending, chatVars
  <2> QED BY <1>1, <2>1, <2>2, KeepsPending DEF chatVars
<1>3. CASE Announce(e) /\ deaf' = IF Subscribed THEN deaf ELSE deaf \cup {e}
  <2>1. \A f \in Events \ {e} : phase'[f] = phase[f]
    BY <1>3 DEF Announce, FeedTypes
  <2>2. \A c \in Conns, f \in Events : Pending(c, f) => Pending(c, f)'
    BY <1>1, <1>3 DEF Announce, Pending, chatVars
  <2>3. e \in deaf' \/ \E c \in Conns : Pending(c, e)'
    <3>1. CASE ~Subscribed
      BY <1>3, <3>1
    <3>2. CASE Subscribed
      <4>1. PICK c \in joined : socket[c] = "open" /\ side[c] = "open"
        BY <3>2 DEF Subscribed
      <4>2. c \in Conns /\ dialog[c] = DialogOf[e]
        BY WebAssumption DEF Past, FeedTypes
      <4>3. <<c, e>> \in due'
        BY <1>3, <4>2 DEF Announce
      <4> QED BY <1>1, <4>1, <4>2, <4>3 DEF Pending, chatVars
    <3> QED BY <3>1, <3>2
  <2> QED BY <1>1, <2>1, <2>2, <2>3 DEF NothingLost, chatVars
<1> QED BY <1>2, <1>3 DEF Cast

LEMMA NothingLostNext == PageInv /\ Past /\ NothingLost /\ [WebNext]_webVars => NothingLost'
<1> SUFFICES ASSUME PageInv, Past, NothingLost, [WebNext]_webVars PROVE NothingLost'
  OBVIOUS
<1> USE DEF PageInv
<1>1. CASE UNCHANGED <<feedVars, chatVars, deaf>>
  BY <1>1 DEF feedVars, chatVars, NothingLost, Pending, Mounted
<1>2. ASSUME NEW c \in Conns, Subscribe(c) PROVE NothingLost'
  BY <1>2 DEF Subscribe, Join, chatVars, NothingLost, Pending, Mounted
<1>3. ASSUME NEW c \in Conns, Disconnect(c) PROVE NothingLost'
  <2>1. /\ socket'[c] = "shut" /\ \A b \in Conns \ {c} : socket'[b] = socket[b]
        /\ due' \subseteq due /\ \A b \in Conns \ {c}, e \in Events : <<b, e>> \in due => <<b, e>> \in due'
        /\ deaf' = deaf \cup {e \in Events : <<c, e>> \in due}
        /\ UNCHANGED <<phase, got, chatVars>>
    BY <1>3 DEF Disconnect, Shut, FeedTypes
  <2>2. \A b \in Conns, e \in Events : Pending(b, e) => Pending(b, e)' \/ e \in deaf'
    BY <2>1 DEF Pending, chatVars
  <2> QED BY <2>1, <2>2, KeepsPending DEF chatVars, Mounted
<1>4. ASSUME NEW c \in Conns, NEW e \in Events, Receive(c, e) PROVE NothingLost'
  <2>1. UNCHANGED <<phase, deaf, page, screen>>
    BY <1>4 DEF Receive, Deliver, chatVars
  <2> QED BY <1>4, <2>1, DeliverPends, KeepsPending DEF Mounted
<1>5. CASE Server
  BY <1>1, <1>2, <1>3, <1>4, <1>5, CastLosesNothing DEF Server, Store
<1>6. ASSUME NEW c \in Conns, LoadArrives(c) \/ Reconnect(c) PROVE NothingLost'
  <2>1. \A b \in Conns : side[b] # "open"
    <3>1. CASE LoadArrives(c)
      BY <3>1 DEF LoadArrives, Unloaded
    <3>2. CASE Reconnect(c)
      BY <3>2 DEF Reconnect, OneEnd, WebTypeOK
    <3> QED BY <1>6, <3>1, <3>2
  <2>2. UNCHANGED <<phase, deaf>> /\ (screen' = screen \/ screen = <<>>)
    BY <1>6 DEF LoadArrives, Reconnect, ConnectSocket, Open, Unloaded
  <2>3. ToSet(screen) \subseteq ToSet(screen')
    BY <2>2, EmptyFacts
  <2>4. Mounted' => Mounted
    <3>1. CASE LoadArrives(c)
      BY <3>1 DEF LoadArrives, Mounted
    <3>2. CASE Reconnect(c)
      BY <3>2 DEF Reconnect, ConnectSocket, Mounted, WebTypeOK
    <3> QED BY <1>6, <3>1, <3>2
  <2> QED BY <2>1, <2>2, <2>3, <2>4, KeepsPending DEF Pending
<1>7. ASSUME NEW c \in Conns, OnMessage(c) PROVE NothingLost'
  <2>1. got[c][heard[c] + 1] \in Events
    BY <1>7, HeardFacts DEF OnMessage
  <2>2. screen' = AddMessage(got[c][heard[c] + 1]) /\ UNCHANGED <<phase, deaf, page>>
    BY <1>7 DEF OnMessage, feedVars
  <2>3. ToSet(screen) \subseteq ToSet(screen') /\ (Mounted => got[c][heard[c] + 1] \in ToSet(screen'))
    BY <2>1, <2>2, AddMessageFacts DEF WebTypeOK
  <2>4. Mounted' <=> Mounted
    BY <2>2 DEF Mounted
  <2>5. \A b \in Conns, f \in Events : Pending(b, f) => Pending(b, f)' \/ f = got[c][heard[c] + 1]
    BY <1>7, HearPends
  <2> QED BY <2>2, <2>3, <2>4, <2>5 DEF NothingLost
<1>8. ASSUME NEW c \in Conns, OnClose(c) PROVE NothingLost'
  <2>1. /\ socket[c] = "shut" /\ (side[c] = "open" => heard[c] = Len(got[c]))
        /\ \A b \in Conns \ {c} : side'[b] = side[b]
        /\ UNCHANGED <<feedVars, screen, heard, deaf>> /\ (Mounted' <=> Mounted)
    BY <1>8 DEF OnClose, WebTypeOK, Mounted
  <2>2. \A i \in DOMAIN got[c] : i <= Len(got[c]) /\ i \in Nat /\ Len(got[c]) \in Nat
    BY SetFacts DEF FeedTypes
  <2>3. \A f \in Events : ~Pending(c, f)
    BY <2>1, <2>2 DEF Pending
  <2>4. \A b \in Conns, f \in Events : Pending(b, f) => Pending(b, f)'
    BY <2>1, <2>3 DEF Pending, feedVars
  <2> QED BY <2>1, <2>4, KeepsPending DEF feedVars
<1>9. CASE LoadReads \/ LoadFails
  <2>1. UNCHANGED <<feedVars, screen, side, heard, deaf>> /\ (Mounted' => Mounted)
    BY <1>9 DEF LoadReads, LoadFails, Mounted
  <2> QED BY <2>1 DEF NothingLost, Pending, feedVars
<1>10. CASE Unmount
  <2>1. ~Mounted'
    BY <1>10 DEF Unmount, Mounted, WebTypeOK
  <2> QED BY <2>1 DEF NothingLost
<1>11. ASSUME NEW e \in Own, Send(e) \/ SendAnswered(e) \/ SendFails(e) PROVE NothingLost'
  <2>1. UNCHANGED <<feedVars, page, side, heard, deaf>> /\ (screen' = screen \/ screen' = AddMessage(e))
    BY <1>11 DEF Send, SendAnswered, SendFails
  <2>2. ToSet(screen) \subseteq ToSet(screen')
    BY <2>1, AddMessageFacts, WebAssumption DEF WebTypeOK
  <2> QED BY <2>1, <2>2 DEF NothingLost, Pending, feedVars, Mounted
<1>12. CASE Page
  BY <1>6, <1>7, <1>8, <1>9, <1>10, <1>11, <1>12 DEF Page
<1> QED BY <1>1, <1>5, <1>12 DEF WebNext, webVars

(* OnlyTheGapIsMissed: whatever the order of history, sockets, answers and *)
(* reconnections, a chat that is up to date with its socket misses only    *)
(* messages whose broadcast no socket of its could bring.                  *)
THEOREM OnlyTheGapIsMissed == WebSpec => []MissesOnlyTheGap
<1>1. ASSUME PageInv, NothingLost PROVE MissesOnlyTheGap
  <2> SUFFICES ASSUME NEW c \in Conns, Listening(c), NEW e \in Events, phase[e] # "new"
               PROVE  e \in ToSet(screen) \cup deaf
    BY DEF MissesOnlyTheGap
  <2>1. Mounted /\ socket[c] = "open" /\ <<c, e>> \notin due /\ heard[c] = Len(got[c])
    BY DEF Listening, Mounted
  <2>2. side[c] = "open"
    BY <1>1, <2>1 DEF PageInv, Ends
  <2>3. \A i \in DOMAIN got[c] : i <= Len(got[c]) /\ i \in Nat /\ Len(got[c]) \in Nat
    BY <1>1, SetFacts DEF PageInv, FeedTypes
  <2>4. ~Pending(c, e)
    BY <2>1, <2>3 DEF Pending
  <2>5. \A b \in Conns : Pending(b, e) => b = c
    BY <1>1, <2>2 DEF Pending, PageInv, OneEnd
  <2> QED BY <1>1, <2>1, <2>4, <2>5 DEF NothingLost
<1> QED BY <1>1, PageInit, PageNext, PastInit, PastNext, NothingLostInit, NothingLostNext, PTL DEF WebSpec


-----------------------------------------------------------------------------
(* SocketsInOrder: what is pending was not over when what a socket has     *)
(* brought began.                                                          *)

InOrder ==
  /\ \A g \in BySocket : phase[g] # "new"
  /\ \A c \in Conns, f \in Events : Pending(c, f) => \A g \in BySocket : f \notin before[g]
  /\ SocketsInOrder

LEMMA InOrderInit == WebInit => InOrder
<1> SUFFICES ASSUME WebInit PROVE InOrder
  OBVIOUS
<1>1. screen = <<>> /\ (\A c \in Conns : side[c] = "none")
  BY DEF WebInit
<1>2. BySocket = {} /\ DOMAIN screen = {}
  BY <1>1, EmptyFacts DEF BySocket
<1> QED BY <1>1, <1>2 DEF InOrder, SocketsInOrder, Pending

(* Enough for a step that adds nothing to the screen by a socket. *)
LEMMA KeepsOrder ==
  ASSUME PageInv, InOrder, NEW e \in Events,
         screen' = screen \/ (screen' = Append(screen, e) /\ e \notin BySocket'),
         BySocket' \subseteq BySocket,
         \A g \in BySocket : before'[g] = before[g] /\ phase'[g] # "new",
         \A c \in Conns, f \in Events :
           Pending(c, f)' => Pending(c, f) \/ \A g \in BySocket : f \notin before[g]
  PROVE  InOrder'
<1>1. /\ \A g \in BySocket' : phase'[g] # "new"
      /\ \A c \in Conns, f \in Events : Pending(c, f)' => \A g \in BySocket' : f \notin before'[g]
  BY DEF InOrder
<1>2. SocketsInOrder'
  <2>1. ASSUME NEW i \in DOMAIN screen', NEW j \in DOMAIN screen', i < j,
               screen'[i] \in BySocket', screen'[j] \in BySocket'
        PROVE  screen'[j] \notin before'[screen'[i]]
    <3>1. i \in DOMAIN screen /\ j \in DOMAIN screen /\ screen'[i] = screen[i] /\ screen'[j] = screen[j]
      <4>1. CASE screen' = screen
        BY <4>1
      <4>2. CASE screen' = Append(screen, e) /\ e \notin BySocket'
        <5>1. /\ Len(screen) \in Nat /\ DOMAIN screen = 1..Len(screen)
              /\ DOMAIN screen' = 1..(Len(screen) + 1) /\ screen'[Len(screen) + 1] = e
              /\ \A k \in 1..Len(screen) : screen'[k] = screen[k]
          BY <4>2, AppendFacts DEF PageInv, WebTypeOK
        <5>2. i # Len(screen) + 1 /\ j # Len(screen) + 1
          BY <2>1, <4>2, <5>1
        <5>3. i \in 1..Len(screen) /\ j \in 1..Len(screen)
          BY <5>1, <5>2
        <5> QED BY <5>1, <5>3
      <4> QED BY <4>1, <4>2
    <3>2. screen[i] \in BySocket /\ screen[j] \in BySocket
      BY <2>1, <3>1
    <3>3. screen[j] \notin before[screen[i]]
      BY <2>1, <3>1, <3>2 DEF InOrder, SocketsInOrder
    <3> QED BY <3>1, <3>2, <3>3
  <2> QED BY <2>1 DEF SocketsInOrder
<1> QED BY <1>1, <1>2 DEF InOrder

(* The same for a step that leaves the screen alone. *)
LEMMA KeepsScreenOrder ==
  ASSUME PageInv, InOrder, UNCHANGED <<screen, sending>>, page'.history = page.history,
         \A g \in BySocket : before'[g] = before[g] /\ phase'[g] # "new",
         \A c \in Conns, f \in Events :
           Pending(c, f)' => Pending(c, f) \/ \A g \in BySocket : f \notin before[g]
  PROVE  InOrder'
<1>1. BySocket' = BySocket
  BY DEF BySocket
<1>2. CASE Events # {}
  BY <1>1, <1>2, KeepsOrder
<1>3. CASE Events = {}
  <2>1. ToSet(screen) = {} /\ DOMAIN screen = {}
    <3>1. \A i \in DOMAIN screen : screen[i] \in Events
      BY SetFacts DEF PageInv, WebTypeOK
    <3> QED BY <1>3, <3>1 DEF ToSet
  <2>2. BySocket = {} /\ DOMAIN screen' = {}
    BY <2>1 DEF BySocket
  <2> QED BY <1>1, <1>3, <2>2 DEF InOrder, SocketsInOrder
<1> QED BY <1>2, <1>3

LEMMA CastKeepsOrder ==
  ASSUME PageInv, Past, InOrder, NEW e \in Events, Cast(e)
  PROVE  InOrder'
<1> USE DEF PageInv
<1>1. UNCHANGED <<socket, got, chatVars>>
  BY DEF Cast, Announce, Announced, chatVars
<1>2. BySocket \subseteq Events
  <2>1. ToSet(screen) \subseteq Events
    BY SetFacts DEF WebTypeOK
  <2> QED BY <2>1 DEF BySocket
<1>3. CASE Announced(e)
  <2>1. UNCHANGED <<before, due>> /\ \A f \in Events : phase'[f] = "new" => phase[f] = "new"
    BY <1>3 DEF Announced, FeedTypes
  <2>2. \A c \in Conns, f \in Events : Pending(c, f)' => Pending(c, f)
    BY <1>1, <2>1 DEF Pending, chatVars
  <2>3. \A g \in BySocket : before'[g] = before[g] /\ phase'[g] # "new"
    BY <1>2, <2>1 DEF InOrder
  <2> QED BY <1>1, <2>2, <2>3, KeepsScreenOrder DEF chatVars
<1>4. CASE Announce(e)
  <2>1. /\ phase[e] = "new" /\ phase'[e] # "new"
        /\ \A f \in Events \ {e} : phase'[f] = phase[f] /\ before'[f] = before[f]
        /\ \A c \in Conns, f \in Events : <<c, f>> \in due' => <<c, f>> \in due \/ f = e
    BY <1>4 DEF Announce, FeedTypes
  <2>2. \A g \in BySocket : g \in Events /\ g # e /\ e \notin before[g]
    BY <1>2, <2>1 DEF InOrder, Past
  <2>3. \A g \in BySocket : before'[g] = before[g] /\ phase'[g] # "new"
    BY <2>1, <2>2 DEF InOrder
  <2>4. \A c \in Conns, f \in Events :
          Pending(c, f)' => Pending(c, f) \/ \A g \in BySocket : f \notin before[g]
    BY <1>1, <2>1, <2>2 DEF Pending, chatVars
  <2> QED BY <1>1, <2>3, <2>4, KeepsScreenOrder DEF chatVars
<1> QED BY <1>3, <1>4 DEF Cast

LEMMA ConnectKeepsOrder ==
  ASSUME PageInv, Past, InOrder, NEW c \in Conns, Reconnect(c)
  PROVE  InOrder'
<1> USE DEF PageInv
<1> DEFINE k == [page EXCEPT !.timers = page.timers - 1]
<1>1. ConnectSocket(c, k) /\ UNCHANGED <<screen, heard, sending>>
      /\ page.ref \in Conns \cup {Missing} /\ k.ref = page.ref /\ k.history = page.history
  BY DEF Reconnect, WebTypeOK
<1>2. page'.history = page.history
  BY <1>1 DEF ConnectSocket, WebTypeOK
<1>3. /\ socket[c] = "new"
      /\ \A b \in Conns \ {c} : socket'[b] = socket[b]
      /\ \A b \in Conns \ {c} : side'[b] = IF b = k.ref /\ side[b] = "open" THEN "closing" ELSE side[b]
      /\ UNCHANGED <<phase, before, due, got>>
  <2>1. k.ref \in Conns \cup {Missing} /\ WebTypeOK /\ FeedTypes
    BY <1>1
  <2> HIDE DEF PageInv, k
  <2> QED BY <1>1, <2>1, ConnectFacts
<1> HIDE DEF k
<1>4. \A f \in Events : ~Pending(c, f)'
  <2>1. c \notin joined
    BY <1>3 DEF Past
  <2>2. \A f \in Events : <<c, f>> \notin due /\ f \notin ToSet(got[c])
    BY <2>1 DEF Past
  <2> QED BY <1>3, <2>2 DEF Pending, ToSet
<1>5. \A b \in Conns, f \in Events : Pending(b, f)' => Pending(b, f)
  BY <1>1, <1>3, <1>4 DEF Pending
<1>6. \A g \in BySocket : before'[g] = before[g] /\ phase'[g] # "new"
  BY <1>3 DEF InOrder
<1> QED BY <1>1, <1>2, <1>5, <1>6, KeepsScreenOrder

LEMMA LoadKeepsOrder ==
  ASSUME PageInv, LoadReads \/ \E c \in Conns : LoadArrives(c)
  PROVE  InOrder'
<1>1. \/ screen' = <<>>
      \/ screen' = page.history /\ page'.history = page.history
  BY DEF LoadReads, LoadArrives, ConnectSocket, PageInv, Unloaded, WebTypeOK
<1>2. BySocket' = {}
  BY <1>1, EmptyFacts DEF BySocket
<1>3. SocketsInOrder'
  BY <1>2 DEF SocketsInOrder
<1> QED BY <1>2, <1>3 DEF InOrder

LEMMA OnMessageKeepsOrder ==
  ASSUME PageInv, Past, InOrder, NEW c \in Conns, OnMessage(c)
  PROVE  InOrder'
<1> USE DEF PageInv
<1> DEFINE e == got[c][heard[c] + 1]
<1>1. /\ e \in Events /\ heard[c] + 1 \in DOMAIN got[c] /\ e \in ToSet(got[c])
      /\ side[c] = "open" /\ phase[e] # "new"
  BY HeardFacts DEF OnMessage, Past
<1>2. /\ Pending(c, e)
      /\ \A b \in Conns, f \in Events : Pending(b, f)' => Pending(b, f)
      /\ \A f \in Events : Pending(c, f)' =>
           <<c, f>> \in due \/ \E i \in DOMAIN got[c] : heard[c] + 1 < i /\ got[c][i] = f
  BY HearPends
<1>3. UNCHANGED <<phase, before, due, got, page, side, sending>> /\ screen' = AddMessage(e)
  BY DEF OnMessage, feedVars
<1>4. ASSUME NEW f \in Events, Pending(c, f)' PROVE f \notin before[e]
  <2>1. CASE <<c, f>> \in due
    BY <1>1, <2>1 DEF Past
  <2>2. ASSUME NEW i \in DOMAIN got[c], heard[c] + 1 < i, got[c][i] = f PROVE f \notin before[e]
    <3> DEFINE n == heard[c] + 1
    <3>1. n \in DOMAIN got[c] /\ n < i
      BY <1>1, <2>2
    <3> HIDE DEF n
    <3>2. got[c][i] \notin before[got[c][n]]
      BY <3>1 DEF Past
    <3> QED BY <2>2, <3>2 DEF n
  <2> QED BY <1>2, <1>4, <2>1, <2>2
<1> HIDE DEF e
<1>5. CASE screen' = screen
  <2>1. page'.history = page.history /\ \A g \in BySocket : before'[g] = before[g] /\ phase'[g] # "new"
    BY <1>3 DEF InOrder
  <2> QED BY <1>2, <1>3, <1>5, <2>1, KeepsScreenOrder
<1>6. CASE screen' = Append(screen, e)
  <2>1. /\ Len(screen) \in Nat /\ DOMAIN screen = 1..Len(screen)
        /\ DOMAIN screen' = 1..(Len(screen) + 1) /\ screen'[Len(screen) + 1] = e
        /\ \A k \in 1..Len(screen) : screen'[k] = screen[k] /\ screen[k] \in ToSet(screen)
        /\ ToSet(screen') = ToSet(screen) \cup {e}
    BY <1>1, <1>6, AppendFacts, SetFacts DEF WebTypeOK
  <2>2. BySocket' \subseteq BySocket \cup {e} /\ ToSet(screen) \cap BySocket' \subseteq BySocket
    BY <1>3, <2>1 DEF BySocket
  <2>3. \A g \in BySocket' : phase'[g] # "new"
    BY <1>1, <1>3, <2>2 DEF InOrder
  <2>4. \A b \in Conns, f \in Events : Pending(b, f)' => \A g \in BySocket' : f \notin before'[g]
    <3>1. \A b \in Conns, f \in Events : Pending(b, f)' => b = c
      BY <1>1, <1>2 DEF Pending, OneEnd
    <3> QED BY <1>2, <1>3, <1>4, <2>2, <3>1 DEF InOrder
  <2>5. ASSUME NEW i \in DOMAIN screen', NEW j \in DOMAIN screen', i < j,
               screen'[i] \in BySocket', screen'[j] \in BySocket'
        PROVE  screen'[j] \notin before'[screen'[i]]
    <3>1. i \in 1..Len(screen) /\ (j \in 1..Len(screen) \/ j = Len(screen) + 1)
      BY <2>1, <2>5
    <3>2. screen'[i] = screen[i] /\ screen[i] \in BySocket
      BY <2>1, <2>2, <2>5, <3>1
    <3>3. CASE j \in 1..Len(screen)
      <4>1. screen'[j] = screen[j] /\ screen[j] \in BySocket
        BY <2>1, <2>2, <2>5, <3>3
      <4> QED BY <1>3, <2>1, <2>5, <3>1, <3>2, <3>3, <4>1 DEF InOrder, SocketsInOrder
    <3>4. CASE j = Len(screen) + 1
      BY <1>1, <1>2, <1>3, <2>1, <3>2, <3>4 DEF InOrder
    <3> QED BY <3>1, <3>3, <3>4
  <2>6. SocketsInOrder'
    BY <2>5 DEF SocketsInOrder
  <2> QED BY <2>3, <2>4, <2>6 DEF InOrder
<1>7. screen' = screen \/ screen' = Append(screen, e)
  BY <1>3 DEF AddMessage
<1> QED BY <1>5, <1>6, <1>7

LEMMA SendingKeepsOrder ==
  ASSUME PageInv, InOrder, NEW e \in Own, Send(e) \/ SendAnswered(e) \/ SendFails(e)
  PROVE  InOrder'
<1> USE DEF PageInv
<1>1. UNCHANGED <<feedVars, page, side, heard>> /\ e \in Events
  BY WebAssumption DEF Send, SendAnswered, SendFails
<1>2. \A c \in Conns, f \in Events : Pending(c, f)' => Pending(c, f)
  BY <1>1 DEF Pending, feedVars
<1>3. /\ screen' = screen \/ (screen' = Append(screen, e) /\ sending'[e] = "shown")
      /\ \A o \in Own : sending[o] = "shown" => sending'[o] = "shown"
  BY DEF Send, SendAnswered, SendFails, AddMessage, WebTypeOK
<1>4. screen' = Append(screen, e) => ToSet(screen') = ToSet(screen) \cup {e}
  BY <1>1, AppendFacts DEF WebTypeOK
<1>5. BySocket' \subseteq BySocket /\ (screen' = Append(screen, e) => screen' = screen \/ e \notin BySocket')
  BY <1>1, <1>3, <1>4 DEF BySocket
<1>6. \A g \in BySocket : before'[g] = before[g] /\ phase'[g] # "new"
  BY <1>1 DEF InOrder, feedVars
<1> QED BY <1>1, <1>2, <1>3, <1>5, <1>6, KeepsOrder

LEMMA InOrderNext == PageInv /\ Past /\ InOrder /\ [WebNext]_webVars => InOrder'
<1> SUFFICES ASSUME PageInv, Past, InOrder, [WebNext]_webVars PROVE InOrder'
  OBVIOUS
<1> USE DEF PageInv
(* Steps after which nothing new is pending. *)
<1>1. ASSUME UNCHANGED <<phase, before, screen, sending>>, page'.history = page.history,
             \A c \in Conns, f \in Events : Pending(c, f)' => Pending(c, f)
      PROVE  InOrder'
  <2>1. \A g \in BySocket : before'[g] = before[g] /\ phase'[g] # "new"
    BY <1>1 DEF InOrder
  <2> HIDE DEF PageInv
  <2> QED BY <1>1, <2>1, KeepsScreenOrder
<1>2. CASE UNCHANGED <<feedVars, chatVars>>
  BY <1>1, <1>2 DEF feedVars, chatVars, Pending
<1>3. ASSUME NEW c \in Conns, Subscribe(c) PROVE InOrder'
  BY <1>1, <1>3 DEF Subscribe, Join, chatVars, Pending
<1>4. ASSUME NEW c \in Conns, Disconnect(c) PROVE InOrder'
  <2>1. /\ due' \subseteq due /\ \A b \in Conns : socket'[b] = "open" => socket[b] = "open"
        /\ UNCHANGED <<phase, before, got, chatVars>>
    BY <1>4 DEF Disconnect, Shut, FeedTypes
  <2> QED BY <1>1, <2>1 DEF chatVars, Pending
<1>5. ASSUME NEW c \in Conns, NEW e \in Events, Receive(c, e) PROVE InOrder'
  BY <1>1, <1>5, DeliverPends DEF Receive, Deliver, chatVars
<1>6. CASE Server
  BY <1>2, <1>3, <1>4, <1>5, <1>6, CastKeepsOrder DEF Server, Store
<1>7. CASE LoadFails \/ Unmount
  <2>1. /\ UNCHANGED <<feedVars, screen, heard, sending>> /\ page'.history = page.history
        /\ \A c \in Conns : side'[c] = "open" => side[c] = "open"
    BY <1>7 DEF LoadFails, Unmount, ClosedByPage, WebTypeOK
  <2> QED BY <1>1, <2>1 DEF Pending, feedVars
<1>8. ASSUME NEW c \in Conns, OnClose(c) PROVE InOrder'
  <2>1. /\ UNCHANGED <<feedVars, screen, heard, sending>> /\ page'.history = page.history
        /\ \A b \in Conns : side'[b] = "open" => side[b] = "open"
    BY <1>8 DEF OnClose, WebTypeOK
  <2> QED BY <1>1, <2>1 DEF Pending, feedVars
<1>9. CASE Page
  BY <1>7, <1>8, <1>9, LoadKeepsOrder, ConnectKeepsOrder, OnMessageKeepsOrder, SendingKeepsOrder DEF Page
<1> QED BY <1>2, <1>6, <1>9 DEF WebNext, webVars

(* OrderAcrossSockets: messages that sockets brought are on the screen in  *)
(* an order their broadcasts allow, however often the page reconnected.    *)
THEOREM OrderAcrossSockets == WebSpec => []SocketsInOrder
<1>1. InOrder => SocketsInOrder
  BY DEF InOrder
<1> QED BY <1>1, PageInit, PageNext, PastInit, PastNext, InOrderInit, InOrderNext, PTL DEF WebSpec
=============================================================================
