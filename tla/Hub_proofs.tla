------------------------------- MODULE Hub_proofs -------------------------------
(***************************************************************************)
(* Theorems about Hub, for every value of its constants: any number of     *)
(* connections, dialogs and events, and buffers of any size.               *)
(***************************************************************************)
EXTENDS Hub, SequenceTheorems, TLAPS

-----------------------------------------------------------------------------
(* Lemmas about sequences of events. *)

NoDuplicates(s) == \A i, j \in DOMAIN s : s[i] = s[j] => i = j

LEMMA EmptyFacts ==
  ASSUME NEW S
  PROVE  <<>> \in Seq(S) /\ ToSet(<<>>) = {} /\ DOMAIN <<>> = {} /\ Len(<<>>) = 0
BY EmptySeq, LenProperties DEF ToSet

LEMMA AppendFacts ==
  ASSUME NEW S, NEW s \in Seq(S), NEW x \in S
  PROVE  /\ Append(s, x) \in Seq(S) /\ Len(Append(s, x)) = Len(s) + 1 /\ Len(s) \in Nat
         /\ DOMAIN s = 1..Len(s) /\ DOMAIN Append(s, x) = 1..(Len(s) + 1)
         /\ \A i \in 1..Len(s) : Append(s, x)[i] = s[i]
         /\ Append(s, x)[Len(s) + 1] = x
         /\ ToSet(Append(s, x)) = ToSet(s) \cup {x}
         /\ x \notin ToSet(s) /\ NoDuplicates(s) => NoDuplicates(Append(s, x))
<1>1. /\ Append(s, x) \in Seq(S) /\ Len(Append(s, x)) = Len(s) + 1 /\ Len(s) \in Nat
      /\ DOMAIN s = 1..Len(s) /\ DOMAIN Append(s, x) = 1..(Len(s) + 1)
      /\ \A i \in 1..Len(s) : Append(s, x)[i] = s[i]
      /\ Append(s, x)[Len(s) + 1] = x
  BY AppendProperties, LenProperties
<1>2. ToSet(Append(s, x)) = ToSet(s) \cup {x}
  BY <1>1 DEF ToSet
<1>3. ASSUME x \notin ToSet(s), NoDuplicates(s) PROVE NoDuplicates(Append(s, x))
  <2> DEFINE t == Append(s, x)
  <2>1. SUFFICES ASSUME NEW i \in 1..(Len(s) + 1), NEW j \in 1..(Len(s) + 1), t[i] = t[j]
                 PROVE  i = j
    BY <1>1 DEF NoDuplicates
  <2>2. \A k \in 1..Len(s) : t[k] = s[k] /\ t[k] \in ToSet(s)
    BY <1>1 DEF ToSet
  <2>3. t[Len(s) + 1] = x
    BY <1>1
  <2> HIDE DEF t
  <2> QED BY <1>1, <1>3, <2>1, <2>2, <2>3 DEF NoDuplicates
<1> QED BY <1>1, <1>2, <1>3

LEMMA TailFacts ==
  ASSUME NEW S, NEW s \in Seq(S), s # <<>>
  PROVE  /\ Tail(s) \in Seq(S) /\ Head(s) \in S /\ Len(Tail(s)) = Len(s) - 1 /\ Len(s) \in Nat \ {0}
         /\ DOMAIN s = 1..Len(s) /\ DOMAIN Tail(s) = 1..(Len(s) - 1)
         /\ \A i \in 1..(Len(s) - 1) : Tail(s)[i] = s[i + 1]
         /\ Head(s) = s[1]
         /\ ToSet(s) = ToSet(Tail(s)) \cup {Head(s)}
         /\ NoDuplicates(s) => Head(s) \notin ToSet(Tail(s)) /\ NoDuplicates(Tail(s))
<1>1. /\ Tail(s) \in Seq(S) /\ Head(s) \in S /\ Len(Tail(s)) = Len(s) - 1 /\ Len(s) \in Nat \ {0}
      /\ DOMAIN s = 1..Len(s) /\ Head(s) = s[1]
      /\ \A i \in 1..(Len(s) - 1) : Tail(s)[i] = s[i + 1]
  BY HeadTailProperties, LenProperties, EmptySeq
<1>2. DOMAIN Tail(s) = 1..(Len(s) - 1)
  BY <1>1, LenProperties
<1>3. ToSet(s) = ToSet(Tail(s)) \cup {Head(s)}
  <2>1. \A i \in 1..Len(s) : i = 1 \/ (i - 1 \in 1..(Len(s) - 1) /\ i = (i - 1) + 1)
    BY <1>1
  <2>2. \A i \in 1..(Len(s) - 1) : i + 1 \in 1..Len(s) /\ 1 \in 1..Len(s)
    BY <1>1
  <2>3. ToSet(s) \subseteq ToSet(Tail(s)) \cup {Head(s)}
    <3>1. SUFFICES ASSUME NEW i \in 1..Len(s), i # 1 PROVE s[i] \in ToSet(Tail(s))
      BY <1>1 DEF ToSet
    <3>2. i - 1 \in 1..(Len(s) - 1) /\ i = (i - 1) + 1
      BY <2>1, <3>1
    <3>3. Tail(s)[i - 1] = s[(i - 1) + 1]
      BY <1>1, <3>2
    <3> QED BY <1>2, <3>2, <3>3 DEF ToSet
  <2>4. 1 \in 1..Len(s)
    BY <1>1
  <2>5. ToSet(Tail(s)) \cup {Head(s)} \subseteq ToSet(s)
    BY <1>1, <1>2, <2>2, <2>4 DEF ToSet
  <2> QED BY <2>3, <2>5
<1>4. ASSUME NoDuplicates(s) PROVE Head(s) \notin ToSet(Tail(s)) /\ NoDuplicates(Tail(s))
  <2>1. \A i \in 1..(Len(s) - 1) : i + 1 \in 1..Len(s) /\ i + 1 # 1 /\ 1 \in 1..Len(s)
    BY <1>1
  <2>2. \A i, j \in 1..(Len(s) - 1) : i + 1 = j + 1 => i = j
    BY <1>1
  <2>3. Head(s) \notin ToSet(Tail(s))
    BY <1>1, <1>2, <1>4, <2>1 DEF NoDuplicates, ToSet
  <2>4. NoDuplicates(Tail(s))
    BY <1>1, <1>2, <1>4, <2>1, <2>2 DEF NoDuplicates
  <2> QED BY <2>3, <2>4
<1> QED BY <1>1, <1>2, <1>3, <1>4

-----------------------------------------------------------------------------
(* What the steps do to a connection. *)

(* Connection c changes to what the parameters say, and no other does. *)
Becomes(c, handler, dialog, open, closed, reader, writer, writing) ==
  /\ conn' \in [Conns -> Connection]
  /\ conn'[c].handler = handler /\ conn'[c].dialog = dialog
  /\ conn'[c].open <=> open
  /\ conn'[c].closed <=> closed
  /\ conn'[c].reader = reader /\ conn'[c].writer = writer /\ conn'[c].writing = writing
  /\ \A b \in Conns \ {c} : conn'[b] = conn[b]

(* The record k is what the parameters say. *)
Reads(k, handler, dialog, open, closed, reader, writer, writing) ==
  /\ k \in Connection
  /\ k.handler = handler /\ k.dialog = dialog
  /\ k.open <=> open
  /\ k.closed <=> closed
  /\ k.reader = reader /\ k.writer = writer /\ k.writing = writing

LEMMA BecomesWhatReads ==
  ASSUME HubTypeOK, NEW c \in Conns, NEW k, conn' = [conn EXCEPT ![c] = k],
         NEW h, NEW d, NEW o, NEW cl, NEW rd, NEW wr, NEW wg, Reads(k, h, d, o, cl, rd, wr, wg)
  PROVE  Becomes(c, h, d, o, cl, rd, wr, wg)
BY DEF Becomes, Reads, HubTypeOK

LEMMA AcceptEffect ==
  ASSUME HubTypeOK, NEW c \in Conns, Accept(c)
  PROVE  Becomes(c, "hello", conn[c].dialog, TRUE, conn[c].closed,
                 conn[c].reader, conn[c].writer, conn[c].writing)
<1>1. PICK k : k = [conn[c] EXCEPT !.handler = "hello", !.open = TRUE]
  OBVIOUS
<1>2. conn[c] \in Connection /\ conn' = [conn EXCEPT ![c] = k]
  BY <1>1 DEF Accept, HubTypeOK
<1>3. Reads(k, "hello", conn[c].dialog, TRUE, conn[c].closed,
               conn[c].reader, conn[c].writer, conn[c].writing)
  BY <1>1, <1>2 DEF Reads, Connection, PumpState
<1> QED BY <1>2, <1>3, BecomesWhatReads

LEMMA HelloFailsEffect ==
  ASSUME HubTypeOK, NEW c \in Conns, HelloFails(c)
  PROVE  Becomes(c, "gone", conn[c].dialog, FALSE, conn[c].closed,
                 conn[c].reader, conn[c].writer, conn[c].writing)
<1>1. PICK k : k = [conn[c] EXCEPT !.handler = "gone", !.open = FALSE]
  OBVIOUS
<1>2. conn[c] \in Connection /\ conn' = [conn EXCEPT ![c] = k]
  BY <1>1 DEF HelloFails, HubTypeOK
<1>3. Reads(k, "gone", conn[c].dialog, FALSE, conn[c].closed,
               conn[c].reader, conn[c].writer, conn[c].writing)
  BY <1>1, <1>2 DEF Reads, Connection, PumpState
<1> QED BY <1>2, <1>3, BecomesWhatReads

LEMMA SubscribeEffect ==
  ASSUME HubTypeOK, NEW c \in Conns, NEW d \in Dialogs, Subscribe(c, d)
  PROVE  Becomes(c, "serving", d, conn[c].open, conn[c].closed,
                 "on", "on", conn[c].writing)
<1>1. PICK k : k = [conn[c] EXCEPT !.handler = "serving", !.dialog = d, !.reader = "on", !.writer = "on"]
  OBVIOUS
<1>2. conn[c] \in Connection /\ conn' = [conn EXCEPT ![c] = k]
  BY <1>1 DEF Subscribe, HubTypeOK
<1>3. Reads(k, "serving", d, conn[c].open, conn[c].closed,
               "on", "on", conn[c].writing)
  BY <1>1, <1>2 DEF Reads, Connection, PumpState
<1> QED BY <1>2, <1>3, BecomesWhatReads

LEMMA ReadFailsEffect ==
  ASSUME HubTypeOK, NEW c \in Conns, ReadFails(c)
  PROVE  Becomes(c, conn[c].handler, conn[c].dialog, FALSE, conn[c].closed,
                 "close", conn[c].writer, conn[c].writing)
<1>1. PICK k : k = [conn[c] EXCEPT !.reader = "close", !.open = FALSE]
  OBVIOUS
<1>2. conn[c] \in Connection /\ conn' = [conn EXCEPT ![c] = k]
  BY <1>1 DEF ReadFails, HubTypeOK
<1>3. Reads(k, conn[c].handler, conn[c].dialog, FALSE, conn[c].closed,
               "close", conn[c].writer, conn[c].writing)
  BY <1>1, <1>2 DEF Reads, Connection, PumpState
<1> QED BY <1>2, <1>3, BecomesWhatReads

LEMMA TakeEventEffect ==
  ASSUME HubTypeOK, NEW c \in Conns, TakeEvent(c)
  PROVE  Becomes(c, conn[c].handler, conn[c].dialog, conn[c].open, conn[c].closed,
                 conn[c].reader, conn[c].writer, Head(send[c]))
<1>1. PICK k : k = [conn[c] EXCEPT !.writing = Head(send[c])]
  OBVIOUS
<1>2. conn[c] \in Connection /\ conn' = [conn EXCEPT ![c] = k] /\ Head(send[c]) \in Events
  BY <1>1, TailFacts DEF TakeEvent, HubTypeOK
<1>3. Reads(k, conn[c].handler, conn[c].dialog, conn[c].open, conn[c].closed,
               conn[c].reader, conn[c].writer, Head(send[c]))
  BY <1>1, <1>2 DEF Reads, Connection, PumpState
<1> QED BY <1>2, <1>3, BecomesWhatReads

LEMMA WriteEffect ==
  ASSUME HubTypeOK, NEW c \in Conns, Write(c)
  PROVE  Becomes(c, conn[c].handler, conn[c].dialog, conn[c].open, conn[c].closed,
                 conn[c].reader, conn[c].writer, Missing)
<1>1. PICK k : k = [conn[c] EXCEPT !.writing = Missing]
  OBVIOUS
<1>2. conn[c] \in Connection /\ conn' = [conn EXCEPT ![c] = k]
  BY <1>1 DEF Write, HubTypeOK
<1>3. Reads(k, conn[c].handler, conn[c].dialog, conn[c].open, conn[c].closed,
               conn[c].reader, conn[c].writer, Missing)
  BY <1>1, <1>2 DEF Reads, Connection, PumpState
<1> QED BY <1>2, <1>3, BecomesWhatReads

LEMMA WriteFailsEffect ==
  ASSUME HubTypeOK, NEW c \in Conns, WriteFails(c)
  PROVE  Becomes(c, conn[c].handler, conn[c].dialog, FALSE, conn[c].closed,
                 conn[c].reader, "close", Missing)
<1>1. PICK k : k = [conn[c] EXCEPT !.writing = Missing, !.open = FALSE, !.writer = "close"]
  OBVIOUS
<1>2. conn[c] \in Connection /\ conn' = [conn EXCEPT ![c] = k]
  BY <1>1 DEF WriteFails, HubTypeOK
<1>3. Reads(k, conn[c].handler, conn[c].dialog, FALSE, conn[c].closed,
               conn[c].reader, "close", Missing)
  BY <1>1, <1>2 DEF Reads, Connection, PumpState
<1> QED BY <1>2, <1>3, BecomesWhatReads

LEMMA ReaderTestsEffect ==
  ASSUME HubTypeOK, NEW c \in Conns, ReaderCloses(c), conn[c].reader = "close"
  PROVE  Becomes(c, conn[c].handler, conn[c].dialog, (conn[c].open /\ conn[c].closed), conn[c].closed,
                 AfterTest(c), conn[c].writer, conn[c].writing)
<1>1. PICK k : k = [conn[c] EXCEPT !.reader = AfterTest(c), !.open = @ /\ conn[c].closed]
  OBVIOUS
<1>2. conn[c] \in Connection /\ conn' = [conn EXCEPT ![c] = k]
  BY <1>1 DEF ReaderCloses, HubTypeOK
<1>3. Reads(k, conn[c].handler, conn[c].dialog, (conn[c].open /\ conn[c].closed), conn[c].closed,
               AfterTest(c), conn[c].writer, conn[c].writing)
  BY <1>1, <1>2 DEF Reads, Connection, PumpState, AfterTest
<1> QED BY <1>2, <1>3, BecomesWhatReads

LEMMA ReaderStoresEffect ==
  ASSUME HubTypeOK, NEW c \in Conns, ReaderCloses(c), conn[c].reader = "store"
  PROVE  Becomes(c, conn[c].handler, conn[c].dialog, conn[c].open, TRUE,
                 "off", conn[c].writer, conn[c].writing)
<1>1. PICK k : k = [conn[c] EXCEPT !.reader = "off", !.closed = TRUE]
  OBVIOUS
<1>2. conn[c] \in Connection /\ conn' = [conn EXCEPT ![c] = k]
  BY <1>1 DEF ReaderCloses, HubTypeOK
<1>3. Reads(k, conn[c].handler, conn[c].dialog, conn[c].open, TRUE,
               "off", conn[c].writer, conn[c].writing)
  BY <1>1, <1>2 DEF Reads, Connection, PumpState
<1> QED BY <1>2, <1>3, BecomesWhatReads

LEMMA WriterTestsEffect ==
  ASSUME HubTypeOK, NEW c \in Conns, WriterCloses(c), conn[c].writer = "close"
  PROVE  Becomes(c, conn[c].handler, conn[c].dialog, (conn[c].open /\ conn[c].closed), conn[c].closed,
                 conn[c].reader, AfterTest(c), conn[c].writing)
<1>1. PICK k : k = [conn[c] EXCEPT !.writer = AfterTest(c), !.open = @ /\ conn[c].closed]
  OBVIOUS
<1>2. conn[c] \in Connection /\ conn' = [conn EXCEPT ![c] = k]
  BY <1>1 DEF WriterCloses, HubTypeOK
<1>3. Reads(k, conn[c].handler, conn[c].dialog, (conn[c].open /\ conn[c].closed), conn[c].closed,
               conn[c].reader, AfterTest(c), conn[c].writing)
  BY <1>1, <1>2 DEF Reads, Connection, PumpState, AfterTest
<1> QED BY <1>2, <1>3, BecomesWhatReads

LEMMA WriterStoresEffect ==
  ASSUME HubTypeOK, NEW c \in Conns, WriterCloses(c), conn[c].writer = "store"
  PROVE  Becomes(c, conn[c].handler, conn[c].dialog, conn[c].open, TRUE,
                 conn[c].reader, "off", conn[c].writing)
<1>1. PICK k : k = [conn[c] EXCEPT !.writer = "off", !.closed = TRUE]
  OBVIOUS
<1>2. conn[c] \in Connection /\ conn' = [conn EXCEPT ![c] = k]
  BY <1>1 DEF WriterCloses, HubTypeOK
<1>3. Reads(k, conn[c].handler, conn[c].dialog, conn[c].open, TRUE,
               conn[c].reader, "off", conn[c].writing)
  BY <1>1, <1>2 DEF Reads, Connection, PumpState
<1> QED BY <1>2, <1>3, BecomesWhatReads

LEMMA CloseAllClientEffect ==
  ASSUME HubTypeOK, NEW c \in Conns, CloseAllClient(c)
  PROVE  Becomes(c, conn[c].handler, conn[c].dialog, (conn[c].open /\ conn[c].closed), conn[c].closed,
                 conn[c].reader, conn[c].writer, conn[c].writing)
<1>1. PICK k : k = [conn[c] EXCEPT !.open = @ /\ conn[c].closed]
  OBVIOUS
<1>2. conn[c] \in Connection /\ conn' = [conn EXCEPT ![c] = k]
  BY <1>1 DEF CloseAllClient, HubTypeOK
<1>3. Reads(k, conn[c].handler, conn[c].dialog, (conn[c].open /\ conn[c].closed), conn[c].closed,
               conn[c].reader, conn[c].writer, conn[c].writing)
  BY <1>1, <1>2 DEF Reads, Connection, PumpState
<1> QED BY <1>2, <1>3, BecomesWhatReads

LEMMA CloseAllStoresEffect ==
  ASSUME HubTypeOK, NEW c \in Conns, c = main.client, CloseAllStores
  PROVE  Becomes(c, conn[c].handler, conn[c].dialog, conn[c].open, TRUE,
                 conn[c].reader, conn[c].writer, conn[c].writing)
<1>1. PICK k : k = [conn[c] EXCEPT !.closed = TRUE]
  OBVIOUS
<1>2. conn[c] \in Connection /\ conn' = [conn EXCEPT ![c] = k]
  BY <1>1 DEF CloseAllStores, HubTypeOK
<1>3. Reads(k, conn[c].handler, conn[c].dialog, conn[c].open, TRUE,
               conn[c].reader, conn[c].writer, conn[c].writing)
  BY <1>1, <1>2 DEF Reads, Connection, PumpState
<1> QED BY <1>2, <1>3, BecomesWhatReads

-----------------------------------------------------------------------------
(* Type correctness. *)

LEMMA HubTypeInit == Init => HubTypeOK
<1> SUFFICES ASSUME Init PROVE HubTypeOK
  OBVIOUS
<1>1. conn \in [Conns -> Connection]
  BY DEF Init, Connection, PumpState
<1>2. cast \in [Events -> Broadcaster] /\ main \in Main /\ subs \in [Dialogs -> SUBSET Conns]
  BY DEF Init, Broadcaster, Main
<1>3. send \in [Conns -> Seq(Events)] /\ got \in [Conns -> Seq(Events)]
      /\ \A c \in Conns : Len(send[c]) <= SendCap
  BY EmptyFacts, HubAssumption DEF Init
<1> QED BY <1>1, <1>2, <1>3 DEF HubTypeOK

LEMMA HandlerType ==
  ASSUME HubTypeOK, NEW c \in Conns, Handler(c)
  PROVE  HubTypeOK'
<1>1. ASSUME NEW d \in Dialogs, Subscribe(c, d) PROVE HubTypeOK'
  <2>1. conn' \in [Conns -> Connection]
    BY <1>1, SubscribeEffect DEF Becomes
  <2>2. subs' \in [Dialogs -> SUBSET Conns]
    BY <1>1 DEF Subscribe, HubTypeOK
  <2> QED BY <1>1, <2>1, <2>2 DEF Subscribe, HubTypeOK
<1>2. CASE Accept(c) \/ HelloFails(c)
  <2>1. conn' \in [Conns -> Connection]
    BY <1>2, AcceptEffect, HelloFailsEffect DEF Becomes
  <2> QED BY <1>2, <2>1 DEF Accept, HelloFails, HubTypeOK
<1> QED BY <1>1, <1>2 DEF Handler

(* A pump that closes its client is in one of two steps. *)
LEMMA ReaderClosesEffect ==
  ASSUME HubTypeOK, NEW c \in Conns, ReaderCloses(c)
  PROVE  \/ /\ conn[c].reader = "close"
            /\ Becomes(c, conn[c].handler, conn[c].dialog, (conn[c].open /\ conn[c].closed), conn[c].closed,
                       AfterTest(c), conn[c].writer, conn[c].writing)
         \/ /\ conn[c].reader = "store"
            /\ Becomes(c, conn[c].handler, conn[c].dialog, conn[c].open, TRUE,
                       "off", conn[c].writer, conn[c].writing)
<1>1. conn[c].reader \in {"close", "store"}
  BY DEF ReaderCloses
<1> QED BY <1>1, ReaderTestsEffect, ReaderStoresEffect

LEMMA WriterClosesEffect ==
  ASSUME HubTypeOK, NEW c \in Conns, WriterCloses(c)
  PROVE  \/ /\ conn[c].writer = "close"
            /\ Becomes(c, conn[c].handler, conn[c].dialog, (conn[c].open /\ conn[c].closed), conn[c].closed,
                       conn[c].reader, AfterTest(c), conn[c].writing)
         \/ /\ conn[c].writer = "store"
            /\ Becomes(c, conn[c].handler, conn[c].dialog, conn[c].open, TRUE,
                       conn[c].reader, "off", conn[c].writing)
<1>1. conn[c].writer \in {"close", "store"}
  BY DEF WriterCloses
<1> QED BY <1>1, WriterTestsEffect, WriterStoresEffect

LEMMA PumpsType ==
  ASSUME HubTypeOK, NEW c \in Conns, Reader(c) \/ Writer(c)
  PROVE  HubTypeOK'
<1>1. CASE ReadFails(c) \/ ReaderCloses(c) \/ WriteFails(c) \/ WriterCloses(c)
  <2>1. conn' \in [Conns -> Connection]
    BY <1>1, ReadFailsEffect, ReaderClosesEffect, WriteFailsEffect, 
       WriterClosesEffect DEF Becomes
  <2>2. UNCHANGED <<send, got, subs, cast, main>>
    BY <1>1 DEF ReadFails, ReaderCloses, WriteFails, WriterCloses
  <2> QED BY <2>1, <2>2 DEF HubTypeOK
<1>2. CASE TakeEvent(c)
  <2>1. /\ Tail(send[c]) \in Seq(Events) /\ Len(Tail(send[c])) = Len(send[c]) - 1
        /\ Len(send[c]) \in Nat /\ Len(send[c]) <= SendCap
    BY <1>2, TailFacts DEF TakeEvent, HubTypeOK
  <2>2. conn' \in [Conns -> Connection]
    BY <1>2, TakeEventEffect DEF Becomes
  <2>3. send' \in [Conns -> Seq(Events)] /\ \A b \in Conns : Len(send'[b]) <= SendCap
    BY <1>2, <2>1, HubAssumption DEF TakeEvent, HubTypeOK
  <2> QED BY <1>2, <2>2, <2>3 DEF TakeEvent, HubTypeOK
<1>3. CASE Write(c)
  <2>1. conn[c] \in Connection /\ conn[c].writing \in Events
    BY <1>3 DEF Write, HubTypeOK, Connection
  <2>2. Append(got[c], conn[c].writing) \in Seq(Events)
    BY <2>1, AppendFacts DEF HubTypeOK
  <2>3. conn' \in [Conns -> Connection]
    BY <1>3, WriteEffect DEF Becomes
  <2> QED BY <1>3, <2>2, <2>3 DEF Write, HubTypeOK
<1> QED BY <1>1, <1>2, <1>3 DEF Reader, Writer

(* What the steps of a broadcast do to its broadcaster. *)
LEMMA LeftShrinks ==
  ASSUME NEW b \in Broadcaster, NEW c \in Conns, NEW k, k = [b EXCEPT !.left = @ \ {c}]
  PROVE  k \in Broadcaster /\ k.pc = b.pc /\ k.left = b.left \ {c} /\ k.after = b.after
BY DEF Broadcaster

LEMMA BroadcastOver ==
  ASSUME NEW b \in Broadcaster, NEW k, k = [b EXCEPT !.pc = "done"]
  PROVE  k \in Broadcaster /\ k.pc = "done" /\ k.left = b.left /\ k.after = b.after
BY DEF Broadcaster

LEMMA TrySendEffect ==
  ASSUME HubTypeOK, NEW e \in Events, NEW c \in Conns, TrySend(e, c)
  PROVE  /\ cast' \in [Events -> Broadcaster]
         /\ cast'[e].pc = "send" /\ cast'[e].left = cast[e].left \ {c} /\ cast'[e].after = cast[e].after
         /\ \A f \in Events \ {e} : cast'[f] = cast[f]
         /\ send' \in [Conns -> Seq(Events)]
         /\ \/ UNCHANGED send
            \/ /\ ~conn[c].closed /\ Len(send[c]) < SendCap /\ send'[c] = Append(send[c], e)
               /\ \A b \in Conns \ {c} : send'[b] = send[b]
<1>1. PICK k : k = [cast[e] EXCEPT !.left = @ \ {c}]
  OBVIOUS
<1>2. cast[e] \in Broadcaster /\ cast \in [Events -> Broadcaster]
  BY DEF HubTypeOK
<1>3. k \in Broadcaster /\ k.pc = "send" /\ k.left = cast[e].left \ {c} /\ k.after = cast[e].after
  BY <1>1, <1>2, LeftShrinks DEF TrySend
<1>4. cast' = [cast EXCEPT ![e] = k]
  BY <1>1 DEF TrySend
<1>5. /\ cast' \in [Events -> Broadcaster]
      /\ cast'[e] = k /\ \A f \in Events \ {e} : cast'[f] = cast[f]
  BY <1>2, <1>3, <1>4
<1>6. /\ send \in [Conns -> Seq(Events)] /\ Len(send[c]) <= SendCap /\ Len(send[c]) \in Nat
      /\ Append(send[c], e) \in Seq(Events)
  BY AppendFacts DEF HubTypeOK
<1>7. CASE conn[c].closed \/ Len(send[c]) = SendCap
  <2>1. send' = [send EXCEPT ![c] = send[c]]
    BY <1>7 DEF TrySend
  <2> QED BY <1>3, <1>5, <1>6, <2>1
<1>8. CASE ~(conn[c].closed \/ Len(send[c]) = SendCap)
  <2>1. send' = [send EXCEPT ![c] = Append(send[c], e)]
    BY <1>8 DEF TrySend
  <2> QED BY <1>3, <1>5, <1>6, <1>8, <2>1, HubAssumption
<1> QED BY <1>7, <1>8

LEMMA SentEffect ==
  ASSUME HubTypeOK, NEW e \in Events, Sent(e)
  PROVE  /\ cast' \in [Events -> Broadcaster]
         /\ cast'[e].pc = "done" /\ cast'[e].left = {} /\ cast'[e].after = cast[e].after
         /\ \A f \in Events \ {e} : cast'[f] = cast[f]
<1>1. PICK k : k = [cast[e] EXCEPT !.pc = "done"]
  OBVIOUS
<1>2. cast[e] \in Broadcaster /\ cast \in [Events -> Broadcaster]
  BY DEF HubTypeOK
<1>3. k \in Broadcaster /\ k.pc = "done" /\ k.left = {} /\ k.after = cast[e].after
  BY <1>1, <1>2, BroadcastOver DEF Sent
<1>4. cast' = [cast EXCEPT ![e] = k]
  BY <1>1 DEF Sent
<1> QED BY <1>2, <1>3, <1>4

LEMMA SnapshotEffect ==
  ASSUME HubTypeOK, NEW e \in Events, Snapshot(e)
  PROVE  /\ cast' \in [Events -> Broadcaster]
         /\ cast'[e].pc = "send" /\ cast'[e].left = subs[DialogOf[e]] /\ cast'[e].after = Over
         /\ \A f \in Events \ {e} : cast'[f] = cast[f]
<1>1. PICK k : k = [pc |-> "send", left |-> subs[DialogOf[e]], after |-> Over]
  OBVIOUS
<1>2. cast \in [Events -> Broadcaster] /\ subs[DialogOf[e]] \in SUBSET Conns /\ Over \in SUBSET Events
  BY HubAssumption DEF HubTypeOK, Over
<1>3. k \in Broadcaster /\ k.pc = "send" /\ k.left = subs[DialogOf[e]] /\ k.after = Over
  BY <1>1, <1>2 DEF Broadcaster
<1>4. cast' = [cast EXCEPT ![e] = k]
  BY <1>1 DEF Snapshot
<1> QED BY <1>2, <1>3, <1>4

LEMMA BroadcastType ==
  ASSUME HubTypeOK, NEW e \in Events, Broadcast(e)
  PROVE  HubTypeOK'
<1>1. CASE Snapshot(e)
  BY <1>1, SnapshotEffect DEF Snapshot, HubTypeOK
<1>2. ASSUME NEW c \in Conns, TrySend(e, c) PROVE HubTypeOK'
  <2>1. \A b \in Conns : Len(send'[b]) <= SendCap
    <3>1. Len(Append(send[c], e)) = Len(send[c]) + 1 /\ Len(send[c]) \in Nat
      BY AppendFacts DEF HubTypeOK
    <3>2. \/ UNCHANGED send
          \/ /\ Len(send[c]) < SendCap /\ send'[c] = Append(send[c], e)
             /\ \A b \in Conns \ {c} : send'[b] = send[b]
      BY <1>2, TrySendEffect
    <3>3. \A b \in Conns : Len(send[b]) <= SendCap
      BY DEF HubTypeOK
    <3>4. Len(send[c]) + 1 <= SendCap \/ UNCHANGED send
      BY <3>1, <3>2, HubAssumption
    <3> QED BY <3>1, <3>2, <3>3, <3>4
  <2> QED BY <1>2, <2>1, TrySendEffect DEF TrySend, HubTypeOK
<1>3. CASE Sent(e)
  BY <1>3, SentEffect DEF Sent, HubTypeOK
<1> QED BY <1>1, <1>2, <1>3 DEF Broadcast

LEMMA ShutdownType ==
  ASSUME HubTypeOK, Shutdown
  PROVE  HubTypeOK'
<1>1. CASE CloseAll
  <2>1. Subscribed \subseteq Conns
    BY DEF Subscribed, HubTypeOK
  <2>2. main' \in Main
    BY <1>1, <2>1 DEF CloseAll, HubTypeOK, Main
  <2> QED BY <1>1, <2>2 DEF CloseAll, HubTypeOK
<1>2. ASSUME NEW c \in Conns, CloseAllClient(c) PROVE HubTypeOK'
  <2>1. conn' \in [Conns -> Connection]
    BY <1>2, CloseAllClientEffect DEF Becomes
  <2>2. main' \in Main
    BY <1>2 DEF CloseAllClient, HubTypeOK, Main
  <2> QED BY <1>2, <2>1, <2>2 DEF CloseAllClient, HubTypeOK
<1>3. CASE CloseAllStores
  <2>1. main.client \in Conns
    BY <1>3 DEF CloseAllStores, HubTypeOK, Main
  <2>2. conn' \in [Conns -> Connection]
    BY <1>3, <2>1, CloseAllStoresEffect DEF Becomes
  <2>3. main' \in Main
    BY <1>3 DEF CloseAllStores, HubTypeOK, Main
  <2> QED BY <1>3, <2>2, <2>3 DEF CloseAllStores, HubTypeOK
<1>4. CASE CloseAllReturns
  <2>1. main' \in Main
    BY <1>4 DEF CloseAllReturns, HubTypeOK, Main
  <2>2. subs' \in [Dialogs -> SUBSET Conns]
    BY <1>4 DEF CloseAllReturns
  <2> QED BY <1>4, <2>1, <2>2 DEF CloseAllReturns, HubTypeOK
<1> QED BY <1>1, <1>2, <1>3, <1>4 DEF Shutdown

LEMMA HubTypeNext == HubTypeOK /\ [Next]_vars => HubTypeOK'
<1> SUFFICES ASSUME HubTypeOK, [Next]_vars PROVE HubTypeOK'
  OBVIOUS
<1>1. CASE UNCHANGED vars
  BY <1>1 DEF vars, HubTypeOK
<1> QED BY <1>1, HandlerType, PumpsType, BroadcastType, ShutdownType DEF Next, Quiet

(* HubTypeCorrect: the hub's variables keep their types; in particular no  *)
(* buffer ever holds more than its capacity.                               *)
THEOREM HubTypeCorrect == Spec => []HubTypeOK
BY HubTypeInit, HubTypeNext, PTL DEF Spec


-----------------------------------------------------------------------------
(* The life of a connection. *)

(* Before its hello nothing but the handler knows of the connection. *)
Untouched(c) ==
  conn[c].handler \in {"none", "hello"} =>
    /\ conn[c].dialog = Missing /\ conn[c].writing = Missing
    /\ conn[c].reader = "off" /\ conn[c].writer = "off"
    /\ ~conn[c].closed /\ (conn[c].open <=> conn[c].handler = "hello")
    /\ c \notin main.left /\ main.client # c

(* Whoever sets the closed flag, or is about to, has shut the socket. *)
ShutBeforeFlag(c) ==
  conn[c].closed \/ conn[c].reader = "store" \/ conn[c].writer = "store" \/ main.client = c
    => ~conn[c].open

InTheMap(c) ==
  \A d \in Dialogs : c \in subs[d] => conn[c].handler = "serving" /\ conn[c].dialog = d

(* A served connection is in the map; once CloseAll has begun, those with  *)
(* an open socket are the clients that it has left, and later the clients  *)
(* that came after it.                                                     *)
KnownToHub(c) ==
  conn[c].handler = "serving" =>
    /\ main.pc = "running" => c \in Subscribed
    /\ main.pc = "closing" /\ conn[c].open => c \in main.left
    /\ main.pc = "closed" /\ conn[c].open => c \in Subscribed

Life(c) == Untouched(c) /\ ShutBeforeFlag(c) /\ InTheMap(c) /\ KnownToHub(c)

LifeInv == \A c \in Conns : Life(c)

(* A step that does not concern connection b. *)
Apart(b) ==
  /\ conn'[b] = conn[b]
  /\ main'.pc = main.pc
  /\ b \in main'.left <=> b \in main.left
  /\ main'.client = b <=> main.client = b
  /\ \A d \in Dialogs : b \in subs'[d] <=> b \in subs[d]

LEMMA ApartLives ==
  ASSUME NEW b \in Conns, Life(b), Apart(b)
  PROVE  Life(b)'
<1>1. b \in Subscribed <=> \E d \in Dialogs : b \in subs[d]
  BY DEF Subscribed
<1>2. b \in Subscribed' <=> \E d \in Dialogs : b \in subs'[d]
  BY DEF Subscribed
<1>3. b \in Subscribed' <=> b \in Subscribed
  BY <1>1, <1>2 DEF Apart
<1> QED BY <1>3 DEF Apart, Life, Untouched, ShutBeforeFlag, InTheMap, KnownToHub

(* Steps of one connection that leave the map and main alone. *)
LEMMA OneConnection ==
  ASSUME LifeInv, NEW c \in Conns, UNCHANGED <<subs, main>>,
         \A b \in Conns \ {c} : conn'[b] = conn[b], Life(c)'
  PROVE  LifeInv'
<1>1. \A b \in Conns \ {c} : Apart(b)
  BY DEF Apart
<1> QED BY <1>1, ApartLives DEF LifeInv

LEMMA HandlerLives ==
  ASSUME HubTypeOK, LifeInv, NEW c \in Conns, Handler(c)
  PROVE  LifeInv'
<1> USE DEF Life, Untouched, ShutBeforeFlag, InTheMap, KnownToHub
<1>1. Life(c)
  BY DEF LifeInv
<1>2. CASE Accept(c)
  <2>1. Life(c)'
    BY <1>1, <1>2, AcceptEffect DEF Accept, Becomes, Subscribed
  <2> QED BY <1>2, <2>1, AcceptEffect, OneConnection DEF Accept, Becomes
<1>3. CASE HelloFails(c)
  <2>1. Life(c)'
    BY <1>1, <1>3, HelloFailsEffect DEF HelloFails, Becomes, Subscribed
  <2> QED BY <1>3, <2>1, HelloFailsEffect, OneConnection DEF HelloFails, Becomes
<1>5. ASSUME NEW d \in Dialogs, Subscribe(c, d) PROVE LifeInv'
  <2>1. /\ UNCHANGED main /\ main.pc # "closing"
        /\ conn[c].handler = "hello"
        /\ subs' = [subs EXCEPT ![d] = @ \cup {c}]
    BY <1>5 DEF Subscribe, Unlocked
  <2>2. subs \in [Dialogs -> SUBSET Conns]
    BY DEF HubTypeOK
  <2>3. c \in subs'[d] /\ \A f \in Dialogs : c \in subs'[f] => f = d
    BY <1>1, <2>1, <2>2
  <2>4. c \in Subscribed'
    BY <2>3 DEF Subscribed
  <2>5. Life(c)'
    BY <1>1, <1>5, <2>1, <2>3, <2>4, SubscribeEffect DEF Becomes
  <2>6. \A b \in Conns \ {c} : Apart(b)
    BY <1>5, <2>1, <2>2, SubscribeEffect DEF Becomes, Apart
  <2> QED BY <2>5, <2>6, ApartLives DEF LifeInv
<1> QED BY <1>2, <1>3, <1>5 DEF Handler

LEMMA PumpsLive ==
  ASSUME HubTypeOK, LifeInv, NEW c \in Conns, Reader(c) \/ Writer(c)
  PROVE  LifeInv'
<1> USE DEF Life, Untouched, ShutBeforeFlag, InTheMap, KnownToHub
<1>1. Life(c)
  BY DEF LifeInv
<1>2. UNCHANGED <<subs, main>> /\ UNCHANGED Subscribed
  BY DEF Reader, Writer, ReadFails, ReaderCloses, TakeEvent, Write, WriteFails, 
         WriterCloses, Subscribed
<1>3. CASE ReadFails(c)
  <2>1. conn[c].reader = "on"
    BY <1>3 DEF ReadFails
  <2>2. Life(c)'
    BY <1>1, <1>2, <1>3, <2>1, ReadFailsEffect DEF Becomes
  <2> QED BY <1>2, <1>3, <2>2, ReadFailsEffect, OneConnection DEF Becomes
<1>4. CASE ReaderCloses(c)
  BY <1>1, <1>2, <1>4, ReaderClosesEffect, OneConnection DEF Becomes, AfterTest
<1>5. CASE TakeEvent(c)
  BY <1>1, <1>2, <1>5, TakeEventEffect, OneConnection DEF TakeEvent, Becomes
<1>6. CASE Write(c)
  BY <1>1, <1>2, <1>6, WriteEffect, OneConnection DEF Write, Becomes
<1>7. CASE WriteFails(c)
  <2>1. conn[c].writing # Missing
    BY <1>7 DEF WriteFails
  <2>2. Life(c)'
    BY <1>1, <1>2, <1>7, <2>1, WriteFailsEffect DEF Becomes
  <2> QED BY <1>2, <1>7, <2>2, WriteFailsEffect, OneConnection DEF Becomes
<1>9. CASE WriterCloses(c)
  BY <1>1, <1>2, <1>9, WriterClosesEffect, OneConnection DEF Becomes, AfterTest
<1> QED BY <1>3, <1>4, <1>5, <1>6, <1>7, <1>9 DEF Reader, Writer

LEMMA ShutdownLives ==
  ASSUME HubTypeOK, LifeInv, Shutdown
  PROVE  LifeInv'
<1> USE DEF Life, Untouched, ShutBeforeFlag, InTheMap, KnownToHub
<1>1. main \in Main /\ subs \in [Dialogs -> SUBSET Conns] /\ Missing \notin Conns
  BY HubAssumption DEF HubTypeOK
<1>2. CASE CloseAll
  <2>1. /\ UNCHANGED <<conn, subs>> /\ UNCHANGED Subscribed
        /\ main.pc = "running" /\ main'.pc = "closing"
        /\ main'.left = Subscribed /\ main'.client = main.client
    BY <1>1, <1>2 DEF CloseAll, Main, Subscribed
  <2>2. SUFFICES ASSUME NEW c \in Conns PROVE Life(c)'
    BY DEF LifeInv
  <2>3. Life(c) /\ (c \in Subscribed <=> \E d \in Dialogs : c \in subs[d])
    BY DEF LifeInv, Subscribed
  <2> QED BY <2>1, <2>3
<1>3. ASSUME NEW c \in Conns, CloseAllClient(c) PROVE LifeInv'
  <2>1. /\ UNCHANGED subs /\ UNCHANGED Subscribed
        /\ main.pc = "closing" /\ main'.pc = "closing"
        /\ c \in main.left /\ main'.left = main.left \ {c}
        /\ main.client = Missing /\ main'.client \in {c, Missing}
    BY <1>1, <1>3 DEF CloseAllClient, Main, Subscribed
  <2>2. Life(c)
    BY DEF LifeInv
  <2>3. Life(c)'
    BY <1>1, <1>3, <2>1, <2>2, CloseAllClientEffect DEF Becomes
  <2>4. \A b \in Conns \ {c} : Apart(b)
    BY <1>1, <1>3, <2>1, CloseAllClientEffect DEF Becomes, Apart
  <2> QED BY <2>3, <2>4, ApartLives DEF LifeInv
<1>4. CASE CloseAllStores
  <2>1. PICK c \in Conns : c = main.client
    BY <1>1, <1>4 DEF CloseAllStores, Main
  <2>2. /\ UNCHANGED subs /\ UNCHANGED Subscribed
        /\ main'.pc = main.pc /\ main'.left = main.left /\ main'.client = Missing
    BY <1>1, <1>4 DEF CloseAllStores, Main, Subscribed
  <2>3. Life(c)
    BY DEF LifeInv
  <2>4. Life(c)'
    BY <1>1, <1>4, <2>1, <2>2, <2>3, CloseAllStoresEffect DEF Becomes
  <2>5. \A b \in Conns \ {c} : Apart(b)
    BY <1>1, <1>4, <2>1, <2>2, CloseAllStoresEffect DEF Becomes, Apart
  <2> QED BY <2>4, <2>5, ApartLives DEF LifeInv
<1>5. CASE CloseAllReturns
  <2>1. /\ UNCHANGED conn
        /\ main.pc = "closing" /\ main'.pc = "closed" /\ main.left = {}
        /\ main'.left = main.left /\ main'.client = main.client
        /\ \A d \in Dialogs : subs'[d] = {}
    BY <1>1, <1>5 DEF CloseAllReturns, Main
  <2>2. SUFFICES ASSUME NEW c \in Conns PROVE Life(c)'
    BY DEF LifeInv
  <2>3. Life(c)
    BY DEF LifeInv
  <2> QED BY <2>1, <2>3
<1> QED BY <1>2, <1>3, <1>4, <1>5 DEF Shutdown

LEMMA LifeInit == Init => LifeInv
<1> SUFFICES ASSUME Init, NEW c \in Conns PROVE Life(c)
  BY DEF LifeInv
<1>1. /\ conn[c].handler = "none" /\ conn[c].dialog = Missing /\ conn[c].writing = Missing
      /\ ~conn[c].open /\ ~conn[c].closed /\ conn[c].reader = "off" /\ conn[c].writer = "off"
  BY DEF Init
<1>2. main.left = {} /\ main.client = Missing /\ \A d \in Dialogs : subs[d] = {}
  BY DEF Init
<1>3. c # Missing
  BY HubAssumption
<1> QED BY <1>1, <1>2, <1>3 DEF Life, Untouched, ShutBeforeFlag, InTheMap, KnownToHub

LEMMA LifeNext == HubTypeOK /\ LifeInv /\ [Next]_vars => LifeInv'
<1> SUFFICES ASSUME HubTypeOK, LifeInv, [Next]_vars PROVE LifeInv'
  OBVIOUS
<1>1. ASSUME UNCHANGED <<conn, subs, main>> PROVE LifeInv'
  <2>1. \A c \in Conns : Apart(c)
    BY <1>1 DEF Apart
  <2> QED BY <2>1, ApartLives DEF LifeInv
<1>2. CASE UNCHANGED vars
  BY <1>1, <1>2 DEF vars
<1>3. ASSUME NEW e \in Events, Broadcast(e) PROVE LifeInv'
  BY <1>1, <1>3 DEF Broadcast, Snapshot, TrySend, Sent
<1> QED BY <1>2, <1>3, HandlerLives, PumpsLive, ShutdownLives DEF Next, Quiet

LEMMA LifeCorrect == Spec => []LifeInv
BY HubTypeCorrect, LifeInit, LifeNext, PTL DEF Spec

(* ShutBeforeFlagged: no client is flagged closed while its socket is      *)
(* open, whichever of its pumps and CloseAll close it, and in any order.   *)
THEOREM ShutBeforeFlagged == Spec => []ClosedMeansShut
<1>1. LifeInv => ClosedMeansShut
  BY DEF LifeInv, Life, ShutBeforeFlag, ClosedMeansShut
<1> QED BY <1>1, LifeCorrect, PTL

(* ShutdownMissesNobody: CloseAll leaves open only what subscribed later.  *)
THEOREM ShutdownMissesNobody == Spec => []ShutdownMissesNoSubscriber
<1>1. LifeInv => ShutdownMissesNoSubscriber
  BY DEF LifeInv, Life, KnownToHub, ShutdownMissesNoSubscriber
<1> QED BY <1>1, LifeCorrect, PTL


-----------------------------------------------------------------------------
(* Where the events of a connection are. *)

(* An event is in one place on its way to a connection: its broadcaster    *)
(* has the connection left, the event is buffered, is being written, or    *)
(* was written; and then the connection asked for the event's dialog.      *)
Placed(c, e) ==
  /\ c \in cast[e].left =>
       /\ cast[e].pc = "send" /\ e \notin ToSet(send[c])
       /\ conn[c].writing # e /\ e \notin ToSet(got[c])
  /\ e \in ToSet(send[c]) => conn[c].writing # e /\ e \notin ToSet(got[c])
  /\ conn[c].writing = e => e \notin ToSet(got[c])
  /\ DueTo(c, e) \/ e \in ToSet(got[c]) =>
       cast[e].pc # "new" /\ DialogOf[e] = conn[c].dialog

(* No event is behind one that was broadcast after it. *)
Ordered(s) == \A i, j \in DOMAIN s : i < j => s[j] \notin cast[s[i]].after

Queue(c) ==
  /\ NoDuplicates(send[c]) /\ NoDuplicates(got[c])
  /\ Ordered(send[c])
  /\ \A e \in Events : conn[c].writing = e => \A f \in ToSet(send[c]) : f \notin cast[e].after

History(e) ==
  \A f \in cast[e].after : cast[f].pc = "done" /\ f # e /\ cast[e].pc # "new"

EventsInv ==
  /\ \A c \in Conns, e \in Events : Placed(c, e)
  /\ \A c \in Conns : Queue(c)
  /\ \A e \in Events : History(e)

LEMMA EventsInit == Init => EventsInv
<1> SUFFICES ASSUME Init PROVE EventsInv
  OBVIOUS
<1>1. \A c \in Conns : send[c] = <<>> /\ got[c] = <<>> /\ conn[c].writing = Missing
  BY DEF Init
<1>2. \A e \in Events : cast[e].left = {} /\ cast[e].after = {} /\ e # Missing
  BY HubAssumption DEF Init
<1>3. \A e : e \notin ToSet(<<>>)
  BY EmptyFacts
<1>4. \A c \in Conns, e \in Events : Placed(c, e)
  BY <1>1, <1>2, <1>3 DEF Placed, DueTo
<1>5. NoDuplicates(<<>>) /\ Ordered(<<>>)
  BY EmptyFacts DEF NoDuplicates, Ordered
<1>6. \A c \in Conns : Queue(c)
  BY <1>1, <1>3, <1>5 DEF Queue
<1> QED BY <1>2, <1>4, <1>6 DEF EventsInv, History

(* Steps that move no event. *)
LEMMA EventsRest ==
  ASSUME EventsInv, UNCHANGED <<send, got, cast>>,
         \A c \in Conns : conn'[c].dialog = conn[c].dialog /\ conn'[c].writing = conn[c].writing
  PROVE  EventsInv'
<1>1. \A c \in Conns, e \in Events : Placed(c, e)'
  BY DEF EventsInv, Placed, DueTo
<1>2. \A c \in Conns : Queue(c)'
  BY DEF EventsInv, Queue, Ordered
<1> QED BY <1>1, <1>2 DEF EventsInv, History

LEMMA HandlerKeepsEvents ==
  ASSUME HubTypeOK, LifeInv, EventsInv, NEW c \in Conns, Handler(c)
  PROVE  EventsInv'
<1>1. CASE Accept(c) \/ HelloFails(c)
  <2>1. UNCHANGED <<send, got, cast>>
    BY <1>1 DEF Accept, HelloFails
  <2>2. \A b \in Conns : conn'[b].dialog = conn[b].dialog /\ conn'[b].writing = conn[b].writing
    BY <1>1, AcceptEffect, HelloFailsEffect DEF Becomes
  <2> QED BY <2>1, <2>2, EventsRest
<1>2. ASSUME NEW d \in Dialogs, Subscribe(c, d) PROVE EventsInv'
  <2>1. UNCHANGED <<send, got, cast>> /\ conn[c].dialog = Missing
    BY <1>2 DEF Subscribe, LifeInv, Life, Untouched
  <2>2. \A e \in Events : ~DueTo(c, e) /\ e \notin ToSet(got[c])
    BY <2>1, HubAssumption DEF EventsInv, Placed
  <2>3. /\ conn'[c].writing = conn[c].writing
        /\ \A b \in Conns \ {c} : conn'[b] = conn[b]
    BY <1>2, SubscribeEffect DEF Becomes
  <2>4. \A b \in Conns, e \in Events : Placed(b, e)'
    BY <2>1, <2>2, <2>3 DEF EventsInv, Placed, DueTo
  <2>5. \A b \in Conns : Queue(b)'
    BY <2>1, <2>3 DEF EventsInv, Queue, Ordered
  <2> QED BY <2>1, <2>4, <2>5 DEF EventsInv, History
<1> QED BY <1>1, <1>2 DEF Handler

LEMMA TakeEventKeepsEvents ==
  ASSUME HubTypeOK, EventsInv, NEW c \in Conns, TakeEvent(c)
  PROVE  EventsInv'
<1> DEFINE s == send[c]
           h == Head(s)
<1>1. s \in Seq(Events) /\ s # <<>> /\ send \in [Conns -> Seq(Events)] /\ UNCHANGED <<got, cast>>
      /\ send' = [send EXCEPT ![c] = Tail(s)]
  BY DEF TakeEvent, HubTypeOK
<1>2. send'[c] = Tail(s) /\ \A b \in Conns \ {c} : send'[b] = send[b]
  BY <1>1
<1>3. /\ conn'[c].writing = h /\ conn'[c].dialog = conn[c].dialog
      /\ \A b \in Conns \ {c} : conn'[b] = conn[b]
  BY TakeEventEffect DEF Becomes
<1>4. Queue(c) /\ NoDuplicates(s) /\ Ordered(s) /\ NoDuplicates(got[c])
  BY DEF EventsInv, Queue
<1>5. /\ h \in Events /\ ToSet(s) = ToSet(Tail(s)) \cup {h}
      /\ h \notin ToSet(Tail(s)) /\ NoDuplicates(Tail(s))
  BY <1>1, <1>4, TailFacts
<1>6. Ordered(Tail(s)) /\ \A f \in ToSet(Tail(s)) : f \notin cast[h].after
  <2>1. /\ Len(s) \in Nat \ {0} /\ h = s[1]
        /\ DOMAIN s = 1..Len(s) /\ DOMAIN Tail(s) = 1..(Len(s) - 1)
        /\ \A i \in 1..(Len(s) - 1) : Tail(s)[i] = s[i + 1]
    BY <1>1, TailFacts
  <2>2. \A i \in 1..(Len(s) - 1) : i + 1 \in 1..Len(s) /\ 1 < i + 1 /\ 1 \in 1..Len(s)
    BY <2>1
  <2>3. \A i, j \in 1..(Len(s) - 1) : i < j => i + 1 < j + 1
    OBVIOUS
  <2>4. Ordered(Tail(s))
    BY <1>4, <2>1, <2>2, <2>3 DEF Ordered
  <2>5. \A f \in ToSet(Tail(s)) : \E i \in 1..(Len(s) - 1) : f = s[i + 1]
    BY <2>1 DEF ToSet
  <2> QED BY <1>4, <2>1, <2>2, <2>4, <2>5 DEF Ordered
<1> HIDE DEF s, h
<1>7. \A b \in Conns, e \in Events : Placed(b, e)'
  <2>1. \A b \in Conns \ {c}, e \in Events : Placed(b, e)'
    BY <1>1, <1>2, <1>3 DEF EventsInv, Placed, DueTo
  <2>2. ASSUME NEW e \in Events PROVE Placed(c, e)'
    <3>1. Placed(c, e) /\ ToSet(send[c]) = ToSet(Tail(s)) \cup {h}
      BY <1>5 DEF EventsInv, s
    <3> QED BY <1>1, <1>2, <1>3, <1>5, <3>1 DEF Placed, DueTo
  <2> QED BY <2>1, <2>2
<1>8. \A b \in Conns : Queue(b)'
  <2>1. \A b \in Conns \ {c} : Queue(b)'
    BY <1>1, <1>2, <1>3 DEF EventsInv, Queue, Ordered
  <2>2. Queue(c)'
    BY <1>1, <1>2, <1>3, <1>4, <1>5, <1>6 DEF Queue, Ordered
  <2> QED BY <2>1, <2>2
<1> QED BY <1>1, <1>7, <1>8 DEF EventsInv, History

LEMMA WriteKeepsEvents ==
  ASSUME HubTypeOK, EventsInv, NEW c \in Conns, Write(c)
  PROVE  EventsInv'
<1> DEFINE w == conn[c].writing
<1>1. /\ UNCHANGED <<send, cast>> /\ got \in [Conns -> Seq(Events)]
      /\ got' = [got EXCEPT ![c] = Append(got[c], w)]
  BY DEF Write, HubTypeOK
<1>2. got'[c] = Append(got[c], w) /\ \A b \in Conns \ {c} : got'[b] = got[b]
  BY <1>1
<1>3. /\ conn'[c].writing = Missing /\ conn'[c].dialog = conn[c].dialog
      /\ \A b \in Conns \ {c} : conn'[b] = conn[b]
  BY WriteEffect DEF Becomes
<1>4. w \in Events /\ \A e \in Events : e # Missing
  BY HubAssumption DEF Write, HubTypeOK, Connection
<1>5. Placed(c, w)
  BY <1>4 DEF EventsInv
<1>6. /\ ToSet(got'[c]) = ToSet(got[c]) \cup {w}
      /\ NoDuplicates(got'[c])
  <2>1. NoDuplicates(got[c]) /\ w \notin ToSet(got[c]) /\ got[c] \in Seq(Events)
    BY <1>1, <1>5 DEF EventsInv, Queue, Placed
  <2> QED BY <1>2, <1>4, <2>1, AppendFacts
<1>7. \A b \in Conns, e \in Events : Placed(b, e)'
  <2>1. \A b \in Conns \ {c}, e \in Events : Placed(b, e)'
    BY <1>1, <1>2, <1>3 DEF EventsInv, Placed, DueTo
  <2>2. ASSUME NEW e \in Events PROVE Placed(c, e)'
    BY <1>1, <1>3, <1>4, <1>5, <1>6 DEF EventsInv, Placed, DueTo
  <2> QED BY <2>1, <2>2
<1>8. \A b \in Conns : Queue(b)'
  <2>1. \A b \in Conns \ {c} : Queue(b)'
    BY <1>1, <1>2, <1>3 DEF EventsInv, Queue, Ordered
  <2>2. Queue(c)'
    BY <1>1, <1>3, <1>4, <1>6 DEF EventsInv, Queue, Ordered
  <2> QED BY <2>1, <2>2
<1> QED BY <1>1, <1>7, <1>8 DEF EventsInv, History

LEMMA PumpsKeepEvents ==
  ASSUME HubTypeOK, EventsInv, NEW c \in Conns, Reader(c) \/ Writer(c)
  PROVE  EventsInv'
<1>1. CASE ReadFails(c) \/ ReaderCloses(c) \/ WriterCloses(c)
  <2>1. UNCHANGED <<send, got, cast>>
    BY <1>1 DEF ReadFails, ReaderCloses, WriterCloses
  <2>2. \A b \in Conns : conn'[b].dialog = conn[b].dialog /\ conn'[b].writing = conn[b].writing
    BY <1>1, ReadFailsEffect, ReaderClosesEffect, WriterClosesEffect DEF Becomes
  <2> QED BY <2>1, <2>2, EventsRest
<1>2. CASE WriteFails(c)
  <2>1. UNCHANGED <<send, got, cast>>
    BY <1>2 DEF WriteFails
  <2>2. /\ conn'[c].writing = Missing /\ conn'[c].dialog = conn[c].dialog
        /\ \A b \in Conns \ {c} : conn'[b] = conn[b]
        /\ \A e \in Events : e # Missing
    BY <1>2, WriteFailsEffect, HubAssumption DEF Becomes
  <2>3. \A b \in Conns, e \in Events : Placed(b, e)'
    BY <2>1, <2>2 DEF EventsInv, Placed, DueTo
  <2>4. \A b \in Conns : Queue(b)'
    BY <2>1, <2>2 DEF EventsInv, Queue, Ordered
  <2> QED BY <2>1, <2>3, <2>4 DEF EventsInv, History
<1> QED BY <1>1, <1>2, TakeEventKeepsEvents, WriteKeepsEvents DEF Reader, Writer

LEMMA SnapshotKeepsEvents ==
  ASSUME HubTypeOK, LifeInv, EventsInv, NEW e \in Events, Snapshot(e)
  PROVE  EventsInv'
<1>1. /\ cast[e].pc = "new" /\ UNCHANGED <<conn, send, got>>
      /\ cast'[e].pc = "send" /\ cast'[e].left = subs[DialogOf[e]] /\ cast'[e].after = Over
      /\ \A f \in Events \ {e} : cast'[f] = cast[f]
  BY SnapshotEffect DEF Snapshot
<1>2. \A c \in Conns : ~DueTo(c, e) /\ e \notin ToSet(got[c])
  BY <1>1 DEF EventsInv, Placed
<1>3. \A c \in Conns : c \in subs[DialogOf[e]] => conn[c].dialog = DialogOf[e]
  BY HubAssumption DEF LifeInv, Life, InTheMap
<1>4. \A c \in Conns, f \in Events : Placed(c, f)'
  <2>1. \A c \in Conns : Placed(c, e)'
    BY <1>1, <1>2, <1>3 DEF Placed, DueTo
  <2>2. \A c \in Conns, f \in Events \ {e} : Placed(c, f)'
    BY <1>1 DEF EventsInv, Placed, DueTo
  <2> QED BY <2>1, <2>2
<1>5. ASSUME NEW c \in Conns PROVE Queue(c)'
  <2>1. Queue(c) /\ send[c] \in Seq(Events)
    BY DEF EventsInv, HubTypeOK
  <2>2. \A i \in DOMAIN send[c] : send[c][i] \in ToSet(send[c]) /\ send[c][i] \in Events
    BY <2>1, LenProperties, ElementOfSeq DEF ToSet
  <2>3. \A f \in ToSet(send[c]) : f \in Events => cast'[f].after = cast[f].after
    BY <1>1, <1>2 DEF DueTo
  <2>4. Ordered(send[c])'
    BY <1>1, <2>1, <2>2, <2>3 DEF Queue, Ordered
  <2>5. \A f \in Events : conn[c].writing = f => cast'[f].after = cast[f].after
    BY <1>1, <1>2 DEF DueTo
  <2> QED BY <1>1, <2>1, <2>4, <2>5 DEF Queue
<1>6. \A f \in Events : History(f)'
  <2>1. \A f \in Events \ {e} : History(f) /\ cast[f].after \subseteq Events
    BY DEF EventsInv, HubTypeOK, Broadcaster
  <2>2. History(e)'
    BY <1>1 DEF History, Over
  <2>3. ASSUME NEW f \in Events \ {e} PROVE History(f)'
    BY <1>1, <2>1 DEF History
  <2> QED BY <2>2, <2>3
<1> QED BY <1>4, <1>5, <1>6 DEF EventsInv

LEMMA TrySendKeepsEvents ==
  ASSUME HubTypeOK, EventsInv, NEW e \in Events, NEW c \in Conns, TrySend(e, c)
  PROVE  EventsInv'
<1>1. /\ cast[e].pc = "send" /\ c \in cast[e].left /\ UNCHANGED <<conn, got>>
      /\ cast'[e].pc = "send" /\ cast'[e].left = cast[e].left \ {c} /\ cast'[e].after = cast[e].after
      /\ \A f \in Events \ {e} : cast'[f] = cast[f]
  BY TrySendEffect DEF TrySend
<1>2. \/ UNCHANGED send
      \/ send'[c] = Append(send[c], e) /\ \A b \in Conns \ {c} : send'[b] = send[b]
  BY TrySendEffect
<1>3. Placed(c, e) /\ e \notin ToSet(send[c]) /\ DialogOf[e] = conn[c].dialog
      /\ conn[c].writing # e /\ e \notin ToSet(got[c])
  BY <1>1 DEF EventsInv, Placed, DueTo
<1>4. \A f \in Events : cast'[f].after = cast[f].after /\ cast'[f].pc = cast[f].pc
  BY <1>1
<1>5. \A f \in Events : e \notin cast[f].after
  BY <1>1 DEF EventsInv, History
<1>6. \A f \in Events : History(f)'
  BY <1>4 DEF EventsInv, History, HubTypeOK, Broadcaster
<1>7. ToSet(send'[c]) \subseteq ToSet(send[c]) \cup {e} /\ ToSet(send[c]) \subseteq ToSet(send'[c])
      /\ \A b \in Conns \ {c} : send'[b] = send[b]
  <2>1. ToSet(Append(send[c], e)) = ToSet(send[c]) \cup {e}
    BY AppendFacts DEF HubTypeOK
  <2> QED BY <1>2, <2>1
<1>8. \A b \in Conns, f \in Events : Placed(b, f)'
  <2>1. \A b \in Conns \ {c}, f \in Events : Placed(b, f)'
    BY <1>1, <1>4, <1>7 DEF EventsInv, Placed, DueTo
  <2>2. \A f \in Events \ {e} : Placed(c, f)'
    BY <1>1, <1>4, <1>7 DEF EventsInv, Placed, DueTo
  <2>3. Placed(c, e)'
    BY <1>1, <1>3 DEF Placed, DueTo
  <2> QED BY <2>1, <2>2, <2>3
<1>9. ASSUME NEW b \in Conns PROVE Queue(b)'
  <2>1. Queue(b) /\ send[b] \in Seq(Events) /\ \A i \in DOMAIN send[b] : send[b][i] \in Events
    BY LenProperties, ElementOfSeq DEF EventsInv, HubTypeOK
  <2>2. CASE send'[b] = send[b]
    <3>1. Ordered(send[b])'
      BY <1>4, <2>1, <2>2 DEF Queue, Ordered
    <3> QED BY <1>1, <1>4, <2>1, <2>2, <3>1 DEF Queue
  <2>3. CASE b = c /\ send'[c] = Append(send[c], e)
    <3>1. PICK s, t : s = send[c] /\ t = send'[c]
      OBVIOUS
    <3>2. s \in Seq(Events) /\ NoDuplicates(s) /\ Ordered(s) /\ NoDuplicates(got[c])
      BY <2>1, <2>3, <3>1 DEF Queue
    <3>3. /\ Len(s) \in Nat /\ DOMAIN s = 1..Len(s) /\ DOMAIN t = 1..(Len(s) + 1)
          /\ \A i \in 1..Len(s) : t[i] = s[i]
          /\ t[Len(s) + 1] = e
          /\ NoDuplicates(t)
      BY <1>3, <2>3, <3>1, <3>2, AppendFacts
    <3>4. \A i \in 1..Len(s) : s[i] \in Events
      BY <2>1, <2>3, <3>1, <3>3
    <3>5. \A i, j \in 1..(Len(s) + 1) : i < j => i \in 1..Len(s) /\ (j \in 1..Len(s) \/ j = Len(s) + 1)
      BY <3>3
    <3>6. \A i, j \in DOMAIN t : i < j => t[j] \notin cast'[t[i]].after
      BY <1>4, <1>5, <3>2, <3>3, <3>4, <3>5 DEF Ordered
    <3>7. Ordered(send[c])'
      BY <3>1, <3>6 DEF Ordered
    <3>8. \A f \in Events : conn'[c].writing = f => \A g \in ToSet(send'[c]) : g \notin cast'[f].after
      BY <1>1, <1>4, <1>5, <1>7, <2>1, <2>3 DEF Queue
    <3>9. NoDuplicates(send'[c]) /\ NoDuplicates(got'[c])
      BY <1>1, <3>1, <3>2, <3>3
    <3> QED BY <2>3, <3>7, <3>8, <3>9 DEF Queue
  <2> QED BY <1>2, <2>2, <2>3
<1> QED BY <1>6, <1>8, <1>9 DEF EventsInv

LEMMA SentKeepsEvents ==
  ASSUME HubTypeOK, EventsInv, NEW e \in Events, Sent(e)
  PROVE  EventsInv'
<1>1. /\ cast[e].pc = "send" /\ cast[e].left = {} /\ UNCHANGED <<conn, send, got>>
      /\ cast'[e].pc = "done" /\ cast'[e].left = {} /\ cast'[e].after = cast[e].after
      /\ \A f \in Events \ {e} : cast'[f] = cast[f]
  BY SentEffect DEF Sent
<1>2. \A f \in Events : cast'[f].after = cast[f].after /\ cast'[f].left = cast[f].left
  BY <1>1
<1>3. \A c \in Conns, f \in Events : Placed(c, f)'
  BY <1>1 DEF EventsInv, Placed, DueTo
<1>4. ASSUME NEW c \in Conns PROVE Queue(c)'
  <2>1. Queue(c) /\ send[c] \in Seq(Events) /\ \A i \in DOMAIN send[c] : send[c][i] \in Events
    BY LenProperties, ElementOfSeq DEF EventsInv, HubTypeOK
  <2>2. Ordered(send[c])'
    BY <1>1, <1>2, <2>1 DEF Queue, Ordered
  <2> QED BY <1>1, <1>2, <2>1, <2>2 DEF Queue
<1>5. ASSUME NEW f \in Events PROVE History(f)'
  <2>1. History(f) /\ cast[f].after \subseteq Events
    BY DEF EventsInv, HubTypeOK, Broadcaster
  <2> QED BY <1>1, <1>2, <2>1 DEF History
<1> QED BY <1>3, <1>4, <1>5 DEF EventsInv

LEMMA ShutdownKeepsEvents ==
  ASSUME HubTypeOK, EventsInv, Shutdown
  PROVE  EventsInv'
<1>1. UNCHANGED <<send, got, cast>>
  BY DEF Shutdown, CloseAll, CloseAllClient, CloseAllStores, CloseAllReturns
<1>2. \A b \in Conns : conn'[b].dialog = conn[b].dialog /\ conn'[b].writing = conn[b].writing
  <2>1. ASSUME NEW c \in Conns, CloseAllClient(c)
        PROVE  \A b \in Conns : conn'[b].dialog = conn[b].dialog /\ conn'[b].writing = conn[b].writing
    BY <2>1, CloseAllClientEffect DEF Becomes
  <2>2. CASE CloseAllStores
    <3>1. PICK c \in Conns : c = main.client
      BY <2>2 DEF CloseAllStores, HubTypeOK, Main
    <3> QED BY <2>2, <3>1, CloseAllStoresEffect DEF Becomes
  <2>3. CASE CloseAll \/ CloseAllReturns
    BY <2>3 DEF CloseAll, CloseAllReturns
  <2> QED BY <2>1, <2>2, <2>3 DEF Shutdown
<1> QED BY <1>1, <1>2, EventsRest

LEMMA EventsNext == HubTypeOK /\ LifeInv /\ EventsInv /\ [Next]_vars => EventsInv'
<1> SUFFICES ASSUME HubTypeOK, LifeInv, EventsInv, [Next]_vars PROVE EventsInv'
  OBVIOUS
<1>1. CASE UNCHANGED vars
  BY <1>1, EventsRest DEF vars
<1> QED BY <1>1, HandlerKeepsEvents, PumpsKeepEvents, SnapshotKeepsEvents, TrySendKeepsEvents,
           SentKeepsEvents, ShutdownKeepsEvents DEF Next, Broadcast, Quiet

LEMMA EventsCorrect == Spec => []EventsInv
BY HubTypeCorrect, LifeCorrect, EventsInit, EventsNext, PTL DEF Spec

(* OwnEventsAtMostOnce: what a client is written is of the dialog it       *)
(* subscribed to, and no event twice.                                      *)
THEOREM OwnEventsAtMostOnce == Spec => []OwnEventsOnce
<1>1. ASSUME HubTypeOK, EventsInv PROVE OwnEventsOnce
  <2>1. SUFFICES ASSUME NEW c \in Conns, NEW i \in DOMAIN got[c], NEW j \in DOMAIN got[c]
                 PROVE  /\ DialogOf[got[c][i]] = conn[c].dialog
                        /\ got[c][i] = got[c][j] => i = j
    BY DEF OwnEventsOnce
  <2>2. got[c] \in Seq(Events) /\ DOMAIN got[c] = 1..Len(got[c])
    BY <1>1, LenProperties DEF HubTypeOK
  <2>3. got[c][i] \in Events /\ got[c][i] \in ToSet(got[c])
    BY <2>2, ElementOfSeq DEF ToSet
  <2> QED BY <1>1, <2>3 DEF EventsInv, Placed, Queue, NoDuplicates
<1> QED BY <1>1, HubTypeCorrect, EventsCorrect, PTL


-----------------------------------------------------------------------------
(* The hub implements the feed. *)

FeedStep == Listeners!FeedNext \/ UNCHANGED Listeners!feedVars

(* How the abstract variables change with the connections and broadcasts. *)

Socket(c) == IF conn[c].handler = "none" THEN "new" ELSE IF conn[c].open THEN "open" ELSE "shut"

LEMMA SocketsBecome ==
  ASSUME NEW c \in Conns, \A b \in Conns \ {c} : conn'[b] = conn[b]
  PROVE  Sockets' = [Sockets EXCEPT ![c] = Socket(c)']
BY DEF Sockets, Socket

LEMMA SocketsStay ==
  ASSUME \A b \in Conns : Socket(b)' = Socket(b)
  PROVE  Sockets' = Sockets
BY DEF Sockets, Socket

LEMMA AskedStay ==
  ASSUME \A b \in Conns : conn'[b].dialog = conn[b].dialog
  PROVE  Asked' = Asked
BY DEF Asked

LEMMA BroadcastsStay ==
  ASSUME UNCHANGED cast
  PROVE  Phases' = Phases /\ Earlier' = Earlier
BY DEF Phases, Earlier

LEMMA DueBecomes ==
  ASSUME NEW c \in Conns, NEW e \in Events,
         \A b \in Conns, f \in Events : DueTo(b, f)' <=> DueTo(b, f) /\ ~(b = c /\ f = e)
  PROVE  Due' = Due \ {<<c, e>>}
<1>1. ASSUME NEW b \in Conns, NEW f \in Events
      PROVE  <<b, f>> \in Due' <=> <<b, f>> \in Due \ {<<c, e>>}
  BY DEF Due
<1>2. Due \subseteq Conns \X Events /\ Due' \subseteq Conns \X Events
  BY DEF Due
<1> QED BY <1>1, <1>2

LEMMA DueStays ==
  ASSUME \A b \in Conns, f \in Events : DueTo(b, f)' <=> DueTo(b, f)
  PROVE  Due' = Due
<1>1. ASSUME NEW b \in Conns, NEW f \in Events
      PROVE  <<b, f>> \in Due' <=> <<b, f>> \in Due
  BY DEF Due
<1>2. Due \subseteq Conns \X Events /\ Due' \subseteq Conns \X Events
  BY DEF Due
<1> QED BY <1>1, <1>2

LEMMA NothingMoves ==
  ASSUME UNCHANGED <<send, cast>>, \A b \in Conns : conn'[b].writing = conn[b].writing
  PROVE  Due' = Due
<1>1. \A b \in Conns, f \in Events : DueTo(b, f)' <=> DueTo(b, f)
  BY DEF DueTo
<1> QED BY <1>1, DueStays

(* A step of connection c that at most shuts its socket. *)
LEMMA ShutOrRest ==
  ASSUME NEW c \in Conns, UNCHANGED <<send, got, subs, cast>>,
         conn[c].handler # "none" /\ conn'[c].handler # "none",
         conn'[c].dialog = conn[c].dialog /\ conn'[c].writing = conn[c].writing,
         \A b \in Conns \ {c} : conn'[b] = conn[b],
         (conn'[c].open <=> conn[c].open) \/ ~conn'[c].open
  PROVE  FeedStep
<1>1. /\ Asked' = Asked /\ Phases' = Phases /\ Earlier' = Earlier /\ Due' = Due
      /\ Subscribed' = Subscribed /\ got' = got
  BY AskedStay, BroadcastsStay, NothingMoves DEF Subscribed
<1>2. CASE conn'[c].open <=> conn[c].open
  <2>1. Sockets' = Sockets
    BY <1>2, SocketsStay DEF Socket
  <2> QED BY <1>1, <2>1 DEF FeedStep, Listeners!feedVars
<1>3. CASE conn[c].open /\ ~conn'[c].open
  <2>1. Socket(c)' = "shut" /\ Sockets[c] = "open"
    BY <1>3 DEF Socket, Sockets
  <2>2. Sockets' = [Sockets EXCEPT ![c] = "shut"]
    BY <2>1, SocketsBecome
  <2>3. Listeners!Shut(c)
    BY <1>1, <2>1, <2>2 DEF Listeners!Shut
  <2> QED BY <2>3 DEF FeedStep, Listeners!FeedNext
<1> QED BY <1>2, <1>3

LEMMA HandlerFeeds ==
  ASSUME HubTypeOK, LifeInv, NEW c \in Conns, Handler(c)
  PROVE  FeedStep
<1>1. Untouched(c) /\ InTheMap(c)
  BY DEF LifeInv, Life
<1>2. UNCHANGED <<send, got, cast>>
  BY DEF Handler, Accept, HelloFails, Subscribe
<1>3. /\ conn'[c].writing = conn[c].writing
      /\ \A b \in Conns \ {c} : conn'[b] = conn[b]
  BY AcceptEffect, HelloFailsEffect, SubscribeEffect
     DEF Handler, Becomes
<1>4. Phases' = Phases /\ Earlier' = Earlier /\ Due' = Due
  BY <1>2, <1>3, BroadcastsStay, NothingMoves
<1>5. CASE Accept(c)
  <2>1. UNCHANGED subs /\ conn[c].handler = "none"
    BY <1>5 DEF Accept
  <2>2. conn'[c].dialog = conn[c].dialog /\ Socket(c)' = "open" /\ Sockets[c] = "new"
    BY <1>5, <2>1, AcceptEffect DEF Becomes, Socket, Sockets
  <2>3. Asked' = Asked /\ Subscribed' = Subscribed /\ Sockets' = [Sockets EXCEPT ![c] = "open"]
    BY <1>3, <2>1, <2>2, AskedStay, SocketsBecome DEF Subscribed
  <2>4. Listeners!Open(c)
    BY <1>2, <1>4, <2>2, <2>3 DEF Listeners!Open
  <2> QED BY <2>4 DEF FeedStep, Listeners!FeedNext
<1>6. CASE HelloFails(c)
  <2>1. UNCHANGED subs /\ conn[c].handler = "hello"
    BY <1>6 DEF HelloFails
  <2>2. /\ conn'[c].handler = "gone" /\ ~conn'[c].open
        /\ conn'[c].dialog = conn[c].dialog
    BY <1>6, HelloFailsEffect DEF Becomes
  <2> QED BY <1>2, <1>3, <2>1, <2>2, ShutOrRest
<1>7. ASSUME NEW d \in Dialogs, Subscribe(c, d) PROVE FeedStep
  <2>1. conn[c].handler = "hello" /\ subs' = [subs EXCEPT ![d] = @ \cup {c}]
    BY <1>7 DEF Subscribe
  <2>2. /\ conn'[c].handler = "serving" /\ conn'[c].dialog = d
        /\ conn'[c].open <=> conn[c].open
    BY <1>7, SubscribeEffect DEF Becomes
  <2>3. conn[c].open /\ conn[c].dialog = Missing
    BY <1>1, <2>1 DEF Untouched
  <2>4. Sockets[c] = "open" /\ Asked[c] = Missing
    BY <2>1, <2>3 DEF Sockets, Asked
  <2>5. Sockets' = Sockets
    BY <1>3, <2>1, <2>2, SocketsStay DEF Socket
  <2>6. Asked' = [Asked EXCEPT ![c] = d]
    BY <1>3, <2>2 DEF Asked
  <2>7. Subscribed' = Subscribed \cup {c}
    BY <2>1 DEF Subscribed, HubTypeOK
  <2>8. Listeners!Join(c, d)
    BY <1>2, <1>4, <2>4, <2>5, <2>6, <2>7 DEF Listeners!Join
  <2> QED BY <2>8 DEF FeedStep, Listeners!FeedNext
<1> QED BY <1>5, <1>6, <1>7 DEF Handler

LEMMA TakeEventFeeds ==
  ASSUME HubTypeOK, EventsInv, NEW c \in Conns, TakeEvent(c)
  PROVE  FeedStep
<1>1. /\ conn[c].writing = Missing /\ send[c] # <<>> /\ UNCHANGED <<got, subs, cast>>
      /\ send'[c] = Tail(send[c]) /\ \A b \in Conns \ {c} : send'[b] = send[b]
  BY DEF TakeEvent, HubTypeOK
<1>2. /\ conn'[c].writing = Head(send[c]) /\ conn'[c].dialog = conn[c].dialog
      /\ conn'[c].open <=> conn[c].open
      /\ conn'[c].handler = conn[c].handler
      /\ \A b \in Conns \ {c} : conn'[b] = conn[b]
  BY TakeEventEffect DEF Becomes
<1>3. ToSet(send[c]) = ToSet(send'[c]) \cup {Head(send[c])}
  BY <1>1, TailFacts DEF HubTypeOK
<1>4. \A f \in Events : f # Missing
  BY HubAssumption
<1>5. ASSUME NEW b \in Conns, NEW f \in Events PROVE DueTo(b, f)' <=> DueTo(b, f)
  BY <1>1, <1>2, <1>3, <1>4 DEF DueTo
<1>6. Due' = Due
  BY <1>5, DueStays
<1>7. /\ Sockets' = Sockets /\ Asked' = Asked /\ Subscribed' = Subscribed
      /\ Phases' = Phases /\ Earlier' = Earlier
  BY <1>1, <1>2, SocketsStay, AskedStay, BroadcastsStay DEF Socket, Subscribed
<1> QED BY <1>1, <1>6, <1>7 DEF FeedStep, Listeners!feedVars

(* An event that is written was due, and nothing before it is. *)
LEMMA WriteFeeds ==
  ASSUME HubTypeOK, LifeInv, EventsInv, NEW c \in Conns, Write(c)
  PROVE  FeedStep
<1> DEFINE w == conn[c].writing
<1>1. /\ w # Missing /\ conn[c].open /\ UNCHANGED <<send, subs, cast>>
      /\ got' = [got EXCEPT ![c] = Append(got[c], w)]
  BY DEF Write
<1>2. w \in Events
  BY <1>1 DEF HubTypeOK, Connection
<1>3. /\ conn'[c].writing = Missing /\ conn'[c].dialog = conn[c].dialog
      /\ conn'[c].open <=> conn[c].open
      /\ conn'[c].handler = conn[c].handler
      /\ \A b \in Conns \ {c} : conn'[b] = conn[b]
  BY WriteEffect DEF Becomes
<1>4. Placed(c, w) /\ c \notin cast[w].left /\ w \notin ToSet(send[c])
  BY <1>2 DEF EventsInv, Placed
<1>5. \A f \in Events : f # Missing
  BY HubAssumption
<1>6. ASSUME NEW b \in Conns, NEW f \in Events
      PROVE  DueTo(b, f)' <=> DueTo(b, f) /\ ~(b = c /\ f = w)
  BY <1>1, <1>3, <1>4, <1>5 DEF DueTo
<1>7. Due' = Due \ {<<c, w>>}
  BY <1>2, <1>6, DueBecomes
<1>8. /\ Sockets' = Sockets /\ Asked' = Asked /\ Subscribed' = Subscribed
      /\ Phases' = Phases /\ Earlier' = Earlier
  BY <1>1, <1>3, SocketsStay, AskedStay, BroadcastsStay DEF Socket, Subscribed
<1>9. <<c, w>> \in Due
  BY <1>2 DEF Due, DueTo
<1>10. Sockets[c] = "open"
  BY <1>1 DEF LifeInv, Life, Untouched, Sockets
<1>11. ASSUME NEW f \in Earlier[w] PROVE <<c, f>> \notin Due
  <2>1. f \in Events /\ f \in cast[w].after
    BY <1>2, <1>11 DEF Earlier, HubTypeOK, Broadcaster
  <2>2. cast[f].pc = "done" /\ f # w
    BY <1>2, <2>1 DEF EventsInv, History
  <2>3. c \notin cast[f].left
    BY <2>1, <2>2 DEF EventsInv, Placed
  <2>4. f \notin ToSet(send[c])
    BY <1>2, <2>1 DEF EventsInv, Queue
  <2> QED BY <2>2, <2>3, <2>4 DEF Due, DueTo
<1>12. Listeners!Deliver(c, w)
  BY <1>1, <1>7, <1>8, <1>9, <1>10, <1>11 DEF Listeners!Deliver
<1> QED BY <1>2, <1>12 DEF FeedStep, Listeners!FeedNext

LEMMA WriteFailsFeeds ==
  ASSUME HubTypeOK, LifeInv, EventsInv, NEW c \in Conns, WriteFails(c)
  PROVE  FeedStep
<1> DEFINE w == conn[c].writing
<1>1. w # Missing /\ UNCHANGED <<send, got, subs, cast>>
  BY DEF WriteFails
<1>2. w \in Events
  BY <1>1 DEF HubTypeOK, Connection
<1>3. /\ conn'[c].writing = Missing /\ conn'[c].dialog = conn[c].dialog
      /\ ~conn'[c].open
      /\ conn'[c].handler = conn[c].handler
      /\ \A b \in Conns \ {c} : conn'[b] = conn[b]
  BY WriteFailsEffect DEF Becomes
<1>4. c \notin cast[w].left /\ w \notin ToSet(send[c])
  BY <1>2 DEF EventsInv, Placed
<1>5. \A f \in Events : f # Missing
  BY HubAssumption
<1>6. ASSUME NEW b \in Conns, NEW f \in Events
      PROVE  DueTo(b, f)' <=> DueTo(b, f) /\ ~(b = c /\ f = w)
  BY <1>1, <1>3, <1>4, <1>5 DEF DueTo
<1>7. Due' = Due \ {<<c, w>>} /\ <<c, w>> \in Due
  BY <1>2, <1>6, DueBecomes DEF Due, DueTo
<1>8. /\ Asked' = Asked /\ Subscribed' = Subscribed
      /\ Phases' = Phases /\ Earlier' = Earlier
  BY <1>1, <1>3, AskedStay, BroadcastsStay DEF Subscribed
<1>9. conn[c].handler # "none"
  BY <1>1 DEF LifeInv, Life, Untouched
<1>10. CASE conn[c].open
  <2>1. Sockets[c] = "open" /\ Socket(c)' = "shut"
    BY <1>3, <1>9, <1>10 DEF Sockets, Socket
  <2>2. Sockets' = [Sockets EXCEPT ![c] = "shut"]
    BY <1>3, <2>1, SocketsBecome
  <2>3. Listeners!Shut(c)
    BY <1>1, <1>2, <1>7, <1>8, <2>1, <2>2 DEF Listeners!Shut
  <2> QED BY <2>3 DEF FeedStep, Listeners!FeedNext
<1>11. CASE ~conn[c].open
  <2>1. Sockets' = Sockets
    BY <1>3, <1>11, SocketsStay DEF Socket
  <2>2. Listeners!Lose(c, w)
    BY <1>1, <1>7, <1>8, <2>1 DEF Listeners!Lose
  <2> QED BY <1>2, <2>2 DEF FeedStep, Listeners!FeedNext
<1> QED BY <1>10, <1>11

LEMMA PumpsFeed ==
  ASSUME HubTypeOK, LifeInv, EventsInv, NEW c \in Conns, Reader(c) \/ Writer(c)
  PROVE  FeedStep
<1>1. CASE ReadFails(c) \/ ReaderCloses(c) \/ WriterCloses(c)
  <2>1. UNCHANGED <<send, got, subs, cast>>
    BY <1>1 DEF ReadFails, ReaderCloses, WriterCloses
  <2>2. conn[c].reader # "off" \/ conn[c].writer # "off"
    BY <1>1 DEF ReadFails, ReaderCloses, WriterCloses
  <2>3. conn[c].handler # "none"
    BY <2>2 DEF LifeInv, Life, Untouched
  <2>4. /\ conn'[c].handler = conn[c].handler
        /\ conn'[c].dialog = conn[c].dialog /\ conn'[c].writing = conn[c].writing
        /\ \A b \in Conns \ {c} : conn'[b] = conn[b]
    BY <1>1, ReadFailsEffect, ReaderClosesEffect, WriterClosesEffect DEF Becomes
  <2>5. conn[c].closed => ~conn[c].open
    BY DEF LifeInv, Life, ShutBeforeFlag
  <2>6. (conn'[c].open <=> conn[c].open) \/ ~conn'[c].open
    BY <1>1, <2>5, ReadFailsEffect, ReaderClosesEffect, WriterClosesEffect
       DEF Becomes
  <2> QED BY <2>1, <2>3, <2>4, <2>6, ShutOrRest
<1> QED BY <1>1, TakeEventFeeds, WriteFeeds, WriteFailsFeeds DEF Reader, Writer

(* A step of e's broadcaster that moves no client between phases. *)
LEMMA PhasesBecome ==
  ASSUME NEW e \in Events, \A f \in Events \ {e} : cast'[f] = cast[f],
         NEW p, p = (IF cast'[e].pc = "send" THEN "sending"
                     ELSE IF cast'[e].pc = "done" THEN "over" ELSE "new")
  PROVE  /\ Phases' = [Phases EXCEPT ![e] = p]
         /\ Earlier' = [Earlier EXCEPT ![e] = cast'[e].after]
BY DEF Phases, Earlier

LEMMA SnapshotFeeds ==
  ASSUME HubTypeOK, LifeInv, EventsInv, NEW e \in Events, Snapshot(e)
  PROVE  FeedStep
<1>1. /\ cast[e].pc = "new" /\ UNCHANGED <<conn, send, got, subs>>
      /\ cast'[e].pc = "send" /\ cast'[e].left = subs[DialogOf[e]] /\ cast'[e].after = Over
      /\ \A f \in Events \ {e} : cast'[f] = cast[f]
  BY SnapshotEffect DEF Snapshot
<1>2. Phases[e] = "new" /\ Phases' = [Phases EXCEPT ![e] = "sending"]
  BY <1>1, PhasesBecome DEF Phases
<1>3. Over = {f \in Events : Phases[f] = "over"}
  BY DEF Over, Phases
<1>4. Earlier' = [Earlier EXCEPT ![e] = {f \in Events : Phases[f] = "over"}]
  BY <1>1, <1>3, PhasesBecome
<1>5. Sockets' = Sockets /\ Asked' = Asked /\ Subscribed' = Subscribed
  BY <1>1 DEF Sockets, Asked, Subscribed
<1> DEFINE listeners == {c \in Subscribed : Asked[c] = DialogOf[e]}
<1>6. listeners = subs[DialogOf[e]]
  <2>1. DialogOf[e] \in Dialogs /\ Subscribed \subseteq Conns
    BY HubAssumption DEF Subscribed, HubTypeOK
  <2>2. \A c \in Conns, d \in Dialogs : c \in subs[d] => conn[c].dialog = d
    BY DEF LifeInv, Life, InTheMap
  <2>3. \A c \in Conns : Asked[c] = conn[c].dialog
    BY DEF Asked
  <2>4. ASSUME NEW c \in Conns PROVE c \in Subscribed <=> \E d \in Dialogs : c \in subs[d]
    BY DEF Subscribed
  <2>5. ASSUME NEW c \in Conns PROVE c \in listeners <=> c \in subs[DialogOf[e]]
    BY <2>1, <2>2, <2>3, <2>4
  <2>6. listeners \subseteq Conns /\ subs[DialogOf[e]] \subseteq Conns
    BY <2>1 DEF HubTypeOK
  <2> QED BY <2>5, <2>6
<1>7. Due' = Due \cup (listeners \X {e})
  <2>1. \A c \in Conns : ~DueTo(c, e)
    BY <1>1 DEF EventsInv, Placed
  <2>2. ASSUME NEW c \in Conns, NEW f \in Events
        PROVE  DueTo(c, f)' <=> DueTo(c, f) \/ (f = e /\ c \in listeners)
    BY <1>1, <1>6, <2>1 DEF DueTo
  <2>3. ASSUME NEW c \in Conns, NEW f \in Events
        PROVE  <<c, f>> \in Due' <=> <<c, f>> \in Due \cup (listeners \X {e})
    BY <2>2 DEF Due
  <2>4. listeners \subseteq Conns
    BY DEF Subscribed, HubTypeOK
  <2>5. /\ Due' \subseteq Conns \X Events
        /\ Due \cup (listeners \X {e}) \subseteq Conns \X Events
    BY <2>4 DEF Due
  <2> QED BY <2>3, <2>5
<1>8. Listeners!Announce(e)
  BY <1>1, <1>2, <1>4, <1>5, <1>7 DEF Listeners!Announce
<1> QED BY <1>8 DEF FeedStep, Listeners!FeedNext

LEMMA TrySendFeeds ==
  ASSUME HubTypeOK, EventsInv, NEW e \in Events, NEW c \in Conns, TrySend(e, c)
  PROVE  FeedStep
<1>1. /\ cast[e].pc = "send" /\ c \in cast[e].left /\ UNCHANGED <<conn, got, subs>>
      /\ cast'[e].pc = "send" /\ cast'[e].left = cast[e].left \ {c} /\ cast'[e].after = cast[e].after
      /\ \A f \in Events \ {e} : cast'[f] = cast[f]
  BY TrySendEffect DEF TrySend
<1>2. /\ Sockets' = Sockets /\ Asked' = Asked /\ Subscribed' = Subscribed
      /\ Phases' = Phases /\ Earlier' = Earlier
  <2>1. \A f \in Events : cast'[f].pc = cast[f].pc /\ cast'[f].after = cast[f].after
    BY <1>1
  <2> QED BY <1>1, <2>1 DEF Sockets, Asked, Subscribed, Phases, Earlier
<1>3. CASE UNCHANGED send
  <2>1. e \notin ToSet(send[c]) /\ conn[c].writing # e
    BY <1>1 DEF EventsInv, Placed
  <2>2. ASSUME NEW b \in Conns, NEW f \in Events
        PROVE  DueTo(b, f)' <=> DueTo(b, f) /\ ~(b = c /\ f = e)
    BY <1>1, <1>3, <2>1 DEF DueTo
  <2>3. Due' = Due \ {<<c, e>>} /\ <<c, e>> \in Due
    BY <1>1, <2>2, DueBecomes DEF Due, DueTo
  <2>4. Listeners!Lose(c, e)
    BY <1>1, <1>2, <2>3 DEF Listeners!Lose
  <2> QED BY <2>4 DEF FeedStep, Listeners!FeedNext
<1>4. CASE send'[c] = Append(send[c], e) /\ \A b \in Conns \ {c} : send'[b] = send[b]
  <2>1. ToSet(send'[c]) = ToSet(send[c]) \cup {e}
    BY <1>4, AppendFacts DEF HubTypeOK
  <2>2. ASSUME NEW b \in Conns, NEW f \in Events PROVE DueTo(b, f)' <=> DueTo(b, f)
    BY <1>1, <1>4, <2>1 DEF DueTo
  <2>3. Due' = Due
    BY <2>2, DueStays
  <2> QED BY <1>1, <1>2, <2>3 DEF FeedStep, Listeners!feedVars
<1> QED BY <1>3, <1>4, TrySendEffect

LEMMA SentFeeds ==
  ASSUME HubTypeOK, NEW e \in Events, Sent(e)
  PROVE  FeedStep
<1>1. /\ cast[e].pc = "send" /\ cast[e].left = {} /\ UNCHANGED <<conn, send, got, subs>>
      /\ cast'[e].pc = "done" /\ cast'[e].left = {} /\ cast'[e].after = cast[e].after
      /\ \A f \in Events \ {e} : cast'[f] = cast[f]
  BY SentEffect DEF Sent
<1>2. Phases[e] = "sending" /\ Phases' = [Phases EXCEPT ![e] = "over"]
  BY <1>1, PhasesBecome DEF Phases
<1>3. Earlier' = Earlier
  <2>1. \A f \in Events : cast'[f].after = cast[f].after
    BY <1>1
  <2> QED BY <2>1 DEF Earlier
<1>4. Sockets' = Sockets /\ Asked' = Asked /\ Subscribed' = Subscribed
  BY <1>1 DEF Sockets, Asked, Subscribed
<1>5. ASSUME NEW b \in Conns, NEW f \in Events PROVE DueTo(b, f)' <=> DueTo(b, f)
  BY <1>1 DEF DueTo
<1>6. Due' = Due
  BY <1>5, DueStays
<1>7. Listeners!Announced(e)
  BY <1>1, <1>2, <1>3, <1>4, <1>6 DEF Listeners!Announced
<1> QED BY <1>7 DEF FeedStep, Listeners!FeedNext

LEMMA ShutdownFeeds ==
  ASSUME HubTypeOK, LifeInv, Shutdown
  PROVE  FeedStep
<1>1. ASSUME NEW c \in Conns, CloseAllClient(c) PROVE FeedStep
  <2>1. UNCHANGED <<send, got, subs, cast>> /\ c \in main.left
    BY <1>1 DEF CloseAllClient
  <2>2. conn[c].handler # "none"
    BY <2>1 DEF LifeInv, Life, Untouched
  <2>3. /\ conn'[c].handler = conn[c].handler
        /\ conn'[c].dialog = conn[c].dialog /\ conn'[c].writing = conn[c].writing
        /\ conn'[c].open => conn[c].open
        /\ \A b \in Conns \ {c} : conn'[b] = conn[b]
    BY <1>1, CloseAllClientEffect DEF Becomes
  <2>4. (conn'[c].open <=> conn[c].open) \/ ~conn'[c].open
    BY <2>3
  <2> QED BY <2>1, <2>2, <2>3, <2>4, ShutOrRest
<1>2. CASE CloseAll \/ CloseAllStores
  <2>1. UNCHANGED <<send, got, subs, cast>>
    BY <1>2 DEF CloseAll, CloseAllStores
  <2>2. ASSUME NEW b \in Conns
        PROVE  /\ conn'[b].handler = conn[b].handler
               /\ conn'[b].open <=> conn[b].open
               /\ conn'[b].dialog = conn[b].dialog /\ conn'[b].writing = conn[b].writing
    <3>1. CASE CloseAll
      BY <3>1 DEF CloseAll
    <3>2. CASE CloseAllStores
      <4>1. PICK c \in Conns : c = main.client
        BY <3>2 DEF CloseAllStores, HubTypeOK, Main
      <4> QED BY <3>2, <4>1, CloseAllStoresEffect DEF Becomes
    <3> QED BY <1>2, <3>1, <3>2
  <2>3. /\ Sockets' = Sockets /\ Asked' = Asked /\ Subscribed' = Subscribed
        /\ Phases' = Phases /\ Earlier' = Earlier /\ Due' = Due
    BY <2>1, <2>2, SocketsStay, AskedStay, BroadcastsStay, NothingMoves DEF Socket, Subscribed
  <2> QED BY <2>1, <2>3 DEF FeedStep, Listeners!feedVars
<1>3. CASE CloseAllReturns
  <2>1. UNCHANGED <<conn, send, got, cast>> /\ \A d \in Dialogs : subs'[d] = {}
    BY <1>3 DEF CloseAllReturns
  <2>2. Subscribed \subseteq Conns /\ Subscribed' = {}
    BY <2>1 DEF Subscribed, HubTypeOK
  <2>3. /\ Sockets' = Sockets /\ Asked' = Asked /\ Phases' = Phases /\ Earlier' = Earlier
        /\ Due' = Due
    BY <2>1, SocketsStay, AskedStay, BroadcastsStay, NothingMoves DEF Socket
  <2>4. Listeners!ForgetAll
    BY <2>1, <2>2, <2>3 DEF Listeners!ForgetAll
  <2> QED BY <2>4 DEF FeedStep, Listeners!FeedNext
<1> QED BY <1>1, <1>2, <1>3 DEF Shutdown

LEMMA FeedStarts == Init => Listeners!FeedInit
<1> SUFFICES ASSUME Init PROVE Listeners!FeedInit
  OBVIOUS
<1>1. \A c \in Conns : /\ conn[c].handler = "none" /\ conn[c].dialog = Missing
                       /\ conn[c].writing = Missing /\ send[c] = <<>>
  BY DEF Init
<1>2. \A e \in Events : cast[e].pc = "new" /\ cast[e].left = {} /\ cast[e].after = {} /\ e # Missing
  BY HubAssumption DEF Init
<1>3. \A c \in Conns, e \in Events : ~DueTo(c, e)
  BY <1>1, <1>2, EmptyFacts DEF DueTo
<1>4. Due = {}
  BY <1>3 DEF Due
<1>5. Subscribed = {} /\ got = [c \in Conns |-> <<>>]
  BY DEF Init, Subscribed
<1>6. /\ Sockets = [c \in Conns |-> "new"] /\ Asked = [c \in Conns |-> Missing]
      /\ Phases = [e \in Events |-> "new"] /\ Earlier = [e \in Events |-> {}]
  BY <1>1, <1>2 DEF Sockets, Asked, Phases, Earlier
<1> QED BY <1>4, <1>5, <1>6 DEF Listeners!FeedInit

LEMMA FeedGoesOn ==
  HubTypeOK /\ LifeInv /\ EventsInv /\ [Next]_vars => [Listeners!FeedNext]_(Listeners!feedVars)
<1> SUFFICES ASSUME HubTypeOK, LifeInv, EventsInv, [Next]_vars PROVE FeedStep
  BY DEF FeedStep
<1>1. CASE UNCHANGED vars
  <2>1. UNCHANGED <<conn, send, got, subs, cast>>
    BY <1>1 DEF vars
  <2>2. /\ Sockets' = Sockets /\ Asked' = Asked /\ Subscribed' = Subscribed
        /\ Phases' = Phases /\ Earlier' = Earlier /\ Due' = Due
    BY <2>1, SocketsStay, AskedStay, BroadcastsStay, NothingMoves DEF Socket, Subscribed
  <2> QED BY <2>1, <2>2 DEF FeedStep, Listeners!feedVars
<1>2. CASE Next
  BY <1>1, <1>2, HandlerFeeds, PumpsFeed, SnapshotFeeds, TrySendFeeds, SentFeeds, ShutdownFeeds
     DEF Next, Broadcast, Quiet
<1> QED BY <1>1, <1>2

(* HubIsAFeed: every behaviour of the hub is one of the feed, so an event  *)
(* that was broadcast after another one had been is never written before   *)
(* it, whatever buffers, pumps and the shutdown do.                        *)
THEOREM HubIsAFeed == Spec => ImplementsFeed
BY HubTypeCorrect, LifeCorrect, EventsCorrect, FeedStarts, FeedGoesOn, PTL
   DEF Spec, ImplementsFeed, Listeners!FeedSpec
=============================================================================
