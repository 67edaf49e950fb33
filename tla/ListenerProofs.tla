--------------------------- MODULE ListenerProofs ---------------------------
(***************************************************************************)
(* ListenerLifecycle, for any connectors and documents: when stop has       *)
(* returned, no thread waits on a live connection; and who waits has asked  *)
(* for every document.                                                     *)
(*                                                                         *)
(* stop sets the event, then takes the list, then closes what was in it.   *)
(* A thread that waits on a connection has registered it (Registering), so  *)
(* it is in the list that stop takes; a thread that registers later finds  *)
(* the event set before it waits (Announced).  A connection that is closed  *)
(* never comes back to life while its thread waits (Closing).              *)
(* The second part of the module is about what a subscription has sent: its *)
(* queries name a beginning of the folder's documents, which is all of them *)
(* before the thread registers (Progress).                                 *)
(* The third part is type correctness.  That `told' is a version the server*)
(* has needs more than the types: nothing on the wire, in an inbox or in   *)
(* the hands of a thread may tell of a version still to come or of a       *)
(* document unknown, and nothing is answered that was not asked (Telltale).*)
(* The fourth part is about WireCodec: the bytes of a message are read as   *)
(* that message, and neither less nor more of them.  The recursive         *)
(* functions of the codec are shown to exist and to be unique by looking at *)
(* the least number at which they would not be (RecursionExists); what they *)
(* compute follows in the same way, or along a set of numbers that has 0    *)
(* and with each number the next (NatInduct).  The last part says that what *)
(* the threads and the server send can be written so (Kinds).              *)
(***************************************************************************)
EXTENDS ListenerLifecycle, Extrema, SequenceTheorems, TLAPS

Places  == {"check", "dial", "ask", "register", "poll", "recv", "ping", "wait", "leave", "ended"}
Sockets == {"none", "open", "silent", "doubted", "reset", "closed"}

Shape == pc \in [Connectors -> Places] /\ socket \in [Connectors -> Sockets]

Taken == stopper \in {"closing", "returned"}

Announced == stopper # "no" => stopEvent

Registering ==
  \A c \in Connectors : ~Taken /\ pc[c] \in {"poll", "recv", "ping"} => c \in listed

Closing ==
  \A c \in Connectors :
    Taken /\ pc[c] \in {"recv", "ping"} /\ c \notin toClose => socket[c] \notin Live

Closed == stopper = "returned" => toClose = {}

IInv == Shape /\ Announced /\ Registering /\ Closing /\ Closed

------------------------------------------------------------------------------

LEMMA InitIInv == Init => IInv
BY DEF Init, IInv, Shape, Places, Sockets, Announced, Registering, Closing, Closed, Taken

LEMMA IInvNobody == IInv => NobodyListens
BY DEF IInv, Closing, Closed, Taken, NobodyListens

(* What a thread does alone: it is in no place to wait on a connection      *)
(* unless it was, or has registered and found the event not set.           *)
LEMMA ThreadStep ==
  ASSUME NEW c \in Connectors, IInv, Thread(c)
  PROVE  IInv'
<1> USE DEF IInv, Goto, Set, At
<1>1. /\ UNCHANGED stopping
      /\ \E place \in Places : pc' = [pc EXCEPT ![c] = place]
      /\ socket' = socket \/ \E s \in Sockets : socket' = [socket EXCEPT ![c] = s]
      /\ listed' = listed \/ listed' = listed \cup {c} \/ listed' = listed \ {c}
  <2>1. CASE Check(c) \/ Poll(c) \/ TimeOut(c) \/ WaitEnds(c) \/ Register(c) \/ Receive(c)
    BY <2>1 DEF Check, Poll, TimeOut, WaitEnds, Register, Receive, connection, Places
  <2>2. CASE DialFails(c) \/ ReceiveFails(c)
    BY <2>2 DEF DialFails, ReceiveFails, Raise, connection, Places
  <2>3. CASE Dial(c)
    BY <2>3 DEF Dial, Places, Sockets
  <2>4. CASE Ask(c)
    <3>1. pc' = pc \/ pc' = [pc EXCEPT ![c] = "register"]
      BY <2>4 DEF Ask
    <3>2. \E place \in Places : pc' = [pc EXCEPT ![c] = place]
      BY <3>1 DEF Shape, Places
    <3>3. socket' = socket \/ \E s \in Sockets : socket' = [socket EXCEPT ![c] = s]
      BY <2>4 DEF Ask, Sent, Shape, Sockets
    <3> QED BY <2>4, <3>2, <3>3 DEF Ask
  <2>5. CASE AskFails(c)
    BY <2>5 DEF AskFails, Raise, Forgotten, Places, Sockets
  <2>6. CASE Ping(c)
    <3>1. \E place \in Places : pc' = [pc EXCEPT ![c] = place]
      BY <2>6 DEF Ping, Raise, Places
    <3>2. \E s \in Sockets : socket' = [socket EXCEPT ![c] = s]
      BY <2>6 DEF Ping, Sent, Shape, Sockets
    <3> QED BY <2>6, <3>1, <3>2 DEF Ping
  <2>7. CASE Leave(c)
    <3>1. \E s \in Sockets : socket' = [socket EXCEPT ![c] = s]
      BY <2>7 DEF Leave, Forgotten, Sockets
    <3> QED BY <2>7, <3>1 DEF Leave, Places
  <2> QED BY <2>1, <2>2, <2>3, <2>4, <2>5, <2>6, <2>7 DEF Thread
<1>2. Shape' /\ Announced' /\ Closed'
  BY <1>1 DEF Shape, Announced, Closed, stopping
<1>3. /\ pc'[c] \in {"poll", "recv", "ping"} =>
           pc[c] \in {"poll", "recv", "ping"} \/ (pc[c] = "register" /\ c \in listed')
      /\ pc'[c] \in {"recv", "ping"} =>
           (pc[c] \in {"recv", "ping"} /\ socket' = socket) \/ (pc[c] = "poll" /\ ~stopEvent)
      /\ pc'[c] \in {"poll", "recv", "ping"} => c \in listed' \/ listed' = listed
  <2>1. CASE Check(c) \/ Poll(c) \/ TimeOut(c) \/ WaitEnds(c) \/ Register(c) \/ Receive(c)
    BY <2>1 DEF Check, Poll, TimeOut, WaitEnds, Register, Receive, connection, Shape
  <2>2. CASE Dial(c) \/ DialFails(c) \/ ReceiveFails(c) \/ AskFails(c)
    BY <2>2 DEF Dial, DialFails, ReceiveFails, AskFails, Raise, Shape
  <2>3. CASE Ask(c)
    BY <2>3 DEF Ask, Shape
  <2>4. CASE Ping(c)
    BY <2>4 DEF Ping, Raise, Shape
  <2>5. CASE Leave(c)
    BY <2>5 DEF Leave, Shape
  <2> QED BY <2>1, <2>2, <2>3, <2>4, <2>5 DEF Thread
<1>4. ASSUME NEW e \in Connectors, e # c
      PROVE  pc'[e] = pc[e] /\ socket'[e] = socket[e] /\ (e \in listed' <=> e \in listed)
  BY <1>1, <1>4 DEF Shape
<1>5. Registering'
  <2> SUFFICES ASSUME NEW e \in Connectors, ~Taken', pc'[e] \in {"poll", "recv", "ping"}
               PROVE  e \in listed'
    BY DEF Registering
  <2>1. ~Taken
    BY <1>1 DEF Taken, stopping
  <2>2. CASE e = c
    BY <1>3, <2>1, <2>2 DEF Registering
  <2> QED BY <1>4, <2>1, <2>2 DEF Registering
<1>6. Closing'
  <2> SUFFICES ASSUME NEW e \in Connectors, Taken', pc'[e] \in {"recv", "ping"},
                      e \notin toClose'
               PROVE  socket'[e] \notin Live
    BY DEF Closing
  <2>1. Taken /\ stopEvent /\ e \notin toClose
    BY <1>1 DEF Taken, Announced, stopping
  <2>2. CASE e = c
    BY <1>3, <2>1, <2>2 DEF Closing
  <2> QED BY <1>4, <2>1, <2>2 DEF Closing
<1> QED BY <1>2, <1>5, <1>6

(* The network does not bring a connection to life. *)
LEMMA NetworkStep ==
  ASSUME NEW c \in Connectors, IInv, Network(c)
  PROVE  IInv'
<1> USE DEF IInv, Set
<1>1. /\ UNCHANGED <<pc, listed, stopping>>
      /\ \/ socket' = socket
         \/ /\ socket[c] \in Live
            /\ \E s \in Sockets : socket' = [socket EXCEPT ![c] = s]
  BY DEF Network, Edit, Answer, Fail, GiveUp, Live, Sockets
<1>2. Shape'
  BY <1>1 DEF Shape
<1>3. ASSUME NEW e \in Connectors PROVE socket'[e] \in Live => socket[e] \in Live
  BY <1>1, <1>3 DEF Shape
<1> QED
  BY <1>1, <1>2, <1>3 DEF Announced, Registering, Closing, Closed, Taken, stopping

LEMMA StopStep ==
  ASSUME IInv, Stop
  PROVE  IInv'
<1> USE DEF IInv, Set
<1>1. CASE StopCalled
  BY <1>1 DEF StopCalled, connection, Shape, Announced, Registering, Closing, Closed, Taken
<1>2. CASE StopCopies
  BY <1>2 DEF StopCopies, connection, Shape, Announced, Registering, Closing, Closed, Taken
<1>3. ASSUME NEW c \in Connectors, StopCloses(c) PROVE IInv'
  <2>1. Shape' /\ socket'[c] = "closed" /\ \A e \in Connectors \ {c} : socket'[e] = socket[e]
    BY <1>3 DEF StopCloses, Shape, Sockets
  <2>2. "closed" \notin Live
    BY DEF Live
  <2>3. Announced' /\ Registering' /\ Closed'
    BY <1>3 DEF StopCloses, Announced, Registering, Closed, Taken
  <2>4. Closing'
    BY <1>3, <2>1, <2>2 DEF StopCloses, Closing, Taken
  <2> QED BY <2>1, <2>3, <2>4
<1>4. CASE StopReturns
  BY <1>4 DEF StopReturns, connection, Shape, Announced, Registering, Closing, Closed, Taken
<1> QED BY <1>1, <1>2, <1>3, <1>4 DEF Stop

LEMMA StepIInv == IInv /\ [Next]_vars => IInv'
<1> SUFFICES ASSUME IInv, [Next]_vars PROVE IInv'
  OBVIOUS
<1>1. CASE UNCHANGED vars
  BY <1>1 DEF vars, connection, stopping, IInv, Shape, Announced, Registering, Closing,
              Closed, Taken
<1> QED BY <1>1, ThreadStep, NetworkStep, StopStep DEF Next

(* websocket_listener.py, stop: when it has returned, no listener thread    *)
(* waits on a connection that is alive, whatever the threads, the network  *)
(* and the server did meanwhile.                                           *)
THEOREM StopLeavesNobody == Spec => []NobodyListens
BY InitIInv, StepIInv, IInvNobody, PTL DEF Spec

------------------------------------------------------------------------------
(* What a subscription asks for. *)

Snapshot   == [guid : Seq(Bytes), version : Nat]
Message == [type : {"subscribe", "query", "event", "subdocs"},
            names : Seq(Seq(Bytes)), news : Seq(Snapshot)]

(* The documents are asked for in their order, so many at a time, and a     *)
(* connection that is given up leaves nothing behind for the next one.      *)
Progress(c) ==
  /\ asked[c] \in 0 .. Len(Guids[c])
  /\ pc[c] \in {"check", "dial", "ended"} => asked[c] = 0 /\ wire[c] = <<>>
  /\ pc[c] \in {"ask", "register", "poll", "recv", "ping"} =>
       NamesIn(wire[c]) = {Guids[c][j] : j \in 1 .. asked[c]}
  /\ pc[c] \in {"register", "poll", "recv", "ping"} => asked[c] = Len(Guids[c])
  /\ \A i \in 1 .. Len(wire[c]) : Len(wire[c][i].names) <= MaxQuery

Asking ==
  /\ pc \in [Connectors -> Places]
  /\ asked \in [Connectors -> Nat] /\ wire \in [Connectors -> Seq(Message)]
  /\ \A c \in Connectors : Progress(c)

LEMMA GuidsAreSequences ==
  ASSUME NEW c \in Connectors
  PROVE  /\ Guids[c] \in Seq(Seq(Bytes)) /\ Len(Guids[c]) \in Nat
         /\ DOMAIN Guids[c] = 1 .. Len(Guids[c])
         /\ \A j \in 1 .. Len(Guids[c]) : Guids[c][j] \in Seq(Bytes)
<1>1. Guids[c] \in Seq(Seq(Bytes))
  <2>1. Guids[c] \in Seq(Text)
    BY FrameAssumption DEF FrameAssumption
  <2> QED BY <2>1, CodecAssumption, SeqMonotonic DEF CodecAssumption
<1> QED BY <1>1, LenProperties, ElementOfSeq

(* One more message names what it names. *)
LEMMA AppendNames ==
  ASSUME NEW sent \in Seq(Message), NEW m \in Message
  PROVE  /\ Append(sent, m) \in Seq(Message)
         /\ NamesIn(Append(sent, m)) = NamesIn(sent) \cup ToSet(m.names)
         /\ Len(Append(sent, m)) = Len(sent) + 1
         /\ \A i \in 1 .. Len(sent) : Append(sent, m)[i] = sent[i]
         /\ Append(sent, m)[Len(sent) + 1] = m
<1>1. /\ Len(sent) \in Nat /\ DOMAIN sent = 1 .. Len(sent)
      /\ Append(sent, m) \in Seq(Message)
      /\ Len(Append(sent, m)) = Len(sent) + 1
      /\ \A i \in 1 .. Len(sent) : Append(sent, m)[i] = sent[i]
      /\ Append(sent, m)[Len(sent) + 1] = m
  BY LenProperties, AppendProperties
<1> DEFINE a == Append(sent, m)
<1>2. DOMAIN a = 1 .. Len(sent) + 1
  BY <1>1, LenProperties
<1>3. \A i \in 1 .. Len(sent) : a[i] = sent[i]
  BY <1>1
<1>4. a[Len(sent) + 1] = m
  BY <1>1
<1> HIDE DEF a
<1>5. 1 .. Len(sent) + 1 = (1 .. Len(sent)) \cup {Len(sent) + 1}
  BY <1>1
<1>6. NamesIn(a) = NamesIn(sent) \cup ToSet(m.names)
  BY <1>1, <1>2, <1>3, <1>4, <1>5 DEF NamesIn
<1> QED BY <1>1, <1>6 DEF a

(* A query names a piece of the folder's documents. *)
LEMMA QueryNames ==
  ASSUME NEW c \in Connectors, NEW from \in Nat, NEW to \in Nat,
         from <= to, to <= Len(Guids[c]), to - from <= MaxQuery
  PROVE  LET q == Query(SubSeq(Guids[c], from + 1, to))
         IN /\ q \in Message /\ Len(q.names) <= MaxQuery
            /\ ToSet(q.names) = {Guids[c][j] : j \in from + 1 .. to}
<1> DEFINE s == SubSeq(Guids[c], from + 1, to)
<1>1. /\ Len(Guids[c]) \in Nat
      /\ \A j \in 1 .. Len(Guids[c]) : Guids[c][j] \in Seq(Bytes)
  BY GuidsAreSequences
<1>2. \A j \in from + 1 .. to : Guids[c][j] \in Seq(Bytes)
  BY <1>1
<1>3. /\ s \in Seq(Seq(Bytes))
      /\ Len(s) = IF from + 1 <= to THEN to - (from + 1) + 1 ELSE 0
      /\ \A i \in 1 .. to - (from + 1) + 1 : s[i] = Guids[c][from + 1 + i - 1]
  <2>1. from + 1 \in Int /\ to \in Int
    OBVIOUS
  <2> QED BY <1>2, <2>1, SubSeqProperties
<1>4. Len(s) = to - from /\ \A i \in 1 .. to - from : s[i] = Guids[c][from + i]
  <2>1. to - (from + 1) + 1 = to - from
    OBVIOUS
  <2>2. \A i \in 1 .. to - from : from + 1 + i - 1 = from + i
    OBVIOUS
  <2> QED BY <1>3, <2>1, <2>2
<1>5. DOMAIN s = 1 .. to - from
  BY <1>3, <1>4, LenProperties
<1> HIDE DEF s
<1>6. ToSet(s) = {Guids[c][j] : j \in from + 1 .. to}
  <2>1. ASSUME NEW i \in 1 .. to - from PROVE from + i \in from + 1 .. to
    OBVIOUS
  <2>2. ASSUME NEW j \in from + 1 .. to PROVE j - from \in 1 .. to - from /\ from + (j - from) = j
    OBVIOUS
  <2>3. \A i \in 1 .. to - from : s[i] \in {Guids[c][j] : j \in from + 1 .. to}
    BY <1>4, <2>1
  <2>4. \A j \in from + 1 .. to : s[j - from] = Guids[c][j]
    BY <1>4, <2>2
  <2> QED BY <1>5, <2>2, <2>3, <2>4 DEF ToSet
<1>7. Query(s) \in Message /\ Query(s).names = s
  <2>1. <<>> \in Seq(Snapshot)
    OBVIOUS
  <2> QED BY <1>3, <2>1 DEF Query, Message
<1> QED BY <1>4, <1>6, <1>7 DEF s

LEMMA InitAsking == Init => Asking
<1> SUFFICES ASSUME Init PROVE Asking
  OBVIOUS
<1>1. /\ pc \in [Connectors -> Places] /\ asked \in [Connectors -> Nat]
      /\ wire \in [Connectors -> Seq(Message)]
  BY DEF Init, Places
<1>2. ASSUME NEW c \in Connectors PROVE Progress(c)
  <2>1. pc[c] = "check" /\ asked[c] = 0 /\ wire[c] = <<>>
    BY DEF Init
  <2>2. Len(<<>>) = 0 /\ Len(Guids[c]) \in Nat
    BY GuidsAreSequences
  <2> QED BY <2>1, <2>2 DEF Progress
<1> QED BY <1>1, <1>2 DEF Asking

(* A step that concerns one connector alone. *)
LEMMA AskingOf ==
  ASSUME Asking, NEW c \in Connectors, NEW p \in Places, NEW a \in Nat, NEW w \in Seq(Message),
         pc' = [pc EXCEPT ![c] = p], asked' = [asked EXCEPT ![c] = a],
         wire' = [wire EXCEPT ![c] = w],
         a \in 0 .. Len(Guids[c]),
         p \in {"check", "dial", "ended"} => a = 0 /\ w = <<>>,
         p \in {"ask", "register", "poll", "recv", "ping"} =>
           NamesIn(w) = {Guids[c][j] : j \in 1 .. a},
         p \in {"register", "poll", "recv", "ping"} => a = Len(Guids[c]),
         \A i \in 1 .. Len(w) : Len(w[i].names) <= MaxQuery
  PROVE  Asking'
<1>1. /\ pc' \in [Connectors -> Places] /\ asked' \in [Connectors -> Nat]
      /\ wire' \in [Connectors -> Seq(Message)]
  BY DEF Asking
<1>2. ASSUME NEW e \in Connectors, e # c PROVE Progress(e)'
  <2>1. pc'[e] = pc[e] /\ asked'[e] = asked[e] /\ wire'[e] = wire[e]
    BY <1>2 DEF Asking
  <2>2. Progress(e)
    BY DEF Asking
  <2> QED BY <2>1, <2>2 DEF Progress, NamesIn
<1>3. Progress(c)'
  <2>1. pc'[c] = p /\ asked'[c] = a /\ wire'[c] = w
    BY DEF Asking
  <2> QED BY <2>1 DEF Progress, NamesIn
<1> QED BY <1>1, <1>2, <1>3 DEF Asking

(* A step that goes on without sending anything. *)
LEMMA AskingMoves ==
  ASSUME Asking, NEW c \in Connectors, NEW p \in Places, pc' = [pc EXCEPT ![c] = p],
         UNCHANGED <<asked, wire>>,
         \/ p \in {"wait", "leave"}
         \/ p \in {"dial", "ended"} /\ pc[c] = "check"
         \/ p = "register" /\ pc[c] = "ask" /\ asked[c] = Len(Guids[c])
         \/ p \in {"poll", "recv", "ping"} /\ pc[c] \in {"register", "poll", "recv", "ping"}
  PROVE  Asking'
<1>1. /\ asked \in [Connectors -> Nat] /\ wire \in [Connectors -> Seq(Message)]
      /\ Progress(c)
  BY DEF Asking
<1>2. PICK a \in Nat : a = asked[c]
  BY <1>1
<1>3. PICK w \in Seq(Message) : w = wire[c]
  BY <1>1
<1>4. asked' = [asked EXCEPT ![c] = a] /\ wire' = [wire EXCEPT ![c] = w]
  BY <1>1, <1>2, <1>3
<1>5. /\ a \in 0 .. Len(Guids[c])
      /\ p \in {"check", "dial", "ended"} => a = 0 /\ w = <<>>
      /\ p \in {"ask", "register", "poll", "recv", "ping"} =>
           NamesIn(w) = {Guids[c][j] : j \in 1 .. a}
      /\ p \in {"register", "poll", "recv", "ping"} => a = Len(Guids[c])
      /\ \A i \in 1 .. Len(w) : Len(w[i].names) <= MaxQuery
  BY <1>1, <1>2, <1>3 DEF Progress
<1> QED BY <1>4, <1>5, AskingOf

(* The subscription is sent first; it names no document. *)
LEMMA DialKeepsAsking ==
  ASSUME Asking, NEW c \in Connectors, Dial(c)
  PROVE  Asking'
<1>1. /\ pc' = [pc EXCEPT ![c] = "ask"] /\ pc[c] = "dial"
      /\ wire' = [wire EXCEPT ![c] = <<Subscribe>>] /\ asked' = asked
  BY DEF Dial, Goto, Set, At
<1>2. /\ asked[c] = 0 /\ wire[c] = <<>> /\ asked' = [asked EXCEPT ![c] = 0]
  BY <1>1 DEF Asking, Progress
<1>3. Subscribe \in Message /\ Subscribe.names = <<>>
  <2>1. <<>> \in Seq(Seq(Bytes)) /\ <<>> \in Seq(Snapshot)
    OBVIOUS
  <2> QED BY <2>1 DEF Subscribe, Message
<1>4. /\ <<Subscribe>> \in Seq(Message) /\ Len(<<Subscribe>>) = 1
      /\ <<Subscribe>>[1] = Subscribe /\ DOMAIN <<Subscribe>> = {1}
  BY <1>3
<1>5. NamesIn(<<Subscribe>>) = {}
  BY <1>3, <1>4 DEF NamesIn, ToSet
<1>6. \A i \in 1 .. Len(<<Subscribe>>) : Len(<<Subscribe>>[i].names) <= MaxQuery
  <2>1. Len(<<>>) = 0 /\ 0 <= MaxQuery
    BY CodecAssumption DEF CodecAssumption
  <2>2. \A i \in 1 .. Len(<<Subscribe>>) : <<Subscribe>>[i].names = <<>>
    BY <1>3, <1>4
  <2> QED BY <2>1, <2>2
<1>7. Len(Guids[c]) \in Nat /\ 0 \in 0 .. Len(Guids[c]) /\ {Guids[c][j] : j \in 1 .. 0} = {}
  BY GuidsAreSequences
<1>8. "ask" \in Places /\ "ask" \notin {"check", "dial", "ended"}
      /\ "ask" \notin {"register", "poll", "recv", "ping"} /\ 0 \in Nat
  BY DEF Places
<1> HIDE DEF Subscribe
<1> QED BY <1>1, <1>2, <1>4, <1>5, <1>6, <1>7, <1>8, AskingOf

(* A query goes on where the last one has ended. *)
LEMMA AskKeepsAsking ==
  ASSUME Asking, NEW c \in Connectors, Ask(c)
  PROVE  Asking'
<1>1. /\ pc \in [Connectors -> Places] /\ asked \in [Connectors -> Nat]
      /\ wire \in [Connectors -> Seq(Message)]
      /\ Progress(c) /\ pc[c] = "ask"
  BY DEF Asking, Ask, At
<1>2. Len(Guids[c]) \in Nat /\ asked[c] \in 0 .. Len(Guids[c]) /\ MaxQuery \in Nat
  BY <1>1, GuidsAreSequences, CodecAssumption DEF Progress, CodecAssumption
<1>3. CASE asked[c] = Len(Guids[c])
  <2>1. pc' = [pc EXCEPT ![c] = "register"] /\ UNCHANGED <<asked, wire>>
    BY <1>2, <1>3 DEF Ask, Goto
  <2>2. "register" \in Places
    BY DEF Places
  <2> QED BY <1>1, <1>3, <2>1, <2>2, AskingMoves
<1>4. CASE asked[c] # Len(Guids[c])
  <2> DEFINE rest  == Len(Guids[c]) - asked[c]
             batch == IF rest < MaxQuery THEN rest ELSE MaxQuery
  <2>1. rest # 0 /\ batch \in Nat /\ batch <= MaxQuery /\ asked[c] + batch <= Len(Guids[c])
    BY <1>2, <1>4
  <2>2. /\ pc' = pc
        /\ asked' = [asked EXCEPT ![c] = asked[c] + batch]
        /\ wire' = [wire EXCEPT ![c] = Append(wire[c],
                      Query(SubSeq(Guids[c], asked[c] + 1, asked[c] + batch)))]
    BY <2>1 DEF Ask, Set
  <2> HIDE DEF rest, batch
  <2>3. PICK from \in Nat, to \in Nat : from = asked[c] /\ to = asked[c] + batch
    BY <1>2, <2>1
  <2>4. from <= to /\ to <= Len(Guids[c]) /\ to - from <= MaxQuery
    BY <1>2, <2>1, <2>3
  <2>5. PICK q : q = Query(SubSeq(Guids[c], from + 1, to))
    OBVIOUS
  <2>6. /\ q \in Message /\ Len(q.names) <= MaxQuery
        /\ ToSet(q.names) = {Guids[c][j] : j \in from + 1 .. to}
    BY <2>4, <2>5, QueryNames
  <2>7. PICK v \in Seq(Message) : v = wire[c]
    BY <1>1
  <2>8. PICK w : w = Append(v, q)
    OBVIOUS
  <2>9. /\ w \in Seq(Message) /\ NamesIn(w) = NamesIn(v) \cup ToSet(q.names)
        /\ Len(w) = Len(v) + 1 /\ (\A i \in 1 .. Len(v) : w[i] = v[i]) /\ w[Len(v) + 1] = q
    BY <2>6, <2>8, AppendNames
  <2>10. NamesIn(w) = {Guids[c][j] : j \in 1 .. to}
    <3>1. NamesIn(v) = {Guids[c][j] : j \in 1 .. from}
      BY <1>1, <2>3, <2>7 DEF Progress
    <3>2. 1 .. to = (1 .. from) \cup (from + 1 .. to)
      BY <2>4
    <3> QED BY <2>6, <2>9, <3>1, <3>2
  <2>11. \A i \in 1 .. Len(w) : Len(w[i].names) <= MaxQuery
    <3>1. \A i \in 1 .. Len(v) : Len(v[i].names) <= MaxQuery
      BY <1>1, <2>7 DEF Progress
    <3>2. Len(v) \in Nat
      BY LenProperties
    <3>3. \A i \in 1 .. Len(w) : i \in 1 .. Len(v) \/ i = Len(v) + 1
      BY <2>9, <3>2
    <3> QED BY <2>6, <2>9, <3>1, <3>3
  <2>12. /\ pc' = [pc EXCEPT ![c] = "ask"] /\ asked' = [asked EXCEPT ![c] = to]
         /\ wire' = [wire EXCEPT ![c] = w]
    <3>1. pc = [pc EXCEPT ![c] = "ask"]
      BY <1>1
    <3> QED BY <2>2, <2>3, <2>5, <2>7, <2>8, <3>1
  <2>13. to \in 0 .. Len(Guids[c])
    BY <2>4, <1>2
  <2>14. "ask" \in Places /\ "ask" \notin {"check", "dial", "ended"}
         /\ "ask" \notin {"register", "poll", "recv", "ping"}
    BY DEF Places
  <2> QED BY <2>9, <2>10, <2>11, <2>12, <2>13, <2>14, AskingOf
<1> QED BY <1>3, <1>4

(* What is closed is forgotten. *)
LEMMA ForgettingKeepsAsking ==
  ASSUME Asking, NEW c \in Connectors, NEW p \in {"wait", "leave", "check"},
         pc' = [pc EXCEPT ![c] = p],
         asked' = [asked EXCEPT ![c] = 0], wire' = [wire EXCEPT ![c] = <<>>]
  PROVE  Asking'
<1>1. asked' = [asked EXCEPT ![c] = 0] /\ wire' = [wire EXCEPT ![c] = <<>>]
  OBVIOUS
<1>2. p \in Places /\ 0 \in Nat /\ <<>> \in Seq(Message) /\ Len(<<>>) = 0
  BY DEF Places
<1>3. 0 \in 0 .. Len(Guids[c])
  BY GuidsAreSequences
<1>4. p \notin {"ask", "register", "poll", "recv", "ping"}
  OBVIOUS
<1>5. \A i \in 1 .. Len(<<>>) : Len(<<>>[i].names) <= MaxQuery
  BY <1>2
<1> QED BY <1>1, <1>2, <1>3, <1>4, <1>5, AskingOf

LEMMA StepAsking == Asking /\ [Next]_vars => Asking'
<1> SUFFICES ASSUME Asking, [Next]_vars PROVE Asking'
  OBVIOUS
<1> USE DEF Goto, At
<1>same. ASSUME UNCHANGED <<pc, asked, wire>> PROVE Asking'
  BY <1>same DEF Asking, Progress, NamesIn
<1>1. ASSUME NEW c \in Connectors, Thread(c) PROVE Asking'
  <2>1. CASE Check(c) \/ Register(c) \/ Poll(c) \/ Receive(c) \/ TimeOut(c) \/ WaitEnds(c)
    <3>1. UNCHANGED <<asked, wire>>
      BY <2>1 DEF Check, Register, Poll, Receive, TimeOut, WaitEnds, connection
    <3>2. PICK p \in Places :
            /\ pc' = [pc EXCEPT ![c] = p]
            /\ \/ p = "leave"
               \/ p \in {"dial", "ended"} /\ pc[c] = "check"
               \/ p \in {"poll", "recv", "ping"} /\ pc[c] \in {"register", "poll", "recv", "ping"}
      BY <2>1 DEF Check, Register, Poll, Receive, TimeOut, WaitEnds, Places
    <3> QED BY <3>1, <3>2, AskingMoves
  <2>2. CASE DialFails(c) \/ ReceiveFails(c)
    <3>1. UNCHANGED <<asked, wire>> /\ \E p \in {"leave", "wait"} : pc' = [pc EXCEPT ![c] = p]
      BY <2>2 DEF DialFails, ReceiveFails, Raise, connection
    <3>2. {"leave", "wait"} \subseteq Places
      BY DEF Places
    <3> QED BY <3>1, <3>2, AskingMoves
  <2>3. CASE Ping(c)
    <3>1. /\ UNCHANGED <<asked, wire>> /\ pc[c] = "ping"
          /\ \E p \in {"leave", "wait", "poll"} : pc' = [pc EXCEPT ![c] = p]
      BY <2>3 DEF Ping, Raise
    <3>2. {"leave", "wait", "poll"} \subseteq Places
      BY DEF Places
    <3> QED BY <3>1, <3>2, AskingMoves
  <2>4. CASE AskFails(c)
    <3>1. /\ asked' = [asked EXCEPT ![c] = 0] /\ wire' = [wire EXCEPT ![c] = <<>>]
          /\ \E p \in {"wait", "leave", "check"} : pc' = [pc EXCEPT ![c] = p]
      BY <2>4 DEF AskFails, Raise, Forgotten, Set, Goto
    <3> QED BY <3>1, ForgettingKeepsAsking
  <2>5. CASE Leave(c)
    <3>1. pc' = [pc EXCEPT ![c] = "check"]
      BY <2>5 DEF Leave, Goto
    <3>2. asked' = [asked EXCEPT ![c] = 0] /\ wire' = [wire EXCEPT ![c] = <<>>]
      BY <2>5 DEF Leave, Forgotten, Set
    <3>3. "check" \in {"wait", "leave", "check"}
      OBVIOUS
    <3> QED BY <3>1, <3>2, <3>3, ForgettingKeepsAsking
  <2> QED BY <1>1, <2>1, <2>2, <2>3, <2>4, <2>5, DialKeepsAsking, AskKeepsAsking DEF Thread
<1>2. ASSUME NEW c \in Connectors, Network(c) PROVE Asking'
  BY <1>2, <1>same DEF Network, Edit, Answer, Fail, GiveUp
<1>3. CASE Stop
  BY <1>3, <1>same DEF Stop, StopCalled, StopCopies, StopCloses, StopReturns, connection
<1>4. CASE UNCHANGED vars
  BY <1>4, <1>same DEF vars, connection
<1> QED BY <1>1, <1>2, <1>3, <1>4 DEF Next

(* relay_sdk, connect and query: when a thread waits for messages, its      *)
(* subscription has asked for every document of the folder, in queries that  *)
(* are short enough, whatever connections were refused, lost or given up     *)
(* before, for any number of documents and any length of a query.           *)
THEOREM EveryDocumentIsAskedFor == Spec => []EverythingAsked
<1>1. Asking => EverythingAsked
  <2> SUFFICES ASSUME Asking, NEW c \in Connectors, pc[c] \in {"poll", "recv", "ping"}
               PROVE  /\ NamesIn(wire[c]) = KnownGuids(c)
                      /\ \A i \in DOMAIN wire[c] : Len(wire[c][i].names) <= MaxQuery
    BY DEF EverythingAsked
  <2>1. DOMAIN Guids[c] = 1 .. Len(Guids[c])
    BY GuidsAreSequences
  <2>2. DOMAIN wire[c] = 1 .. Len(wire[c])
    BY LenProperties DEF Asking
  <2>3. Progress(c)
    BY DEF Asking
  <2> QED BY <2>1, <2>2, <2>3 DEF Progress, KnownGuids, ToSet
<1> QED BY <1>1, InitAsking, StepAsking, PTL DEF Spec
------------------------------------------------------------------------------
(* What the queue is told. *)

(* The server has handled no more than was sent, which names known         *)
(* documents only.                                                         *)
Sending ==
  /\ answered \in [Connectors -> Nat]
  /\ \A c \in Connectors : answered[c] <= Len(wire[c]) /\ NamesIn(wire[c]) \subseteq KnownGuids(c)

(* A message tells of known documents, and of no version still to come. *)
Truthful(m, c, now) ==
  \A j \in 1 .. Len(m.news) : /\ m.news[j].guid \in KnownGuids(c)
                              /\ m.news[j].version <= now[m.news[j].guid]

Versioned == UNION {[KnownGuids(c) -> Nat] : c \in Connectors}

Texts ==
  /\ text \in [Connectors -> Versioned] /\ told \in [Connectors -> Versioned]
  /\ \A c \in Connectors :
       /\ text[c] \in [KnownGuids(c) -> Nat] /\ told[c] \in [KnownGuids(c) -> Nat]
       /\ \A g \in KnownGuids(c) : told[c][g] <= text[c][g]

Telling ==
  /\ inbox \in [Connectors -> Seq(Message)]
  /\ \A c \in Connectors : \A i \in 1 .. Len(inbox[c]) : Truthful(inbox[c][i], c, text[c])

Listing ==
  /\ listed \subseteq {c \in Connectors : pc[c] \in Registered}
  /\ toClose \subseteq Connectors
  /\ stopEvent \in BOOLEAN /\ stopper \in {"no", "called", "closing", "returned"}
  /\ edits \in 0 .. MaxEdits /\ faults \in 0 .. MaxFaults

Telltale == Shape /\ Asking /\ Sending /\ Texts /\ Telling /\ Listing

(* A subscription to events, or a query for some documents. *)
Sayable(m) == m = Subscribe \/ (m.type = "query" /\ m.names # <<>>)

(* What a thread or the network may have done to the messages sent. *)
LEMMA WireStep ==
  ASSUME Asking, NEW c \in Connectors, Thread(c) \/ Network(c)
  PROVE  \/ UNCHANGED wire /\ UNCHANGED answered
         \/ /\ UNCHANGED wire /\ answered[c] < Len(wire[c])
            /\ answered' = [answered EXCEPT ![c] = answered[c] + 1]
         \/ /\ wire' = [wire EXCEPT ![c] = <<>>] /\ answered' = [answered EXCEPT ![c] = 0]
         \/ /\ UNCHANGED answered
            /\ \E m \in Message : /\ ToSet(m.names) \subseteq KnownGuids(c) /\ Sayable(m)
                                  /\ wire' = [wire EXCEPT ![c] = Append(wire[c], m)]
<1>1. CASE Dial(c)
  <2>1. wire[c] = <<>> /\ wire' = [wire EXCEPT ![c] = <<Subscribe>>] /\ UNCHANGED answered
    BY <1>1 DEF Dial, At, Set, Asking, Progress
  <2>2. Subscribe \in Message /\ ToSet(Subscribe.names) = {}
    <3>1. <<>> \in Seq(Seq(Bytes)) /\ <<>> \in Seq(Snapshot)
      OBVIOUS
    <3> QED BY <3>1 DEF Subscribe, Message, ToSet
  <2>3. Append(<<>>, Subscribe) = <<Subscribe>>
    OBVIOUS
  <2>4. Sayable(Subscribe)
    BY DEF Sayable
  <2> QED BY <2>1, <2>2, <2>3, <2>4
<1>2. CASE Ask(c)
  <2>1. UNCHANGED answered
    BY <1>2 DEF Ask
  <2>2. Len(Guids[c]) \in Nat /\ asked[c] \in 0 .. Len(Guids[c]) /\ MaxQuery \in Nat \ {0}
    BY GuidsAreSequences, CodecAssumption DEF Asking, Progress, CodecAssumption
  <2>3. CASE asked[c] = Len(Guids[c])
    BY <1>2, <2>1, <2>2, <2>3 DEF Ask
  <2>4. CASE asked[c] # Len(Guids[c])
    <3>1. PICK from \in Nat, to \in Nat :
            /\ from < to /\ to <= Len(Guids[c]) /\ to - from <= MaxQuery
            /\ wire' = [wire EXCEPT ![c] = Append(wire[c], Query(SubSeq(Guids[c], from + 1, to)))]
      <4> DEFINE rest  == Len(Guids[c]) - asked[c]
                 batch == IF rest < MaxQuery THEN rest ELSE MaxQuery
      <4>1. rest # 0 /\ batch \in Nat \ {0} /\ batch <= MaxQuery /\ asked[c] + batch <= Len(Guids[c])
        BY <2>2, <2>4
      <4>2. wire' = [wire EXCEPT ![c] = Append(wire[c],
                       Query(SubSeq(Guids[c], asked[c] + 1, asked[c] + batch)))]
        BY <1>2, <4>1 DEF Ask, Set
      <4> HIDE DEF rest, batch
      <4>3. PICK from \in Nat, to \in Nat : from = asked[c] /\ to = asked[c] + batch
        BY <2>2, <4>1
      <4>4. from < to /\ to <= Len(Guids[c]) /\ to - from <= MaxQuery
        BY <2>2, <4>1, <4>3
      <4> QED BY <4>2, <4>3, <4>4
    <3>2. PICK q : q = Query(SubSeq(Guids[c], from + 1, to))
      OBVIOUS
    <3>3. q \in Message /\ ToSet(q.names) = {Guids[c][j] : j \in from + 1 .. to}
      <4>1. from <= to
        BY <3>1
      <4> QED BY <3>1, <3>2, <4>1, QueryNames
    <3>4. \A j \in from + 1 .. to : j \in DOMAIN Guids[c]
      BY <2>2, <3>1, GuidsAreSequences
    <3>5. ToSet(q.names) \subseteq KnownGuids(c)
      BY <3>3, <3>4 DEF KnownGuids, ToSet
    <3>6. Sayable(q)
      <4>1. from + 1 \in from + 1 .. to
        BY <3>1
      <4>2. ToSet(q.names) # {}
        BY <3>3, <4>1
      <4>3. q.names # <<>>
        BY <4>2 DEF ToSet
      <4> QED BY <3>2, <4>3 DEF Query, Sayable
    <3> QED BY <2>1, <3>1, <3>2, <3>3, <3>5, <3>6
  <2> QED BY <2>3, <2>4
<1>3. CASE AskFails(c) \/ Leave(c)
  BY <1>3 DEF AskFails, Leave, Forgotten, Set
<1>4. CASE Answer(c)
  BY <1>4 DEF Answer, Set
<1> QED
  BY <1>1, <1>2, <1>3, <1>4
  DEF Thread, Network, Check, DialFails, Register, Poll, Receive, ReceiveFails, TimeOut, Ping,
      WaitEnds, Edit, Fail, GiveUp, connection

LEMMA SendingStep == ASSUME Asking, Sending, [Next]_vars PROVE Sending'
<1>1. ASSUME UNCHANGED <<wire, answered>> PROVE Sending'
  BY <1>1 DEF Sending, NamesIn
<1>2. ASSUME NEW c \in Connectors, Thread(c) \/ Network(c) PROVE Sending'
  <2> USE DEF Sending
  <2>1. wire \in [Connectors -> Seq(Message)] /\ Len(wire[c]) \in Nat
    BY LenProperties DEF Asking
  <2>2. PICK v \in Seq(Message) : v = wire[c]
    BY <2>1
  <2>3. CASE UNCHANGED <<wire, answered>>
    BY <1>1, <2>3
  <2>4. CASE /\ UNCHANGED wire /\ answered[c] < Len(wire[c])
             /\ answered' = [answered EXCEPT ![c] = answered[c] + 1]
    BY <2>1, <2>4 DEF NamesIn
  <2>5. CASE wire' = [wire EXCEPT ![c] = <<>>] /\ answered' = [answered EXCEPT ![c] = 0]
    <3>1. Len(<<>>) = 0 /\ NamesIn(<<>>) = {}
      BY DEF NamesIn
    <3>2. \A e \in Connectors : e # c => wire'[e] = wire[e] /\ answered'[e] = answered[e]
      BY <2>1, <2>5
    <3>3. wire'[c] = <<>> /\ answered'[c] = 0
      BY <2>1, <2>5
    <3>4. answered' \in [Connectors -> Nat]
      BY <2>5
    <3> QED BY <3>1, <3>2, <3>3, <3>4 DEF NamesIn
  <2>6. CASE /\ UNCHANGED answered
             /\ \E m \in Message : /\ ToSet(m.names) \subseteq KnownGuids(c)
                                   /\ wire' = [wire EXCEPT ![c] = Append(wire[c], m)]
    <3>1. PICK m \in Message : /\ ToSet(m.names) \subseteq KnownGuids(c)
                               /\ wire' = [wire EXCEPT ![c] = Append(wire[c], m)]
      BY <2>6
    <3>2. PICK w : w = Append(v, m)
      OBVIOUS
    <3>3. NamesIn(w) = NamesIn(v) \cup ToSet(m.names) /\ Len(w) = Len(v) + 1
      BY <3>2, AppendNames
    <3>4. wire'[c] = w /\ \A e \in Connectors : e # c => wire'[e] = wire[e]
      BY <2>1, <2>2, <3>1, <3>2
    <3>5. Len(v) \in Nat /\ answered[c] \in Nat /\ answered[c] <= Len(v)
      BY <2>1, <2>2
    <3>6. answered[c] <= Len(w) /\ NamesIn(w) \subseteq KnownGuids(c)
      BY <2>2, <3>1, <3>3, <3>5
    <3> QED BY <2>6, <3>4, <3>6 DEF NamesIn
  <2> QED BY <1>2, <2>3, <2>4, <2>5, <2>6, WireStep
<1>3. CASE Stop
  BY <1>1, <1>3 DEF Stop, StopCalled, StopCopies, StopCloses, StopReturns, connection
<1>4. CASE UNCHANGED vars
  BY <1>1, <1>4 DEF vars, connection
<1> QED BY <1>1, <1>2, <1>3, <1>4 DEF Next

(* A message that stands in a connection's inbox. *)
LEMMA InboxElements ==
  ASSUME NEW s \in Seq(Message), NEW m \in Message
  PROVE  /\ Append(s, m) \in Seq(Message)
         /\ \A i \in 1 .. Len(Append(s, m)) : Append(s, m)[i] = m \/ \E j \in 1 .. Len(s) : Append(s, m)[i] = s[j]
<1>1. /\ Append(s, m) \in Seq(Message) /\ Len(Append(s, m)) = Len(s) + 1 /\ Len(s) \in Nat
      /\ \A i \in 1 .. Len(s) : Append(s, m)[i] = s[i]
      /\ Append(s, m)[Len(s) + 1] = m
  BY AppendProperties, LenProperties
<1>2. \A i \in 1 .. Len(s) + 1 : i \in 1 .. Len(s) \/ i = Len(s) + 1
  BY <1>1
<1> QED BY <1>1, <1>2

LEMMA InboxPrefix ==
  ASSUME NEW s \in Seq(Message), NEW n \in 0 .. Len(s)
  PROVE  /\ SubSeq(s, 1, n) \in Seq(Message)
         /\ \A i \in 1 .. Len(SubSeq(s, 1, n)) : \E j \in 1 .. Len(s) : SubSeq(s, 1, n)[i] = s[j]
<1>1. Len(s) \in Nat /\ \A i \in 1 .. Len(s) : s[i] \in Message
  BY LenProperties, ElementOfSeq
<1>2. n \in Int /\ 1 \in Int /\ \A i \in 1 .. n : s[i] \in Message
  BY <1>1
<1>3. /\ SubSeq(s, 1, n) \in Seq(Message)
      /\ Len(SubSeq(s, 1, n)) = IF 1 <= n THEN n - 1 + 1 ELSE 0
      /\ \A i \in 1 .. n - 1 + 1 : SubSeq(s, 1, n)[i] = s[1 + i - 1]
  BY <1>2, SubSeqProperties
<1>4. Len(SubSeq(s, 1, n)) = n
  BY <1>1, <1>3
<1>5. n - 1 + 1 = n /\ \A i \in 1 .. n : 1 + i - 1 = i /\ i \in 1 .. Len(s)
  BY <1>1
<1> QED BY <1>3, <1>4, <1>5

(* Messages stay truthful as long as no version is taken back. *)
Growing ==
  \A e \in Connectors : /\ text'[e] \in [KnownGuids(e) -> Nat]
                        /\ \A g \in KnownGuids(e) : text[e][g] <= text'[e][g]

LEMMA StaysTruthful ==
  ASSUME Texts, Growing, NEW c \in Connectors, NEW m \in Message, Truthful(m, c, text[c])
  PROVE  Truthful(m, c, text'[c])
<1>1. \A j \in 1 .. Len(m.news) : m.news[j] \in Snapshot
  BY ElementOfSeq DEF Message
<1> SUFFICES ASSUME NEW j \in 1 .. Len(m.news)
             PROVE  /\ m.news[j].guid \in KnownGuids(c)
                    /\ m.news[j].version <= text'[c][m.news[j].guid]
  BY DEF Truthful
<1>2. PICK g, v : g = m.news[j].guid /\ v = m.news[j].version
  OBVIOUS
<1>3. v \in Nat
  BY <1>1, <1>2 DEF Snapshot
<1>4. g \in KnownGuids(c) /\ v <= text[c][g]
  BY <1>2 DEF Truthful
<1>5. text[c][g] \in Nat /\ text'[c][g] \in Nat /\ text[c][g] <= text'[c][g]
  BY <1>4 DEF Texts, Growing
<1> QED BY <1>2, <1>3, <1>4, <1>5

LEMMA UnchangedGrows == ASSUME Texts, UNCHANGED text PROVE Growing
<1>1. \A e \in Connectors : \A g \in KnownGuids(e) : text[e][g] \in Nat
  BY DEF Texts
<1> QED BY <1>1 DEF Texts, Growing

(* One inbox has become s: what is new in it is truthful. *)
LEMMA TellingNext ==
  ASSUME Texts, Telling, Growing, NEW c \in Connectors, NEW s \in Seq(Message),
         inbox' = [inbox EXCEPT ![c] = s],
         \A i \in 1 .. Len(s) :
           Truthful(s[i], c, text'[c]) \/ \E j \in 1 .. Len(inbox[c]) : s[i] = inbox[c][j]
  PROVE  Telling'
<1>1. inbox' \in [Connectors -> Seq(Message)] /\ inbox'[c] = s
      /\ \A e \in Connectors : e # c => inbox'[e] = inbox[e]
  BY DEF Telling
<1>2. \A e \in Connectors : \A i \in 1 .. Len(inbox[e]) : inbox[e][i] \in Message
  BY ElementOfSeq DEF Telling
<1>3. \A e \in Connectors : \A i \in 1 .. Len(inbox[e]) : Truthful(inbox[e][i], e, text'[e])
  BY <1>2, StaysTruthful DEF Telling
<1>4. \A i \in 1 .. Len(s) : Truthful(s[i], c, text'[c])
  BY <1>3
<1> QED BY <1>1, <1>3, <1>4 DEF Telling

LEMMA TellingKeeps == ASSUME Texts, Telling, Growing, UNCHANGED inbox PROVE Telling'
<1>1. \A e \in Connectors : \A i \in 1 .. Len(inbox[e]) : inbox[e][i] \in Message
  BY ElementOfSeq DEF Telling
<1>2. \A e \in Connectors : \A i \in 1 .. Len(inbox[e]) : Truthful(inbox[e][i], e, text'[e])
  BY <1>1, StaysTruthful DEF Telling
<1> QED BY <1>2 DEF Telling

(* A message of news is one. *)
LEMMA NewsMessage ==
  ASSUME NEW type \in {"event", "subdocs"}, NEW new \in Seq(Snapshot)
  PROVE  News(type, new) \in Message /\ News(type, new).news = new
<1>1. <<>> \in Seq(Seq(Bytes))
  OBVIOUS
<1> QED BY <1>1 DEF News, Message

LEMMA KnownAreBytes == ASSUME NEW c \in Connectors, NEW g \in KnownGuids(c) PROVE g \in Seq(Bytes)
BY GuidsAreSequences DEF KnownGuids, ToSet

(* A user's edit: the event tells of the version that it makes. *)
LEMMA EditTells ==
  ASSUME Texts, Telling, NEW c \in Connectors, NEW g \in KnownGuids(c), Edit(c, g)
  PROVE  Texts' /\ Telling'
<1>1. text[c] \in [KnownGuids(c) -> Nat] /\ text[c][g] \in Nat
  BY DEF Texts
<1>2. PICK t : t = [text[c] EXCEPT ![g] = text[c][g] + 1]
  OBVIOUS
<1>3. t \in [KnownGuids(c) -> Nat] /\ t[g] = text[c][g] + 1
      /\ \A h \in KnownGuids(c) : h # g => t[h] = text[c][h]
  BY <1>1, <1>2
<1>4. text' = [text EXCEPT ![c] = t] /\ told' = told
  BY <1>2 DEF Edit
<1>5. text'[c] = t /\ \A e \in Connectors : e # c => text'[e] = text[e]
  BY <1>4 DEF Texts
<1>6. text' \in [Connectors -> Versioned]
  <2>1. t \in Versioned
    BY <1>3 DEF Versioned
  <2> QED BY <1>4, <2>1 DEF Texts
<1>7. \A h \in KnownGuids(c) : text[c][h] \in Nat /\ t[h] \in Nat /\ text[c][h] <= t[h]
  BY <1>1, <1>3
<1>8. Texts'
  <2>1. \A h \in KnownGuids(c) : told[c][h] \in Nat /\ told[c][h] <= text[c][h]
    BY DEF Texts
  <2>2. \A h \in KnownGuids(c) : told[c][h] <= t[h]
    BY <1>7, <2>1
  <2> QED BY <1>3, <1>4, <1>5, <1>6, <2>2 DEF Texts
<1>9. Growing
  <2>1. \A e \in Connectors : \A h \in KnownGuids(e) : text[e][h] \in Nat
    BY DEF Texts
  <2> QED BY <1>3, <1>5, <1>7, <2>1 DEF Texts, Growing
<1>10. CASE UNCHANGED inbox
  BY <1>8, <1>9, <1>10, TellingKeeps
<1>11. CASE inbox' = [inbox EXCEPT ![c] = Append(inbox[c],
                        News("event", <<[guid |-> g, version |-> text[c][g] + 1]>>))]
  <2>1. PICK n : n = [guid |-> g, version |-> text[c][g] + 1]
    OBVIOUS
  <2>2. n \in Snapshot /\ n.guid = g /\ n.version = t[g]
    BY <1>1, <1>3, <2>1, KnownAreBytes DEF Snapshot
  <2>3. <<n>> \in Seq(Snapshot) /\ Len(<<n>>) = 1 /\ <<n>>[1] = n
    BY <2>2
  <2>4. PICK m : m = News("event", <<n>>)
    OBVIOUS
  <2>5. m \in Message /\ m.news = <<n>>
    BY <2>3, <2>4, NewsMessage
  <2>6. Truthful(m, c, text'[c])
    <3>1. \A j \in 1 .. Len(m.news) : m.news[j] = n
      BY <2>3, <2>5
    <3>2. n.guid \in KnownGuids(c) /\ n.version <= t[n.guid]
      BY <1>7, <2>2
    <3> QED BY <1>5, <3>1, <3>2 DEF Truthful
  <2>7. PICK v \in Seq(Message) : v = inbox[c]
    BY DEF Telling
  <2>8. PICK s : s = Append(v, m)
    OBVIOUS
  <2>9. /\ s \in Seq(Message)
        /\ \A i \in 1 .. Len(s) : s[i] = m \/ \E j \in 1 .. Len(v) : s[i] = v[j]
    BY <2>5, <2>8, InboxElements
  <2>10. inbox' = [inbox EXCEPT ![c] = s]
    BY <1>11, <2>1, <2>4, <2>7, <2>8
  <2>11. \A i \in 1 .. Len(s) :
           Truthful(s[i], c, text'[c]) \/ \E j \in 1 .. Len(inbox[c]) : s[i] = inbox[c][j]
    BY <2>6, <2>7, <2>9
  <2> QED BY <1>8, <1>9, <2>9, <2>10, <2>11, TellingNext
<1> QED BY <1>8, <1>10, <1>11 DEF Edit, Set

(* An answer tells of the versions that there are. *)
LEMMA AnswerTells ==
  ASSUME Texts, Telling, Asking, Sending, NEW c \in Connectors, Answer(c)
  PROVE  Telling'
<1>1. UNCHANGED text
  BY DEF Answer, server
<1>2. Growing
  BY <1>1, UnchangedGrows
<1>3. PICK k : k = answered[c] + 1
  OBVIOUS
<1>4. wire[c] \in Seq(Message) /\ DOMAIN wire[c] = 1 .. Len(wire[c]) /\ Len(wire[c]) \in Nat
  BY LenProperties DEF Asking
<1>5. k \in 1 .. Len(wire[c])
  BY <1>3, <1>4 DEF Answer, Sending
<1>6. PICK names : names = wire[c][k].names
  OBVIOUS
<1>7. names \in Seq(Seq(Bytes)) /\ ToSet(names) \subseteq KnownGuids(c)
  <2>1. wire[c][k] \in Message
    BY <1>4, <1>5, ElementOfSeq
  <2>2. ToSet(names) \subseteq NamesIn(wire[c])
    BY <1>4, <1>5, <1>6 DEF NamesIn
  <2> QED BY <1>6, <2>1, <2>2 DEF Message, Sending
<1>8. DOMAIN names = 1 .. Len(names) /\ Len(names) \in Nat
      /\ \A i \in 1 .. Len(names) : names[i] \in KnownGuids(c)
  BY <1>7, LenProperties DEF ToSet
<1>9. PICK now : now = text[c]
  OBVIOUS
<1>10. now \in [KnownGuids(c) -> Nat] /\ text'[c] = now
  BY <1>1, <1>9 DEF Texts
<1>11. PICK heads : heads = [i \in DOMAIN names |-> [guid |-> names[i], version |-> now[names[i]]]]
  OBVIOUS
<1>12. \A i \in 1 .. Len(names) : /\ heads[i] \in Snapshot /\ heads[i].guid = names[i]
                                  /\ heads[i].version = now[names[i]]
  BY <1>8, <1>10, <1>11, KnownAreBytes DEF Snapshot
<1>13. heads \in Seq(Snapshot) /\ Len(heads) = Len(names)
  <2>1. heads \in [1 .. Len(names) -> Snapshot]
    BY <1>8, <1>11, <1>12
  <2> QED BY <1>8, <2>1, SeqDef, LenProperties
<1>14. PICK m : m = News("subdocs", heads)
  OBVIOUS
<1>15. m \in Message /\ m.news = heads
  BY <1>13, <1>14, NewsMessage
<1>16. Truthful(m, c, text'[c])
  <2>1. \A i \in 1 .. Len(names) : now[names[i]] \in Nat /\ now[names[i]] <= now[names[i]]
    BY <1>8, <1>10
  <2> QED BY <1>8, <1>10, <1>12, <1>13, <1>15, <2>1 DEF Truthful
<1>17. CASE UNCHANGED inbox
  BY <1>2, <1>17, TellingKeeps
<1>18. CASE inbox' = [inbox EXCEPT ![c] = Append(inbox[c], m)]
  <2>1. PICK v \in Seq(Message) : v = inbox[c]
    BY DEF Telling
  <2>2. PICK s : s = Append(v, m)
    OBVIOUS
  <2>3. /\ s \in Seq(Message)
        /\ \A i \in 1 .. Len(s) : s[i] = m \/ \E j \in 1 .. Len(v) : s[i] = v[j]
    BY <1>15, <2>2, InboxElements
  <2>4. inbox' = [inbox EXCEPT ![c] = s]
    BY <1>18, <2>1, <2>2
  <2>5. \A i \in 1 .. Len(s) :
           Truthful(s[i], c, text'[c]) \/ \E j \in 1 .. Len(inbox[c]) : s[i] = inbox[c][j]
    BY <1>16, <2>1, <2>3
  <2> QED BY <1>2, <2>3, <2>4, <2>5, TellingNext
<1> QED BY <1>3, <1>6, <1>9, <1>11, <1>14, <1>17, <1>18 DEF Answer, Set

LEMMA FailTells ==
  ASSUME Texts, Telling, NEW c \in Connectors, NEW how, Fail(c, how)
  PROVE  Telling'
<1>1. UNCHANGED text
  BY DEF Fail, server
<1>2. PICK v \in Seq(Message) : v = inbox[c]
  BY DEF Telling
<1>3. PICK n \in 0 .. Len(v) : inbox' = [inbox EXCEPT ![c] = SubSeq(v, 1, n)]
  BY <1>2 DEF Fail, Set
<1>4. PICK s : s = SubSeq(v, 1, n)
  OBVIOUS
<1>5. s \in Seq(Message) /\ \A i \in 1 .. Len(s) : \E j \in 1 .. Len(v) : s[i] = v[j]
  BY <1>4, InboxPrefix
<1> QED BY <1>1, <1>2, <1>3, <1>4, <1>5, UnchangedGrows, TellingNext

(* What is handed to the queue is in a message, and so not to come. *)
LEMMA ReceiveTells ==
  ASSUME Texts, Telling, NEW c \in Connectors, Receive(c)
  PROVE  Texts' /\ Telling'
<1>1. UNCHANGED text
  BY DEF Receive, server
<1>2. Growing
  BY <1>1, UnchangedGrows
<1>3. PICK v \in Seq(Message) : v = inbox[c]
  BY DEF Telling
<1>4. v # <<>> /\ inbox' = [inbox EXCEPT ![c] = Tail(v)]
  BY <1>3 DEF Receive, Set
<1>5. PICK s : s = Tail(v)
  OBVIOUS
<1>6. /\ s \in Seq(Message) /\ Len(v) \in Nat /\ Len(v) # 0 /\ Len(s) = Len(v) - 1
      /\ \A i \in 1 .. Len(s) : s[i] = v[i + 1]
      /\ Head(v) = v[1]
  BY <1>4, <1>5, HeadTailProperties, EmptySeq, LenProperties
<1>7. \A i \in 1 .. Len(s) : \E j \in 1 .. Len(v) : s[i] = v[j]
  <2>1. \A i \in 1 .. Len(s) : i + 1 \in 1 .. Len(v)
    BY <1>6
  <2> QED BY <1>6, <2>1
<1>8. Telling'
  BY <1>2, <1>3, <1>4, <1>5, <1>6, <1>7, TellingNext
<1>9. PICK m : m = v[1]
  OBVIOUS
<1>10. m \in Message /\ Truthful(m, c, text[c])
  <2>1. 1 \in 1 .. Len(v)
    BY <1>6
  <2> QED BY <1>3, <1>9, <2>1, ElementOfSeq DEF Telling
<1>11. PICK now, was : now = text[c] /\ was = told[c]
  OBVIOUS
<1>12. now \in [KnownGuids(c) -> Nat] /\ was \in [KnownGuids(c) -> Nat]
       /\ \A g \in KnownGuids(c) : was[g] <= now[g]
  BY <1>11 DEF Texts
<1>13. PICK news : news = ToSet(m.news)
  OBVIOUS
<1>14. \A n \in news : n \in Snapshot /\ n.guid \in KnownGuids(c) /\ n.version <= now[n.guid]
  <2>1. DOMAIN m.news = 1 .. Len(m.news) /\ \A j \in 1 .. Len(m.news) : m.news[j] \in Snapshot
    BY <1>10, ElementOfSeq, LenProperties DEF Message
  <2> QED BY <1>10, <1>11, <1>13, <2>1 DEF Truthful, ToSet
<1> DEFINE heard(g) == {was[g]} \cup {x.version : x \in {n \in news : n.guid = g}}
<1>15. PICK t : t = [g \in KnownGuids(c) |-> Max(heard(g))]
  OBVIOUS
<1>16. told' = [told EXCEPT ![c] = t]
  BY <1>3, <1>6, <1>9, <1>11, <1>13, <1>15 DEF Receive
<1>17. ASSUME NEW g \in KnownGuids(c) PROVE t[g] \in Nat /\ t[g] <= now[g]
  <2>1. now[g] \in Nat /\ was[g] \in Nat /\ was[g] <= now[g]
    BY <1>12
  <2>2. \A x \in heard(g) : x \in Nat /\ x <= now[g]
    <3>1. \A n \in news : n.guid = g => n.version \in Nat /\ n.version <= now[g]
      BY <1>14 DEF Snapshot
    <3> QED BY <2>1, <3>1
  <2>3. heard(g) # {} /\ heard(g) \subseteq 0 .. now[g]
    BY <2>1, <2>2
  <2>4. PICK S : S = heard(g)
    OBVIOUS
  <2> HIDE DEF heard
  <2>5. PICK x \in S : \A y \in S : y <= x
    BY <2>1, <2>3, <2>4, GreatestExists
  <2>6. \A y \in S : x >= y
    BY <2>2, <2>4, <2>5
  <2>7. Max(S) \in S
    BY <2>6 DEF Max
  <2>8. t[g] = Max(S)
    BY <1>15, <2>4
  <2> QED BY <2>2, <2>4, <2>7, <2>8
<1> HIDE DEF heard
<1>18. t \in [KnownGuids(c) -> Nat]
  BY <1>15, <1>17
<1>19. told' \in [Connectors -> Versioned]
  <2>1. t \in Versioned
    BY <1>18 DEF Versioned
  <2> QED BY <1>16, <2>1 DEF Texts
<1>20. told'[c] = t /\ \A e \in Connectors : e # c => told'[e] = told[e]
  BY <1>16 DEF Texts
<1>21. Texts'
  BY <1>1, <1>11, <1>17, <1>18, <1>19, <1>20 DEF Texts
<1> QED BY <1>8, <1>21

LEMMA TellingStep == ASSUME Asking, Sending, Texts, Telling, [Next]_vars PROVE Texts' /\ Telling'
<1>1. ASSUME UNCHANGED <<text, told, inbox>> PROVE Texts' /\ Telling'
  <2>1. Growing
    BY <1>1, UnchangedGrows
  <2>2. Telling'
    BY <1>1, <2>1, TellingKeeps
  <2> QED BY <1>1, <2>2 DEF Texts
<1>2. ASSUME UNCHANGED <<text, told>> PROVE Texts'
  BY <1>2 DEF Texts
<1>3. ASSUME NEW c \in Connectors, Thread(c) PROVE Texts' /\ Telling'
  <2>1. CASE Receive(c)
    BY <2>1, ReceiveTells
  <2>2. CASE AskFails(c) \/ Leave(c)
    <3>1. UNCHANGED <<text, told>> /\ inbox' = [inbox EXCEPT ![c] = <<>>]
      BY <2>2 DEF AskFails, Leave, Forgotten, Set, server
    <3>2. <<>> \in Seq(Message) /\ Len(<<>>) = 0
      OBVIOUS
    <3>3. PICK s \in Seq(Message) : s = <<>>
      BY <3>2
    <3>4. \A i \in 1 .. Len(s) : FALSE
      BY <3>2, <3>3
    <3>5. Telling'
      BY <3>1, <3>3, <3>4, UnchangedGrows, TellingNext
    <3> QED BY <1>2, <3>1, <3>5
  <2> QED
    BY <1>1, <1>3, <2>1, <2>2
    DEF Thread, Check, Dial, DialFails, Ask, Register, Poll, ReceiveFails, TimeOut, Ping, WaitEnds,
        connection, server
<1>4. ASSUME NEW c \in Connectors, Network(c) PROVE Texts' /\ Telling'
  <2>1. CASE Answer(c)
    BY <1>2, <2>1, AnswerTells DEF Answer, server
  <2>2. CASE \E how \in {"reset", "silent"} : Fail(c, how)
    BY <1>2, <2>2, FailTells DEF Fail, server
  <2>3. CASE GiveUp(c)
    BY <1>1, <2>3 DEF GiveUp, server
  <2> QED BY <1>4, <2>1, <2>2, <2>3, EditTells DEF Network
<1>5. CASE Stop
  BY <1>1, <1>5 DEF Stop, StopCalled, StopCopies, StopCloses, StopReturns, connection, server
<1>6. CASE UNCHANGED vars
  BY <1>1, <1>6 DEF vars, connection, server
<1> QED BY <1>3, <1>4, <1>5, <1>6 DEF Next

(* Only registering lists a connector, and only leaving ends its            *)
(* registration.                                                           *)
LEMMA ListingStep == ASSUME Shape, Listing, [Next]_vars PROVE Listing'
<1> USE DEF Goto, Set, At
<1>1. edits' \in 0 .. MaxEdits /\ faults' \in 0 .. MaxFaults
  <2>1. edits' = edits \/ (edits < MaxEdits /\ edits' = edits + 1)
    BY DEF Next, Thread, Network, Stop, Check, Dial, DialFails, Ask, AskFails, Register, Poll, Receive,
           ReceiveFails, TimeOut, Ping, WaitEnds, Leave, Edit, Answer, Fail, GiveUp, StopCalled,
           StopCopies, StopCloses, StopReturns, vars, server
  <2>2. faults' = faults \/ (faults < MaxFaults /\ faults' = faults + 1)
    BY DEF Next, Thread, Network, Stop, Check, Dial, DialFails, Ask, AskFails, Register, Poll, Receive,
           ReceiveFails, TimeOut, Ping, WaitEnds, Leave, Edit, Answer, Fail, GiveUp, StopCalled,
           StopCopies, StopCloses, StopReturns, vars
  <2> QED BY <2>1, <2>2, ListenerAssumption DEF Listing, ListenerAssumption
<1>2. ASSUME NEW c \in Connectors, Thread(c) PROVE Listing'
  <2>1. UNCHANGED stopping
    BY <1>2 DEF Thread, Check, Dial, DialFails, Ask, AskFails, Register, Poll, Receive,
                ReceiveFails, TimeOut, Ping, WaitEnds, Leave
  <2>2. \A e \in Connectors : e # c => pc'[e] = pc[e]
    BY <1>2 DEF Thread, Check, Dial, DialFails, Ask, AskFails, Register, Poll, Receive, Raise,
                ReceiveFails, TimeOut, Ping, WaitEnds, Leave, Shape
  <2>3. \/ listed' = listed \ {c}
        \/ listed' \subseteq listed \cup {c} /\ pc'[c] \in Registered
        \/ listed' = listed /\ pc[c] \notin Registered
    <3>1. CASE Check(c) \/ Dial(c) \/ Ask(c)
      BY <3>1 DEF Check, Dial, Ask, Registered
    <3>2. CASE DialFails(c) \/ ReceiveFails(c) \/ AskFails(c)
      BY <3>2 DEF DialFails, ReceiveFails, AskFails, Raise, Shape, Registered
    <3>3. CASE Register(c) \/ Poll(c) \/ Receive(c) \/ TimeOut(c) \/ WaitEnds(c)
      BY <3>3 DEF Register, Poll, Receive, TimeOut, WaitEnds, Shape, Registered
    <3>4. CASE Ping(c)
      BY <3>4 DEF Ping, Raise, Shape, Registered
    <3>5. CASE Leave(c)
      BY <3>5 DEF Leave
    <3> QED BY <1>2, <3>1, <3>2, <3>3, <3>4, <3>5 DEF Thread
  <2>4. listed' \subseteq {e \in Connectors : pc'[e] \in Registered}
    BY <2>2, <2>3 DEF Listing
  <2> QED BY <1>1, <2>1, <2>4 DEF Listing, stopping
<1>3. ASSUME NEW c \in Connectors, Network(c) PROVE Listing'
  <2>1. UNCHANGED <<pc, listed, stopping>>
    BY <1>3 DEF Network, Edit, Answer, Fail, GiveUp
  <2> QED BY <1>1, <2>1 DEF Listing, stopping
<1>4. CASE Stop
  BY <1>1, <1>4 DEF Stop, StopCalled, StopCopies, StopCloses, StopReturns, Listing
<1>5. CASE UNCHANGED vars
  BY <1>1, <1>5 DEF vars, stopping, Listing
<1> QED BY <1>2, <1>3, <1>4, <1>5 DEF Next

LEMMA InitTelltale == Init => Telltale
<1> SUFFICES ASSUME Init PROVE Telltale
  OBVIOUS
<1>1. Shape /\ Asking
  BY InitIInv, InitAsking DEF IInv
<1>2. Sending
  <2>1. \A c \in Connectors : wire[c] = <<>> /\ answered[c] = 0
    BY DEF Init
  <2>2. Len(<<>>) = 0 /\ NamesIn(<<>>) = {}
    BY DEF NamesIn
  <2>3. answered \in [Connectors -> Nat]
    BY DEF Init
  <2> QED BY <2>1, <2>2, <2>3 DEF Sending
<1>3. Texts
  <2>1. \A c \in Connectors : text[c] = [g \in KnownGuids(c) |-> 0] /\ told[c] = text[c]
    BY DEF Init
  <2>2. ASSUME NEW c \in Connectors
        PROVE  /\ text[c] \in [KnownGuids(c) -> Nat]
               /\ \A g \in KnownGuids(c) : text[c][g] = 0 /\ told[c][g] = 0
    <3>1. PICK t : t = text[c]
      OBVIOUS
    <3>2. t = [g \in KnownGuids(c) |-> 0] /\ told[c] = t
      BY <2>1, <3>1
    <3>3. t \in [KnownGuids(c) -> Nat] /\ \A g \in KnownGuids(c) : t[g] = 0
      BY <3>2
    <3> QED BY <3>1, <3>2, <3>3
  <2>3. text \in [Connectors -> Versioned] /\ told = text
    <3>1. DOMAIN text = Connectors /\ text = [c \in Connectors |-> text[c]]
      BY DEF Init
    <3>2. \A c \in Connectors : text[c] \in Versioned
      BY <2>2 DEF Versioned
    <3> QED BY <3>1, <3>2 DEF Init
  <2> QED BY <2>1, <2>2, <2>3 DEF Texts
<1>4. Telling
  <2>1. \A c \in Connectors : inbox[c] = <<>>
    BY DEF Init
  <2>2. <<>> \in Seq(Message) /\ Len(<<>>) = 0
    OBVIOUS
  <2>3. inbox \in [Connectors -> Seq(Message)]
    BY <2>2 DEF Init
  <2> QED BY <2>1, <2>2, <2>3 DEF Telling
<1>5. Listing
  <2>1. 0 \in 0 .. MaxEdits /\ 0 \in 0 .. MaxFaults
    BY ListenerAssumption DEF ListenerAssumption
  <2> QED BY <2>1 DEF Init, Listing
<1> QED BY <1>1, <1>2, <1>3, <1>4, <1>5 DEF Telltale

LEMMA ShapeStep == IInv /\ [Next]_vars => Shape'
BY StepIInv DEF IInv

(* Nothing that the listener or the server do takes the queue ahead of the  *)
(* server: it is told of no version that the server does not have.  Only a  *)
(* thread with a subscription is in the list, and nothing is answered that  *)
(* was not asked.                                                          *)
THEOREM TypeCorrect == Spec => []TypeOK
<1>1. Init => IInv /\ Telltale
  BY InitIInv, InitTelltale
<1>2. IInv /\ Telltale /\ [Next]_vars => IInv' /\ Telltale'
  BY StepIInv, ShapeStep, StepAsking, SendingStep, TellingStep, ListingStep DEF Telltale
<1>3. Telltale => TypeOK
  <2> SUFFICES ASSUME Telltale PROVE TypeOK
    OBVIOUS
  <2>1. ASSUME NEW c \in Connectors
        PROVE  /\ pc[c] \in {"check", "dial", "ask", "register", "ended"} \cup Registered
               /\ socket[c] \in {"none", "reset", "closed"} \cup Live
               /\ asked[c] \in 0 .. Len(Guids[c]) /\ answered[c] \in 0 .. Len(wire[c])
               /\ \A g \in KnownGuids(c) : told[c][g] \in 0 .. text[c][g]
    <3>1. Len(wire[c]) \in Nat /\ answered[c] \in Nat /\ answered[c] <= Len(wire[c])
      BY LenProperties DEF Telltale, Asking, Sending
    <3>2. \A g \in KnownGuids(c) : told[c][g] \in Nat /\ text[c][g] \in Nat /\ told[c][g] <= text[c][g]
      BY DEF Telltale, Texts
    <3>3. pc[c] \in {"check", "dial", "ask", "register", "ended"} \cup Registered
          /\ socket[c] \in {"none", "reset", "closed"} \cup Live
      BY DEF Telltale, Shape, Places, Sockets, Registered, Live
    <3> QED BY <3>1, <3>2, <3>3 DEF Telltale, Asking, Progress
  <2> QED BY <2>1 DEF Telltale, Listing, TypeOK
<1> QED BY <1>1, <1>2, <1>3, PTL DEF Spec

------------------------------------------------------------------------------
(* Functions defined by recursion. *)

(* A function on the numbers may be defined by what it is on Ground, and,   *)
(* elsewhere, by its value at a smaller number.                             *)
Recursion(T, Ground, base, before, step) ==
  /\ Ground \in SUBSET Nat /\ 0 \in Ground
  /\ base \in [Ground -> T]
  /\ before \in [Nat -> Nat] /\ \A k \in Nat \ Ground : before[k] < k
  /\ step \in [Nat \X T -> T]

Solves(f, Ground, base, before, step) == \A k \in Nat :
  f[k] = IF k \in Ground THEN base[k] ELSE step[<<k, f[before[k]]>>]

LEMMA RecursionExists ==
  ASSUME NEW T, NEW Ground, NEW base, NEW before, NEW step,
         Recursion(T, Ground, base, before, step)
  PROVE  \E f \in [Nat -> T] : Solves(f, Ground, base, before, step)
<1> SUFFICES ASSUME Ground \in SUBSET Nat, 0 \in Ground, base \in [Ground -> T],
                    before \in [Nat -> Nat], \A k \in Nat \ Ground : before[k] < k,
                    step \in [Nat \X T -> T]
             PROVE  \E f \in [Nat -> T] : Solves(f, Ground, base, before, step)
  BY DEF Recursion
<1> DEFINE Obeys(f, k) == f[k] = IF k \in Ground THEN base[k] ELSE step[<<k, f[before[k]]>>]
           Begins(f, n) == f \in [0 .. n -> T] /\ \A k \in 0 .. n : Obeys(f, k)
           Gaps == {n \in Nat : ~\E f : Begins(f, n)}
<1>1. Gaps = {}
  <2> SUFFICES ASSUME Gaps # {} PROVE FALSE
    OBVIOUS
  <2>1. PICK n \in Gaps : \A m \in Gaps : n <= m
    <3> HIDE DEF Gaps
    <3>1. Gaps \in SUBSET Nat
      BY DEF Gaps
    <3> QED BY <3>1, LeastExists
  <2>2. n \in Nat /\ ~\E f : Begins(f, n)
    BY <2>1
  <2>3. CASE n = 0
    <3> DEFINE g == [k \in 0 .. 0 |-> base[0]]
    <3>1. g \in [0 .. n -> T] /\ \A k \in 0 .. n : Obeys(g, k)
      BY <2>3
    <3> QED BY <3>1, <2>2
  <2>4. CASE n # 0
    <3>1. n - 1 \in Nat /\ n - 1 < n
      BY <2>2, <2>4
    <3>2. PICK h : Begins(h, n - 1)
      <4>1. n - 1 \notin Gaps
        <5> HIDE DEF Gaps
        <5> QED BY <2>1, <2>2, <3>1
      <4> HIDE DEF Begins
      <4> QED BY <3>1, <4>1
    <3> DEFINE g == [k \in 0 .. n |-> IF k < n THEN h[k]
                        ELSE IF n \in Ground THEN base[n] ELSE step[<<n, h[before[n]]>>]]
    <3>3. \A k \in 0 .. n - 1 : g[k] = h[k] /\ h[k] \in T
      BY <2>2, <3>2
    <3>4. \A k \in 0 .. n : k \notin Ground => before[k] \in 0 .. k - 1
      BY <2>2
    <3>5. g[n] \in T /\ Obeys(g, n)
      <4>1. CASE n \in Ground
        BY <2>2, <4>1
      <4>2. CASE n \notin Ground
        <5>1. before[n] \in 0 .. n - 1
          BY <2>2, <3>4, <4>2
        <5>2. h[before[n]] \in T /\ g[before[n]] = h[before[n]]
          BY <3>3, <5>1
        <5>3. g[n] = step[<<n, h[before[n]]>>]
          BY <2>2, <4>2
        <5>4. <<n, h[before[n]]>> \in Nat \X T
          BY <2>2, <5>2
        <5> QED BY <4>2, <5>2, <5>3, <5>4
      <4> QED BY <4>1, <4>2
    <3>6. \A k \in 0 .. n - 1 : Obeys(g, k)
      <4> SUFFICES ASSUME NEW k \in 0 .. n - 1 PROVE Obeys(g, k)
        OBVIOUS
      <4>1. Obeys(h, k)
        BY <3>2
      <4>2. k \notin Ground => before[k] \in 0 .. n - 1
        BY <2>2, <3>4
      <4> HIDE DEF g
      <4> QED BY <3>3, <4>1, <4>2
    <3>7. \A k \in 0 .. n : k = n \/ k \in 0 .. n - 1
      BY <2>2
    <3>8. g \in [0 .. n -> T]
      BY <3>3, <3>5, <3>7
    <3> HIDE DEF g
    <3> QED BY <2>2, <3>5, <3>6, <3>7, <3>8
  <2> QED BY <2>3, <2>4
<1>2. \A n \in Nat : \E f : Begins(f, n)
  BY <1>1
<1> DEFINE F(n) == CHOOSE f : Begins(f, n)
           f == [k \in Nat |-> F(k)[k]]
<1>3. \A n \in Nat : Begins(F(n), n)
  BY <1>2
<1> HIDE DEF F
<1>4. \A n, m \in Nat : n <= m => \A k \in 0 .. n : F(n)[k] = F(m)[k]
  <2> SUFFICES ASSUME NEW n \in Nat, NEW m \in Nat, n <= m
               PROVE  \A k \in 0 .. n : F(n)[k] = F(m)[k]
    OBVIOUS
  <2> DEFINE Differ == {k \in 0 .. n : F(n)[k] # F(m)[k]}
  <2> SUFFICES ASSUME Differ # {} PROVE FALSE
    OBVIOUS
  <2>1. PICK k \in Differ : \A j \in Differ : k <= j
    <3>1. Differ \in SUBSET Nat
      OBVIOUS
    <3> HIDE DEF Differ
    <3> QED BY <3>1, LeastExists
  <2>2. k \in 0 .. n /\ k \in 0 .. m /\ F(n)[k] # F(m)[k]
    BY <2>1
  <2>3. Obeys(F(n), k) /\ Obeys(F(m), k)
    BY <1>3, <2>2
  <2>4. k \notin Ground => before[k] \in 0 .. n /\ before[k] \notin Differ
    BY <2>1, <2>2
  <2> QED BY <2>2, <2>3, <2>4
<1>5. \A k \in Nat : f[k] \in T
  BY <1>3
<1>6. \A k \in Nat : Obeys(f, k)
  <2> SUFFICES ASSUME NEW k \in Nat PROVE Obeys(f, k)
    OBVIOUS
  <2>1. f[k] = F(k)[k] /\ Obeys(F(k), k)
    <3>1. Begins(F(k), k) /\ k \in 0 .. k
      BY <1>3
    <3>2. Obeys(F(k), k)
      BY <3>1
    <3> QED BY <3>2
  <2>2. CASE k \in Ground
    BY <2>1, <2>2
  <2>3. CASE k \notin Ground
    <3>1. before[k] \in Nat /\ before[k] < k
      BY <2>3
    <3>2. f[before[k]] = F(before[k])[before[k]]
      BY <3>1
    <3>3. F(before[k])[before[k]] = F(k)[before[k]]
      BY <3>1, <1>4
    <3> QED BY <2>1, <2>3, <3>2, <3>3
  <2> QED BY <2>2, <2>3
<1>7. f \in [Nat -> T]
  BY <1>5
<1> HIDE DEF f
<1> QED BY <1>6, <1>7 DEF Solves

------------------------------------------------------------------------------
(* Numbers. *)

LEMMA Divide ==
  ASSUME NEW n \in Nat
  PROVE  /\ n \div Group \in Nat /\ n % Group \in 0 .. Group - 1
         /\ n = (Group * (n \div Group)) + (n % Group)
         /\ n >= Group => n \div Group < n
BY CodecAssumption DEF CodecAssumption

(* The equation that defines Varuint. *)
LEMMA VaruintStep ==
  ASSUME NEW n \in Nat
  PROVE  Varuint(n) = IF n < Group THEN <<n>>
                      ELSE <<Group + (n % Group)>> \o Varuint(n \div Group)
<1> DEFINE Obeys(f) == f = [k \in Nat |-> IF k < Group THEN <<k>>
                                          ELSE <<Group + (k % Group)>> \o f[k \div Group]]
           V == CHOOSE f : Obeys(f)
<1>1. \E f : Obeys(f)
  <2> DEFINE Ground == {k \in Nat : k < Group}
             base == [k \in Ground |-> <<k>>]
             before == [k \in Nat |-> k \div Group]
             step == [x \in Nat \X Seq(Nat) |-> <<Group + (x[1] % Group)>> \o x[2]]
  <2>1. Ground \in SUBSET Nat /\ 0 \in Ground
    BY CodecAssumption DEF CodecAssumption
  <2>2. base \in [Ground -> Seq(Nat)]
    OBVIOUS
  <2>3. before \in [Nat -> Nat] /\ \A k \in Nat \ Ground : before[k] < k
    BY Divide, CodecAssumption DEF CodecAssumption
  <2>4. step \in [Nat \X Seq(Nat) -> Seq(Nat)]
    <3> SUFFICES ASSUME NEW x \in Nat \X Seq(Nat)
                 PROVE  <<Group + (x[1] % Group)>> \o x[2] \in Seq(Nat)
      OBVIOUS
    <3>1. x[1] \in Nat /\ x[2] \in Seq(Nat)
      OBVIOUS
    <3>2. Group + (x[1] % Group) \in Nat
      <4>1. \A k \in Nat : k % Group \in 0 .. Group - 1
        BY Divide
      <4>2. x[1] % Group \in 0 .. Group - 1
        BY <3>1, <4>1
      <4> QED BY <4>2, CodecAssumption DEF CodecAssumption
    <3>3. <<Group + (x[1] % Group)>> \in Seq(Nat)
      BY <3>2
    <3> QED BY <3>1, <3>3, ConcatProperties
  <2> HIDE DEF Ground, base, before, step, Obeys, V
  <2>5. Recursion(Seq(Nat), Ground, base, before, step)
    BY <2>1, <2>2, <2>3, <2>4 DEF Recursion
  <2>f. PICK f \in [Nat -> Seq(Nat)] : Solves(f, Ground, base, before, step)
    BY <2>5, RecursionExists
  <2>6. \A k \in Nat : f[k] = IF k < Group THEN <<k>>
                              ELSE <<Group + (k % Group)>> \o f[k \div Group]
    <3> SUFFICES ASSUME NEW k \in Nat
                 PROVE  f[k] = IF k < Group THEN <<k>>
                               ELSE <<Group + (k % Group)>> \o f[k \div Group]
      OBVIOUS
    <3>1. k \in Ground <=> k < Group
      BY DEF Ground
    <3>2. k < Group => base[k] = <<k>>
      BY DEF Ground, base
    <3>3. before[k] = k \div Group /\ before[k] \in Nat
      BY <2>3 DEF before
    <3>4. f[k \div Group] \in Seq(Nat)
      BY <3>3
    <3>5. step[<<k, f[k \div Group]>>] = <<Group + (k % Group)>> \o f[k \div Group]
      BY <3>4 DEF step
    <3> QED BY <2>f, <3>1, <3>2, <3>3, <3>5 DEF Solves
  <2> QED BY <2>6 DEF Obeys
<1>2. Obeys(V)
  BY <1>1
<1>3. \A k : Varuint(k) = V[k]
  BY DEF Varuint
<1> HIDE DEF V
<1> QED BY <1>2, <1>3

Complete(s) == /\ s \in Seq(Nat) /\ Len(s) > 0
               /\ \A i \in 1 .. Len(s) : s[i] < Group <=> i = Len(s)

(* A number is written as bytes of which only the last lacks the high bit. *)
LEMMA VaruintComplete ==
  ASSUME NEW n \in Nat
  PROVE  Complete(Varuint(n)) /\ Varuint(n) \in Seq(Bytes)
<1> DEFINE Written(k) == Complete(Varuint(k)) /\ Varuint(k) \in Seq(Bytes)
           Wrong == {k \in Nat : ~Written(k)}
<1> SUFFICES ASSUME Wrong # {} PROVE FALSE
  OBVIOUS
<1>1. PICK k \in Wrong : \A j \in Wrong : k <= j
  <2>1. Wrong \in SUBSET Nat
    OBVIOUS
  <2> HIDE DEF Wrong
  <2> QED BY <2>1, LeastExists
<1>2. k \in Nat /\ ~Written(k)
  BY <1>1
<1>3. Group \in Nat /\ Group > 1
  BY CodecAssumption DEF CodecAssumption
<1>4. CASE k < Group
  <2>1. Varuint(k) = <<k>>
    BY <1>2, <1>4, VaruintStep
  <2>2. k \in Bytes
    BY <1>2, <1>3, <1>4 DEF Bytes
  <2> QED BY <1>2, <1>4, <2>1, <2>2 DEF Complete
<1>5. CASE ~(k < Group)
  <2> DEFINE b == Group + (k % Group)
             s == Varuint(k \div Group)
  <2>1. k \div Group \in Nat /\ k \div Group < k /\ b \in Bytes /\ b >= Group /\ b \in Nat
    <3>1. /\ k \div Group \in Nat /\ k % Group \in 0 .. Group - 1
          /\ k >= Group => k \div Group < k
      BY <1>2, Divide
    <3> QED BY <1>2, <1>3, <1>5, <3>1 DEF Bytes
  <2>2. Complete(s) /\ s \in Seq(Bytes)
    <3>1. k \div Group \notin Wrong
      <4> HIDE DEF Wrong
      <4> QED BY <1>1, <1>2, <2>1
    <3> QED BY <2>1, <3>1
  <2>3. Varuint(k) = <<b>> \o s
    BY <1>2, <1>5, VaruintStep
  <2> HIDE DEF b, s
  <2>4. <<b>> \in Seq(Bytes) /\ Len(<<b>>) = 1 /\ <<b>>[1] = b
    BY <2>1
  <2>5. /\ <<b>> \o s \in Seq(Bytes) /\ Len(<<b>> \o s) = 1 + Len(s)
        /\ \A i \in 1 .. 1 + Len(s) : (<<b>> \o s)[i] = IF i <= 1 THEN <<b>>[i] ELSE s[i - 1]
    BY <2>2, <2>4, ConcatProperties
  <2>6. <<b>> \o s \in Seq(Nat)
    BY <2>5, <1>3, SeqMonotonic DEF Bytes
  <2>7. \A i \in 1 .. 1 + Len(s) : (<<b>> \o s)[i] < Group <=> i = 1 + Len(s)
    <3> SUFFICES ASSUME NEW i \in 1 .. 1 + Len(s)
                 PROVE  (<<b>> \o s)[i] < Group <=> i = 1 + Len(s)
      OBVIOUS
    <3>1. Len(s) \in Nat /\ Len(s) > 0
      BY <2>2 DEF Complete
    <3>2. CASE i = 1
      BY <3>1, <3>2, <2>1, <2>4, <2>5, <1>3
    <3>3. CASE i # 1
      <4>1. i - 1 \in 1 .. Len(s)
        BY <3>1, <3>3
      <4>2. (<<b>> \o s)[i] = s[i - 1]
        BY <2>5, <3>3, <3>1
      <4>3. s[i - 1] < Group <=> i - 1 = Len(s)
        BY <2>2, <4>1 DEF Complete
      <4> QED BY <4>2, <4>3, <3>1
    <3> QED BY <3>2, <3>3
  <2>8. Len(s) \in Nat /\ Len(s) > 0
    BY <2>2 DEF Complete
  <2> QED BY <1>2, <2>3, <2>5, <2>6, <2>7, <2>8 DEF Complete
<1> QED BY <1>4, <1>5

(* What decode_varuint computes from the bytes at .. end. *)
Evaluates(g, data, at, end) ==
  g = [i \in at .. end |-> IF i = end THEN data[i] ELSE (data[i] % Group) + Group * g[i + 1]]

EndsAt(data, at, end) ==
  /\ end \in at .. Len(data) /\ data[end] < Group
  /\ \A i \in at .. end - 1 : data[i] >= Group

LEMMA EvaluationExists ==
  ASSUME NEW data \in Seq(Nat), NEW at \in Nat \ {0}, NEW end \in at .. Len(data)
  PROVE  \E g \in [at .. end -> Nat] : Evaluates(g, data, at, end)
<1> DEFINE Ground == {0}
           base == [k \in Ground |-> data[end]]
           before == [k \in Nat |-> IF k = 0 THEN 0 ELSE k - 1]
           Digit(k) == IF k \in 0 .. end - at THEN data[end - k] % Group ELSE 0
           step == [x \in Nat \X Nat |-> Digit(x[1]) + Group * x[2]]
<1>1. Group \in Nat /\ Group > 1 /\ Len(data) \in Nat /\ end \in Nat
  BY CodecAssumption DEF CodecAssumption
<1>2. \A i \in at .. end : data[i] \in Nat /\ data[i] % Group \in Nat
  <2> SUFFICES ASSUME NEW i \in at .. end PROVE data[i] \in Nat /\ data[i] % Group \in Nat
    OBVIOUS
  <2>1. data[i] \in Nat
    BY <1>1
  <2>2. data[i] % Group \in 0 .. Group - 1
    BY <2>1, Divide
  <2> QED BY <1>1, <2>1, <2>2
<1>3. \A k \in Nat : Digit(k) \in Nat
  BY <1>1, <1>2
<1>4. Recursion(Nat, Ground, base, before, step)
  <2>1. base \in [Ground -> Nat] /\ before \in [Nat -> Nat]
    BY <1>2
  <2>2. step \in [Nat \X Nat -> Nat]
    <3> HIDE DEF Digit
    <3> SUFFICES ASSUME NEW x \in Nat \X Nat PROVE Digit(x[1]) + Group * x[2] \in Nat
      OBVIOUS
    <3>1. x[1] \in Nat /\ x[2] \in Nat
      OBVIOUS
    <3>2. Group * x[2] \in Nat
      BY <3>1, <1>1
    <3>3. Digit(x[1]) \in Nat
      BY <3>1, <1>3
    <3> DEFINE m == Group * x[2]
               d == Digit(x[1])
    <3>4. m \in Nat /\ d \in Nat
      BY <3>2, <3>3
    <3> HIDE DEF m, d
    <3>5. d + m \in Nat
      BY <3>4
    <3> QED BY <3>5 DEF m, d
  <2> HIDE DEF step
  <2> QED BY <2>1, <2>2 DEF Recursion
<1>5. PICK f \in [Nat -> Nat] : Solves(f, Ground, base, before, step)
  <2> HIDE DEF Ground, base, before, step
  <2> QED BY <1>4, RecursionExists
<1> DEFINE g == [i \in at .. end |-> f[end - i]]
<1>6. \A i \in at .. end : g[i] \in Nat /\ g[i] = f[end - i]
  <2> HIDE DEF Ground, base, before, step
  <2> SUFFICES ASSUME NEW i \in at .. end PROVE g[i] \in Nat /\ g[i] = f[end - i]
    OBVIOUS
  <2>1. end - i \in Nat
    BY <1>1
  <2> QED BY <2>1
<1>7. \A i \in at .. end : g[i] = IF i = end THEN data[i] ELSE (data[i] % Group) + Group * g[i + 1]
  <2> SUFFICES ASSUME NEW i \in at .. end
               PROVE  g[i] = IF i = end THEN data[i] ELSE (data[i] % Group) + Group * g[i + 1]
    OBVIOUS
  <2>1. CASE i = end
    <3>1. f[0] = data[end]
      BY <1>5 DEF Solves
    <3> QED BY <2>1, <3>1, <1>1
  <2>2. CASE i # end
    <3> DEFINE k == end - i
    <3>1. k \in Nat /\ k # 0 /\ k \in 0 .. end - at /\ end - k = i /\ i + 1 \in at .. end
      BY <1>1, <2>2
    <3>2. f[k - 1] \in Nat /\ k - 1 = end - (i + 1)
      <4>1. k - 1 \in Nat /\ k - 1 = end - (i + 1)
        BY <3>1, <1>1
      <4> HIDE DEF k, Ground, base, before, step
      <4> QED BY <4>1
    <3> HIDE DEF k
    <3>3. f[k] = step[<<k, f[k - 1]>>]
      <4> HIDE DEF step
      <4>1. before[k] = k - 1 /\ k \notin Ground
        BY <3>1
      <4> QED BY <1>5, <3>1, <4>1 DEF Solves
    <3>4. step[<<k, f[k - 1]>>] = Digit(k) + Group * f[k - 1]
      <4> HIDE DEF Digit
      <4> QED BY <3>1, <3>2
    <3>5. Digit(k) = data[i] % Group
      BY <3>1
    <3>6. g[i + 1] = f[k - 1]
      BY <3>1, <3>2
    <3>7. g[i] = f[k]
      BY <3>1 DEF k
    <3> QED BY <3>3, <3>4, <3>5, <3>6, <3>7, <2>2
  <2> QED BY <2>1, <2>2
<1>8. g \in [at .. end -> Nat]
  BY <1>6
<1>9. g = [i \in at .. end |-> g[i]]
  OBVIOUS
<1> HIDE DEF g
<1> QED BY <1>7, <1>8, <1>9 DEF Evaluates

Agree(one, two, at, end) == \A i \in at .. end : one[i] = two[i]

(* The value depends on those bytes only. *)
LEMMA EvaluationUnique ==
  ASSUME NEW data \in Seq(Nat), NEW other \in Seq(Nat),
         NEW at \in Nat, NEW end \in Nat, at <= end,
         Agree(other, data, at, end),
         NEW g, Evaluates(g, data, at, end), NEW h, Evaluates(h, other, at, end)
  PROVE  Agree(g, h, at, end)
<1> USE DEF Agree
<1> DEFINE Differ == {k \in 0 .. end - at : g[end - k] # h[end - k]}
<1>1. Differ = {}
  <2> SUFFICES ASSUME Differ # {} PROVE FALSE
    OBVIOUS
  <2>1. PICK k \in Differ : \A j \in Differ : k <= j
    <3>1. Differ \in SUBSET Nat
      OBVIOUS
    <3> HIDE DEF Differ
    <3> QED BY <3>1, LeastExists
  <2> DEFINE i == end - k
  <2>2. k \in 0 .. end - at /\ i \in at .. end /\ g[i] # h[i]
    BY <2>1
  <2>3. g[i] = IF i = end THEN data[i] ELSE (data[i] % Group) + Group * g[i + 1]
    BY <2>2 DEF Evaluates
  <2>4. h[i] = IF i = end THEN other[i] ELSE (other[i] % Group) + Group * h[i + 1]
    BY <2>2 DEF Evaluates
  <2>5. i # end => g[i + 1] = h[i + 1]
    <3> SUFFICES ASSUME i # end PROVE g[i + 1] = h[i + 1]
      OBVIOUS
    <3>1. k - 1 \in 0 .. end - at /\ k - 1 < k /\ end - (k - 1) = i + 1
      BY <2>2
    <3>2. k - 1 \notin Differ
      <4> HIDE DEF Differ
      <4> QED BY <2>1, <2>2, <3>1
    <3> QED BY <3>1, <3>2
  <2> HIDE DEF i
  <2>6. other[i] = data[i]
    BY <2>2
  <2> QED BY <2>2, <2>3, <2>4, <2>5, <2>6
<1> SUFFICES ASSUME NEW i \in at .. end PROVE g[i] = h[i]
  OBVIOUS
<1>2. end - i \in 0 .. end - at /\ end - (end - i) = i
  OBVIOUS
<1> QED BY <1>1, <1>2

(* decode_varuint: without an end it fails; with one it gives the value.   *)
LEMMA ReadVaruintFails ==
  ASSUME NEW data, NEW at, \A i \in at .. Len(data) : ~(data[i] < Group)
  PROVE  ReadVaruint(data, at) = Malformed
BY DEF ReadVaruint

LEMMA ReadVaruintGives ==
  ASSUME NEW data \in Seq(Nat), NEW at \in Nat \ {0}, NEW end, EndsAt(data, at, end)
  PROVE  \E g \in [at .. end -> Nat] :
           /\ Evaluates(g, data, at, end)
           /\ ReadVaruint(data, at) = IF end >= at + MaxGroups THEN Malformed
                                      ELSE Read(g[at], end + 1)
<1> DEFINE ends == {i \in at .. Len(data) : data[i] < Group}
           first == CHOOSE i \in ends : \A j \in ends : i <= j
           V == CHOOSE g : Evaluates(g, data, at, end)
<1>1. first = end /\ ends # {}
  <2>1. end \in ends /\ \A j \in ends : end <= j
    BY CodecAssumption DEF EndsAt, CodecAssumption
  <2>2. first \in ends /\ \A j \in ends : first <= j
    BY <2>1
  <2>3. ends \subseteq Nat
    OBVIOUS
  <2> HIDE DEF ends, first
  <2>4. first <= end /\ end <= first /\ first \in Nat /\ end \in Nat
    BY <2>1, <2>2, <2>3
  <2> QED BY <2>1, <2>4
<1>2. PICK h \in [at .. end -> Nat] : Evaluates(h, data, at, end)
  BY EvaluationExists DEF EndsAt
<1>3. Evaluates(V, data, at, end)
  BY <1>2
<1>4. V \in [at .. end -> Nat]
  <2>1. \A i \in at .. end : V[i] = h[i]
    <3> HIDE DEF V
    <3>1. at \in Nat /\ end \in Nat /\ at <= end
      BY DEF EndsAt
    <3>2. Agree(data, data, at, end)
      BY DEF Agree
    <3>3. Agree(V, h, at, end)
      BY <3>1, <3>2, <1>2, <1>3, EvaluationUnique
    <3> QED BY <3>3 DEF Agree
  <2> HIDE DEF V
  <2>2. V = [i \in at .. end |-> V[i]]
    BY <1>3 DEF Evaluates
  <2> QED BY <1>2, <2>1, <2>2
<1>5. ReadVaruint(data, at) = IF end >= at + MaxGroups THEN Malformed ELSE Read(V[at], end + 1)
  <2>1. ReadVaruint(data, at) =
          IF ends = {} \/ first >= at + MaxGroups THEN Malformed
          ELSE Read((CHOOSE g : Evaluates(g, data, at, first))[at], first + 1)
    BY DEF ReadVaruint, Evaluates
  <2> HIDE DEF ends, first
  <2> QED BY <1>1, <2>1
<1> HIDE DEF V
<1> QED BY <1>3, <1>4, <1>5

LEMMA ReadMeaning ==
  /\ \A v, n : Read(v, n) # Malformed /\ Read(v, n).value = v /\ Read(v, n).next = n
  /\ \A v, w, n, m : Read(v, n) = Read(w, m) => v = w /\ n = m
<1>1. \A v, n : Read(v, n).value = v /\ Read(v, n).next = n /\ Read(v, n).type = "read"
  BY DEF Read
<1>2. Malformed.type = "malformed"
  BY DEF Malformed
<1> QED BY <1>1, <1>2

LEMMA ReadInjective ==
  ASSUME NEW v, NEW n, NEW w, NEW m, Read(v, n) = Read(w, m)
  PROVE  v = w /\ n = m
BY ReadMeaning

LEMMA EndsSomewhere ==
  ASSUME NEW data \in Seq(Nat), NEW at \in Nat \ {0}
  PROVE  \/ \A i \in at .. Len(data) : ~(data[i] < Group)
         \/ \E end : EndsAt(data, at, end)
<1> DEFINE ends == {i \in at .. Len(data) : data[i] < Group}
<1> SUFFICES ASSUME ends # {} PROVE \E end : EndsAt(data, at, end)
  OBVIOUS
<1>1. PICK end \in ends : \A j \in ends : end <= j
  <2>1. ends \in SUBSET Nat
    OBVIOUS
  <2> HIDE DEF ends
  <2> QED BY <2>1, LeastExists
<1>2. \A i \in at .. end - 1 : data[i] >= Group
  <2> SUFFICES ASSUME NEW i \in at .. end - 1 PROVE data[i] >= Group
    OBVIOUS
  <2>1. i \in at .. Len(data) /\ i \notin ends
    BY <1>1
  <2>2. data[i] \in Nat
    BY <2>1
  <2> QED BY <2>1, <2>2, CodecAssumption DEF CodecAssumption
<1> QED BY <1>1, <1>2 DEF EndsAt

(* What decode_varuint gives is a number and a place within the bytes.      *)
LEMMA ReadVaruintType ==
  ASSUME NEW data \in Seq(Nat), NEW at \in Nat \ {0}
  PROVE  \/ ReadVaruint(data, at) = Malformed
         \/ \E v \in Nat, next \in at + 1 .. Len(data) + 1 :
              ReadVaruint(data, at) = Read(v, next) /\ EndsAt(data, at, next - 1)
<1>1. CASE \A i \in at .. Len(data) : ~(data[i] < Group)
  BY <1>1, ReadVaruintFails
<1>2. ASSUME NEW end, EndsAt(data, at, end)
      PROVE  \/ ReadVaruint(data, at) = Malformed
             \/ \E v \in Nat, next \in at + 1 .. Len(data) + 1 :
                  ReadVaruint(data, at) = Read(v, next) /\ EndsAt(data, at, next - 1)
  <2>1. PICK g \in [at .. end -> Nat] :
           ReadVaruint(data, at) = IF end >= at + MaxGroups THEN Malformed
                                   ELSE Read(g[at], end + 1)
    BY <1>2, ReadVaruintGives
  <2>2. end \in at .. Len(data) /\ g[at] \in Nat
    BY <1>2, <2>1 DEF EndsAt
  <2>3. end + 1 \in at + 1 .. Len(data) + 1 /\ (end + 1) - 1 = end
    BY <2>2
  <2> QED BY <1>2, <2>1, <2>2, <2>3
<1> QED BY <1>1, <1>2, EndsSomewhere

(* One sequence of bytes begins with the other. *)
Comparable(other, data) == \A i \in 1 .. Len(data) : i <= Len(other) => other[i] = data[i]

(* A reader looks no further than where it goes on, and needs all of that.  *)
LEMMA ReadVaruintStable ==
  ASSUME NEW data \in Seq(Nat), NEW other \in Seq(Nat), Comparable(other, data),
         NEW at \in Nat \ {0}, NEW v, NEW next, ReadVaruint(data, at) = Read(v, next)
  PROVE  ReadVaruint(other, at) = IF next <= Len(other) + 1 THEN Read(v, next) ELSE Malformed
<1>1. next \in at + 1 .. Len(data) + 1 /\ EndsAt(data, at, next - 1)
  BY ReadVaruintType, ReadMeaning
<1>e. PICK end \in Nat : next = end + 1 /\ end = next - 1
  <2>1. next - 1 \in Nat /\ next = (next - 1) + 1
    BY <1>1
  <2> QED BY <2>1
<1>2. end >= at /\ end <= Len(data) /\ Len(data) \in Nat /\ Len(other) \in Nat
  BY <1>1, <1>e
<1>3. EndsAt(data, at, end)
  BY <1>1, <1>e
<1>4. next = end + 1
  BY <1>e
<1>5. CASE end <= Len(other)
  <2>1. \A i \in at .. end : other[i] = data[i]
    <3> SUFFICES ASSUME NEW i \in at .. end PROVE other[i] = data[i]
      OBVIOUS
    <3>1. i \in 1 .. Len(data) /\ i <= Len(other)
      BY <1>2, <1>5
    <3> QED BY <3>1 DEF Comparable
  <2>2. EndsAt(other, at, end)
    <3>1. end \in at .. Len(other) /\ end \in at .. end
      BY <1>2, <1>5
    <3>2. other[end] < Group
      BY <1>3, <2>1, <3>1 DEF EndsAt
    <3>3. ASSUME NEW i \in at .. end - 1 PROVE other[i] >= Group
      <4>1. i \in at .. end
        BY <1>2
      <4> QED BY <1>3, <2>1, <4>1 DEF EndsAt
    <3> QED BY <3>1, <3>2, <3>3 DEF EndsAt
  <2>3. PICK g \in [at .. end -> Nat] :
           /\ Evaluates(g, data, at, end)
           /\ ReadVaruint(data, at) = IF end >= at + MaxGroups THEN Malformed
                                      ELSE Read(g[at], end + 1)
    BY <1>3, ReadVaruintGives
  <2>4. PICK h \in [at .. end -> Nat] :
           /\ Evaluates(h, other, at, end)
           /\ ReadVaruint(other, at) = IF end >= at + MaxGroups THEN Malformed
                                       ELSE Read(h[at], end + 1)
    BY <2>2, ReadVaruintGives
  <2>5. g[at] = h[at]
    <3>1. at \in Nat /\ end \in Nat /\ at <= end /\ at \in at .. end
      BY <1>2
    <3>2. Evaluates(g, data, at, end) /\ Evaluates(h, other, at, end)
      BY <2>3, <2>4
    <3>3. Agree(other, data, at, end)
      BY <2>1 DEF Agree
    <3>4. Agree(g, h, at, end)
      BY <3>1, <3>2, <3>3, EvaluationUnique
    <3> QED BY <3>1, <3>4 DEF Agree
  <2>6. ReadVaruint(other, at) = ReadVaruint(data, at)
    BY <2>3, <2>4, <2>5
  <2> QED BY <1>2, <1>4, <1>5, <2>6
<1>6. CASE ~(end <= Len(other))
  <2>1. \A i \in at .. Len(other) : ~(other[i] < Group)
    <3> SUFFICES ASSUME NEW i \in at .. Len(other) PROVE ~(other[i] < Group)
      OBVIOUS
    <3>1. i \in 1 .. Len(data) /\ i \in at .. end - 1 /\ i <= Len(other)
      BY <1>2, <1>6
    <3>2. other[i] = data[i] /\ data[i] >= Group /\ data[i] \in Nat
      BY <1>3, <3>1 DEF Comparable, EndsAt
    <3> QED BY <3>2, CodecAssumption DEF CodecAssumption
  <2>2. ReadVaruint(other, at) = Malformed
    BY <2>1, ReadVaruintFails
  <2> QED BY <1>2, <1>4, <1>6, <2>2
<1> QED BY <1>5, <1>6

LEMMA VaruintLength ==
  ASSUME NEW n \in Nat
  PROVE  Varuint(n) \in Seq(Nat) /\ Len(Varuint(n)) \in Nat /\ Len(Varuint(n)) > 0
<1>1. Complete(Varuint(n))
  BY VaruintComplete
<1>2. Varuint(n) \in Seq(Nat) /\ Len(Varuint(n)) > 0
  BY <1>1 DEF Complete
<1> QED BY <1>2, LenProperties

(* The bytes s are found in data, from the place at on. *)
Stands(s, data, at) ==
  /\ at + Len(s) - 1 <= Len(data)
  /\ \A i \in 1 .. Len(s) : data[at + i - 1] = s[i]

(* What encode_varuint wrote is the number that decode_varuint reads, if it *)
(* is short enough.                                                        *)
LEMMA ReadsVaruint ==
  ASSUME NEW data \in Seq(Nat), NEW at \in Nat \ {0}, NEW n \in Nat,
         Stands(Varuint(n), data, at), Len(Varuint(n)) <= MaxGroups
  PROVE  ReadVaruint(data, at) = Read(n, at + Len(Varuint(n)))
<1> DEFINE end == at + Len(Varuint(n)) - 1
<1>1. Group \in Nat /\ Group > 1 /\ Len(data) \in Nat /\ MaxGroups \in Nat
  BY CodecAssumption DEF CodecAssumption
<1>2. Len(Varuint(n)) \in Nat /\ Len(Varuint(n)) > 0 /\ Complete(Varuint(n))
  BY VaruintLength, VaruintComplete
<1>3. end \in Nat /\ end \in at .. Len(data)
  BY <1>1, <1>2 DEF Stands
<1>4. \A i \in at .. end : data[i] = Varuint(n)[i - at + 1] /\ i - at + 1 \in 1 .. Len(Varuint(n))
  <2> SUFFICES ASSUME NEW i \in at .. end
               PROVE  data[i] = Varuint(n)[i - at + 1] /\ i - at + 1 \in 1 .. Len(Varuint(n))
    OBVIOUS
  <2>1. i - at + 1 \in 1 .. Len(Varuint(n)) /\ at + (i - at + 1) - 1 = i
    BY <1>2, <1>3
  <2> QED BY <2>1 DEF Stands
<1>5. EndsAt(data, at, end)
  <2>1. data[end] < Group
    <3>1. end \in at .. end /\ end - at + 1 = Len(Varuint(n))
      BY <1>2, <1>3
    <3>2. data[end] = Varuint(n)[Len(Varuint(n))] /\ Len(Varuint(n)) \in 1 .. Len(Varuint(n))
      <4> HIDE DEF end
      <4> QED BY <1>2, <1>4, <3>1
    <3> QED BY <1>2, <3>2 DEF Complete
  <2>2. ASSUME NEW i \in at .. end - 1 PROVE data[i] >= Group
    <3>1. i \in at .. end /\ i - at + 1 # Len(Varuint(n))
      BY <1>2, <1>3
    <3>2. ~(data[i] < Group)
      BY <1>2, <1>4, <3>1 DEF Complete
    <3>3. data[i] \in Nat
      BY <1>1, <1>3, <3>1
    <3> QED BY <3>2, <3>3, <1>1
  <2> QED BY <1>3, <2>1, <2>2 DEF EndsAt
<1>6. ~(end >= at + MaxGroups) /\ end + 1 = at + Len(Varuint(n))
  BY <1>1, <1>2
<1> HIDE DEF end
<1>7. PICK g \in [at .. end -> Nat] :
         /\ Evaluates(g, data, at, end)
         /\ ReadVaruint(data, at) = IF end >= at + MaxGroups THEN Malformed
                                    ELSE Read(g[at], end + 1)
  BY <1>5, ReadVaruintGives
<1> DEFINE Written(m, i) == Stands(Varuint(m), data, i) /\ end + 1 = i + Len(Varuint(m))
           Wrong == {k \in 0 .. end - at : \E m \in Nat : Written(m, end - k) /\ g[end - k] # m}
<1>8. Wrong = {}
  <2> SUFFICES ASSUME Wrong # {} PROVE FALSE
    OBVIOUS
  <2>1. PICK k \in Wrong : \A j \in Wrong : k <= j
    <3>1. Wrong \in SUBSET Nat
      OBVIOUS
    <3> HIDE DEF Wrong
    <3> QED BY <3>1, LeastExists
  <2>2. k \in 0 .. end - at /\ \E m \in Nat : Written(m, end - k) /\ g[end - k] # m
    BY <2>1
  <2>3. PICK m \in Nat : Written(m, end - k) /\ g[end - k] # m
    BY <2>2
  <2> DEFINE i == end - k
             s == Varuint(m)
  <2>4. i \in at .. end /\ i \in Nat /\ Len(s) \in Nat /\ Len(s) > 0 /\ end + 1 = i + Len(s)
        /\ Stands(s, data, i) /\ g[i] # m
    <3>1. Len(s) \in Nat /\ Len(s) > 0
      BY <2>3, VaruintLength
    <3>2. Written(m, i) /\ g[i] # m
      BY <2>3
    <3> HIDE DEF s
    <3>3. i \in at .. end /\ i \in Nat
      BY <1>3, <2>2
    <3> HIDE DEF i
    <3> QED BY <3>1, <3>2, <3>3 DEF s
  <2>5. g[i] = IF i = end THEN data[i] ELSE (data[i] % Group) + Group * g[i + 1]
    BY <1>7, <2>4 DEF Evaluates
  <2>6. data[i] = s[1]
    <3> HIDE DEF i, s
    <3>1. 1 \in 1 .. Len(s) /\ i + 1 - 1 = i
      BY <2>4
    <3> QED BY <2>4, <3>1 DEF Stands
  <2>7. CASE m < Group
    <3>1. s = <<m>>
      BY <2>7, VaruintStep
    <3>2. i = end /\ s[1] = m
      <4> HIDE DEF i, s
      <4>1. Len(s) = 1 /\ s[1] = m
        BY <3>1
      <4> QED BY <1>3, <2>4, <4>1
    <3> QED BY <2>4, <2>5, <2>6, <3>2
  <2>8. CASE ~(m < Group)
    <3> DEFINE b == Group + (m % Group)
               r == Varuint(m \div Group)
    <3>1. m \div Group \in Nat /\ m % Group \in 0 .. Group - 1
          /\ m = (Group * (m \div Group)) + (m % Group)
      BY Divide
    <3>2. s = <<b>> \o r
      BY <2>8, VaruintStep
    <3>3. r \in Seq(Nat) /\ Len(r) \in Nat /\ Len(r) > 0
      BY <3>1, VaruintLength
    <3>4. b \in Nat /\ b % Group = m % Group
      <4> DEFINE d == m % Group
      <4>1. d \in 0 .. Group - 1
        BY <3>1
      <4> HIDE DEF d
      <4>2. Group + d \in Nat /\ (Group + d) % Group = d
        BY <4>1, <1>1
      <4> QED BY <4>2 DEF d
    <3>5. Len(s) = 1 + Len(r) /\ s[1] = b /\ \A j \in 1 .. Len(r) : s[j + 1] = r[j]
      <4> HIDE DEF i, s, b, r
      <4>1. <<b>> \in Seq(Nat) /\ Len(<<b>>) = 1 /\ <<b>>[1] = b
        BY <3>4
      <4>2. /\ Len(<<b>> \o r) = 1 + Len(r)
            /\ \A j \in 1 .. 1 + Len(r) : (<<b>> \o r)[j] = IF j <= 1 THEN <<b>>[j] ELSE r[j - 1]
        BY <3>3, <4>1, ConcatProperties
      <4> QED BY <3>2, <3>3, <4>1, <4>2
    <3>6. i # end /\ i + 1 \in at .. end /\ k - 1 \in 0 .. end - at /\ end - (k - 1) = i + 1
          /\ k - 1 < k
      BY <2>2, <2>4, <3>3, <3>5, <1>3
    <3>7. Written(m \div Group, i + 1)
      <4>1. \A j \in 1 .. Len(r) : data[(i + 1) + j - 1] = r[j]
        <5> SUFFICES ASSUME NEW j \in 1 .. Len(r) PROVE data[(i + 1) + j - 1] = r[j]
          OBVIOUS
        <5>1. j + 1 \in 1 .. Len(s) /\ i + (j + 1) - 1 = (i + 1) + j - 1
          BY <2>4, <3>3, <3>5
        <5>2. data[i + (j + 1) - 1] = s[j + 1]
          BY <2>4, <5>1 DEF Stands
        <5> QED BY <5>1, <5>2, <3>5
      <4>2. (i + 1) + Len(r) - 1 <= Len(data) /\ end + 1 = (i + 1) + Len(r)
        <5> HIDE DEF i, s, r
        <5>1. i + Len(s) - 1 <= Len(data)
          BY <2>4 DEF Stands
        <5> QED BY <1>1, <1>3, <2>4, <3>3, <3>5, <5>1
      <4> HIDE DEF i, s
      <4> QED BY <4>1, <4>2 DEF Stands
    <3>8. g[i + 1] = m \div Group
      <4>1. k - 1 \notin Wrong
        <5> HIDE DEF Wrong
        <5> QED BY <2>1, <2>2, <3>6
      <4> HIDE DEF i, Written
      <4> QED BY <3>1, <3>6, <3>7, <4>1
    <3> HIDE DEF i, s, b, r
    <3>9. g[i] = (m % Group) + Group * (m \div Group)
      BY <2>5, <2>6, <3>4, <3>5, <3>6, <3>8
    <3> DEFINE p == Group * (m \div Group)
               d == m % Group
    <3>10. m = p + d /\ g[i] = d + p /\ g[i] # m
      BY <2>4, <3>1, <3>9
    <3>11. p \in Nat /\ d \in Nat
      BY <1>1, <3>1
    <3> HIDE DEF p, d
    <3> QED BY <3>10, <3>11
  <2> QED BY <2>7, <2>8
<1>9. g[at] = n
  <2>1. end - at \in 0 .. end - at /\ end - (end - at) = at
    BY <1>3
  <2>2. Written(n, at)
    BY <1>6
  <2> HIDE DEF Written
  <2> QED BY <1>8, <2>1, <2>2
<1> QED BY <1>6, <1>7, <1>9

------------------------------------------------------------------------------
(* Byte buffers and strings. *)

LEMMA NatInduct ==
  ASSUME NEW P \in SUBSET Nat, 0 \in P, \A k \in P : k + 1 \in P
  PROVE  P = Nat
<1> DEFINE Rest == Nat \ P
<1> SUFFICES ASSUME Rest # {} PROVE FALSE
  OBVIOUS
<1>1. PICK k \in Rest : \A j \in Rest : k <= j
  <2>1. Rest \in SUBSET Nat
    OBVIOUS
  <2> HIDE DEF Rest
  <2> QED BY <2>1, LeastExists
<1>2. k \in Nat /\ k # 0 /\ k \notin P
  BY <1>1
<1>3. k - 1 \in Nat /\ (k - 1) + 1 = k /\ ~(k <= k - 1)
  BY <1>2
<1>4. k - 1 \in P
  BY <1>1, <1>3
<1> QED BY <1>2, <1>3, <1>4

LEMMA Portion ==
  ASSUME NEW data \in Seq(Nat), NEW m \in Nat \ {0}, NEW n \in Nat, m + n - 1 <= Len(data)
  PROVE  /\ SubSeq(data, m, m + n - 1) \in Seq(Nat) /\ Len(SubSeq(data, m, m + n - 1)) = n
         /\ \A i \in 1 .. n : SubSeq(data, m, m + n - 1)[i] = data[m + i - 1]
<1> DEFINE last == m + n - 1
<1>1. m \in Int /\ last \in Int /\ last - m + 1 = n /\ (n = 0 <=> ~(m <= last)) /\ Len(data) \in Nat
  OBVIOUS
<1>2. \A i \in m .. last : data[i] \in Nat
  <2> SUFFICES ASSUME NEW i \in m .. last PROVE data[i] \in Nat
    OBVIOUS
  <2>1. i \in 1 .. Len(data)
    BY <1>1
  <2> QED BY <2>1
<1> HIDE DEF last
<1>3. /\ SubSeq(data, m, last) \in Seq(Nat)
      /\ Len(SubSeq(data, m, last)) = IF m <= last THEN last - m + 1 ELSE 0
      /\ \A i \in 1 .. last - m + 1 : SubSeq(data, m, last)[i] = data[m + i - 1]
  BY <1>1, <1>2, SubSeqProperties
<1>4. Len(SubSeq(data, m, last)) = n
  BY <1>1, <1>3
<1> QED BY <1>1, <1>3, <1>4 DEF last

LEMMA PortionIs ==
  ASSUME NEW data \in Seq(Nat), NEW s \in Seq(Nat), NEW m \in Nat \ {0}, Stands(s, data, m)
  PROVE  SubSeq(data, m, m + Len(s) - 1) = s
<1> DEFINE t == SubSeq(data, m, m + Len(s) - 1)
<1>1. Len(s) \in Nat /\ m + Len(s) - 1 <= Len(data)
  BY DEF Stands
<1>2. t \in Seq(Nat) /\ Len(t) = Len(s) /\ \A i \in 1 .. Len(s) : t[i] = data[m + i - 1]
  BY <1>1, Portion
<1>3. \A i \in 1 .. Len(t) : t[i] = s[i]
  BY <1>2 DEF Stands
<1> HIDE DEF t
<1>4. t = s
  BY <1>2, <1>3, SeqEqual
<1> QED BY <1>4 DEF t

(* What stands one behind the other stands, each at its place. *)
LEMMA StandsConcat ==
  ASSUME NEW data \in Seq(Nat), NEW s \in Seq(Nat), NEW t \in Seq(Nat), NEW m \in Nat \ {0},
         Stands(s \o t, data, m)
  PROVE  Stands(s, data, m) /\ Stands(t, data, m + Len(s))
<1>1. /\ Len(s \o t) = Len(s) + Len(t)
      /\ \A i \in 1 .. Len(s) + Len(t) : (s \o t)[i] = IF i <= Len(s) THEN s[i] ELSE t[i - Len(s)]
  BY ConcatProperties
<1>2. Len(s) \in Nat /\ Len(t) \in Nat /\ Len(data) \in Nat
  OBVIOUS
<1>3. m + (Len(s) + Len(t)) - 1 <= Len(data)
      /\ \A i \in 1 .. Len(s) + Len(t) : data[m + i - 1] = (s \o t)[i]
  BY <1>1 DEF Stands
<1>4. \A i \in 1 .. Len(s) : data[m + i - 1] = s[i]
  <2> SUFFICES ASSUME NEW i \in 1 .. Len(s) PROVE data[m + i - 1] = s[i]
    OBVIOUS
  <2>1. i \in 1 .. Len(s) + Len(t) /\ i <= Len(s)
    BY <1>2
  <2> QED BY <1>1, <1>3, <2>1
<1>5. \A i \in 1 .. Len(t) : data[(m + Len(s)) + i - 1] = t[i]
  <2> SUFFICES ASSUME NEW i \in 1 .. Len(t) PROVE data[(m + Len(s)) + i - 1] = t[i]
    OBVIOUS
  <2>1. /\ Len(s) + i \in 1 .. Len(s) + Len(t) /\ ~(Len(s) + i <= Len(s))
        /\ (Len(s) + i) - Len(s) = i /\ m + (Len(s) + i) - 1 = (m + Len(s)) + i - 1
    BY <1>2
  <2>2. data[m + (Len(s) + i) - 1] = (s \o t)[Len(s) + i]
    BY <1>3, <2>1
  <2>3. (s \o t)[Len(s) + i] = t[(Len(s) + i) - Len(s)]
    BY <1>1, <2>1
  <2> QED BY <2>1, <2>2, <2>3
<1>6. m + Len(s) - 1 <= Len(data) /\ (m + Len(s)) + Len(t) - 1 <= Len(data)
  BY <1>2, <1>3
<1> QED BY <1>4, <1>5, <1>6 DEF Stands

LEMMA ReadBytesMeans ==
  ASSUME NEW data \in Seq(Nat), NEW at \in Nat, NEW n \in Nat, NEW start \in Nat,
         ReadVaruint(data, at) = Read(n, start)
  PROVE  ReadBytes(data, at) = IF start + n - 1 > Len(data) THEN Malformed
                               ELSE Read(SubSeq(data, start, start + n - 1), start + n)
BY ReadMeaning DEF ReadBytes

LEMMA ReadBytesType ==
  ASSUME NEW data \in Seq(Nat), NEW at \in Nat \ {0}
  PROVE  \/ ReadBytes(data, at) = Malformed
         \/ \E n \in Nat, start \in at + 1 .. Len(data) + 1 :
              /\ ReadVaruint(data, at) = Read(n, start) /\ start + n - 1 <= Len(data)
              /\ ReadBytes(data, at) = Read(SubSeq(data, start, start + n - 1), start + n)
<1>1. CASE ReadVaruint(data, at) = Malformed
  BY <1>1 DEF ReadBytes
<1>2. ASSUME NEW n \in Nat, NEW start \in at + 1 .. Len(data) + 1,
             ReadVaruint(data, at) = Read(n, start)
      PROVE  \/ ReadBytes(data, at) = Malformed
             \/ /\ start + n - 1 <= Len(data)
                /\ ReadBytes(data, at) = Read(SubSeq(data, start, start + n - 1), start + n)
  <2>1. start + n - 1 > Len(data) \/ start + n - 1 <= Len(data)
    OBVIOUS
  <2>2. ReadBytes(data, at) = IF start + n - 1 > Len(data) THEN Malformed
                               ELSE Read(SubSeq(data, start, start + n - 1), start + n)
    BY <1>2, ReadBytesMeans
  <2>3. start + n - 1 <= Len(data) => ~(start + n - 1 > Len(data))
    OBVIOUS
  <2> QED BY <2>1, <2>2, <2>3
<1> QED BY <1>1, <1>2, ReadVaruintType

LEMMA ReadBytesStable ==
  ASSUME NEW data \in Seq(Nat), NEW other \in Seq(Nat), Comparable(other, data),
         NEW at \in Nat \ {0}, NEW v, NEW next, ReadBytes(data, at) = Read(v, next)
  PROVE  /\ v \in Seq(Nat) /\ next \in at + 1 .. Len(data) + 1
         /\ ReadBytes(other, at) = IF next <= Len(other) + 1 THEN Read(v, next) ELSE Malformed
<1>1. PICK n \in Nat, start \in at + 1 .. Len(data) + 1 :
         /\ ReadVaruint(data, at) = Read(n, start) /\ start + n - 1 <= Len(data)
         /\ Read(v, next) = Read(SubSeq(data, start, start + n - 1), start + n)
  BY ReadBytesType, ReadMeaning
<1>2. v = SubSeq(data, start, start + n - 1) /\ next = start + n
  <2> DEFINE w == SubSeq(data, start, start + n - 1)
             m == start + n
  <2>1. Read(v, next) = Read(w, m)
    BY <1>1
  <2> HIDE DEF w, m
  <2>2. v = w /\ next = m
    BY <2>1, ReadMeaning
  <2> QED BY <2>2 DEF w, m
<1>3. Len(data) \in Nat /\ Len(other) \in Nat /\ start \in Nat \ {0}
  OBVIOUS
<1>4. v \in Seq(Nat) /\ Len(v) = n /\ \A i \in 1 .. n : v[i] = data[start + i - 1]
  BY <1>1, <1>2, <1>3, Portion
<1>5. next \in at + 1 .. Len(data) + 1
  BY <1>1, <1>2, <1>3
<1>6. ReadVaruint(other, at) = IF start <= Len(other) + 1 THEN Read(n, start) ELSE Malformed
  BY <1>1, ReadVaruintStable
<1>7. CASE next <= Len(other) + 1
  <2>1. start <= Len(other) + 1 /\ start + n - 1 <= Len(other) /\ ~(start + n - 1 > Len(other))
    BY <1>2, <1>3, <1>7
  <2>2. \A i \in 1 .. n : other[start + i - 1] = v[i]
    <3> SUFFICES ASSUME NEW i \in 1 .. n PROVE other[start + i - 1] = v[i]
      OBVIOUS
    <3>1. start + i - 1 \in 1 .. Len(data) /\ start + i - 1 <= Len(other)
      BY <1>1, <1>3, <2>1
    <3>2. other[start + i - 1] = data[start + i - 1]
      BY <3>1 DEF Comparable
    <3> QED BY <1>4, <3>2
  <2>3. SubSeq(other, start, start + n - 1) = v
    <3>1. Stands(v, other, start)
      BY <1>4, <2>1, <2>2 DEF Stands
    <3> QED BY <1>3, <1>4, <3>1, PortionIs
  <2>4. ReadBytes(other, at) = Read(SubSeq(other, start, start + n - 1), start + n)
    BY <1>6, <2>1, ReadBytesMeans
  <2> QED BY <1>2, <1>4, <1>5, <1>7, <2>3, <2>4
<1>8. CASE ~(next <= Len(other) + 1)
  <2>1. start + n - 1 > Len(other)
    BY <1>2, <1>3, <1>8
  <2>2. ReadBytes(other, at) = Malformed
    <3>1. CASE start <= Len(other) + 1
      BY <1>6, <2>1, <3>1, ReadBytesMeans
    <3>2. CASE ~(start <= Len(other) + 1)
      BY <1>6, <3>2 DEF ReadBytes
    <3> QED BY <3>1, <3>2
  <2> QED BY <1>4, <1>5, <1>8, <2>2
<1> QED BY <1>7, <1>8

LEMMA ReadsBytes ==
  ASSUME NEW data \in Seq(Nat), NEW at \in Nat \ {0}, NEW raw \in Seq(Nat),
         Stands(Counted(raw), data, at), Len(Varuint(Len(raw))) <= MaxGroups
  PROVE  ReadBytes(data, at) = Read(raw, at + Len(Counted(raw)))
<1> DEFINE n == Len(raw)
           count == Varuint(n)
           start == at + Len(count)
<1>1. n \in Nat /\ count \in Seq(Nat) /\ Len(count) \in Nat /\ Len(data) \in Nat
  <2>1. n \in Nat /\ Len(data) \in Nat
    OBVIOUS
  <2> HIDE DEF n
  <2> QED BY <2>1, VaruintLength
<1>2. Counted(raw) = count \o raw
  BY DEF Counted
<1>3. start \in Nat \ {0}
  BY <1>1
<1>4. Stands(count, data, at) /\ Stands(raw, data, start)
  <2> HIDE DEF count
  <2> QED BY <1>1, <1>2, StandsConcat
<1>5. ReadVaruint(data, at) = Read(n, start)
  BY <1>1, <1>4, ReadsVaruint
<1>6. SubSeq(data, start, start + n - 1) = raw /\ start + n - 1 <= Len(data)
  <2> HIDE DEF start
  <2> QED BY <1>3, <1>4, PortionIs DEF Stands
<1>7. Len(Counted(raw)) = Len(count) + n
  <2> HIDE DEF count
  <2> QED BY <1>1, <1>2, ConcatProperties
<1>8. start + n = at + Len(Counted(raw)) /\ ~(start + n - 1 > Len(data))
  <2> HIDE DEF count, n
  <2> QED BY <1>1, <1>6, <1>7, <1>3
<1>9. ReadBytes(data, at) = IF start + n - 1 > Len(data) THEN Malformed
                            ELSE Read(SubSeq(data, start, start + n - 1), start + n)
  <2> HIDE DEF start, n
  <2> QED BY <1>1, <1>3, <1>5, ReadBytesMeans
<1> HIDE DEF start, n
<1> QED BY <1>6, <1>8, <1>9

LEMMA ReadStringStable ==
  ASSUME NEW data \in Seq(Nat), NEW other \in Seq(Nat), Comparable(other, data),
         NEW at \in Nat \ {0}, NEW v, NEW next, ReadString(data, at) = Read(v, next)
  PROVE  /\ v \in Seq(Nat) /\ next \in at + 1 .. Len(data) + 1
         /\ ReadString(other, at) = IF next <= Len(other) + 1 THEN Read(v, next) ELSE Malformed
<1>1. ReadBytes(data, at) = Read(v, next) /\ v \in Text
  BY ReadMeaning DEF ReadString
<1>2. /\ v \in Seq(Nat) /\ next \in at + 1 .. Len(data) + 1
      /\ ReadBytes(other, at) = IF next <= Len(other) + 1 THEN Read(v, next) ELSE Malformed
  BY <1>1, ReadBytesStable
<1> QED BY <1>1, <1>2, ReadMeaning DEF ReadString

LEMMA ReadStringType ==
  ASSUME NEW data \in Seq(Nat), NEW at \in Nat \ {0}
  PROVE  \/ ReadString(data, at) = Malformed
         \/ \E v \in Seq(Nat), next \in at + 1 .. Len(data) + 1 :
              ReadString(data, at) = Read(v, next)
<1>1. ReadString(data, at) = Malformed \/ ReadString(data, at) = ReadBytes(data, at)
  BY DEF ReadString
<1>2. Comparable(data, data)
  BY DEF Comparable
<1>3. \/ ReadBytes(data, at) = Malformed
      \/ \E v, next : ReadBytes(data, at) = Read(v, next)
  BY ReadBytesType
<1>4. ASSUME NEW v, NEW next, ReadString(data, at) = Read(v, next)
      PROVE  v \in Seq(Nat) /\ next \in at + 1 .. Len(data) + 1
  BY <1>2, <1>4, ReadStringStable
<1> QED BY <1>1, <1>3, <1>4
------------------------------------------------------------------------------
(* Lists of strings. *)

(* One more string, read where the list so far ends. *)
More(data, before) ==
  LET next == ReadString(data, before.next)
  IN IF before = Malformed \/ next = Malformed THEN Malformed
     ELSE Read(Append(before.value, next.value), next.next)

Chain(S, data, start) == /\ S[0] = Read(<<>>, start)
                         /\ \A k \in Nat : S[k + 1] = More(data, S[k])

Lists == {Malformed} \cup {Read(v, next) : v \in Seq(Seq(Nat)), next \in Nat \ {0}}

LEMMA ListsHas ==
  ASSUME NEW v \in Seq(Seq(Nat)), NEW next \in Nat \ {0}
  PROVE  Read(v, next) \in Lists
<1> DEFINE All == Seq(Seq(Nat))
           Offsets == Nat \ {0}
<1> HIDE DEF All, Offsets
<1>1. \A w \in All, m \in Offsets : Read(w, m) \in {Read(x, i) : x \in All, i \in Offsets}
  OBVIOUS
<1> QED BY <1>1 DEF Lists, All, Offsets

LEMMA MoreType ==
  ASSUME NEW data \in Seq(Nat), NEW before \in Lists
  PROVE  More(data, before) \in Lists
<1>1. CASE before = Malformed
  BY <1>1 DEF More, Lists
<1>2. ASSUME NEW v \in Seq(Seq(Nat)), NEW m \in Nat \ {0}, before = Read(v, m)
      PROVE  More(data, before) \in Lists
  <2>1. before.value = v /\ before.next = m
    BY <1>2, ReadMeaning
  <2>2. CASE ReadString(data, m) = Malformed
    BY <2>1, <2>2 DEF More, Lists
  <2>3. ASSUME NEW e \in Seq(Nat), NEW next \in m + 1 .. Len(data) + 1,
               ReadString(data, m) = Read(e, next)
        PROVE  More(data, before) \in Lists
    <3>1. Append(v, e) \in Seq(Seq(Nat)) /\ next \in Nat \ {0}
      BY AppendProperties
    <3>2. More(data, before) = Read(Append(v, e), next)
      BY <1>2, <2>1, <2>3, ReadMeaning DEF More
    <3> QED BY <3>1, <3>2, ListsHas
  <2> QED BY <2>2, <2>3, ReadStringType
<1> QED BY <1>1, <1>2 DEF Lists

LEMMA ReadStringsMeans ==
  ASSUME NEW data \in Seq(Nat), NEW at \in Nat \ {0}, NEW n \in Nat, NEW start \in Nat \ {0},
         ReadVaruint(data, at) = Read(n, start)
  PROVE  \E S : Chain(S, data, start) /\ ReadStrings(data, at) = S[n]
<1> DEFINE Obeys(f) == f = [k \in Nat |->
             IF k = 0 THEN Read(<<>>, start)
             ELSE LET before == f[k - 1]
                      next == ReadString(data, before.next)
                  IN IF before = Malformed \/ next = Malformed THEN Malformed
                     ELSE Read(Append(before.value, next.value), next.next)]
           S == CHOOSE f : Obeys(f)
<1>1. \E f : Obeys(f)
  <2> DEFINE Ground == {0}
             base == [k \in Ground |-> Read(<<>>, start)]
             before == [k \in Nat |-> IF k = 0 THEN 0 ELSE k - 1]
             step == [x \in Nat \X Lists |-> More(data, x[2])]
  <2>1. Ground \in SUBSET Nat /\ 0 \in Ground
    OBVIOUS
  <2>2. base \in [Ground -> Lists]
    <3>1. <<>> \in Seq(Seq(Nat))
      BY EmptySeq
    <3>2. Read(<<>>, start) \in Lists
      BY <3>1, ListsHas
    <3> QED BY <3>2
  <2>3. before \in [Nat -> Nat] /\ \A k \in Nat \ Ground : before[k] < k
    OBVIOUS
  <2>4. step \in [Nat \X Lists -> Lists]
    <3>1. \A x \in Nat \X Lists : More(data, x[2]) \in Lists
      BY MoreType
    <3> QED BY <3>1
  <2> HIDE DEF Ground, base, before, step, Obeys
  <2>5. PICK f \in [Nat -> Lists] : Solves(f, Ground, base, before, step)
    BY <2>1, <2>2, <2>3, <2>4, RecursionExists DEF Recursion
  <2>6. \A k \in Nat : f[k] = IF k = 0 THEN Read(<<>>, start) ELSE More(data, f[k - 1])
    <3> SUFFICES ASSUME NEW k \in Nat
                 PROVE  f[k] = IF k = 0 THEN Read(<<>>, start) ELSE More(data, f[k - 1])
      OBVIOUS
    <3>1. CASE k = 0
      <4>1. k \in Ground /\ base[k] = Read(<<>>, start)
        BY <3>1 DEF Ground, base
      <4> QED BY <2>5, <3>1, <4>1 DEF Solves
    <3>2. CASE k # 0
      <4>1. k \notin Ground /\ before[k] = k - 1 /\ k - 1 \in Nat
        BY <3>2 DEF Ground, before
      <4>2. f[k] = step[<<k, f[k - 1]>>]
        BY <2>5, <4>1 DEF Solves
      <4>3. step[<<k, f[k - 1]>>] = More(data, f[k - 1])
        <5>1. f[k - 1] \in Lists
          BY <4>1
        <5>2. <<k, f[k - 1]>> \in Nat \X Lists
          BY <5>1
        <5> QED BY <5>2 DEF step
      <4> QED BY <3>2, <4>2, <4>3
    <3> QED BY <3>1, <3>2
  <2>7. f = [k \in Nat |-> IF k = 0 THEN Read(<<>>, start) ELSE More(data, f[k - 1])]
    BY <2>6
  <2>8. Obeys(f)
    BY <2>7 DEF Obeys, More
  <2> QED BY <2>8
<1>2. Obeys(S)
  BY <1>1
<1>3. ReadStrings(data, at) = S[n]
  <2> DEFINE count == ReadVaruint(data, at)
  <2>1. ReadStrings(data, at) =
          IF count = Malformed THEN Malformed
          ELSE (CHOOSE f : f = [k \in Nat |->
             IF k = 0 THEN Read(<<>>, count.next)
             ELSE LET before == f[k - 1]
                      next == ReadString(data, before.next)
                  IN IF before = Malformed \/ next = Malformed THEN Malformed
                     ELSE Read(Append(before.value, next.value), next.next)])[count.value]
    BY DEF ReadStrings
  <2>2. count # Malformed /\ count.next = start /\ count.value = n
    BY ReadMeaning
  <2> HIDE DEF count
  <2> QED BY <2>1, <2>2
<1> HIDE DEF S
<1>4. S = [k \in Nat |-> IF k = 0 THEN Read(<<>>, start) ELSE More(data, S[k - 1])]
  BY <1>2 DEF More
<1>5. Chain(S, data, start)
  <2>1. S[0] = Read(<<>>, start)
    BY <1>4
  <2>2. ASSUME NEW k \in Nat PROVE S[k + 1] = More(data, S[k])
    <3>1. k + 1 \in Nat /\ k + 1 # 0 /\ (k + 1) - 1 = k
      OBVIOUS
    <3> QED BY <1>4, <3>1
  <2> QED BY <2>1, <2>2 DEF Chain
<1> QED BY <1>3, <1>5
(* What a list that has grown says of the list before. *)
LEMMA MoreGives ==
  ASSUME NEW data, NEW before, NEW v, NEW next, More(data, before) = Read(v, next)
  PROVE  /\ before # Malformed /\ ReadString(data, before.next) # Malformed
         /\ v = Append(before.value, ReadString(data, before.next).value)
         /\ next = ReadString(data, before.next).next
<1>1. before # Malformed /\ ReadString(data, before.next) # Malformed
  BY ReadMeaning DEF More
<1>2. Read(v, next) = Read(Append(before.value, ReadString(data, before.next).value),
                           ReadString(data, before.next).next)
  BY <1>1 DEF More
<1>3. /\ v = Append(before.value, ReadString(data, before.next).value)
      /\ next = ReadString(data, before.next).next
  <2> DEFINE w == Append(before.value, ReadString(data, before.next).value)
             m == ReadString(data, before.next).next
  <2>1. Read(v, next) = Read(w, m)
    BY <1>2
  <2> HIDE DEF w, m
  <2>2. v = w /\ next = m
    BY <2>1, ReadInjective
  <2> QED BY <2>2 DEF w, m
<1> QED BY <1>1, <1>3

LEMMA ChainType ==
  ASSUME NEW data, NEW start, NEW S, Chain(S, data, start), NEW k \in Nat
  PROVE  S[k] = Malformed \/ \E w, m : S[k] = Read(w, m)
<1>1. CASE k = 0
  BY <1>1 DEF Chain
<1>2. CASE k # 0
  <2>1. k - 1 \in Nat /\ (k - 1) + 1 = k
    BY <1>2
  <2>2. S[k] = More(data, S[k - 1])
    <3>1. S[(k - 1) + 1] = More(data, S[k - 1])
      BY <2>1 DEF Chain
    <3> QED BY <2>1, <3>1
  <2> QED BY <2>2 DEF More
<1> QED BY <1>1, <1>2

LEMMA ChainStable ==
  ASSUME NEW data \in Seq(Nat), NEW other \in Seq(Nat), Comparable(other, data),
         NEW start \in Nat \ {0}, start <= Len(data) + 1, start <= Len(other) + 1,
         NEW S, NEW R, Chain(S, data, start), Chain(R, other, start)
  PROVE  \A k \in Nat : \A v, m : S[k] = Read(v, m) =>
           /\ v \in Seq(Seq(Nat)) /\ m \in start .. Len(data) + 1
           /\ R[k] = IF m <= Len(other) + 1 THEN Read(v, m) ELSE Malformed
<1> DEFINE Good(k) == \A v, m : S[k] = Read(v, m) =>
                        /\ v \in Seq(Seq(Nat)) /\ m \in start .. Len(data) + 1
                        /\ R[k] = IF m <= Len(other) + 1 THEN Read(v, m) ELSE Malformed
           P == {k \in Nat : Good(k)}
<1>1. Good(0)
  <2> SUFFICES ASSUME NEW v, NEW m, S[0] = Read(v, m)
               PROVE  /\ v \in Seq(Seq(Nat)) /\ m \in start .. Len(data) + 1
                      /\ R[0] = IF m <= Len(other) + 1 THEN Read(v, m) ELSE Malformed
    OBVIOUS
  <2>1. S[0] = Read(<<>>, start) /\ R[0] = Read(<<>>, start)
    BY DEF Chain
  <2>2. v = <<>> /\ m = start
    <3>1. Read(v, m) = Read(<<>>, start)
      BY <2>1
    <3> QED BY <3>1, ReadInjective
  <2>3. <<>> \in Seq(Seq(Nat))
    BY EmptySeq
  <2>4. start \in start .. Len(data) + 1
    OBVIOUS
  <2> QED BY <2>1, <2>2, <2>3, <2>4
<1>2. ASSUME NEW k \in Nat, Good(k) PROVE Good(k + 1)
  <2> SUFFICES ASSUME NEW v, NEW next, S[k + 1] = Read(v, next)
               PROVE  /\ v \in Seq(Seq(Nat)) /\ next \in start .. Len(data) + 1
                      /\ R[k + 1] = IF next <= Len(other) + 1 THEN Read(v, next) ELSE Malformed
    OBVIOUS
  <2>1. S[k + 1] = More(data, S[k]) /\ R[k + 1] = More(other, R[k])
    BY DEF Chain
  <2>g. /\ S[k] # Malformed /\ ReadString(data, S[k].next) # Malformed
        /\ v = Append(S[k].value, ReadString(data, S[k].next).value)
        /\ next = ReadString(data, S[k].next).next
    <3>1. More(data, S[k]) = Read(v, next)
      BY <2>1
    <3> QED BY <3>1, MoreGives
  <2>2. S[k] # Malformed
    BY <2>g
  <2>3. PICK w, m : S[k] = Read(w, m)
    <3>1. S[k] = Malformed \/ \E w, m : S[k] = Read(w, m)
      BY ChainType
    <3> QED BY <2>2, <3>1
  <2>4. /\ w \in Seq(Seq(Nat)) /\ m \in start .. Len(data) + 1 /\ m \in Nat \ {0}
        /\ R[k] = IF m <= Len(other) + 1 THEN Read(w, m) ELSE Malformed
    BY <1>2, <2>3
  <2>5. S[k].value = w /\ S[k].next = m
    BY <2>3, ReadMeaning
  <2>6. PICK e \in Seq(Nat), i \in m + 1 .. Len(data) + 1 : ReadString(data, m) = Read(e, i)
    <3>1. ReadString(data, m) # Malformed
      BY <2>5, <2>g
    <3> QED BY <2>4, <3>1, ReadStringType
  <2>7. v = Append(w, e) /\ next = i
    <3>1. v = Append(w, Read(e, i).value) /\ next = Read(e, i).next
      BY <2>g, <2>5, <2>6
    <3>2. Read(e, i).value = e /\ Read(e, i).next = i
      BY ReadMeaning
    <3> QED BY <3>1, <3>2
  <2>8. ReadString(other, m) = IF i <= Len(other) + 1 THEN Read(e, i) ELSE Malformed
    BY <2>4, <2>6, ReadStringStable
  <2>9. v \in Seq(Seq(Nat)) /\ next \in start .. Len(data) + 1
    <3>1. Append(w, e) \in Seq(Seq(Nat))
      BY <2>4, AppendProperties
    <3>2. i \in start .. Len(data) + 1
      BY <2>4
    <3> QED BY <2>7, <3>1, <3>2
  <2>10. R[k + 1] = IF i <= Len(other) + 1 THEN Read(Append(w, e), i) ELSE Malformed
    <3>1. CASE m <= Len(other) + 1
      <4>1. R[k] = Read(w, m) /\ R[k].value = w /\ R[k].next = m /\ R[k] # Malformed
        BY <2>4, <3>1, ReadMeaning
      <4>2. CASE i <= Len(other) + 1
        BY <2>1, <2>8, <4>1, <4>2, ReadMeaning DEF More
      <4>3. CASE ~(i <= Len(other) + 1)
        BY <2>1, <2>8, <4>1, <4>3 DEF More
      <4> QED BY <4>2, <4>3
    <3>2. CASE ~(m <= Len(other) + 1)
      <4>1. R[k + 1] = Malformed
        BY <2>1, <2>4, <3>2 DEF More
      <4>2. ~(i <= Len(other) + 1)
        BY <2>4, <3>2
      <4> QED BY <4>1, <4>2
    <3> QED BY <3>1, <3>2
  <2> QED BY <2>7, <2>9, <2>10
<1> HIDE DEF Good
<1>3. P = Nat
  <2>1. P \in SUBSET Nat /\ 0 \in P /\ \A k \in P : k + 1 \in P
    BY <1>1, <1>2
  <2> HIDE DEF P
  <2> QED BY <2>1, NatInduct
<1> QED BY <1>3 DEF Good

LEMMA ReadStringsType ==
  ASSUME NEW data \in Seq(Nat), NEW at \in Nat \ {0}
  PROVE  ReadStrings(data, at) = Malformed \/ \E v, next : ReadStrings(data, at) = Read(v, next)
<1>1. CASE ReadVaruint(data, at) = Malformed
  BY <1>1 DEF ReadStrings
<1>2. ASSUME NEW n \in Nat, NEW start \in at + 1 .. Len(data) + 1,
             ReadVaruint(data, at) = Read(n, start)
      PROVE  ReadStrings(data, at) = Malformed \/ \E v, next : ReadStrings(data, at) = Read(v, next)
  <2>1. start \in Nat \ {0}
    OBVIOUS
  <2>2. PICK S : Chain(S, data, start) /\ ReadStrings(data, at) = S[n]
    BY <1>2, <2>1, ReadStringsMeans
  <2> QED BY <2>2, ChainType
<1> QED BY <1>1, <1>2, ReadVaruintType

LEMMA ReadStringsStable ==
  ASSUME NEW data \in Seq(Nat), NEW other \in Seq(Nat), Comparable(other, data),
         NEW at \in Nat \ {0}, NEW v, NEW next, ReadStrings(data, at) = Read(v, next)
  PROVE  /\ v \in Seq(Seq(Nat)) /\ next \in at + 1 .. Len(data) + 1
         /\ ReadStrings(other, at) = IF next <= Len(other) + 1 THEN Read(v, next) ELSE Malformed
<1>1. ReadVaruint(data, at) # Malformed
  BY ReadMeaning DEF ReadStrings
<1>2. PICK n \in Nat, start \in at + 1 .. Len(data) + 1 : ReadVaruint(data, at) = Read(n, start)
  BY <1>1, ReadVaruintType
<1>3. Len(data) \in Nat /\ Len(other) \in Nat /\ start \in Nat \ {0} /\ start <= Len(data) + 1
  OBVIOUS
<1>4. ReadVaruint(other, at) = IF start <= Len(other) + 1 THEN Read(n, start) ELSE Malformed
  BY <1>2, ReadVaruintStable
<1>5. PICK S : Chain(S, data, start) /\ ReadStrings(data, at) = S[n]
  BY <1>2, <1>3, ReadStringsMeans
<1>6. v \in Seq(Seq(Nat)) /\ next \in start .. Len(data) + 1
  <2>1. Comparable(data, data)
    BY DEF Comparable
  <2>2. S[n] = Read(v, next)
    BY <1>5
  <2>3. \A k \in Nat : \A w, m : S[k] = Read(w, m) =>
           /\ w \in Seq(Seq(Nat)) /\ m \in start .. Len(data) + 1
           /\ S[k] = IF m <= Len(data) + 1 THEN Read(w, m) ELSE Malformed
    BY <1>3, <1>5, <2>1, ChainStable
  <2> QED BY <2>2, <2>3
<1>7. next \in at + 1 .. Len(data) + 1
  BY <1>3, <1>6
<1>8. CASE start <= Len(other) + 1
  <2>1. PICK R : Chain(R, other, start) /\ ReadStrings(other, at) = R[n]
    BY <1>3, <1>4, <1>8, ReadStringsMeans
  <2>2. S[n] = Read(v, next)
    BY <1>5
  <2>3. R[n] = IF next <= Len(other) + 1 THEN Read(v, next) ELSE Malformed
    <3>1. \A k \in Nat : \A w, m : S[k] = Read(w, m) =>
             /\ w \in Seq(Seq(Nat)) /\ m \in start .. Len(data) + 1
             /\ R[k] = IF m <= Len(other) + 1 THEN Read(w, m) ELSE Malformed
      BY <1>3, <1>5, <1>8, <2>1, ChainStable
    <3> QED BY <2>2, <3>1
  <2> QED BY <1>6, <1>7, <2>1, <2>3
<1>9. CASE ~(start <= Len(other) + 1)
  <2>1. ReadStrings(other, at) = Malformed
    BY <1>4, <1>9 DEF ReadStrings
  <2>2. ~(next <= Len(other) + 1)
    BY <1>3, <1>6, <1>9
  <2> QED BY <1>6, <1>7, <2>1, <2>2
<1> QED BY <1>8, <1>9

------------------------------------------------------------------------------
(* Messages. *)

Framed == {"event", "subdocs", "strings"}

(* A frame of which another is a beginning, or which goes on behind its end, *)
(* is not read as a message.                                               *)
LEMMA FrameAlone ==
  ASSUME NEW frame \in Seq(Nat), NEW other \in Seq(Nat), Comparable(other, frame),
         Len(other) # Len(frame), DecodeMessage(frame).type \in Framed
  PROVE  DecodeMessage(other) = Malformed
<1>1. Len(frame) \in Nat /\ Len(other) \in Nat /\ Malformed.type \notin Framed
  BY DEF Malformed, Framed
<1> DEFINE tag == ReadVaruint(frame, 1)
           it  == ReadVaruint(other, 1)
<1>2. tag # Malformed
  BY <1>1 DEF DecodeMessage
<1>3. PICK n \in Nat, start \in 1 + 1 .. Len(frame) + 1 : tag = Read(n, start)
  BY <1>2, ReadVaruintType
<1>4. start \in Nat \ {0} /\ tag.value = n /\ tag.next = start
  BY <1>3, ReadMeaning
<1>5. it = IF start <= Len(other) + 1 THEN Read(n, start) ELSE Malformed
  BY <1>3, ReadVaruintStable
<1>6. ASSUME it = Malformed PROVE DecodeMessage(other) = Malformed
  BY <1>6 DEF DecodeMessage
<1>7. ASSUME NEW body, NEW next \in Nat, next = Len(frame) + 1,
             body = IF next <= Len(other) + 1 THEN Read(body.value, next) ELSE Malformed,
             NEW message
      PROVE  Consumed(other, body, message) = Malformed
  <2>1. CASE next <= Len(other) + 1
    <3>1. body.next = next
      BY <1>7, <2>1, ReadMeaning
    <3>2. next # Len(other) + 1
      BY <1>1, <1>7
    <3> QED BY <3>1, <3>2 DEF Consumed
  <2>2. CASE ~(next <= Len(other) + 1)
    BY <1>7, <2>2 DEF Consumed
  <2> QED BY <2>1, <2>2
<1>8. CASE it # Malformed
  <2>1. it.value = n /\ it.next = start
    BY <1>5, <1>8, ReadMeaning
  <2>2. CASE n \in {MsgEvent, MsgSubdocs}
    <3> DEFINE body == ReadBytes(frame, start)
               its  == ReadBytes(other, start)
    <3>1. body # Malformed /\ body.next = Len(frame) + 1
      BY <1>1, <1>2, <1>4, <2>2 DEF DecodeMessage, Consumed
    <3>2. PICK v, next : body = Read(v, next)
      BY <1>4, <3>1, ReadBytesType
    <3>3. next \in Nat /\ next = Len(frame) + 1
      BY <1>1, <3>1, <3>2, ReadMeaning
    <3>4. its = IF next <= Len(other) + 1 THEN Read(v, next) ELSE Malformed
      BY <1>4, <3>2, ReadBytesStable
    <3>5. \A message : Consumed(other, its, message) = Malformed
      <4>1. its = IF next <= Len(other) + 1 THEN Read(its.value, next) ELSE Malformed
        BY <3>4, ReadMeaning
      <4> HIDE DEF its
      <4> QED BY <1>7, <3>3, <4>1
    <3> QED BY <1>8, <2>1, <2>2, <3>5 DEF DecodeMessage
  <2>3. CASE n \notin {MsgEvent, MsgSubdocs} /\ n \in StringLists
    <3> DEFINE body == ReadStrings(frame, start)
               its  == ReadStrings(other, start)
    <3>1. body # Malformed /\ body.next = Len(frame) + 1
      BY <1>1, <1>2, <1>4, <2>3 DEF DecodeMessage, Consumed
    <3>2. PICK v, next : body = Read(v, next)
      BY <1>4, <3>1, ReadStringsType
    <3>3. next \in Nat /\ next = Len(frame) + 1
      BY <1>1, <3>1, <3>2, ReadMeaning
    <3>4. its = IF next <= Len(other) + 1 THEN Read(v, next) ELSE Malformed
      BY <1>4, <3>2, ReadStringsStable
    <3>5. \A message : Consumed(other, its, message) = Malformed
      <4>1. its = IF next <= Len(other) + 1 THEN Read(its.value, next) ELSE Malformed
        BY <3>4, ReadMeaning
      <4> HIDE DEF its
      <4> QED BY <1>7, <3>3, <4>1
    <3> QED BY <1>8, <2>1, <2>3, <3>5 DEF DecodeMessage
  <2>4. CASE n \notin {MsgEvent, MsgSubdocs} /\ n \notin StringLists
    <3>1. DecodeMessage(frame).type = "other"
      BY <1>2, <1>4, <2>4 DEF DecodeMessage
    <3> QED BY <3>1 DEF Framed
  <2> QED BY <2>2, <2>3, <2>4
<1> QED BY <1>6, <1>8
------------------------------------------------------------------------------
(* What the encoders write. *)

(* F[k] is what the first k sequences are, one behind the other. *)
Joins(F, seqs) == /\ F \in [Nat -> Seq(Nat)] /\ F[0] = <<>>
                  /\ \A k \in 1 .. Len(seqs) : F[k] = F[k - 1] \o seqs[k]

LEMMA JoinsExists ==
  ASSUME NEW seqs \in Seq(Seq(Nat))
  PROVE  \E F : Joins(F, seqs)
<1> DEFINE Ground == {0}
           base == [k \in Ground |-> <<>>]
           before == [k \in Nat |-> IF k = 0 THEN 0 ELSE k - 1]
           Item(k) == IF k \in 1 .. Len(seqs) THEN seqs[k] ELSE <<>>
           step == [x \in Nat \X Seq(Nat) |-> x[2] \o Item(x[1])]
<1>1. Ground \in SUBSET Nat /\ 0 \in Ground
  OBVIOUS
<1>2. base \in [Ground -> Seq(Nat)] /\ <<>> \in Seq(Nat)
  BY EmptySeq
<1>3. before \in [Nat -> Nat] /\ \A k \in Nat \ Ground : before[k] < k
  OBVIOUS
<1>4. \A k \in Nat : Item(k) \in Seq(Nat)
  BY <1>2, ElementOfSeq
<1>5. step \in [Nat \X Seq(Nat) -> Seq(Nat)]
  <2> HIDE DEF Item
  <2>1. \A x \in Nat \X Seq(Nat) : x[2] \o Item(x[1]) \in Seq(Nat)
    <3> SUFFICES ASSUME NEW x \in Nat \X Seq(Nat) PROVE x[2] \o Item(x[1]) \in Seq(Nat)
      OBVIOUS
    <3>1. x[1] \in Nat /\ x[2] \in Seq(Nat)
      OBVIOUS
    <3> QED BY <1>4, <3>1, ConcatProperties
  <2> QED BY <2>1
<1> HIDE DEF Ground, base, before, step, Item
<1>6. PICK F \in [Nat -> Seq(Nat)] : Solves(F, Ground, base, before, step)
  BY <1>1, <1>2, <1>3, <1>5, RecursionExists DEF Recursion
<1>7. F[0] = <<>>
  BY <1>6 DEF Solves, Ground, base
<1>8. ASSUME NEW k \in 1 .. Len(seqs) PROVE F[k] = F[k - 1] \o seqs[k]
  <2>1. k \in Nat /\ k - 1 \in Nat /\ k \notin Ground /\ before[k] = k - 1
    BY DEF Ground, before
  <2>2. F[k] = step[<<k, F[k - 1]>>]
    BY <1>6, <2>1 DEF Solves
  <2>3. step[<<k, F[k - 1]>>] = F[k - 1] \o Item(k)
    <3>1. <<k, F[k - 1]>> \in Nat \X Seq(Nat)
      BY <2>1
    <3> QED BY <3>1 DEF step
  <2>4. Item(k) = seqs[k]
    BY DEF Item
  <2> QED BY <2>2, <2>3, <2>4
<1> QED BY <1>7, <1>8 DEF Joins

LEMMA Flattened ==
  ASSUME NEW seqs \in Seq(Seq(Nat)), NEW F, Joins(F, seqs)
  PROVE  FlattenSeq(seqs) = F[Len(seqs)]
<1> DEFINE n == Len(seqs)
           Obeys(f) == f = [i \in 1 .. n |-> IF i = 1 THEN seqs[i] ELSE f[i - 1] \o seqs[i]]
           V == CHOOSE f : Obeys(f)
<1>1. n \in Nat /\ F \in [Nat -> Seq(Nat)] /\ F[0] = <<>>
  BY DEF Joins
<1>2. CASE n = 0
  <2>1. FlattenSeq(seqs) = seqs
    BY <1>2 DEF FlattenSeq
  <2>2. seqs = <<>>
    BY <1>2, EmptySeq
  <2> QED BY <1>1, <1>2, <2>1, <2>2
<1>3. CASE n # 0
  <2>1. FlattenSeq(seqs) = V[n]
    BY <1>3 DEF FlattenSeq
  <2> DEFINE g == [i \in 1 .. n |-> F[i]]
  <2>2. \A i \in 1 .. n : g[i] = IF i = 1 THEN seqs[i] ELSE g[i - 1] \o seqs[i]
    <3> SUFFICES ASSUME NEW i \in 1 .. n
                 PROVE  g[i] = IF i = 1 THEN seqs[i] ELSE g[i - 1] \o seqs[i]
      OBVIOUS
    <3>1. g[i] = F[i - 1] \o seqs[i]
      BY DEF Joins
    <3>2. CASE i = 1
      <4>1. seqs[1] \in Seq(Nat) /\ F[i - 1] = <<>>
        BY <1>1, <3>2, ElementOfSeq
      <4>2. <<>> \o seqs[1] = seqs[1]
        BY <4>1, ConcatEmptySeq
      <4> QED BY <3>1, <3>2, <4>1, <4>2
    <3>3. CASE i # 1
      <4>1. i - 1 \in 1 .. n
        BY <3>3
      <4> QED BY <3>1, <3>3, <4>1
    <3> QED BY <3>2, <3>3
  <2>3. Obeys(g)
    <3>1. g = [i \in 1 .. n |-> g[i]]
      OBVIOUS
    <3> HIDE DEF g
    <3> QED BY <2>2, <3>1
  <2>4. Obeys(V)
    <3> HIDE DEF Obeys, g
    <3> QED BY <2>3
  <2> HIDE DEF V
  <2> DEFINE P == {k \in Nat : k \in 1 .. n => V[k] = g[k]}
  <2>5. P = Nat
    <3>1. P \in SUBSET Nat /\ 0 \in P
      OBVIOUS
    <3>2. ASSUME NEW k \in P PROVE k + 1 \in P
      <4> SUFFICES ASSUME k + 1 \in 1 .. n PROVE V[k + 1] = g[k + 1]
        OBVIOUS
      <4> HIDE DEF g
      <4>1. V[k + 1] = IF k + 1 = 1 THEN seqs[k + 1] ELSE V[(k + 1) - 1] \o seqs[k + 1]
        BY <2>4
      <4>2. g[k + 1] = IF k + 1 = 1 THEN seqs[k + 1] ELSE g[(k + 1) - 1] \o seqs[k + 1]
        BY <2>2
      <4>3. k + 1 # 1 => (k + 1) - 1 = k /\ k \in 1 .. n
        BY <1>1
      <4>4. k + 1 # 1 => V[k] = g[k]
        BY <4>3
      <4> QED BY <4>1, <4>2, <4>3, <4>4
    <3> HIDE DEF P
    <3> QED BY <3>1, <3>2, NatInduct
  <2>6. n \in P /\ n \in 1 .. n
    <3> HIDE DEF P
    <3> QED BY <1>1, <1>3, <2>5
  <2>7. V[n] = g[n] /\ g[n] = F[n]
    <3>1. V[n] = g[n]
      <4> HIDE DEF g
      <4> QED BY <2>6
    <3>2. g[n] = F[n]
      BY <2>6
    <3> QED BY <3>1, <3>2
  <2> HIDE DEF n
  <2> QED BY <2>1, <2>7 DEF n
<1> QED BY <1>2, <1>3
Fits(n) == Len(Varuint(n)) <= MaxGroups

CountedAll(values) == [i \in DOMAIN values |-> Counted(values[i])]

LEMMA CountedType ==
  ASSUME NEW raw \in Seq(Nat)
  PROVE  Counted(raw) \in Seq(Nat)
<1>1. Len(raw) \in Nat
  OBVIOUS
<1>2. Varuint(Len(raw)) \in Seq(Nat)
  BY <1>1, VaruintLength
<1> QED BY <1>2, ConcatProperties DEF Counted

LEMMA CountedAllType ==
  ASSUME NEW values \in Seq(Seq(Nat))
  PROVE  /\ CountedAll(values) \in Seq(Seq(Nat)) /\ Len(CountedAll(values)) = Len(values)
         /\ \A k \in 1 .. Len(values) : CountedAll(values)[k] = Counted(values[k])
<1>1. DOMAIN values = 1 .. Len(values) /\ Len(values) \in Nat
      /\ \A k \in 1 .. Len(values) : values[k] \in Seq(Nat)
  BY LenProperties, ElementOfSeq
<1>2. CountedAll(values) = [k \in 1 .. Len(values) |-> Counted(values[k])]
  BY <1>1 DEF CountedAll
<1>3. \A k \in 1 .. Len(values) : Counted(values[k]) \in Seq(Nat)
  BY <1>1, CountedType
<1>4. CountedAll(values) \in [1 .. Len(values) -> Seq(Nat)]
  BY <1>2, <1>3
<1>5. CountedAll(values) \in Seq(Seq(Nat))
  <2> DEFINE a == CountedAll(values)
             l == Len(values)
  <2>1. a \in [1 .. l -> Seq(Nat)] /\ l \in Nat
    BY <1>1, <1>4
  <2> HIDE DEF a, l
  <2>2. a \in Seq(Seq(Nat))
    BY <2>1, SeqDef
  <2> QED BY <2>2 DEF a
<1>6. Len(CountedAll(values)) = Len(values)
  BY <1>1, <1>4, <1>5, LenProperties
<1> QED BY <1>2, <1>5, <1>6

(* What is joined stands piece by piece. *)
LEMMA JoinsStand ==
  ASSUME NEW seqs \in Seq(Seq(Nat)), NEW F, Joins(F, seqs), NEW data \in Seq(Nat),
         NEW at \in Nat \ {0}, Stands(F[Len(seqs)], data, at)
  PROVE  \A k \in 1 .. Len(seqs) : Stands(seqs[k], data, at + Len(F[k - 1]))
<1> DEFINE n == Len(seqs)
           P == {j \in Nat : j <= n => Stands(F[n - j], data, at)}
<1>1. n \in Nat /\ F \in [Nat -> Seq(Nat)] /\ \A k \in 1 .. n : seqs[k] \in Seq(Nat)
  BY ElementOfSeq DEF Joins
<1>2. ASSUME NEW k \in 1 .. n, Stands(F[k], data, at)
      PROVE  Stands(F[k - 1], data, at) /\ Stands(seqs[k], data, at + Len(F[k - 1]))
  <2>1. F[k] = F[k - 1] \o seqs[k]
    BY DEF Joins
  <2>2. F[k - 1] \in Seq(Nat) /\ seqs[k] \in Seq(Nat)
    BY <1>1
  <2> QED BY <1>2, <2>1, <2>2, StandsConcat
<1>3. P = Nat
  <2>1. P \in SUBSET Nat /\ 0 \in P
    BY <1>1
  <2>2. ASSUME NEW j \in P PROVE j + 1 \in P
    <3> SUFFICES ASSUME j + 1 <= n PROVE Stands(F[n - (j + 1)], data, at)
      OBVIOUS
    <3>1. n - j \in 1 .. n /\ j <= n /\ (n - j) - 1 = n - (j + 1)
      <4>1. j \in Nat /\ j + 1 <= n /\ n \in Nat
        BY <1>1
      <4> HIDE DEF n
      <4> QED BY <4>1
    <3>2. Stands(F[n - j], data, at)
      BY <3>1
    <3> HIDE DEF n
    <3> QED BY <1>2, <3>1, <3>2
  <2> HIDE DEF P
  <2> QED BY <2>1, <2>2, NatInduct
<1>4. ASSUME NEW k \in 1 .. n PROVE Stands(F[k], data, at)
  <2>1. n - k \in P /\ n - k <= n /\ n - (n - k) = k
    <3> HIDE DEF P
    <3> QED BY <1>1, <1>3
  <2> QED BY <2>1
<1> HIDE DEF P
<1> QED BY <1>2, <1>4

LEMMA AppendNext ==
  ASSUME NEW S, NEW values \in Seq(S), NEW k \in Nat, k + 1 <= Len(values)
  PROVE  Append(SubSeq(values, 1, k), values[k + 1]) = SubSeq(values, 1, k + 1)
<1>1. \A i \in 1 .. k + 1 : values[i] \in S
  <2>1. \A i \in 1 .. k + 1 : i \in 1 .. Len(values)
    OBVIOUS
  <2> QED BY <2>1, ElementOfSeq
<1>2. 1 \in Int /\ k \in Int /\ k + 1 \in Int /\ k - 1 + 1 = k /\ (k + 1) - 1 + 1 = k + 1
      /\ \A i \in 1 .. k : i \in 1 .. k + 1
  OBVIOUS
<1>3. /\ SubSeq(values, 1, k) \in Seq(S)
      /\ Len(SubSeq(values, 1, k)) = IF 1 <= k THEN k - 1 + 1 ELSE 0
      /\ \A i \in 1 .. k - 1 + 1 : SubSeq(values, 1, k)[i] = values[1 + i - 1]
  <2>1. \A i \in 1 .. k : values[i] \in S
    BY <1>1, <1>2
  <2> QED BY <1>2, <2>1, SubSeqProperties
<1>4. /\ SubSeq(values, 1, k + 1) \in Seq(S)
      /\ Len(SubSeq(values, 1, k + 1)) = IF 1 <= k + 1 THEN (k + 1) - 1 + 1 ELSE 0
      /\ \A i \in 1 .. (k + 1) - 1 + 1 : SubSeq(values, 1, k + 1)[i] = values[1 + i - 1]
  BY <1>1, <1>2, SubSeqProperties
<1> DEFINE s == SubSeq(values, 1, k)
           t == SubSeq(values, 1, k + 1)
<1>5. /\ s \in Seq(S) /\ Len(s) = k /\ \A i \in 1 .. k : s[i] = values[i]
      /\ t \in Seq(S) /\ Len(t) = k + 1 /\ \A i \in 1 .. k + 1 : t[i] = values[i]
  <2>1. \A i \in 1 .. k + 1 : 1 + i - 1 = i
    OBVIOUS
  <2>2. Len(s) = k /\ Len(t) = k + 1
    BY <1>3, <1>4
  <2>3. \A i \in 1 .. k : s[i] = values[i]
    BY <1>2, <1>3, <2>1
  <2>4. \A i \in 1 .. k + 1 : t[i] = values[i]
    BY <1>2, <1>4, <2>1
  <2> QED BY <1>3, <1>4, <2>2, <2>3, <2>4
<1> DEFINE e == values[k + 1]
<1>6. e \in S /\ t[k + 1] = e
  BY <1>1, <1>2, <1>5
<1> HIDE DEF s, t, e
<1>7. /\ Append(s, e) \in Seq(S) /\ Len(Append(s, e)) = k + 1
      /\ \A i \in 1 .. k : Append(s, e)[i] = s[i]
      /\ Append(s, e)[k + 1] = e
  BY <1>5, <1>6, AppendProperties
<1>8. \A i \in 1 .. k + 1 : Append(s, e)[i] = t[i]
  <2>1. \A i \in 1 .. k + 1 : i \in 1 .. k \/ i = k + 1
    OBVIOUS
  <2> QED BY <1>2, <1>5, <1>6, <1>7, <2>1
<1>9. Append(s, e) = t
  BY <1>5, <1>7, <1>8, SeqEqual
<1> QED BY <1>9 DEF s, t, e

LEMMA ReadsStrings ==
  ASSUME NEW data \in Seq(Nat), NEW at \in Nat \ {0}, Text \in SUBSET Seq(Nat),
         NEW values \in Seq(Text), Fits(Len(values)), \A i \in 1 .. Len(values) : Fits(Len(values[i])),
         Stands(Varuint(Len(values)) \o FlattenSeq(CountedAll(values)), data, at)
  PROVE  ReadStrings(data, at) =
           Read(values, at + Len(Varuint(Len(values)) \o FlattenSeq(CountedAll(values))))
<1> DEFINE n == Len(values)
           items == CountedAll(values)
           count == Varuint(n)
           start == at + Len(count)
<1>1. /\ values \in Seq(Seq(Nat)) /\ n \in Nat
      /\ \A k \in 1 .. n : values[k] \in Text /\ values[k] \in Seq(Nat)
  BY SeqMonotonic, ElementOfSeq, LenProperties
<1>2. /\ items \in Seq(Seq(Nat)) /\ Len(items) = n
      /\ \A k \in 1 .. n : items[k] = Counted(values[k])
  BY <1>1, CountedAllType
<1>3. PICK F : Joins(F, items)
  BY <1>2, JoinsExists
<1>4. F \in [Nat -> Seq(Nat)] /\ F[0] = <<>> /\ \A k \in 1 .. n : F[k] = F[k - 1] \o items[k]
  BY <1>2, <1>3 DEF Joins
<1>5. FlattenSeq(items) = F[n]
  BY <1>2, <1>3, Flattened
<1>6. count \in Seq(Nat) /\ Len(count) \in Nat
  <2> HIDE DEF n
  <2> QED BY <1>1, VaruintLength
<1> HIDE DEF n, items, count
<1>7. start \in Nat \ {0}
  BY <1>6
<1>8. Stands(count, data, at) /\ Stands(F[n], data, start)
  <2>1. Stands(count \o F[n], data, at)
    BY <1>5 DEF n, items, count
  <2>2. F[n] \in Seq(Nat)
    BY <1>1, <1>4
  <2> QED BY <1>6, <2>1, <2>2, StandsConcat
<1>9. ReadVaruint(data, at) = Read(n, start)
  <2>1. Len(Varuint(n)) <= MaxGroups
    BY DEF Fits, n
  <2>2. Stands(Varuint(n), data, at)
    BY <1>8 DEF count
  <2>3. ReadVaruint(data, at) = Read(n, at + Len(Varuint(n)))
    BY <1>1, <2>1, <2>2, ReadsVaruint
  <2> QED BY <2>3 DEF count
<1> HIDE DEF start
<1>10. PICK S : Chain(S, data, start) /\ ReadStrings(data, at) = S[n]
  BY <1>1, <1>7, <1>9, ReadStringsMeans
<1>11. \A k \in 1 .. n : Stands(items[k], data, start + Len(F[k - 1]))
  BY <1>2, <1>3, <1>7, <1>8, JoinsStand
<1> DEFINE Here(k) == S[k] = Read(SubSeq(values, 1, k), start + Len(F[k]))
           P == {k \in Nat : k <= n => Here(k)}
<1>12. Here(0)
  <2>1. Len(F[0]) = 0 /\ start + 0 = start
    BY <1>4, <1>7
  <2>2. SubSeq(values, 1, 0) = <<>>
    BY SubSeqEmpty
  <2>3. S[0] = Read(<<>>, start)
    BY <1>10 DEF Chain
  <2> QED BY <2>1, <2>2, <2>3
<1>13. ASSUME NEW k \in Nat, k + 1 <= n, Here(k) PROVE Here(k + 1)
  <2>1. k + 1 \in 1 .. n /\ (k + 1) - 1 = k
    BY <1>1, <1>13
  <2> DEFINE e == values[k + 1]
             place == start + Len(F[k])
             next == place + Len(Counted(e))
  <2>2. e \in Text /\ e \in Seq(Nat) /\ F[k] \in Seq(Nat) /\ items[k + 1] = Counted(e)
    BY <1>1, <1>2, <1>4, <2>1
  <2>3. place \in Nat \ {0} /\ Stands(Counted(e), data, place)
    <3>1. Len(F[k]) \in Nat
      BY <2>2
    <3>2. Stands(items[k + 1], data, start + Len(F[(k + 1) - 1]))
      BY <1>11, <2>1
    <3> QED BY <1>7, <2>1, <2>2, <3>1, <3>2
  <2>4. Len(Varuint(Len(e))) <= MaxGroups
    BY <2>1 DEF Fits, n
  <2> HIDE DEF e
  <2>5. ReadString(data, place) = Read(e, next)
    <3> HIDE DEF place
    <3>1. ReadBytes(data, place) = Read(e, next)
      BY <2>2, <2>3, <2>4, ReadsBytes
    <3> QED BY <2>2, <3>1, ReadMeaning DEF ReadString
  <2>6. S[k + 1] = More(data, S[k])
    BY <1>10 DEF Chain
  <2>7. S[k] = Read(SubSeq(values, 1, k), place)
    BY <1>13
  <2>8. next = start + Len(F[k + 1])
    <3>1. F[k + 1] = F[k] \o Counted(e)
      BY <1>4, <2>1, <2>2
    <3>2. Counted(e) \in Seq(Nat)
      BY <2>2, CountedType
    <3>3. Len(F[k + 1]) = Len(F[k]) + Len(Counted(e)) /\ Len(F[k]) \in Nat /\ Len(Counted(e)) \in Nat
      BY <2>2, <3>1, <3>2, ConcatProperties
    <3> QED BY <1>7, <3>3
  <2> HIDE DEF place, next
  <2>9. S[k + 1] = Read(Append(SubSeq(values, 1, k), e), next)
    BY <2>5, <2>6, <2>7, ReadMeaning DEF More
  <2>10. Append(SubSeq(values, 1, k), e) = SubSeq(values, 1, k + 1)
    BY <1>13, AppendNext DEF e, n
  <2> QED BY <2>8, <2>9, <2>10
<1>14. P = Nat
  <2>1. P \in SUBSET Nat /\ 0 \in P
    BY <1>12
  <2>2. ASSUME NEW k \in P PROVE k + 1 \in P
    <3> HIDE DEF Here
    <3>1. k + 1 <= n => k <= n
      BY <1>1
    <3> QED BY <1>13, <3>1
  <2> HIDE DEF P
  <2> QED BY <2>1, <2>2, NatInduct
<1>15. Here(n)
  <2> HIDE DEF Here
  <2> QED BY <1>1, <1>14
<1>16. SubSeq(values, 1, n) = values
  BY SubSeqFull DEF n
<1>17. Len(count \o F[n]) = Len(count) + Len(F[n]) /\ Len(F[n]) \in Nat
  <2>1. F[n] \in Seq(Nat)
    BY <1>1, <1>4
  <2> QED BY <1>6, <2>1, ConcatProperties
<1>18. start + Len(F[n]) = at + Len(count \o F[n])
  <2> DEFINE c == Len(count)
             l == Len(F[n])
  <2>1. c \in Nat /\ l \in Nat /\ start = at + c /\ Len(count \o F[n]) = c + l
    BY <1>6, <1>17 DEF start
  <2> HIDE DEF c, l
  <2>2. start + l = at + Len(count \o F[n])
    BY <2>1
  <2> QED BY <2>2 DEF l
<1>19. ReadStrings(data, at) = Read(values, at + Len(count \o F[n]))
  BY <1>10, <1>15, <1>16, <1>18
<1> QED BY <1>5, <1>19 DEF n, count, items

LEMMA StandsWhole == ASSUME NEW s \in Seq(Nat) PROVE Stands(s, s, 1)
<1>1. Len(s) \in Nat /\ 1 + Len(s) - 1 <= Len(s) /\ \A i \in 1 .. Len(s) : 1 + i - 1 = i
  OBVIOUS
<1> QED BY <1>1 DEF Stands

(* An event or an answer to a query is read back as the buffer that was     *)
(* written (decode_message), whatever bytes are in it.                     *)
THEOREM BufferIsRead ==
  ASSUME NEW tag \in {MsgEvent, MsgSubdocs}, Fits(tag), NEW cbor \in Seq(Nat), Fits(Len(cbor))
  PROVE  /\ Buffer(tag, cbor) \in Seq(Nat)
         /\ DecodeMessage(Buffer(tag, cbor)) =
              [type |-> IF tag = MsgEvent THEN "event" ELSE "subdocs", cbor |-> cbor]
<1> DEFINE t == Varuint(tag)
           b == Counted(cbor)
           f == Buffer(tag, cbor)
           start == 1 + Len(t)
<1>1. tag \in Nat /\ t \in Seq(Nat) /\ Len(t) \in Nat /\ b \in Seq(Nat) /\ Len(b) \in Nat
  <2>1. tag \in Nat
    BY DEF MsgEvent, MsgSubdocs
  <2>2. b \in Seq(Nat) /\ Len(b) \in Nat
    <3>1. b \in Seq(Nat)
      BY CountedType
    <3> HIDE DEF b
    <3> QED BY <3>1
  <2> QED BY <2>1, <2>2, VaruintLength
<1>2. f = t \o b
  BY DEF Buffer
<1> HIDE DEF t, b, f
<1>3. f \in Seq(Nat) /\ Len(f) = Len(t) + Len(b)
  BY <1>1, <1>2, ConcatProperties
<1>4. Stands(t, f, 1) /\ Stands(b, f, start)
  <2>1. Stands(t \o b, f, 1)
    BY <1>2, <1>3, StandsWhole
  <2>2. Stands(t, f, 1) /\ Stands(b, f, 1 + Len(t))
    BY <1>1, <1>3, <2>1, StandsConcat
  <2> QED BY <2>2
<1>5. ReadVaruint(f, 1) = Read(tag, start)
  <2>1. Stands(Varuint(tag), f, 1) /\ Len(Varuint(tag)) <= MaxGroups
    BY <1>4 DEF t, Fits
  <2>2. ReadVaruint(f, 1) = Read(tag, 1 + Len(Varuint(tag)))
    BY <1>1, <1>3, <2>1, ReadsVaruint
  <2> QED BY <2>2 DEF t
<1>6. start \in Nat \ {0} /\ start + Len(b) = Len(f) + 1
  BY <1>1, <1>3
<1> HIDE DEF start
<1>7. ReadBytes(f, start) = Read(cbor, Len(f) + 1)
  <2>1. Stands(Counted(cbor), f, start) /\ Len(Varuint(Len(cbor))) <= MaxGroups
    BY <1>4 DEF b, Fits
  <2>2. ReadBytes(f, start) = Read(cbor, start + Len(Counted(cbor)))
    BY <1>3, <1>6, <2>1, ReadsBytes
  <2> QED BY <1>6, <2>2 DEF b
<1>8. DecodeMessage(f) = [type |-> IF tag = MsgEvent THEN "event" ELSE "subdocs", cbor |-> cbor]
  BY <1>5, <1>7, ReadMeaning DEF DecodeMessage, Consumed
<1> QED BY <1>3, <1>8 DEF f

LEMMA TextsAreNumbers == Text \in SUBSET Seq(Nat)
<1>1. Bytes \subseteq Nat /\ Text \subseteq Seq(Bytes)
  BY CodecAssumption DEF CodecAssumption, Bytes
<1> QED BY <1>1, SeqMonotonic

(* A subscription or a query (_encode_string_list_message) is read back as   *)
(* the strings that were written, however many and however long.           *)
THEOREM StringListIsRead ==
  ASSUME NEW tag \in StringLists, Fits(tag),
         NEW values \in Seq(Text), Fits(Len(values)), \A i \in 1 .. Len(values) : Fits(Len(values[i]))
  PROVE  /\ StringList(tag, values) \in Seq(Nat)
         /\ DecodeMessage(StringList(tag, values)) =
              [type |-> "strings", tag |-> tag, values |-> values]
<1> USE TextsAreNumbers
<1> DEFINE t == Varuint(tag)
           c == Varuint(Len(values))
           a == FlattenSeq(CountedAll(values))
           b == c \o a
           f == StringList(tag, values)
           start == 1 + Len(t)
<1>1. tag \in Nat /\ tag \notin {MsgEvent, MsgSubdocs}
  BY DEF StringLists, MsgEvent, MsgSubdocs, MsgEventSubscribe, MsgEventUnsubscribe, MsgQuerySubdocs
<1>2. t \in Seq(Nat) /\ Len(t) \in Nat /\ c \in Seq(Nat)
  <2>1. Len(values) \in Nat
    OBVIOUS
  <2> QED BY <1>1, <2>1, VaruintLength
<1>3. a \in Seq(Nat)
  <2>1. values \in Seq(Seq(Nat))
    BY SeqMonotonic
  <2>2. CountedAll(values) \in Seq(Seq(Nat)) /\ Len(CountedAll(values)) \in Nat
    BY <2>1, CountedAllType
  <2>3. PICK F : Joins(F, CountedAll(values))
    BY <2>2, JoinsExists
  <2>4. a = F[Len(CountedAll(values))]
    BY <2>2, <2>3, Flattened
  <2> QED BY <2>2, <2>3, <2>4 DEF Joins
<1>4. f = (t \o c) \o a
  BY DEF StringList, CountedAll
<1> HIDE DEF t, c, a, f
<1>5. b \in Seq(Nat) /\ Len(b) \in Nat /\ f = t \o b
  <2>1. b \in Seq(Nat)
    BY <1>2, <1>3, ConcatProperties
  <2>2. (t \o c) \o a = t \o b
    BY <1>2, <1>3, ConcatAssociative
  <2> QED BY <1>4, <2>1, <2>2, LenProperties
<1> HIDE DEF b
<1>6. f \in Seq(Nat) /\ Len(f) = Len(t) + Len(b)
  BY <1>2, <1>5, ConcatProperties
<1>7. Stands(t, f, 1) /\ Stands(b, f, start)
  <2>1. Stands(t \o b, f, 1)
    BY <1>5, <1>6, StandsWhole
  <2>2. Stands(t, f, 1) /\ Stands(b, f, 1 + Len(t))
    <3>1. t \in Seq(Nat) /\ b \in Seq(Nat) /\ f \in Seq(Nat) /\ 1 \in Nat \ {0}
      BY <1>2, <1>5, <1>6
    <3> QED BY <2>1, <3>1, StandsConcat
  <2> QED BY <2>2
<1>8. ReadVaruint(f, 1) = Read(tag, start)
  <2>1. Stands(Varuint(tag), f, 1) /\ Len(Varuint(tag)) <= MaxGroups
    BY <1>7 DEF t, Fits
  <2>2. ReadVaruint(f, 1) = Read(tag, 1 + Len(Varuint(tag)))
    BY <1>1, <1>6, <2>1, ReadsVaruint
  <2> QED BY <2>2 DEF t
<1>9. start \in Nat \ {0} /\ start + Len(b) = Len(f) + 1
  BY <1>2, <1>5, <1>6
<1> HIDE DEF start
<1>10. ReadStrings(f, start) = Read(values, Len(f) + 1)
  <2>1. Stands(Varuint(Len(values)) \o FlattenSeq(CountedAll(values)), f, start)
    BY <1>7 DEF b, c, a
  <2>2. ReadStrings(f, start) =
          Read(values, start + Len(Varuint(Len(values)) \o FlattenSeq(CountedAll(values))))
    BY <1>6, <1>9, <2>1, ReadsStrings
  <2> QED BY <1>9, <2>2 DEF b, c, a
<1>11. DecodeMessage(f) = [type |-> "strings", tag |-> tag, values |-> values]
  BY <1>1, <1>8, <1>10, ReadMeaning DEF DecodeMessage, Consumed
<1> QED BY <1>6, <1>11 DEF f

(* Any bytes that decode_message reads as an event, an answer, a            *)
(* subscription or a query are refused when they are cut short anywhere,    *)
(* and when a byte follows them (_ensure_consumed).                        *)
THEOREM NeitherCutNorLonger ==
  ASSUME NEW frame \in Seq(Nat), DecodeMessage(frame).type \in Framed
  PROVE  /\ \A n \in 0 .. Len(frame) - 1 : DecodeMessage(SubSeq(frame, 1, n)) = Malformed
         /\ \A b \in Nat : DecodeMessage(Append(frame, b)) = Malformed
<1>1. Len(frame) \in Nat
  OBVIOUS
<1>2. ASSUME NEW n \in 0 .. Len(frame) - 1 PROVE DecodeMessage(SubSeq(frame, 1, n)) = Malformed
  <2> DEFINE s == SubSeq(frame, 1, n)
  <2>1. s \in Seq(Nat) /\ Len(s) = n /\ \A i \in 1 .. n : s[i] = frame[1 + i - 1]
    <3>1. 1 \in Int /\ n \in Int /\ n \in Nat /\ n - 1 + 1 = n /\ (1 <= n \/ n = 0)
      BY <1>1
    <3>2. \A i \in 1 .. n : i \in 1 .. Len(frame) /\ frame[i] \in Nat
      BY <1>1
    <3>3. /\ s \in Seq(Nat) /\ Len(s) = IF 1 <= n THEN n - 1 + 1 ELSE 0
          /\ \A i \in 1 .. n - 1 + 1 : s[i] = frame[1 + i - 1]
      BY <3>1, <3>2, SubSeqProperties
    <3> HIDE DEF s
    <3>4. Len(s) = n
      BY <3>1, <3>3
    <3> QED BY <3>1, <3>3, <3>4
  <2> HIDE DEF s
  <2>2. Comparable(s, frame) /\ Len(s) # Len(frame)
    <3>1. \A i \in 1 .. Len(frame) : 1 + i - 1 = i
      OBVIOUS
    <3>2. \A i \in 1 .. Len(frame) : i <= n => i \in 1 .. n
      BY <1>1
    <3> QED BY <1>1, <2>1, <3>1, <3>2 DEF Comparable
  <2>3. DecodeMessage(s) = Malformed
    BY <2>1, <2>2, FrameAlone
  <2> QED BY <2>3 DEF s
<1>3. ASSUME NEW b \in Nat PROVE DecodeMessage(Append(frame, b)) = Malformed
  <2> DEFINE s == Append(frame, b)
  <2>1. s \in Seq(Nat) /\ Len(s) = Len(frame) + 1 /\ \A i \in 1 .. Len(frame) : s[i] = frame[i]
    BY AppendProperties
  <2> HIDE DEF s
  <2>2. Comparable(s, frame) /\ Len(s) # Len(frame)
    BY <1>1, <2>1 DEF Comparable
  <2>3. DecodeMessage(s) = Malformed
    BY <2>1, <2>2, FrameAlone
  <2> QED BY <2>3 DEF s
<1> QED BY <1>2, <1>3

------------------------------------------------------------------------------
(* What the messages are written as. *)

(* News of some documents, no more than a query asks for. *)
Tellable(m) == m.type \in {"event", "subdocs"} /\ Len(m.news) <= MaxQuery

Kinds == \A c \in Connectors : /\ \A i \in 1 .. Len(wire[c]) : Sayable(wire[c][i])
                               /\ \A i \in 1 .. Len(inbox[c]) : Tellable(inbox[c][i])

LEMMA AppendElements ==
  ASSUME NEW S, NEW s \in Seq(S), NEW m
  PROVE  \A i \in 1 .. Len(Append(s, m)) :
           Append(s, m)[i] = m \/ \E j \in 1 .. Len(s) : Append(s, m)[i] = s[j]
<1>1. s \in Seq(S \cup {m}) /\ m \in S \cup {m} /\ Len(s) \in Nat
  BY SeqMonotonic
<1>2. /\ Len(Append(s, m)) = Len(s) + 1 /\ \A i \in 1 .. Len(s) : Append(s, m)[i] = s[i]
      /\ Append(s, m)[Len(s) + 1] = m
  BY <1>1, AppendProperties
<1>3. \A i \in 1 .. Len(s) + 1 : i \in 1 .. Len(s) \/ i = Len(s) + 1
  BY <1>1
<1> QED BY <1>2, <1>3

(* What a thread or the network may have done to the inbox. *)
LEMMA InboxStep ==
  ASSUME Asking, Sending, Telling, NEW c \in Connectors, Thread(c) \/ Network(c)
  PROVE  \/ UNCHANGED inbox
         \/ \E s : /\ inbox' = [inbox EXCEPT ![c] = s]
                   /\ \A i \in 1 .. Len(s) :
                        Tellable(s[i]) \/ \E j \in 1 .. Len(inbox[c]) : s[i] = inbox[c][j]
<1>1. PICK v \in Seq(Message) : v = inbox[c]
  BY DEF Telling
<1>2. MaxQuery \in Nat \ {0}
  BY CodecAssumption DEF CodecAssumption
<1>3. CASE \E g \in KnownGuids(c) : Edit(c, g)
  <2>1. PICK g \in KnownGuids(c) : Edit(c, g)
    BY <1>3
  <2>2. PICK n : n = <<[guid |-> g, version |-> text[c][g] + 1]>>
    OBVIOUS
  <2>3. Len(n) = 1
    BY <2>2
  <2>4. PICK m : m = News("event", n)
    OBVIOUS
  <2>5. Tellable(m)
    BY <1>2, <2>3, <2>4 DEF Tellable, News
  <2>6. UNCHANGED inbox \/ inbox' = [inbox EXCEPT ![c] = Append(v, m)]
    BY <1>1, <2>1, <2>2, <2>4 DEF Edit, Set
  <2>7. \A i \in 1 .. Len(Append(v, m)) :
          Append(v, m)[i] = m \/ \E j \in 1 .. Len(v) : Append(v, m)[i] = v[j]
    BY AppendElements
  <2> QED BY <1>1, <2>5, <2>6, <2>7
<1>4. CASE Answer(c)
  <2>1. PICK k : k = answered[c] + 1
    OBVIOUS
  <2>2. wire[c] \in Seq(Message) /\ Len(wire[c]) \in Nat
    BY LenProperties DEF Asking
  <2>3. k \in 1 .. Len(wire[c])
    BY <1>4, <2>1, <2>2 DEF Answer, Sending
  <2>4. PICK names : names = wire[c][k].names
    OBVIOUS
  <2>5. names \in Seq(Seq(Bytes)) /\ Len(names) <= MaxQuery
    <3>1. wire[c][k] \in Message
      BY <2>2, <2>3, ElementOfSeq
    <3> QED BY <2>3, <2>4, <3>1 DEF Message, Asking, Progress
  <2>6. DOMAIN names = 1 .. Len(names) /\ Len(names) \in Nat
    BY <2>5, LenProperties
  <2>7. PICK heads : heads = [i \in DOMAIN names |-> [guid |-> names[i], version |-> text[c][names[i]]]]
    OBVIOUS
  <2>8. Len(heads) = Len(names)
    BY <2>6, <2>7
  <2>9. PICK m : m = News("subdocs", heads)
    OBVIOUS
  <2>10. Tellable(m)
    BY <2>5, <2>8, <2>9 DEF Tellable, News
  <2>11. UNCHANGED inbox \/ inbox' = [inbox EXCEPT ![c] = Append(v, m)]
    BY <1>1, <1>4, <2>1, <2>4, <2>7, <2>9 DEF Answer, Set
  <2>12. \A i \in 1 .. Len(Append(v, m)) :
           Append(v, m)[i] = m \/ \E j \in 1 .. Len(v) : Append(v, m)[i] = v[j]
    BY AppendElements
  <2> QED BY <1>1, <2>10, <2>11, <2>12
<1>5. CASE \E how \in {"reset", "silent"} : Fail(c, how)
  <2>1. PICK n \in 0 .. Len(v) : inbox' = [inbox EXCEPT ![c] = SubSeq(v, 1, n)]
    BY <1>1, <1>5 DEF Fail, Set
  <2>2. PICK s : s = SubSeq(v, 1, n)
    OBVIOUS
  <2>3. \A i \in 1 .. Len(s) : \E j \in 1 .. Len(v) : s[i] = v[j]
    BY <2>2, InboxPrefix
  <2>4. inbox' = [inbox EXCEPT ![c] = s]
    BY <2>1, <2>2
  <2>5. \A i \in 1 .. Len(s) : Tellable(s[i]) \/ \E j \in 1 .. Len(inbox[c]) : s[i] = inbox[c][j]
    BY <1>1, <2>3
  <2> QED BY <2>4, <2>5
<1>6. CASE Receive(c)
  <2>1. v # <<>> /\ inbox' = [inbox EXCEPT ![c] = Tail(v)]
    BY <1>1, <1>6 DEF Receive, Set
  <2>2. PICK s : s = Tail(v)
    OBVIOUS
  <2>3. Len(v) \in Nat /\ Len(v) # 0 /\ Len(s) = Len(v) - 1 /\ \A i \in 1 .. Len(s) : s[i] = v[i + 1]
    BY <2>1, <2>2, HeadTailProperties, EmptySeq, LenProperties
  <2>4. \A i \in 1 .. Len(s) : i + 1 \in 1 .. Len(v)
    BY <2>3
  <2> QED BY <1>1, <2>1, <2>2, <2>3, <2>4
<1>7. CASE AskFails(c) \/ Leave(c)
  <2>1. inbox' = [inbox EXCEPT ![c] = <<>>]
    BY <1>7 DEF AskFails, Leave, Forgotten, Set
  <2>2. PICK s : s = <<>>
    OBVIOUS
  <2>3. \A i \in 1 .. Len(s) : FALSE
    BY <2>2
  <2> QED BY <2>1, <2>2, <2>3
<1> QED
  BY <1>3, <1>4, <1>5, <1>6, <1>7
  DEF Thread, Network, Check, Dial, DialFails, Ask, Register, Poll, ReceiveFails, TimeOut, Ping,
      WaitEnds, GiveUp, connection

LEMMA InitKinds == Init => Kinds
<1> SUFFICES ASSUME Init PROVE Kinds
  OBVIOUS
<1>1. \A c \in Connectors : wire[c] = <<>> /\ inbox[c] = <<>>
  BY DEF Init
<1>2. Len(<<>>) = 0
  OBVIOUS
<1> QED BY <1>1, <1>2 DEF Kinds

LEMMA KindsStep == ASSUME Asking, Sending, Telling, Kinds, [Next]_vars PROVE Kinds'
<1>1. ASSUME UNCHANGED <<wire, inbox>> PROVE Kinds'
  BY <1>1 DEF Kinds
<1>2. ASSUME NEW c \in Connectors, Thread(c) \/ Network(c) PROVE Kinds'
  <2>1. /\ wire \in [Connectors -> Seq(Message)] /\ inbox \in [Connectors -> Seq(Message)]
    BY DEF Asking, Telling
  <2>2. \A e \in Connectors : \A i \in 1 .. Len(inbox'[e]) : Tellable(inbox'[e][i])
    <3>1. CASE UNCHANGED inbox
      BY <3>1 DEF Kinds
    <3>2. CASE ~UNCHANGED inbox
      <4>1. PICK s : /\ inbox' = [inbox EXCEPT ![c] = s]
                     /\ \A i \in 1 .. Len(s) :
                          Tellable(s[i]) \/ \E j \in 1 .. Len(inbox[c]) : s[i] = inbox[c][j]
        BY <1>2, <3>2, InboxStep
      <4>2. inbox'[c] = s /\ \A e \in Connectors : e # c => inbox'[e] = inbox[e]
        BY <2>1, <4>1
      <4>3. \A i \in 1 .. Len(s) : Tellable(s[i])
        BY <4>1 DEF Kinds
      <4> QED BY <4>2, <4>3 DEF Kinds
    <3> QED BY <3>1, <3>2
  <2>3. \A e \in Connectors : \A i \in 1 .. Len(wire'[e]) : Sayable(wire'[e][i])
    <3>1. CASE UNCHANGED wire
      BY <3>1 DEF Kinds
    <3>2. CASE wire' = [wire EXCEPT ![c] = <<>>]
      <4>1. Len(<<>>) = 0
        OBVIOUS
      <4>2. wire'[c] = <<>> /\ \A e \in Connectors : e # c => wire'[e] = wire[e]
        BY <2>1, <3>2
      <4> QED BY <4>1, <4>2 DEF Kinds
    <3>3. CASE \E m \in Message : /\ ToSet(m.names) \subseteq KnownGuids(c) /\ Sayable(m)
                                  /\ wire' = [wire EXCEPT ![c] = Append(wire[c], m)]
      <4>1. PICK m \in Message : Sayable(m) /\ wire' = [wire EXCEPT ![c] = Append(wire[c], m)]
        BY <3>3
      <4>2. PICK v \in Seq(Message) : v = wire[c]
        BY <2>1
      <4>3. wire'[c] = Append(v, m) /\ \A e \in Connectors : e # c => wire'[e] = wire[e]
        BY <2>1, <4>1, <4>2
      <4>4. \A i \in 1 .. Len(Append(v, m)) :
              Append(v, m)[i] = m \/ \E j \in 1 .. Len(v) : Append(v, m)[i] = v[j]
        BY AppendElements
      <4>5. \A i \in 1 .. Len(Append(v, m)) : Sayable(Append(v, m)[i])
        BY <4>1, <4>2, <4>4 DEF Kinds
      <4> QED BY <4>3, <4>5 DEF Kinds
    <3> QED BY <1>2, <3>1, <3>2, <3>3, WireStep
  <2> QED BY <2>2, <2>3 DEF Kinds
<1>3. CASE Stop
  BY <1>1, <1>3 DEF Stop, StopCalled, StopCopies, StopCloses, StopReturns, connection
<1>4. CASE UNCHANGED vars
  BY <1>1, <1>4 DEF vars, connection
<1> QED BY <1>1, <1>2, <1>3, <1>4 DEF Next

(* Names are text, and the lengths in a frame can be written. *)
LEMMA NamesFit ==
  ASSUME NEW c \in Connectors
  PROVE  /\ EventTypes \in Seq(Text) /\ MaxName \in Nat
         /\ \A j \in 1 .. Len(EventTypes) : Len(EventTypes[j]) <= MaxName
         /\ \A g \in KnownGuids(c) : g \in Text /\ Len(g) <= MaxName
<1> DEFINE NameLists == {EventTypes} \cup {Guids[e] : e \in Connectors}
<1>1. MaxName \in Nat /\ \A names \in NameLists :
        names \in Seq(Text) /\ \A i \in DOMAIN names : Len(names[i]) <= MaxName
  BY FrameAssumption DEF FrameAssumption
<1>2. EventTypes \in NameLists /\ Guids[c] \in NameLists
  OBVIOUS
<1> HIDE DEF NameLists
<1>3. /\ EventTypes \in Seq(Text) /\ \A i \in DOMAIN EventTypes : Len(EventTypes[i]) <= MaxName
      /\ Guids[c] \in Seq(Text) /\ \A i \in DOMAIN Guids[c] : Len(Guids[c][i]) <= MaxName
  BY <1>1, <1>2
<1>4. /\ DOMAIN EventTypes = 1 .. Len(EventTypes) /\ DOMAIN Guids[c] = 1 .. Len(Guids[c])
      /\ \A i \in 1 .. Len(Guids[c]) : Guids[c][i] \in Text
  BY <1>3, LenProperties, ElementOfSeq
<1>5. \A g \in KnownGuids(c) : \E i \in 1 .. Len(Guids[c]) : g = Guids[c][i]
  BY <1>4 DEF KnownGuids, ToSet
<1> QED BY <1>1, <1>3, <1>4, <1>5

LEMMA SmallFits ==
  /\ \A n \in 0 .. MaxQuery * (MaxName + 2) : Fits(n)
  /\ \A n \in 0 .. MaxQuery : Fits(n)
  /\ \A n \in 0 .. MaxName : Fits(n)
  /\ Fits(Len(EventTypes)) /\ \A t \in StringLists \cup {MsgEvent, MsgSubdocs} : Fits(t)
<1> DEFINE w == MaxName + 2
           p == MaxQuery * w
           Numbers == (0 .. p) \cup {Len(EventTypes)} \cup StringLists \cup {MsgEvent, MsgSubdocs}
<1>1. \A n \in Numbers : Fits(n)
  BY FrameAssumption DEF FrameAssumption, Fits
<1>2. MaxQuery \in Nat \ {0} /\ MaxName \in Nat /\ w \in Nat /\ w >= 1 /\ MaxName <= w
  BY CodecAssumption, FrameAssumption DEF CodecAssumption, FrameAssumption
<1>3. \A q, v \in Nat \ {0} : q * v \in Nat /\ q * v >= q /\ q * v >= v
  OBVIOUS
<1>4. p \in Nat /\ p >= MaxQuery /\ p >= w
  <2>1. w \in Nat \ {0}
    BY <1>2
  <2> HIDE DEF w
  <2> QED BY <1>2, <1>3, <2>1
<1>5. \A n \in 0 .. p : Fits(n)
  BY <1>1
<1> HIDE DEF p, w, Numbers
<1>6. (\A n \in 0 .. MaxQuery : Fits(n)) /\ (\A n \in 0 .. MaxName : Fits(n))
  <2>1. \A n \in 0 .. MaxQuery : n \in 0 .. p
    BY <1>2, <1>4
  <2>2. \A n \in 0 .. MaxName : n \in 0 .. p
    BY <1>2, <1>4
  <2> QED BY <1>5, <2>1, <2>2
<1>7. Fits(Len(EventTypes)) /\ \A t \in StringLists \cup {MsgEvent, MsgSubdocs} : Fits(t)
  BY <1>1 DEF Numbers
<1> QED BY <1>5, <1>6, <1>7 DEF p, w

(* An item of the CBOR that stands for news is a name and two bytes. *)
CborItems(news) == [i \in DOMAIN news |-> <<news[i].version, Len(news[i].guid)>> \o news[i].guid]

LEMMA CborItemsType ==
  ASSUME NEW c \in Connectors, NEW news \in Seq(Snapshot),
         \A j \in 1 .. Len(news) : news[j].guid \in KnownGuids(c)
  PROVE  /\ CborItems(news) \in Seq(Seq(Nat)) /\ Len(CborItems(news)) = Len(news)
         /\ \A j \in 1 .. Len(news) : Len(CborItems(news)[j]) <= MaxName + 2
<1>1. DOMAIN news = 1 .. Len(news) /\ Len(news) \in Nat
      /\ \A j \in 1 .. Len(news) : news[j] \in Snapshot
  BY LenProperties, ElementOfSeq
<1>2. PICK a : a = CborItems(news)
  OBVIOUS
<1>3. ASSUME NEW j \in 1 .. Len(news) PROVE a[j] \in Seq(Nat) /\ Len(a[j]) <= MaxName + 2
  <2>1. PICK v, g : v = news[j].version /\ g = news[j].guid
    OBVIOUS
  <2>2. v \in Nat /\ g \in Seq(Bytes) /\ g \in KnownGuids(c)
    BY <1>1, <2>1 DEF Snapshot
  <2>3. g \in Seq(Nat) /\ Len(g) \in Nat /\ Len(g) <= MaxName /\ MaxName \in Nat
    <3>1. Bytes \subseteq Nat
      BY CodecAssumption DEF CodecAssumption, Bytes
    <3>2. g \in Seq(Nat)
      BY <2>2, <3>1, SeqMonotonic
    <3>3. Len(g) \in Nat
      BY <3>2, LenProperties
    <3>4. Len(g) <= MaxName /\ MaxName \in Nat
      BY <2>2, NamesFit
    <3> QED BY <3>2, <3>3, <3>4
  <2>4. <<v, Len(g)>> \in Seq(Nat) /\ Len(<<v, Len(g)>>) = 2
    BY <2>2, <2>3
  <2>5. a[j] = <<v, Len(g)>> \o g
    BY <1>1, <1>2, <2>1 DEF CborItems
  <2>6. a[j] \in Seq(Nat) /\ Len(a[j]) = 2 + Len(g)
    BY <2>3, <2>4, <2>5, ConcatProperties
  <2> QED BY <2>3, <2>6
<1>4. PICK n \in Nat : n = Len(news)
  BY <1>1
<1>5. a \in [1 .. n -> Seq(Nat)]
  BY <1>1, <1>2, <1>3, <1>4 DEF CborItems
<1>6. a \in Seq(Seq(Nat)) /\ Len(a) = n
  BY <1>5, SeqDef, LenProperties
<1> QED BY <1>2, <1>3, <1>4, <1>6

LEMMA CborFits ==
  ASSUME NEW c \in Connectors, NEW news \in Seq(Snapshot), Len(news) <= MaxQuery,
         \A j \in 1 .. Len(news) : news[j].guid \in KnownGuids(c)
  PROVE  Cbor(news) \in Seq(Nat) /\ Fits(Len(Cbor(news)))
<1>1. PICK a : a = CborItems(news)
  OBVIOUS
<1>2. PICK w : w = MaxName + 2
  OBVIOUS
<1>3. PICK n \in Nat : n = Len(news)
  BY LenProperties
<1>4. /\ a \in Seq(Seq(Nat)) /\ Len(a) = n /\ \A j \in 1 .. n : Len(a[j]) <= w
      /\ w \in Nat /\ MaxQuery \in Nat /\ n <= MaxQuery
  <2>1. w \in Nat /\ MaxQuery \in Nat
    BY <1>2, NamesFit, CodecAssumption DEF CodecAssumption
  <2> QED BY <1>1, <1>2, <1>3, <2>1, CborItemsType
<1>5. PICK F : Joins(F, a)
  BY <1>4, JoinsExists
<1>6. F \in [Nat -> Seq(Nat)] /\ F[0] = <<>> /\ \A k \in 1 .. n : F[k] = F[k - 1] \o a[k]
  BY <1>4, <1>5 DEF Joins
<1>7. Cbor(news) = F[n]
  <2>1. Cbor(news) = FlattenSeq(a)
    BY <1>1 DEF Cbor, CborItems
  <2> QED BY <1>4, <1>5, <2>1, Flattened
<1> DEFINE P == {k \in Nat : k <= n => Len(F[k]) <= k * w}
<1>8. P = Nat
  <2>1. P \in SUBSET Nat /\ 0 \in P
    <3>1. Len(F[0]) = 0 /\ 0 * w = 0
      BY <1>4, <1>6
    <3> QED BY <3>1
  <2>2. ASSUME NEW k \in P PROVE k + 1 \in P
    <3> SUFFICES ASSUME k + 1 <= n PROVE Len(F[k + 1]) <= (k + 1) * w
      OBVIOUS
    <3>1. k \in Nat /\ k <= n /\ k + 1 \in 1 .. n /\ (k + 1) - 1 = k
      BY <1>3
    <3>2. Len(F[k]) <= k * w
      BY <3>1
    <3> HIDE DEF P
    <3>3. F[k] \in Seq(Nat) /\ a[k + 1] \in Seq(Nat) /\ Len(a[k + 1]) <= w
      BY <1>4, <1>6, <3>1, ElementOfSeq
    <3>4. F[k + 1] = F[k] \o a[k + 1]
      BY <1>6, <3>1
    <3>5. Len(F[k + 1]) = Len(F[k]) + Len(a[k + 1]) /\ Len(F[k]) \in Nat /\ Len(a[k + 1]) \in Nat
      BY <3>3, <3>4, ConcatProperties
    <3>6. (k + 1) * w = k * w + w /\ k * w \in Nat
      BY <1>4, <3>1
    <3> DEFINE x == k * w
               y == (k + 1) * w
               l == Len(F[k])
               m == Len(a[k + 1])
    <3>7. l <= x /\ y = x + w /\ x \in Nat /\ m <= w /\ l \in Nat /\ m \in Nat /\ w \in Nat
      BY <1>4, <3>2, <3>3, <3>5, <3>6
    <3> HIDE DEF x, y, l, m
    <3>8. l + m <= y
      BY <3>7
    <3>9. Len(F[k + 1]) = l + m
      BY <3>5 DEF l, m
    <3> QED BY <3>8, <3>9 DEF y
  <2> HIDE DEF P
  <2> QED BY <2>1, <2>2, NatInduct
<1>9. F[n] \in Seq(Nat) /\ Len(F[n]) \in Nat /\ Len(F[n]) <= n * w
  <2>1. n \in P
    BY <1>8
  <2> QED BY <1>6, <2>1, LenProperties
<1>10. n * w <= MaxQuery * w /\ n * w \in Nat /\ MaxQuery * w \in Nat
  <2>1. \A i, j, k \in Nat : i <= j => i * k <= j * k /\ i * k \in Nat /\ j * k \in Nat
    OBVIOUS
  <2> QED BY <1>4, <2>1
<1>11. Len(F[n]) \in 0 .. MaxQuery * w
  <2> DEFINE x == n * w
             y == MaxQuery * w
  <2>1. x <= y /\ Len(F[n]) <= x /\ Len(F[n]) \in Nat /\ x \in Nat /\ y \in Nat
    BY <1>9, <1>10
  <2> HIDE DEF x, y
  <2>2. Len(F[n]) \in 0 .. y
    BY <2>1
  <2> QED BY <2>2 DEF y
<1> QED BY <1>2, <1>7, <1>9, <1>11, SmallFits

(* What the listener sends. *)
LEMMA SentIsRead ==
  ASSUME Asking, Sending, Kinds, NEW c \in Connectors, NEW k \in 1 .. Len(wire[c]),
         NEW m, m = wire[c][k]
  PROVE  Encode(m) \in Seq(Nat) /\ DecodeMessage(Encode(m)) = Meaning(m) /\ Meaning(m).type \in Framed
<1>1. MsgEventSubscribe \in StringLists /\ MsgQuerySubdocs \in StringLists
  BY DEF StringLists
<1>2. Fits(MsgEventSubscribe) /\ Fits(MsgQuerySubdocs) /\ Text \in SUBSET Seq(Nat)
  BY <1>1, SmallFits, TextsAreNumbers
<1>3. CASE m = Subscribe
  <2>1. /\ Encode(m) = StringList(MsgEventSubscribe, EventTypes)
        /\ Meaning(m) = [type |-> "strings", tag |-> MsgEventSubscribe, values |-> EventTypes]
    BY <1>3 DEF Subscribe, Encode, Meaning, EventSubscription
  <2>2. EventTypes \in Seq(Text) /\ Fits(Len(EventTypes))
    BY NamesFit, SmallFits
  <2>3. \A i \in 1 .. Len(EventTypes) : Fits(Len(EventTypes[i]))
    <3>1. \A i \in 1 .. Len(EventTypes) : Len(EventTypes[i]) \in Nat
      BY <1>2, <2>2, ElementOfSeq, LenProperties
    <3>2. MaxName \in Nat /\ \A i \in 1 .. Len(EventTypes) : Len(EventTypes[i]) <= MaxName
      BY NamesFit
    <3>3. \A i \in 1 .. Len(EventTypes) : Len(EventTypes[i]) \in 0 .. MaxName
      BY <3>1, <3>2
    <3> QED BY <3>3, SmallFits
  <2> QED BY <1>1, <1>2, <2>1, <2>2, <2>3, StringListIsRead DEF Framed
<1>4. CASE m.type = "query" /\ m.names # <<>>
  <2>1. wire[c] \in Seq(Message) /\ Progress(c)
    BY DEF Asking
  <2>2. m \in Message
    BY <2>1, ElementOfSeq
  <2>3. PICK names \in Seq(Seq(Bytes)) : names = m.names
    BY <2>2 DEF Message
  <2>4. PICK n \in Nat : n = Len(names)
    BY LenProperties
  <2>5. n \in 1 .. MaxQuery /\ MaxQuery \in Nat
    <3>1. Len(names) # 0
      BY <1>4, <2>3, EmptySeq
    <3>2. n <= MaxQuery
      BY <2>1, <2>3, <2>4 DEF Progress
    <3>3. MaxQuery \in Nat
      BY CodecAssumption DEF CodecAssumption
    <3> QED BY <2>4, <3>1, <3>2, <3>3
  <2>6. DOMAIN names = 1 .. n
    BY <2>4, LenProperties
  <2>7. \A i \in 1 .. n : names[i] \in KnownGuids(c)
    <3>1. DOMAIN wire[c] = 1 .. Len(wire[c])
      BY <2>1, LenProperties
    <3>2. \A i \in 1 .. n : names[i] \in NamesIn(wire[c])
      BY <2>3, <2>6, <3>1 DEF NamesIn, ToSet
    <3> QED BY <3>2 DEF Sending
  <2>8. \A i \in 1 .. n : names[i] \in Text /\ Len(names[i]) <= MaxName
    BY <2>7, NamesFit
  <2>9. names \in Seq(Text) /\ Len(names) = n
    <3>1. names \in [1 .. n -> Text]
      BY <2>6, <2>8
    <3>2. names \in Seq(Text)
      BY <3>1, SeqDef
    <3> QED BY <2>4, <3>2
  <2>10. \A i \in 1 .. n : Fits(Len(names[i]))
    <3>1. \A i \in 1 .. n : Len(names[i]) \in Nat
      BY <1>2, <2>8, LenProperties
    <3>2. \A i \in 1 .. n : Len(names[i]) \in 0 .. MaxName
      BY <2>8, <3>1, NamesFit
    <3> QED BY <3>2, SmallFits
  <2>11. n \in 0 .. MaxQuery
    BY <2>5
  <2>12. Fits(Len(names))
    BY <2>4, <2>11, SmallFits
  <2>13. /\ Encode(m) = StringList(MsgQuerySubdocs, names)
         /\ Meaning(m) = [type |-> "strings", tag |-> MsgQuerySubdocs, values |-> names]
    BY <1>4, <2>3, <2>4, <2>5 DEF Encode, Meaning, QuerySubdocs
  <2>14. \A i \in 1 .. Len(names) : Fits(Len(names[i]))
    BY <2>4, <2>10
  <2>15. /\ StringList(MsgQuerySubdocs, names) \in Seq(Nat)
         /\ DecodeMessage(StringList(MsgQuerySubdocs, names)) = Meaning(m)
    BY <1>1, <1>2, <2>9, <2>12, <2>13, <2>14, StringListIsRead
  <2> QED BY <2>13, <2>15 DEF Framed
<1> QED BY <1>3, <1>4 DEF Kinds, Sayable

(* What the server sends. *)
LEMMA NewsIsRead ==
  ASSUME Telling, Kinds, NEW c \in Connectors, NEW k \in 1 .. Len(inbox[c]),
         NEW m, m = inbox[c][k]
  PROVE  Encode(m) \in Seq(Nat) /\ DecodeMessage(Encode(m)) = Meaning(m) /\ Meaning(m).type \in Framed
<1>1. m.type \in {"event", "subdocs"} /\ Len(m.news) <= MaxQuery
  BY DEF Kinds, Tellable
<1>2. PICK news \in Seq(Snapshot) : news = m.news
  <2>1. m \in Message
    BY ElementOfSeq DEF Telling
  <2> QED BY <2>1 DEF Message
<1>3. \A j \in 1 .. Len(news) : news[j].guid \in KnownGuids(c)
  BY <1>2 DEF Telling, Truthful
<1>4. PICK cbor \in Seq(Nat) : cbor = Cbor(news) /\ Fits(Len(cbor))
  BY <1>1, <1>2, <1>3, CborFits
<1>5. PICK tag \in {MsgEvent, MsgSubdocs} : tag = IF m.type = "event" THEN MsgEvent ELSE MsgSubdocs
  OBVIOUS
<1>6. Fits(tag)
  BY SmallFits
<1>7. /\ Encode(m) = Buffer(tag, cbor)
      /\ Meaning(m) = [type |-> IF tag = MsgEvent THEN "event" ELSE "subdocs", cbor |-> cbor]
  BY <1>1, <1>2, <1>4, <1>5 DEF Encode, Meaning, MsgEvent, MsgSubdocs
<1> QED BY <1>1, <1>4, <1>6, <1>7, BufferIsRead DEF Framed

LEMMA ReadBack == ASSUME Telltale, Kinds PROVE FramesStandAlone
<1> SUFFICES ASSUME NEW c \in Connectors, NEW m \in Latest(wire[c]) \cup Latest(inbox[c])
             PROVE  LET f == Encode(m)
                    IN /\ DecodeMessage(f) = Meaning(m)
                       /\ \A n \in 0 .. Len(f) - 1 : DecodeMessage(SubSeq(f, 1, n)) = Malformed
                       /\ \A b \in {0, Group} : DecodeMessage(Append(f, b)) = Malformed
  BY DEF FramesStandAlone
<1>1. ASSUME NEW s \in Seq(Message), m \in Latest(s) PROVE \E k \in 1 .. Len(s) : m = s[k]
  <2>1. s # <<>> /\ m = Last(s)
    BY <1>1 DEF Latest
  <2>2. Len(s) \in Nat /\ Len(s) # 0
    BY <2>1, LenProperties, EmptySeq
  <2>3. Len(s) \in 1 .. Len(s)
    BY <2>2
  <2> QED BY <2>1, <2>3 DEF Last
<1>2. wire[c] \in Seq(Message) /\ inbox[c] \in Seq(Message)
  BY DEF Telltale, Asking, Telling
<1>3. PICK f \in Seq(Nat) : f = Encode(m) /\ DecodeMessage(f) = Meaning(m) /\ Meaning(m).type \in Framed
  BY <1>1, <1>2, SentIsRead, NewsIsRead DEF Telltale
<1>4. /\ \A n \in 0 .. Len(f) - 1 : DecodeMessage(SubSeq(f, 1, n)) = Malformed
      /\ \A b \in Nat : DecodeMessage(Append(f, b)) = Malformed
  BY <1>3, NeitherCutNorLonger
<1>5. 0 \in Nat /\ Group \in Nat
  BY CodecAssumption DEF CodecAssumption
<1> QED BY <1>3, <1>4, <1>5

(* Whatever documents there are and whatever happens to the connections,    *)
(* decode_message (protocol.py) reads the bytes of every message sent as    *)
(* that message, and neither a beginning of them nor anything longer.       *)
THEOREM FramesAreReadBack == Spec => []FramesStandAlone
<1>1. Init => IInv /\ Telltale /\ Kinds
  BY InitIInv, InitTelltale, InitKinds
<1>2. IInv /\ Telltale /\ Kinds /\ [Next]_vars => IInv' /\ Telltale' /\ Kinds'
  BY StepIInv, ShapeStep, StepAsking, SendingStep, TellingStep, ListingStep, KindsStep DEF Telltale
<1>3. Telltale /\ Kinds => FramesStandAlone
  BY ReadBack
<1> QED BY <1>1, <1>2, <1>3, PTL DEF Spec
==============================================================================
