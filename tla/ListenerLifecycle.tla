------------------------- MODULE ListenerLifecycle -------------------------
(***************************************************************************)
(* The threads of the websocket listener (websocket_listener.py), one for   *)
(* each connector, their subscriptions (relay_sdk), and stop, which the     *)
(* main thread calls on its way out.  A subscription asks for the index of  *)
(* the documents known when it was made, in queries of limited length, and  *)
(* receives events.  What is on its way are messages; Encode gives their    *)
(* bytes, and an invariant says that WireCodec reads them back.  A         *)
(* connection may be refused, reset, or go silent, which only a ping brings *)
(* to light.                                                               *)
(* Documents learnt of meanwhile, what the change queue makes of a change   *)
(* and which heads are adopted are the business of other modules.          *)
(***************************************************************************)
EXTENDS WireCodec, FiniteSets

CONSTANTS
  Connectors,   \* the configured folders
  Guids,        \* the documents each folder knows, as sequences of byte strings
  EventTypes,   \* what a subscription asks for, as byte strings
  MaxName,      \* the longest name of a document or an event type, in bytes
  MaxEdits,     \* bound: edits
  MaxFaults     \* bound: refused, reset and silent connections

ASSUME ListenerAssumption ==
  /\ IsFiniteSet(Connectors)
  /\ MaxEdits \in Nat /\ MaxFaults \in Nat

(* Names are text, and no frame is so long that a number cannot say it.     *)
ASSUME FrameAssumption ==
  /\ \A names \in {EventTypes} \cup {Guids[c] : c \in Connectors} :
       names \in Seq(Text) /\ \A i \in DOMAIN names : Len(names[i]) <= MaxName
  /\ MaxName \in Nat
  /\ \A n \in (0 .. MaxQuery * (MaxName + 2)) \cup {Len(EventTypes)} \cup StringLists
               \cup {MsgEvent, MsgSubdocs} : Len(Varuint(n)) <= MaxGroups

VARIABLES
  pc,         \* where each listener thread is
  socket,     \* "none", "open", "silent", "doubted", "reset" (by the network), "closed" (by us)
  asked,      \* how many documents the subscription has asked for
  wire,       \* the messages the subscription has sent
  answered,   \* how many of them the server has handled
  inbox,      \* the messages on their way to the listener
  text,       \* the version of each document on the server
  told,       \* the newest version that a change handed to the queue tells of
  listed,     \* _subscriptions: connectors whose subscription is in it
  stopEvent,  \* _stop_event
  stopper,    \* where stop is: "no", "called", "closing", "returned"
  toClose,    \* the copy of _subscriptions that stop works on
  edits, faults

connection == <<socket, asked, wire, answered, inbox>>
server     == <<text, edits>>
stopping   == <<stopEvent, stopper, toClose>>
vars == <<pc, connection, told, listed, stopping, server, faults>>

Live == {"open", "silent", "doubted"}

(* The places between registering and unregistering a subscription. *)
Registered == {"poll", "recv", "ping", "wait", "leave"}

(* sorted(set(...)): the order does not matter, so Guids has them in some.  *)
KnownGuids(c) == ToSet(Guids[c])

At(c, place)   == pc[c] = place
Goto(c, place) == pc' = [pc EXCEPT ![c] = place]
Set(f, c, v)   == f' = [f EXCEPT ![c] = v]

Init ==
  /\ pc = [c \in Connectors |-> "check"]
  /\ socket = [c \in Connectors |-> "none"]
  /\ asked = [c \in Connectors |-> 0]
  /\ wire = [c \in Connectors |-> <<>>]
  /\ answered = [c \in Connectors |-> 0]
  /\ inbox = [c \in Connectors |-> <<>>]
  /\ text = [c \in Connectors |-> [g \in KnownGuids(c) |-> 0]]
  /\ told = text
  /\ listed = {}
  /\ stopEvent = FALSE /\ stopper = "no" /\ toClose = {}
  /\ edits = 0 /\ faults = 0

------------------------------------------------------------------------------
(* The server. *)

(* A subscription to events, a query for documents, and what the server     *)
(* sends, reduced to what the listener makes of it: documents, each with    *)
(* the version that the event, or the head of the snapshot, stands for.     *)
Subscribe       == [type |-> "subscribe", names |-> <<>>, news |-> <<>>]
Query(names)    == [type |-> "query", names |-> names, news |-> <<>>]
News(type, new) == [type |-> type, names |-> <<>>, news |-> new]

Subscribed(c) == \E i \in 1 .. answered[c] : wire[c][i] = Subscribe

(* A user edits a document; who has subscribed is sent an event. *)
Edit(c, g) ==
  /\ edits < MaxEdits
  /\ edits' = edits + 1
  /\ text' = [text EXCEPT ![c][g] = @ + 1]
  /\ IF socket[c] = "open" /\ Subscribed(c)
     THEN Set(inbox, c, Append(inbox[c],
                 News("event", <<[guid |-> g, version |-> text[c][g] + 1]>>)))
     ELSE UNCHANGED inbox
  /\ UNCHANGED <<pc, socket, asked, wire, answered, told, listed, stopping, faults>>

(* The server handles a message: it notes a subscription, answers a query.    *)
Answer(c) ==
  /\ socket[c] = "open"
  /\ answered[c] < Len(wire[c])
  /\ Set(answered, c, answered[c] + 1)
  /\ LET names == wire[c][answered[c] + 1].names
         heads == [i \in DOMAIN names |-> [guid |-> names[i], version |-> text[c][names[i]]]]
     IN IF names = <<>> THEN UNCHANGED inbox
        ELSE Set(inbox, c, Append(inbox[c], News("subdocs", heads)))
  /\ UNCHANGED <<pc, socket, asked, wire, told, listed, stopping, server, faults>>

(* The network resets the connection, or loses it without a word; some of   *)
(* what was on its way still arrives.                                      *)
Fail(c, how) ==
  /\ faults < MaxFaults
  /\ faults' = faults + 1
  /\ socket[c] = "open"
  /\ Set(socket, c, how)
  /\ \E n \in 0 .. Len(inbox[c]) : Set(inbox, c, SubSeq(inbox[c], 1, n))
  /\ UNCHANGED <<pc, asked, wire, answered, told, listed, stopping, server>>

(* TCP gives a connection up when what was sent is not acknowledged. *)
GiveUp(c) ==
  /\ socket[c] = "doubted"
  /\ Set(socket, c, "reset")
  /\ UNCHANGED <<pc, asked, wire, answered, inbox, told, listed, stopping, server, faults>>

------------------------------------------------------------------------------
(* A listener thread, _listen_connector. *)

Check(c) ==
  /\ At(c, "check")
  /\ Goto(c, IF stopEvent THEN "ended" ELSE "dial")
  /\ UNCHANGED <<connection, told, listed, stopping, server, faults>>

Forgotten(c, how) ==
  /\ Set(socket, c, how)
  /\ Set(asked, c, 0) /\ Set(wire, c, <<>>) /\ Set(answered, c, 0) /\ Set(inbox, c, <<>>)

(* The connection is made and the subscription to events sent. *)
Dial(c) ==
  /\ At(c, "dial")
  /\ Goto(c, "ask")
  /\ Set(socket, c, "open")
  /\ Set(wire, c, <<Subscribe>>)
  /\ UNCHANGED <<asked, answered, inbox, told, listed, stopping, server, faults>>

(* An exception: unless stop was called, the thread waits; it does so       *)
(* before the clean-up, with the subscription still listed.                *)
Raise(c) == Goto(c, IF stopEvent THEN "leave" ELSE "wait")

DialFails(c) ==
  /\ At(c, "dial")
  /\ faults < MaxFaults
  /\ faults' = faults + 1
  /\ Raise(c)
  /\ UNCHANGED <<connection, told, listed, stopping, server>>

(* What is sent into silence makes TCP doubt the connection. *)
Sent(c) == Set(socket, c, IF socket[c] = "silent" THEN "doubted" ELSE socket[c])

(* Mutant: only the first query is sent. *)
AskOnce(c) ==
  /\ At(c, "ask")
  /\ socket[c] # "reset"
  /\ Goto(c, "register")
  /\ Set(wire, c, Append(wire[c],
        Query(SubSeq(Guids[c], 1, IF Len(Guids[c]) < MaxQuery THEN Len(Guids[c])
                                                                    ELSE MaxQuery))))
  /\ Set(asked, c, Len(Guids[c]))
  /\ UNCHANGED <<socket, answered, inbox, told, listed, stopping, server, faults>>

(* query: the known documents, as many at a time as a query may have.       *)
Ask(c) ==
  /\ At(c, "ask")
  /\ socket[c] # "reset"
  /\ LET rest  == Len(Guids[c]) - asked[c]
         batch == IF rest < MaxQuery THEN rest ELSE MaxQuery
     IN IF rest = 0
        THEN Goto(c, "register") /\ UNCHANGED <<socket, asked, wire>>
        ELSE /\ Set(wire, c, Append(wire[c],
                     Query(SubSeq(Guids[c], asked[c] + 1, asked[c] + batch))))
             /\ Set(asked, c, asked[c] + batch)
             /\ Sent(c)
             /\ UNCHANGED pc
  /\ UNCHANGED <<answered, inbox, told, listed, stopping, server, faults>>

(* A subscription that fails to connect is never known to the thread, and   *)
(* its socket is collected.                                                *)
AskFails(c) ==
  /\ At(c, "ask")
  /\ socket[c] = "reset"
  /\ Raise(c)
  /\ Forgotten(c, "none")
  /\ UNCHANGED <<told, listed, stopping, server, faults>>

Register(c) ==
  /\ At(c, "register")
  /\ listed' = listed \cup {c}
  /\ Goto(c, "poll")
  /\ UNCHANGED <<connection, told, stopping, server, faults>>

(* Mutant: the inner loop does not look at the event. *)
PollAlways(c) ==
  /\ At(c, "poll")
  /\ Goto(c, "recv")
  /\ UNCHANGED <<connection, told, listed, stopping, server, faults>>

Poll(c) ==
  /\ At(c, "poll")
  /\ Goto(c, IF stopEvent THEN "leave" ELSE "recv")
  /\ UNCHANGED <<connection, told, listed, stopping, server, faults>>

(* recv, and _handle_message: an event and every snapshot become changes.   *)
Receive(c) ==
  /\ At(c, "recv")
  /\ socket[c] # "closed" /\ inbox[c] # <<>>
  /\ Set(inbox, c, Tail(inbox[c]))
  /\ Goto(c, "poll")
  /\ LET news == ToSet(Head(inbox[c]).news)
     IN told' = [told EXCEPT ![c] = [g \in KnownGuids(c) |->
                   Max({told[c][g]} \cup {v.version : v \in {n \in news : n.guid = g}})]]
  /\ UNCHANGED <<socket, asked, wire, answered, listed, stopping, server, faults>>

ReceiveFails(c) ==
  /\ At(c, "recv")
  /\ socket[c] = "closed" \/ (socket[c] = "reset" /\ inbox[c] = <<>>)
  /\ Raise(c)
  /\ UNCHANGED <<connection, told, listed, stopping, server, faults>>

(* Nothing has come for keepalive_interval; a connection that TCP has given *)
(* up may look the same to _is_timeout.                                    *)
TimeOut(c) ==
  /\ At(c, "recv")
  /\ socket[c] \in Live \cup {"reset"} /\ inbox[c] = <<>>
  /\ Goto(c, "ping")
  /\ UNCHANGED <<connection, told, listed, stopping, server, faults>>

(* Mutant: no ping. *)
PingNobody(c) ==
  /\ At(c, "ping")
  /\ Goto(c, "poll")
  /\ UNCHANGED <<connection, told, listed, stopping, server, faults>>

(* A ping that cannot be sent raises; its answer is not waited for. *)
Ping(c) ==
  /\ At(c, "ping")
  /\ IF socket[c] \in Live THEN Goto(c, "poll") ELSE Raise(c)
  /\ Sent(c)
  /\ UNCHANGED <<asked, wire, answered, inbox, told, listed, stopping, server, faults>>

(* reconnect_delay has passed, or stop was called. *)
WaitEnds(c) ==
  /\ At(c, "wait")
  /\ Goto(c, "leave")
  /\ UNCHANGED <<connection, told, listed, stopping, server, faults>>

(* Mutant: the subscription stays in the list. *)
LeaveListed(c) ==
  /\ At(c, "leave")
  /\ Goto(c, "check")
  /\ Forgotten(c, IF socket[c] = "none" THEN "none" ELSE "closed")
  /\ UNCHANGED <<told, listed, stopping, server, faults>>

(* finally: unregister and close, if there is a subscription. *)
Leave(c) ==
  /\ At(c, "leave")
  /\ Goto(c, "check")
  /\ listed' = listed \ {c}
  /\ Forgotten(c, IF socket[c] = "none" THEN "none" ELSE "closed")
  /\ UNCHANGED <<told, stopping, server, faults>>

Thread(c) ==
  \/ Check(c) \/ Dial(c) \/ DialFails(c) \/ Ask(c) \/ AskFails(c) \/ Register(c) \/ Poll(c)
  \/ Receive(c) \/ ReceiveFails(c) \/ TimeOut(c) \/ Ping(c) \/ WaitEnds(c) \/ Leave(c)

------------------------------------------------------------------------------
(* stop, in the main thread. *)

StopCalled ==
  /\ stopper = "no"
  /\ stopper' = "called"
  /\ stopEvent' = TRUE
  /\ UNCHANGED <<pc, connection, told, listed, toClose, server, faults>>

StopCopies ==
  /\ stopper = "called"
  /\ stopper' = "closing"
  /\ toClose' = listed /\ listed' = {}
  /\ UNCHANGED <<pc, connection, told, stopEvent, server, faults>>

StopCloses(c) ==
  /\ stopper = "closing"
  /\ c \in toClose
  /\ toClose' = toClose \ {c}
  /\ Set(socket, c, "closed")
  /\ UNCHANGED <<pc, asked, wire, answered, inbox, told, listed, stopEvent, stopper, server, faults>>

StopReturns ==
  /\ stopper = "closing" /\ toClose = {}
  /\ stopper' = "returned"
  /\ UNCHANGED <<pc, connection, told, listed, stopEvent, toClose, server, faults>>

(* Mutant: the list is copied before the event is set. *)
StopCopyingFirst ==
  \/ /\ stopper = "no"
     /\ stopper' = "called"
     /\ toClose' = listed /\ listed' = {}
     /\ UNCHANGED <<pc, connection, told, stopEvent, server, faults>>
  \/ /\ stopper = "called"
     /\ stopper' = "closing"
     /\ stopEvent' = TRUE
     /\ UNCHANGED <<pc, connection, told, listed, toClose, server, faults>>
  \/ (\E c \in Connectors : StopCloses(c)) \/ StopReturns

Stop == StopCalled \/ StopCopies \/ (\E c \in Connectors : StopCloses(c)) \/ StopReturns

Network(c) ==
  \/ \E g \in KnownGuids(c) : Edit(c, g)
  \/ Answer(c) \/ (\E how \in {"reset", "silent"} : Fail(c, how)) \/ GiveUp(c)

Next == Stop \/ \E c \in Connectors : Thread(c) \/ Network(c)

Spec == Init /\ [][Next]_vars

(* Threads go on, stop finishes once it is called, the server answers and   *)
(* TCP does not wait for ever.                                             *)
FairSpec ==
  /\ Spec
  /\ \A c \in Connectors : WF_vars(Thread(c)) /\ WF_vars(Answer(c)) /\ WF_vars(GiveUp(c))
  /\ WF_vars(Stop /\ stopper # "no")

------------------------------------------------------------------------------

(* Every variable keeps its type; who is in the list has a subscription.    *)
TypeOK ==
  /\ \A c \in Connectors :
       /\ pc[c] \in {"check", "dial", "ask", "register", "ended"} \cup Registered
       /\ socket[c] \in {"none", "reset", "closed"} \cup Live
       /\ asked[c] \in 0 .. Len(Guids[c]) /\ answered[c] \in 0 .. Len(wire[c])
       /\ \A g \in KnownGuids(c) : told[c][g] \in 0 .. text[c][g]
  /\ listed \subseteq {c \in Connectors : pc[c] \in Registered}
  /\ toClose \subseteq Connectors
  /\ stopEvent \in BOOLEAN /\ stopper \in {"no", "called", "closing", "returned"}
  /\ edits \in 0 .. MaxEdits /\ faults \in 0 .. MaxFaults

(* When stop has returned, no thread waits on a connection, not even one    *)
(* that was about to register its subscription when stop was called.       *)
NobodyListens ==
  stopper = "returned" => \A c \in Connectors : pc[c] = "recv" => socket[c] \notin Live

(* The documents that messages name. *)
NamesIn(sent) == UNION {ToSet(sent[i].names) : i \in DOMAIN sent}

(* When a thread listens, what it has sent asks the server for every        *)
(* document it knows, and no query is refused for its length.              *)
EverythingAsked ==
  \A c \in Connectors : pc[c] \in {"poll", "recv", "ping"} =>
    /\ NamesIn(wire[c]) = KnownGuids(c)
    /\ \A i \in DOMAIN wire[c] : Len(wire[c][i].names) <= MaxQuery

(* The bytes of a message; CBOR is any encoding of the documents in it.     *)
Cbor(news) == FlattenSeq([i \in DOMAIN news |->
                <<news[i].version, Len(news[i].guid)>> \o news[i].guid])

Encode(m) == CASE m.type = "subscribe" -> EventSubscription(EventTypes)
               [] m.type = "query"     -> QuerySubdocs(m.names)
               [] m.type = "event"     -> Buffer(MsgEvent, Cbor(m.news))
               [] m.type = "subdocs"   -> Buffer(MsgSubdocs, Cbor(m.news))

(* What decode_message must make of these bytes. *)
Meaning(m) == CASE m.type = "subscribe" -> [type |-> "strings", tag |-> MsgEventSubscribe,
                                            values |-> EventTypes]
                [] m.type = "query"     -> [type |-> "strings", tag |-> MsgQuerySubdocs,
                                            values |-> m.names]
                [] OTHER                -> [type |-> m.type, cbor |-> Cbor(m.news)]

Latest(messages) == IF messages = <<>> THEN {} ELSE {Last(messages)}

(* The bytes of every message sent are read back as that message; cut short *)
(* anywhere, or with something behind them, they are not read at all.       *)
FramesStandAlone ==
  \A c \in Connectors : \A m \in Latest(wire[c]) \cup Latest(inbox[c]) :
    LET f == Encode(m)
    IN /\ DecodeMessage(f) = Meaning(m)
       /\ \A n \in 0 .. Len(f) - 1 : DecodeMessage(SubSeq(f, 1, n)) = Malformed
       /\ \A b \in {0, Group} : DecodeMessage(Append(f, b)) = Malformed

(* Once users and faults are done, the queue has been told of every edit,   *)
(* however connections were refused, reset or lost in silence on the way.   *)
AllTold == <>[](stopEvent \/ told = text)

(* A stop that was called ends every thread. *)
ThreadsEnd == stopEvent ~> \A c \in Connectors : pc[c] = "ended"
==============================================================================
