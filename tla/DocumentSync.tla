---------------------------- MODULE DocumentSync ----------------------------
(***************************************************************************)
(* How the edits of documents reach the mirror's files over one websocket  *)
(* (websocket_listener.py, and the document branch of                      *)
(* process_document_change).  While the socket is open the server sends an *)
(* event for every edit; what happens while it is not is caught up from    *)
(* the subdocument index, which the listener asks for the heads of the     *)
(* documents it knows when it connects.  A head that differs from the      *)
(* persisted one means: fetch.  Which documents the folder lists, where    *)
(* their files are and empty texts are other modules' business; the queue  *)
(* is reduced to its promise, one coalesced change per document.           *)
(***************************************************************************)
EXTENDS Naturals, SequencesExt

CONSTANTS
  Docs,         \* the documents of the folder
  MaxVersion,   \* bound: versions of a document
  Wording,      \* Wording[v]: the text of version v; an undo brings a text back
  MaxFailures,  \* bound: fetches that fail
  MaxDrops,     \* bound: times the connection is lost
  MaxCrashes    \* bound: crashes

ASSUME DocumentAssumption ==
  /\ IsFiniteSet(Docs) /\ Docs # {}
  /\ MaxVersion \in Nat \ {0} /\ MaxFailures \in Nat /\ MaxDrops \in Nat /\ MaxCrashes \in Nat
  /\ Wording \in [1 .. MaxVersion -> Nat \ {0}]

VARIABLES
  text,      \* text[d]: the document's version on the server, which is also its head
  late,      \* documents edited since the listener was constructed (last_seen > catchup)
  files,     \* files[d]: the version whose text the mirror's file holds, 0: no file
  known,     \* filemeta_folders and the resource index: the documents the mirror knows
  hashes,    \* document_hashes: a text, 0: none
  heads,     \* subdoc_heads: a version, 0: none
  saved,     \* the three above as last saved
  todo,      \* documents the startup pass has still to hydrate
  process,   \* "down", "starting" (startup sync) or "serving"
  conn,      \* "off", "dialing", "subscribed" (index not answered yet), "answered"
  asked,     \* the documents whose heads this connection asks for
  channel,   \* messages on their way to the listener
  changes,   \* changes[d]: the coalesced change waiting for the worker
  worker,    \* the change the worker is processing
  gap,       \* history: why the file may lack an edit, see below
  failures, drops, crashes

memory == <<known, hashes, heads>>
socket == <<conn, asked, channel>>
counts == <<failures, drops, crashes>>
vars == <<text, late, files, memory, saved, todo, process, socket, changes,
          worker, gap, counts>>

Versions == 1 .. MaxVersion

(* A message carries a version: the head of a snapshot, "early" or "late"  *)
(* by its last_seen; of an event, the edit it tells of, which the code     *)
(* never learns.                                                           *)
Messages == [kind : {"event", "early", "late"}, doc : Docs, version : Versions]

(* A coalesced change: what the worker is to do with it, the head it came  *)
(* with, and the edit of the newest event coalesced after that head.       *)
Changes == [kind : {"none", "event", "adopt", "fetch"},
            head : 0 .. MaxVersion, news : 0 .. MaxVersion]

NoChange == [kind |-> "none", head |-> 0, news |-> 0]

(* What is saved, and what the worker is at. *)
Maps  == [known : SUBSET Docs, hashes : [Docs -> Nat], heads : [Docs -> 0 .. MaxVersion]]
Works == [pc : {"idle", "fetch", "store", "save", "heads"}, doc : Docs,
          head : 0 .. MaxVersion, text : 0 .. MaxVersion]

NotWorking == [pc |-> "idle", doc |-> CHOOSE d \in Docs : TRUE, head |-> 0, text |-> 0]

Listed == {d \in Docs : text[d] # 0}

(* The file of d has the text of version v or of a later one. *)
Has(d, v) ==
  /\ files[d] # 0
  /\ \E u \in v .. text[d] : u # 0 /\ Wording[files[d]] = Wording[u]

(* What may keep an edit from the file for longer than it is on its way:   *)
(* "missed", its notification is gone and only the index can tell;         *)
(* "unhydrated", the startup pass could not fetch it; "masked", the        *)
(* recorded hash claims a text that the file does not have.  An edit that  *)
(* is missed hides none of the other two.                                  *)
Gaps == {"none", "missed", "unhydrated", "masked"}

Missed(g) == IF g = "none" THEN "missed" ELSE g

------------------------------------------------------------------------------
(* Users and the server. *)

(* A new version, of a document that may be new.  An open socket carries   *)
(* an event for it.                                                        *)
Edit(d) ==
  LET v == text[d] + 1
      heard == conn \in {"subscribed", "answered"} IN
  /\ v \in Versions
  /\ text' = [text EXCEPT ![d] = v]
  /\ late' = late \cup {d}
  /\ channel' = IF heard
                THEN Append(channel, [kind |-> "event", doc |-> d, version |-> v])
                ELSE channel
  /\ gap' = IF heard THEN gap ELSE [gap EXCEPT ![d] = Missed(@)]
  /\ UNCHANGED <<files, memory, saved, todo, process, conn, asked, changes,
                 worker, counts>>

(* The index answers with the head of every document asked for. *)
AnswerIndex ==
  LET Snapshot(d) == [kind |-> IF d \in late THEN "late" ELSE "early",
                      doc |-> d, version |-> text[d]]
      order == SetToSeq(asked) IN
  /\ conn = "subscribed"
  /\ conn' = "answered"
  /\ channel' = channel \o [i \in DOMAIN order |-> Snapshot(order[i])]
  /\ gap' = [d \in Docs |-> IF d \in asked /\ gap[d] = "missed" THEN "none" ELSE gap[d]]
  /\ UNCHANGED <<text, late, files, memory, saved, todo, process, asked, changes,
                 worker, counts>>

(* The socket, or the attempt to open it, fails; what was on its way is    *)
(* lost.  The listener closes the socket and waits before it dials again.  *)
Disconnect ==
  LET lost(d) == {channel[i].version : i \in {j \in DOMAIN channel : channel[j].doc = d}} IN
  /\ conn # "off"
  /\ drops < MaxDrops
  /\ drops' = drops + 1
  /\ conn' = "off"
  /\ asked' = {}
  /\ channel' = <<>>
  /\ gap' = [d \in Docs |-> IF \E v \in lost(d) : ~Has(d, v) THEN Missed(gap[d]) ELSE gap[d]]
  /\ UNCHANGED <<text, late, files, memory, saved, todo, process, changes,
                 worker, failures, crashes>>

------------------------------------------------------------------------------
(* The listener thread of the folder. *)

(* Mutant of Dial: nothing is asked for. *)
DialForEvents ==
  /\ process = "serving"
  /\ conn = "off"
  /\ conn' = "dialing"
  /\ asked' = {}
  /\ UNCHANGED <<text, late, files, memory, saved, todo, process, channel, changes,
                 worker, gap, counts>>

(* _known_subdoc_guids: the metadata is read before the socket is opened. *)
Dial ==
  /\ process = "serving"
  /\ conn = "off"
  /\ conn' = "dialing"
  /\ asked' = known
  /\ UNCHANGED <<text, late, files, memory, saved, todo, process, channel, changes,
                 worker, gap, counts>>

(* connect: subscribe to events, then ask for the heads. *)
Subscribe ==
  /\ conn = "dialing"
  /\ conn' = "subscribed"
  /\ UNCHANGED <<text, late, files, memory, saved, todo, process, asked, channel,
                 changes, worker, gap, counts>>

(* Mutant of Merged: the first notification decides. *)
MergedFirstWins(existing, new) ==
  IF existing.kind = "none" THEN new
  ELSE IF new.kind = "event" THEN [existing EXCEPT !.news = new.news] ELSE existing

(* enqueue_document_change: an event leaves the head and the flag of the   *)
(* entry it finds as they are, a head replaces what is there.              *)
Merged(existing, new) ==
  IF new.kind = "event" /\ existing.kind \in {"adopt", "fetch"}
  THEN [existing EXCEPT !.news = new.news]
  ELSE new

(* Mutant of SnapshotKind: the age is passed on in place of the verdict. *)
SnapshotKindRaw(m) == IF heads[m.doc] = m.version THEN "none" ELSE m.kind

(* Mutant of SnapshotKind: every first head is adopted. *)
SnapshotKindIgnoringTime(m) ==
  IF heads[m.doc] = m.version THEN "none"
  ELSE IF heads[m.doc] = 0 THEN "adopt" ELSE "fetch"

(* _snapshot_needs_processing: None for the persisted head, baseline_only  *)
(* for the first head of a document not edited since the start.            *)
SnapshotKind(m) ==
  IF heads[m.doc] = m.version THEN "none"
  ELSE IF heads[m.doc] = 0 /\ m.kind = "early" THEN "adopt" ELSE "fetch"

(* The change that a message asks for. *)
Requested(m) ==
  IF m.kind = "event" THEN [kind |-> "event", head |-> 0, news |-> m.version]
  ELSE [kind |-> SnapshotKind(m), head |-> m.version, news |-> 0]

(* _handle_message; one message of the index with several snapshots is as  *)
(* many messages here.                                                     *)
HandleMessage ==
  LET m == Head(channel) IN
  /\ channel # <<>>
  /\ channel' = Tail(channel)
  /\ changes' = IF Requested(m).kind = "none" THEN changes
                ELSE [changes EXCEPT ![m.doc] = Merged(@, Requested(m))]
  /\ UNCHANGED <<text, late, files, memory, saved, todo, process, conn, asked,
                 worker, gap, counts>>

------------------------------------------------------------------------------
(* The worker: process_document_change for a document. *)

(* The worker turns to the change of d and takes it out. *)
Takes(d) ==
  /\ process = "serving"
  /\ worker.pc = "idle"
  /\ changes[d].kind # "none"
  /\ changes' = [changes EXCEPT ![d] = NoChange]

CarriesPersistedHead(d) == changes[d].head # 0 /\ changes[d].head = heads[d]

(* A change that is dropped takes the events coalesced into it with it. *)
NewsLost(d) == changes[d].news # 0 /\ ~Has(d, changes[d].news)

(* An unknown document, or a head that has been persisted in the meantime: *)
(* nothing is done.                                                        *)
SkipChange(d) ==
  /\ Takes(d)
  /\ d \notin known \/ CarriesPersistedHead(d)
  /\ gap' = IF d \in known /\ NewsLost(d) THEN [gap EXCEPT ![d] = Missed(@)] ELSE gap
  /\ UNCHANGED <<text, late, files, memory, saved, todo, process, socket, worker, counts>>

(* baseline_only: the head is recorded without a fetch. *)
AdoptHead(d) ==
  /\ Takes(d)
  /\ d \in known /\ ~CarriesPersistedHead(d)
  /\ changes[d].kind = "adopt"
  /\ heads' = [heads EXCEPT ![d] = changes[d].head]
  /\ worker' = [worker EXCEPT !.pc = "save"]
  /\ gap' = IF NewsLost(d) THEN [gap EXCEPT ![d] = Missed(@)] ELSE gap
  /\ UNCHANGED <<text, late, files, known, hashes, saved, todo, process, socket, counts>>

TakeChange(d) ==
  /\ Takes(d)
  /\ d \in known /\ ~CarriesPersistedHead(d)
  /\ changes[d].kind # "adopt"
  /\ worker' = [pc |-> "fetch", doc |-> d, head |-> changes[d].head, text |-> 0]
  /\ UNCHANGED <<text, late, files, memory, saved, todo, process, socket, gap, counts>>

(* fetch_document_content returns the text the server has by now ... *)
FetchText ==
  /\ worker.pc = "fetch"
  /\ worker' = [worker EXCEPT !.pc = "store", !.text = text[worker.doc]]
  /\ UNCHANGED <<text, late, files, memory, saved, todo, process, socket, changes,
                 gap, counts>>

(* Mutant of FetchFails: the head is recorded before the fetch. *)
FetchFailsWithHead ==
  LET d == worker.doc IN
  /\ worker.pc = "fetch"
  /\ failures < MaxFailures
  /\ failures' = failures + 1
  /\ worker' = [worker EXCEPT !.pc = "save"]
  /\ heads' = IF worker.head = 0 THEN heads ELSE [heads EXCEPT ![d] = worker.head]
  /\ gap' = IF Has(d, text[d]) THEN gap ELSE [gap EXCEPT ![d] = Missed(@)]
  /\ UNCHANGED <<text, late, files, known, hashes, saved, todo, process, socket,
                 changes, drops, crashes>>

(* ... or None, and then neither the hash nor the head is touched. *)
FetchFails ==
  LET d == worker.doc IN
  /\ worker.pc = "fetch"
  /\ failures < MaxFailures
  /\ failures' = failures + 1
  /\ worker' = [worker EXCEPT !.pc = "save"]
  /\ gap' = IF Has(d, text[d]) THEN gap ELSE [gap EXCEPT ![d] = Missed(@)]
  /\ UNCHANGED <<text, late, files, memory, saved, todo, process, socket, changes,
                 drops, crashes>>

(* A text whose hash differs from the recorded one is written and its hash *)
(* recorded; the head is recorded in either case.                          *)
StoreText ==
  LET d == worker.doc
      fresh == hashes[d] # Wording[worker.text]
      held == files[d] # 0 /\ Wording[files[d]] = Wording[worker.text] IN
  /\ worker.pc = "store"
  /\ files' = IF fresh THEN [files EXCEPT ![d] = worker.text] ELSE files
  /\ hashes' = [hashes EXCEPT ![d] = Wording[worker.text]]
  /\ heads' = IF worker.head = 0 THEN heads ELSE [heads EXCEPT ![d] = worker.head]
  /\ worker' = [worker EXCEPT !.pc = "save"]
  /\ gap' = [gap EXCEPT ![d] = IF ~fresh /\ ~held THEN "masked"
                               ELSE IF worker.text = text[d] THEN "none" ELSE @]
  /\ UNCHANGED <<text, late, known, saved, todo, process, socket, changes, counts>>

(* save_persistent_data replaces one file after the other: the hashes, then *)
(* the heads, then what a change of a document leaves alone.               *)
Save ==
  /\ \/ /\ worker.pc = "save"
        /\ saved' = [saved EXCEPT !.hashes = hashes]
        /\ worker' = [worker EXCEPT !.pc = "heads"]
     \/ /\ worker.pc = "heads"
        /\ saved' = [known |-> known, hashes |-> hashes, heads |-> heads]
        /\ worker' = NotWorking
  /\ UNCHANGED <<text, late, files, memory, todo, process, socket, changes, gap, counts>>

(* A folder pass on the worker creates the file of a document that the     *)
(* folder has come to list, or fails to fetch it; the folder's metadata is *)
(* accepted either way.                                                    *)
JoinFolder(d) ==
  /\ process = "serving" /\ worker.pc = "idle"
  /\ d \in Listed \ known
  /\ known' = known \cup {d}
  /\ saved' = [saved EXCEPT !.known = known']
  /\ \/ /\ files' = [files EXCEPT ![d] = text[d]]
        /\ gap' = [gap EXCEPT ![d] = "none"]
        /\ UNCHANGED failures
     \/ /\ failures < MaxFailures
        /\ failures' = failures + 1
        /\ gap' = [gap EXCEPT ![d] = Missed(@)]
        /\ UNCHANGED files
  /\ UNCHANGED <<text, late, hashes, heads, todo, process, socket, changes, worker,
                 drops, crashes>>

------------------------------------------------------------------------------
(* The process: the listener is constructed, which fixes its catch-up      *)
(* time, then the startup pass runs, then the listener starts.             *)

Boot ==
  /\ process = "down"
  /\ process' = "starting"
  /\ known' = saved.known \cup Listed
  /\ hashes' = saved.hashes
  /\ heads' = saved.heads
  /\ late' = {}
  /\ todo' = Listed
  /\ UNCHANGED <<text, files, saved, socket, changes, worker, gap, counts>>

(* The startup pass writes the text it fetches, whatever the hashes say. *)
Hydrate(d) ==
  /\ process = "starting"
  /\ d \in todo
  /\ todo' = todo \ {d}
  /\ files' = [files EXCEPT ![d] = text[d]]
  /\ gap' = [gap EXCEPT ![d] = "none"]
  /\ UNCHANGED <<text, late, memory, saved, process, socket, changes, worker, counts>>

HydrateFails(d) ==
  /\ process = "starting"
  /\ d \in todo
  /\ failures < MaxFailures
  /\ failures' = failures + 1
  /\ todo' = todo \ {d}
  /\ gap' = IF Has(d, text[d]) THEN gap ELSE [gap EXCEPT ![d] = "unhydrated"]
  /\ UNCHANGED <<text, late, files, memory, saved, process, socket, changes, worker,
                 drops, crashes>>

StartupDone ==
  /\ process = "starting"
  /\ todo = {}
  /\ process' = "serving"
  /\ saved' = [known |-> known, hashes |-> hashes, heads |-> heads]
  /\ UNCHANGED <<text, late, files, memory, todo, socket, changes, worker, gap, counts>>

(* The files and what was saved survive; what was queued, or on its way,   *)
(* does not.                                                               *)
Crash ==
  /\ process # "down"
  /\ crashes < MaxCrashes
  /\ crashes' = crashes + 1
  /\ process' = "down"
  /\ conn' = "off" /\ asked' = {} /\ channel' = <<>>
  /\ changes' = [d \in Docs |-> NoChange]
  /\ worker' = NotWorking
  /\ todo' = {}
  /\ gap' = [d \in Docs |-> IF Has(d, text[d]) THEN gap[d] ELSE Missed(gap[d])]
  /\ UNCHANGED <<text, late, files, memory, saved, failures, drops>>

Init ==
  /\ text \in [Docs -> {0, 1}]
  /\ late = {}
  /\ files = [d \in Docs |-> 0]
  /\ known = {}
  /\ hashes = [d \in Docs |-> 0]
  /\ heads = [d \in Docs |-> 0]
  /\ saved = [known |-> {}, hashes |-> hashes, heads |-> heads]
  /\ todo = {}
  /\ process = "down"
  /\ conn = "off"
  /\ asked = {}
  /\ channel = <<>>
  /\ changes = [d \in Docs |-> NoChange]
  /\ worker = NotWorking
  /\ gap = [d \in Docs |-> "none"]
  /\ failures = 0 /\ drops = 0 /\ crashes = 0

Server   == AnswerIndex \/ \E d \in Docs : Edit(d)
Listener == Dial \/ Subscribe \/ HandleMessage
Worker   ==
  \/ \E d \in Docs : SkipChange(d) \/ AdoptHead(d) \/ TakeChange(d)
  \/ FetchText \/ FetchFails \/ StoreText \/ Save

(* sync_relay_all_folders: what was saved is loaded, and the folder passes *)
(* through whole, whatever fails on the way.                               *)
Startup ==
  \/ Boot \/ StartupDone
  \/ \E d \in Docs : Hydrate(d) \/ HydrateFails(d)

Next ==
  \/ Server \/ Listener \/ Worker \/ Startup
  \/ \E d \in Docs : JoinFolder(d)
  \/ Disconnect \/ Crash

(* The process is restarted and its threads run; the server answers the    *)
(* index query.  Nobody has to edit, and nothing has to fail.              *)
Fairness ==
  /\ WF_vars(AnswerIndex)
  /\ WF_vars(Listener)
  /\ WF_vars(Worker)
  /\ WF_vars(Startup)

Spec == Init /\ [][Next]_vars
FairSpec == Spec /\ Fairness

------------------------------------------------------------------------------

(* Every variable keeps its type. *)
TypeOK ==
  /\ text \in [Docs -> 0 .. MaxVersion]
  /\ late \in SUBSET Docs
  /\ files \in [Docs -> 0 .. MaxVersion]
  /\ known \in SUBSET Docs
  /\ hashes \in [Docs -> Nat]
  /\ heads \in [Docs -> 0 .. MaxVersion]
  /\ saved \in Maps
  /\ todo \in SUBSET Docs
  /\ process \in {"down", "starting", "serving"}
  /\ conn \in {"off", "dialing", "subscribed", "answered"}
  /\ asked \in SUBSET Docs
  /\ channel \in Seq(Messages)
  /\ changes \in [Docs -> Changes]
  /\ worker \in Works
  /\ gap \in [Docs -> Gaps]
  /\ failures \in 0 .. MaxFailures /\ drops \in 0 .. MaxDrops /\ crashes \in 0 .. MaxCrashes

(* A recorded head, in memory or saved, is a promise that the file has the *)
(* text of that version or of a later one: whoever compares heads later,   *)
(* after any crash, skips nothing that the file lacks.                     *)
HeadsHonest == \A d \in Docs : gap[d] \in {"unhydrated", "masked"} \/
  /\ heads[d] # 0 => Has(d, heads[d])
  /\ saved.heads[d] # 0 => Has(d, saved.heads[d])

AtRest ==
  /\ process = "serving" /\ conn = "answered" /\ channel = <<>>
  /\ worker.pc = "idle"
  /\ \A d \in Docs : changes[d].kind = "none"

(* When the connection is up and nothing is on its way, the files of the   *)
(* known documents are the server's texts, except where a fetch failed, a  *)
(* notification was lost after the index had answered, or a stale hash     *)
(* masks the difference.                                                   *)
QuietMirror ==
  AtRest => \A d \in known : gap[d] # "none" \/ Has(d, text[d])

(* When no more fetches fail, a lost connection costs nothing for good: an *)
(* edit of a known document that was made before the listener dials again  *)
(* gets into the file, whatever became of its event.                       *)
ReconnectCatchesUp == \A d \in Docs, v \in Versions :
  (conn = "off" /\ process = "serving" /\ d \in known /\ text[d] = v
     /\ failures = MaxFailures)
    ~> (Has(d, v) \/ gap[d] \in {"unhydrated", "masked"})

(* "When users edit documents in Relay Server, the changes are reflected   *)
(* in the local file system": a change is not dropped while the file lacks *)
(* an edit whose event was coalesced into it.  The code breaks it.         *)
EventsAreFetched ==
  [][\A d \in known : SkipChange(d) \/ AdoptHead(d) => ~NewsLost(d)]_vars
==============================================================================
