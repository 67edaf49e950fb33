----------------------------- MODULE ChangeQueue -----------------------------
(***************************************************************************)
(* The operations queue (operations_queue.py): listener threads and the    *)
(* webhook handler enqueue change notifications, one worker thread takes   *)
(* them.  The payload lives in a dictionary with at most one entry per     *)
(* resource, guarded by a lock; the queue only carries the resource's key. *)
(* The key is put AFTER the lock is released and only by the call that     *)
(* created the entry, so between those two steps the entry has no token.   *)
(***************************************************************************)
EXTENDS Naturals, Sequences, FiniteSets

CONSTANTS
  Keys,        \* (relay_id, resource_id) pairs
  Producers,   \* threads that call the enqueue methods
  NoKey,       \* a producer that is not inside a put
  SyncRequest, \* the token of a whole SyncRequest, which has no dictionary entry
  WaitModes,   \* how the waiter calls wait_for_empty_queue: "join", "poll"
  MaxNotes,    \* bound: change notifications in a behaviour
  MaxSyncs     \* bound: SyncRequests in a behaviour

ASSUME QueueAssumption ==
  /\ NoKey \notin Keys
  /\ SyncRequest \notin Keys
  /\ MaxNotes \in Nat /\ MaxSyncs \in Nat
  /\ WaitModes \subseteq {"join", "poll"}

VARIABLES
  notes,       \* history: the kind of every notification, in the order of the merges
  changes,     \* _document_changes: the coalesced change of each key
  queue,       \* request_queue
  unfinished,  \* request_queue.unfinished_tasks
  producer,    \* producer[p]: the key p must still put, or NoKey
  worker,      \* the worker thread: where it is, and with which token
  handed,      \* history: the last change of each key given to the sync engine
  syncs,       \* number of SyncRequests enqueued
  waiter       \* a caller of wait_for_empty_queue

vars == <<notes, changes, queue, unfinished, producer, worker, handed, syncs,
          waiter>>

Inbox == INSTANCE ChangeInbox
           WITH waiting <- [k \in Keys |-> changes[k].covers]

Kinds   == Inbox!Kinds
NoteIds == 1 .. MaxNotes
Tokens  == Keys \cup {SyncRequest}

(* A coalesced change: the notifications it covers, the notification its   *)
(* index head came with (0: no head), and the kind of that notification,   *)
(* "adopt" when baseline_only is set.                                      *)
Changes == [covers : SUBSET NoteIds, head : 0 .. MaxNotes, kind : Kinds]

(* No entry in the dictionary; a present entry covers some notification.   *)
NoChange == [covers |-> {}, head |-> 0, kind |-> "event"]
Queued(k) == changes[k].covers # {}

(* The call's own data; the index head is identified by its notification.  *)
Incoming(n, kind) ==
  [covers |-> {n}, head |-> IF kind = "event" THEN 0 ELSE n, kind |-> kind]

(* Mutant of Merged: the flag always comes from the new notification. *)
MergedKeepingHeadOnly(existing, new) ==
  [covers |-> existing.covers \cup new.covers,
   head   |-> IF new.head = 0 THEN existing.head ELSE new.head,
   kind   |-> new.kind]

(* {**existing, **change_data}, with the head and the flag of the existing *)
(* entry kept when the new notification brings no head of its own.         *)
Merged(existing, new) ==
  [covers |-> existing.covers \cup new.covers,
   head   |-> IF new.head = 0 THEN existing.head ELSE new.head,
   kind   |-> IF new.head = 0 THEN existing.kind ELSE new.kind]

Idle == [pc |-> "idle", token |-> NoKey, covers |-> {}]

------------------------------------------------------------------------------

Init ==
  /\ notes = <<>>
  /\ changes = [k \in Keys |-> NoChange]
  /\ queue = <<>>
  /\ unfinished = 0
  /\ producer = [p \in Producers |-> NoKey]
  /\ worker = Idle
  /\ handed = [k \in Keys |-> NoChange]
  /\ syncs = 0
  /\ waiter = "away"

(* Mutant of EnqueueDocumentChange: the entry is looked up after it was    *)
(* stored, so every call believes it was coalesced.                        *)
EnqueueNeverPuts(p, k, kind) ==
  /\ producer[p] = NoKey
  /\ Len(notes) < MaxNotes
  /\ notes' = Append(notes, kind)
  /\ changes' = [changes EXCEPT ![k] = Merged(@, Incoming(Len(notes) + 1, kind))]
  /\ UNCHANGED <<queue, unfinished, producer, worker, handed, syncs, waiter>>

(* Mutant of EnqueueDocumentChange: no early return for a coalesced call. *)
EnqueueAlwaysPuts(p, k, kind) ==
  /\ producer[p] = NoKey
  /\ Len(notes) < MaxNotes
  /\ notes' = Append(notes, kind)
  /\ changes' = [changes EXCEPT ![k] = Merged(@, Incoming(Len(notes) + 1, kind))]
  /\ producer' = [producer EXCEPT ![p] = k]
  /\ UNCHANGED <<queue, unfinished, worker, handed, syncs, waiter>>

(* enqueue_document_change up to the release of the lock: a call that      *)
(* finds an entry coalesces into it and returns, the others go on to put.  *)
EnqueueDocumentChange(p, k, kind) ==
  LET n == Len(notes) + 1 IN
  /\ producer[p] = NoKey
  /\ Len(notes) < MaxNotes
  /\ notes' = Append(notes, kind)
  /\ changes' = [changes EXCEPT ![k] = Merged(@, Incoming(n, kind))]
  /\ producer' = [producer EXCEPT ![p] = IF Queued(k) THEN NoKey ELSE k]
  /\ UNCHANGED <<queue, unfinished, worker, handed, syncs, waiter>>

(* request_queue.put((DOCUMENT_CHANGE, key)) *)
PutToken(p) ==
  /\ producer[p] # NoKey
  /\ queue' = Append(queue, producer[p])
  /\ unfinished' = unfinished + 1
  /\ producer' = [producer EXCEPT ![p] = NoKey]
  /\ UNCHANGED <<notes, changes, worker, handed, syncs, waiter>>

EnqueueSyncRequest(p) ==
  /\ producer[p] = NoKey
  /\ syncs < MaxSyncs
  /\ syncs' = syncs + 1
  /\ queue' = Append(queue, SyncRequest)
  /\ unfinished' = unfinished + 1
  /\ UNCHANGED <<notes, changes, producer, worker, handed, waiter>>

(* request_queue.get: the worker holds a token *)
GetToken ==
  /\ worker.pc = "idle"
  /\ queue # <<>>
  /\ queue' = Tail(queue)
  /\ worker' = [pc     |-> IF Head(queue) = SyncRequest THEN "process" ELSE "take",
                token  |-> Head(queue),
                covers |-> {}]
  /\ UNCHANGED <<notes, changes, unfinished, producer, handed, syncs, waiter>>

(* Mutant of TakeDocumentChange: the entry is read and left in place. *)
TakeWithoutPop ==
  /\ worker.pc = "take"
  /\ worker' = [worker EXCEPT !.pc = "process", !.covers = changes[worker.token].covers]
  /\ handed' = [handed EXCEPT ![worker.token] = changes[worker.token]]
  /\ UNCHANGED <<notes, changes, queue, unfinished, producer, syncs, waiter>>

(* _take_document_change: pop(key, None).  With no entry the worker has    *)
(* nothing to process; otherwise the change goes to the sync engine.       *)
TakeDocumentChange ==
  LET k == worker.token IN
  /\ worker.pc = "take"
  /\ worker' = [worker EXCEPT !.pc = "process", !.covers = changes[k].covers]
  /\ handed' = IF Queued(k) THEN [handed EXCEPT ![k] = changes[k]] ELSE handed
  /\ changes' = [changes EXCEPT ![k] = NoChange]
  /\ UNCHANGED <<notes, queue, unfinished, producer, syncs, waiter>>

(* Mutant of FinishTask: task_done is skipped when the engine raises. *)
FinishWithoutFinally ==
  /\ worker.pc = "process"
  /\ unfinished' \in {unfinished - 1, unfinished}
  /\ worker' = Idle
  /\ UNCHANGED <<notes, changes, queue, producer, handed, syncs, waiter>>

(* Mutant of FinishTask: task_done once after the call and once in finally. *)
FinishTwice ==
  /\ worker.pc = "process"
  /\ unfinished' = unfinished - 2
  /\ worker' = Idle
  /\ UNCHANGED <<notes, changes, queue, producer, handed, syncs, waiter>>

(* The engine returns or raises; either way task_done runs and the loop    *)
(* goes on.                                                                *)
FinishTask ==
  /\ worker.pc = "process"
  /\ unfinished' = unfinished - 1
  /\ worker' = Idle
  /\ UNCHANGED <<notes, changes, queue, producer, handed, syncs, waiter>>

------------------------------------------------------------------------------
(* wait_for_empty_queue *)

StartWaiting(mode) ==
  /\ waiter = "away"
  /\ waiter' = mode
  /\ UNCHANGED <<notes, changes, queue, unfinished, producer, worker, handed, syncs>>

(* Mutant of JoinReturns: the queue is looked at, not the unfinished tasks. *)
JoinOnEmptyQueue ==
  /\ waiter = "join"
  /\ queue = <<>>
  /\ waiter' = "drained"
  /\ UNCHANGED <<notes, changes, queue, unfinished, producer, worker, handed, syncs>>

(* No timeout: queue.Queue.join, released when no task is unfinished.      *)
JoinReturns ==
  /\ waiter = "join"
  /\ unfinished = 0
  /\ waiter' = "drained"
  /\ UNCHANGED <<notes, changes, queue, unfinished, producer, worker, handed, syncs>>

(* A timeout: the loop ends with True when queue.empty() ...               *)
PollReturns ==
  /\ waiter = "poll"
  /\ queue = <<>>
  /\ waiter' = "drained"
  /\ UNCHANGED <<notes, changes, queue, unfinished, producer, worker, handed, syncs>>

(* ... and with False when the time is up before that.                     *)
PollTimesOut ==
  /\ waiter = "poll"
  /\ queue # <<>>
  /\ waiter' = "expired"
  /\ UNCHANGED <<notes, changes, queue, unfinished, producer, worker, handed, syncs>>

Producing == \E p \in Producers :
  \/ \E k \in Keys, kind \in Kinds : EnqueueDocumentChange(p, k, kind)
  \/ PutToken(p)
  \/ EnqueueSyncRequest(p)

Working == GetToken \/ TakeDocumentChange \/ FinishTask

Waiting ==
  \/ \E mode \in WaitModes : StartWaiting(mode)
  \/ JoinReturns
  \/ PollReturns
  \/ PollTimesOut

Next == Producing \/ Working \/ Waiting

(* A thread that has left the lock goes on to put, and the worker's loop   *)
(* never stops: every engine call returns or raises.  Nothing obliges a    *)
(* producer to call, or a waiter to wait.                                  *)
Fairness ==
  /\ \A p \in Producers : WF_vars(PutToken(p))
  /\ WF_vars(Working)

Spec == Init /\ [][Next]_vars
FairSpec == Spec /\ Fairness

------------------------------------------------------------------------------

(* Every variable keeps its type. *)
TypeOK ==
  /\ notes \in Seq(Kinds) /\ Len(notes) <= MaxNotes
  /\ changes \in [Keys -> Changes]
  /\ queue \in Seq(Tokens)
  /\ unfinished \in Nat
  /\ producer \in [Producers -> Keys \cup {NoKey}]
  /\ worker \in [pc : {"idle", "take", "process"},
                 token : Tokens \cup {NoKey}, covers : SUBSET NoteIds]
  /\ handed \in [Keys -> Changes]
  /\ syncs \in 0 .. MaxSyncs
  /\ waiter \in {"away", "join", "poll", "drained", "expired"}

(* The three places where the token of k can be. *)
InPut(k, p) == producer[p] = k
InQueue(k, i) == queue[i] = k
InWorker(k) == worker.pc = "take" /\ worker.token = k

Places == 1 .. Len(queue)

HasToken(k) ==
  \/ \E p \in Producers : InPut(k, p)
  \/ \E i \in Places : InQueue(k, i)
  \/ InWorker(k)

OneToken(k) ==
  /\ \A p, q \in Producers : InPut(k, p) /\ InPut(k, q) => p = q
  /\ \A i, j \in Places : InQueue(k, i) /\ InQueue(k, j) => i = j
  /\ \A p \in Producers : InPut(k, p) =>
       ~InWorker(k) /\ \A i \in Places : ~InQueue(k, i)
  /\ InWorker(k) => \A i \in Places : ~InQueue(k, i)

(* An entry of the dictionary has a token somewhere, and a token has an    *)
(* entry: nothing is stranded and the worker never takes an empty entry.   *)
EntryHasToken == \A k \in Keys : Queued(k) <=> HasToken(k)

(* The token of a key is in one place only: while it is on its way no      *)
(* other call puts a second one, so a key is never processed twice for one *)
(* entry.                                                                  *)
SingleToken == \A k \in Keys : OneToken(k)

(* join's counter is the tokens in the queue plus the one being worked on. *)
UnfinishedCount ==
  unfinished = Len(queue) + (IF worker.pc = "idle" THEN 0 ELSE 1)

(* What an entry covers are accepted notifications, and its head and flag  *)
(* are those of the newest index notification it covers: a plain event     *)
(* that arrives later never erases the head it was coalesced with.         *)
EntriesSummarize == \A k \in Keys :
  /\ changes[k].covers \subseteq 1 .. Len(notes)
  /\ changes[k] = Inbox!Summary(changes[k].covers)

(* The unprocessed notifications. *)
Unprocessed == worker.covers \cup UNION {changes[k].covers : k \in Keys}

(* The queue hands over what the abstract inbox would, in the same pieces, *)
(* and under the same liveness promise.                                    *)
ImplementsInbox == Inbox!InboxSpec

(* Every notification that is accepted is eventually processed. *)
EveryNoteProcessed ==
  \A n \in NoteIds : (n \in Unprocessed) ~> (n \notin Unprocessed)

InsidePut(n) == \E p \in Producers :
  producer[p] # NoKey /\ n \in changes[producer[p]].covers

(* When a waiter is told the queue is drained, an unprocessed notification *)
(* is still held by a producer inside put, or, for the waiter with a       *)
(* timeout, by the worker; it is never left behind in the queue.           *)
CleanReturn ==
  JoinReturns \/ PollReturns =>
    \A n \in Unprocessed : InsidePut(n) \/ (PollReturns /\ worker.pc # "idle")

ReturnLeavesOnlyPuts == [][CleanReturn]_vars
==============================================================================
