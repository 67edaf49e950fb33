-------------------------- MODULE ChangeQueueProofs --------------------------
(***************************************************************************)
(* Proofs about the operations queue, for any number of keys, producers    *)
(* and notifications.                                                      *)
(***************************************************************************)
EXTENDS ChangeQueue, Extrema, TLAPS

(* The worker is about to take only what a key token told it to take. *)
TakesAKey == worker.pc = "take" => worker.token \in Keys

(* TypeOK is not inductive: that unfinished stays a natural number when a  *)
(* task is done rests on the count of the tasks.                           *)
CountInv == TypeOK /\ TakesAKey /\ UnfinishedCount

(* The token invariant: what EntryHasToken and SingleToken say of one key. *)
TokenInv == CountInv /\ EntryHasToken /\ SingleToken

------------------------------------------------------------------------------

(* A merged entry covers what the existing one did and the new             *)
(* notification, so it is never empty.                                     *)
LEMMA MergedType ==
  ASSUME NEW old \in Changes, NEW n \in NoteIds, NEW kind \in Kinds
  PROVE  /\ Merged(old, Incoming(n, kind)) \in Changes
         /\ Merged(old, Incoming(n, kind)).covers = old.covers \cup {n}
BY QueueAssumption DEF Merged, Incoming, Changes, NoteIds, Kinds, Inbox!Kinds

LEMMA InitCount == Init => CountInv
BY QueueAssumption
DEF Init, CountInv, TypeOK, TakesAKey, UnfinishedCount, Idle, NoChange, Changes,
    Kinds, Inbox!Kinds, NoteIds, Tokens

LEMMA NextCount == CountInv /\ [Next]_vars => CountInv'
<1> SUFFICES ASSUME CountInv, [Next]_vars PROVE CountInv'
  OBVIOUS
<1> USE QueueAssumption DEF CountInv
<1>1. ASSUME NEW p \in Producers, NEW k \in Keys, NEW kind \in Kinds,
             EnqueueDocumentChange(p, k, kind)
      PROVE  CountInv'
  <2>1. Len(notes) + 1 \in NoteIds
    BY <1>1 DEF EnqueueDocumentChange, TypeOK, NoteIds
  <2>2. Merged(changes[k], Incoming(Len(notes) + 1, kind)) \in Changes
    BY <2>1, MergedType DEF TypeOK
  <2>3. changes' \in [Keys -> Changes]
    BY <1>1, <2>2 DEF EnqueueDocumentChange, TypeOK
  <2>4. notes' \in Seq(Kinds) /\ Len(notes') <= MaxNotes
    BY <1>1 DEF EnqueueDocumentChange, TypeOK
  <2>5. producer' \in [Producers -> Keys \cup {NoKey}]
    BY <1>1 DEF EnqueueDocumentChange, TypeOK
  <2>6. UNCHANGED <<queue, unfinished, worker, handed, syncs, waiter>>
    BY <1>1 DEF EnqueueDocumentChange
  <2> QED BY <2>3, <2>4, <2>5, <2>6 DEF TypeOK, TakesAKey, UnfinishedCount
<1>2. ASSUME NEW p \in Producers, PutToken(p)
      PROVE  CountInv'
  BY <1>2 DEF PutToken, TypeOK, TakesAKey, UnfinishedCount, Tokens
<1>3. ASSUME NEW p \in Producers, EnqueueSyncRequest(p)
      PROVE  CountInv'
  BY <1>3 DEF EnqueueSyncRequest, TypeOK, TakesAKey, UnfinishedCount, Tokens
<1>4. CASE GetToken
  <2>1. /\ Head(queue) \in Tokens
        /\ queue' \in Seq(Tokens)
        /\ Len(queue') = Len(queue) - 1
    BY <1>4 DEF GetToken, TypeOK
  <2>2. /\ worker' \in [pc : {"idle", "take", "process"},
                        token : Tokens \cup {NoKey}, covers : SUBSET NoteIds]
        /\ worker'.pc # "idle"
        /\ worker'.pc = "take" => worker'.token \in Keys
    BY <1>4, <2>1 DEF GetToken, Tokens
  <2> QED BY <1>4, <2>1, <2>2 DEF GetToken, TypeOK, TakesAKey, UnfinishedCount
<1>5. CASE TakeDocumentChange
  <2>1. worker.token \in Keys /\ changes[worker.token] \in Changes
    BY <1>5 DEF TakeDocumentChange, TypeOK, TakesAKey
  <2>2. NoChange \in Changes
    BY DEF NoChange, Changes, NoteIds, Kinds, Inbox!Kinds
  <2>3. changes' \in [Keys -> Changes] /\ handed' \in [Keys -> Changes]
    BY <1>5, <2>1, <2>2 DEF TakeDocumentChange, TypeOK
  <2>4. /\ worker' \in [pc : {"idle", "take", "process"},
                        token : Tokens \cup {NoKey}, covers : SUBSET NoteIds]
        /\ worker'.pc = "process"
    BY <1>5, <2>1 DEF TakeDocumentChange, TypeOK, Changes
  <2>5. UNCHANGED <<notes, queue, unfinished, producer, syncs, waiter>>
    BY <1>5 DEF TakeDocumentChange
  <2> QED
    BY <1>5, <2>3, <2>4, <2>5
    DEF TakeDocumentChange, TypeOK, TakesAKey, UnfinishedCount
<1>6. CASE FinishTask
  BY <1>6 DEF FinishTask, TypeOK, TakesAKey, UnfinishedCount, Idle
<1>7. CASE Waiting
  <2>1. /\ UNCHANGED <<notes, changes, queue, unfinished, producer, worker, handed, syncs>>
        /\ waiter' \in WaitModes \/ waiter' \in {"drained", "expired"}
    BY <1>7 DEF Waiting, StartWaiting, JoinReturns, PollReturns, PollTimesOut
  <2> QED BY <2>1, QueueAssumption DEF TypeOK, TakesAKey, UnfinishedCount
<1>8. CASE UNCHANGED vars
  BY <1>8 DEF vars, TypeOK, TakesAKey, UnfinishedCount
<1> QED
  BY <1>1, <1>2, <1>3, <1>4, <1>5, <1>6, <1>7, <1>8 DEF Next, Producing, Working

(* Every variable keeps its type, and join's counter counts the tokens in  *)
(* the queue and in the worker.                                            *)
THEOREM TypeCorrect == Spec => [](TypeOK /\ UnfinishedCount)
<1>1. CountInv => TypeOK /\ UnfinishedCount
  BY DEF CountInv
<1> QED BY <1>1, InitCount, NextCount, PTL DEF Spec

------------------------------------------------------------------------------

LEMMA InitToken == Init => EntryHasToken /\ SingleToken
BY QueueAssumption
DEF Init, EntryHasToken, SingleToken, HasToken, OneToken, InPut, InQueue, InWorker,
    Places, Queued, NoChange, Idle

LEMMA NextToken == TokenInv /\ [Next]_vars => EntryHasToken' /\ SingleToken'
<1> SUFFICES ASSUME TokenInv, [Next]_vars, NEW k \in Keys
             PROVE  (Queued(k) <=> HasToken(k))' /\ OneToken(k)'
  BY DEF EntryHasToken, SingleToken
<1> USE QueueAssumption
<1> DEFINE Here == Queued(k) <=> HasToken(k)
<1>k. TypeOK /\ TakesAKey /\ Here /\ OneToken(k)
  BY DEF TokenInv, CountInv, EntryHasToken, SingleToken
<1>1. ASSUME NEW p \in Producers, NEW key \in Keys, NEW kind \in Kinds,
             EnqueueDocumentChange(p, key, kind)
      PROVE  Here' /\ OneToken(k)'
  <2>1. Len(notes) + 1 \in NoteIds
    BY <1>1, <1>k DEF EnqueueDocumentChange, TypeOK, NoteIds
  <2>2. changes'[key].covers = changes[key].covers \cup {Len(notes) + 1}
    BY <1>1, <1>k, <2>1, MergedType DEF EnqueueDocumentChange, TypeOK
  <2>3. Queued(key)' /\ (k # key => (Queued(k)' <=> Queued(k)))
    BY <1>1, <1>k, <2>2 DEF EnqueueDocumentChange, TypeOK, Queued
  <2>4. \A q \in Producers : producer'[q] = IF q = p /\ ~Queued(key) THEN key ELSE producer[q]
    BY <1>1, <1>k DEF EnqueueDocumentChange, TypeOK
  <2>5. UNCHANGED <<queue, worker>>
    BY <1>1 DEF EnqueueDocumentChange
  <2>6. producer[p] = NoKey
    BY <1>1 DEF EnqueueDocumentChange
  <2> QED
    BY <1>k, <2>3, <2>4, <2>5, <2>6
    DEF HasToken, OneToken, InPut, InQueue, InWorker, Places
<1>2. ASSUME NEW p \in Producers, PutToken(p)
      PROVE  Here' /\ OneToken(k)'
  <2>1. /\ Len(queue') = Len(queue) + 1
        /\ \A i \in Places : queue'[i] = queue[i]
        /\ queue'[Len(queue) + 1] = producer[p]
        /\ Len(queue) \in Nat
    BY <1>2, <1>k DEF PutToken, TypeOK, Places, Tokens
  <2>2. /\ \A q \in Producers : producer'[q] = IF q = p THEN NoKey ELSE producer[q]
        /\ UNCHANGED <<changes, worker>>
    BY <1>2, <1>k DEF PutToken, TypeOK
  <2>3. Places' = Places \cup {Len(queue) + 1}
    BY <2>1 DEF Places
  <2> QED
    BY <1>k, <2>1, <2>2, <2>3
    DEF HasToken, OneToken, InPut, InQueue, InWorker, Queued
<1>3. ASSUME NEW p \in Producers, EnqueueSyncRequest(p)
      PROVE  Here' /\ OneToken(k)'
  <2>1. /\ Len(queue') = Len(queue) + 1
        /\ \A i \in Places : queue'[i] = queue[i]
        /\ queue'[Len(queue) + 1] = SyncRequest
        /\ Len(queue) \in Nat
    BY <1>3, <1>k DEF EnqueueSyncRequest, TypeOK, Places, Tokens
  <2>2. Places' = Places \cup {Len(queue) + 1}
    BY <2>1 DEF Places
  <2>3. UNCHANGED <<changes, producer, worker>>
    BY <1>3 DEF EnqueueSyncRequest
  <2> QED
    BY <1>k, <2>1, <2>2, <2>3
    DEF HasToken, OneToken, InPut, InQueue, InWorker, Queued
<1>4. CASE GetToken
  <2>1. /\ Len(queue) \in Nat /\ Len(queue) # 0
        /\ Len(queue') = Len(queue) - 1
        /\ \A i \in 1 .. (Len(queue) - 1) : queue'[i] = queue[i + 1]
        /\ Head(queue) = queue[1]
    BY <1>4, <1>k DEF GetToken, TypeOK
  <2>2. /\ worker.pc = "idle"
        /\ InWorker(k)' <=> queue[1] = k
        /\ UNCHANGED <<changes, producer>>
    BY <1>4, <2>1 DEF GetToken, InWorker
  <2>3. \A i \in Places' : i + 1 \in Places /\ i + 1 # 1 /\ queue'[i] = queue[i + 1]
    BY <2>1 DEF Places
  <2>4. \A j \in Places : j = 1 \/ (j - 1 \in Places' /\ queue'[j - 1] = queue[j])
    BY <2>1 DEF Places
  <2>5. 1 \in Places
    BY <2>1 DEF Places
  <2>6. HasToken(k)' <=> HasToken(k)
    BY <2>2, <2>3, <2>4, <2>5 DEF HasToken, InPut, InQueue, InWorker
  <2>7. OneToken(k)'
    <3>1. \A i, j \in Places' : InQueue(k, i)' /\ InQueue(k, j)' => i = j
      BY <1>k, <2>1, <2>3 DEF OneToken, InQueue, Places
    <3> QED
      BY <1>k, <2>2, <2>3, <2>5, <3>1 DEF OneToken, InPut, InQueue, InWorker
  <2> QED BY <1>k, <2>2, <2>6, <2>7 DEF Queued
<1>5. CASE TakeDocumentChange
  <2>1. /\ worker.pc = "take" /\ worker.token \in Keys
        /\ worker'.pc = "process"
        /\ UNCHANGED <<queue, producer>>
    BY <1>5, <1>k DEF TakeDocumentChange, TypeOK, TakesAKey
  <2>2. /\ changes'[worker.token] = NoChange
        /\ k # worker.token => changes'[k] = changes[k]
    BY <1>5, <1>k, <2>1 DEF TakeDocumentChange, TypeOK
  <2> QED
    BY <1>k, <2>1, <2>2
    DEF HasToken, OneToken, InPut, InQueue, InWorker, Places, Queued, NoChange
<1>6. CASE FinishTask
  BY <1>6, <1>k
  DEF FinishTask, HasToken, OneToken, InPut, InQueue, InWorker, Places, Queued, Idle
<1>7. CASE Waiting
  <2>1. UNCHANGED <<changes, queue, producer, worker>>
    BY <1>7 DEF Waiting, StartWaiting, JoinReturns, PollReturns, PollTimesOut
  <2> QED
    BY <1>k, <2>1 DEF HasToken, OneToken, InPut, InQueue, InWorker, Places, Queued
<1>8. CASE UNCHANGED vars
  BY <1>8, <1>k
  DEF vars, HasToken, OneToken, InPut, InQueue, InWorker, Places, Queued
<1> QED
  BY <1>1, <1>2, <1>3, <1>4, <1>5, <1>6, <1>7, <1>8 DEF Next, Producing, Working

LEMMA TokenInvariant == Spec => []TokenInv
<1>1. Init => TokenInv
  BY InitCount, InitToken DEF TokenInv
<1>2. TokenInv /\ [Next]_vars => TokenInv'
  BY NextCount, NextToken DEF TokenInv
<1> QED BY <1>1, <1>2, PTL DEF Spec

(* Every entry of the dictionary has exactly one token, wherever the       *)
(* threads are, and every token has its entry.                             *)
THEOREM TokensMatchEntries == Spec => [](EntryHasToken /\ SingleToken)
<1>1. TokenInv => EntryHasToken /\ SingleToken
  BY DEF TokenInv
<1> QED BY <1>1, TokenInvariant, PTL

(* A key is never in two places on its way to the worker, whichever        *)
(* producers and the worker run between the lock and the put.              *)
THEOREM OneTokenPerKey == Spec => []SingleToken
BY TokensMatchEntries, PTL

(* join's counter, which only put and task_done change, is the number of   *)
(* tokens queued and in work.                                              *)
THEOREM JoinCounts == Spec => []UnfinishedCount
BY TypeCorrect, PTL

------------------------------------------------------------------------------

(* Only a worker that is processing holds notifications. *)
IdleHoldsNothing == worker.pc # "process" => worker.covers = {}

LEMMA HoldsInvariant == Spec => []IdleHoldsNothing
<1>1. Init => IdleHoldsNothing
  BY DEF Init, IdleHoldsNothing, Idle
<1>2. TokenInv /\ IdleHoldsNothing /\ [Next]_vars => IdleHoldsNothing'
  <2> SUFFICES ASSUME TokenInv, IdleHoldsNothing, [Next]_vars
               PROVE  IdleHoldsNothing'
    OBVIOUS
  <2>1. CASE UNCHANGED worker
    BY <2>1 DEF IdleHoldsNothing
  <2>2. CASE GetToken
    BY <2>2 DEF GetToken, IdleHoldsNothing
  <2>3. CASE TakeDocumentChange
    BY <2>3 DEF TakeDocumentChange, IdleHoldsNothing, TokenInv, CountInv, TypeOK
  <2>4. CASE FinishTask
    BY <2>4 DEF FinishTask, IdleHoldsNothing, Idle
  <2>5. CASE Producing
    BY <2>1, <2>5 DEF Producing, EnqueueDocumentChange, PutToken, EnqueueSyncRequest
  <2>6. CASE Waiting
    BY <2>1, <2>6 DEF Waiting, StartWaiting, JoinReturns, PollReturns, PollTimesOut
  <2> QED
    BY <2>1, <2>2, <2>3, <2>4, <2>5, <2>6 DEF Next, Working, vars
<1> QED BY <1>1, <1>2, TokenInvariant, PTL DEF Spec

(* When wait_for_empty_queue returns True, what is unprocessed is held by  *)
(* a producer inside put, or by the worker when the call had a timeout.    *)
THEOREM WaitLeavesOnlyPuts == Spec => ReturnLeavesOnlyPuts
<1>1. TokenInv /\ IdleHoldsNothing => CleanReturn
  <2> SUFFICES ASSUME TokenInv, IdleHoldsNothing, JoinReturns \/ PollReturns,
                      NEW n \in Unprocessed
               PROVE  InsidePut(n) \/ (PollReturns /\ worker.pc # "idle")
    BY DEF CleanReturn
  <2>1. Len(queue) \in Nat /\ unfinished \in Nat
    BY DEF TokenInv, CountInv, TypeOK
  <2>2. CASE worker.pc # "idle"
    <3>1. ~JoinReturns
      BY <2>1, <2>2 DEF TokenInv, CountInv, UnfinishedCount, JoinReturns
    <3> QED BY <2>2, <3>1
  <2>3. CASE worker.pc = "idle"
    <3>1. Places = {}
      BY <2>1, <2>3 DEF TokenInv, CountInv, UnfinishedCount, JoinReturns, PollReturns, Places
    <3>2. PICK k \in Keys : n \in changes[k].covers
      BY <2>3 DEF Unprocessed, IdleHoldsNothing
    <3>3. HasToken(k)
      BY <3>2 DEF TokenInv, EntryHasToken, Queued
    <3>4. PICK p \in Producers : producer[p] = k
      BY <2>3, <3>1, <3>3 DEF HasToken, InPut, InWorker
    <3> QED BY <3>2, <3>4, QueueAssumption DEF InsidePut
  <2> QED BY <2>2, <2>3
<1> QED
  BY <1>1, TokenInvariant, HoldsInvariant, PTL DEF ReturnLeavesOnlyPuts

------------------------------------------------------------------------------
(* Merging is summarising. *)

(* The greatest of a set of notifications. *)
LEMMA MaxMeaning ==
  ASSUME NEW n \in Nat, NEW S \in SUBSET (1 .. n), S # {}
  PROVE  /\ Inbox!Max(S) \in S
         /\ \A y \in S : Inbox!Max(S) >= y
<1>1. S \in SUBSET (0 .. n)
  OBVIOUS
<1>2. \E x \in S : \A y \in S : x >= y
  BY <1>1, GreatestExists
<1> QED BY <1>2 DEF Inbox!Max

(* What was summarised stays so when notifications are appended. *)
LEMMA OldSummary ==
  ASSUME notes \in Seq(Kinds), NEW kind \in Kinds, notes' = Append(notes, kind),
         NEW S \in SUBSET (1 .. Len(notes))
  PROVE  /\ S \subseteq 1 .. Len(notes')
         /\ Inbox!Summary(S)' = Inbox!Summary(S)
         /\ Inbox!Heads(S)' = Inbox!Heads(S)
         /\ Inbox!Heads(S) # {} =>
              notes'[Inbox!Max(Inbox!Heads(S))] = notes[Inbox!Max(Inbox!Heads(S))]
<1>1. /\ Len(notes) \in Nat /\ Len(notes') = Len(notes) + 1
      /\ \A i \in 1 .. Len(notes) : notes'[i] = notes[i]
  OBVIOUS
<1>2. Inbox!Heads(S)' = Inbox!Heads(S)
  BY <1>1 DEF Inbox!Heads
<1> DEFINE H == Inbox!Heads(S)
           m == Inbox!Max(H)
<1>3. H # {} => notes'[m] = notes[m]
  <2> SUFFICES ASSUME H # {} PROVE notes'[m] = notes[m]
    OBVIOUS
  <2>1. H \in SUBSET (1 .. Len(notes))
    BY DEF Inbox!Heads
  <2>2. m \in 1 .. Len(notes)
    <3> HIDE DEF H
    <3> QED BY <2>1, <1>1, MaxMeaning
  <2> QED BY <2>2, <1>1
<1>4. Inbox!Summary(S)' =
        [covers |-> S, head |-> IF H' = {} THEN 0 ELSE Inbox!Max(H'),
         kind |-> IF H' = {} THEN "event" ELSE notes'[Inbox!Max(H')]]
  BY DEF Inbox!Summary
<1>5. Inbox!Summary(S) =
        [covers |-> S, head |-> IF H = {} THEN 0 ELSE Inbox!Max(H),
         kind |-> IF H = {} THEN "event" ELSE notes[Inbox!Max(H)]]
  BY DEF Inbox!Summary
<1>6. Inbox!Summary(S)' = Inbox!Summary(S)
  <2>1. H' = H
    BY <1>2
  <2> HIDE DEF H
  <2> QED BY <1>3, <1>4, <1>5, <2>1
<1>7. S \subseteq 1 .. Len(notes')
  <2>1. 1 .. Len(notes) \subseteq 1 .. Len(notes')
    BY <1>1
  <2> QED BY <2>1
<1> QED BY <1>2, <1>3, <1>6, <1>7

(* Merging a new notification into a summary gives the summary of both:     *)
(* the coalesced head is the newest one, with the flag it came with.        *)
LEMMA MergedSummary ==
  ASSUME notes \in Seq(Kinds), NEW kind \in Kinds, notes' = Append(notes, kind),
         NEW S \in SUBSET (1 .. Len(notes)), NEW n, n = Len(notes) + 1
  PROVE  Merged(Inbox!Summary(S), Incoming(n, kind)) = Inbox!Summary(S \cup {n})'
<1> DEFINE T == S \cup {n}
           H == Inbox!Heads(S)
           G == Inbox!Heads(T)'
<1>1. /\ Len(notes) \in Nat /\ Len(notes') = Len(notes) + 1 /\ notes'[n] = kind
      /\ \A i \in 1 .. Len(notes) : notes'[i] = notes[i]
  OBVIOUS
<1>2. G = IF kind = "event" THEN H ELSE H \cup {n}
  <2>1. \A i \in S : notes'[i] = notes[i]
    BY <1>1
  <2> QED BY <1>1, <2>1 DEF Inbox!Heads
<1>3. Inbox!Summary(T)' =
        [covers |-> T, head |-> IF G = {} THEN 0 ELSE Inbox!Max(G),
         kind |-> IF G = {} THEN "event" ELSE notes'[Inbox!Max(G)]]
  BY DEF Inbox!Summary
<1>4. Inbox!Summary(S) =
        [covers |-> S, head |-> IF H = {} THEN 0 ELSE Inbox!Max(H),
         kind |-> IF H = {} THEN "event" ELSE notes[Inbox!Max(H)]]
  BY DEF Inbox!Summary
<1>5. CASE kind = "event"
  <2>1. G = H
    BY <1>2, <1>5
  <2>2. Inbox!Summary(S)' = Inbox!Summary(S) /\ Inbox!Heads(S)' = H
    BY OldSummary
  <2>3. H # {} => notes'[Inbox!Max(H)] = notes[Inbox!Max(H)]
    BY OldSummary
  <2>4. Incoming(n, kind) = [covers |-> {n}, head |-> 0, kind |-> kind]
    BY <1>5 DEF Incoming
  <2> HIDE DEF H, G
  <2>5. PICK h, d : h = (IF H = {} THEN 0 ELSE Inbox!Max(H))
                    /\ d = (IF H = {} THEN "event" ELSE notes[Inbox!Max(H)])
    OBVIOUS
  <2>6. Inbox!Summary(S) = [covers |-> S, head |-> h, kind |-> d]
    BY <2>5, <1>4
  <2>7. Merged(Inbox!Summary(S), Incoming(n, kind)) = [covers |-> T, head |-> h, kind |-> d]
    <3>1. Merged([covers |-> S, head |-> h, kind |-> d], [covers |-> {n}, head |-> 0, kind |-> kind])
            = [covers |-> S \cup {n}, head |-> IF 0 = 0 THEN h ELSE 0,
               kind |-> IF 0 = 0 THEN d ELSE kind]
      BY DEF Merged
    <3> QED BY <2>4, <2>6, <3>1
  <2> QED BY <2>1, <2>3, <2>5, <2>7, <1>3
<1>6. CASE kind # "event"
  <2>1. G = H \cup {n}
    BY <1>2, <1>6
  <2>2. Inbox!Max(G) = n
    <3>1. G \in SUBSET (1 .. n) /\ n \in Nat /\ n \in G /\ G # {}
      <4>1. G \subseteq T
        BY DEF Inbox!Heads
      <4>2. T \subseteq 1 .. n /\ n \in Nat
        <5>1. S \subseteq 1 .. Len(notes)
          OBVIOUS
        <5>2. 1 .. Len(notes) \subseteq 1 .. n /\ n \in 1 .. n /\ n \in Nat
          BY <1>1
        <5> QED BY <5>1, <5>2
      <4> QED BY <2>1, <4>1, <4>2
    <3> HIDE DEF G
    <3>2. Inbox!Max(G) \in G /\ \A y \in G : Inbox!Max(G) >= y
      BY <3>1, MaxMeaning
    <3>3. Inbox!Max(G) \in 1 .. n /\ Inbox!Max(G) >= n
      BY <3>1, <3>2
    <3> QED BY <3>1, <3>3
  <2>3. Incoming(n, kind) = [covers |-> {n}, head |-> n, kind |-> kind] /\ n # 0
    BY <1>1, <1>6 DEF Incoming
  <2>4. Merged(Inbox!Summary(S), Incoming(n, kind)) = [covers |-> T, head |-> n, kind |-> kind]
    <3>1. PICK h, d : Inbox!Summary(S) = [covers |-> S, head |-> h, kind |-> d]
      BY <1>4
    <3>2. Merged([covers |-> S, head |-> h, kind |-> d], [covers |-> {n}, head |-> n, kind |-> kind])
            = [covers |-> S \cup {n}, head |-> IF n = 0 THEN h ELSE n,
               kind |-> IF n = 0 THEN d ELSE kind]
      BY DEF Merged
    <3> QED BY <2>3, <3>1, <3>2
  <2>5. G # {}
    BY <2>1
  <2> HIDE DEF H, G
  <2> QED BY <2>2, <2>4, <2>5, <1>1, <1>3
<1> QED BY <1>5, <1>6

(* No entry is the summary of nothing. *)
LEMMA NoSummary == NoChange = Inbox!Summary({})
BY DEF NoChange, Inbox!Summary, Inbox!Heads

(* The summary of an entry, when the notifications it will cover are known. *)
LEMMA SummaryOf ==
  ASSUME NEW k \in Keys, NEW S, changes'[k].covers = S
  PROVE  Inbox!Summary(changes[k].covers)' = Inbox!Summary(S)'
BY DEF Inbox!Summary, Inbox!Heads

LEMMA NextSummary == CountInv /\ EntriesSummarize /\ [Next]_vars => EntriesSummarize'
<1> SUFFICES ASSUME CountInv, EntriesSummarize, [Next]_vars, NEW k \in Keys
             PROVE  /\ changes'[k].covers \subseteq 1 .. Len(notes')
                    /\ changes'[k] = Inbox!Summary(changes[k].covers)'
  BY DEF EntriesSummarize
<1> DEFINE Here == /\ changes'[k].covers \subseteq 1 .. Len(notes')
                   /\ changes'[k] = Inbox!Summary(changes[k].covers)'
<1>k. TypeOK /\ TakesAKey /\ notes \in Seq(Kinds) /\ changes \in [Keys -> Changes]
  BY DEF CountInv, TypeOK
<1>e. PICK S \in SUBSET (1 .. Len(notes)) :
        S = changes[k].covers /\ changes[k] = Inbox!Summary(S)
  BY DEF EntriesSummarize
<1>same. ASSUME UNCHANGED <<notes, changes>> PROVE Here
  <2>1. Inbox!Summary(changes[k].covers)' = Inbox!Summary(changes[k].covers)
    BY <1>same DEF Inbox!Summary, Inbox!Heads
  <2> QED BY <1>same, <1>e, <2>1
<1>1. ASSUME NEW p \in Producers, NEW key \in Keys, NEW kind \in Kinds,
             EnqueueDocumentChange(p, key, kind)
      PROVE  Here
  <2>1. /\ notes' = Append(notes, kind)
        /\ changes' = [changes EXCEPT ![key] = Merged(changes[key], Incoming(Len(notes) + 1, kind))]
    BY <1>1 DEF EnqueueDocumentChange
  <2>2. Len(notes) \in Nat /\ Len(notes') = Len(notes) + 1
    BY <1>k, <2>1
  <2>3. CASE k # key
    <3>1. changes'[k] = changes[k]
      BY <1>k, <2>1, <2>3
    <3>2. S \subseteq 1 .. Len(notes') /\ Inbox!Summary(S)' = Inbox!Summary(S)
      BY <1>k, <2>1, OldSummary
    <3>3. Inbox!Summary(changes[k].covers)' = Inbox!Summary(S)'
      BY <3>1, <1>e, SummaryOf
    <3> QED BY <3>1, <3>2, <3>3, <1>e
  <2>4. CASE k = key
    <3>1. PICK n : n = Len(notes) + 1
      OBVIOUS
    <3>2. changes'[k] = Merged(Inbox!Summary(S), Incoming(n, kind))
      BY <1>k, <1>e, <2>1, <2>4, <3>1
    <3>3. changes'[k] = Inbox!Summary(S \cup {n})'
      BY <1>k, <2>1, <3>1, <3>2, MergedSummary
    <3>4. changes'[k].covers = S \cup {n}
      BY <3>3 DEF Inbox!Summary
    <3>5. Inbox!Summary(changes[k].covers)' = Inbox!Summary(S \cup {n})'
      BY <3>4, SummaryOf
    <3>6. S \cup {n} \subseteq 1 .. Len(notes')
      <4>1. S \subseteq 1 .. Len(notes)
        OBVIOUS
      <4>2. 1 .. Len(notes) \subseteq 1 .. Len(notes') /\ n \in 1 .. Len(notes')
        BY <2>2, <3>1
      <4> QED BY <4>1, <4>2
    <3> QED BY <3>3, <3>4, <3>5, <3>6
  <2> QED BY <2>3, <2>4
<1>2. ASSUME NEW p \in Producers, PutToken(p) \/ EnqueueSyncRequest(p)
      PROVE  Here
  BY <1>2, <1>same DEF PutToken, EnqueueSyncRequest
<1>3. CASE TakeDocumentChange
  <2>1. /\ notes' = notes
        /\ changes' = [changes EXCEPT ![worker.token] = NoChange]
    BY <1>3 DEF TakeDocumentChange
  <2>2. CASE k = worker.token
    <3>1. changes'[k] = NoChange /\ changes'[k].covers = {}
      BY <1>k, <2>1, <2>2 DEF NoChange
    <3>2. Inbox!Summary(changes[k].covers)' = Inbox!Summary({})'
      BY <3>1, SummaryOf
    <3>3. NoChange = Inbox!Summary({})'
      BY DEF NoChange, Inbox!Summary, Inbox!Heads
    <3> QED BY <3>1, <3>2, <3>3
  <2>3. CASE k # worker.token
    <3>1. changes'[k] = changes[k]
      BY <1>k, <2>1, <2>3
    <3>2. Inbox!Summary(changes[k].covers)' = Inbox!Summary(S)'
      BY <3>1, <1>e, SummaryOf
    <3>3. Inbox!Summary(S)' = Inbox!Summary(S)
      BY <2>1 DEF Inbox!Summary, Inbox!Heads
    <3> QED BY <3>1, <3>2, <3>3, <1>e, <2>1
  <2> QED BY <2>2, <2>3
<1>4. CASE GetToken \/ FinishTask
  BY <1>4, <1>same DEF GetToken, FinishTask
<1>5. CASE Waiting
  BY <1>5, <1>same DEF Waiting, StartWaiting, JoinReturns, PollReturns, PollTimesOut
<1>6. CASE UNCHANGED vars
  BY <1>6, <1>same DEF vars
<1> QED BY <1>1, <1>2, <1>3, <1>4, <1>5, <1>6 DEF Next, Producing, Working

LEMMA InitSummary == Init => EntriesSummarize
<1> SUFFICES ASSUME Init, NEW k \in Keys
             PROVE  /\ changes[k].covers \subseteq 1 .. Len(notes)
                    /\ changes[k] = Inbox!Summary(changes[k].covers)
  BY DEF EntriesSummarize
<1>1. changes[k] = NoChange /\ changes[k].covers = {}
  BY DEF Init, NoChange
<1> QED BY <1>1, NoSummary

(* The entry of a resource is always the summary of what was merged into it: *)
(* it covers accepted notifications only, and its head and its flag are those *)
(* of the newest index notification among them, in whatever order plain      *)
(* events and index heads arrived (enqueue_document_change).               *)
THEOREM EntriesAreSummaries == Spec => []EntriesSummarize
<1>1. Init => CountInv /\ EntriesSummarize
  BY InitCount, InitSummary
<1>2. (CountInv /\ EntriesSummarize) /\ [Next]_vars => (CountInv /\ EntriesSummarize)'
  BY NextCount, NextSummary
<1> QED BY <1>1, <1>2, PTL DEF Spec

------------------------------------------------------------------------------
(* The queue does what the inbox promises. *)

LEMMA InitImplements == Init => Inbox!InboxInit
BY DEF Init, Inbox!InboxInit, Inbox!NothingHanded, NoChange

(* A step of a thread is a notification, the delivery of all that waits for  *)
(* one resource, or nothing that the inbox sees.                           *)
LEMMA StepImplements ==
  CountInv /\ EntriesSummarize /\ [Next]_vars => [Inbox!InboxNext]_(Inbox!inboxVars)
<1> SUFFICES ASSUME CountInv, EntriesSummarize, [Next]_vars
             PROVE  [Inbox!InboxNext]_(Inbox!inboxVars)
  OBVIOUS
<1> DEFINE waiting == [k \in Keys |-> changes[k].covers]
<1>k. TypeOK /\ TakesAKey /\ changes \in [Keys -> Changes]
  BY DEF CountInv, TypeOK
<1>same. ASSUME UNCHANGED <<notes, changes, handed>>
         PROVE  UNCHANGED Inbox!inboxVars
  BY <1>same DEF Inbox!inboxVars
<1>1. ASSUME NEW p \in Producers, NEW key \in Keys, NEW kind \in Kinds,
             EnqueueDocumentChange(p, key, kind)
      PROVE  Inbox!Notify(key, kind)
  <2>1. /\ Len(notes) < MaxNotes /\ notes' = Append(notes, kind) /\ handed' = handed
        /\ changes' = [changes EXCEPT ![key] = Merged(changes[key], Incoming(Len(notes) + 1, kind))]
    BY <1>1 DEF EnqueueDocumentChange
  <2>2. Merged(changes[key], Incoming(Len(notes) + 1, kind)).covers
          = changes[key].covers \cup {Len(notes) + 1}
    BY DEF Merged, Incoming
  <2>3. \A k \in Keys : changes'[k].covers =
          IF k = key THEN changes[key].covers \cup {Len(notes) + 1} ELSE changes[k].covers
    BY <1>k, <2>1, <2>2
  <2>4. waiting' = [waiting EXCEPT ![key] = @ \cup {Len(notes) + 1}]
    BY <2>3
  <2> QED BY <2>1, <2>4 DEF Inbox!Notify
<1>2. ASSUME NEW p \in Producers, PutToken(p) \/ EnqueueSyncRequest(p)
      PROVE  UNCHANGED Inbox!inboxVars
  BY <1>2, <1>same DEF PutToken, EnqueueSyncRequest
<1>3. CASE TakeDocumentChange
  <2> DEFINE key == worker.token
  <2>1. /\ notes' = notes /\ key \in Keys
        /\ changes' = [changes EXCEPT ![key] = NoChange]
        /\ handed' = IF Queued(key) THEN [handed EXCEPT ![key] = changes[key]] ELSE handed
    BY <1>3, <1>k DEF TakeDocumentChange, TakesAKey
  <2> HIDE DEF key
  <2>2. \A k \in Keys : changes'[k].covers = IF k = key THEN {} ELSE changes[k].covers
    BY <1>k, <2>1 DEF NoChange
  <2>3. waiting' = [waiting EXCEPT ![key] = {}]
    BY <2>2
  <2>4. CASE Queued(key)
    <3>1. waiting[key] # {} /\ waiting[key] = changes[key].covers
      BY <2>1, <2>4 DEF Queued
    <3>2. changes[key] = Inbox!Summary(waiting[key])
      BY <2>1, <3>1 DEF EntriesSummarize
    <3>3. PICK k \in Keys : k = key
      BY <2>1
    <3>4. Inbox!Deliver(k)
      BY <2>1, <2>3, <2>4, <3>1, <3>2, <3>3 DEF Inbox!Deliver
    <3> QED BY <3>4 DEF Inbox!InboxNext
  <2>5. CASE ~Queued(key)
    <3>1. changes[key].covers = {}
      BY <2>5 DEF Queued
    <3>2. waiting' = waiting
      BY <2>2, <3>1
    <3> QED BY <2>1, <2>5, <3>2 DEF Inbox!inboxVars
  <2> QED BY <2>4, <2>5
<1>4. CASE GetToken \/ FinishTask
  BY <1>4, <1>same DEF GetToken, FinishTask
<1>5. CASE Waiting
  BY <1>5, <1>same DEF Waiting, StartWaiting, JoinReturns, PollReturns, PollTimesOut
<1>6. CASE UNCHANGED vars
  BY <1>6, <1>same DEF vars
<1> QED
  BY <1>1, <1>2, <1>3, <1>4, <1>5, <1>6
  DEF Next, Producing, Working, Inbox!InboxNext, Kinds

(* The dictionary, its lock and the queue of tokens are an implementation of *)
(* the inbox, its liveness aside: what waits for a resource is handed over in *)
(* one piece, as its summary, once, and nothing else is ever handed over.   *)
THEOREM QueueIsInbox == Spec => Inbox!InboxSafe
<1>1. Init => CountInv /\ EntriesSummarize
  BY InitCount, InitSummary
<1>2. (CountInv /\ EntriesSummarize) /\ [Next]_vars => (CountInv /\ EntriesSummarize)'
  BY NextCount, NextSummary
<1> QED BY <1>1, <1>2, InitImplements, StepImplements, PTL DEF Spec, Inbox!InboxSafe
==============================================================================
