------------------------- MODULE DocumentSyncProofs -------------------------
(***************************************************************************)
(* DocumentSync, for any documents, versions and wordings: a recorded      *)
(* subdocument head promises no more than the file has (HeadsHonest), and   *)
(* a mirror at rest has the server's texts (QuietMirror).                  *)
(*                                                                         *)
(* A head is recorded long after it was read: it travels in a snapshot, in *)
(* a coalesced change and in the worker, and is saved later.  The          *)
(* invariant therefore speaks of every version that is CLAIMED without a   *)
(* further fetch: the recorded heads, the saved ones, and the first heads  *)
(* that are on their way to be adopted.  The file has each claimed version *)
(* (Promises); a text that the worker is about to write is no older than   *)
(* any claim (StoreIsNew); and the reason why a first head may be adopted  *)
(* is that the startup pass fetched the document after it was last edited  *)
(* (Hydrated).  On top of that, the newest edit of a document is awaited or *)
(* arriving until the file has it (Arriving).                              *)
(***************************************************************************)
EXTENDS DocumentSync, FiniteSetTheorems, SequenceTheorems, TLAPS

Excused(d) == gap[d] \in {"unhydrated", "masked"}

Early(d, v) == \E i \in 1 .. Len(channel) :
  channel[i].kind = "early" /\ channel[i].doc = d /\ channel[i].version = v

Claimed(d, v) ==
  \/ v = heads[d]
  \/ v = saved.heads[d]
  \/ changes[d].kind = "adopt" /\ v = changes[d].head
  \/ Early(d, v)

Promises == \A d \in Docs, v \in Versions :
  Claimed(d, v) => v <= text[d] /\ (Excused(d) \/ Has(d, v))

StoreIsNew ==
  LET d == worker.doc IN
  worker.pc = "store" =>
    /\ worker.text \in 1 .. text[d]
    /\ worker.head <= worker.text
    /\ d \notin late => worker.text = text[d]
    /\ \A v \in Versions : Claimed(d, v) => v <= worker.text

Hydrated == process # "down" =>
  \A d \in known \ (late \cup todo) : Excused(d) \/ Has(d, text[d])

(* Heads are versions that exist, wherever they are. *)
Bounds ==
  /\ \A d \in Docs : changes[d].head <= text[d] /\ files[d] <= text[d]
  /\ \A i \in 1 .. Len(channel) : channel[i].version <= text[channel[i].doc]
  /\ worker.pc = "fetch" => worker.head <= text[worker.doc] /\ worker.doc \in Listed

(* What is known, asked for and awaited in each state of the process. *)
Stages ==
  /\ known \subseteq Listed /\ saved.known \subseteq Listed /\ asked \subseteq known
  /\ process # "down" => Listed \ known \subseteq late
  /\ process = "serving" => todo = {}
  /\ process # "serving" =>
       /\ conn = "off" /\ channel = <<>> /\ worker.pc = "idle"
       /\ \A d \in Docs : changes[d].kind = "none"

IInv == TypeOK /\ Bounds /\ Stages /\ Hydrated /\ StoreIsNew /\ Promises

------------------------------------------------------------------------------

(* The order of the index answer is a sequence of all that is asked for. *)
LEMMA AnswerOrder ==
  ASSUME NEW S, IsFiniteSet(S)
  PROVE  /\ SetToSeq(S) \in Seq(S)
         /\ \A s \in S : \E i \in 1 .. Len(SetToSeq(S)) : SetToSeq(S)[i] = s
<1>1. PICK n \in Nat : n = Cardinality(S) /\ ExistsBijection(1 .. n, S)
  BY FS_CardinalityType
<1>2. PICK f \in [1 .. n -> S] : IsInjective(f)
  BY <1>1 DEF ExistsBijection, Bijection, Injection, IsInjective
<1>3. SetToSeq(S) \in [1 .. n -> S] /\ IsInjective(SetToSeq(S))
  BY <1>1, <1>2 DEF SetToSeq
<1>4. PICK order \in [1 .. n -> S] : order = SetToSeq(S) /\ IsInjective(order)
  BY <1>3
<1>5. order \in Injection(1 .. n, S)
  BY <1>4 DEF Injection
<1>6. IsFiniteSet(1 .. n) /\ Cardinality(1 .. n) = n
  <2>1. 1 \in Int /\ n \in Int
    OBVIOUS
  <2>2. IF 1 > n THEN n - 1 + 1 = 0 ELSE n - 1 + 1 = n
    BY <1>1
  <2> QED BY <2>1, <2>2, <1>1, FS_Interval
<1>7. order \in Surjection(1 .. n, S)
  BY <1>1, <1>5, <1>6, FS_Injection
<1>8. order \in Seq(S) /\ Len(order) = n
  BY <1>4, SeqDef
<1> QED BY <1>4, <1>7, <1>8 DEF Surjection

(* A message that is put on its way carries the version the server has, and *)
(* is an early head only of a document that was not edited since the start. *)
FreshMessage(m) ==
  /\ m \in Messages /\ m.version = text'[m.doc]
  /\ m.kind = "early" => AnswerIndex /\ m.doc \in asked \ late

(* What the index answers. *)
LEMMA AnswerStep ==
  ASSUME TypeOK, Stages, AnswerIndex
  PROVE  \E answer \in Seq(Messages) :
           /\ channel' = channel \o answer
           /\ \A j \in 1 .. Len(answer) : FreshMessage(answer[j])
           /\ \A d \in asked : \E j \in 1 .. Len(answer) : answer[j].doc = d
<1> USE DocumentAssumption
<1> DEFINE order == SetToSeq(asked)
           answer == [j \in DOMAIN order |->
                        [kind |-> IF order[j] \in late THEN "late" ELSE "early",
                         doc |-> order[j], version |-> text[order[j]]]]
<1>1. /\ order \in [1 .. Len(order) -> asked] /\ Len(order) \in Nat
      /\ \A d \in asked : \E j \in 1 .. Len(order) : order[j] = d
  <2>1. IsFiniteSet(asked)
    BY FS_Subset DEF TypeOK
  <2>2. order \in Seq(asked) /\ \A d \in asked : \E j \in 1 .. Len(order) : order[j] = d
    BY <2>1, AnswerOrder
  <2> QED BY <2>2
<1>2. \A d \in asked : d \in Docs /\ text[d] \in Versions
  BY DEF TypeOK, Stages, Listed, Versions
<1>3. \A j \in 1 .. Len(order) : answer[j] \in Messages /\ FreshMessage(answer[j])
  <2>1. text' = text
    BY DEF AnswerIndex
  <2> QED BY <1>1, <1>2, <2>1 DEF FreshMessage, Messages
<1>4. \A d \in asked : \E j \in 1 .. Len(order) : answer[j].doc = d
  BY <1>1
<1>5. channel' = channel \o answer
  BY DEF AnswerIndex
<1>6. answer \in Seq(Messages) /\ Len(answer) = Len(order)
  <2>1. answer \in [1 .. Len(order) -> Messages]
    BY <1>1, <1>3
  <2> HIDE DEF order, answer
  <2> QED BY <1>1, <2>1, SeqDef
<1> HIDE DEF order, answer
<1> QED BY <1>3, <1>4, <1>5, <1>6

(* Saving, whichever file is being replaced. *)
LEMMA SaveStep ==
  ASSUME TypeOK, Save
  PROVE  /\ saved' \in Maps /\ worker' \in Works
         /\ worker'.pc \in {"heads", "idle"}
         /\ saved'.known = saved.known \/ saved'.known = known
         /\ saved'.heads = saved.heads \/ saved'.heads = heads
<1> USE DocumentAssumption
<1>1. CASE worker.pc = "save"
  <2>1. /\ saved' = [saved EXCEPT !.hashes = hashes]
        /\ worker' = [worker EXCEPT !.pc = "heads"]
    BY <1>1 DEF Save
  <2>2. saved' \in Maps /\ saved'.known = saved.known /\ saved'.heads = saved.heads
    BY <2>1 DEF TypeOK, Maps
  <2>3. worker' \in Works /\ worker'.pc = "heads"
    BY <2>1 DEF TypeOK, Works
  <2> QED BY <2>2, <2>3
<1>2. CASE worker.pc # "save"
  <2>1. /\ saved' = [known |-> known, hashes |-> hashes, heads |-> heads]
        /\ worker' = NotWorking
    BY <1>2 DEF Save
  <2>2. saved' \in Maps /\ saved'.known = known /\ saved'.heads = heads
    BY <2>1 DEF TypeOK, Maps
  <2>3. (CHOOSE d \in Docs : TRUE) \in Docs
    OBVIOUS
  <2>4. worker' \in Works /\ worker'.pc = "idle"
    BY <2>1, <2>3 DEF NotWorking, Works
  <2> QED BY <2>2, <2>4
<1> QED BY <1>1, <1>2

LEMMA TypeStep ==
  ASSUME TypeOK, Stages, StoreIsNew, [Next]_vars
  PROVE  TypeOK'
<1> USE DocumentAssumption
<1>1. ASSUME NEW d \in Docs, Edit(d) PROVE TypeOK'
  <2>1. text[d] + 1 \in Versions /\ text' \in [Docs -> 0 .. MaxVersion]
    BY <1>1 DEF Edit, TypeOK, Versions
  <2>2. gap' \in [Docs -> Gaps]
    BY <1>1 DEF Edit, Missed, Gaps, TypeOK
  <2>3. channel' \in Seq(Messages)
    BY <1>1, <2>1, AppendProperties DEF Edit, Messages, TypeOK
  <2> QED BY <1>1, <2>1, <2>2, <2>3 DEF Edit, memory, counts, TypeOK
<1>2. CASE AnswerIndex
  <2>1. channel' \in Seq(Messages)
    <3>1. PICK answer \in Seq(Messages) : channel' = channel \o answer
      BY <1>2, AnswerStep
    <3> QED BY <3>1, ConcatProperties DEF TypeOK
  <2>2. gap' \in [Docs -> Gaps]
    BY <1>2 DEF AnswerIndex, TypeOK, Gaps
  <2> QED BY <1>2, <2>1, <2>2 DEF AnswerIndex, memory, counts, TypeOK
<1>3. CASE Disconnect
  <2>1. gap' \in [Docs -> Gaps]
    BY <1>3 DEF Disconnect, Missed, Gaps, TypeOK
  <2>2. drops' \in 0 .. MaxDrops
    BY <1>3 DEF Disconnect, TypeOK
  <2> QED BY <1>3, <2>1, <2>2 DEF Disconnect, memory, TypeOK
<1>4. CASE Dial
  BY <1>4 DEF Dial, memory, counts, TypeOK
<1>5. CASE Subscribe
  BY <1>5 DEF Subscribe, memory, counts, TypeOK
<1>6. CASE HandleMessage
  <2> DEFINE m == Head(channel)
  <2>1. m \in Messages /\ channel' \in Seq(Messages)
    BY <1>6, HeadTailProperties DEF HandleMessage, TypeOK
  <2>2. Requested(m) \in [kind : {"none", "event", "adopt", "fetch"},
                          head : 0 .. MaxVersion, news : 0 .. MaxVersion]
    BY <2>1 DEF Requested, SnapshotKind, Messages, Versions
  <2>3. changes[m.doc] \in Changes /\ m.doc \in Docs
    BY <2>1 DEF Messages, TypeOK
  <2>4. Merged(changes[m.doc], Requested(m)) \in Changes
    BY <2>2, <2>3 DEF Merged, Changes
  <2>5. changes' \in [Docs -> Changes]
    BY <1>6, <2>3, <2>4 DEF HandleMessage, TypeOK
  <2> QED BY <1>6, <2>1, <2>5 DEF HandleMessage, memory, counts, TypeOK
<1>7. ASSUME NEW d \in Docs, SkipChange(d) PROVE TypeOK'
  <2>1. changes' \in [Docs -> Changes]
    BY <1>7 DEF SkipChange, Takes, NoChange, Changes, TypeOK
  <2>2. gap' \in [Docs -> Gaps]
    BY <1>7 DEF SkipChange, Missed, Gaps, TypeOK
  <2> QED BY <1>7, <2>1, <2>2 DEF SkipChange, Takes, memory, socket, counts, TypeOK
<1>8. ASSUME NEW d \in Docs, AdoptHead(d) PROVE TypeOK'
  <2>1. changes[d] \in Changes /\ changes' \in [Docs -> Changes]
    BY <1>8 DEF AdoptHead, Takes, NoChange, Changes, TypeOK
  <2>2. gap' \in [Docs -> Gaps]
    BY <1>8 DEF AdoptHead, Missed, Gaps, TypeOK
  <2>3. worker' \in Works
    BY <1>8 DEF AdoptHead, Works, TypeOK
  <2>4. heads' \in [Docs -> 0 .. MaxVersion]
    BY <1>8, <2>1 DEF AdoptHead, Changes, TypeOK
  <2> QED BY <1>8, <2>1, <2>2, <2>3, <2>4 DEF AdoptHead, socket, counts, TypeOK
<1>9. ASSUME NEW d \in Docs, TakeChange(d) PROVE TypeOK'
  <2>1. changes[d] \in Changes /\ changes' \in [Docs -> Changes]
    BY <1>9 DEF TakeChange, Takes, NoChange, Changes, TypeOK
  <2>2. worker' \in Works
    BY <1>9, <2>1 DEF TakeChange, Works, Changes
  <2> QED BY <1>9, <2>1, <2>2 DEF TakeChange, memory, socket, counts, TypeOK
<1>10. CASE FetchText
  <2>1. worker' \in Works
    BY <1>10 DEF FetchText, Works, TypeOK
  <2> QED BY <1>10, <2>1 DEF FetchText, memory, socket, counts, TypeOK
<1>11. CASE FetchFails
  <2>1. worker' \in Works
    BY <1>11 DEF FetchFails, Works, TypeOK
  <2>3. failures' \in 0 .. MaxFailures
    BY <1>11 DEF FetchFails, TypeOK
  <2>2. gap' \in [Docs -> Gaps]
    BY <1>11 DEF FetchFails, Missed, Gaps, Works, TypeOK
  <2> QED BY <1>11, <2>1, <2>2, <2>3 DEF FetchFails, memory, socket, TypeOK
<1>12. CASE StoreText
  <2> DEFINE d == worker.doc
  <2>1. d \in Docs /\ worker.text \in Versions /\ worker.head \in 0 .. MaxVersion
    BY <1>12 DEF StoreText, Works, Versions, StoreIsNew, TypeOK
  <2>2. worker' \in Works
    BY <1>12 DEF StoreText, Works, TypeOK
  <2>3. gap' \in [Docs -> Gaps]
    BY <1>12 DEF StoreText, Gaps, TypeOK
  <2>4. files' \in [Docs -> 0 .. MaxVersion]
    <3>1. files' = files \/ files' = [files EXCEPT ![d] = worker.text]
      BY <1>12 DEF StoreText
    <3>2. worker.text \in 0 .. MaxVersion
      BY <2>1 DEF Versions
    <3> QED BY <2>1, <3>1, <3>2 DEF TypeOK
  <2>6. heads' \in [Docs -> 0 .. MaxVersion]
    <3>1. heads' = heads \/ heads' = [heads EXCEPT ![d] = worker.head]
      BY <1>12 DEF StoreText
    <3> QED BY <2>1, <3>1 DEF TypeOK
  <2>5. hashes' \in [Docs -> Nat]
    BY <1>12, <2>1 DEF StoreText, Versions, TypeOK
  <2> QED BY <1>12, <2>2, <2>3, <2>4, <2>5, <2>6 DEF StoreText, socket, counts, TypeOK
<1>13. CASE Save
  <2>1. saved' \in Maps /\ worker' \in Works
    BY <1>13, SaveStep
  <2> QED BY <1>13, <2>1 DEF Save, memory, socket, counts, TypeOK
<1>14. ASSUME NEW d \in Docs, JoinFolder(d) PROVE TypeOK'
  <2>1. saved' \in Maps /\ known' \in SUBSET Docs
    BY <1>14 DEF JoinFolder, Maps, TypeOK
  <2>2. gap' \in [Docs -> Gaps]
    BY <1>14 DEF JoinFolder, Missed, Gaps, TypeOK
  <2>4. failures' \in 0 .. MaxFailures
    BY <1>14 DEF JoinFolder, TypeOK
  <2>3. files' \in [Docs -> 0 .. MaxVersion]
    BY <1>14 DEF JoinFolder, TypeOK
  <2> QED BY <1>14, <2>1, <2>2, <2>3, <2>4 DEF JoinFolder, socket, TypeOK
<1>15. CASE Boot
  <2>1. /\ known' \in SUBSET Docs
        /\ hashes' \in [Docs -> Nat]
        /\ heads' \in [Docs -> 0 .. MaxVersion]
    BY <1>15 DEF Boot, Listed, Maps, TypeOK
  <2> QED BY <1>15, <2>1 DEF Boot, Listed, socket, counts, TypeOK
<1>16. ASSUME NEW d \in Docs, Hydrate(d) PROVE TypeOK'
  BY <1>16 DEF Hydrate, Gaps, memory, socket, counts, TypeOK
<1>17. ASSUME NEW d \in Docs, HydrateFails(d) PROVE TypeOK'
  BY <1>17 DEF HydrateFails, Gaps, memory, socket, TypeOK
<1>18. CASE StartupDone
  <2>1. saved' \in Maps
    BY <1>18 DEF StartupDone, Maps, TypeOK
  <2> QED BY <1>18, <2>1 DEF StartupDone, memory, socket, counts, TypeOK
<1>19. CASE Crash
  <2>1. changes' \in [Docs -> Changes]
    BY <1>19 DEF Crash, NoChange, Changes
  <2>2. gap' \in [Docs -> Gaps]
    BY <1>19 DEF Crash, Missed, Gaps, TypeOK
  <2>3. worker' \in Works
    BY <1>19 DEF Crash, NotWorking, Works
  <2> QED BY <1>19, <2>1, <2>2, <2>3 DEF Crash, memory, TypeOK
<1>20. CASE UNCHANGED vars
  BY <1>20 DEF vars, memory, socket, counts, TypeOK
<1> QED
  BY <1>1, <1>2, <1>3, <1>4, <1>5, <1>6, <1>7, <1>8, <1>9, <1>10, <1>11, <1>12,
     <1>13, <1>14, <1>15, <1>16, <1>17, <1>18, <1>19, <1>20
  DEF Next, Server, Listener, Worker, Startup

------------------------------------------------------------------------------
(* What a step may do to the channel, to the changes, to the files and to  *)
(* the claims; the invariants below need no more of most actions.          *)

(* Messages keep their order: what is on its way moves up by one when the  *)
(* listener takes a message, and fresh messages come behind it.            *)
LEMMA ChannelMoves ==
  ASSUME TypeOK, Stages, [Next]_vars
  PROVE  \E k \in {0, 1} :
           /\ k = 1 <=> HandleMessage
           /\ \A i \in 1 .. Len(channel') : \/ i + k <= Len(channel) /\ channel'[i] = channel[i + k]
                                            \/ i + k > Len(channel) /\ FreshMessage(channel'[i])
           /\ Disconnect \/ Crash \/ Len(channel') >= Len(channel) - k
<1> DEFINE Moved(k) ==
      /\ k = 1 => HandleMessage
      /\ \A i \in 1 .. Len(channel') : \/ i + k <= Len(channel) /\ channel'[i] = channel[i + k]
                                       \/ i + k > Len(channel) /\ FreshMessage(channel'[i])
      /\ Disconnect \/ Crash \/ Len(channel') >= Len(channel) - k
<1> USE DocumentAssumption
<1>0. channel \in Seq(Messages) /\ Len(channel) \in Nat
  BY DEF TypeOK
<1>same. ASSUME channel' = channel PROVE Moved(0)
  BY <1>0, <1>same
<1>1. ASSUME NEW d \in Docs, Edit(d) PROVE Moved(0)
  <2> DEFINE m == [kind |-> "event", doc |-> d, version |-> text[d] + 1]
  <2>1. CASE channel' = Append(channel, m)
    <3>1. m \in Messages /\ text'[d] = text[d] + 1
      BY <1>1 DEF Edit, Messages, Versions, TypeOK
    <3>2. FreshMessage(m)
      BY <3>1 DEF FreshMessage
    <3> HIDE DEF m
    <3>3. /\ Len(channel') = Len(channel) + 1 /\ channel'[Len(channel) + 1] = m
          /\ \A i \in 1 .. Len(channel) : channel'[i] = channel[i]
      BY <1>0, <2>1, <3>1, AppendProperties
    <3>4. \A i \in 1 .. Len(channel') : i \in 1 .. Len(channel) \/ i = Len(channel) + 1
      BY <1>0, <3>3
    <3>5. \A i \in 1 .. Len(channel) : i + 0 <= Len(channel) /\ i + 0 = i
      BY <1>0
    <3>6. Len(channel) + 1 + 0 > Len(channel) /\ Len(channel') >= Len(channel) - 0
      BY <1>0, <3>3
    <3> QED BY <3>2, <3>3, <3>4, <3>5, <3>6
  <2> QED BY <1>1, <1>same, <2>1 DEF Edit
<1>2. ASSUME AnswerIndex PROVE Moved(0)
  <2>1. PICK answer \in Seq(Messages) :
          /\ channel' = channel \o answer
          /\ \A j \in 1 .. Len(answer) : FreshMessage(answer[j])
    BY <1>2, AnswerStep
  <2>2. Len(answer) \in Nat /\ Len(channel') = Len(channel) + Len(answer)
    BY <1>0, <2>1, ConcatProperties
  <2>3. ASSUME NEW i \in 1 .. Len(channel')
        PROVE  \/ i + 0 <= Len(channel) /\ channel'[i] = channel[i + 0]
               \/ i + 0 > Len(channel) /\ FreshMessage(channel'[i])
    <3>1. i \in 1 .. Len(channel) + Len(answer) /\ i + 0 = i
      BY <1>0, <2>2
    <3>2. channel'[i] = IF i <= Len(channel) THEN channel[i] ELSE answer[i - Len(channel)]
      BY <1>0, <2>1, <3>1, ConcatProperties
    <3>3. CASE i <= Len(channel)
      BY <3>1, <3>2, <3>3
    <3>4. CASE ~(i <= Len(channel))
      <4>1. i - Len(channel) \in 1 .. Len(answer) /\ i + 0 > Len(channel)
        BY <1>0, <2>2, <3>1, <3>4
      <4> QED BY <2>1, <3>2, <3>4, <4>1
    <3> QED BY <3>3, <3>4
  <2>4. Len(channel') >= Len(channel) - 0
    BY <1>0, <2>2
  <2> QED BY <2>3, <2>4
<1>3. ASSUME HandleMessage PROVE Moved(1)
  <2>1. channel # <<>> /\ channel' = Tail(channel)
    BY <1>3 DEF HandleMessage
  <2>2. /\ Len(channel') = Len(channel) - 1
        /\ \A i \in 1 .. Len(channel') : channel'[i] = channel[i + 1]
    BY <1>0, <2>1, HeadTailProperties
  <2>3. \A i \in 1 .. Len(channel') : i + 1 <= Len(channel)
    BY <1>0, <2>2
  <2>4. Len(channel') >= Len(channel) - 1
    BY <1>0, <2>2
  <2> QED BY <1>3, <2>2, <2>3, <2>4
<1>4. ASSUME Disconnect \/ Crash PROVE Moved(0)
  <2>1. Len(channel') = 0
    BY <1>4 DEF Disconnect, Crash
  <2> QED BY <1>4, <2>1
<1>5. channel' = channel \/ AnswerIndex \/ HandleMessage \/ Disconnect \/ Crash
        \/ \E d \in Docs : Edit(d)
  BY DEF Next, Server, Listener, Worker, Startup, vars, socket, Dial, Subscribe,
         SkipChange, AdoptHead, TakeChange, FetchText, FetchFails, StoreText, Save,
         JoinFolder, Boot, Hydrate, HydrateFails, StartupDone
<1>6. Moved(0) \/ Moved(1)
  <2> HIDE DEF Moved
  <2> QED BY <1>same, <1>1, <1>2, <1>3, <1>4, <1>5
<1>7. CASE HandleMessage
  BY <1>3, <1>7
<1>8. CASE ~HandleMessage
  <2>1. Moved(0)
    BY <1>6, <1>8
  <2> QED BY <1>8, <2>1
<1> QED BY <1>7, <1>8

(* A message is an old one or a fresh one. *)
LEMMA ChannelStep ==
  ASSUME TypeOK, Stages, [Next]_vars, NEW i \in 1 .. Len(channel')
  PROVE  \/ \E j \in 1 .. Len(channel) : channel'[i] = channel[j]
         \/ FreshMessage(channel'[i])
<1>1. PICK k \in {0, 1} :
        \/ i + k <= Len(channel) /\ channel'[i] = channel[i + k]
        \/ i + k > Len(channel) /\ FreshMessage(channel'[i])
  BY ChannelMoves
<1>2. Len(channel) \in Nat
  BY DEF TypeOK
<1>3. i + k <= Len(channel) => i + k \in 1 .. Len(channel)
  BY <1>2
<1> QED BY <1>1, <1>3

(* A change is dropped, or keeps its head, or has the head of a message.   *)
LEMMA ChangeStep ==
  ASSUME TypeOK, [Next]_vars, NEW d \in Docs
  PROVE  \/ changes'[d] = NoChange
         \/ /\ changes'[d].head = changes[d].head
            /\ changes'[d].kind = "adopt" => changes[d].kind = "adopt"
         \/ changes'[d].head = 0 /\ changes'[d].kind # "adopt"
         \/ \E i \in 1 .. Len(channel) :
              /\ channel[i].doc = d /\ changes'[d].head = channel[i].version
              /\ changes'[d].kind = "adopt" => channel[i].kind = "early"
<1>1. CASE HandleMessage
  <2> DEFINE m == Head(channel)
  <2>1. m = channel[1] /\ 1 \in 1 .. Len(channel) /\ m \in Messages
    <3>1. channel \in Seq(Messages) /\ channel # <<>>
      BY <1>1 DEF HandleMessage, TypeOK
    <3> QED BY <3>1
  <2>2. changes' = changes \/ changes' = [changes EXCEPT ![m.doc] = Merged(@, Requested(m))]
    BY <1>1 DEF HandleMessage
  <2>3. \/ changes'[d] = changes[d]
        \/ m.doc = d /\ changes'[d] = Merged(changes[d], Requested(m))
    <3> HIDE DEF m
    <3>1. changes \in [Docs -> Changes]
      BY DEF TypeOK
    <3>2. CASE m.doc = d
      BY <2>2, <3>1, <3>2
    <3>3. CASE m.doc # d
      BY <2>2, <3>1, <3>3
    <3> QED BY <3>2, <3>3
  <2>4. CASE Merged(changes[d], Requested(m)) = Requested(m)
    <3>1. CASE m.kind = "event"
      BY <2>3, <2>4, <3>1 DEF Requested
    <3>2. CASE m.kind # "event"
      BY <2>1, <2>3, <2>4, <3>2 DEF Requested, SnapshotKind
    <3> QED BY <3>1, <3>2
  <2>5. CASE Merged(changes[d], Requested(m)) = [changes[d] EXCEPT !.news = Requested(m).news]
    BY <2>3, <2>5 DEF TypeOK, Changes
  <2> QED BY <2>4, <2>5 DEF Merged
<1>2. ASSUME NEW e \in Docs, Takes(e) PROVE changes'[d] = NoChange \/ changes'[d] = changes[d]
  BY <1>2 DEF Takes, TypeOK
<1>3. CASE Crash
  BY <1>3 DEF Crash
<1>4. changes' = changes \/ HandleMessage \/ Crash \/ \E e \in Docs : Takes(e)
  BY DEF Next, Server, Listener, Worker, Startup, vars, Edit, AnswerIndex, Dial, Subscribe,
         SkipChange, AdoptHead, TakeChange, FetchText, FetchFails, StoreText, Save,
         JoinFolder, Boot, Hydrate, HydrateFails, StartupDone, Disconnect
<1> QED BY <1>1, <1>2, <1>3, <1>4

(* A new claim is a first head that the index gives for a document not     *)
(* edited since the start, or a head recorded with a text just fetched.    *)
LEMMA ClaimStep ==
  ASSUME TypeOK, Stages, [Next]_vars, NEW d \in Docs, NEW v \in Versions, Claimed(d, v)'
  PROVE  \/ Claimed(d, v)
         \/ AnswerIndex /\ d \in asked \ late /\ v = text[d]
         \/ StoreText /\ d = worker.doc /\ v = worker.head
<1> DEFINE Goal == \/ Claimed(d, v)
                   \/ AnswerIndex /\ d \in asked \ late /\ v = text[d]
                   \/ StoreText /\ d = worker.doc /\ v = worker.head
<1>1. CASE v = heads'[d]
  <2>1. CASE heads' = heads
    BY <1>1, <2>1 DEF Claimed
  <2>2. CASE Boot
    BY <1>1, <2>2 DEF Boot, Claimed
  <2>3. ASSUME NEW e \in Docs, AdoptHead(e) PROVE Goal
    <3>1. heads'[d] = heads[d] \/ (d = e /\ heads'[d] = changes[e].head)
      BY <2>3 DEF AdoptHead, TypeOK
    <3> QED BY <1>1, <2>3, <3>1 DEF AdoptHead, Claimed
  <2>4. CASE StoreText
    <3>1. heads' = heads \/ heads' = [heads EXCEPT ![worker.doc] = worker.head]
      BY <2>4 DEF StoreText
    <3>2. heads'[d] = heads[d] \/ (d = worker.doc /\ heads'[d] = worker.head)
      BY <3>1 DEF TypeOK
    <3> QED BY <1>1, <2>4, <3>2 DEF Claimed
  <2>5. heads' = heads \/ Boot \/ StoreText \/ \E e \in Docs : AdoptHead(e)
    BY DEF Next, Server, Listener, Worker, Startup, vars, memory, Edit, AnswerIndex, Dial,
           Subscribe, HandleMessage, SkipChange, TakeChange, FetchText, FetchFails, Save,
           JoinFolder, Hydrate, HydrateFails, StartupDone, Disconnect, Crash
  <2> QED BY <2>1, <2>2, <2>3, <2>4, <2>5
<1>2. CASE v = saved'.heads[d]
  <2>1. saved'.heads = saved.heads \/ saved'.heads = heads
    <3>1. ASSUME NEW e \in Docs, JoinFolder(e) PROVE saved'.heads = saved.heads
      BY <3>1 DEF JoinFolder, TypeOK, Maps
    <3>2. CASE StartupDone
      BY <3>2 DEF StartupDone
    <3>3. CASE Save
      BY <3>3, SaveStep
    <3> QED
      BY <3>1, <3>2, <3>3
      DEF Next, Server, Listener, Worker, Startup, vars, Edit, AnswerIndex, Dial,
          Subscribe, HandleMessage, SkipChange, AdoptHead, TakeChange, FetchText, FetchFails,
          StoreText, Boot, Hydrate, HydrateFails, Disconnect, Crash
  <2> QED BY <1>2, <2>1 DEF Claimed
<1>3. CASE changes'[d].kind = "adopt" /\ v = changes'[d].head
  BY <1>3, ChangeStep DEF Claimed, Early, NoChange, Versions
<1>4. CASE Early(d, v)'
  <2>1. PICK i \in 1 .. Len(channel') :
          channel'[i].kind = "early" /\ channel'[i].doc = d /\ channel'[i].version = v
    BY <1>4 DEF Early
  <2>2. CASE \E j \in 1 .. Len(channel) : channel'[i] = channel[j]
    BY <2>1, <2>2 DEF Claimed, Early
  <2>3. CASE FreshMessage(channel'[i])
    BY <2>1, <2>3 DEF FreshMessage, AnswerIndex
  <2> QED BY <2>2, <2>3, ChannelStep
<1> QED BY <1>1, <1>2, <1>3, <1>4 DEF Claimed

(* No file goes back, except under the worker's hand, and no reason why a  *)
(* file lacks an edit is forgotten unless the edit got there.              *)
LEMMA FileStep ==
  ASSUME TypeOK, [Next]_vars, ~StoreText, NEW d \in Docs
  PROVE  /\ text'[d] >= text[d]
         /\ \/ files'[d] = files[d] /\ (Excused(d) => Excused(d)')
            \/ files'[d] = text[d] /\ text'[d] = text[d]
<1> DEFINE Goal == /\ text'[d] >= text[d]
                   /\ \/ files'[d] = files[d] /\ (Excused(d) => Excused(d)')
                      \/ files'[d] = text[d] /\ text'[d] = text[d]
<1>1. ASSUME NEW e \in Docs, Edit(e) PROVE Goal
  BY <1>1 DEF Edit, TypeOK, Excused, Missed
<1>2. ASSUME NEW e \in Docs, JoinFolder(e) PROVE Goal
  BY <1>2 DEF JoinFolder, TypeOK, Excused, Missed
<1>3. ASSUME NEW e \in Docs, Hydrate(e) \/ HydrateFails(e) PROVE Goal
  BY <1>3 DEF Hydrate, HydrateFails, TypeOK, Excused
<1>4. CASE text' = text /\ files' = files /\ (Excused(d) => Excused(d)')
  BY <1>4 DEF TypeOK
<1>5. CASE AnswerIndex \/ Disconnect \/ FetchFails \/ Crash
  BY <1>5 DEF AnswerIndex, Disconnect, FetchFails, Crash, TypeOK, Excused, Missed
<1>6. ASSUME NEW e \in Docs, SkipChange(e) \/ AdoptHead(e) PROVE Goal
  BY <1>6 DEF SkipChange, AdoptHead, TypeOK, Excused, Missed
<1>7. \/ text' = text /\ files' = files /\ gap' = gap
      \/ AnswerIndex \/ Disconnect \/ FetchFails \/ Crash
      \/ \E e \in Docs : Edit(e) \/ JoinFolder(e) \/ Hydrate(e) \/ HydrateFails(e)
                           \/ SkipChange(e) \/ AdoptHead(e)
  BY DEF Next, Server, Listener, Worker, Startup, vars, Dial, Subscribe, HandleMessage,
         TakeChange, FetchText, Save, Boot, StartupDone
<1> QED BY <1>1, <1>2, <1>3, <1>4, <1>5, <1>6, <1>7 DEF Excused

------------------------------------------------------------------------------
(* Each part of the invariant is kept. *)

LEMMA HasKept ==
  ASSUME TypeOK, TypeOK', NEW d \in Docs, NEW v \in 0 .. MaxVersion,
         files'[d] = files[d], text'[d] >= text[d], Has(d, v)
  PROVE  Has(d, v)'
<1>1. text[d] \in Nat /\ text'[d] \in Nat /\ v \in Nat
  BY DocumentAssumption DEF TypeOK
<1>2. PICK u \in v .. text[d] : u # 0 /\ Wording[files[d]] = Wording[u]
  BY DEF Has
<1>3. u \in v .. text'[d]
  BY <1>1
<1> QED BY <1>2, <1>3 DEF Has

(* The types of the numbers that the bounds compare. *)
LEMMA Numbers ==
  ASSUME TypeOK
  PROVE  /\ \A d \in Docs : /\ text[d] \in Nat /\ files[d] \in Nat /\ heads[d] \in Nat
                           /\ changes[d].head \in Nat /\ saved.heads[d] \in Nat
         /\ \A i \in 1 .. Len(channel) : /\ channel[i].doc \in Docs
                                         /\ channel[i].version \in Nat
         /\ worker.doc \in Docs /\ worker.head \in Nat /\ worker.text \in Nat
<1> USE DocumentAssumption
<1>1. \A d \in Docs : text[d] \in Nat /\ files[d] \in Nat /\ heads[d] \in Nat
  BY DEF TypeOK
<1>2. \A d \in Docs : changes[d].head \in Nat
  BY DEF TypeOK, Changes
<1>3. \A d \in Docs : saved.heads[d] \in Nat
  BY DEF TypeOK, Maps
<1>4. \A i \in 1 .. Len(channel) : channel[i].doc \in Docs /\ channel[i].version \in Nat
  <2>1. \A i \in 1 .. Len(channel) : channel[i] \in Messages
    BY DEF TypeOK
  <2> QED BY <2>1 DEF Messages, Versions
<1>5. worker.doc \in Docs /\ worker.head \in Nat /\ worker.text \in Nat
  BY DEF TypeOK, Works
<1> QED BY <1>1, <1>2, <1>3, <1>4, <1>5

LEMMA StagesStep ==
  ASSUME TypeOK, Stages, [Next]_vars
  PROVE  Stages'
<1> USE DEF Stages, Listed
<1>1. ASSUME NEW d \in Docs, Edit(d) PROVE Stages'
  <2>1. \A e \in Docs : /\ text[e] # 0 => text'[e] # 0
                        /\ text'[e] # 0 => text[e] # 0 \/ e \in late'
    BY <1>1 DEF Edit, Versions, TypeOK
  <2> QED BY <1>1, <2>1 DEF Edit, memory, TypeOK
<1>2. CASE AnswerIndex
  BY <1>2 DEF AnswerIndex, memory
<1>3. CASE Disconnect
  BY <1>3 DEF Disconnect, memory
<1>4. CASE Dial
  BY <1>4 DEF Dial, memory, counts
<1>5. CASE Subscribe
  BY <1>5 DEF Subscribe, memory
<1>6. CASE HandleMessage
  BY <1>6 DEF HandleMessage, memory
<1>7. ASSUME NEW d \in Docs, SkipChange(d) \/ TakeChange(d) PROVE Stages'
  BY <1>7 DEF SkipChange, TakeChange, Takes, memory, socket
<1>8. ASSUME NEW d \in Docs, AdoptHead(d) PROVE Stages'
  BY <1>8 DEF AdoptHead, Takes, socket
<1>9. CASE FetchText \/ FetchFails \/ StoreText
  BY <1>9 DEF FetchText, FetchFails, StoreText, memory, socket
<1>10. CASE Save
  <2>1. /\ saved'.known = saved.known \/ saved'.known = known
        /\ worker.pc \in {"save", "heads"}
    BY <1>10, SaveStep DEF Save
  <2> QED BY <1>10, <2>1 DEF Save, memory, socket
<1>11. ASSUME NEW d \in Docs, JoinFolder(d) PROVE Stages'
  <2>1. saved'.known = known'
    BY <1>11 DEF JoinFolder, TypeOK, Maps
  <2> QED BY <1>11, <2>1 DEF JoinFolder, socket
<1>12. CASE Boot
  BY <1>12 DEF Boot, socket
<1>13. ASSUME NEW d \in Docs, Hydrate(d) \/ HydrateFails(d) PROVE Stages'
  BY <1>13 DEF Hydrate, HydrateFails, memory, socket
<1>14. CASE StartupDone
  BY <1>14 DEF StartupDone, memory, socket
<1>15. CASE Crash
  BY <1>15 DEF Crash, NoChange, NotWorking, memory
<1>16. CASE UNCHANGED vars
  BY <1>16 DEF vars, memory, socket
<1> QED
  BY <1>1, <1>2, <1>3, <1>4, <1>5, <1>6, <1>7, <1>8, <1>9, <1>10, <1>11, <1>12,
     <1>13, <1>14, <1>15, <1>16
  DEF Next, Server, Listener, Worker, Startup

LEMMA TextGrows ==
  ASSUME TypeOK, [Next]_vars, NEW d \in Docs
  PROVE  text'[d] >= text[d] /\ (text'[d] = text[d] \/ d \in late')
<1>1. ASSUME NEW e \in Docs, Edit(e)
      PROVE  text'[d] >= text[d] /\ (text'[d] = text[d] \/ d \in late')
  BY <1>1 DEF Edit, TypeOK
<1>2. text' = text \/ \E e \in Docs : Edit(e)
  BY DEF Next, Server, Listener, Worker, Startup, vars, AnswerIndex, Dial, Subscribe,
         HandleMessage, SkipChange, AdoptHead, TakeChange, FetchText, FetchFails, StoreText,
         Save, JoinFolder, Boot, Hydrate, HydrateFails, StartupDone, Disconnect, Crash
<1> QED BY <1>1, <1>2 DEF TypeOK

LEMMA LateGrows ==
  ASSUME [Next]_vars, ~Boot
  PROVE  late \subseteq late'
<1>1. late' = late \/ \E d \in Docs : late' = late \cup {d}
  BY DEF Next, Server, Listener, Worker, Startup, vars, Edit, AnswerIndex, Dial, Subscribe,
         HandleMessage, SkipChange, AdoptHead, TakeChange, FetchText, FetchFails, StoreText,
         Save, JoinFolder, Hydrate, HydrateFails, StartupDone, Disconnect, Crash
<1> QED BY <1>1

LEMMA BoundsStep ==
  ASSUME IInv, [Next]_vars, TypeOK'
  PROVE  Bounds'
<1> USE DocumentAssumption DEF IInv
<1>5. \A d \in Docs : text'[d] \in Nat
  <2>1. text' \in [Docs -> 0 .. MaxVersion]
    BY DEF TypeOK
  <2> QED BY <2>1
<1>1. \A d \in Docs : changes'[d].head <= text'[d]
  <2> SUFFICES ASSUME NEW d \in Docs PROVE changes'[d].head <= text'[d]
    OBVIOUS
  <2>3. text'[d] \in Nat
    BY <1>5
  <2>1. /\ text[d] \in Nat /\ text'[d] >= text[d]
        /\ changes[d].head \in Nat /\ changes[d].head <= text[d]
    BY TextGrows, Numbers DEF Bounds
  <2>2. ASSUME NEW i \in 1 .. Len(channel), channel[i].doc = d
        PROVE  channel[i].version \in Nat /\ channel[i].version <= text[d]
    BY <2>2, Numbers DEF Bounds
  <2>4. \/ changes'[d].head \in {0, changes[d].head}
        \/ \E i \in 1 .. Len(channel) :
             channel[i].doc = d /\ changes'[d].head = channel[i].version
    BY ChangeStep DEF NoChange
  <2>5. changes'[d].head \in Nat /\ changes'[d].head <= text[d]
    BY <2>1, <2>2, <2>4
  <2> QED BY <2>1, <2>3, <2>5
<1>2. \A d \in Docs : files'[d] <= text'[d]
  <2> SUFFICES ASSUME NEW d \in Docs PROVE files'[d] <= text'[d]
    OBVIOUS
  <2>1. CASE StoreText
    <3>1. files'[d] = files[d] \/ (d = worker.doc /\ files'[d] = worker.text)
      BY <2>1 DEF StoreText, TypeOK
    <3>2. d = worker.doc => worker.text <= text[d]
      BY <2>1 DEF StoreText, StoreIsNew, TypeOK
    <3>3. text' = text
      BY <2>1 DEF StoreText
    <3>4. files[d] <= text[d]
      BY DEF Bounds
    <3>5. files'[d] <= text[d]
      <4>1. CASE files'[d] = files[d]
        BY <3>4, <4>1
      <4>2. CASE d = worker.doc /\ files'[d] = worker.text
        BY <3>2, <4>2
      <4> QED BY <3>1, <4>1, <4>2
    <3> QED BY <3>3, <3>5
  <2>2. CASE ~StoreText
    <3>1. text'[d] \in Nat
      BY <1>5
    <3>2. files[d] <= text[d] /\ files[d] \in Nat /\ text[d] \in Nat
      BY Numbers DEF Bounds
    <3> QED BY <2>2, <3>1, <3>2, FileStep
  <2> QED BY <2>1, <2>2
<1>3. \A i \in 1 .. Len(channel') : channel'[i].version <= text'[channel'[i].doc]
  <2> SUFFICES ASSUME NEW i \in 1 .. Len(channel')
               PROVE  channel'[i].version <= text'[channel'[i].doc]
    OBVIOUS
  <2>1. ASSUME NEW j \in 1 .. Len(channel), channel'[i] = channel[j]
        PROVE  channel'[i].version <= text'[channel'[i].doc]
    <3>1. channel[j].doc \in Docs /\ channel[j].version \in Nat
      BY Numbers
    <3>3. text'[channel[j].doc] \in Nat
      BY <3>1, <1>5
    <3>2. /\ channel[j].version <= text[channel[j].doc]
          /\ text[channel[j].doc] \in Nat
          /\ text'[channel[j].doc] >= text[channel[j].doc]
      BY <3>1, TextGrows, Numbers DEF Bounds
    <3> QED BY <2>1, <3>1, <3>2, <3>3
  <2>2. CASE FreshMessage(channel'[i])
    <3>1. channel'[i] \in Messages /\ channel'[i].version = text'[channel'[i].doc]
      BY <2>2 DEF FreshMessage
    <3>2. channel'[i].version \in Nat
      BY <3>1 DEF Messages, Versions
    <3> QED BY <3>1, <3>2
  <2> QED BY <2>1, <2>2, ChannelStep
<1>4. worker'.pc = "fetch" => worker'.head <= text'[worker'.doc] /\ worker'.doc \in Listed'
  <2> SUFFICES ASSUME worker'.pc = "fetch"
               PROVE  worker'.head <= text'[worker'.doc] /\ worker'.doc \in Listed'
    OBVIOUS
  <2>1. CASE worker' = worker
    <3>1. worker.doc \in Docs /\ worker.head \in Nat
      BY Numbers
    <3>2. text'[worker.doc] \in Nat
      BY <3>1, <1>5
    <3>3. /\ worker.head <= text[worker.doc] /\ text[worker.doc] # 0
          /\ text[worker.doc] \in Nat /\ text'[worker.doc] >= text[worker.doc]
      BY <2>1, <3>1, TextGrows, Numbers DEF Bounds, Listed
    <3> QED BY <2>1, <3>1, <3>2, <3>3 DEF Listed
  <2>2. ASSUME NEW d \in Docs, TakeChange(d)
        PROVE  worker'.head <= text'[worker'.doc] /\ worker'.doc \in Listed'
    <3>1. /\ worker'.head = changes[d].head /\ worker'.doc = d
          /\ text' = text /\ d \in known
      BY <2>2 DEF TakeChange
    <3> QED BY <3>1 DEF Bounds, Stages, Listed
  <2>3. worker' = worker \/ \E d \in Docs : TakeChange(d)
    <3>1. ASSUME NEW d \in Docs, AdoptHead(d) PROVE FALSE
      BY <3>1 DEF AdoptHead, TypeOK, Works
    <3>2. CASE FetchText \/ FetchFails \/ StoreText
      BY <3>2 DEF FetchText, FetchFails, StoreText, TypeOK, Works
    <3>3. CASE Crash
      BY <3>3 DEF Crash, NotWorking
    <3>4. CASE Save
      BY <3>4, SaveStep
    <3> QED
      BY <3>1, <3>2, <3>3, <3>4
      DEF Next, Server, Listener, Worker, Startup, vars, Edit, AnswerIndex, Dial, Subscribe,
          HandleMessage, SkipChange, JoinFolder, Boot, Hydrate, HydrateFails, StartupDone,
          Disconnect
  <2> QED BY <2>1, <2>2, <2>3
<1> QED BY <1>1, <1>2, <1>3, <1>4 DEF Bounds

(* What the worker stores is at least as new as the text that it fetched,  *)
(* or the recorded hash is to blame; other files are left alone.           *)
LEMMA StoreStep ==
  ASSUME IInv, StoreText, NEW d \in Docs, d = worker.doc
  PROVE  /\ text' = text
         /\ \A v \in Versions : v <= worker.text => Excused(d)' \/ Has(d, v)'
         /\ \A e \in Docs \ {d} :
              files'[e] = files[e] /\ (Excused(e) => Excused(e)')
<1> USE DocumentAssumption DEF IInv
<1>1. worker.text \in 1 .. text[d] /\ text[d] \in Nat /\ text' = text
  BY Numbers DEF StoreText, StoreIsNew
<1>2. \/ gap'[d] = "masked"
      \/ files'[d] # 0 /\ Wording[files'[d]] = Wording[worker.text]
  <2>1. files' = files \/ files' = [files EXCEPT ![d] = worker.text]
    BY DEF StoreText
  <2>2. CASE hashes[d] # Wording[worker.text]
    <3>1. files' = [files EXCEPT ![d] = worker.text]
      BY <2>2 DEF StoreText
    <3>2. files'[d] = worker.text
      BY <1>1, <3>1 DEF TypeOK
    <3> QED BY <1>1, <3>2
  <2>3. CASE hashes[d] = Wording[worker.text]
    <3>1. files' = files
      BY <2>3 DEF StoreText
    <3>2. CASE files[d] # 0 /\ Wording[files[d]] = Wording[worker.text]
      BY <3>1, <3>2
    <3>3. CASE ~(files[d] # 0 /\ Wording[files[d]] = Wording[worker.text])
      <4>1. gap' = [gap EXCEPT ![d] = "masked"]
        BY <2>3, <3>3 DEF StoreText
      <4> QED BY <1>1, <4>1 DEF TypeOK
    <3> QED BY <3>2, <3>3
  <2> QED BY <2>2, <2>3
<1>3. ASSUME NEW v \in Versions, v <= worker.text PROVE Excused(d)' \/ Has(d, v)'
  <2>1. worker.text \in v .. text'[d] /\ worker.text # 0
    BY <1>1, <1>3 DEF Versions
  <2> QED BY <1>2, <2>1 DEF Excused, Has
<1>4. ASSUME NEW e \in Docs, e # d
      PROVE  files'[e] = files[e] /\ gap'[e] = gap[e]
  <2>1. files' = files \/ files' = [files EXCEPT ![d] = worker.text]
    BY DEF StoreText
  <2>2. \E g : gap' = [gap EXCEPT ![d] = g]
    BY DEF StoreText
  <2> QED BY <1>4, <2>1, <2>2 DEF TypeOK
<1> QED BY <1>1, <1>3, <1>4 DEF Excused

LEMMA HydratedStep ==
  ASSUME IInv, [Next]_vars, TypeOK'
  PROVE  Hydrated'
<1> USE DocumentAssumption DEF IInv
<1> SUFFICES ASSUME process' # "down", NEW d \in known', d \notin late', d \notin todo'
             PROVE  Excused(d)' \/ Has(d, text[d])'
  BY DEF Hydrated, Excused, Has
<1>1. d \in Docs /\ text[d] \in 0 .. MaxVersion
  BY DEF TypeOK
<1>2. ~Boot
  BY DEF Boot, Stages
<1>3. process # "down" /\ late \subseteq late'
  <2>1. process # "down"
    BY <1>2
    DEF Next, Server, Listener, Worker, Startup, vars, Edit, AnswerIndex, Dial, Subscribe,
        HandleMessage, SkipChange, AdoptHead, TakeChange, Takes, FetchText, FetchFails,
        StoreText, Save, JoinFolder, Hydrate, HydrateFails, StartupDone, Disconnect, Crash
  <2> QED BY <1>2, <2>1, LateGrows
<1>4. d \in known
  <2>3. known' = known \/ \E e \in Docs : JoinFolder(e) /\ known' = known \cup {e}
    BY <1>2
    DEF Next, Server, Listener, Worker, Startup, vars, memory, Edit, AnswerIndex, Dial,
        Subscribe, HandleMessage, SkipChange, AdoptHead, TakeChange, FetchText, FetchFails,
        StoreText, Save, JoinFolder, Hydrate, HydrateFails, StartupDone, Disconnect, Crash
  <2>1. d \in known \/ JoinFolder(d)
    BY <2>3
  <2>2. ~JoinFolder(d)
    BY <1>3 DEF JoinFolder, Stages
  <2> QED BY <2>1, <2>2
<1>5. text[d] # 0 /\ text'[d] = text[d] /\ text'[d] >= text[d]
  BY <1>1, <1>4, TextGrows DEF Stages, Listed
<1>6. CASE Hydrate(d)
  <2>1. files'[d] = text'[d]
    BY <1>1, <1>5, <1>6 DEF Hydrate, TypeOK
  <2>2. text'[d] \in text'[d] .. text'[d]
    BY <1>1, <1>5
  <2> QED BY <1>5, <2>1, <2>2 DEF Has
<1>7. CASE HydrateFails(d)
  <2>1. CASE Has(d, text[d])
    BY <1>1, <1>5, <1>7, <2>1, HasKept DEF HydrateFails, Has
  <2>2. CASE ~Has(d, text[d])
    BY <1>1, <1>7, <2>2 DEF HydrateFails, Excused, TypeOK
  <2> QED BY <2>1, <2>2
<1>8. CASE ~Hydrate(d) /\ ~HydrateFails(d)
  <2>1. d \notin todo
    BY <1>2, <1>8
    DEF Next, Server, Listener, Worker, Startup, vars, Edit, AnswerIndex, Dial, Subscribe,
        HandleMessage, SkipChange, AdoptHead, TakeChange, FetchText, FetchFails, StoreText,
        Save, JoinFolder, Hydrate, HydrateFails, StartupDone, Disconnect, Crash
  <2>2. Excused(d) \/ Has(d, text[d])
    BY <1>3, <1>4, <2>1 DEF Hydrated
  <2>3. CASE ~StoreText
    BY <1>1, <1>5, <2>2, <2>3, FileStep, HasKept DEF Has
  <2>4. CASE StoreText /\ d # worker.doc
    <3>1. worker.doc \in Docs
      BY Numbers
    <3>2. files'[d] = files[d] /\ (Excused(d) => Excused(d)')
      BY <1>1, <2>4, <3>1, StoreStep
    <3> QED BY <1>1, <1>5, <2>2, <3>2, HasKept DEF Has
  <2>5. CASE StoreText /\ d = worker.doc
    <3>1. worker.text = text[d]
      BY <1>3, <2>5 DEF StoreText, StoreIsNew
    <3>2. text[d] \in Versions /\ text[d] <= worker.text
      BY <1>1, <1>5, <3>1 DEF Versions
    <3>3. Excused(d)' \/ (files'[d] # 0 /\ \E u \in text[d] .. text'[d] :
                            u # 0 /\ Wording[files'[d]] = Wording[u])
      BY <1>1, <2>5, <3>2, StoreStep DEF Has, Excused
    <3> QED BY <1>5, <3>3 DEF Has
  <2> QED BY <2>3, <2>4, <2>5
<1> QED BY <1>6, <1>7, <1>8

LEMMA StoreIsNewStep ==
  ASSUME IInv, [Next]_vars, TypeOK'
  PROVE  StoreIsNew'
<1> USE DocumentAssumption DEF IInv
<1> DEFINE New(d) ==
      /\ worker'.text \in 1 .. text'[d]
      /\ worker'.head <= worker'.text
      /\ d \notin late' => worker'.text = text'[d]
      /\ \A v \in Versions : Claimed(d, v)' => v <= worker'.text
<1> SUFFICES ASSUME worker'.pc = "store", NEW d \in Docs, d = worker'.doc
             PROVE  New(d)
  <2>1. worker'.doc \in Docs
    BY DEF TypeOK, Works
  <2> QED BY <2>1 DEF StoreIsNew
<1>1. text[d] \in Nat /\ text'[d] \in Nat /\ text'[d] >= text[d]
  <2>1. text' \in [Docs -> 0 .. MaxVersion]
    BY DEF TypeOK
  <2> QED BY <2>1, Numbers, TextGrows
<1>2. ~StoreText
  BY DEF StoreText, TypeOK, Works
<1>3. CASE FetchText
  <2>1. /\ worker.doc = d /\ worker.pc = "fetch"
        /\ worker'.text = text[d] /\ worker'.head = worker.head /\ text' = text
    BY <1>3 DEF FetchText, TypeOK, Works
  <2>2. worker.head <= text[d] /\ text[d] # 0
    BY <2>1 DEF Bounds, Listed
  <2>3. ASSUME NEW v \in Versions, Claimed(d, v)' PROVE v <= text[d]
    <3>1. ~AnswerIndex
      BY <2>1 DEF AnswerIndex
    <3>2. Claimed(d, v)
      BY <1>2, <2>3, <3>1, ClaimStep
    <3> QED BY <3>2 DEF Promises
  <2> QED BY <1>1, <2>1, <2>2, <2>3
<1>4. CASE worker' = worker
  <2>1. /\ worker.pc = "store" /\ worker.doc = d /\ worker.text \in 1 .. text[d]
        /\ worker.head <= worker.text /\ (d \notin late => worker.text = text[d])
    BY <1>4 DEF StoreIsNew
  <2>2. late \subseteq late'
    <3>1. ~Boot
      BY <2>1 DEF Boot, Stages
    <3> QED BY <3>1, LateGrows
  <2>3. ASSUME NEW v \in Versions, Claimed(d, v)' PROVE v <= worker.text
    <3>1. CASE Claimed(d, v)
      BY <2>1, <3>1 DEF StoreIsNew
    <3>2. CASE AnswerIndex /\ d \in asked \ late /\ v = text[d]
      BY <1>1, <2>1, <3>2
    <3> QED BY <1>2, <2>3, <3>1, <3>2, ClaimStep
  <2>4. d \notin late' => worker.text = text'[d]
    BY <2>1, <2>2, TextGrows
  <2>5. worker.text \in 1 .. text'[d]
    BY <1>1, <2>1
  <2> QED BY <1>4, <2>1, <2>3, <2>4, <2>5
<1>5. worker' = worker \/ FetchText
  <2>1. ASSUME NEW e \in Docs, AdoptHead(e) PROVE FALSE
    BY <2>1 DEF AdoptHead, TypeOK, Works
  <2>3. ASSUME NEW e \in Docs, TakeChange(e) PROVE FALSE
    BY <2>3 DEF TakeChange
  <2>2. CASE FetchFails
    BY <2>2 DEF FetchFails, TypeOK, Works
  <2>4. CASE Crash
    BY <2>4 DEF Crash, NotWorking
  <2>5. CASE Save
    BY <2>5, SaveStep
  <2> QED BY <1>2, <2>1, <2>2, <2>3, <2>4, <2>5
          DEF Next, Server, Listener, Worker, Startup, vars, Edit, AnswerIndex, Dial,
              Subscribe, HandleMessage, SkipChange, JoinFolder, Boot, Hydrate, HydrateFails,
              StartupDone, Disconnect
<1> QED BY <1>3, <1>4, <1>5

LEMMA PromisesStep ==
  ASSUME IInv, [Next]_vars, TypeOK'
  PROVE  Promises'
<1> USE DocumentAssumption DEF IInv
<1> SUFFICES ASSUME NEW d \in Docs, NEW v \in Versions, Claimed(d, v)'
             PROVE  v <= text'[d] /\ (Excused(d)' \/ Has(d, v)')
  BY DEF Promises, Excused, Has
<1>1. /\ text[d] \in Nat /\ text'[d] \in Nat /\ text'[d] >= text[d]
      /\ v \in Nat /\ v # 0 /\ v \in 0 .. MaxVersion
  <2>1. text' \in [Docs -> 0 .. MaxVersion]
    BY DEF TypeOK
  <2> QED BY <2>1, Numbers, TextGrows DEF Versions
<1>2. ASSUME v <= text[d], Excused(d) \/ Has(d, v), ~StoreText
      PROVE  v <= text'[d] /\ (Excused(d)' \/ Has(d, v)')
  <2>1. CASE files'[d] = files[d] /\ (Excused(d) => Excused(d)')
    BY <1>1, <1>2, <2>1, HasKept
  <2>2. CASE files'[d] = text[d] /\ text'[d] = text[d]
    <3>1. text[d] \in v .. text'[d] /\ text[d] # 0
      BY <1>1, <1>2, <2>2
    <3> QED BY <1>1, <1>2, <2>2, <3>1 DEF Has
  <2> QED BY <1>2, <2>1, <2>2, FileStep
<1>3. ASSUME StoreText, d = worker.doc, v <= worker.text
      PROVE  v <= text'[d] /\ (Excused(d)' \/ Has(d, v)')
  <2>1. worker.text \in 1 .. text[d] /\ text' = text
    BY <1>3 DEF StoreText, StoreIsNew
  <2>2. Excused(d)' \/ Has(d, v)'
    BY <1>3, StoreStep
  <2> QED BY <1>1, <1>3, <2>1, <2>2
<1>4. CASE Claimed(d, v)
  <2>1. v <= text[d] /\ (Excused(d) \/ Has(d, v))
    BY <1>4 DEF Promises
  <2>2. CASE StoreText /\ d = worker.doc
    <3>1. v <= worker.text
      BY <1>4, <2>2 DEF StoreText, StoreIsNew
    <3> QED BY <1>3, <2>2, <3>1
  <2>3. CASE StoreText /\ d # worker.doc
    <3>1. worker.doc \in Docs
      BY Numbers
    <3>2. files'[d] = files[d] /\ (Excused(d) => Excused(d)')
      BY <2>3, <3>1, StoreStep
    <3> QED BY <1>1, <2>1, <3>2, HasKept
  <2> QED BY <1>2, <2>1, <2>2, <2>3
<1>5. CASE AnswerIndex /\ d \in asked \ late /\ v = text[d]
  <2>1. process = "serving" /\ todo = {} /\ d \in known /\ d \notin late
    BY <1>5 DEF AnswerIndex, Stages
  <2>2. Excused(d) \/ Has(d, text[d])
    BY <2>1 DEF Hydrated
  <2>3. ~StoreText
    BY <1>5 DEF AnswerIndex, StoreText, TypeOK, Works
  <2> QED BY <1>1, <1>2, <1>5, <2>2, <2>3
<1>6. CASE StoreText /\ d = worker.doc /\ v = worker.head
  <2>1. worker.head <= worker.text
    BY <1>6 DEF StoreText, StoreIsNew
  <2> QED BY <1>3, <1>6, <2>1
<1> QED BY <1>4, <1>5, <1>6, ClaimStep

------------------------------------------------------------------------------

LEMMA InitIInv == Init => IInv
<1> SUFFICES ASSUME Init PROVE IInv
  OBVIOUS
<1> USE DocumentAssumption
<1>1. TypeOK
  <2>1. saved \in Maps
    BY DEF Init, Maps
  <2>2. worker \in Works
    <3>1. (CHOOSE d \in Docs : TRUE) \in Docs
      OBVIOUS
    <3> QED BY <3>1 DEF Init, NotWorking, Works
  <2>3. changes \in [Docs -> Changes]
    BY DEF Init, NoChange, Changes
  <2>4. gap \in [Docs -> Gaps]
    BY DEF Init, Gaps
  <2>5. channel \in Seq(Messages)
    BY DEF Init
  <2>6. failures \in 0 .. MaxFailures /\ drops \in 0 .. MaxDrops /\ crashes \in 0 .. MaxCrashes
    BY DEF Init
  <2>7. text \in [Docs -> 0 .. MaxVersion]
    BY DEF Init
  <2> QED BY <2>1, <2>2, <2>3, <2>4, <2>5, <2>6, <2>7 DEF Init, TypeOK
<1>2. Bounds /\ Stages
  BY <1>1, Numbers DEF Init, Bounds, Stages, Listed, NoChange, NotWorking
<1>3. Hydrated /\ StoreIsNew
  BY DEF Init, Hydrated, StoreIsNew, NotWorking
<1>4. ASSUME NEW d \in Docs, NEW v \in Versions, Claimed(d, v) PROVE FALSE
  <2>1. heads[d] = 0 /\ saved.heads[d] = 0 /\ changes[d] = NoChange /\ Len(channel) = 0
    BY DEF Init
  <2> QED BY <1>4, <2>1 DEF Claimed, Early, NoChange, Versions
<1> QED BY <1>1, <1>2, <1>3, <1>4 DEF IInv, Promises

LEMMA StepIInv == IInv /\ [Next]_vars => IInv'
<1> SUFFICES ASSUME IInv, [Next]_vars PROVE IInv'
  OBVIOUS
<1>1. TypeOK'
  BY TypeStep DEF IInv
<1>2. Stages'
  BY StagesStep DEF IInv
<1> QED BY <1>1, <1>2, BoundsStep, HydratedStep, StoreIsNewStep, PromisesStep DEF IInv

LEMMA IInvHeads == IInv => HeadsHonest
<1> SUFFICES ASSUME IInv, NEW d \in Docs, ~Excused(d)
             PROVE  /\ heads[d] # 0 => Has(d, heads[d])
                    /\ saved.heads[d] # 0 => Has(d, saved.heads[d])
  BY DEF HeadsHonest, Excused
<1>1. heads[d] \in 0 .. MaxVersion /\ saved.heads[d] \in 0 .. MaxVersion
  BY DEF IInv, TypeOK, Maps
<1>2. /\ heads[d] # 0 => heads[d] \in Versions
      /\ saved.heads[d] # 0 => saved.heads[d] \in Versions
  BY <1>1, DocumentAssumption DEF Versions
<1> QED BY <1>2 DEF IInv, Promises, Claimed

(* Every variable keeps its type, and with it its bound, whatever the      *)
(* documents are: websocket_listener.py, operations_queue.py and           *)
(* process_document_change.                                                *)
THEOREM TypeCorrect == Spec => []TypeOK
<1>1. IInv => TypeOK
  BY DEF IInv
<1> QED BY InitIInv, StepIInv, <1>1, PTL DEF Spec

(* A head that process_document_change records, in memory or saved, names  *)
(* a version that the file has or a later one, unless the startup pass     *)
(* could not fetch the document or a stale hash masks the difference.      *)
THEOREM HeadsAreHonest == Spec => []HeadsHonest
BY InitIInv, StepIInv, IInvHeads, PTL DEF Spec

------------------------------------------------------------------------------
(* The mirror at rest.  Unless there is a known reason why the file of a    *)
(* document lacks an edit, the newest edit is awaited or arriving: the      *)
(* index will be asked for the document, or a message tells of the edit,   *)
(* or the change that waits for the worker does; or the worker will store  *)
(* it; or the file has it.  A text that is about to be overwritten does    *)
(* not count.                                                              *)

IndexComes(d) == conn = "off" \/ (conn \in {"dialing", "subscribed"} /\ d \in asked)

OnItsWay(d) == \E i \in 1 .. Len(channel) : channel[i].doc = d /\ channel[i].version = text[d]

Newest(d) == changes[d].kind # "none" /\ text[d] \in {changes[d].head, changes[d].news}

Awaited(d) == IndexComes(d) \/ OnItsWay(d) \/ Newest(d)

Busy(d) == worker.doc = d /\ worker.pc \in {"fetch", "store"}

Arrives(d) ==
  \/ Busy(d) /\ (worker.pc = "store" => worker.text = text[d])
  \/ ~Busy(d) /\ Has(d, text[d])

Arriving == \A d \in known : gap[d] # "none" \/ Awaited(d) \/ Arrives(d)

(* Versions of a document come one after the other, so a message does not  *)
(* replace a newer one in the change that waits.                           *)
Ordered ==
  /\ \A d \in Docs : changes[d].news <= text[d]
  /\ \A i, j \in 1 .. Len(channel) : i < j /\ channel[i].doc = channel[j].doc =>
       channel[i].version <= channel[j].version
  /\ \A i \in 1 .. Len(channel) :
       /\ changes[channel[i].doc].head <= channel[i].version
       /\ changes[channel[i].doc].news <= channel[i].version

RestInv == IInv /\ Ordered /\ Arriving

(* What a message makes of the change of its document. *)
LEMMA HandledChange ==
  ASSUME TypeOK, HandleMessage, NEW m, m = channel[1], NEW d, d = m.doc
  PROVE  /\ 1 \in 1 .. Len(channel) /\ m \in Messages /\ d \in Docs
         /\ \A e \in Docs \ {d} : changes'[e] = changes[e]
         /\ \/ changes'[d] = changes[d] /\ heads[d] = m.version
            \/ /\ changes'[d].kind # "none"
               /\ m.version \in {changes'[d].head, changes'[d].news}
               /\ {changes'[d].head, changes'[d].news} \subseteq {0, m.version, changes[d].head}
<1>1. m = Head(channel) /\ 1 \in 1 .. Len(channel) /\ m \in Messages
  <2>1. channel \in Seq(Messages) /\ channel # <<>>
    BY DEF HandleMessage, TypeOK
  <2> QED BY <2>1
<1>2. d \in Docs /\ changes \in [Docs -> Changes] /\ changes[d] \in Changes
  BY <1>1 DEF Messages, TypeOK
<1>3. PICK new : new = Requested(m)
  OBVIOUS
<1>4. IF new.kind = "none" THEN changes' = changes
      ELSE changes' = [changes EXCEPT ![d] = Merged(@, new)]
  BY <1>1, <1>3 DEF HandleMessage
<1>5. \/ new.kind = "event" /\ new.head = 0 /\ new.news = m.version
      \/ new.kind = "none" /\ heads[d] = m.version
      \/ new.kind \in {"adopt", "fetch"} /\ new.head = m.version /\ new.news = 0
  BY <1>3 DEF Requested, SnapshotKind
<1>6. CASE new.kind = "none"
  BY <1>1, <1>2, <1>4, <1>5, <1>6
<1>7. CASE new.kind # "none"
  <2>1. changes'[d] = Merged(changes[d], new) /\ \A e \in Docs \ {d} : changes'[e] = changes[e]
    BY <1>2, <1>4, <1>7
  <2>2. CASE changes'[d] = new
    BY <1>1, <1>2, <1>5, <1>7, <2>1, <2>2
  <2>3. CASE /\ changes'[d] = [changes[d] EXCEPT !.news = new.news]
             /\ new.kind = "event" /\ changes[d].kind \in {"adopt", "fetch"}
    <3>1. /\ changes'[d].kind = changes[d].kind /\ changes'[d].head = changes[d].head
          /\ changes'[d].news = new.news
      BY <1>2, <2>3 DEF Changes
    <3> QED BY <1>1, <1>2, <1>5, <2>1, <2>3, <3>1
  <2> QED BY <2>1, <2>2, <2>3 DEF Merged
<1> QED BY <1>6, <1>7

LEMMA ChangeMoves ==
  ASSUME TypeOK, [Next]_vars, NEW d \in Docs
  PROVE  \/ changes'[d] = changes[d]
         \/ changes'[d] = NoChange
         \/ /\ HandleMessage /\ 1 \in 1 .. Len(channel) /\ channel[1].doc = d
            /\ {changes'[d].head, changes'[d].news}
                 \subseteq {0, channel[1].version, changes[d].head}
<1>1. CASE HandleMessage
  <2>1. PICK m : m = channel[1]
    OBVIOUS
  <2>2. PICK e : e = m.doc
    OBVIOUS
  <2> QED BY <1>1, <2>1, <2>2, HandledChange
<1>2. ASSUME NEW e \in Docs, Takes(e) PROVE changes'[d] = NoChange \/ changes'[d] = changes[d]
  BY <1>2 DEF Takes, TypeOK
<1>3. CASE Crash
  BY <1>3 DEF Crash
<1>4. changes' = changes \/ HandleMessage \/ Crash \/ \E e \in Docs : Takes(e)
  BY DEF Next, Server, Listener, Worker, Startup, vars, Edit, AnswerIndex, Dial, Subscribe,
         SkipChange, AdoptHead, TakeChange, FetchText, FetchFails, StoreText, Save,
         JoinFolder, Boot, Hydrate, HydrateFails, StartupDone, Disconnect
<1> QED BY <1>1, <1>2, <1>3, <1>4

LEMMA OrderedStep ==
  ASSUME IInv, Ordered, [Next]_vars, TypeOK', Bounds'
  PROVE  Ordered'
<1> USE DocumentAssumption DEF IInv
<1>n. \A d \in Docs : /\ text[d] \in Nat /\ text'[d] \in Nat /\ text[d] <= text'[d]
                      /\ changes[d].head \in Nat /\ changes[d].news \in Nat
                      /\ changes[d].head <= text[d] /\ changes[d].news <= text[d]
                      /\ changes'[d].head \in Nat /\ changes'[d].news \in Nat
  <2>1. ASSUME NEW d \in Docs PROVE text[d] \in Nat /\ text'[d] \in Nat /\ text[d] <= text'[d]
    <3>1. text' \in [Docs -> 0 .. MaxVersion]
      BY DEF TypeOK
    <3> QED BY <3>1, Numbers, TextGrows
  <2>2. \A d \in Docs : changes[d] \in Changes /\ changes'[d] \in Changes
    BY DEF TypeOK
  <2>3. \A c \in Changes : c.head \in Nat /\ c.news \in Nat
    BY DEF Changes
  <2> QED BY <2>1, <2>2, <2>3 DEF Bounds, Ordered
<1>m. \A i \in 1 .. Len(channel) :
        channel[i].doc \in Docs /\ channel[i].version \in Nat
          /\ channel[i].version <= text[channel[i].doc]
  BY Numbers DEF Bounds
<1>1. \A d \in Docs : changes'[d].news <= text'[d]
  <2> SUFFICES ASSUME NEW d \in Docs PROVE changes'[d].news <= text'[d]
    OBVIOUS
  <2>1. CASE changes'[d] = changes[d] \/ changes'[d] = NoChange
    BY <1>n, <2>1 DEF NoChange
  <2>2. CASE /\ 1 \in 1 .. Len(channel) /\ channel[1].doc = d
             /\ {changes'[d].head, changes'[d].news}
                  \subseteq {0, channel[1].version, changes[d].head}
    <3>1. changes'[d].news \in {0, channel[1].version, changes[d].head}
      BY <2>2
    <3>2. channel[1].version \in Nat /\ channel[1].version <= text[d]
      BY <1>m, <2>2
    <3>3. changes'[d].news <= text[d]
      BY <1>n, <3>1, <3>2
    <3> QED BY <1>n, <3>3
  <2> QED BY <2>1, <2>2, ChangeMoves
<1>2. PICK k \in {0, 1} :
        /\ k = 1 <=> HandleMessage
        /\ \A i \in 1 .. Len(channel') : \/ i + k <= Len(channel) /\ channel'[i] = channel[i + k]
                                         \/ i + k > Len(channel) /\ FreshMessage(channel'[i])
  BY ChannelMoves
<1>3. Len(channel) \in Nat /\ Len(channel') \in Nat
  BY DEF TypeOK
<1>4. ASSUME NEW i \in 1 .. Len(channel'), FreshMessage(channel'[i])
      PROVE  channel'[i].doc \in Docs /\ channel'[i].version = text'[channel'[i].doc]
  BY <1>4 DEF FreshMessage, Messages
<1>5. ASSUME NEW i \in 1 .. Len(channel'), NEW j \in 1 .. Len(channel'),
             i < j, channel'[i].doc = channel'[j].doc
      PROVE  channel'[i].version <= channel'[j].version
  <2> DEFINE d == channel'[i].doc
  <2>1. CASE i + k > Len(channel)
    <3>1. j + k > Len(channel)
      BY <1>3, <1>5, <2>1
    <3>2. FreshMessage(channel'[i]) /\ FreshMessage(channel'[j])
      BY <1>2, <1>3, <2>1, <3>1
    <3>3. d \in Docs /\ channel'[i].version = text'[d] /\ channel'[j].version = text'[d]
      BY <1>4, <1>5, <3>2
    <3> QED BY <3>3, <1>n
  <2>2. CASE i + k <= Len(channel) /\ j + k > Len(channel)
    <3>1. channel'[i] = channel[i + k] /\ i + k \in 1 .. Len(channel) /\ FreshMessage(channel'[j])
      BY <1>2, <1>3, <2>2
    <3>2. d \in Docs /\ channel'[j].version = text'[d]
      BY <1>4, <1>5, <3>1
    <3>3. channel'[i].version <= text[d] /\ channel'[i].version \in Nat
      BY <1>m, <3>1
    <3> QED BY <1>n, <3>2, <3>3
  <2>3. CASE i + k <= Len(channel) /\ j + k <= Len(channel)
    <3>1. /\ channel'[i] = channel[i + k] /\ i + k \in 1 .. Len(channel)
          /\ channel'[j] = channel[j + k] /\ j + k \in 1 .. Len(channel) /\ i + k < j + k
      BY <1>2, <1>3, <1>5, <2>3
    <3> QED BY <1>5, <3>1 DEF Ordered
  <2> QED BY <1>3, <2>1, <2>2, <2>3
<1>6. ASSUME NEW i \in 1 .. Len(channel')
      PROVE  /\ changes'[channel'[i].doc].head <= channel'[i].version
             /\ changes'[channel'[i].doc].news <= channel'[i].version
  <2> DEFINE d == channel'[i].doc
  <2>1. CASE i + k > Len(channel)
    <3>1. d \in Docs /\ channel'[i].version = text'[d]
      BY <1>2, <1>3, <1>4, <2>1
    <3>2. changes'[d].head <= text'[d]
      BY <3>1 DEF Bounds
    <3> QED BY <1>1, <3>1, <3>2
  <2>2. CASE i + k <= Len(channel)
    <3>1. channel'[i] = channel[i + k] /\ i + k \in 1 .. Len(channel)
      BY <1>2, <1>3, <2>2
    <3>2. d \in Docs /\ channel'[i].version \in Nat
      BY <1>m, <3>1
    <3>3. changes[d].head <= channel'[i].version /\ changes[d].news <= channel'[i].version
      BY <3>1 DEF Ordered
    <3>4. CASE changes'[d] = changes[d] \/ changes'[d] = NoChange
      BY <3>2, <3>3, <3>4 DEF NoChange
    <3>5. CASE /\ HandleMessage /\ 1 \in 1 .. Len(channel) /\ channel[1].doc = d
               /\ {changes'[d].head, changes'[d].news}
                    \subseteq {0, channel[1].version, changes[d].head}
      <4>1. 1 < i + k
        BY <1>2, <1>3, <3>5
      <4>2. channel[1].version <= channel'[i].version /\ channel[1].version \in Nat
        BY <1>m, <3>1, <3>5, <4>1 DEF Ordered
      <4> QED BY <3>2, <3>3, <3>5, <4>2
    <3> QED BY <3>2, <3>4, <3>5, ChangeMoves
  <2> QED BY <1>3, <2>1, <2>2
<1> QED BY <1>1, <1>5, <1>6 DEF Ordered

(* The newest version, once claimed, is in the file or about to be.         *)
LEMMA HeadArrives ==
  ASSUME IInv, NEW d \in Docs, gap[d] = "none", text[d] # 0, Claimed(d, text[d])
  PROVE  Arrives(d)
<1> USE DocumentAssumption DEF IInv
<1>1. text[d] \in Versions /\ text[d] \in Nat
  BY DEF TypeOK, Versions
<1>2. Has(d, text[d])
  BY <1>1 DEF Promises, Excused
<1>3. CASE Busy(d) /\ worker.pc = "store"
  <2>1. worker.text \in 1 .. text[d] /\ text[d] <= worker.text
    BY <1>1, <1>3 DEF Busy, StoreIsNew
  <2> QED BY <1>1, <1>3, <2>1 DEF Arrives
<1> QED BY <1>2, <1>3 DEF Arrives

(* Messages stay on their way unless the listener takes the first of them,  *)
(* or the connection or the process ends.                                  *)
LEMMA StaysOnItsWay ==
  ASSUME TypeOK, Stages, [Next]_vars, NEW d, OnItsWay(d), text'[d] = text[d],
         ~Disconnect, ~Crash, HandleMessage => ~(channel[1].doc = d /\ channel[1].version = text[d])
  PROVE  OnItsWay(d)'
<1>1. PICK i \in 1 .. Len(channel) : channel[i].doc = d /\ channel[i].version = text[d]
  BY DEF OnItsWay
<1>2. PICK k \in {0, 1} :
        /\ k = 1 <=> HandleMessage
        /\ \A j \in 1 .. Len(channel') : \/ j + k <= Len(channel) /\ channel'[j] = channel[j + k]
                                         \/ j + k > Len(channel) /\ FreshMessage(channel'[j])
        /\ Len(channel') >= Len(channel) - k
  BY ChannelMoves
<1>3. Len(channel) \in Nat
  BY DEF TypeOK
<1>6. Len(channel') \in Nat
  <2>1. CASE HandleMessage
    BY <1>3, <2>1, HeadTailProperties DEF HandleMessage, TypeOK
  <2> QED BY LenProperties, TypeStep
<1>4. k = 1 => i # 1
  BY <1>1, <1>2
<1>5. i - k \in 1 .. Len(channel') /\ i - k + k = i
  BY <1>2, <1>3, <1>4, <1>6
<1>7. channel'[i - k] = channel[i]
  BY <1>2, <1>3, <1>5
<1> QED BY <1>1, <1>5, <1>7 DEF OnItsWay

(* What does not concern a document leaves it as it was. *)
LEMMA StillArriving ==
  ASSUME IInv, [Next]_vars, NEW d \in Docs, Awaited(d) \/ Arrives(d),
         ~Disconnect, ~Crash, ~HandleMessage, ~AnswerIndex \/ d \notin asked,
         text'[d] = text[d], changes'[d] = changes[d], conn' = conn \/ AnswerIndex,
         asked' = asked,
         Arrives(d) => Arrives(d)'
  PROVE  Awaited(d)' \/ Arrives(d)'
<1> USE DEF IInv
<1>1. CASE IndexComes(d)
  <2>1. IndexComes(d)'
    BY <1>1 DEF IndexComes, AnswerIndex
  <2> QED BY <2>1 DEF Awaited
<1>2. CASE OnItsWay(d)
  <2>1. OnItsWay(d)'
    BY <1>2, StaysOnItsWay
  <2> QED BY <2>1 DEF Awaited
<1>3. CASE Newest(d)
  <2>1. Newest(d)'
    BY <1>3 DEF Newest
  <2> QED BY <2>1 DEF Awaited
<1> QED BY <1>1, <1>2, <1>3 DEF Awaited

(* An edit is heard, or the index tells of it later, or its loss is noted.   *)
LEMMA EditArrives ==
  ASSUME IInv, [Next]_vars, TypeOK', NEW e \in Docs, Edit(e), NEW d \in known,
         gap'[d] = "none", gap[d] # "none" \/ Awaited(d) \/ Arrives(d)
  PROVE  Awaited(d)' \/ Arrives(d)'
<1> USE DocumentAssumption DEF IInv
<1>1. d \in Docs /\ text[d] \in Nat /\ channel \in Seq(Messages) /\ Len(channel) \in Nat
  BY Numbers DEF TypeOK
<1>2. CASE d = e
  <2> DEFINE m == [kind |-> "event", doc |-> d, version |-> text[d] + 1]
  <2>1. text'[d] = text[d] + 1 /\ m \in Messages
    BY <1>1, <1>2 DEF Edit, Messages, Versions, TypeOK
  <2>2. conn \in {"subscribed", "answered"}
    BY <1>1, <1>2 DEF Edit, Missed, TypeOK
  <2>3. channel' = Append(channel, m)
    BY <1>2, <2>2 DEF Edit
  <2>4. m.doc = d /\ m.version = text'[d]
    BY <2>1
  <2> HIDE DEF m
  <2>5. Len(channel') = Len(channel) + 1 /\ channel'[Len(channel) + 1] = m
    BY <1>1, <2>1, <2>3, AppendProperties
  <2>6. Len(channel) + 1 \in 1 .. Len(channel')
    BY <1>1, <2>5
  <2>7. OnItsWay(d)'
    BY <2>4, <2>5, <2>6 DEF OnItsWay
  <2> QED BY <2>7 DEF Awaited
<1>3. CASE d # e
  <2>1. /\ text'[d] = text[d] /\ gap'[d] = gap[d] /\ changes' = changes /\ conn' = conn
        /\ asked' = asked /\ worker' = worker /\ files' = files
    BY <1>1, <1>3 DEF Edit, TypeOK
  <2>2. Arrives(d) => Arrives(d)'
    BY <2>1 DEF Arrives, Busy, Has
  <2>3. ~Disconnect /\ ~Crash /\ ~HandleMessage /\ ~AnswerIndex
    <3>1. text'[e] = text[e] + 1 /\ text[e] \in Nat
      BY Numbers DEF Edit, TypeOK
    <3>2. text' # text
      BY <3>1
    <3> QED BY <3>2 DEF Disconnect, Crash, HandleMessage, AnswerIndex
  <2> QED BY <1>1, <2>1, <2>2, <2>3, StillArriving
<1> QED BY <1>2, <1>3

(* The index answers for every document asked for. *)
LEMMA IndexArrives ==
  ASSUME IInv, [Next]_vars, TypeOK', AnswerIndex, NEW d \in known,
         gap'[d] = "none", gap[d] # "none" \/ Awaited(d) \/ Arrives(d)
  PROVE  Awaited(d)' \/ Arrives(d)'
<1> USE DEF IInv
<1>1. d \in Docs /\ channel \in Seq(Messages) /\ Len(channel) \in Nat
  BY DEF TypeOK
<1>2. CASE d \in asked
  <2>1. PICK answer \in Seq(Messages) :
          /\ channel' = channel \o answer
          /\ \A j \in 1 .. Len(answer) : FreshMessage(answer[j])
          /\ \E j \in 1 .. Len(answer) : answer[j].doc = d
    BY <1>2, AnswerStep
  <2>2. PICK j \in 1 .. Len(answer) : answer[j].doc = d
    BY <2>1
  <2>3. Len(answer) \in Nat /\ Len(channel') = Len(channel) + Len(answer)
    BY <1>1, <2>1, ConcatProperties
  <2>4. PICK i \in Nat : i = Len(channel) + j
    BY <1>1, <2>3
  <2>5. i \in 1 .. Len(channel) + Len(answer) /\ ~(i <= Len(channel)) /\ i - Len(channel) = j
    BY <1>1, <2>3, <2>4
  <2>6. channel'[i] = IF i <= Len(channel) THEN channel[i] ELSE answer[i - Len(channel)]
    BY <1>1, <2>1, <2>5, ConcatProperties
  <2>7. channel'[i] = answer[j] /\ i \in 1 .. Len(channel')
    BY <2>3, <2>5, <2>6
  <2>8. answer[j].version = text'[d]
    BY <2>1, <2>2 DEF FreshMessage
  <2>9. OnItsWay(d)'
    BY <2>2, <2>7, <2>8 DEF OnItsWay
  <2> QED BY <2>9 DEF Awaited
<1>3. CASE d \notin asked
  <2>1. /\ text' = text /\ changes' = changes /\ asked' = asked /\ worker' = worker
        /\ files' = files /\ gap'[d] = gap[d]
    BY <1>1, <1>3 DEF AnswerIndex
  <2>2. Arrives(d) => Arrives(d)'
    BY <2>1 DEF Arrives, Busy, Has
  <2>3. ~Disconnect /\ ~Crash /\ ~HandleMessage
    BY DEF AnswerIndex, Disconnect, Crash, HandleMessage
  <2> QED BY <1>1, <1>3, <2>1, <2>2, <2>3, StillArriving
<1> QED BY <1>2, <1>3

(* The newest version goes from the channel into the change, unless the    *)
(* recorded head is that version already.                                  *)
LEMMA MessageArrives ==
  ASSUME IInv, Ordered, [Next]_vars, TypeOK', HandleMessage, NEW d \in known,
         gap'[d] = "none", Awaited(d) \/ Arrives(d)
  PROVE  Awaited(d)' \/ Arrives(d)'
<1> USE DEF IInv
<1>1. /\ text' = text /\ gap' = gap /\ conn' = conn /\ asked' = asked /\ worker' = worker
      /\ files' = files /\ heads' = heads
  BY DEF HandleMessage, memory
<1>2. d \in Docs /\ text[d] # 0 /\ text[d] \in Nat
  BY Numbers DEF Stages, Listed, TypeOK
<1>3. Arrives(d) => Arrives(d)'
  BY <1>1 DEF Arrives, Busy, Has
<1>4. IndexComes(d) => IndexComes(d)'
  BY <1>1 DEF IndexComes
<1>5. PICK m : m = channel[1]
  OBVIOUS
<1>6. PICK e : e = m.doc
  OBVIOUS
<1>7. /\ 1 \in 1 .. Len(channel)
      /\ d # e => changes'[d] = changes[d]
      /\ \/ changes'[e] = changes[e] /\ heads[e] = m.version
         \/ /\ changes'[e].kind # "none"
            /\ m.version \in {changes'[e].head, changes'[e].news}
  BY <1>2, <1>5, <1>6, HandledChange
<1>8. CASE d = e /\ m.version = text[d]
  <2>1. CASE heads[d] = text[d]
    <3>1. Arrives(d)
      BY <1>1, <1>2, <2>1, HeadArrives DEF Claimed
    <3> QED BY <1>3, <3>1
  <2>2. CASE changes'[d].kind # "none" /\ m.version \in {changes'[d].head, changes'[d].news}
    <3>1. Newest(d)'
      BY <1>1, <1>8, <2>2 DEF Newest
    <3> QED BY <3>1 DEF Awaited
  <2> QED BY <1>7, <1>8, <2>1, <2>2
<1>9. CASE ~(d = e /\ m.version = text[d])
  <2>1. CASE OnItsWay(d)
    <3>1. ~Disconnect /\ ~Crash
      <4>1. process' = process
        BY DEF HandleMessage
      <4>2. ~Crash
        BY <4>1 DEF Crash
      <4>3. ~Disconnect
        BY <1>1 DEF Disconnect
      <4> QED BY <4>2, <4>3
    <3>2. OnItsWay(d)'
      BY <1>1, <1>5, <1>6, <1>9, <2>1, <3>1, StaysOnItsWay
    <3> QED BY <3>2 DEF Awaited
  <2>2. CASE Newest(d)
    <3>1. d # e
      <4> SUFFICES ASSUME d = e PROVE FALSE
        OBVIOUS
      <4>1. m.version \in Nat /\ m.version <= text[d]
        BY <1>5, <1>6, <1>7, Numbers DEF Bounds
      <4>2. changes[d].head <= m.version /\ changes[d].news <= m.version
        BY <1>5, <1>6, <1>7 DEF Ordered
      <4>3. text[d] <= m.version
        BY <2>2, <4>2 DEF Newest
      <4> QED BY <1>2, <1>9, <4>1, <4>3
    <3>2. Newest(d)'
      BY <1>1, <1>7, <2>2, <3>1 DEF Newest
    <3> QED BY <3>2 DEF Awaited
  <2> QED BY <1>3, <1>4, <2>1, <2>2 DEF Awaited
<1> QED BY <1>8, <1>9

(* A change that is dropped, or whose head is adopted, is worth nothing more *)
(* than the file has, or its loss is noted.                                *)
LEMMA DroppedArrives ==
  ASSUME IInv, [Next]_vars, NEW d \in known, gap'[d] = "none",
         SkipChange(d) \/ AdoptHead(d), Awaited(d) \/ Arrives(d)
  PROVE  Awaited(d)' \/ Arrives(d)'
<1> USE DEF IInv
<1>1. /\ text' = text /\ conn' = conn /\ asked' = asked /\ channel' = channel
      /\ files' = files /\ worker.pc = "idle" /\ worker'.pc \in {"idle", "save"}
  BY DEF SkipChange, AdoptHead, Takes, socket, TypeOK, Works
<1>2. d \in Docs /\ text[d] # 0 /\ text[d] \in Nat /\ gap[d] = "none"
  <2>1. d \in Docs /\ text[d] # 0 /\ text[d] \in Nat
    BY Numbers DEF Stages, Listed, TypeOK
  <2>2. gap' = gap \/ gap' = [gap EXCEPT ![d] = Missed(@)]
    BY DEF SkipChange, AdoptHead
  <2> QED BY <2>1, <2>2 DEF Missed, TypeOK
<1>3. Has(d, text[d]) => Arrives(d)'
  BY <1>1 DEF Arrives, Busy, Has
<1>4. Arrives(d) => Has(d, text[d])
  BY <1>1 DEF Arrives, Busy
<1>5. (IndexComes(d) => IndexComes(d)') /\ (OnItsWay(d) => OnItsWay(d)')
  BY <1>1 DEF IndexComes, OnItsWay
<1>6. CASE Newest(d)
  <2>1. CASE text[d] = changes[d].head
    <3>1. Claimed(d, text[d])
      BY <1>2, <2>1 DEF SkipChange, CarriesPersistedHead, AdoptHead, Claimed
    <3>2. Arrives(d)
      BY <1>2, <3>1, HeadArrives
    <3> QED BY <1>3, <1>4, <3>2
  <2>2. CASE text[d] = changes[d].news
    <3>1. ~NewsLost(d)
      BY <1>2 DEF SkipChange, AdoptHead, Missed, TypeOK
    <3>2. Has(d, text[d])
      BY <1>2, <2>2, <3>1 DEF NewsLost
    <3> QED BY <1>3, <3>2
  <2> QED BY <1>6, <2>1, <2>2 DEF Newest
<1> QED BY <1>3, <1>4, <1>5, <1>6 DEF Awaited

(* The worker keeps the newest text it has in hand, and stores it. *)
LEMMA WorkerArrives ==
  ASSUME IInv, Arriving, [Next]_vars, TypeOK', NEW d \in known, gap'[d] = "none",
         FetchText \/ FetchFails \/ StoreText \/ Save
  PROVE  Awaited(d)' \/ Arrives(d)'
<1> USE DEF IInv
<1>1. /\ text' = text /\ conn' = conn /\ asked' = asked /\ channel' = channel
      /\ changes' = changes
  BY DEF FetchText, FetchFails, StoreText, Save, socket
<1>2. d \in Docs /\ text[d] # 0 /\ text[d] \in Nat /\ worker.doc \in Docs
  BY Numbers DEF Stages, Listed, TypeOK
<1>3. Awaited(d) => Awaited(d)'
  BY <1>1 DEF Awaited, IndexComes, OnItsWay, Newest
<1>4. gap[d] = "none" => Awaited(d) \/ Arrives(d)
  BY DEF Arriving
<1>5. CASE FetchText
  <2>1. /\ gap' = gap /\ files' = files /\ worker'.pc = "store" /\ worker.pc = "fetch"
        /\ worker'.doc = worker.doc /\ worker'.text = text[worker.doc]
    BY <1>5 DEF FetchText, TypeOK, Works
  <2>2. Arrives(d) => Arrives(d)'
    BY <1>1, <2>1 DEF Arrives, Busy, Has
  <2> QED BY <1>3, <1>4, <2>1, <2>2
<1>6. CASE FetchFails
  <2>1. /\ files' = files /\ worker'.pc = "save" /\ worker.pc = "fetch"
    BY <1>6 DEF FetchFails, TypeOK, Works
  <2>2. CASE d = worker.doc
    <3>1. Has(d, text[d])
      BY <1>2, <1>6, <2>2 DEF FetchFails, Missed, TypeOK
    <3> QED BY <1>1, <2>1, <3>1 DEF Arrives, Busy, Has
  <2>3. CASE d # worker.doc
    <3>1. gap'[d] = gap[d]
      BY <1>2, <1>6, <2>3 DEF FetchFails, TypeOK
    <3>2. Arrives(d) => Arrives(d)'
      BY <1>1, <2>1, <2>3 DEF Arrives, Busy, Has
    <3> QED BY <1>3, <1>4, <3>1, <3>2
  <2> QED BY <2>2, <2>3
<1>7. CASE StoreText
  <2>1. worker.pc = "store" /\ worker'.pc = "save"
    BY <1>7 DEF StoreText, TypeOK, Works
  <2>2. CASE d = worker.doc /\ worker.text = text[d]
    <3>1. text[d] \in Versions /\ text[d] <= worker.text
      <4>1. text[d] \in 0 .. MaxVersion /\ MaxVersion \in Nat
        BY <1>2, DocumentAssumption DEF TypeOK
      <4> QED BY <1>2, <2>2, <4>1 DEF Versions
    <3>2. Has(d, text[d])'
      BY <1>1, <1>2, <1>7, <2>2, <3>1, StoreStep DEF Excused, Has
    <3> QED BY <1>1, <2>1, <3>2 DEF Arrives, Busy
  <2>3. CASE d = worker.doc /\ worker.text # text[d]
    <3>1. gap[d] = "none"
      BY <1>2, <1>7, <2>3 DEF StoreText, TypeOK
    <3>2. ~Arrives(d)
      BY <2>1, <2>3 DEF Arrives, Busy
    <3> QED BY <1>3, <1>4, <3>1, <3>2
  <2>4. CASE d # worker.doc
    <3>1. gap'[d] = gap[d] /\ files'[d] = files[d]
      <4>1. \E g : gap' = [gap EXCEPT ![worker.doc] = g]
        BY <1>7 DEF StoreText
      <4>2. files' = files \/ files' = [files EXCEPT ![worker.doc] = worker.text]
        BY <1>7 DEF StoreText
      <4> QED BY <1>2, <2>4, <4>1, <4>2 DEF TypeOK
    <3>2. Arrives(d) => Arrives(d)'
      BY <1>1, <2>1, <2>4, <3>1 DEF Arrives, Busy, Has
    <3> QED BY <1>3, <1>4, <3>1, <3>2
  <2> QED BY <2>2, <2>3, <2>4
<1>8. CASE Save
  <2>1. /\ gap' = gap /\ files' = files /\ worker.pc \in {"save", "heads"}
        /\ worker'.pc \in {"heads", "idle"}
    BY <1>8, SaveStep DEF Save
  <2>2. Arrives(d) => Arrives(d)'
    BY <1>1, <2>1 DEF Arrives, Busy, Has
  <2> QED BY <1>3, <1>4, <2>1, <2>2
<1> QED BY <1>5, <1>6, <1>7, <1>8

LEMMA ArrivingStep ==
  ASSUME IInv, Ordered, Arriving, [Next]_vars, TypeOK', Stages'
  PROVE  Arriving'
<1> USE DEF IInv
<1> SUFFICES ASSUME NEW d \in known', gap'[d] = "none"
             PROVE  Awaited(d)' \/ Arrives(d)'
  <2>1. \A d \in known' : gap'[d] = "none" => Awaited(d)' \/ Arrives(d)'
    OBVIOUS
  <2> QED BY <2>1 DEF Arriving
<1>off. ASSUME conn' = "off" PROVE Awaited(d)'
  BY <1>off DEF Awaited, IndexComes
<1>old. d \in known => gap[d] # "none" \/ Awaited(d) \/ Arrives(d)
  BY DEF Arriving
<1>doc. d \in Docs
  BY DEF TypeOK
<1>1. ASSUME NEW e \in Docs, Edit(e) PROVE Awaited(d)' \/ Arrives(d)'
  BY <1>1, <1>old, EditArrives DEF Edit, memory
<1>2. CASE AnswerIndex
  BY <1>2, <1>old, IndexArrives DEF AnswerIndex, memory
<1>3. CASE Disconnect \/ Crash
  BY <1>3, <1>off DEF Disconnect, Crash
<1>4. CASE Dial
  <2>1. IndexComes(d)'
    BY <1>4 DEF Dial, IndexComes, memory
  <2> QED BY <2>1 DEF Awaited
<1>5. CASE Subscribe
  <2>1. /\ UNCHANGED <<text, known, gap, asked, channel, changes, worker, files>>
        /\ conn = "dialing" /\ conn' = "subscribed"
    BY <1>5 DEF Subscribe, memory
  <2>2. Awaited(d) => Awaited(d)'
    BY <2>1 DEF Awaited, IndexComes, OnItsWay, Newest
  <2>3. Arrives(d) => Arrives(d)'
    BY <2>1 DEF Arrives, Busy, Has
  <2> QED BY <1>old, <2>1, <2>2, <2>3
<1>6. CASE HandleMessage
  <2>1. d \in known /\ gap' = gap
    BY <1>6 DEF HandleMessage, memory
  <2> QED BY <1>6, <1>old, <2>1, MessageArrives
<1>7. ASSUME NEW e \in Docs, SkipChange(e) \/ AdoptHead(e) PROVE Awaited(d)' \/ Arrives(d)'
  <2>1. d \in known
    BY <1>7 DEF SkipChange, AdoptHead, memory
  <2>2. CASE d = e
    <3>1. gap' = gap \/ gap' = [gap EXCEPT ![d] = Missed(@)]
      BY <1>7, <2>2 DEF SkipChange, AdoptHead
    <3>2. gap[d] = "none"
      BY <1>doc, <3>1 DEF Missed, TypeOK
    <3> QED BY <1>7, <1>old, <2>1, <2>2, <3>2, DroppedArrives
  <2>3. CASE d # e
    <3>1. /\ UNCHANGED <<text, conn, asked, channel, files>> /\ worker.pc = "idle"
          /\ worker'.pc \in {"idle", "save"} /\ changes'[d] = changes[d]
      BY <1>7, <1>doc, <2>3 DEF SkipChange, AdoptHead, Takes, socket, TypeOK, Works
    <3>2. gap'[d] = gap[d]
      BY <1>7, <1>doc, <2>3 DEF SkipChange, AdoptHead, TypeOK
    <3>3. Awaited(d) => Awaited(d)'
      BY <3>1 DEF Awaited, IndexComes, OnItsWay, Newest
    <3>4. Arrives(d) => Arrives(d)'
      BY <3>1 DEF Arrives, Busy, Has
    <3> QED BY <1>old, <2>1, <3>2, <3>3, <3>4
  <2> QED BY <2>2, <2>3
<1>8. ASSUME NEW e \in Docs, TakeChange(e) PROVE Awaited(d)' \/ Arrives(d)'
  <2>1. /\ UNCHANGED <<text, conn, asked, channel, files, known, gap>> /\ worker.pc = "idle"
        /\ worker'.pc = "fetch" /\ worker'.doc = e
    BY <1>8 DEF TakeChange, Takes, socket, memory
  <2>2. CASE d = e
    BY <2>1, <2>2 DEF Arrives, Busy
  <2>3. CASE d # e
    <3>1. changes'[d] = changes[d]
      BY <1>8, <1>doc, <2>3 DEF TakeChange, Takes, TypeOK
    <3>3. Awaited(d) => Awaited(d)'
      BY <2>1, <3>1 DEF Awaited, IndexComes, OnItsWay, Newest
    <3>4. Arrives(d) => Arrives(d)'
      BY <2>1, <2>3 DEF Arrives, Busy, Has
    <3> QED BY <1>old, <2>1, <3>3, <3>4
  <2> QED BY <2>2, <2>3
<1>9. CASE FetchText \/ FetchFails \/ StoreText \/ Save
  <2>1. d \in known
    BY <1>9 DEF FetchText, FetchFails, StoreText, Save, memory
  <2> QED BY <1>9, <2>1, WorkerArrives
<1>10. ASSUME NEW e \in Docs, JoinFolder(e) PROVE Awaited(d)' \/ Arrives(d)'
  <2>1. /\ UNCHANGED <<text, conn, asked, channel, changes, worker>> /\ worker.pc = "idle"
    BY <1>10 DEF JoinFolder, socket
  <2>2. CASE d = e
    <3>1. files'[d] = text'[d] /\ text'[d] # 0 /\ text'[d] \in Nat
      BY <1>10, <1>doc, <2>1, <2>2, Numbers DEF JoinFolder, Missed, Listed, TypeOK
    <3>2. text'[d] \in text'[d] .. text'[d]
      BY <3>1
    <3>3. Has(d, text[d])'
      BY <3>1, <3>2 DEF Has
    <3> QED BY <2>1, <3>3 DEF Arrives, Busy
  <2>3. CASE d # e
    <3>1. d \in known /\ gap'[d] = gap[d] /\ files'[d] = files[d]
      BY <1>10, <1>doc, <2>3 DEF JoinFolder, TypeOK
    <3>3. Awaited(d) => Awaited(d)'
      BY <2>1 DEF Awaited, IndexComes, OnItsWay, Newest
    <3>4. Arrives(d) => Arrives(d)'
      BY <2>1, <3>1 DEF Arrives, Busy, Has
    <3> QED BY <1>old, <3>1, <3>3, <3>4
  <2> QED BY <2>2, <2>3
<1>11. CASE Startup
  <2>1. process # "serving" /\ conn' = conn
    BY <1>11 DEF Startup, Boot, Hydrate, HydrateFails, StartupDone, socket
  <2> QED BY <1>off, <2>1 DEF Stages
<1>12. CASE UNCHANGED vars
  <2>1. UNCHANGED <<text, known, gap, conn, asked, channel, changes, worker, files>>
    BY <1>12 DEF vars, memory, socket
  <2>2. Awaited(d) => Awaited(d)'
    BY <2>1 DEF Awaited, IndexComes, OnItsWay, Newest
  <2>3. Arrives(d) => Arrives(d)'
    BY <2>1 DEF Arrives, Busy, Has
  <2> QED BY <1>old, <2>1, <2>2, <2>3
<1> QED
  BY <1>1, <1>2, <1>3, <1>4, <1>5, <1>6, <1>7, <1>8, <1>9, <1>10, <1>11, <1>12
  DEF Next, Server, Listener, Worker

LEMMA InitRest == Init => RestInv
<1> SUFFICES ASSUME Init PROVE RestInv
  OBVIOUS
<1>1. IInv
  BY InitIInv
<1>2. Arriving
  BY DEF Init, Arriving
<1>3. Ordered
  <2>1. \A d \in Docs : changes[d].news = 0 /\ text[d] \in Nat
    BY DEF Init, NoChange
  <2>2. Len(channel) = 0
    BY DEF Init
  <2> QED BY <2>1, <2>2 DEF Ordered
<1> QED BY <1>1, <1>2, <1>3 DEF RestInv

LEMMA StepRest == RestInv /\ [Next]_vars => RestInv'
<1> SUFFICES ASSUME RestInv, [Next]_vars PROVE RestInv'
  OBVIOUS
<1>1. IInv'
  BY StepIInv DEF RestInv
<1> QED BY <1>1, OrderedStep, ArrivingStep DEF RestInv, IInv

LEMMA RestIsQuiet == RestInv => QuietMirror
<1> SUFFICES ASSUME RestInv, AtRest, NEW d \in known, gap[d] = "none"
             PROVE  Has(d, text[d])
  BY DEF QuietMirror
<1>1. Awaited(d) \/ Arrives(d)
  BY DEF RestInv, Arriving
<1>2. d \in Docs /\ Len(channel) = 0
  BY DEF RestInv, IInv, TypeOK, AtRest
<1>3. ~Awaited(d)
  BY <1>2 DEF AtRest, Awaited, IndexComes, OnItsWay, Newest
<1>4. ~Busy(d)
  BY DEF AtRest, Busy
<1> QED BY <1>1, <1>3, <1>4 DEF Arrives

(* When the connection is up and nothing is on its way, the file of a known *)
(* document has the server's text, or the reason why it lacks an edit is   *)
(* one of those that are known: a fetch failed, the change was dropped or  *)
(* lost after the index had answered, or a stale hash masks the text; for  *)
(* any documents, edits, disconnections and crashes.                       *)
THEOREM MirrorIsQuiet == Spec => []QuietMirror
BY InitRest, StepRest, RestIsQuiet, PTL DEF Spec
==============================================================================
