-------------------------- MODULE FolderSyncProofs --------------------------
(***************************************************************************)
(* FolderSync, for any folder, documents and bounds.                       *)
(*                                                                         *)
(* 1. A pass that is not gated leaves no file the folder does not list     *)
(*    (IInv): deletes are planned from the files that are there once       *)
(*    creates and renames are done, and what comes after writes to listed  *)
(*    paths only.                                                          *)
(* 2. Every variable keeps its type (Typed): the record of an operation    *)
(*    and the sequence that stands for local_file_state included.          *)
(* 3. A pass costs no more files than the gate permits (Planned, Counting). *)
(* 4. Every listed document is in its place when a pass ends (Sane,        *)
(*    Reliable): a document is listed once, a rename finds its source as   *)
(*    it was planned, and nothing takes a place in use.                    *)
(* 5. When nothing is pending, the mirror is the folder (PlainEntries,     *)
(*    Known, Noticed, Follows, Holding, Serving, Settling): a path is      *)
(*    right, or an operation of the pass or an event to come will set it   *)
(*    right; a pass is about the folder as it is, or the folder is pending. *)
(***************************************************************************)
EXTENDS FolderSync, Extrema, FiniteSetTheorems, SequenceTheorems, TLAPS

Shape ==
  /\ DOMAIN disk = Paths
  /\ DOMAIN pass = {"pc", "meta", "todo", "deletes", "verdict", "before"}
  /\ DOMAIN NoPass = DOMAIN pass

(* While creates and renames run, they only write where the folder lists. *)
WritesListed == pass.pc \in {"create", "rest"} => \A o \in pass.todo : o.path \in Listed(pass.meta)

(* Once the deletes are planned, they cover every file that is not listed. *)
StrangersDoomed ==
  pass.pc = "rest" /\ Accepted => Present \ Listed(pass.meta) \subseteq pass.deletes

(* What goes straight to the save was refused. *)
RefusedIsGated == pass.pc = "save" => ~Accepted

IInv == Shape /\ WritesListed /\ StrangersDoomed /\ RefusedIsGated

------------------------------------------------------------------------------

(* What a planned operation writes is the path it was planned for. *)
LEMMA OperationPath == ASSUME NEW meta, NEW p PROVE Operation(meta, p).path = p
BY DEF Operation

(* Planning a pass over listed paths establishes the invariant. *)
LEMMA PlanGood ==
  ASSUME IInv, NEW meta, NEW paths \in SUBSET Listed(meta),
         pass' = PlanPass(meta, paths), UNCHANGED disk
  PROVE  IInv'
<1>1. CASE Listed(meta) = {} /\ Present # {}
  BY <1>1 DEF IInv, Shape, WritesListed, StrangersDoomed, RefusedIsGated, PlanPass, NoPass, Accepted
<1>2. CASE ~(Listed(meta) = {} /\ Present # {})
  <2> DEFINE plan == {o \in {Operation(meta, p) : p \in paths} : o.kind # "noop"}
  <2>1. pass' = [NoPass EXCEPT !.pc = "create", !.meta = meta, !.verdict = "accepted",
                               !.before = Cardinality(Present), !.todo = plan]
    BY <1>2 DEF PlanPass
  <2>2. pass'.pc = "create" /\ pass'.meta = meta /\ pass'.todo = plan
    BY <2>1 DEF NoPass
  <2>3. \A o \in plan : o.path \in Listed(meta)
    BY OperationPath
  <2> HIDE DEF plan
  <2>4. Shape'
    BY <2>1 DEF IInv, Shape, NoPass
  <2>5. WritesListed'
    BY <2>2, <2>3 DEF WritesListed, Listed
  <2> QED
    BY <2>2, <2>4, <2>5 DEF IInv, StrangersDoomed, RefusedIsGated
<1> QED BY <1>1, <1>2

(* The end of a pass establishes the invariant. *)
LEMMA NoPassGood ==
  ASSUME IInv, pass' = NoPass, UNCHANGED disk
  PROVE  IInv'
BY DEF IInv, Shape, WritesListed, StrangersDoomed, RefusedIsGated, NoPass, Accepted

(* Between passes the files may change freely. *)
LEMMA IdleGood ==
  ASSUME IInv, pass.pc = "idle", UNCHANGED pass, DOMAIN disk' = Paths
  PROVE  IInv'
BY DEF IInv, Shape, WritesListed, StrangersDoomed, RefusedIsGated, NoPass, Accepted

(* An operation that was carried out wrote at most its own path. *)
LEMMA WriteGood ==
  ASSUME IInv, NEW o \in pass.todo, pass.pc \in {"create", "rest"}, WriteOperation(o)
  PROVE  IInv'
<1>1. /\ pass' = Done(o)
      /\ DOMAIN disk' = Paths
      /\ \A p \in Paths \ {o.path} : disk'[p] = disk[p]
  BY DEF WriteOperation, IInv, Shape
<1>2. /\ pass'.pc = pass.pc /\ pass'.meta = pass.meta /\ pass'.verdict = pass.verdict
      /\ pass'.deletes = pass.deletes /\ pass'.todo = pass.todo \ {o}
      /\ DOMAIN pass' = DOMAIN pass
  BY <1>1 DEF Done, IInv, Shape
<1>3. o.path \in Listed(pass.meta)
  BY DEF IInv, WritesListed
<1>4. Present' \ Listed(pass.meta) \subseteq Present \ Listed(pass.meta)
  BY <1>1, <1>3 DEF Present, Listed
<1>5. Listed(pass.meta)' = Listed(pass.meta)
  BY <1>2 DEF Listed
<1> QED
  BY <1>1, <1>2, <1>4, <1>5
  DEF IInv, Shape, WritesListed, StrangersDoomed, RefusedIsGated, Accepted, NoPass

------------------------------------------------------------------------------

LEMMA InitGood == Init => IInv
BY DEF Init, IInv, Shape, WritesListed, StrangersDoomed, RefusedIsGated, NoPass, Accepted

LEMMA StepGood == IInv /\ [Next]_vars => IInv'
<1> SUFFICES ASSUME IInv, [Next]_vars PROVE IInv'
  OBVIOUS
<1> USE DEF server, state, notifications
<1>1. CASE Users
  <2>1. UNCHANGED <<pass, disk>>
    BY <1>1 DEF Users, Edit, Revert, Add, Replace, Unlist, MoveRemote, ChangeText, ChangeFolder
  <2> QED
    BY <2>1 DEF IInv, Shape, WritesListed, StrangersDoomed, RefusedIsGated, Present, Listed, Accepted
<1>2. CASE StartupPass
  BY <1>2, PlanGood DEF StartupPass
<1>3. CASE StartupFails
  BY <1>3, IdleGood DEF StartupFails, IInv, Shape
<1>4. CASE FolderEvent
  <2>1. Changed(filemeta, remoteMeta) \subseteq Listed(remoteMeta)
    BY DEF Changed
  <2>2. pass.pc = "idle" /\ UNCHANGED disk
    BY <1>4 DEF FolderEvent
  <2>3. CASE pass' = PlanPass(remoteMeta, Changed(filemeta, remoteMeta))
    BY <2>1, <2>2, <2>3, PlanGood
  <2>4. CASE UNCHANGED pass
    BY <2>2, <2>4, IdleGood DEF IInv, Shape
  <2> QED
    BY <1>4, <2>3, <2>4 DEF FolderEvent
<1>5. CASE CreateFile
  BY <1>5, WriteGood DEF CreateFile, Pending
<1>6. CASE RenameFile
  <2>1. PICK o \in Pending("rename") :
          /\ pass.pc = "create" /\ pass' = Done(o)
          /\ DOMAIN disk' = DOMAIN disk
    BY <1>6 DEF RenameFile
  <2>2. /\ pass'.pc = "create" /\ pass'.meta = pass.meta /\ pass'.todo = pass.todo \ {o}
        /\ DOMAIN pass' = DOMAIN pass
    BY <2>1 DEF Done, IInv, Shape
  <2> QED
    BY <2>1, <2>2 DEF IInv, Shape, WritesListed, StrangersDoomed, RefusedIsGated, Listed, NoPass
<1>7. CASE PlanDeletes
  <2> DEFINE extra == Present \ Listed(pass.meta)
  <2>1. /\ pass'.pc = "rest" /\ pass'.meta = pass.meta /\ pass'.todo = pass.todo
        /\ DOMAIN pass' = DOMAIN pass /\ UNCHANGED disk /\ pass.pc = "create"
    BY <1>7 DEF PlanDeletes, IInv, Shape
  <2>2. pass'.verdict = "accepted" => pass'.deletes = extra
    BY <1>7 DEF PlanDeletes, IInv, Shape
  <2> QED
    BY <2>1, <2>2 DEF IInv, Shape, WritesListed, StrangersDoomed, RefusedIsGated, Listed,
                      Present, Accepted, NoPass
<1>8. CASE UpdateFile
  BY <1>8, WriteGood DEF UpdateFile, Pending
<1>9. CASE DeleteFile
  <2>1. PICK p \in pass.deletes :
          /\ pass.pc = "rest"
          /\ disk' = [disk EXCEPT ![p] = None]
          /\ pass' = [pass EXCEPT !.deletes = @ \ {p}]
    BY <1>9 DEF DeleteFile
  <2>2. /\ pass'.pc = "rest" /\ pass'.meta = pass.meta /\ pass'.todo = pass.todo
        /\ pass'.verdict = pass.verdict /\ pass'.deletes = pass.deletes \ {p}
        /\ DOMAIN pass' = DOMAIN pass
    BY <2>1 DEF IInv, Shape
  <2>3. Present' \subseteq Present \ {p}
    BY <2>1 DEF Present, IInv, Shape
  <2> QED
    BY <2>1, <2>2, <2>3 DEF IInv, Shape, WritesListed, StrangersDoomed, RefusedIsGated,
                            Listed, Accepted, NoPass
<1>10. CASE FinishPass
  BY <1>10, NoPassGood DEF FinishPass
<1>11. CASE \E d \in Docs : DocumentEvent(d)
  <2>1. pass.pc = "idle" /\ UNCHANGED pass /\ DOMAIN disk' = DOMAIN disk
    BY <1>11 DEF DocumentEvent, UpdateDocument
  <2> QED
    BY <2>1, IdleGood DEF IInv, Shape
<1>12. CASE Crash
  BY <1>12, NoPassGood DEF Crash
<1>13. CASE Restart
  BY <1>13 DEF Restart, IInv, Shape, WritesListed, StrangersDoomed, RefusedIsGated, Present,
               Listed, Accepted
<1>14. CASE UNCHANGED vars
  BY <1>14 DEF vars, IInv, Shape, WritesListed, StrangersDoomed, RefusedIsGated, Present,
               Listed, Accepted
<1> QED
  BY <1>1, <1>2, <1>3, <1>4, <1>5, <1>6, <1>7, <1>8, <1>9, <1>10, <1>11, <1>12, <1>13, <1>14
  DEF Next, Engine

LEMMA GoodMeansNoStrangers == IInv => NoStrangers
BY DEF IInv, WritesListed, StrangersDoomed, RefusedIsGated, NoStrangers, PassExecuted

(* However creates, renames, updates and fetches went, whatever users did  *)
(* meanwhile and wherever a crash had left files, a pass whose metadata is *)
(* taken over leaves no file that this metadata does not list.             *)
THEOREM PassesLeaveNoStrangers == Spec => []NoStrangers
BY InitGood, StepGood, GoodMeansNoStrangers, PTL DEF Spec

------------------------------------------------------------------------------
(* Types. *)

Notes      == [path : Paths, doc : Docs \cup {None}]
Operations == [kind : {"noop", "create", "rename", "update"}, path : Paths,
               from : Paths \cup {None}, doc : Docs, hash : 0 .. MaxVersion]
Passes     == [pc : {"idle", "create", "rest", "save"}, meta : Metadata \cup {None},
               todo : SUBSET Operations, deletes : SUBSET Paths,
               verdict : {"accepted", "gated"}, before : Nat]

Typed ==
  /\ remoteMeta \in Metadata /\ remoteText \in [Docs -> 0 .. MaxVersion]
  /\ disk \in [Paths -> Files \cup {None}]
  /\ filemeta \in Metadata /\ localState \in Seq(Notes) /\ hashes \in [Docs -> 0 .. MaxVersion]
  /\ saved \in Metadata \X Seq(Notes) \X [Docs -> 0 .. MaxVersion]
  /\ pass \in Passes
  /\ pass.pc # "idle" => pass.meta \in Metadata
  /\ \A o \in pass.todo : o.kind = "rename" => o.from \in Paths
  /\ process \in {"starting", "serving", "down"}
  /\ folderDirty \in BOOLEAN /\ sound \in BOOLEAN
  /\ docDirty \subseteq Docs /\ missed \subseteq Docs
  /\ edits \in 0 .. MaxEdits /\ crashes \in 0 .. MaxCrashes

LEMMA PopKeepsType ==
  ASSUME NEW s \in Seq(Notes), NEW p
  PROVE  Popped(s, p) \in Seq(Notes)
<1>1. CASE ~Keeps(s, p)
  BY <1>1 DEF Popped
<1>2. CASE Keeps(s, p)
  <2>1. Len(s) \in Nat /\ DOMAIN s = 1 .. Len(s) /\ \A i \in 1 .. Len(s) : s[i] \in Notes
    BY LenProperties, ElementOfSeq
  <2>2. PICK i \in 1 .. Len(s) : i = Place(s, p)
    BY <1>2, <2>1 DEF Keeps, Place
  <2>3. i \in Int /\ i - 1 \in Int /\ i + 1 \in Int /\ Len(s) \in Int /\ 1 \in Int
    BY <2>1
  <2>4. (\A j \in 1 .. i - 1 : s[j] \in Notes) /\ (\A j \in i + 1 .. Len(s) : s[j] \in Notes)
    BY <2>1
  <2>5. SubSeq(s, 1, i - 1) \in Seq(Notes)
    BY <2>3, <2>4, SubSeqProperties
  <2>6. SubSeq(s, i + 1, Len(s)) \in Seq(Notes)
    BY <2>3, <2>4, SubSeqProperties
  <2>7. SubSeq(s, 1, i - 1) \o SubSeq(s, i + 1, Len(s)) \in Seq(Notes)
    BY <2>5, <2>6, ConcatProperties
  <2> QED BY <1>2, <2>2, <2>7 DEF Popped, RemoveAt
<1> QED BY <1>1, <1>2

LEMMA StoreKeepsType ==
  ASSUME NEW s \in Seq(Notes), NEW p \in Paths, NEW d \in Docs \cup {None}
  PROVE  Stored(s, p, d) \in Seq(Notes)
<1>1. PICK e \in Notes : e = [path |-> p, doc |-> d]
  BY DEF Notes
<1>2. CASE ~Keeps(s, p)
  BY <1>1, <1>2, AppendProperties DEF Stored
<1>3. CASE Keeps(s, p)
  <2>1. Len(s) \in Nat /\ DOMAIN s = 1 .. Len(s) /\ \A i \in 1 .. Len(s) : s[i] \in Notes
    BY LenProperties, ElementOfSeq
  <2>2. Stored(s, p, d) = [i \in 1 .. Len(s) |-> IF s[i].path = p THEN e ELSE s[i]]
    BY <1>1, <1>3, <2>1 DEF Stored
  <2>3. Stored(s, p, d) \in [1 .. Len(s) -> Notes]
    BY <2>1, <2>2
  <2> QED BY <2>1, <2>3, SeqDef
<1> QED BY <1>2, <1>3

LEMMA MoveKeepsType ==
  ASSUME NEW s \in Seq(Notes), NEW from, NEW to \in Paths
  PROVE  Moved(s, from, to) \in Seq(Notes)
<1> DEFINE docs == {s[i].doc : i \in {j \in DOMAIN s : s[j].path = from}}
<1>1. DOMAIN s = 1 .. Len(s) /\ \A i \in 1 .. Len(s) : s[i] \in Notes
  BY LenProperties, ElementOfSeq
<1>2. docs \subseteq Docs \cup {None}
  BY <1>1 DEF Notes
<1> HIDE DEF docs
<1>3. PICK d : d = IF docs = {} THEN None ELSE CHOOSE x \in docs : TRUE
  OBVIOUS
<1>4. d \in Docs \cup {None}
  <2>1. CASE docs = {}
    BY <1>3, <2>1
  <2>2. CASE docs # {}
    <3>1. (CHOOSE x \in docs : TRUE) \in docs
      BY <2>2
    <3> QED BY <1>2, <1>3, <2>2, <3>1
  <2> QED BY <2>1, <2>2
<1>5. Moved(s, from, to) = Stored(Popped(s, from), to, d)
  BY <1>3 DEF Moved, docs
<1> QED BY <1>4, <1>5, PopKeepsType, StoreKeepsType

(* The first and the last place of a document are among its places. *)
LEMMA PlacesHaveEnds ==
  ASSUME NEW s \in Seq(Notes), NEW d, PlacesOf(s, d) # {}
  PROVE  /\ Min(PlacesOf(s, d)) \in 1 .. Len(s) /\ s[Min(PlacesOf(s, d))] \in Notes
         /\ Max(PlacesOf(s, d)) \in 1 .. Len(s) /\ s[Max(PlacesOf(s, d))] \in Notes
<1> DEFINE S == PlacesOf(s, d)
<1>1. Len(s) \in Nat /\ DOMAIN s = 1 .. Len(s) /\ \A i \in 1 .. Len(s) : s[i] \in Notes
  BY LenProperties, ElementOfSeq
<1>2. S \subseteq 1 .. Len(s) /\ S # {}
  BY <1>1 DEF PlacesOf
<1> HIDE DEF S
<1>3. S \subseteq Nat /\ S \subseteq 0 .. Len(s)
  BY <1>1, <1>2
<1>4. Min(S) \in S
  <2>1. \E m \in S : \A n \in S : m <= n
    BY <1>2, <1>3, LeastExists
  <2> QED BY <2>1 DEF Min
<1>5. Max(S) \in S
  <2>1. \E m \in S : \A n \in S : n <= m
    BY <1>1, <1>2, <1>3, GreatestExists
  <2>2. PICK m \in S : \A n \in S : n <= m
    BY <2>1
  <2>3. \A n \in S : m >= n
    BY <1>3, <2>2
  <2> QED BY <2>3 DEF Max
<1> QED BY <1>1, <1>2, <1>4, <1>5 DEF S

LEMMA FindByDocType ==
  ASSUME NEW s \in Seq(Notes), NEW d
  PROVE  FindByDoc(s, d) \in Paths \cup {None}
BY PlacesHaveEnds DEF FindByDoc, Notes

LEMMA IndexPathType ==
  ASSUME Typed, NEW d
  PROVE  IndexPath(d) \in Paths \cup {None}
<1>1. CASE PlacesOf(localState, d) # {}
  BY <1>1, PlacesHaveEnds DEF IndexPath, Notes, Typed
<1>2. CASE PlacesOf(localState, d) = {} /\ d \in DocsIn(filemeta)
  <2>1. \E p \in Listed(filemeta) : filemeta[p].doc = d
    BY <1>2 DEF DocsIn
  <2> QED BY <1>2, <2>1 DEF IndexPath, Listed
<1>3. CASE PlacesOf(localState, d) = {} /\ d \notin DocsIn(filemeta)
  BY <1>3 DEF IndexPath
<1> QED BY <1>1, <1>2, <1>3

LEMMA PresentCounts ==
  ASSUME Typed, NEW S \in SUBSET Paths
  PROVE  IsFiniteSet(S) /\ Cardinality(S) \in Nat
BY FolderAssumption, FS_Subset, FS_CardinalityType DEF FolderAssumption

(* What a plan does for one path. *)
Suits(o, meta, p) ==
  /\ o \in Operations
  /\ o.path = p /\ o.doc = meta[p].doc /\ o.hash = meta[p].hash
  /\ o.kind = "rename" => o.from \in Paths \ {p}
  /\ o.kind \in {"create", "rename"} => disk[p] = None
  /\ o.kind = "noop" => disk[p] = [doc |-> o.doc, version |-> o.hash]

LEMMA OperationType ==
  ASSUME Typed, NEW meta \in Metadata, NEW p \in Listed(meta)
  PROVE  Suits(Operation(meta, p), meta, p)
<1>1. meta[p] \in Entries /\ p \in Paths
  BY DEF Listed, Metadata
<1>2. meta[p].doc \in Docs /\ meta[p].hash \in 0 .. MaxVersion
  BY <1>1 DEF Entries
<1>3. PICK old \in Paths \cup {None} : old = FindByDoc(localState, meta[p].doc)
  BY FindByDocType DEF Typed
<1>4. PICK o : o = Operation(meta, p)
  OBVIOUS
<1>5. /\ o.path = p /\ o.doc = meta[p].doc /\ o.hash = meta[p].hash
      /\ o.kind = "rename" => o.from \in Paths \ {p}
      /\ o.kind \in {"create", "rename"} => disk[p] = None
      /\ o.kind = "noop" => disk[p] = [doc |-> o.doc, version |-> o.hash]
  BY <1>1, <1>3, <1>4, FolderAssumption DEF Operation, FolderAssumption
<1>6. o \in Operations
  <2>1. PICK kind, from : o = [kind |-> kind, path |-> p, from |-> from,
                               doc |-> meta[p].doc, hash |-> meta[p].hash]
    BY <1>4 DEF Operation
  <2>2. kind \in {"noop", "create", "rename", "update"} /\ from \in Paths \cup {None}
    BY <1>3, <1>4, <2>1 DEF Operation
  <2> QED BY <1>1, <1>2, <2>1, <2>2 DEF Operations
<1> QED BY <1>4, <1>5, <1>6 DEF Suits

(* A planned pass. *)
LEMMA PlanTyped ==
  ASSUME Typed, NEW meta \in Metadata, NEW paths \in SUBSET Listed(meta)
  PROVE  LET plan == PlanPass(meta, paths) IN
         /\ plan \in Passes /\ plan.meta = meta
         /\ \A o \in plan.todo : o.kind = "rename" => o.from \in Paths
<1>1. Present \in SUBSET Paths
  BY DEF Present
<1>2. PICK n \in Nat : n = Cardinality(Present)
  BY <1>1, PresentCounts
<1>3. CASE Listed(meta) = {} /\ Present # {}
  <2>1. PlanPass(meta, paths) = [NoPass EXCEPT !.pc = "save", !.meta = meta, !.before = n]
    BY <1>2, <1>3 DEF PlanPass
  <2> QED BY <2>1 DEF NoPass, Passes
<1>4. CASE ~(Listed(meta) = {} /\ Present # {})
  <2> DEFINE todo == {o \in {Operation(meta, p) : p \in paths} : o.kind # "noop"}
  <2>1. ASSUME NEW o \in todo PROVE o \in Operations /\ (o.kind = "rename" => o.from \in Paths)
    <3>1. PICK p \in paths : o = Operation(meta, p)
      OBVIOUS
    <3>2. p \in Listed(meta)
      OBVIOUS
    <3>3. Suits(o, meta, p)
      BY <3>1, <3>2, OperationType
    <3> QED BY <3>3 DEF Suits
  <2>2. PlanPass(meta, paths) = [NoPass EXCEPT !.pc = "create", !.meta = meta,
                                   !.verdict = "accepted", !.before = n, !.todo = todo]
    BY <1>2, <1>4 DEF PlanPass
  <2> HIDE DEF todo
  <2>3. todo \in SUBSET Operations
    BY <2>1
  <2> QED BY <2>1, <2>2, <2>3 DEF NoPass, Passes
<1> QED BY <1>3, <1>4

LEMMA NoPassTyped == NoPass \in Passes /\ NoPass.pc = "idle" /\ NoPass.todo = {}
BY DEF NoPass, Passes

(* What a completed operation leaves of the pass. *)
LEMMA DoneTyped ==
  ASSUME Typed, NEW o
  PROVE  /\ Done(o) \in Passes
         /\ Done(o).pc = pass.pc /\ Done(o).meta = pass.meta /\ Done(o).todo = pass.todo \ {o}
         /\ Done(o).verdict = pass.verdict /\ Done(o).deletes = pass.deletes
         /\ Done(o).before = pass.before
BY DEF Typed, Done, Passes

(* A write puts a file with content in its place, or changes no file. *)
LEMMA WriteTyped ==
  ASSUME Typed, NEW o \in pass.todo, WriteOperation(o)
  PROVE  /\ disk' \in [Paths -> Files \cup {None}] /\ localState' \in Seq(Notes)
         /\ pass' = Done(o) /\ sound' \in BOOLEAN
<1>1. o.path \in Paths /\ o.doc \in Docs /\ o.hash \in 0 .. MaxVersion
  BY DEF Typed, Passes, Operations
<1>2. Fetched(o.doc, o.hash) \in 0 .. MaxVersion
  BY <1>1 DEF Fetched, Typed
<1>3. pass' = Done(o) /\ sound' \in BOOLEAN
  BY DEF WriteOperation, Typed
<1>4. CASE Fetched(o.doc, o.hash) # 0 /\ disk' = [disk EXCEPT ![o.path] = [doc |-> o.doc, version |-> Fetched(o.doc, o.hash)]]
                /\ localState' = Stored(localState, o.path, o.doc)
  <2>1. Fetched(o.doc, o.hash) \in Versions
    BY <1>2, <1>4, FolderAssumption DEF Versions, FolderAssumption
  <2>2. [doc |-> o.doc, version |-> Fetched(o.doc, o.hash)] \in Files
    BY <1>1, <2>1 DEF Files
  <2>3. localState' \in Seq(Notes)
    BY <1>1, <1>4, StoreKeepsType DEF Typed
  <2> QED BY <1>3, <1>4, <2>2, <2>3 DEF Typed
<1>5. CASE UNCHANGED <<disk, localState>>
  BY <1>3, <1>5 DEF Typed
<1> QED BY <1>4, <1>5 DEF WriteOperation

LEMMA InitTyped == Init => Typed
<1> SUFFICES ASSUME Init PROVE Typed
  OBVIOUS
<1>1. <<>> \in Seq(Notes)
  OBVIOUS
<1>2. 0 \in 0 .. MaxVersion /\ 0 \in 0 .. MaxEdits /\ 0 \in 0 .. MaxCrashes
  BY FolderAssumption DEF FolderAssumption
<1>3. [p \in Paths |-> None] \in Metadata /\ [d \in Docs |-> 0] \in [Docs -> 0 .. MaxVersion]
  BY <1>2 DEF Metadata
<1>4. disk \in [Paths -> Files \cup {None}]
  BY DEF Init
<1> QED BY <1>1, <1>2, <1>3, <1>4, NoPassTyped DEF Init, Typed, EmptyState

(* A user's change of the folder keeps the types of what it changes. *)
LEMMA FolderChangeTyped ==
  ASSUME Typed, NEW meta \in Metadata, ChangeFolder(meta), UNCHANGED <<remoteText, docDirty, missed>>
  PROVE  Typed'
<1>1. edits' \in 0 .. MaxEdits
  BY FolderAssumption DEF Typed, ChangeFolder, FolderAssumption
<1>2. folderDirty' \in BOOLEAN
  BY DEF Typed, ChangeFolder
<1> QED BY <1>1, <1>2 DEF Typed, ChangeFolder, state

LEMMA TextChangeTyped ==
  ASSUME Typed, NEW d \in Docs, NEW v \in 0 .. MaxVersion, ChangeText(d, v)
  PROVE  Typed'
<1>1. edits' \in 0 .. MaxEdits
  BY FolderAssumption DEF Typed, ChangeText, FolderAssumption
<1>2. remoteText' \in [Docs -> 0 .. MaxVersion]
  BY DEF Typed, ChangeText
<1>3. docDirty' \subseteq Docs /\ missed' \subseteq Docs
  BY DEF Typed, ChangeText
<1> QED BY <1>1, <1>2, <1>3 DEF Typed, ChangeText, state, granted

LEMMA UsersTyped == ASSUME Typed, Users PROVE Typed'
<1>1. CASE \E d \in Docs : Edit(d)
  <2>1. PICK d \in Docs : Edit(d)
    BY <1>1
  <2>2. remoteText[d] + 1 \in 0 .. MaxVersion
    BY <2>1, FolderAssumption DEF Edit, Typed, FolderAssumption
  <2> QED BY <2>1, <2>2, TextChangeTyped DEF Edit
<1>2. CASE \E d \in Docs : Revert(d)
  <2>1. PICK d \in Docs : Revert(d)
    BY <1>2
  <2>2. remoteText[d] - 1 \in 0 .. MaxVersion
    BY <2>1, FolderAssumption DEF Revert, Typed, FolderAssumption
  <2> QED BY <2>1, <2>2, TextChangeTyped DEF Revert
<1>3. CASE \E d \in Docs, p \in Paths : Add(d, p)
  <2>1. PICK d \in Docs, p \in Paths : Add(d, p)
    BY <1>3
  <2>2. PICK h \in IF d \in Attachments THEN Versions ELSE {0} :
          ChangeFolder([remoteMeta EXCEPT ![p] = [doc |-> d, hash |-> h]])
    BY <2>1 DEF Add
  <2>3. h \in 0 .. MaxVersion
    BY <2>2, FolderAssumption DEF Versions, FolderAssumption
  <2>4. [remoteMeta EXCEPT ![p] = [doc |-> d, hash |-> h]] \in Metadata
    BY <2>1, <2>3 DEF Typed, Metadata, Entries
  <2> QED BY <2>1, <2>2, <2>4, FolderChangeTyped DEF Add
<1>4. CASE \E p \in Paths : Replace(p)
  <2>1. PICK p \in Paths : Replace(p)
    BY <1>4
  <2>2. PICK h \in Versions : ChangeFolder([remoteMeta EXCEPT ![p].hash = h])
    BY <2>1 DEF Replace
  <2>3. h \in 0 .. MaxVersion /\ remoteMeta[p] \in Entries
    BY <2>1, <2>2, FolderAssumption DEF Versions, FolderAssumption, Replace, Typed, Metadata
  <2>4. [remoteMeta[p] EXCEPT !.hash = h] \in Entries
    BY <2>3 DEF Entries
  <2>5. [remoteMeta EXCEPT ![p].hash = h] \in Metadata
    BY <2>4 DEF Typed, Metadata
  <2> QED BY <2>1, <2>2, <2>5, FolderChangeTyped DEF Replace
<1>5. CASE \E p \in Paths : Unlist(p)
  <2>1. PICK p \in Paths : Unlist(p)
    BY <1>5
  <2>2. [remoteMeta EXCEPT ![p] = None] \in Metadata
    BY DEF Typed, Metadata
  <2> QED BY <2>1, <2>2, FolderChangeTyped DEF Unlist
<1>6. CASE \E p, q \in Paths : MoveRemote(p, q)
  <2>1. PICK p \in Paths, q \in Paths : MoveRemote(p, q)
    BY <1>6
  <2>2. [remoteMeta EXCEPT ![p] = None, ![q] = remoteMeta[p]] \in Metadata
    BY DEF Typed, Metadata
  <2> QED BY <2>1, <2>2, FolderChangeTyped DEF MoveRemote
<1> QED BY <1>1, <1>2, <1>3, <1>4, <1>5, <1>6 DEF Users

(* What the steps between passes change. *)
LEMMA StartTyped ==
  ASSUME Typed, StartupPass \/ FolderEvent
  PROVE  Typed'
<1>1. Listed(remoteMeta) \in SUBSET Listed(remoteMeta)
      /\ Changed(filemeta, remoteMeta) \in SUBSET Listed(remoteMeta) /\ remoteMeta \in Metadata
  BY DEF Changed, Typed
<1>2. /\ pass' \in Passes /\ (pass'.pc # "idle" => pass'.meta \in Metadata)
      /\ \A o \in pass'.todo : o.kind = "rename" => o.from \in Paths
  <2>1. CASE pass' = PlanPass(remoteMeta, Listed(remoteMeta))
    BY <1>1, <2>1, PlanTyped
  <2>2. CASE pass' = PlanPass(remoteMeta, Changed(filemeta, remoteMeta))
    BY <1>1, <2>2, PlanTyped
  <2>3. CASE UNCHANGED pass
    BY <2>3 DEF Typed
  <2> QED BY <2>1, <2>2, <2>3 DEF StartupPass, FolderEvent
<1>3. sound' \in BOOLEAN /\ folderDirty' \in BOOLEAN
  BY DEF StartupPass, FolderEvent, Typed, notifications
<1> QED BY <1>2, <1>3 DEF StartupPass, FolderEvent, Typed, server, state, notifications

LEMMA ExecuteTyped ==
  ASSUME Typed, CreateFile \/ UpdateFile
  PROVE  Typed'
<1>1. PICK o \in pass.todo : WriteOperation(o)
  BY DEF CreateFile, UpdateFile, Pending
<1>2. /\ pass' \in Passes /\ pass'.pc = pass.pc /\ pass'.meta = pass.meta
      /\ pass'.todo \subseteq pass.todo
  BY <1>1, WriteTyped, DoneTyped
<1>3. disk' \in [Paths -> Files \cup {None}] /\ localState' \in Seq(Notes) /\ sound' \in BOOLEAN
  BY <1>1, WriteTyped
<1>4. UNCHANGED <<server, filemeta, hashes, saved, process, notifications, crashes>>
  BY DEF CreateFile, UpdateFile
<1> QED BY <1>2, <1>3, <1>4 DEF Typed, server, notifications

LEMMA RenameTyped == ASSUME Typed, RenameFile PROVE Typed'
<1>1. PICK o \in Pending("rename") :
        /\ IF disk[o.from] # None
           THEN /\ disk' = [disk EXCEPT ![o.from] = None, ![o.path] = disk[o.from]]
                /\ localState' = Moved(localState, o.from, o.path)
           ELSE UNCHANGED <<disk, localState>>
        /\ pass' = Done(o)
        /\ UNCHANGED <<server, filemeta, hashes, saved, process, notifications, sound, crashes>>
  BY DEF RenameFile, granted
<1>2. o \in pass.todo /\ o.path \in Paths /\ o.from \in Paths
  BY <1>1 DEF Pending, Typed, Passes, Operations
<1>3. disk' \in [Paths -> Files \cup {None}] /\ localState' \in Seq(Notes)
  <2>1. CASE disk[o.from] # None
    <3>1. disk' = [disk EXCEPT ![o.from] = None, ![o.path] = disk[o.from]]
          /\ localState' = Moved(localState, o.from, o.path)
      BY <1>1, <2>1
    <3>2. localState' \in Seq(Notes)
      BY <1>2, <3>1, MoveKeepsType DEF Typed
    <3>3. disk' \in [Paths -> Files \cup {None}]
      BY <1>2, <3>1 DEF Typed
    <3> QED BY <3>2, <3>3
  <2>2. CASE disk[o.from] = None
    BY <1>1, <2>2 DEF Typed
  <2> QED BY <2>1, <2>2
<1>4. /\ pass' \in Passes /\ pass'.pc = pass.pc /\ pass'.meta = pass.meta
      /\ pass'.todo \subseteq pass.todo
  BY <1>1, DoneTyped
<1> QED BY <1>1, <1>3, <1>4 DEF Typed, server, notifications

LEMMA DeletesTyped == ASSUME Typed, PlanDeletes \/ DeleteFile PROVE Typed'
<1>1. CASE PlanDeletes
  <2>1. PICK deletes \in SUBSET Paths, verdict \in {"accepted", "gated"} :
          pass' = [pass EXCEPT !.pc = "rest", !.verdict = verdict, !.deletes = deletes]
    BY <1>1 DEF PlanDeletes, Present
  <2>2. pass' \in Passes /\ pass'.meta = pass.meta /\ pass'.todo = pass.todo
    BY <2>1 DEF Typed, Passes
  <2>3. pass.pc # "idle"
    BY <1>1 DEF PlanDeletes
  <2>4. UNCHANGED <<server, disk, state, saved, process, notifications, sound, crashes>>
    BY <1>1 DEF PlanDeletes, granted
  <2> QED BY <2>2, <2>3, <2>4 DEF Typed, server, state, notifications
<1>2. CASE DeleteFile
  <2>1. PICK p \in pass.deletes :
          /\ pass.pc = "rest"
          /\ disk' = [disk EXCEPT ![p] = None]
          /\ localState' = Popped(localState, RelativePath(p))
          /\ pass' = [pass EXCEPT !.deletes = @ \ {p}]
          /\ UNCHANGED <<server, filemeta, hashes, saved, process, notifications, sound, crashes>>
    BY <1>2 DEF DeleteFile, granted
  <2>2. pass' \in Passes /\ pass'.meta = pass.meta /\ pass'.todo = pass.todo
    BY <2>1 DEF Typed, Passes
  <2>3. localState' \in Seq(Notes) /\ disk' \in [Paths -> Files \cup {None}]
    BY <2>1, PopKeepsType DEF Typed
  <2> QED BY <2>1, <2>2, <2>3 DEF Typed, server, notifications
<1> QED BY <1>1, <1>2

LEMMA FinishTyped == ASSUME Typed, FinishPass PROVE Typed'
<1>1. filemeta' \in Metadata
  BY DEF FinishPass, PassExecuted, Typed
<1>2. saved' \in Metadata \X Seq(Notes) \X [Docs -> 0 .. MaxVersion]
  BY <1>1 DEF FinishPass, Typed
<1>3. process' \in {"starting", "serving", "down"} /\ docDirty' \subseteq Docs /\ missed' \subseteq Docs
  BY DEF FinishPass, Typed
<1>4. UNCHANGED <<server, disk, localState, hashes, folderDirty, sound, crashes>> /\ pass' = NoPass
  BY DEF FinishPass, granted
<1> QED BY <1>1, <1>2, <1>3, <1>4, NoPassTyped DEF Typed, server

LEMMA DocumentTyped == ASSUME Typed, NEW d \in Docs, DocumentEvent(d) PROVE Typed'
<1>1. /\ disk' \in [Paths -> Files \cup {None}] /\ localState' \in Seq(Notes)
      /\ hashes' \in [Docs -> 0 .. MaxVersion]
      /\ saved' \in Metadata \X Seq(Notes) \X [Docs -> 0 .. MaxVersion]
  <2>1. CASE UNCHANGED <<disk, localState, hashes, saved>>
    BY <2>1 DEF Typed
  <2>2. CASE /\ remoteText[d] # 0
             /\ UpdateDocument(d)
             /\ hashes' = [hashes EXCEPT ![d] = remoteText[d]]
             /\ saved' = <<filemeta, localState', hashes'>>
    <3>1. PICK p : p = IndexPath(d)
      OBVIOUS
    <3>2. p \in Paths /\ disk' = [disk EXCEPT ![p] = [doc |-> d, version |-> remoteText[d]]]
          /\ localState' = Stored(localState, p, d)
      BY <2>2, <3>1, IndexPathType DEF UpdateDocument
    <3>3. localState' \in Seq(Notes)
      BY <3>2, StoreKeepsType DEF Typed
    <3>4. [doc |-> d, version |-> remoteText[d]] \in Files
      BY <2>2, FolderAssumption DEF Typed, Files, Versions, FolderAssumption
    <3>5. disk' \in [Paths -> Files \cup {None}]
      BY <3>2, <3>4 DEF Typed
    <3>6. hashes' \in [Docs -> 0 .. MaxVersion]
      BY <2>2 DEF Typed
    <3> QED BY <2>2, <3>3, <3>5, <3>6 DEF Typed
  <2> QED BY <2>1, <2>2 DEF DocumentEvent
<1>2. sound' \in BOOLEAN /\ docDirty' \subseteq Docs
  BY DEF DocumentEvent, Typed
<1>3. UNCHANGED <<server, filemeta, pass, process, folderDirty, missed, crashes>>
  BY DEF DocumentEvent
<1> QED BY <1>1, <1>2, <1>3 DEF Typed, server

LEMMA CrashTyped == ASSUME Typed, Crash PROVE Typed'
<1>1. filemeta' \in Metadata /\ localState' \in Seq(Notes) /\ hashes' \in [Docs -> 0 .. MaxVersion]
  BY DEF Crash, Typed
<1>2. crashes' \in 0 .. MaxCrashes
  BY FolderAssumption DEF Crash, Typed, FolderAssumption
<1>3. docDirty' \subseteq Docs /\ missed' \subseteq Docs
  BY DEF Crash, Typed
<1> QED BY <1>1, <1>2, <1>3, NoPassTyped DEF Crash, Typed, server, granted

LEMMA StepTyped == Typed /\ [Next]_vars => Typed'
<1> SUFFICES ASSUME Typed, [Next]_vars PROVE Typed'
  OBVIOUS
<1>1. CASE StartupFails
  <2>1. docDirty' \subseteq Docs /\ missed' \subseteq Docs /\ process' = "serving"
    BY <1>1 DEF StartupFails, Typed
  <2> QED BY <1>1, <2>1 DEF StartupFails, Typed, server, state
<1>2. CASE Restart
  BY <1>2 DEF Restart, Typed, server, state, notifications, granted
<1>3. CASE UNCHANGED vars
  BY <1>3 DEF vars, Typed, server, state, notifications, granted
<1> QED
  BY <1>1, <1>2, <1>3, UsersTyped, StartTyped, ExecuteTyped, RenameTyped, DeletesTyped, FinishTyped,
     DocumentTyped, CrashTyped
  DEF Next, Engine

LEMMA TypedMeansTypeOK == Typed /\ exact \in BOOLEAN => TypeOK
BY DEF Typed, TypeOK, Passes, Notes

LEMMA ExactIsBoolean == ASSUME exact \in BOOLEAN, [Next]_vars PROVE exact' \in BOOLEAN
<1>1. CASE UNCHANGED exact
  BY <1>1
<1>2. CASE Users
  BY <1>2 DEF Users, Edit, Revert, Add, Replace, Unlist, MoveRemote, ChangeText, ChangeFolder, granted
<1>3. CASE StartupPass \/ StartupFails \/ FolderEvent
  BY <1>3 DEF StartupPass, StartupFails, FolderEvent
<1>4. CASE \E d \in Docs : DocumentEvent(d)
  BY <1>4 DEF DocumentEvent
<1> QED
  BY <1>1, <1>2, <1>3, <1>4
  DEF Next, Engine, CreateFile, RenameFile, PlanDeletes, UpdateFile, DeleteFile, FinishPass, Crash,
      Restart, vars, granted

(* Every variable keeps its type: no operation is planned for a document or *)
(* a path that the folder does not know, no rename lacks a source, and the  *)
(* state maps hold paths of the folder and documents only.                 *)
THEOREM TypeCorrect == Spec => []TypeOK
<1> DEFINE WellTyped == Typed /\ exact \in BOOLEAN
<1>1. Init => WellTyped
  BY InitTyped DEF Init
<1>2. WellTyped /\ [Next]_vars => WellTyped'
  BY StepTyped, ExactIsBoolean
<1>3. WellTyped => TypeOK
  BY TypedMeansTypeOK
<1> HIDE DEF WellTyped
<1> QED BY <1>1, <1>2, <1>3, PTL DEF Spec

------------------------------------------------------------------------------
(* What a pass may cost. *)

Running == pass.pc \in {"create", "rest"}

(* A pass that runs has at most one operation for a path, and writes to    *)
(* paths without a file until its deletes are planned.                     *)
Planned == Running =>
  /\ \A o, r \in pass.todo : o.path = r.path => o = r
  /\ \A o \in pass.todo :
       /\ o.path \in Listed(pass.meta)
       /\ o.doc = pass.meta[o.path].doc /\ o.hash = pass.meta[o.path].hash
       /\ o.kind \in {"create", "rename", "update"}
       /\ o.kind = "rename" => o.from \in Paths \ {o.path}
  /\ pass.pc = "create" => /\ Accepted /\ pass.deletes = {}
                           /\ \A o \in pass.todo : o.kind # "update" => disk[o.path] = None
  /\ pass.pc = "rest" => \A o \in pass.todo : o.kind = "update"
  /\ pass.deletes \cap Listed(pass.meta) = {}

(* Creates and renames keep the number of files; what the deletes may cost *)
(* is bounded when they are planned.                                       *)
Counting ==
  /\ pass.pc = "save" => pass.before = Cardinality(Present)
  /\ Running /\ Listed(pass.meta) = {} => pass.before = 0
  /\ pass.pc = "create" => pass.before <= Cardinality(Present)
  /\ pass.pc = "rest" /\ ~AllowMassDelete =>
       pass.before <= Cardinality(Present \ pass.deletes)
                        + MassThreshold(Cardinality(Listed(pass.meta)))

LEMMA ThresholdType == ASSUME NEW n \in Nat PROVE MassThreshold(n) \in Nat
<1> DEFINE S == {n \div 10, MassFloor}
<1>1. n \div 10 \in Nat /\ MassFloor \in Nat
  BY FolderAssumption DEF FolderAssumption
<1>2. S \subseteq 0 .. n \div 10 + MassFloor /\ S # {} /\ n \div 10 + MassFloor \in Nat
  BY <1>1
<1>3. S \subseteq Nat
  BY <1>1
<1>4. MassThreshold(n) = Max(S)
  BY DEF MassThreshold
<1> HIDE DEF S
<1>5. PICK m \in S : \A x \in S : x <= m
  BY <1>2, GreatestExists
<1>6. \A x \in S : m >= x
  BY <1>3, <1>5
<1>7. Max(S) \in S
  BY <1>6 DEF Max
<1> QED BY <1>3, <1>4, <1>7

(* What planning decides. *)
LEMMA PlanFacts ==
  ASSUME NEW meta, NEW paths
  PROVE  LET plan == PlanPass(meta, paths) IN
         /\ plan.meta = meta /\ plan.deletes = {} /\ plan.before = Cardinality(Present)
         /\ \/ plan.pc = "save" /\ plan.todo = {}
            \/ /\ plan.pc = "create" /\ plan.verdict = "accepted"
               /\ Listed(meta) = {} => Present = {}
               /\ plan.todo = {o \in {Operation(meta, p) : p \in paths} : o.kind # "noop"}
<1>1. CASE Listed(meta) = {} /\ Present # {}
  BY <1>1 DEF PlanPass, NoPass
<1>2. CASE ~(Listed(meta) = {} /\ Present # {})
  <2> DEFINE todo == {o \in {Operation(meta, p) : p \in paths} : o.kind # "noop"}
  <2>1. PlanPass(meta, paths) = [NoPass EXCEPT !.pc = "create", !.meta = meta,
          !.verdict = "accepted", !.before = Cardinality(Present), !.todo = todo]
    BY <1>2 DEF PlanPass
  <2> HIDE DEF todo
  <2>2. LET plan == PlanPass(meta, paths) IN
         /\ plan.meta = meta /\ plan.deletes = {} /\ plan.before = Cardinality(Present)
         /\ plan.pc = "create" /\ plan.verdict = "accepted" /\ plan.todo = todo
    BY <2>1 DEF NoPass
  <2> QED BY <1>2, <2>2 DEF todo
<1> QED BY <1>1, <1>2

(* What the operations of a plan are. *)
LEMMA TodoFacts ==
  ASSUME Typed, NEW meta \in Metadata, NEW paths \in SUBSET Listed(meta)
  PROVE  \A o \in {x \in {Operation(meta, p) : p \in paths} : x.kind # "noop"} :
         /\ o.path \in paths /\ o = Operation(meta, o.path)
         /\ o.path \in Listed(meta) /\ o.doc = meta[o.path].doc /\ o.hash = meta[o.path].hash
         /\ o.kind \in {"create", "rename", "update"}
         /\ o.kind = "rename" => o.from \in Paths \ {o.path}
         /\ o.kind # "update" => disk[o.path] = None
<1>1. ASSUME NEW p \in paths, NEW o, o = Operation(meta, p), o.kind # "noop"
      PROVE  /\ o.path = p /\ o.doc = meta[p].doc /\ o.hash = meta[p].hash
             /\ o.kind \in {"create", "rename", "update"}
             /\ o.kind = "rename" => o.from \in Paths \ {p}
             /\ o.kind # "update" => disk[p] = None
  <2>1. p \in Listed(meta)
    OBVIOUS
  <2>2. Suits(o, meta, p)
    BY <1>1, <2>1, OperationType
  <2>3. o.kind \in {"create", "rename", "update"}
    BY <1>1, <2>2 DEF Suits, Operations
  <2> QED BY <2>2, <2>3 DEF Suits
<1> QED BY <1>1

LEMMA PlanIsPlanned ==
  ASSUME Typed, NEW meta \in Metadata, NEW paths \in SUBSET Listed(meta),
         pass' = PlanPass(meta, paths), UNCHANGED disk
  PROVE  Planned' /\ Counting'
<1> DEFINE todo == {o \in {Operation(meta, p) : p \in paths} : o.kind # "noop"}
<1>1. /\ pass'.meta = meta /\ pass'.deletes = {} /\ pass'.before = Cardinality(Present)
      /\ \/ pass'.pc = "save" /\ pass'.todo = {}
         \/ /\ pass'.pc = "create" /\ pass'.verdict = "accepted"
            /\ Listed(meta) = {} => Present = {}
            /\ pass'.todo = todo
  BY PlanFacts
<1>2. \A o \in todo :
         /\ o.path \in paths /\ o = Operation(meta, o.path)
         /\ o.path \in Listed(meta) /\ o.doc = meta[o.path].doc /\ o.hash = meta[o.path].hash
         /\ o.kind \in {"create", "rename", "update"}
         /\ o.kind = "rename" => o.from \in Paths \ {o.path}
         /\ o.kind # "update" => disk[o.path] = None
  BY TodoFacts
<1> HIDE DEF todo
<1>3. \A o, r \in todo : o.path = r.path => o = r
  BY <1>2
<1>4. Present' = Present
  BY DEF Present
<1>5. Planned'
  BY <1>1, <1>2, <1>3 DEF Planned, Running, Accepted, Listed
<1>6. Present \in SUBSET Paths
  BY DEF Present
<1>7. Cardinality(Present) \in Nat /\ (Present = {} => Cardinality(Present) = 0)
  BY <1>6, PresentCounts, FS_EmptySet
<1>8. Listed(pass.meta)' = Listed(meta)
  BY <1>1 DEF Listed
<1>9. Counting'
  BY <1>1, <1>4, <1>7, <1>8 DEF Counting, Running
<1> QED BY <1>5, <1>9

(* What a write does to the files: to its path only, and never an erasure. *)
LEMMA WriteFiles ==
  ASSUME Typed, NEW o \in pass.todo, WriteOperation(o)
  PROVE  /\ \A p \in Paths : p # o.path => disk'[p] = disk[p]
         /\ disk'[o.path] = disk[o.path] \/ (disk'[o.path] # None /\ disk'[o.path].doc = o.doc)
         /\ Present \subseteq Present' /\ Present' \in SUBSET Paths
<1>1. o.path \in Paths /\ o.doc \in Docs /\ o.hash \in 0 .. MaxVersion
  BY DEF Typed, Passes, Operations
<1>2. disk' \in [Paths -> Files \cup {None}] /\ disk \in [Paths -> Files \cup {None}]
  BY WriteTyped DEF Typed
<1>3. CASE UNCHANGED disk
  BY <1>3 DEF Present
<1>4. CASE Fetched(o.doc, o.hash) # 0
           /\ disk' = [disk EXCEPT ![o.path] = [doc |-> o.doc, version |-> Fetched(o.doc, o.hash)]]
  <2>1. Fetched(o.doc, o.hash) \in Versions
    BY <1>1, <1>4, FolderAssumption DEF Fetched, Typed, Versions, FolderAssumption
  <2>2. PICK f : f = [doc |-> o.doc, version |-> Fetched(o.doc, o.hash)]
    OBVIOUS
  <2>3. f \in Files /\ f.doc = o.doc
    BY <1>1, <2>1, <2>2 DEF Files
  <2>4. f # None
    BY <2>3, FolderAssumption DEF FolderAssumption
  <2>5. disk' = [disk EXCEPT ![o.path] = f]
    BY <1>4, <2>2
  <2>6. disk'[o.path] = f /\ \A p \in Paths : p # o.path => disk'[p] = disk[p]
    BY <1>1, <1>2, <2>5
  <2> QED BY <1>1, <2>3, <2>4, <2>6 DEF Present
<1> QED BY <1>3, <1>4 DEF WriteOperation

(* What a rename does to the files, as it was planned. *)
LEMMA RenameFiles ==
  ASSUME Typed, Planned, RenameFile
  PROVE  \E o \in pass.todo :
           /\ o.kind = "rename" /\ o.path \in Paths /\ o.from \in Paths \ {o.path}
           /\ pass' = Done(o) /\ pass.pc = "create"
           /\ \/ /\ disk[o.from] # None /\ disk'[o.from] = None /\ disk'[o.path] = disk[o.from]
                 /\ \A p \in Paths : p # o.path /\ p # o.from => disk'[p] = disk[p]
              \/ disk[o.from] = None /\ disk' = disk
<1>1. PICK o \in Pending("rename") :
        /\ pass.pc = "create"
        /\ \/ /\ disk[o.from] # None
              /\ disk' = [disk EXCEPT ![o.from] = None, ![o.path] = disk[o.from]]
           \/ disk[o.from] = None /\ disk' = disk
        /\ pass' = Done(o)
  BY DEF RenameFile
<1>2. o \in pass.todo /\ o.kind = "rename" /\ o.path \in Listed(pass.meta) /\ o.from \in Paths \ {o.path}
  BY <1>1 DEF Pending, Planned, Running
<1>3. o.path \in Paths
  BY <1>2 DEF Listed
<1>4. disk \in [Paths -> Files \cup {None}]
  BY DEF Typed
<1>5. disk' = [disk EXCEPT ![o.from] = None, ![o.path] = disk[o.from]] =>
        /\ disk'[o.from] = None /\ disk'[o.path] = disk[o.from]
        /\ \A p \in Paths : p # o.path /\ p # o.from => disk'[p] = disk[p]
  BY <1>2, <1>3, <1>4
<1> QED BY <1>1, <1>2, <1>3, <1>5

LEMMA PlannedStep == ASSUME Typed, Planned, [Next]_vars PROVE Planned'
<1>1. CASE UNCHANGED <<pass, disk>>
  BY <1>1 DEF Planned, Running, Accepted, Listed
<1>2. CASE pass.pc = "idle" /\ UNCHANGED pass
  BY <1>2 DEF Planned, Running
<1>3. CASE pass' = NoPass
  BY <1>3 DEF Planned, Running, NoPass
<1>4. CASE StartupPass \/ FolderEvent
  <2>1. Listed(remoteMeta) \in SUBSET Listed(remoteMeta)
        /\ Changed(filemeta, remoteMeta) \in SUBSET Listed(remoteMeta) /\ remoteMeta \in Metadata
    BY DEF Changed, Typed
  <2>2. UNCHANGED disk
    BY <1>4 DEF StartupPass, FolderEvent
  <2>3. \/ pass' = PlanPass(remoteMeta, Listed(remoteMeta))
        \/ pass' = PlanPass(remoteMeta, Changed(filemeta, remoteMeta))
        \/ pass.pc = "idle" /\ UNCHANGED pass
    BY <1>4 DEF StartupPass, FolderEvent
  <2> QED BY <1>2, <2>1, <2>2, <2>3, PlanIsPlanned
<1>5. CASE CreateFile \/ UpdateFile
  <2>1. PICK o \in pass.todo : WriteOperation(o) /\ Running
    BY <1>5 DEF CreateFile, UpdateFile, Pending, Running
  <2>2. \A p \in Paths : p # o.path => disk'[p] = disk[p]
    BY <2>1, WriteFiles
  <2>3. /\ pass'.pc = pass.pc /\ pass'.meta = pass.meta /\ pass'.todo = pass.todo \ {o}
        /\ pass'.verdict = pass.verdict /\ pass'.deletes = pass.deletes
    BY <2>1, WriteTyped, DoneTyped
  <2>4. \A r \in pass'.todo : r.path \in Paths /\ r.path # o.path
    BY <2>1, <2>3 DEF Planned, Listed
  <2> QED BY <2>1, <2>2, <2>3, <2>4 DEF Planned, Running, Accepted, Listed
<1>6. CASE RenameFile
  <2>1. PICK o \in pass.todo :
           /\ o.kind = "rename" /\ o.path \in Paths /\ o.from \in Paths \ {o.path}
           /\ pass' = Done(o) /\ pass.pc = "create"
           /\ \A p \in Paths : p # o.path => disk'[p] = disk[p] \/ disk'[p] = None
    BY <1>6, RenameFiles
  <2>2. /\ pass'.pc = pass.pc /\ pass'.meta = pass.meta /\ pass'.todo = pass.todo \ {o}
        /\ pass'.verdict = pass.verdict /\ pass'.deletes = pass.deletes
    BY <2>1, DoneTyped
  <2>3. \A r \in pass'.todo : r.path \in Paths /\ r.path # o.path
    BY <2>1, <2>2 DEF Planned, Running, Listed
  <2> QED BY <2>1, <2>2, <2>3 DEF Planned, Running, Accepted, Listed
<1>7. CASE PlanDeletes
  <2>1. PICK deletes, verdict :
          /\ pass' = [pass EXCEPT !.pc = "rest", !.verdict = verdict, !.deletes = deletes]
          /\ deletes \subseteq Present \ Listed(pass.meta)
    BY <1>7 DEF PlanDeletes
  <2>2. pass.pc = "create" /\ Pending("create") = {} /\ Pending("rename") = {}
    BY <1>7 DEF PlanDeletes
  <2>3. /\ pass'.pc = "rest" /\ pass'.meta = pass.meta /\ pass'.todo = pass.todo
        /\ pass'.deletes = deletes
    BY <2>1 DEF Typed, Passes
  <2> QED BY <2>1, <2>2, <2>3 DEF Planned, Running, Accepted, Listed, Pending
<1>8. CASE DeleteFile
  <2>1. PICK p \in pass.deletes : pass' = [pass EXCEPT !.deletes = @ \ {p}] /\ pass.pc = "rest"
    BY <1>8 DEF DeleteFile
  <2>2. /\ pass'.pc = "rest" /\ pass'.meta = pass.meta /\ pass'.todo = pass.todo
        /\ pass'.deletes \subseteq pass.deletes
    BY <2>1 DEF Typed, Passes
  <2> QED BY <2>1, <2>2 DEF Planned, Running, Accepted, Listed
<1>9. CASE Users
  <2>1. UNCHANGED <<pass, disk>>
    BY <1>9 DEF Users, Edit, Revert, Add, Replace, Unlist, MoveRemote, ChangeText, ChangeFolder
  <2> QED BY <1>1, <2>1
<1>10. CASE \E d \in Docs : DocumentEvent(d)
  BY <1>2, <1>10 DEF DocumentEvent
<1> QED
  BY <1>1, <1>2, <1>3, <1>4, <1>5, <1>6, <1>7, <1>8, <1>9, <1>10
  DEF Next, Engine, StartupFails, FinishPass, Crash, Restart, vars

(* A larger set of files has no fewer of them. *)
LEMMA MoreFiles ==
  ASSUME NEW S \in SUBSET Paths, NEW T \in SUBSET Paths, S \subseteq T
  PROVE  Cardinality(S) <= Cardinality(T) /\ Cardinality(S) \in Nat /\ Cardinality(T) \in Nat
<1>1. IsFiniteSet(S) /\ IsFiniteSet(T)
  BY FolderAssumption, FS_Subset DEF FolderAssumption
<1> QED BY <1>1, FS_Subset, FS_CardinalityType

(* A move keeps the number of files. *)
LEMMA MovedFiles ==
  ASSUME NEW S \in SUBSET Paths, NEW from \in S, NEW to \in Paths \ S
  PROVE  Cardinality((S \ {from}) \cup {to}) = Cardinality(S) /\ Cardinality(S) \in Nat
<1>1. IsFiniteSet(S)
  BY FolderAssumption, FS_Subset DEF FolderAssumption
<1>2. PICK R : R = S \ {from}
  OBVIOUS
<1>3. IsFiniteSet(R) /\ Cardinality(R) = Cardinality(S) - 1
  BY <1>1, <1>2, FS_RemoveElement
<1>4. Cardinality(R \cup {to}) = Cardinality(R) + 1
  <2>1. to \notin R
    BY <1>2
  <2> QED BY <1>3, <2>1, FS_AddElement
<1>5. Cardinality(S) \in Nat /\ Cardinality(R) \in Nat
  BY <1>1, <1>3, FS_CardinalityType
<1>6. Cardinality(R \cup {to}) = Cardinality(S)
  BY <1>3, <1>4, <1>5
<1> QED BY <1>2, <1>5, <1>6

LEMMA CountingStep == ASSUME Typed, Planned, Counting, [Next]_vars PROVE Counting'
<1>1. CASE UNCHANGED <<pass, disk>>
  BY <1>1 DEF Counting, Running, Listed, Present
<1>2. CASE pass.pc = "idle" /\ UNCHANGED pass
  BY <1>2 DEF Counting, Running
<1>3. CASE pass' = NoPass
  BY <1>3 DEF Counting, Running, NoPass
<1>4. CASE StartupPass \/ FolderEvent
  <2>1. Listed(remoteMeta) \in SUBSET Listed(remoteMeta)
        /\ Changed(filemeta, remoteMeta) \in SUBSET Listed(remoteMeta) /\ remoteMeta \in Metadata
    BY DEF Changed, Typed
  <2>2. UNCHANGED disk
    BY <1>4 DEF StartupPass, FolderEvent
  <2>3. \/ pass' = PlanPass(remoteMeta, Listed(remoteMeta))
        \/ pass' = PlanPass(remoteMeta, Changed(filemeta, remoteMeta))
        \/ pass.pc = "idle" /\ UNCHANGED pass
    BY <1>4 DEF StartupPass, FolderEvent
  <2> QED BY <1>2, <2>1, <2>2, <2>3, PlanIsPlanned
<1>5. CASE CreateFile \/ UpdateFile
  <2>1. PICK o \in pass.todo : WriteOperation(o) /\ Running
    BY <1>5 DEF CreateFile, UpdateFile, Pending, Running
  <2>2. Present \subseteq Present' /\ Present' \in SUBSET Paths /\ Present \in SUBSET Paths
    BY <2>1, WriteFiles DEF Present
  <2>3. /\ pass'.pc = pass.pc /\ pass'.meta = pass.meta /\ pass'.before = pass.before
        /\ pass'.deletes = pass.deletes
    BY <2>1, WriteTyped, DoneTyped
  <2>4. /\ Cardinality(Present) <= Cardinality(Present')
        /\ Cardinality(Present) \in Nat /\ Cardinality(Present') \in Nat
    BY <2>2, MoreFiles
  <2>5. /\ Cardinality(Present \ pass.deletes) <= Cardinality(Present' \ pass.deletes)
        /\ Cardinality(Present \ pass.deletes) \in Nat /\ Cardinality(Present' \ pass.deletes) \in Nat
    BY <2>2, MoreFiles
  <2>6. pass.before \in Nat
    BY DEF Typed, Passes
  <2>7. Listed(pass.meta)' = Listed(pass.meta)
    BY <2>3 DEF Listed
  <2>8. Listed(pass.meta) \in SUBSET Paths
    BY DEF Listed
  <2>9. MassThreshold(Cardinality(Listed(pass.meta))) \in Nat
    BY <2>8, PresentCounts, ThresholdType
  <2>10. pass'.pc # "save"
    BY <2>1, <2>3 DEF Running
  <2>11. Running' /\ Listed(pass.meta)' = {} => pass'.before = 0
    BY <2>3, <2>7 DEF Counting, Running
  <2>12. pass'.pc = "create" => pass'.before <= Cardinality(Present')
    BY <2>3, <2>4, <2>6 DEF Counting
  <2>13. pass'.pc = "rest" /\ ~AllowMassDelete =>
           pass'.before <= Cardinality(Present' \ pass'.deletes)
                        + MassThreshold(Cardinality(Listed(pass.meta)))
    <3>1. PICK n \in Nat : n = MassThreshold(Cardinality(Listed(pass.meta)))
      BY <2>9
    <3> QED BY <2>3, <2>5, <2>6, <3>1 DEF Counting
  <2> QED BY <2>7, <2>10, <2>11, <2>12, <2>13 DEF Counting
<1>6. CASE RenameFile
  <2>1. PICK o \in pass.todo :
           /\ o.kind = "rename" /\ o.path \in Paths /\ o.from \in Paths \ {o.path}
           /\ pass' = Done(o) /\ pass.pc = "create"
           /\ \/ /\ disk[o.from] # None /\ disk'[o.from] = None /\ disk'[o.path] = disk[o.from]
                 /\ \A p \in Paths : p # o.path /\ p # o.from => disk'[p] = disk[p]
              \/ disk[o.from] = None /\ disk' = disk
    BY <1>6, RenameFiles
  <2>2. /\ pass'.pc = "create" /\ pass'.meta = pass.meta /\ pass'.before = pass.before
    BY <2>1, DoneTyped
  <2>3. o.path \notin Present /\ Present \in SUBSET Paths
    BY <2>1 DEF Planned, Running, Present
  <2>4. Cardinality(Present') = Cardinality(Present)
    <3>1. CASE disk' = disk
      BY <3>1 DEF Present
    <3>2. CASE /\ disk[o.from] # None /\ disk'[o.from] = None /\ disk'[o.path] = disk[o.from]
               /\ \A p \in Paths : p # o.path /\ p # o.from => disk'[p] = disk[p]
      <4>1. Present' = (Present \ {o.from}) \cup {o.path} /\ o.from \in Present
        BY <2>1, <3>2 DEF Present
      <4> QED BY <2>1, <2>3, <4>1, MovedFiles
    <3> QED BY <2>1, <3>1, <3>2
  <2> QED BY <2>1, <2>2, <2>4 DEF Counting, Running, Listed
<1>7. CASE PlanDeletes
  <2>1. PICK extra, n : extra = Present \ Listed(pass.meta)
                        /\ n = MassThreshold(Cardinality(Listed(pass.meta)))
    OBVIOUS
  <2>2. Listed(pass.meta) \in SUBSET Paths /\ Present \in SUBSET Paths
        /\ extra \in SUBSET Paths /\ extra \in SUBSET Present
    BY <2>1 DEF Listed, Present
  <2>3. n \in Nat
    BY <2>1, <2>2, PresentCounts, ThresholdType
  <2>4. PICK deletes, verdict :
          /\ pass' = [pass EXCEPT !.pc = "rest", !.verdict = verdict, !.deletes = deletes]
          /\ deletes = {} \/ (deletes = extra /\ (AllowMassDelete \/ ~(Cardinality(extra) > n)))
    BY <1>7, <2>1 DEF PlanDeletes
  <2>5. UNCHANGED disk /\ pass.pc = "create"
    BY <1>7 DEF PlanDeletes
  <2>6. /\ pass'.pc = "rest" /\ pass'.meta = pass.meta /\ pass'.before = pass.before
        /\ pass'.deletes = deletes
    BY <2>4 DEF Typed, Passes
  <2>7. Cardinality(Present) \in Nat /\ Cardinality(extra) \in Nat /\ pass.before \in Nat
    BY <2>2, PresentCounts DEF Typed, Passes
  <2>8. pass.before <= Cardinality(Present)
    BY <2>5 DEF Counting
  <2>9. ~AllowMassDelete => pass.before <= Cardinality(Present \ deletes) + n
    <3>1. CASE deletes = {}
      <4>1. Present \ deletes = Present
        BY <3>1
      <4> QED BY <2>3, <2>7, <2>8, <4>1
    <3>2. CASE deletes = extra /\ ~(Cardinality(extra) > n)
      <4>1. IsFiniteSet(Present)
        BY <2>2, PresentCounts
      <4>2. PICK R, I : R = Present \ extra /\ I = Present \cap extra
        OBVIOUS
      <4>3. Cardinality(R) = Cardinality(Present) - Cardinality(I)
        BY <4>1, <4>2, FS_Difference
      <4>4. I = extra
        BY <2>2, <4>2
      <4>5. Cardinality(R) + n >= Cardinality(Present)
        BY <2>3, <2>7, <3>2, <4>3, <4>4
      <4>6. R \in SUBSET Paths
        BY <2>2, <4>2
      <4>7. Cardinality(R) \in Nat
        BY <4>6, PresentCounts
      <4>8. pass.before <= Cardinality(R) + n
        BY <2>3, <2>7, <2>8, <4>5, <4>7
      <4> QED BY <3>2, <4>2, <4>8
    <3> QED BY <2>4, <3>1, <3>2
  <2>10. Present' = Present /\ Listed(pass.meta)' = Listed(pass.meta)
    BY <2>5, <2>6 DEF Present, Listed
  <2> QED BY <2>1, <2>5, <2>6, <2>9, <2>10 DEF Counting, Running
<1>8. CASE DeleteFile
  <2>1. PICK p \in pass.deletes :
          /\ pass' = [pass EXCEPT !.deletes = @ \ {p}] /\ pass.pc = "rest"
          /\ disk' = [disk EXCEPT ![p] = None]
    BY <1>8 DEF DeleteFile
  <2>2. /\ pass'.pc = "rest" /\ pass'.meta = pass.meta /\ pass'.before = pass.before
        /\ pass'.deletes = pass.deletes \ {p}
    BY <2>1 DEF Typed, Passes
  <2>3. p \in Paths /\ disk \in [Paths -> Files \cup {None}]
    BY <2>1 DEF Typed, Passes
  <2>4. Present' = Present \ {p}
    BY <2>1, <2>3 DEF Present
  <2>5. Present' \ pass'.deletes = Present \ pass.deletes
    BY <2>1, <2>2, <2>4
  <2>6. Listed(pass.meta)' = Listed(pass.meta)
    BY <2>2 DEF Listed
  <2> QED BY <2>1, <2>2, <2>5, <2>6 DEF Counting, Running
<1>9. CASE Users
  <2>1. UNCHANGED <<pass, disk>>
    BY <1>9 DEF Users, Edit, Revert, Add, Replace, Unlist, MoveRemote, ChangeText, ChangeFolder
  <2> QED BY <1>1, <2>1
<1>10. CASE \E d \in Docs : DocumentEvent(d)
  BY <1>2, <1>10 DEF DocumentEvent
<1> QED
  BY <1>1, <1>2, <1>3, <1>4, <1>5, <1>6, <1>7, <1>8, <1>9, <1>10
  DEF Next, Engine, StartupFails, FinishPass, Crash, Restart, vars

LEMMA InitPlanned == Init => Planned /\ Counting
BY DEF Init, Planned, Counting, Running, NoPass

LEMMA CountingBoundsLoss == ASSUME Typed, Counting PROVE BoundedLoss
<1>1. Present \in SUBSET Paths /\ Listed(pass.meta) \in SUBSET Paths
  BY DEF Present, Listed
<1>2. Cardinality(Present) \in Nat /\ Cardinality(Listed(pass.meta)) \in Nat
  BY <1>1, PresentCounts
<1>3. PICK n \in Nat : n = MassThreshold(Cardinality(Listed(pass.meta)))
  BY <1>2, ThresholdType
<1>4. CASE pass.pc = "save"
  BY <1>2, <1>3, <1>4 DEF Counting, BoundedLoss
<1>5. CASE pass.pc = "rest" /\ pass.deletes = {}
  <2>1. Present \ pass.deletes = Present
    BY <1>5
  <2> QED BY <1>2, <1>3, <1>5, <2>1 DEF Counting, BoundedLoss, Running
<1> QED BY <1>4, <1>5 DEF PassExecuted, BoundedLoss

(* A pass costs the mirror no file when the server shows an empty folder,  *)
(* and otherwise, unless mass deletions are allowed, at most the threshold: *)
(* creates, renames and updates, in any order and failing or not, lose     *)
(* nothing, and the gate counts the deletes after them.                    *)
THEOREM LossIsBounded == Spec => []BoundedLoss
<1>1. Init => Typed /\ Planned /\ Counting
  BY InitTyped, InitPlanned
<1>2. Typed /\ Planned /\ Counting /\ [Next]_vars => Typed' /\ Planned' /\ Counting'
  BY StepTyped, PlannedStep, CountingStep
<1>3. Typed /\ Planned /\ Counting => BoundedLoss
  BY CountingBoundsLoss
<1> QED BY <1>1, <1>2, <1>3, PTL DEF Spec

------------------------------------------------------------------------------
(* What a pass completes. *)

Injective(meta) == \A p, q \in Listed(meta) : meta[p].doc = meta[q].doc => p = q
Hashed(meta)    == \A p \in Listed(meta) : meta[p].doc \in Attachments => meta[p].hash # 0

(* A document is listed once, and an attachment with its hash. *)
Sane == /\ Injective(remoteMeta) /\ Hashed(remoteMeta)
        /\ Running => Injective(pass.meta) /\ Hashed(pass.meta)

(* Every listed document is in its place, or an operation will put it      *)
(* there; the file that an operation will move is still the document's.    *)
Reliable == sound /\ Running =>
  /\ \A o \in pass.todo : o.kind = "rename" => Holds(o.from, o.doc)
  /\ \A p \in Listed(pass.meta) : (\E o \in pass.todo : o.path = p) \/ InPlace(pass.meta, p)

LEMMA UsersSane ==
  ASSUME Typed, Injective(remoteMeta) /\ Hashed(remoteMeta), Users
  PROVE  Injective(remoteMeta') /\ Hashed(remoteMeta')
<1>1. CASE UNCHANGED remoteMeta
  BY <1>1
<1>2. CASE \E d \in Docs, p \in Paths : Add(d, p)
  <2>1. PICK d \in Docs, p \in Paths, h \in 0 .. MaxVersion :
          /\ d \notin DocsIn(remoteMeta)
          /\ d \in Attachments => h # 0
          /\ remoteMeta' = [remoteMeta EXCEPT ![p] = [doc |-> d, hash |-> h]]
    <3>1. PICK d \in Docs, p \in Paths : Add(d, p)
      BY <1>2
    <3>2. PICK h \in IF d \in Attachments THEN Versions ELSE {0} :
            ChangeFolder([remoteMeta EXCEPT ![p] = [doc |-> d, hash |-> h]])
      BY <3>1 DEF Add
    <3>3. h \in 0 .. MaxVersion /\ (d \in Attachments => h # 0)
      BY <3>2, FolderAssumption DEF Versions, FolderAssumption
    <3> QED BY <3>1, <3>2, <3>3 DEF Add, ChangeFolder
  <2>2. PICK e : e = [doc |-> d, hash |-> h]
    OBVIOUS
  <2>3. e.doc = d /\ e.hash = h /\ remoteMeta' = [remoteMeta EXCEPT ![p] = e]
    BY <2>1, <2>2
  <2>4. \A q \in Paths : remoteMeta'[q] = IF q = p THEN e ELSE remoteMeta[q]
    BY <2>3 DEF Typed, Metadata
  <2>5. \A q \in Listed(remoteMeta') : q = p \/ (q \in Listed(remoteMeta) /\ remoteMeta'[q] = remoteMeta[q])
    BY <2>4 DEF Listed
  <2>6. \A q \in Listed(remoteMeta) : remoteMeta[q].doc # d
    BY <2>1 DEF DocsIn
  <2>7. remoteMeta'[p] = e
    BY <2>4
  <2>8. Injective(remoteMeta')
    <3> SUFFICES ASSUME NEW q \in Listed(remoteMeta'), NEW r \in Listed(remoteMeta'),
                        remoteMeta'[q].doc = remoteMeta'[r].doc
                 PROVE  q = r
      BY DEF Injective
    <3>1. CASE q = p /\ r # p
      BY <2>3, <2>5, <2>6, <2>7, <3>1
    <3>2. CASE q # p /\ r = p
      BY <2>3, <2>5, <2>6, <2>7, <3>2
    <3>3. CASE q # p /\ r # p
      BY <2>5, <3>3 DEF Injective
    <3> QED BY <3>1, <3>2, <3>3
  <2>9. d \in Attachments => h # 0
    BY <2>1
  <2>10. Hashed(remoteMeta')
    BY <2>3, <2>5, <2>7, <2>9 DEF Hashed
  <2> QED BY <2>8, <2>10
<1>3. CASE \E p \in Paths : Replace(p)
  <2>1. PICK p \in Paths, h \in Versions :
          p \in Listed(remoteMeta) /\ remoteMeta' = [remoteMeta EXCEPT ![p].hash = h]
    BY <1>3 DEF Replace, ChangeFolder, Listed
  <2>2. h # 0 /\ remoteMeta[p] \in Entries
    BY <2>1, FolderAssumption DEF Versions, FolderAssumption, Typed, Metadata, Listed
  <2>3. PICK e : e = [remoteMeta[p] EXCEPT !.hash = h]
    OBVIOUS
  <2>4. e.doc = remoteMeta[p].doc /\ e.hash = h
    BY <2>2, <2>3 DEF Entries
  <2>5. remoteMeta' = [remoteMeta EXCEPT ![p] = e]
    BY <2>1, <2>3
  <2>6. \A q \in Paths : remoteMeta'[q] = IF q = p THEN e ELSE remoteMeta[q]
    BY <2>5 DEF Typed, Metadata
  <2>7. \A q \in Listed(remoteMeta') :
           q \in Listed(remoteMeta) /\ remoteMeta'[q].doc = remoteMeta[q].doc
           /\ (remoteMeta'[q].hash = remoteMeta[q].hash \/ remoteMeta'[q].hash # 0)
    BY <2>1, <2>2, <2>4, <2>6 DEF Listed
  <2> QED BY <2>7 DEF Injective, Hashed
<1>4. CASE \E p \in Paths : Unlist(p)
  <2>1. PICK p \in Paths : remoteMeta' = [remoteMeta EXCEPT ![p] = None]
    BY <1>4 DEF Unlist, ChangeFolder
  <2>2. \A q \in Listed(remoteMeta') : q \in Listed(remoteMeta) /\ remoteMeta'[q] = remoteMeta[q]
    BY <2>1 DEF Typed, Metadata, Listed
  <2> QED BY <2>2 DEF Injective, Hashed
<1>5. CASE \E p, q \in Paths : MoveRemote(p, q)
  <2>1. PICK p \in Paths, q \in Paths :
          /\ p \in Listed(remoteMeta) /\ q \notin Listed(remoteMeta)
          /\ remoteMeta' = [remoteMeta EXCEPT ![p] = None, ![q] = remoteMeta[p]]
    BY <1>5 DEF MoveRemote, ChangeFolder, Listed
  <2>2. \A r \in Paths : remoteMeta'[r] = IF r = q THEN remoteMeta[p] ELSE IF r = p THEN None ELSE remoteMeta[r]
    BY <2>1 DEF Typed, Metadata
  <2>3. \A r \in Listed(remoteMeta') :
           \/ r = q /\ remoteMeta'[r] = remoteMeta[p]
           \/ r # p /\ r \in Listed(remoteMeta) /\ remoteMeta'[r] = remoteMeta[r]
    BY <2>1, <2>2 DEF Listed
  <2>4. p \in Listed(remoteMeta)
    BY <2>1
  <2>5. Injective(remoteMeta')
    <3> SUFFICES ASSUME NEW r \in Listed(remoteMeta'), NEW s \in Listed(remoteMeta'),
                        remoteMeta'[r].doc = remoteMeta'[s].doc
                 PROVE  r = s
      BY DEF Injective
    <3>1. CASE r = q /\ s # q
      BY <2>3, <2>4, <3>1 DEF Injective
    <3>2. CASE r # q /\ s = q
      BY <2>3, <2>4, <3>2 DEF Injective
    <3>3. CASE r # q /\ s # q
      BY <2>3, <3>3 DEF Injective
    <3> QED BY <3>1, <3>2, <3>3
  <2>6. Hashed(remoteMeta')
    BY <2>3, <2>4 DEF Hashed
  <2> QED BY <2>5, <2>6
<1> QED
  BY <1>1, <1>2, <1>3, <1>4, <1>5 DEF Users, Edit, Revert, ChangeText

LEMMA SaneStep == ASSUME Typed, Sane, [Next]_vars PROVE Sane'
<1>1. CASE Users
  <2>1. UNCHANGED pass
    BY <1>1 DEF Users, Edit, Revert, Add, Replace, Unlist, MoveRemote, ChangeText, ChangeFolder
  <2>2. Injective(remoteMeta') /\ Hashed(remoteMeta')
    BY <1>1, UsersSane DEF Sane
  <2> QED BY <2>1, <2>2 DEF Sane, Running, Injective, Hashed, Listed
<1>2. CASE UNCHANGED <<remoteMeta, pass>>
  BY <1>2 DEF Sane, Running, Injective, Hashed, Listed
<1>3. CASE UNCHANGED remoteMeta /\ (pass'.meta = remoteMeta \/ ~Running')
  BY <1>3 DEF Sane, Injective, Hashed, Listed
<1>4. CASE UNCHANGED remoteMeta /\ pass'.meta = pass.meta /\ (Running' => Running)
  BY <1>4 DEF Sane, Injective, Hashed, Listed
<1>5. CASE StartupPass \/ FolderEvent
  <2>1. UNCHANGED remoteMeta
    BY <1>5 DEF StartupPass, FolderEvent, server
  <2>2. pass'.meta = remoteMeta \/ UNCHANGED pass
    BY <1>5, PlanFacts DEF StartupPass, FolderEvent
  <2> QED BY <1>2, <1>3, <2>1, <2>2
<1>6. CASE CreateFile \/ UpdateFile
  <2>1. PICK o \in pass.todo : WriteOperation(o)
    BY <1>6 DEF CreateFile, UpdateFile, Pending
  <2>2. UNCHANGED remoteMeta
    BY <1>6 DEF CreateFile, UpdateFile, server
  <2> QED BY <1>4, <2>1, <2>2, WriteTyped, DoneTyped DEF Running
<1>7. CASE RenameFile
  <2>1. UNCHANGED remoteMeta /\ \E o \in pass.todo : pass' = Done(o)
    BY <1>7 DEF RenameFile, Pending, server
  <2> QED BY <1>4, <2>1, DoneTyped DEF Running
<1>8. CASE PlanDeletes \/ DeleteFile
  <2>1. UNCHANGED remoteMeta /\ Running
    BY <1>8 DEF PlanDeletes, DeleteFile, server, Running
  <2>2. pass'.meta = pass.meta
    BY <1>8 DEF PlanDeletes, DeleteFile, Typed, Passes
  <2> QED BY <1>4, <2>1, <2>2
<1>9. CASE UNCHANGED remoteMeta /\ pass' = NoPass
  BY <1>3, <1>9, NoPassTyped DEF Running
<1> QED
  BY <1>1, <1>2, <1>5, <1>6, <1>7, <1>8, <1>9
  DEF Next, Engine, StartupFails, FinishPass, DocumentEvent, Crash, Restart, vars, server

LEMMA InitSane == Init => Sane /\ Reliable
BY DEF Init, Sane, Reliable, Running, NoPass, Injective, Hashed, Listed

(* A document stays in its place as long as its file does, whatever users  *)
(* do to its text: the change is announced.                                *)
LEMMA StaysInPlace ==
  ASSUME Typed, NEW meta \in Metadata, NEW p \in Listed(meta), InPlace(meta, p),
         Holds(p, meta[p].doc) => disk'[p] = disk[p],
         docDirty \cup missed \subseteq docDirty' \cup missed',
         \A d \in Docs : remoteText'[d] = remoteText[d] \/ d \in docDirty' \cup missed'
  PROVE  \/ disk'[p] # None /\ disk'[p].doc = meta[p].doc
         \/ /\ meta[p].doc \notin Attachments
            /\ remoteText'[meta[p].doc] = 0 \/ meta[p].doc \in docDirty' \cup missed'
<1>1. meta[p].doc \in Docs
  BY DEF Listed, Metadata, Entries
<1> QED BY <1>1 DEF InPlace, Holds

LEMMA PlanIsReliable ==
  ASSUME Typed, NEW meta \in Metadata, NEW paths \in SUBSET Listed(meta),
         pass' = PlanPass(meta, paths), UNCHANGED <<disk, docDirty, missed, remoteText>>,
         \A o \in pass'.todo : o.kind = "rename" => Holds(o.from, o.doc),
         \A p \in Listed(meta) \ paths : InPlace(meta, p)
  PROVE  Reliable'
<1>1. CASE pass'.pc # "create"
  BY <1>1, PlanFacts DEF Reliable, Running
<1>2. CASE pass'.pc = "create"
  <2>1. pass'.meta = meta
        /\ pass'.todo = {o \in {Operation(meta, p) : p \in paths} : o.kind # "noop"}
    BY <1>2, PlanFacts
  <2>2. ASSUME NEW p \in paths
        PROVE  (\E o \in pass'.todo : o.path = p) \/ InPlace(meta, p)
    <3>1. PICK o : o = Operation(meta, p)
      OBVIOUS
    <3>2. p \in Listed(meta)
      OBVIOUS
    <3>3. Suits(o, meta, p)
      BY <3>1, <3>2, OperationType
    <3>4. CASE o.kind # "noop"
      BY <2>1, <3>1, <3>3, <3>4 DEF Suits
    <3>5. CASE o.kind = "noop"
      <4>1. disk[p] = [doc |-> o.doc, version |-> o.hash] /\ o.doc = meta[p].doc
        BY <3>3, <3>5 DEF Suits
      <4>2. disk[p].doc = meta[p].doc
        BY <4>1
      <4>3. o.hash # 0
        BY <3>1, <3>5 DEF Operation
      <4>4. o.doc \in Docs /\ o.hash \in 0 .. MaxVersion
        BY <3>3 DEF Suits, Operations
      <4>5. o.hash \in Versions
        BY <4>3, <4>4, FolderAssumption DEF Versions, FolderAssumption
      <4>6. disk[p] \in Files
        BY <4>1, <4>4, <4>5 DEF Files
      <4>7. disk[p] # None
        BY <4>6, FolderAssumption DEF FolderAssumption
      <4> QED BY <4>2, <4>7 DEF InPlace, Holds
    <3> QED BY <3>4, <3>5
  <2>3. \A p \in Listed(meta) : (\E o \in pass'.todo : o.path = p) \/ InPlace(meta, p)
    BY <2>2
  <2>4. Listed(pass.meta)' = Listed(meta)
    BY <2>1 DEF Listed
  <2> QED BY <2>1, <2>3, <2>4 DEF Reliable, InPlace, Holds
<1> QED BY <1>1, <1>2

(* Where a listed document is after a step. *)
PlacedNext(meta, p) ==
  \/ disk'[p] # None /\ disk'[p].doc = meta[p].doc
  \/ /\ meta[p].doc \notin Attachments
     /\ remoteText'[meta[p].doc] = 0 \/ meta[p].doc \in docDirty' \cup missed'

LEMMA ReliableNext ==
  ASSUME NEW meta, pass'.meta = meta,
         sound' /\ Running' =>
           /\ \A o \in pass'.todo : o.kind = "rename" => disk'[o.from] # None /\ disk'[o.from].doc = o.doc
           /\ \A p \in Listed(meta) : (\E o \in pass'.todo : o.path = p) \/ PlacedNext(meta, p)
  PROVE  Reliable'
<1>1. Listed(pass.meta)' = Listed(meta)
  BY DEF Listed
<1> QED BY <1>1 DEF Reliable, InPlace, Holds, PlacedNext

LEMMA UsersReliable == ASSUME Typed, Reliable, Users PROVE Reliable'
<1>1. UNCHANGED <<pass, disk, sound>>
  BY DEF Users, Edit, Revert, Add, Replace, Unlist, MoveRemote, ChangeText, ChangeFolder, granted
<1>2. /\ docDirty \cup missed \subseteq docDirty' \cup missed'
      /\ \A d \in Docs : remoteText'[d] = remoteText[d] \/ d \in docDirty' \cup missed'
  <2>1. CASE UNCHANGED <<remoteText, docDirty, missed>>
    BY <2>1
  <2>2. CASE \E d \in Docs, v \in Nat : ChangeText(d, v)
    <3>1. PICK d \in Docs, v \in Nat : ChangeText(d, v)
      BY <2>2
    <3>2. \A e \in Docs : e # d => remoteText'[e] = remoteText[e]
      BY <3>1 DEF ChangeText, Typed
    <3> QED BY <3>1, <3>2 DEF ChangeText
  <2>3. \A d \in Docs : remoteText[d] + 1 \in Nat
    BY FolderAssumption DEF Typed, FolderAssumption
  <2>4. \A d \in Docs : remoteText[d] > 1 => remoteText[d] - 1 \in Nat
    BY FolderAssumption DEF Typed, FolderAssumption
  <2> QED BY <2>1, <2>2, <2>3, <2>4 DEF Users, Edit, Revert, Add, Replace, Unlist, MoveRemote
<1>3. CASE ~(sound /\ Running)
  BY <1>1, <1>3 DEF Reliable, Running
<1>4. CASE sound /\ Running
  <2>1. PICK meta \in Metadata : meta = pass.meta
    BY <1>4 DEF Typed, Running
  <2>2. ASSUME NEW p \in Listed(meta), InPlace(meta, p) PROVE PlacedNext(meta, p)
    BY <1>1, <1>2, <2>2, StaysInPlace DEF PlacedNext
  <2>3. \A o \in pass'.todo : o.kind = "rename" => disk'[o.from] # None /\ disk'[o.from].doc = o.doc
    BY <1>1, <1>4 DEF Reliable, Holds
  <2>4. \A p \in Listed(meta) : (\E o \in pass'.todo : o.path = p) \/ PlacedNext(meta, p)
    BY <1>1, <1>4, <2>1, <2>2 DEF Reliable
  <2> QED BY <1>1, <2>1, <2>3, <2>4, ReliableNext
<1> QED BY <1>3, <1>4

(* A create or an update puts its document in its place, unless there is   *)
(* no content yet, and takes no other document's.                          *)
LEMMA WriteReliable ==
  ASSUME Typed, Planned, Sane, Reliable, CreateFile \/ UpdateFile
  PROVE  Reliable'
<1>1. PICK o \in pass.todo :
        /\ WriteOperation(o) /\ Running
        /\ pass.pc = "create" => o.kind = "create"
  BY DEF CreateFile, UpdateFile, Pending, Running
<1>2. UNCHANGED <<remoteText, docDirty, missed>>
  BY DEF CreateFile, UpdateFile, server, notifications
<1>3. /\ pass'.pc = pass.pc /\ pass'.meta = pass.meta /\ pass'.todo = pass.todo \ {o}
  BY <1>1, WriteTyped, DoneTyped
<1>4. PICK meta \in Metadata : meta = pass.meta
  BY <1>1 DEF Typed, Running
<1>5. /\ o.path \in Listed(meta) /\ o.path \in Paths
      /\ o.doc = meta[o.path].doc /\ o.hash = meta[o.path].hash
  BY <1>1, <1>4 DEF Planned, Listed
<1>6. /\ \A p \in Paths : p # o.path => disk'[p] = disk[p]
      /\ disk'[o.path] = disk[o.path] \/ (disk'[o.path] # None /\ disk'[o.path].doc = o.doc)
  BY <1>1, WriteFiles
<1>7. CASE ~sound'
  BY <1>3, <1>7 DEF Reliable
<1>8. CASE sound'
  <2>1. sound
    BY <1>1, <1>8 DEF WriteOperation, Typed
  <2>2. PlacedNext(meta, o.path)
    <3>1. CASE Fetched(o.doc, o.hash) = 0
      <4>1. o.doc \notin Attachments
        <5>1. Hashed(meta)
          BY <1>1, <1>4 DEF Sane
        <5>2. o.doc \in Attachments => Fetched(o.doc, o.hash) # 0
          BY <1>5, <5>1 DEF Hashed, Fetched
        <5> QED BY <3>1, <5>2
      <4>2. remoteText[o.doc] = 0
        BY <3>1, <4>1 DEF Fetched
      <4> QED BY <1>2, <1>5, <4>1, <4>2 DEF PlacedNext
    <3>2. CASE Fetched(o.doc, o.hash) # 0
      <4>1. disk' = [disk EXCEPT ![o.path] = [doc |-> o.doc, version |-> Fetched(o.doc, o.hash)]]
        BY <1>1, <1>8, <3>2 DEF WriteOperation
      <4>2. PICK f : f = [doc |-> o.doc, version |-> Fetched(o.doc, o.hash)]
        OBVIOUS
      <4>3. disk'[o.path] = f /\ f.doc = o.doc
        BY <1>5, <4>1, <4>2 DEF Typed
      <4>4. o.doc \in Docs /\ o.hash \in 0 .. MaxVersion
        BY DEF Typed, Passes, Operations
      <4>5. Fetched(o.doc, o.hash) \in Versions
        BY <3>2, <4>4, FolderAssumption DEF Fetched, Typed, Versions, FolderAssumption
      <4>6. f \in Files
        BY <4>2, <4>4, <4>5 DEF Files
      <4>7. f # None
        BY <4>6, FolderAssumption DEF FolderAssumption
      <4> QED BY <1>5, <4>3, <4>7 DEF PlacedNext
    <3> QED BY <3>1, <3>2
  <2>3. ASSUME NEW p \in Listed(meta), p # o.path, InPlace(meta, p) PROVE PlacedNext(meta, p)
    <3>1. p \in Paths
      BY DEF Listed
    <3> QED BY <1>2, <1>6, <2>3, <3>1 DEF PlacedNext, InPlace, Holds
  <2>4. ASSUME NEW r \in pass'.todo, r.kind = "rename"
        PROVE  disk'[r.from] # None /\ disk'[r.from].doc = r.doc
    <3>1. r \in pass.todo /\ Holds(r.from, r.doc)
      BY <1>1, <1>3, <2>1, <2>4 DEF Reliable
    <3>2. pass.pc = "create" /\ r.from \in Paths
      BY <1>1, <2>4, <3>1 DEF Planned, Running
    <3>3. disk[o.path] = None
      BY <1>1, <3>2 DEF Planned, Running
    <3>4. r.from # o.path
      BY <3>1, <3>3 DEF Holds
    <3> QED BY <1>6, <3>1, <3>2, <3>4 DEF Holds
  <2>5. \A p \in Listed(meta) : (\E r \in pass'.todo : r.path = p) \/ PlacedNext(meta, p)
    <3> SUFFICES ASSUME NEW p \in Listed(meta), p # o.path
                 PROVE  (\E r \in pass'.todo : r.path = p) \/ PlacedNext(meta, p)
      BY <2>2
    <3>1. (\E r \in pass.todo : r.path = p) \/ InPlace(meta, p)
      BY <1>1, <1>4, <2>1 DEF Reliable
    <3> QED BY <1>3, <2>3, <3>1
  <2> QED BY <1>3, <1>4, <2>4, <2>5, ReliableNext
<1> QED BY <1>7, <1>8

(* A rename moves its document's file, takes no place in use and no file   *)
(* that another rename or another listed document needs.                   *)
LEMMA RenameReliable ==
  ASSUME Typed, Planned, Sane, Reliable, RenameFile
  PROVE  Reliable'
<1>1. PICK o \in pass.todo :
         /\ o.kind = "rename" /\ o.path \in Paths /\ o.from \in Paths \ {o.path}
         /\ pass' = Done(o) /\ pass.pc = "create"
         /\ \/ /\ disk[o.from] # None /\ disk'[o.from] = None /\ disk'[o.path] = disk[o.from]
               /\ \A p \in Paths : p # o.path /\ p # o.from => disk'[p] = disk[p]
            \/ disk[o.from] = None /\ disk' = disk
  BY RenameFiles
<1>2. UNCHANGED <<remoteText, docDirty, missed, sound>>
  BY DEF RenameFile, server, notifications, granted
<1>3. /\ pass'.pc = pass.pc /\ pass'.meta = pass.meta /\ pass'.todo = pass.todo \ {o}
  BY <1>1, DoneTyped
<1>4. PICK meta \in Metadata : meta = pass.meta
  BY <1>1 DEF Typed
<1>5. Running
  BY <1>1 DEF Running
<1>6. /\ o.path \in Listed(meta) /\ o.doc = meta[o.path].doc /\ disk[o.path] = None
  BY <1>1, <1>4, <1>5 DEF Planned
<1>7. CASE ~sound
  BY <1>2, <1>7 DEF Reliable
<1>8. CASE sound
  <2>1. Holds(o.from, o.doc)
    BY <1>1, <1>5, <1>8 DEF Reliable
  <2>2. /\ disk[o.from] # None /\ disk'[o.from] = None /\ disk'[o.path] = disk[o.from]
        /\ \A p \in Paths : p # o.path /\ p # o.from => disk'[p] = disk[p]
    BY <1>1, <2>1 DEF Holds
  <2>3. Injective(meta)
    BY <1>4, <1>5 DEF Sane
  <2>4. PlacedNext(meta, o.path)
    BY <1>6, <2>1, <2>2 DEF PlacedNext, Holds
  <2>5. ASSUME NEW p \in Listed(meta), p # o.path, InPlace(meta, p) PROVE PlacedNext(meta, p)
    <3>1. p \in Paths
      BY DEF Listed
    <3>2. p # o.from \/ ~Holds(p, meta[p].doc)
      BY <1>6, <2>1, <2>3, <2>5 DEF Holds, Injective
    <3>3. CASE Holds(p, meta[p].doc)
      BY <2>2, <2>5, <3>1, <3>2, <3>3 DEF PlacedNext, Holds
    <3>4. CASE ~Holds(p, meta[p].doc)
      BY <1>2, <2>5, <3>4 DEF PlacedNext, InPlace
    <3> QED BY <3>3, <3>4
  <2>6. ASSUME NEW r \in pass'.todo, r.kind = "rename"
        PROVE  disk'[r.from] # None /\ disk'[r.from].doc = r.doc
    <3>1. r \in pass.todo /\ r # o /\ Holds(r.from, r.doc)
      BY <1>3, <1>5, <1>8, <2>6 DEF Reliable
    <3>2. r.from \in Paths /\ r.path \in Listed(meta) /\ r.doc = meta[r.path].doc
      BY <1>4, <1>5, <2>6, <3>1 DEF Planned
    <3>3. r.path # o.path
      BY <1>5, <3>1 DEF Planned
    <3>4. r.doc # o.doc
      BY <1>6, <2>3, <3>2, <3>3 DEF Injective
    <3>5. r.from # o.path /\ r.from # o.from
      BY <1>6, <2>1, <3>1, <3>4 DEF Holds
    <3> QED BY <2>2, <3>1, <3>2, <3>5 DEF Holds
  <2>7. \A p \in Listed(meta) : (\E r \in pass'.todo : r.path = p) \/ PlacedNext(meta, p)
    <3> SUFFICES ASSUME NEW p \in Listed(meta), p # o.path
                 PROVE  (\E r \in pass'.todo : r.path = p) \/ PlacedNext(meta, p)
      BY <2>4
    <3>1. (\E r \in pass.todo : r.path = p) \/ InPlace(meta, p)
      BY <1>4, <1>5, <1>8 DEF Reliable
    <3> QED BY <1>3, <2>5, <3>1
  <2> QED BY <1>3, <1>4, <2>6, <2>7, ReliableNext
<1> QED BY <1>7, <1>8

LEMMA DeleteReliable ==
  ASSUME Typed, Planned, Reliable, PlanDeletes \/ DeleteFile
  PROVE  Reliable'
<1>1. UNCHANGED <<remoteText, docDirty, missed, sound>> /\ Running
  BY DEF PlanDeletes, DeleteFile, server, notifications, Running, granted
<1>2. pass'.meta = pass.meta /\ pass'.todo = pass.todo
  BY DEF PlanDeletes, DeleteFile, Typed, Passes
<1>3. PICK meta \in Metadata : meta = pass.meta
  BY <1>1 DEF Typed, Running
<1>4. \A p \in Listed(meta) : disk'[p] = disk[p]
  <2>1. CASE PlanDeletes
    BY <2>1 DEF PlanDeletes
  <2>2. CASE DeleteFile
    <3>1. PICK p \in pass.deletes : disk' = [disk EXCEPT ![p] = None]
      BY <2>2 DEF DeleteFile
    <3>2. p \notin Listed(meta)
      BY <1>1, <1>3 DEF Planned
    <3> QED BY <3>1, <3>2 DEF Typed, Listed
  <2> QED BY <2>1, <2>2
<1>5. CASE ~sound
  BY <1>1, <1>5 DEF Reliable
<1>6. CASE sound
  <2>1. \A p \in Listed(meta) : (\E r \in pass'.todo : r.path = p) \/ PlacedNext(meta, p)
    <3> SUFFICES ASSUME NEW p \in Listed(meta), InPlace(meta, p) PROVE PlacedNext(meta, p)
      BY <1>1, <1>2, <1>3, <1>6 DEF Reliable
    <3> QED BY <1>1, <1>4 DEF PlacedNext, InPlace, Holds
  <2>2. \A r \in pass'.todo : r.kind = "rename" => disk'[r.from] # None /\ disk'[r.from].doc = r.doc
    <3>1. CASE PlanDeletes
      <4>1. UNCHANGED disk
        BY <3>1 DEF PlanDeletes
      <4> QED BY <1>1, <1>2, <1>6, <4>1 DEF Reliable, Holds
    <3>2. CASE DeleteFile
      <4>1. pass.todo = {}
        BY <3>2 DEF DeleteFile
      <4> QED BY <1>2, <4>1
    <3> QED BY <3>1, <3>2
  <2> QED BY <1>2, <1>3, <2>1, <2>2, ReliableNext
<1> QED BY <1>5, <1>6

LEMMA StartReliable == ASSUME Typed, Reliable, StartupPass \/ FolderEvent PROVE Reliable'
<1>1. remoteMeta \in Metadata
  BY DEF Typed
<1>2. UNCHANGED <<disk, docDirty, missed, remoteText>> /\ pass.pc = "idle"
  BY DEF StartupPass, FolderEvent, server, notifications
<1>3. CASE ~sound'
  BY <1>3 DEF Reliable
<1>4. CASE UNCHANGED pass
  BY <1>2, <1>4 DEF Reliable, Running
<1>5. CASE StartupPass /\ sound'
  <2>1. pass' = PlanPass(remoteMeta, Listed(remoteMeta))
        /\ Listed(remoteMeta) \in SUBSET Listed(remoteMeta)
    BY <1>5 DEF StartupPass
  <2>2. \A o \in pass'.todo : o.kind = "rename" => Holds(o.from, o.doc)
    BY <1>5 DEF StartupPass, WellFounded, Typed
  <2>3. \A p \in Listed(remoteMeta) \ Listed(remoteMeta) : InPlace(remoteMeta, p)
    OBVIOUS
  <2> QED BY <1>1, <1>2, <2>1, <2>2, <2>3, PlanIsReliable
<1>6. CASE FolderEvent /\ sound' /\ ~UNCHANGED pass
  <2>1. pass' = PlanPass(remoteMeta, Changed(filemeta, remoteMeta))
        /\ Changed(filemeta, remoteMeta) \in SUBSET Listed(remoteMeta)
    BY <1>6 DEF FolderEvent, Changed
  <2>2. WellFounded(pass', {p \in Listed(remoteMeta) : filemeta[p] = remoteMeta[p]})
    BY <1>6 DEF FolderEvent, Typed
  <2>3. \A o \in pass'.todo : o.kind = "rename" => Holds(o.from, o.doc)
    BY <2>2 DEF WellFounded
  <2>4. \A p \in Listed(remoteMeta) \ Changed(filemeta, remoteMeta) : InPlace(remoteMeta, p)
    BY <2>2 DEF WellFounded, Changed
  <2> QED BY <1>1, <1>2, <2>1, <2>3, <2>4, PlanIsReliable
<1> QED BY <1>3, <1>4, <1>5, <1>6

LEMMA ReliableStep == ASSUME Typed, Planned, Sane, Reliable, [Next]_vars PROVE Reliable'
<1>1. CASE pass.pc = "idle" /\ UNCHANGED pass
  BY <1>1 DEF Reliable, Running
<1>2. CASE pass' = NoPass
  BY <1>2 DEF Reliable, Running, NoPass
<1>3. CASE UNCHANGED <<pass, sound, disk, remoteText, docDirty, missed>>
  BY <1>3 DEF Reliable, Running, Holds, InPlace, Listed
<1>4. CASE \E d \in Docs : DocumentEvent(d)
  BY <1>1, <1>4 DEF DocumentEvent
<1> QED
  BY <1>1, <1>2, <1>3, <1>4, UsersReliable, StartReliable, WriteReliable, RenameReliable, DeleteReliable
  DEF Next, Engine, StartupFails, FinishPass, Crash, Restart, vars, server, notifications, granted

LEMMA ReliableCompletes == ASSUME IInv, Reliable PROVE PassComplete
<1> SUFFICES ASSUME sound, PassExecuted, Accepted
             PROVE  \A p \in Listed(pass.meta) : InPlace(pass.meta, p)
  BY DEF PassComplete, AllInPlace
<1>1. pass.pc = "rest" /\ pass.todo = {}
  BY DEF IInv, RefusedIsGated, PassExecuted
<1> QED BY <1>1 DEF Reliable, Running

(* As long as what passes and events took for granted was so and no fetch  *)
(* failed, a pass that was not gated leaves every listed document in its   *)
(* place, in any order of its creates and renames: a rename never takes a  *)
(* place in use, and never the file that another one needs.                *)
THEOREM PassesAreComplete == Spec => []PassComplete
<1>1. Init => IInv /\ Typed /\ Planned /\ Sane /\ Reliable
  BY InitGood, InitTyped, InitPlanned, InitSane
<1>2. IInv /\ Typed /\ Planned /\ Sane /\ Reliable /\ [Next]_vars
        => IInv' /\ Typed' /\ Planned' /\ Sane' /\ Reliable'
  BY StepGood, StepTyped, PlannedStep, SaneStep, ReliableStep
<1>3. IInv /\ Reliable => PassComplete
  BY ReliableCompletes
<1> QED BY <1>1, <1>2, <1>3, PTL DEF Spec

------------------------------------------------------------------------------
(* What the mirror is when nothing is pending. *)

Truthful == sound /\ exact

(* The file at p is document d with the content of the server, or with an  *)
(* event to come (Fresh, for a given state).                               *)
FreshIn(files, text, due, p, d, hash) ==
  /\ files[p] # None /\ files[p].doc = d
  /\ d \in Attachments => files[p].version = hash
  /\ d \notin Attachments => files[p].version = text[d] \/ d \in due

(* The same, or the document's first event will write it: local_file_state *)
(* does not know it yet (UpToDate, for a given state).                     *)
RightIn(files, text, due, s, meta, p) ==
  \/ FreshIn(files, text, due, p, meta[p].doc, meta[p].hash)
  \/ /\ meta[p].doc \notin Attachments /\ PlacesOf(s, meta[p].doc) = {}
     /\ text[meta[p].doc] = 0 \/ meta[p].doc \in due

Due == docDirty \cup missed

Right(meta, p) == RightIn(disk, remoteText, Due, localState, meta, p)

(* Only the metadata of an attachment carries a hash. *)
Plain(meta)  == \A p \in Listed(meta) : meta[p].doc \notin Attachments => meta[p].hash = 0
PlainEntries == Plain(remoteMeta)

(* local_file_state never knows a text document that has no content. *)
KnownIn(s, text) == \A d \in Docs \ Attachments : text[d] = 0 => PlacesOf(s, d) = {}
Known == KnownIn(localState, remoteText) /\ KnownIn(saved[2], remoteText)

(* Events of documents wait in the queue, or for the next connection. *)
Noticed ==
  /\ process = "serving" => missed = {}
  /\ process # "serving" => docDirty = {}
  /\ process = "down" => pass.pc = "idle"
  /\ Due \cap Attachments = {}

(* A pass works on the folder as it is, or the folder is pending. *)
Follows == exact /\ pass.pc # "idle" /\ ~folderDirty => pass.meta = remoteMeta

(* What a gated pass found is still so when it ends. *)
Holding ==
  /\ pass.pc = "save" => Listed(pass.meta) = {} /\ Present # {}
  /\ pass.pc = "rest" /\ ~Accepted =>
       /\ pass.deletes = {} /\ ~AllowMassDelete
       /\ Cardinality(Present \ Listed(pass.meta))
            > MassThreshold(Cardinality(Listed(pass.meta)))

(* Every listed path of a pass is right, or an operation will set it right. *)
Serving == Truthful /\ Running =>
  /\ \A o \in pass.todo : o.kind = "rename" =>
       FreshIn(disk, remoteText, Due, o.from, o.doc, o.hash)
  /\ \A p \in Listed(pass.meta) : (\E o \in pass.todo : o.path = p) \/ Right(pass.meta, p)

(* Between passes the mirror is right but for the events to come, or the   *)
(* folder is held back or pending.                                         *)
Settling == Truthful /\ process = "serving" /\ pass.pc = "idle" /\ ~folderDirty =>
  \/ HeldBack
  \/ /\ filemeta = remoteMeta
     /\ Present \subseteq Listed(remoteMeta)
     /\ \A p \in Listed(remoteMeta) : Right(remoteMeta, p)

LEMMA UpToDateIsRight ==
  ASSUME NEW meta, NEW p
  PROVE  UpToDate(meta, p) <=> Right(meta, p)
BY DEF UpToDate, Right, RightIn, Fresh, FreshIn, Holds, Announced, Due

LEMMA FreshIsFreshIn ==
  ASSUME NEW p, NEW d, NEW hash
  PROVE  Fresh(p, d, hash) <=> FreshIn(disk, remoteText, Due, p, d, hash)
BY DEF Fresh, FreshIn, Holds, Announced, Due

(* What local_file_state does not know it does not learn by itself. *)
LEMMA PopForgets ==
  ASSUME NEW s \in Seq(Notes), NEW p, NEW d, PlacesOf(s, d) = {}
  PROVE  PlacesOf(Popped(s, p), d) = {}
<1>1. Len(s) \in Nat /\ DOMAIN s = 1 .. Len(s) /\ \A i \in 1 .. Len(s) : s[i].doc # d
  BY LenProperties DEF PlacesOf
<1>2. CASE ~Keeps(s, p)
  BY <1>2 DEF Popped
<1>3. CASE Keeps(s, p)
  <2>1. PICK i \in 1 .. Len(s) : i = Place(s, p)
    BY <1>1, <1>3 DEF Keeps, Place
  <2>2. PICK a : a = SubSeq(s, 1, i - 1)
    OBVIOUS
  <2>3. PICK b : b = SubSeq(s, i + 1, Len(s))
    OBVIOUS
  <2>4. i \in Int /\ i - 1 \in Int /\ i + 1 \in Int /\ Len(s) \in Int /\ 1 \in Int
    BY <1>1
  <2>5. \A j \in 1 .. Len(s) : s[j] \in Notes
    BY ElementOfSeq
  <2>6. (\A j \in 1 .. i - 1 : s[j] \in Notes) /\ (\A j \in i + 1 .. Len(s) : s[j] \in Notes)
    BY <1>1, <2>5
  <2>7. /\ a \in Seq(Notes) /\ Len(a) = IF 1 <= i - 1 THEN (i - 1) - 1 + 1 ELSE 0
        /\ \A j \in 1 .. (i - 1) - 1 + 1 : a[j] = s[1 + j - 1]
    BY <2>2, <2>4, <2>6, SubSeqProperties
  <2>8. /\ b \in Seq(Notes) /\ Len(b) = IF i + 1 <= Len(s) THEN Len(s) - (i + 1) + 1 ELSE 0
        /\ \A j \in 1 .. Len(s) - (i + 1) + 1 : b[j] = s[(i + 1) + j - 1]
    BY <2>3, <2>4, <2>6, SubSeqProperties
  <2>9. \A j \in 1 .. Len(a) : a[j].doc # d
    BY <1>1, <2>1, <2>7
  <2>10. \A j \in 1 .. Len(b) : b[j].doc # d
    <3> SUFFICES ASSUME NEW j \in 1 .. Len(b) PROVE b[j].doc # d
      OBVIOUS
    <3>1. j \in 1 .. Len(s) - (i + 1) + 1
      BY <1>1, <2>1, <2>8
    <3>2. (i + 1) + j - 1 \in 1 .. Len(s)
      BY <1>1, <2>1, <3>1
    <3> QED BY <1>1, <2>8, <3>1, <3>2
  <2>11. PICK c : c = a \o b
    OBVIOUS
  <2>12. /\ c \in Seq(Notes) /\ Len(c) = Len(a) + Len(b)
         /\ \A j \in 1 .. Len(a) + Len(b) : c[j] = IF j <= Len(a) THEN a[j] ELSE b[j - Len(a)]
    BY <2>7, <2>8, <2>11, ConcatProperties
  <2>13. Len(a) \in Nat /\ Len(b) \in Nat
    BY <2>7, <2>8, LenProperties
  <2>14. \A j \in 1 .. Len(c) : c[j].doc # d
    BY <2>9, <2>10, <2>12, <2>13
  <2>15. DOMAIN c = 1 .. Len(c)
    BY <2>12, LenProperties
  <2>16. Popped(s, p) = c
    BY <1>3, <2>1, <2>2, <2>3, <2>11 DEF Popped, RemoveAt
  <2> QED BY <2>14, <2>15, <2>16 DEF PlacesOf
<1> QED BY <1>2, <1>3

LEMMA StoreForgets ==
  ASSUME NEW s \in Seq(Notes), NEW p \in Paths, NEW e \in Docs \cup {None}, NEW d, d # e,
         PlacesOf(s, d) = {}
  PROVE  PlacesOf(Stored(s, p, e), d) = {}
<1>1. Len(s) \in Nat /\ DOMAIN s = 1 .. Len(s) /\ \A i \in 1 .. Len(s) : s[i].doc # d
  BY LenProperties DEF PlacesOf
<1>2. PICK n : n = [path |-> p, doc |-> e]
  OBVIOUS
<1>3. n \in Notes /\ n.doc = e
  BY <1>2 DEF Notes
<1>4. CASE ~Keeps(s, p)
  <2>1. PICK t : t = Append(s, n)
    OBVIOUS
  <2>2. /\ t \in Seq(Notes) /\ Len(t) = Len(s) + 1
        /\ \A i \in 1 .. Len(s) : t[i] = s[i]
        /\ t[Len(s) + 1] = n
    BY <1>3, <2>1, AppendProperties
  <2>3. DOMAIN t = 1 .. Len(t)
    BY <2>2, LenProperties
  <2>4. \A i \in 1 .. Len(t) : t[i].doc # d
    BY <1>1, <1>3, <2>2
  <2> QED BY <1>2, <1>4, <2>1, <2>3, <2>4 DEF Stored, PlacesOf
<1>5. CASE Keeps(s, p)
  <2>1. Stored(s, p, e) = [i \in 1 .. Len(s) |-> IF s[i].path = p THEN n ELSE s[i]]
    BY <1>1, <1>2, <1>5 DEF Stored
  <2>2. PICK t : t = Stored(s, p, e)
    OBVIOUS
  <2>3. DOMAIN t = 1 .. Len(s) /\ \A i \in 1 .. Len(s) : t[i] = n \/ t[i] = s[i]
    BY <2>1, <2>2
  <2> QED BY <1>1, <1>3, <2>2, <2>3 DEF PlacesOf
<1> QED BY <1>4, <1>5

LEMMA MoveForgets ==
  ASSUME NEW s \in Seq(Notes), NEW from, NEW to \in Paths, NEW d \in Docs, PlacesOf(s, d) = {}
  PROVE  PlacesOf(Moved(s, from, to), d) = {}
<1> DEFINE docs == {s[i].doc : i \in {j \in DOMAIN s : s[j].path = from}}
<1>1. DOMAIN s = 1 .. Len(s) /\ \A i \in 1 .. Len(s) : s[i] \in Notes /\ s[i].doc # d
  BY LenProperties, ElementOfSeq DEF PlacesOf
<1>2. docs \subseteq Docs \cup {None} /\ d \notin docs
  BY <1>1 DEF Notes
<1> HIDE DEF docs
<1>3. PICK e : e = IF docs = {} THEN None ELSE CHOOSE x \in docs : TRUE
  OBVIOUS
<1>4. e \in Docs \cup {None} /\ e # d
  <2>1. CASE docs = {}
    BY <1>3, <2>1, FolderAssumption DEF FolderAssumption
  <2>2. CASE docs # {}
    <3>1. (CHOOSE x \in docs : TRUE) \in docs
      BY <2>2
    <3> QED BY <1>2, <1>3, <2>2, <3>1
  <2> QED BY <2>1, <2>2
<1>5. Moved(s, from, to) = Stored(Popped(s, from), to, e)
  BY <1>3 DEF Moved, docs
<1> QED BY <1>4, <1>5, PopKeepsType, PopForgets, StoreForgets

(* The metadata of the folder, of the pass and of attachments. *)
LEMMA PlainStep == ASSUME Typed, PlainEntries, [Next]_vars PROVE PlainEntries'
<1>1. CASE UNCHANGED remoteMeta
  BY <1>1 DEF PlainEntries, Plain, Listed
<1>2. CASE \E d \in Docs, p \in Paths : Add(d, p)
  <2>1. PICK d \in Docs, p \in Paths : Add(d, p)
    BY <1>2
  <2>2. PICK h : /\ d \notin Attachments => h = 0
                 /\ remoteMeta' = [remoteMeta EXCEPT ![p] = [doc |-> d, hash |-> h]]
    BY <2>1 DEF Add, ChangeFolder
  <2>3. PICK e : e = [doc |-> d, hash |-> h]
    OBVIOUS
  <2>4. e.doc = d /\ e.hash = h
    BY <2>3
  <2>5. \A q \in Paths : remoteMeta'[q] = IF q = p THEN e ELSE remoteMeta[q]
    BY <2>2, <2>3 DEF Typed, Metadata
  <2> QED BY <2>2, <2>4, <2>5 DEF PlainEntries, Plain, Listed
<1>3. CASE \E p \in Paths : Replace(p)
  <2>1. PICK p \in Paths, h \in Versions :
          /\ remoteMeta[p] # None /\ remoteMeta[p].doc \in Attachments
          /\ remoteMeta' = [remoteMeta EXCEPT ![p].hash = h]
    BY <1>3 DEF Replace, ChangeFolder
  <2>2. PICK e : e = [remoteMeta[p] EXCEPT !.hash = h]
    OBVIOUS
  <2>3. e.doc = remoteMeta[p].doc
    BY <2>1, <2>2 DEF Typed, Metadata, Entries
  <2>4. \A q \in Paths : remoteMeta'[q] = IF q = p THEN e ELSE remoteMeta[q]
    BY <2>1, <2>2 DEF Typed, Metadata
  <2> QED BY <2>1, <2>3, <2>4 DEF PlainEntries, Plain, Listed
<1>4. CASE \E p \in Paths : Unlist(p)
  <2>1. PICK p \in Paths : remoteMeta' = [remoteMeta EXCEPT ![p] = None]
    BY <1>4 DEF Unlist, ChangeFolder
  <2>2. \A q \in Paths : remoteMeta'[q] = IF q = p THEN None ELSE remoteMeta[q]
    BY <2>1 DEF Typed, Metadata
  <2> QED BY <2>2 DEF PlainEntries, Plain, Listed
<1>5. CASE \E p, q \in Paths : MoveRemote(p, q)
  <2>1. PICK p \in Paths, q \in Paths :
          remoteMeta[p] # None /\ remoteMeta' = [remoteMeta EXCEPT ![p] = None, ![q] = remoteMeta[p]]
    BY <1>5 DEF MoveRemote, ChangeFolder
  <2>2. \A r \in Paths : remoteMeta'[r] = IF r = q THEN remoteMeta[p] ELSE IF r = p THEN None ELSE remoteMeta[r]
    BY <2>1 DEF Typed, Metadata
  <2> QED BY <2>1, <2>2 DEF PlainEntries, Plain, Listed
<1>6. CASE Users
  BY <1>1, <1>2, <1>3, <1>4, <1>5, <1>6 DEF Users, Edit, Revert, ChangeText
<1> QED
  BY <1>1, <1>6
  DEF Next, Engine, StartupPass, StartupFails, FolderEvent, CreateFile, RenameFile, PlanDeletes,
      UpdateFile, DeleteFile, FinishPass, DocumentEvent, Crash, Restart, vars, server

LEMMA NoticedStep == ASSUME Typed, Noticed, [Next]_vars PROVE Noticed'
<1>1. CASE UNCHANGED <<process, docDirty, missed>> /\ (process = "down" => UNCHANGED pass)
  BY <1>1 DEF Noticed, Due
<1>2. CASE \E d \in Docs \ Attachments, v \in Nat : ChangeText(d, v)
  BY <1>2 DEF ChangeText, Noticed, Due
<1>3. CASE Users
  <2>1. \A d \in Docs : remoteText[d] + 1 \in Nat
    BY FolderAssumption DEF Typed, FolderAssumption
  <2>2. \A d \in Docs : remoteText[d] > 1 => remoteText[d] - 1 \in Nat
    BY FolderAssumption DEF Typed, FolderAssumption
  <2>3. DocsIn(remoteMeta) \subseteq Docs
    BY DEF DocsIn, Typed, Metadata, Entries, Listed
  <2>4. CASE \E d \in Docs : Edit(d) \/ Revert(d)
    BY <1>2, <2>1, <2>2, <2>3, <2>4 DEF Edit, Revert
  <2> QED
    BY <1>1, <1>3, <2>4 DEF Users, Add, Replace, Unlist, MoveRemote, ChangeFolder
<1>4. CASE StartupFails \/ FinishPass
  BY <1>4, NoPassTyped DEF StartupFails, FinishPass, PassExecuted, Noticed, Due
<1>5. CASE \E d \in Docs : DocumentEvent(d)
  BY <1>5 DEF DocumentEvent, Noticed, Due
<1>6. CASE Crash \/ Restart
  BY <1>6, NoPassTyped DEF Crash, Restart, Noticed, Due, notifications
<1>7. CASE CreateFile \/ RenameFile \/ PlanDeletes \/ UpdateFile \/ DeleteFile
  BY <1>1, <1>7
  DEF CreateFile, RenameFile, PlanDeletes, UpdateFile, DeleteFile, Noticed, notifications
<1>8. CASE StartupPass \/ FolderEvent
  BY <1>1, <1>8 DEF StartupPass, FolderEvent, notifications
<1> QED
  BY <1>1, <1>3, <1>4, <1>5, <1>6, <1>7, <1>8 DEF Next, Engine, vars, notifications

LEMMA FollowsStep == ASSUME Typed, Noticed, Follows, [Next]_vars PROVE Follows'
<1>1. CASE Users
  BY <1>1
  DEF Users, Edit, Revert, Add, Replace, Unlist, MoveRemote, ChangeText, ChangeFolder, Follows,
      Noticed, Typed, granted
<1>2. CASE StartupPass \/ FolderEvent
  <2>1. UNCHANGED remoteMeta
    BY <1>2 DEF StartupPass, FolderEvent, server
  <2>2. pass'.meta = remoteMeta \/ exact' = FALSE
    BY <1>2, PlanFacts DEF StartupPass, FolderEvent
  <2> QED BY <2>1, <2>2 DEF Follows
<1>3. CASE UNCHANGED <<remoteMeta, folderDirty, exact>> /\ pass'.meta = pass.meta /\ pass.pc # "idle"
  BY <1>3 DEF Follows
<1>4. CASE CreateFile \/ UpdateFile
  <2>1. PICK o \in pass.todo : WriteOperation(o)
    BY <1>4 DEF CreateFile, UpdateFile, Pending
  <2>2. pass'.meta = pass.meta
    BY <2>1, WriteTyped, DoneTyped
  <2> QED BY <1>3, <1>4, <2>2 DEF CreateFile, UpdateFile, server, notifications
<1>5. CASE RenameFile
  <2>1. \E o \in pass.todo : pass' = Done(o)
    BY <1>5 DEF RenameFile, Pending
  <2> QED BY <1>3, <1>5, <2>1, DoneTyped DEF RenameFile, server, notifications, granted
<1>6. CASE PlanDeletes \/ DeleteFile
  <2>1. pass'.meta = pass.meta
    BY <1>6 DEF PlanDeletes, DeleteFile, Typed, Passes
  <2> QED BY <1>3, <1>6, <2>1 DEF PlanDeletes, DeleteFile, server, notifications, granted
<1>7. CASE pass'.pc = "idle"
  BY <1>7 DEF Follows
<1>8. CASE UNCHANGED <<remoteMeta, folderDirty, exact, pass>>
  BY <1>8 DEF Follows
<1> QED
  BY <1>1, <1>2, <1>4, <1>5, <1>6, <1>7, <1>8, NoPassTyped
  DEF Next, Engine, StartupFails, FinishPass, DocumentEvent, Crash, Restart, vars, server,
      notifications, granted

LEMMA TextStays ==
  ASSUME Typed, [Next]_vars
  PROVE  \A d \in Docs : remoteText'[d] = 0 => remoteText[d] = 0
<1>1. CASE UNCHANGED remoteText
  BY <1>1
<1>2. CASE \E d \in Docs : Edit(d)
  <2>1. PICK d \in Docs : remoteText' = [remoteText EXCEPT ![d] = remoteText[d] + 1]
    BY <1>2 DEF Edit, ChangeText
  <2>2. remoteText[d] + 1 # 0
    BY FolderAssumption DEF Typed, FolderAssumption
  <2> QED BY <2>1, <2>2 DEF Typed
<1>3. CASE \E d \in Docs : Revert(d)
  <2>1. PICK d \in Docs : remoteText' = [remoteText EXCEPT ![d] = remoteText[d] - 1] /\ remoteText[d] > 1
    BY <1>3 DEF Revert, ChangeText
  <2>2. remoteText[d] - 1 # 0
    BY <2>1, FolderAssumption DEF Typed, FolderAssumption
  <2> QED BY <2>1, <2>2 DEF Typed
<1>4. CASE Users
  BY <1>1, <1>2, <1>3, <1>4 DEF Users, Add, Replace, Unlist, MoveRemote
<1> QED
  BY <1>1, <1>4
  DEF Next, Engine, StartupPass, StartupFails, FolderEvent, CreateFile, RenameFile, PlanDeletes,
      UpdateFile, DeleteFile, FinishPass, DocumentEvent, Crash, Restart, vars, server

(* A write stores a document that has content. *)
LEMMA WriteStores ==
  ASSUME Typed, NEW o \in pass.todo, WriteOperation(o), NEW d \in Docs \ Attachments,
         PlacesOf(localState, d) = {}, d # o.doc \/ remoteText[d] = 0
  PROVE  PlacesOf(localState', d) = {}
<1>1. o.path \in Paths /\ o.doc \in Docs
  BY DEF Typed, Passes, Operations
<1>2. CASE UNCHANGED localState
  BY <1>2
<1>3. CASE Fetched(o.doc, o.hash) # 0 /\ localState' = Stored(localState, o.path, o.doc)
  <2>1. d # o.doc
    BY <1>3 DEF Fetched
  <2> QED BY <1>1, <1>3, <2>1, StoreForgets DEF Typed
<1> QED BY <1>2, <1>3 DEF WriteOperation

LEMMA EventStores ==
  ASSUME Typed, NEW d \in Docs, DocumentEvent(d), NEW e \in Docs,
         PlacesOf(localState, e) = {}, e # d \/ remoteText[e] = 0
  PROVE  PlacesOf(localState', e) = {}
<1>1. CASE UNCHANGED localState
  BY <1>1
<1>2. CASE remoteText[d] # 0 /\ UpdateDocument(d)
  <2>1. PICK p : p = IndexPath(d)
    OBVIOUS
  <2>2. p \in Paths /\ localState' = Stored(localState, p, d)
    BY <1>2, <2>1, IndexPathType DEF UpdateDocument
  <2> QED BY <1>2, <2>2, StoreForgets DEF Typed
<1> QED BY <1>1, <1>2 DEF DocumentEvent

LEMMA KnownStep == ASSUME Typed, Known, [Next]_vars PROVE Known'
<1> SUFFICES ASSUME NEW d \in Docs \ Attachments, remoteText'[d] = 0
             PROVE  PlacesOf(localState', d) = {} /\ PlacesOf(saved'[2], d) = {}
  BY DEF Known, KnownIn, PlacesOf
<1>1. remoteText[d] = 0
  BY TextStays
<1>2. PlacesOf(localState, d) = {} /\ PlacesOf(saved[2], d) = {}
  BY <1>1 DEF Known, KnownIn
<1>3. CASE UNCHANGED <<localState, saved>>
  BY <1>2, <1>3
<1>4. CASE CreateFile \/ UpdateFile
  <2>1. \E o \in pass.todo : WriteOperation(o)
    BY <1>4 DEF CreateFile, UpdateFile, Pending
  <2>2. PlacesOf(localState', d) = {}
    BY <1>1, <1>2, <2>1, WriteStores
  <2> QED BY <1>2, <1>4, <2>2 DEF CreateFile, UpdateFile
<1>5. CASE RenameFile
  <2>1. \/ UNCHANGED localState
        \/ \E o \in pass.todo : o.path \in Paths /\ localState' = Moved(localState, o.from, o.path)
    BY <1>5 DEF RenameFile, Pending, Typed, Passes, Operations
  <2>2. PlacesOf(localState', d) = {}
    BY <1>2, <2>1, MoveForgets DEF Typed
  <2> QED BY <1>2, <1>5, <2>2 DEF RenameFile
<1>6. CASE DeleteFile
  <2>1. \E p : localState' = Popped(localState, p)
    BY <1>6 DEF DeleteFile
  <2>2. PlacesOf(localState', d) = {}
    BY <1>2, <2>1, PopForgets DEF Typed
  <2> QED BY <1>2, <1>6, <2>2 DEF DeleteFile
<1>7. CASE FinishPass
  BY <1>2, <1>7 DEF FinishPass
<1>8. CASE \E e \in Docs : DocumentEvent(e)
  <2>1. PICK e \in Docs : DocumentEvent(e)
    BY <1>8
  <2>2. PlacesOf(localState', d) = {}
    BY <1>1, <1>2, <2>1, EventStores
  <2>3. saved' = saved \/ saved'[2] = localState'
    BY <2>1 DEF DocumentEvent
  <2> QED BY <1>2, <2>2, <2>3
<1>9. CASE Crash
  BY <1>2, <1>9 DEF Crash
<1>10. CASE Users
  <2>1. UNCHANGED <<localState, saved>>
    BY <1>10
    DEF Users, Edit, Revert, Add, Replace, Unlist, MoveRemote, ChangeText, ChangeFolder, state
  <2> QED BY <1>3, <2>1
<1> QED
  BY <1>3, <1>4, <1>5, <1>6, <1>7, <1>8, <1>9, <1>10
  DEF Next, Engine, StartupPass, StartupFails, FolderEvent, PlanDeletes, Restart, vars, state

LEMMA HoldingStep == ASSUME IInv, Typed, Planned, Holding, [Next]_vars PROVE Holding'
<1>1. CASE UNCHANGED <<pass, disk>>
  BY <1>1 DEF Holding, Accepted, Listed, Present
<1>2. CASE pass'.pc \notin {"save", "rest"}
  BY <1>2 DEF Holding
<1>3. CASE StartupPass \/ FolderEvent
  <2>1. UNCHANGED disk
    BY <1>3 DEF StartupPass, FolderEvent
  <2>2. CASE UNCHANGED pass
    BY <1>1, <2>1, <2>2
  <2>3. CASE \E paths : pass' = PlanPass(remoteMeta, paths)
    <3>1. PICK paths : pass' = PlanPass(remoteMeta, paths)
      BY <2>3
    <3>2. CASE Listed(remoteMeta) = {} /\ Present # {}
      <4>1. pass'.meta = remoteMeta /\ pass'.pc = "save"
        BY <3>1, <3>2 DEF PlanPass, NoPass
      <4> QED BY <2>1, <3>2, <4>1 DEF Holding, Listed, Present
    <3>3. CASE ~(Listed(remoteMeta) = {} /\ Present # {})
      <4>1. pass'.pc = "create"
        BY <3>1, <3>3 DEF PlanPass, NoPass
      <4> QED BY <1>2, <4>1
    <3> QED BY <3>2, <3>3
  <2> QED BY <1>3, <2>2, <2>3 DEF StartupPass, FolderEvent
<1>4. CASE CreateFile
  <2>1. \E o \in pass.todo : WriteOperation(o) /\ pass.pc = "create"
    BY <1>4 DEF CreateFile, Pending
  <2> QED BY <1>2, <2>1, WriteTyped, DoneTyped
<1>5. CASE UpdateFile
  <2>1. PICK o \in pass.todo : WriteOperation(o) /\ pass.pc = "rest"
    BY <1>5 DEF UpdateFile, Pending
  <2>2. /\ pass'.pc = "rest" /\ pass'.meta = pass.meta /\ pass'.deletes = pass.deletes
        /\ pass'.verdict = pass.verdict
    BY <2>1, WriteTyped, DoneTyped
  <2>3. o.path \in Listed(pass.meta)
    BY <2>1 DEF Planned, Running
  <2>4. Present' \ Listed(pass.meta) = Present \ Listed(pass.meta)
    BY <2>1, <2>3, WriteFiles DEF Present
  <2>5. Listed(pass.meta)' = Listed(pass.meta)
    BY <2>2 DEF Listed
  <2> QED BY <2>1, <2>2, <2>4, <2>5 DEF Holding, Accepted
<1>6. CASE RenameFile
  <2>1. \E o \in pass.todo : pass' = Done(o) /\ pass.pc = "create"
    BY <1>6, RenameFiles
  <2> QED BY <1>2, <2>1, DoneTyped
<1>7. CASE PlanDeletes
  <2>1. PICK extra, n : extra = Present \ Listed(pass.meta)
                        /\ n = MassThreshold(Cardinality(Listed(pass.meta)))
    OBVIOUS
  <2>2. PICK deletes, verdict :
          /\ pass' = [pass EXCEPT !.pc = "rest", !.verdict = verdict, !.deletes = deletes]
          /\ \/ verdict = "accepted"
             \/ deletes = {} /\ ~AllowMassDelete /\ Cardinality(extra) > n
    BY <1>7, <2>1 DEF PlanDeletes
  <2>3. /\ pass'.pc = "rest" /\ pass'.meta = pass.meta
        /\ pass'.deletes = deletes /\ pass'.verdict = verdict
    BY <2>2 DEF Typed, Passes
  <2>4. UNCHANGED disk
    BY <1>7 DEF PlanDeletes
  <2>5. Present' = Present /\ Listed(pass.meta)' = Listed(pass.meta)
    BY <2>3, <2>4 DEF Present, Listed
  <2> QED BY <2>1, <2>2, <2>3, <2>5 DEF Holding, Accepted
<1>8. CASE DeleteFile
  <2>1. pass.pc = "rest" /\ pass.deletes # {}
    BY <1>8 DEF DeleteFile
  <2>2. Accepted
    BY <2>1 DEF Holding
  <2>3. pass'.verdict = pass.verdict /\ pass'.pc = "rest"
    BY <1>8, <2>1 DEF DeleteFile, Typed, Passes
  <2> QED BY <2>2, <2>3 DEF Holding, Accepted
<1>9. CASE Users
  <2>1. UNCHANGED <<pass, disk>>
    BY <1>9 DEF Users, Edit, Revert, Add, Replace, Unlist, MoveRemote, ChangeText, ChangeFolder
  <2> QED BY <1>1, <2>1
<1>10. CASE \E d \in Docs : DocumentEvent(d)
  <2>1. UNCHANGED pass /\ pass.pc = "idle"
    BY <1>10 DEF DocumentEvent
  <2> QED BY <1>2, <2>1
<1>11. CASE pass' = NoPass
  BY <1>2, <1>11, NoPassTyped
<1> QED
  BY <1>1, <1>3, <1>4, <1>5, <1>6, <1>7, <1>8, <1>9, <1>10, <1>11
  DEF Next, Engine, StartupFails, FinishPass, Crash, Restart, vars

(* A path stays right as long as its file does, whatever users do to the   *)
(* text: the change is announced.                                          *)
LEMMA StaysFresh ==
  ASSUME NEW p, NEW d, NEW hash, FreshIn(disk, remoteText, Due, p, d, hash),
         disk'[p] = disk[p], d \in Due => d \in Due', remoteText'[d] = remoteText[d] \/ d \in Due'
  PROVE  FreshIn(disk', remoteText', Due', p, d, hash)
BY DEF FreshIn

LEMMA StaysRight ==
  ASSUME NEW meta, NEW p, NEW d, d = meta[p].doc, Right(meta, p),
         Holds(p, d) => disk'[p] = disk[p],
         PlacesOf(localState, d) = {} => PlacesOf(localState', d) = {},
         d \in Due => d \in Due', remoteText'[d] = remoteText[d] \/ d \in Due'
  PROVE  RightIn(disk', remoteText', Due', localState', meta, p)
<1>1. CASE FreshIn(disk, remoteText, Due, p, d, meta[p].hash)
  <2>1. Holds(p, d)
    BY <1>1 DEF FreshIn, Holds
  <2>2. FreshIn(disk', remoteText', Due', p, d, meta[p].hash)
    BY <1>1, <2>1, StaysFresh
  <2> QED BY <2>2 DEF RightIn
<1>2. CASE /\ d \notin Attachments /\ PlacesOf(localState, d) = {}
           /\ remoteText[d] = 0 \/ d \in Due
  BY <1>2 DEF RightIn
<1> QED BY <1>1, <1>2 DEF Right, RightIn

LEMMA ServingNext ==
  ASSUME NEW meta, pass'.meta = meta,
         Truthful' /\ Running' =>
           /\ \A o \in pass'.todo : o.kind = "rename" =>
                FreshIn(disk', remoteText', Due', o.from, o.doc, o.hash)
           /\ \A p \in Listed(meta) :
                (\E o \in pass'.todo : o.path = p) \/ RightIn(disk', remoteText', Due', localState', meta, p)
  PROVE  Serving'
<1>1. Listed(pass.meta)' = Listed(meta)
  BY DEF Listed
<1>2. \A p : Right(pass.meta, p)' <=> RightIn(disk', remoteText', Due', localState', meta, p)
  BY DEF Right, RightIn, FreshIn, PlacesOf
<1>3. \A o : FreshIn(disk, remoteText, Due, o.from, o.doc, o.hash)'
               <=> FreshIn(disk', remoteText', Due', o.from, o.doc, o.hash)
  BY DEF FreshIn
<1> QED BY <1>1, <1>2, <1>3 DEF Serving

LEMMA DocOfListed ==
  ASSUME NEW meta \in Metadata, NEW p \in Listed(meta)
  PROVE  p \in Paths /\ meta[p].doc \in Docs /\ meta[p].hash \in 0 .. MaxVersion
BY DEF Listed, Metadata, Entries

LEMMA UsersServing == ASSUME Typed, Serving, Users PROVE Serving'
<1>1. UNCHANGED <<pass, disk, sound, localState>> /\ (exact' => exact)
  <2>1. \A meta : ChangeFolder(meta) => UNCHANGED <<pass, disk, sound, localState>>
    BY DEF ChangeFolder, state
  <2>2. \A meta : ChangeFolder(meta) => (exact' => exact)
    BY DEF ChangeFolder
  <2>3. \A d, v : ChangeText(d, v) => UNCHANGED <<pass, disk, sound, exact, localState>>
    BY DEF ChangeText, granted, state
  <2> QED BY <2>1, <2>2, <2>3 DEF Users, Edit, Revert, Add, Replace, Unlist, MoveRemote
<1>2. Due \subseteq Due' /\ \A d \in Docs : remoteText'[d] = remoteText[d] \/ d \in Due'
  <2>1. CASE UNCHANGED <<remoteText, docDirty, missed>>
    BY <2>1 DEF Due
  <2>2. CASE \E d \in Docs, v \in Nat : ChangeText(d, v)
    <3>1. PICK d \in Docs, v \in Nat : ChangeText(d, v)
      BY <2>2
    <3>2. \A e \in Docs : e # d => remoteText'[e] = remoteText[e]
      BY <3>1 DEF ChangeText, Typed
    <3> QED BY <3>1, <3>2 DEF ChangeText, Due
  <2>3. \A d \in Docs : remoteText[d] + 1 \in Nat
    BY FolderAssumption DEF Typed, FolderAssumption
  <2>4. \A d \in Docs : remoteText[d] > 1 => remoteText[d] - 1 \in Nat
    BY FolderAssumption DEF Typed, FolderAssumption
  <2> QED BY <2>1, <2>2, <2>3, <2>4 DEF Users, Edit, Revert, Add, Replace, Unlist, MoveRemote
<1>3. CASE ~(Truthful /\ Running)
  BY <1>1, <1>3 DEF Serving, Running, Truthful
<1>4. CASE Truthful /\ Running
  <2>1. PICK meta \in Metadata : meta = pass.meta
    BY <1>4 DEF Typed, Running
  <2>2. ASSUME NEW p \in Listed(meta), Right(meta, p)
        PROVE  RightIn(disk', remoteText', Due', localState', meta, p)
    <3>1. PICK d \in Docs : d = meta[p].doc
      BY DocOfListed
    <3> QED BY <1>1, <1>2, <2>2, <3>1, StaysRight
  <2>3. ASSUME NEW o \in pass'.todo, o.kind = "rename"
        PROVE  FreshIn(disk', remoteText', Due', o.from, o.doc, o.hash)
    <3>1. o \in pass.todo /\ FreshIn(disk, remoteText, Due, o.from, o.doc, o.hash)
      BY <1>1, <1>4, <2>3 DEF Serving
    <3>2. o.doc \in Docs
      BY <3>1 DEF Typed, Passes, Operations
    <3> QED BY <1>1, <1>2, <3>1, <3>2, StaysFresh
  <2>4. \A p \in Listed(meta) :
          (\E o \in pass'.todo : o.path = p) \/ RightIn(disk', remoteText', Due', localState', meta, p)
    BY <1>1, <1>4, <2>1, <2>2 DEF Serving
  <2> QED BY <1>1, <2>1, <2>3, <2>4, ServingNext
<1> QED BY <1>3, <1>4

LEMMA PlanIsServing ==
  ASSUME Typed, NEW meta \in Metadata, NEW paths \in SUBSET Listed(meta), Plain(meta),
         pass' = PlanPass(meta, paths),
         UNCHANGED <<disk, docDirty, missed, remoteText, localState>>,
         \A o \in pass'.todo : o.kind = "rename" => Fresh(o.from, o.doc, o.hash),
         \A p \in Listed(meta) \ paths : UpToDate(meta, p)
  PROVE  Serving'
<1>1. CASE pass'.pc # "create"
  BY <1>1, PlanFacts DEF Serving, Running
<1>2. CASE pass'.pc = "create"
  <2>1. pass'.meta = meta
        /\ pass'.todo = {o \in {Operation(meta, p) : p \in paths} : o.kind # "noop"}
    BY <1>2, PlanFacts
  <2>2. ASSUME NEW p \in paths
        PROVE  (\E o \in pass'.todo : o.path = p) \/ Right(meta, p)
    <3>1. PICK o : o = Operation(meta, p)
      OBVIOUS
    <3>2. p \in Listed(meta)
      OBVIOUS
    <3>3. Suits(o, meta, p)
      BY <3>1, <3>2, OperationType
    <3>4. CASE o.kind # "noop"
      BY <2>1, <3>1, <3>3, <3>4 DEF Suits
    <3>5. CASE o.kind = "noop"
      <4>1. disk[p] = [doc |-> o.doc, version |-> o.hash] /\ o.doc = meta[p].doc /\ o.hash = meta[p].hash
        BY <3>3, <3>5 DEF Suits
      <4>2. disk[p].doc = meta[p].doc /\ disk[p].version = meta[p].hash
        BY <4>1
      <4>3. o.hash # 0
        BY <3>1, <3>5 DEF Operation
      <4>4. o.doc \in Docs /\ o.hash \in 0 .. MaxVersion
        BY <3>3 DEF Suits, Operations
      <4>5. o.hash \in Versions
        BY <4>3, <4>4, FolderAssumption DEF Versions, FolderAssumption
      <4>6. disk[p] \in Files
        BY <4>1, <4>4, <4>5 DEF Files
      <4>7. disk[p] # None
        BY <4>6, FolderAssumption DEF FolderAssumption
      <4>8. meta[p].doc \in Attachments
        BY <3>2, <4>1, <4>3 DEF Plain
      <4> QED BY <4>2, <4>7, <4>8 DEF Right, RightIn, FreshIn
    <3> QED BY <3>4, <3>5
  <2>3. \A p \in Listed(meta) : (\E o \in pass'.todo : o.path = p) \/ Right(meta, p)
    BY <2>2, UpToDateIsRight
  <2>4. Due' = Due
    BY DEF Due
  <2>5. \A p \in Listed(meta) :
          (\E o \in pass'.todo : o.path = p) \/ RightIn(disk', remoteText', Due', localState', meta, p)
    BY <2>3, <2>4 DEF Right
  <2>6. ASSUME NEW o \in pass'.todo, o.kind = "rename"
        PROVE  FreshIn(disk', remoteText', Due', o.from, o.doc, o.hash)
    BY <2>4, <2>6, FreshIsFreshIn
  <2> QED BY <2>1, <2>5, <2>6, ServingNext
<1> QED BY <1>1, <1>2

LEMMA StartServing ==
  ASSUME Typed, PlainEntries, Serving, StartupPass \/ FolderEvent
  PROVE  Serving'
<1>1. remoteMeta \in Metadata /\ Plain(remoteMeta)
  BY DEF Typed, PlainEntries
<1>2. UNCHANGED <<disk, docDirty, missed, remoteText, localState>> /\ pass.pc = "idle"
  BY DEF StartupPass, FolderEvent, server, notifications, state
<1>3. CASE ~Truthful'
  BY <1>3 DEF Serving
<1>4. CASE UNCHANGED pass
  BY <1>2, <1>4 DEF Serving, Running
<1>5. CASE StartupPass /\ Truthful'
  <2>1. pass' = PlanPass(remoteMeta, Listed(remoteMeta))
        /\ Listed(remoteMeta) \in SUBSET Listed(remoteMeta)
    BY <1>5 DEF StartupPass
  <2>2. Timely(pass', {})
    BY <1>5 DEF StartupPass, Truthful
  <2>3. \A o \in pass'.todo : o.kind = "rename" => Fresh(o.from, o.doc, o.hash)
    BY <2>2 DEF Timely
  <2>4. \A p \in Listed(remoteMeta) \ Listed(remoteMeta) : UpToDate(remoteMeta, p)
    OBVIOUS
  <2> QED BY <1>1, <1>2, <2>1, <2>3, <2>4, PlanIsServing
<1>6. CASE FolderEvent /\ Truthful' /\ ~UNCHANGED pass
  <2>1. pass' = PlanPass(remoteMeta, Changed(filemeta, remoteMeta))
        /\ Changed(filemeta, remoteMeta) \in SUBSET Listed(remoteMeta)
    BY <1>6 DEF FolderEvent, Changed
  <2>2. Timely(pass', {p \in Listed(remoteMeta) : filemeta[p] = remoteMeta[p]})
    BY <1>6 DEF FolderEvent, Truthful
  <2>3. \A o \in pass'.todo : o.kind = "rename" => Fresh(o.from, o.doc, o.hash)
    BY <2>2 DEF Timely
  <2>4. \A p \in Listed(remoteMeta) \ Changed(filemeta, remoteMeta) : UpToDate(remoteMeta, p)
    BY <2>2 DEF Timely, Changed
  <2> QED BY <1>1, <1>2, <2>1, <2>3, <2>4, PlanIsServing
<1> QED BY <1>3, <1>4, <1>5, <1>6

(* A create or an update writes what the folder shows, or there is nothing *)
(* to write yet and the document's first event will.                       *)
LEMMA WriteServing ==
  ASSUME Typed, Planned, Sane, Known, Serving, CreateFile \/ UpdateFile
  PROVE  Serving'
<1>1. PICK o \in pass.todo :
        /\ WriteOperation(o) /\ Running
        /\ pass.pc = "create" => o.kind = "create"
  BY DEF CreateFile, UpdateFile, Pending, Running
<1>2. UNCHANGED <<remoteText, docDirty, missed, exact>> /\ Due' = Due
  BY DEF CreateFile, UpdateFile, server, notifications, Due
<1>3. /\ pass'.pc = pass.pc /\ pass'.meta = pass.meta /\ pass'.todo = pass.todo \ {o}
  BY <1>1, WriteTyped, DoneTyped
<1>4. PICK meta \in Metadata : meta = pass.meta
  BY <1>1 DEF Typed, Running
<1>5. /\ o.path \in Listed(meta) /\ o.path \in Paths
      /\ o.doc = meta[o.path].doc /\ o.hash = meta[o.path].hash
  BY <1>1, <1>4 DEF Planned, Listed
<1>6. \A p \in Paths : p # o.path => disk'[p] = disk[p]
  BY <1>1, WriteFiles
<1>7. CASE ~Truthful'
  BY <1>7 DEF Serving
<1>8. CASE Truthful'
  <2>1. Truthful
    BY <1>1, <1>2, <1>8 DEF WriteOperation, Typed, Truthful
  <2>2. o.doc \in Docs /\ o.hash \in 0 .. MaxVersion
    BY DEF Typed, Passes, Operations
  <2>3. RightIn(disk', remoteText', Due', localState', meta, o.path)
    <3>1. CASE Fetched(o.doc, o.hash) = 0
      <4>1. o.doc \notin Attachments
        <5>1. Hashed(meta)
          BY <1>1, <1>4 DEF Sane
        <5> QED BY <1>5, <3>1, <5>1 DEF Hashed, Fetched
      <4>2. remoteText[o.doc] = 0
        BY <3>1, <4>1 DEF Fetched
      <4>3. PlacesOf(localState, o.doc) = {}
        BY <2>2, <4>1, <4>2 DEF Known, KnownIn
      <4>4. PlacesOf(localState', o.doc) = {}
        BY <1>1, <2>2, <4>1, <4>2, <4>3, WriteStores
      <4> QED BY <1>2, <1>5, <4>1, <4>2, <4>4 DEF RightIn
    <3>2. CASE Fetched(o.doc, o.hash) # 0
      <4>1. disk' = [disk EXCEPT ![o.path] = [doc |-> o.doc, version |-> Fetched(o.doc, o.hash)]]
        BY <1>1, <1>8, <3>2 DEF WriteOperation, Truthful
      <4>2. PICK f : f = [doc |-> o.doc, version |-> Fetched(o.doc, o.hash)]
        OBVIOUS
      <4>3. disk'[o.path] = f /\ f.doc = o.doc /\ f.version = Fetched(o.doc, o.hash)
        BY <1>5, <4>1, <4>2 DEF Typed
      <4>4. Fetched(o.doc, o.hash) \in Versions
        BY <2>2, <3>2, FolderAssumption DEF Fetched, Typed, Versions, FolderAssumption
      <4>5. f \in Files
        BY <2>2, <4>2, <4>4 DEF Files
      <4>6. f # None
        BY <4>5, FolderAssumption DEF FolderAssumption
      <4>7. FreshIn(disk', remoteText', Due', o.path, o.doc, o.hash)
        BY <1>2, <4>3, <4>6 DEF FreshIn, Fetched
      <4> QED BY <1>5, <4>7 DEF RightIn
    <3> QED BY <3>1, <3>2
  <2>4. ASSUME NEW p \in Listed(meta), p # o.path, Right(meta, p)
        PROVE  RightIn(disk', remoteText', Due', localState', meta, p)
    <3>1. PICK d \in Docs : d = meta[p].doc
      BY DocOfListed
    <3>2. p \in Paths /\ d # o.doc
      <4>1. Injective(meta)
        BY <1>1, <1>4 DEF Sane
      <4> QED BY <1>5, <2>4, <3>1, <4>1, DocOfListed DEF Injective
    <3>3. CASE d \in Attachments
      <4>1. FreshIn(disk, remoteText, Due, p, d, meta[p].hash)
        BY <2>4, <3>1, <3>3 DEF Right, RightIn
      <4>2. FreshIn(disk', remoteText', Due', p, d, meta[p].hash)
        BY <1>2, <1>6, <2>4, <3>2, <4>1, StaysFresh
      <4> QED BY <3>1, <4>2 DEF RightIn
    <3>4. CASE d \notin Attachments
      <4>1. PlacesOf(localState, d) = {} => PlacesOf(localState', d) = {}
        BY <1>1, <3>2, <3>4, WriteStores
      <4> QED BY <1>2, <1>6, <2>4, <3>1, <3>2, <4>1, StaysRight
    <3> QED BY <3>3, <3>4
  <2>5. ASSUME NEW r \in pass'.todo, r.kind = "rename"
        PROVE  FreshIn(disk', remoteText', Due', r.from, r.doc, r.hash)
    <3>1. r \in pass.todo /\ FreshIn(disk, remoteText, Due, r.from, r.doc, r.hash)
      BY <1>1, <1>3, <2>1, <2>5 DEF Serving
    <3>2. pass.pc = "create" /\ r.from \in Paths
      BY <1>1, <2>5, <3>1 DEF Planned, Running
    <3>3. disk[o.path] = None
      BY <1>1, <3>2 DEF Planned, Running
    <3>4. r.from # o.path
      BY <3>1, <3>3 DEF FreshIn
    <3> QED BY <1>2, <1>6, <3>1, <3>2, <3>4, StaysFresh
  <2>6. ASSUME NEW p \in Listed(meta)
        PROVE  (\E r \in pass'.todo : r.path = p) \/ RightIn(disk', remoteText', Due', localState', meta, p)
    <3>1. CASE p = o.path
      BY <2>3, <3>1
    <3>2. CASE p # o.path
      <4>1. (\E r \in pass.todo : r.path = p) \/ Right(meta, p)
        BY <1>1, <1>4, <2>1 DEF Serving
      <4> QED BY <1>3, <2>4, <3>2, <4>1
    <3> QED BY <3>1, <3>2
  <2> QED BY <1>3, <1>4, <2>5, <2>6, ServingNext
<1> QED BY <1>7, <1>8

(* A rename moves content that is right, and takes nobody's place. *)
LEMMA RenameServing ==
  ASSUME Typed, Planned, Sane, Serving, RenameFile
  PROVE  Serving'
<1>1. PICK o \in pass.todo :
         /\ o.kind = "rename" /\ o.path \in Paths /\ o.from \in Paths \ {o.path}
         /\ pass' = Done(o) /\ pass.pc = "create"
         /\ \/ /\ disk[o.from] # None /\ disk'[o.from] = None /\ disk'[o.path] = disk[o.from]
               /\ \A p \in Paths : p # o.path /\ p # o.from => disk'[p] = disk[p]
            \/ disk[o.from] = None /\ disk' = disk
  BY RenameFiles
<1>2. UNCHANGED <<remoteText, docDirty, missed, sound, exact>> /\ Due' = Due
  BY DEF RenameFile, server, notifications, granted, Due
<1>3. /\ pass'.pc = pass.pc /\ pass'.meta = pass.meta /\ pass'.todo = pass.todo \ {o}
  BY <1>1, DoneTyped
<1>4. PICK meta \in Metadata : meta = pass.meta
  BY <1>1 DEF Typed
<1>5. Running
  BY <1>1 DEF Running
<1>6. /\ o.path \in Listed(meta) /\ o.doc = meta[o.path].doc /\ o.hash = meta[o.path].hash
      /\ disk[o.path] = None
  BY <1>1, <1>4, <1>5 DEF Planned
<1>7. CASE ~Truthful
  BY <1>2, <1>7 DEF Serving, Truthful
<1>8. CASE Truthful
  <2>1. FreshIn(disk, remoteText, Due, o.from, o.doc, o.hash)
    BY <1>1, <1>5, <1>8 DEF Serving
  <2>2. /\ disk[o.from] # None /\ disk'[o.from] = None /\ disk'[o.path] = disk[o.from]
        /\ \A p \in Paths : p # o.path /\ p # o.from => disk'[p] = disk[p]
    BY <1>1, <2>1 DEF FreshIn
  <2>3. Injective(meta)
    BY <1>4, <1>5 DEF Sane
  <2>4. RightIn(disk', remoteText', Due', localState', meta, o.path)
    <3>1. FreshIn(disk', remoteText', Due', o.path, o.doc, o.hash)
      BY <1>2, <2>1, <2>2 DEF FreshIn
    <3> QED BY <1>6, <3>1 DEF RightIn
  <2>5. ASSUME NEW d \in Docs, PlacesOf(localState, d) = {} PROVE PlacesOf(localState', d) = {}
    <3>1. UNCHANGED localState
          \/ \E r \in pass.todo : r.path \in Paths /\ localState' = Moved(localState, r.from, r.path)
      BY DEF RenameFile, Pending, Typed, Passes, Operations
    <3> QED BY <2>5, <3>1, MoveForgets DEF Typed
  <2>6. ASSUME NEW p \in Listed(meta), p # o.path, Right(meta, p)
        PROVE  RightIn(disk', remoteText', Due', localState', meta, p)
    <3>1. PICK d \in Docs : d = meta[p].doc
      BY DocOfListed
    <3>2. p \in Paths /\ d # o.doc
      BY <1>6, <2>3, <2>6, <3>1, DocOfListed DEF Injective
    <3>3. Holds(p, d) => p # o.from
      BY <2>1, <3>2 DEF Holds, FreshIn
    <3> QED BY <1>2, <2>2, <2>5, <2>6, <3>1, <3>2, <3>3, StaysRight
  <2>7. ASSUME NEW r \in pass'.todo, r.kind = "rename"
        PROVE  FreshIn(disk', remoteText', Due', r.from, r.doc, r.hash)
    <3>1. r \in pass.todo /\ r # o /\ FreshIn(disk, remoteText, Due, r.from, r.doc, r.hash)
      BY <1>3, <1>5, <1>8, <2>7 DEF Serving
    <3>2. r.path # o.path /\ r.path \in Listed(meta) /\ r.doc = meta[r.path].doc /\ r.from \in Paths
      BY <1>4, <1>5, <2>7, <3>1 DEF Planned
    <3>3. r.doc # o.doc
      BY <1>6, <2>3, <3>2 DEF Injective
    <3>4. r.from # o.from /\ r.from # o.path
      BY <1>6, <2>1, <3>1, <3>3 DEF FreshIn
    <3> QED BY <1>2, <2>2, <3>1, <3>2, <3>4, StaysFresh
  <2>8. ASSUME NEW p \in Listed(meta)
        PROVE  (\E r \in pass'.todo : r.path = p) \/ RightIn(disk', remoteText', Due', localState', meta, p)
    <3>1. CASE p = o.path
      BY <2>4, <3>1
    <3>2. CASE p # o.path
      <4>1. (\E r \in pass.todo : r.path = p) \/ Right(meta, p)
        BY <1>4, <1>5, <1>8 DEF Serving
      <4> QED BY <1>3, <2>6, <3>2, <4>1
    <3> QED BY <3>1, <3>2
  <2> QED BY <1>3, <1>4, <2>7, <2>8, ServingNext
<1> QED BY <1>7, <1>8

LEMMA DeleteServing ==
  ASSUME Typed, Planned, Serving, PlanDeletes \/ DeleteFile
  PROVE  Serving'
<1>1. UNCHANGED <<remoteText, docDirty, missed, sound, exact>> /\ Running /\ Due' = Due
  BY DEF PlanDeletes, DeleteFile, server, notifications, granted, Running, Due
<1>2. pass'.meta = pass.meta /\ pass'.todo = pass.todo
  BY DEF PlanDeletes, DeleteFile, Typed, Passes
<1>3. PICK meta \in Metadata : meta = pass.meta
  BY <1>1 DEF Typed, Running
<1>4. \A p \in Listed(meta) : disk'[p] = disk[p]
  <2>1. CASE PlanDeletes
    BY <2>1 DEF PlanDeletes
  <2>2. CASE DeleteFile
    <3>1. PICK p \in pass.deletes : disk' = [disk EXCEPT ![p] = None]
      BY <2>2 DEF DeleteFile
    <3>2. p \notin Listed(meta)
      BY <1>1, <1>3 DEF Planned
    <3> QED BY <3>1, <3>2 DEF Typed, Listed
  <2> QED BY <2>1, <2>2
<1>5. \A d \in Docs : PlacesOf(localState, d) = {} => PlacesOf(localState', d) = {}
  <2>1. UNCHANGED localState \/ \E p : localState' = Popped(localState, p)
    BY DEF PlanDeletes, DeleteFile, state
  <2> QED BY <2>1, PopForgets DEF Typed
<1>6. CASE ~Truthful
  BY <1>1, <1>6 DEF Serving, Truthful
<1>7. CASE Truthful
  <2>1. ASSUME NEW p \in Listed(meta), Right(meta, p)
        PROVE  RightIn(disk', remoteText', Due', localState', meta, p)
    <3>1. PICK d \in Docs : d = meta[p].doc
      BY DocOfListed
    <3> QED BY <1>1, <1>4, <1>5, <2>1, <3>1, StaysRight
  <2>2. ASSUME NEW r \in pass'.todo, r.kind = "rename"
        PROVE  FreshIn(disk', remoteText', Due', r.from, r.doc, r.hash)
    <3>1. FreshIn(disk, remoteText, Due, r.from, r.doc, r.hash)
      BY <1>1, <1>2, <1>7, <2>2 DEF Serving
    <3>2. CASE PlanDeletes
      <4>1. UNCHANGED disk
        BY <3>2 DEF PlanDeletes
      <4> QED BY <1>1, <3>1, <4>1, StaysFresh
    <3>3. CASE DeleteFile
      <4>1. pass.todo = {}
        BY <3>3 DEF DeleteFile
      <4> QED BY <1>2, <2>2, <4>1
    <3> QED BY <3>2, <3>3
  <2>3. \A p \in Listed(meta) :
          (\E r \in pass'.todo : r.path = p) \/ RightIn(disk', remoteText', Due', localState', meta, p)
    BY <1>1, <1>2, <1>3, <1>7, <2>1 DEF Serving
  <2> QED BY <1>2, <1>3, <2>2, <2>3, ServingNext
<1> QED BY <1>6, <1>7

LEMMA ServingStep ==
  ASSUME Typed, Planned, Sane, PlainEntries, Known, Serving, [Next]_vars
  PROVE  Serving'
<1>1. CASE pass.pc = "idle" /\ UNCHANGED pass
  BY <1>1 DEF Serving, Running
<1>2. CASE pass' = NoPass
  BY <1>2 DEF Serving, Running, NoPass
<1>3. CASE UNCHANGED <<pass, sound, exact, disk, localState, remoteText, docDirty, missed>>
  BY <1>3 DEF Serving, Running, Truthful, Right, RightIn, FreshIn, Due, PlacesOf, Listed
<1>4. CASE \E d \in Docs : DocumentEvent(d)
  BY <1>1, <1>4 DEF DocumentEvent
<1> QED
  BY <1>1, <1>2, <1>3, <1>4, UsersServing, StartServing, WriteServing, RenameServing, DeleteServing
  DEF Next, Engine, StartupFails, FinishPass, Crash, Restart, vars, server, state, notifications, granted

(* The claim of Settling, for a given state. *)
SettledIn(files, text, due, s, meta) ==
  \A p \in Listed(meta) : RightIn(files, text, due, s, meta, p)

LEMMA SettlingNext ==
  ASSUME Truthful' /\ process' = "serving" /\ pass'.pc = "idle" /\ ~folderDirty' =>
           \/ HeldBack'
           \/ /\ filemeta' = remoteMeta'
              /\ Present' \subseteq Listed(remoteMeta')
              /\ SettledIn(disk', remoteText', Due', localState', remoteMeta')
  PROVE  Settling'
<1>1. Listed(remoteMeta)' = Listed(remoteMeta')
  BY DEF Listed
<1>2. \A p : Right(remoteMeta, p)' <=> RightIn(disk', remoteText', Due', localState', remoteMeta', p)
  BY DEF Right, RightIn, FreshIn, PlacesOf
<1> QED BY <1>1, <1>2 DEF Settling, SettledIn

(* The end of a pass. *)
LEMMA FinishSettles ==
  ASSUME IInv, Typed, Noticed, Follows, Holding, Serving, FinishPass
  PROVE  Settling'
<1>1. CASE ~(Truthful' /\ process' = "serving" /\ pass'.pc = "idle" /\ ~folderDirty')
  BY <1>1, SettlingNext
<1>2. CASE Truthful' /\ process' = "serving" /\ pass'.pc = "idle" /\ ~folderDirty'
  <2>1. /\ UNCHANGED <<remoteMeta, remoteText, disk, localState, folderDirty, sound, exact>>
        /\ PassExecuted /\ pass.pc # "idle" /\ Truthful
    BY <1>2 DEF FinishPass, server, granted, PassExecuted, Truthful
  <2>2. pass.meta = remoteMeta
    BY <1>2, <2>1 DEF Follows, Truthful
  <2>3. CASE Accepted
    <3>1. filemeta' = remoteMeta'
      BY <2>1, <2>2, <2>3 DEF FinishPass
    <3>2. pass.pc = "rest" /\ pass.todo = {} /\ pass.deletes = {}
      BY <2>1, <2>3 DEF IInv, RefusedIsGated, PassExecuted
    <3>3. Present' \subseteq Listed(remoteMeta')
      BY <2>1, <2>2, <2>3, <3>2 DEF IInv, StrangersDoomed, Present
    <3>4. ASSUME NEW p \in Listed(remoteMeta)
          PROVE  RightIn(disk', remoteText', Due', localState', remoteMeta, p)
      <4>1. Right(remoteMeta, p)
        BY <2>1, <2>2, <3>2 DEF Serving, Running
      <4>2. PICK d \in Docs : d = remoteMeta[p].doc
        BY DocOfListed DEF Typed
      <4>3. d \in DocsIn(remoteMeta)
        BY <4>2 DEF DocsIn
      <4>4. d \in Due => d \in Due'
        <5>1. CASE process = "starting"
          <6>1. docDirty = {} /\ docDirty' = missed \cap DocsIn(remoteMeta)
            BY <2>1, <3>1, <5>1 DEF FinishPass, Noticed
          <6> QED BY <4>3, <6>1 DEF Due
        <5>2. CASE process # "starting"
          BY <5>2 DEF FinishPass, Due
        <5> QED BY <5>1, <5>2
      <4> QED BY <2>1, <4>1, <4>2, <4>4, StaysRight
    <3>5. SettledIn(disk', remoteText', Due', localState', remoteMeta')
      BY <2>1, <3>4 DEF SettledIn
    <3> QED BY <3>1, <3>3, <3>5, SettlingNext
  <2>4. CASE ~Accepted
    <3>1. HeldBack
      <4>1. CASE pass.pc = "save"
        BY <2>2, <4>1 DEF Holding, HeldBack
      <4>2. CASE pass.pc = "rest"
        <5>1. /\ ~AllowMassDelete
              /\ Cardinality(Present \ Listed(remoteMeta)) > MassThreshold(Cardinality(Listed(remoteMeta)))
          BY <2>2, <2>4, <4>2 DEF Holding
        <5>2. Listed(remoteMeta) \in SUBSET Paths /\ Present \in SUBSET Paths
          BY DEF Listed, Present
        <5>3. Present # {}
          <6>1. PICK n \in Nat : n = MassThreshold(Cardinality(Listed(remoteMeta)))
            BY <5>2, PresentCounts, ThresholdType
          <6>2. Present = {} => Cardinality(Present \ Listed(remoteMeta)) = 0
            BY FS_EmptySet
          <6> QED BY <5>1, <6>1, <6>2
        <5> QED BY <5>1, <5>3 DEF HeldBack
      <4> QED BY <2>1, <4>1, <4>2 DEF PassExecuted
    <3>2. HeldBack'
      BY <2>1, <3>1 DEF HeldBack, Present, Listed
    <3> QED BY <3>2, SettlingNext
  <2> QED BY <2>3, <2>4
<1> QED BY <1>1, <1>2

(* A document event writes to the one file of its document, or to the path *)
(* the folder lists it at.                                                 *)
LEMMA EventFiles ==
  ASSUME Typed, NEW d \in Docs, DocumentEvent(d)
  PROVE  \/ disk' = disk
         \/ /\ IndexPath(d) \in Paths /\ remoteText[d] # 0
            /\ \A p \in Paths : p # IndexPath(d) => disk'[p] = disk[p]
            /\ disk'[IndexPath(d)] # None
<1>1. CASE remoteText[d] # 0 /\ UpdateDocument(d)
  <2>1. PICK w : w = IndexPath(d)
    OBVIOUS
  <2>2. PICK f : f = [doc |-> d, version |-> remoteText[d]]
    OBVIOUS
  <2>3. w \in Paths /\ disk' = [disk EXCEPT ![w] = f]
    BY <1>1, <2>1, <2>2, IndexPathType DEF UpdateDocument
  <2>4. f \in Files
    BY <1>1, <2>2, FolderAssumption DEF Typed, Files, Versions, FolderAssumption
  <2>5. f # None
    BY <2>4, FolderAssumption DEF FolderAssumption
  <2>6. disk'[w] = f /\ \A p \in Paths : p # w => disk'[p] = disk[p]
    BY <2>3 DEF Typed
  <2> QED BY <1>1, <2>1, <2>3, <2>5, <2>6
<1>2. CASE UNCHANGED disk
  BY <1>2
<1> QED BY <1>1, <1>2 DEF DocumentEvent

(* A folder that is held back stays held back. *)
LEMMA HeldBackStays ==
  ASSUME Typed, HeldBack, NEW d \in Docs, DocumentEvent(d)
  PROVE  HeldBack'
<1>1. Present \subseteq Present' /\ Present \in SUBSET Paths /\ Present' \in SUBSET Paths
  BY EventFiles DEF Present
<1>2. UNCHANGED remoteMeta
  BY DEF DocumentEvent, server
<1>3. Listed(remoteMeta)' = Listed(remoteMeta) /\ Listed(remoteMeta) \in SUBSET Paths
  BY <1>2 DEF Listed
<1>4. CASE Listed(remoteMeta) = {}
  BY <1>1, <1>3, <1>4 DEF HeldBack
<1>5. CASE Listed(remoteMeta) # {}
  <2>1. PICK m \in Nat : m = Cardinality(Present \ Listed(remoteMeta))
    BY <1>1, PresentCounts
  <2>2. PICK n \in Nat : n = Cardinality(Present' \ Listed(remoteMeta))
    BY <1>1, PresentCounts
  <2>3. m <= n
    BY <1>1, <2>1, <2>2, MoreFiles
  <2>4. PICK t \in Nat : t = MassThreshold(Cardinality(Listed(remoteMeta)))
    BY <1>3, PresentCounts, ThresholdType
  <2>5. ~AllowMassDelete /\ m > t
    BY <1>5, <2>1, <2>4 DEF HeldBack
  <2>6. n > t
    BY <2>3, <2>5
  <2> QED BY <1>1, <1>3, <2>2, <2>4, <2>5, <2>6 DEF HeldBack
<1> QED BY <1>4, <1>5

(* The index leads the events of a listed document to its path. *)
LEMMA IndexLeadsThere ==
  ASSUME Typed, Injective(remoteMeta), filemeta = remoteMeta, NEW p \in Listed(remoteMeta),
         NEW d, d = remoteMeta[p].doc, Right(remoteMeta, p), OnlyCopy(d)
  PROVE  IndexPath(d) = p
<1>1. p \in Paths
  BY DEF Listed
<1>2. CASE Holds(p, d)
  BY <1>1, <1>2 DEF OnlyCopy
<1>3. CASE PlacesOf(localState, d) = {}
  <2>1. d \in DocsIn(filemeta) /\ p \in Listed(filemeta) /\ filemeta[p].doc = d
    BY DEF DocsIn
  <2>2. PICK w : w = CHOOSE q \in Listed(filemeta) : filemeta[q].doc = d
    OBVIOUS
  <2>3. w \in Listed(filemeta) /\ filemeta[w].doc = d
    BY <2>1, <2>2
  <2>4. w = p
    BY <2>3 DEF Injective
  <2> QED BY <1>3, <2>1, <2>2, <2>4 DEF IndexPath
<1> QED BY <1>2, <1>3 DEF Right, RightIn, FreshIn, Holds

(* After an event the document of the event is right, *)
LEMMA EventSetsRight ==
  ASSUME Typed, Known, Noticed, Injective(remoteMeta), filemeta = remoteMeta, process = "serving",
         NEW d \in docDirty, DocumentEvent(d), OnlyCopy(d), Answered(d),
         NEW p \in Listed(remoteMeta), d = remoteMeta[p].doc, Right(remoteMeta, p)
  PROVE  RightIn(disk', remoteText', Due', localState', remoteMeta, p)
<1>1. d \in Docs \ Attachments /\ p \in Paths
  BY DEF Noticed, Due, Typed, Listed
<1>2. IndexPath(d) = p
  BY IndexLeadsThere
<1>3. UNCHANGED remoteText
  BY DEF DocumentEvent, server
<1>4. CASE remoteText[d] = 0
  <2>1. PlacesOf(localState, d) = {}
    BY <1>1, <1>4 DEF Known, KnownIn
  <2>2. PlacesOf(localState', d) = {}
    BY <1>1, <1>4, <2>1, EventStores
  <2> QED BY <1>1, <1>3, <1>4, <2>2 DEF RightIn
<1>5. CASE remoteText[d] # 0
  <2>1. PICK f : f = [doc |-> d, version |-> remoteText[d]]
    OBVIOUS
  <2>2. p # None
    BY <1>1, FolderAssumption DEF FolderAssumption
  <2>3. disk'[p] = f
    BY <1>2, <1>5, <2>1, <2>2 DEF Answered
  <2>4. f \in Files /\ f.doc = d /\ f.version = remoteText[d]
    BY <1>1, <1>5, <2>1, FolderAssumption DEF Typed, Files, Versions, FolderAssumption
  <2>5. f # None
    BY <2>4, FolderAssumption DEF FolderAssumption
  <2> QED BY <1>1, <1>3, <2>3, <2>4, <2>5 DEF RightIn, FreshIn
<1> QED BY <1>3, <1>4, <1>5

(* and no other document is less so. *)
LEMMA EventLeavesRight ==
  ASSUME Typed, Injective(remoteMeta), filemeta = remoteMeta,
         NEW d \in Docs, DocumentEvent(d),
         PlacesOf(localState, d) # {} => Holds(IndexPath(d), d),
         NEW p \in Listed(remoteMeta), d # remoteMeta[p].doc, Right(remoteMeta, p)
  PROVE  RightIn(disk', remoteText', Due', localState', remoteMeta, p)
<1>1. PICK e \in Docs : e = remoteMeta[p].doc
  BY DocOfListed DEF Typed
<1>2. UNCHANGED remoteText /\ (e \in Due => e \in Due') /\ p \in Paths
  BY <1>1 DEF DocumentEvent, server, Due, Listed
<1>3. PlacesOf(localState, e) = {} => PlacesOf(localState', e) = {}
  BY <1>1, EventStores
<1>4. Holds(p, e) => disk'[p] = disk[p]
  <2>1. CASE p = IndexPath(d)
    <3>1. CASE PlacesOf(localState, d) # {}
      BY <1>1, <2>1, <3>1 DEF Holds
    <3>2. CASE PlacesOf(localState, d) = {} /\ d \in DocsIn(filemeta)
      <4>1. PICK w : w = CHOOSE q \in Listed(filemeta) : filemeta[q].doc = d
        OBVIOUS
      <4>2. filemeta[w].doc = d
        BY <3>2, <4>1 DEF DocsIn
      <4> QED BY <2>1, <3>2, <4>1, <4>2 DEF IndexPath
    <3>3. CASE PlacesOf(localState, d) = {} /\ d \notin DocsIn(filemeta)
      <4>1. IndexPath(d) = None
        BY <3>3 DEF IndexPath
      <4> QED BY <1>2, <2>1, <4>1, FolderAssumption DEF FolderAssumption
    <3> QED BY <3>1, <3>2, <3>3
  <2>2. CASE p # IndexPath(d)
    BY <1>2, <2>2, EventFiles
  <2> QED BY <2>1, <2>2
<1> QED BY <1>1, <1>2, <1>3, <1>4, StaysRight

LEMMA EventSettles ==
  ASSUME Typed, Sane, Known, Noticed, Settling, NEW d \in Docs, DocumentEvent(d)
  PROVE  Settling'
<1>1. CASE ~(Truthful' /\ process' = "serving" /\ pass'.pc = "idle" /\ ~folderDirty')
  BY <1>1, SettlingNext
<1>2. CASE Truthful' /\ process' = "serving" /\ pass'.pc = "idle" /\ ~folderDirty'
  <2>1. /\ UNCHANGED <<remoteMeta, filemeta, pass, process, folderDirty>> /\ d \in docDirty
        /\ PlacesOf(localState, d) # {} => Holds(IndexPath(d), d)
        /\ Truthful /\ OnlyCopy(d) /\ Answered(d)
    BY <1>2 DEF DocumentEvent, server, Truthful
  <2>2. CASE HeldBack
    BY <2>2, HeldBackStays, SettlingNext
  <2>3. CASE ~HeldBack
    <3>1. /\ filemeta = remoteMeta /\ Present \subseteq Listed(remoteMeta)
          /\ \A p \in Listed(remoteMeta) : Right(remoteMeta, p)
      BY <1>2, <2>1, <2>3 DEF Settling
    <3>2. Injective(remoteMeta)
      BY DEF Sane
    <3>3. ASSUME NEW p \in Listed(remoteMeta)
          PROVE  RightIn(disk', remoteText', Due', localState', remoteMeta, p)
      <4>1. CASE d = remoteMeta[p].doc
        BY <1>2, <2>1, <3>1, <3>2, <4>1, EventSetsRight
      <4>2. CASE d # remoteMeta[p].doc
        BY <2>1, <3>1, <3>2, <4>2, EventLeavesRight
      <4> QED BY <4>1, <4>2
    <3>4. Present' \subseteq Listed(remoteMeta)
      <4> SUFFICES ASSUME NEW p \in Paths, disk'[p] # None PROVE p \in Listed(remoteMeta)
        BY DEF Present
      <4>1. CASE disk[p] # None
        BY <3>1, <4>1 DEF Present
      <4>2. CASE disk[p] = None
        <5>1. p = IndexPath(d)
          BY <4>2, EventFiles
        <5>2. PlacesOf(localState, d) = {}
          BY <2>1, <4>2, <5>1 DEF Holds
        <5>3. p # None
          BY FolderAssumption DEF FolderAssumption
        <5>4. d \in DocsIn(filemeta) /\ p = CHOOSE q \in Listed(filemeta) : filemeta[q].doc = d
          BY <5>1, <5>2, <5>3 DEF IndexPath
        <5>5. \E q \in Listed(filemeta) : filemeta[q].doc = d
          BY <5>4 DEF DocsIn
        <5> QED BY <3>1, <5>4, <5>5
      <4> QED BY <4>1, <4>2
    <3>5. SettledIn(disk', remoteText', Due', localState', remoteMeta')
      BY <2>1, <3>3 DEF SettledIn
    <3> QED BY <2>1, <3>1, <3>4, <3>5, SettlingNext
  <2> QED BY <2>2, <2>3
<1> QED BY <1>1, <1>2

(* Users disturb nothing: what they change is announced. *)
LEMMA UsersSettle == ASSUME Typed, Noticed, Settling, Users PROVE Settling'
<1>1. CASE ~(Truthful' /\ process' = "serving" /\ pass'.pc = "idle" /\ ~folderDirty')
  BY <1>1, SettlingNext
<1>2. CASE Truthful' /\ process' = "serving" /\ pass'.pc = "idle" /\ ~folderDirty'
  <2>1. PICK d \in Docs, v \in Nat : ChangeText(d, v)
    <3>1. ~ \E meta : ChangeFolder(meta)
      BY <1>2 DEF ChangeFolder
    <3>2. \A d \in Docs : remoteText[d] + 1 \in Nat
      BY FolderAssumption DEF Typed, FolderAssumption
    <3>3. \A d \in Docs : remoteText[d] > 1 => remoteText[d] - 1 \in Nat
      BY FolderAssumption DEF Typed, FolderAssumption
    <3> QED BY <3>1, <3>2, <3>3 DEF Users, Edit, Revert, Add, Replace, Unlist, MoveRemote
  <2>2. UNCHANGED <<remoteMeta, filemeta, disk, localState, pass, process, folderDirty, sound, exact>>
    BY <2>1 DEF ChangeText, state, granted
  <2>3. Due \subseteq Due' /\ \A e \in Docs : remoteText'[e] = remoteText[e] \/ e \in Due'
    <3>1. \A e \in Docs : e # d => remoteText'[e] = remoteText[e]
      BY <2>1 DEF ChangeText, Typed
    <3> QED BY <2>1, <3>1 DEF ChangeText, Due
  <2>4. CASE HeldBack
    <3>1. HeldBack'
      BY <2>2, <2>4 DEF HeldBack, Present, Listed
    <3> QED BY <3>1, SettlingNext
  <2>5. CASE ~HeldBack
    <3>1. /\ filemeta = remoteMeta /\ Present \subseteq Listed(remoteMeta)
          /\ \A p \in Listed(remoteMeta) : Right(remoteMeta, p)
      BY <1>2, <2>2, <2>5 DEF Settling, Truthful
    <3>2. ASSUME NEW p \in Listed(remoteMeta)
          PROVE  RightIn(disk', remoteText', Due', localState', remoteMeta, p)
      <4>1. PICK e \in Docs : e = remoteMeta[p].doc
        BY DocOfListed DEF Typed
      <4> QED BY <2>2, <2>3, <3>1, <4>1, StaysRight
    <3>3. SettledIn(disk', remoteText', Due', localState', remoteMeta')
      BY <2>2, <3>2 DEF SettledIn
    <3>4. Present' \subseteq Listed(remoteMeta')
      BY <2>2, <3>1 DEF Present
    <3> QED BY <2>2, <3>1, <3>3, <3>4, SettlingNext
  <2> QED BY <2>4, <2>5
<1> QED BY <1>1, <1>2

LEMMA SettlingStep ==
  ASSUME IInv, Typed, Sane, Known, Noticed, Follows, Holding, Serving, Settling, [Next]_vars
  PROVE  Settling'
<1>1. CASE pass'.pc # "idle" \/ process' # "serving" \/ exact' = FALSE
  BY <1>1, SettlingNext DEF Truthful
<1>2. CASE UNCHANGED vars
  BY <1>2
  DEF vars, server, state, notifications, granted, Settling, Truthful, HeldBack, Present, Right,
      RightIn, FreshIn, PlacesOf, Due, Listed
<1>3. CASE StartupPass \/ FolderEvent
  <2>1. (\E paths : pass' = PlanPass(remoteMeta, paths)) \/ exact' = FALSE
    BY <1>3 DEF StartupPass, FolderEvent
  <2>2. \A paths : PlanPass(remoteMeta, paths).pc # "idle"
    BY PlanFacts
  <2> QED BY <1>1, <2>1, <2>2
<1>4. CASE CreateFile \/ UpdateFile
  <2>1. \E o \in pass.todo : WriteOperation(o) /\ pass.pc # "idle"
    BY <1>4 DEF CreateFile, UpdateFile, Pending
  <2> QED BY <1>1, <2>1, WriteTyped, DoneTyped
<1>5. CASE RenameFile
  <2>1. \E o \in pass.todo : pass' = Done(o) /\ pass.pc # "idle"
    BY <1>5 DEF RenameFile, Pending
  <2> QED BY <1>1, <2>1, DoneTyped
<1>6. CASE PlanDeletes \/ DeleteFile
  <2>1. pass'.pc # "idle"
    BY <1>6 DEF PlanDeletes, DeleteFile, Typed, Passes
  <2> QED BY <1>1, <2>1
<1>7. CASE StartupFails \/ Crash \/ Restart
  BY <1>1, <1>7 DEF StartupFails, Crash, Restart
<1> QED
  BY <1>2, <1>3, <1>4, <1>5, <1>6, <1>7, UsersSettle, FinishSettles, EventSettles DEF Next, Engine

(* When nothing is pending and nothing is held back, what is right is what *)
(* the server shows.                                                       *)
LEMMA SettledIsMirrored ==
  ASSUME Typed, Sane, PlainEntries, Noticed, Settling
  PROVE  SettledMirror
<1> SUFFICES ASSUME Settled, Truthful, ~HeldBack PROVE Mirrored
  BY DEF SettledMirror, Synchronised, Truthful
<1>1. /\ Present \subseteq Listed(remoteMeta) /\ Due = {}
      /\ \A p \in Listed(remoteMeta) : Right(remoteMeta, p)
  BY DEF Settling, Settled, Noticed, Due
<1>2. ASSUME NEW p \in Paths, remoteMeta[p] # None, Uploaded(p) PROVE disk[p] = Current(p)
  <2>1. p \in Listed(remoteMeta) /\ remoteMeta \in Metadata
    BY <1>2 DEF Listed, Typed
  <2>2. PICK d \in Docs, h \in 0 .. MaxVersion : d = remoteMeta[p].doc /\ h = remoteMeta[p].hash
    BY <2>1, DocOfListed
  <2>3. Right(remoteMeta, p)
    BY <1>1, <2>1
  <2>4. d \in Attachments <=> h # 0
    BY <2>1, <2>2 DEF Sane, Hashed, PlainEntries, Plain
  <2>5. PICK v : v = IF h # 0 THEN h ELSE remoteText[d]
    OBVIOUS
  <2>6. Current(p) = [doc |-> d, version |-> v]
    BY <2>2, <2>5 DEF Current
  <2>7. v # 0
    <3>1. Current(p).version = v
      BY <2>6
    <3> QED BY <1>2, <3>1 DEF Uploaded
  <2>8. FreshIn(disk, remoteText, {}, p, d, h)
    BY <1>1, <2>2, <2>3, <2>4, <2>5, <2>7 DEF Right, RightIn
  <2>9. disk[p] \in Files /\ disk[p].doc = d /\ disk[p].version = v
    BY <2>4, <2>5, <2>8 DEF FreshIn, Typed
  <2> QED BY <2>6, <2>9 DEF Files
<1>3. ASSUME NEW p \in Paths, remoteMeta[p] = None PROVE disk[p] = None
  BY <1>1, <1>3 DEF Present, Listed
<1> QED BY <1>2, <1>3 DEF Mirrored

LEMMA InitSettles ==
  Init => PlainEntries /\ Known /\ Noticed /\ Follows /\ Holding /\ Serving /\ Settling
<1> SUFFICES ASSUME Init
             PROVE  PlainEntries /\ Known /\ Noticed /\ Follows /\ Holding /\ Serving /\ Settling
  OBVIOUS
<1>1. localState = <<>> /\ saved[2] = <<>>
  BY DEF Init, EmptyState
<1>2. \A d : PlacesOf(<<>>, d) = {}
  BY DEF PlacesOf
<1>3. Known
  BY <1>1, <1>2 DEF Known, KnownIn
<1>4. PlainEntries
  BY DEF Init, PlainEntries, Plain, Listed
<1> QED
  BY <1>3, <1>4 DEF Init, Noticed, Follows, Holding, Serving, Settling, Running, NoPass, Due

(* When nothing is pending any more, the mirror is the folder, however the *)
(* events of documents, those of the folder, the passes they start, and    *)
(* crashes came in turn: unless the publication rule holds the folder back, *)
(* or one of the named things was taken for granted that was not so.       *)
THEOREM SettledIsTheFolder == Spec => []SettledMirror
<1> DEFINE Inv == /\ IInv /\ Typed /\ Planned /\ Sane /\ PlainEntries /\ Known /\ Noticed
                  /\ Follows /\ Holding /\ Serving /\ Settling
<1>1. Init => Inv
  BY InitGood, InitTyped, InitPlanned, InitSane, InitSettles
<1>2. Inv /\ [Next]_vars => Inv'
  BY StepGood, StepTyped, PlannedStep, SaneStep, PlainStep, KnownStep, NoticedStep, FollowsStep,
     HoldingStep, ServingStep, SettlingStep
<1>3. Inv => SettledMirror
  BY SettledIsMirrored
<1> HIDE DEF Inv
<1> QED BY <1>1, <1>2, <1>3, PTL DEF Spec
=============================================================================
