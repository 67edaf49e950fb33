----------------------------- MODULE FolderSync -----------------------------
(***************************************************************************)
(* How one shared folder is mirrored into a directory (sync_engine.py and  *)
(* the state maps of persistence.py).  The server keeps the folder's       *)
(* metadata, path by path, and the text of every document.  The mirror     *)
(* keeps files, the last accepted metadata, local_file_state (which        *)
(* document was written where) and document_hashes; the last three are     *)
(* saved when a change has been processed and are all that survives a      *)
(* restart.  A folder pass plans its operations from the files it finds,   *)
(* executes them one after the other while the server moves on, and saves. *)
(* Directory entries, git and empty documents are left out; the queue is   *)
(* reduced to its promise: a set of resources with a pending notification. *)
(***************************************************************************)
EXTENDS Naturals, SequencesExt

CONSTANTS
  Paths,        \* paths inside the folder
  Docs,         \* document ids
  Attachments,  \* the documents whose metadata carries a content hash
  None,         \* no entry, no file
  MassFloor,    \* MASS_CHANGE_THRESHOLD_FLOOR (25)
  AllowMassDelete, \* RELAY_GIT_ALLOW_MASS_DELETE
  RemoteOps,    \* what users do: "add", "edit", "revert", "rename", "remove"
  QuietStart,   \* the folder does not change while the startup pass runs
  FetchMayFail, \* whether a fetch from the server can fail
  Cloned,       \* the repository came with files in it, from the git remote
  MaxVersion,   \* bound: versions of a document
  MaxEdits,     \* bound: user operations in a behaviour
  MaxCrashes    \* bound: crashes in a behaviour

Versions == 1 .. MaxVersion
Entries  == [doc : Docs, hash : 0 .. MaxVersion]
Files    == [doc : Docs, version : Versions]
Metadata == [Paths -> Entries \cup {None}]

ASSUME FolderAssumption ==
  /\ IsFiniteSet(Paths) /\ IsFiniteSet(Docs)
  /\ Attachments \subseteq Docs
  /\ None \notin Docs \cup Paths \cup Entries \cup Files
  /\ MassFloor \in Nat /\ MaxVersion \in Nat /\ MaxEdits \in Nat /\ MaxCrashes \in Nat
  /\ {AllowMassDelete, QuietStart, FetchMayFail, Cloned} \subseteq BOOLEAN

VARIABLES
  remoteMeta,   \* filemeta_v0 of the folder on the server
  remoteText,   \* the version of each text document on the server; 0: registered, no content
  disk,         \* the files of the mirror
  filemeta,     \* filemeta_folders: the accepted metadata of the folder
  localState,   \* local_file_state: an ordered map from paths to documents
  hashes,       \* document_hashes; 0: no hash
  saved,        \* the three maps above as last saved
  pass,         \* the folder pass that is under way
  process,      \* "starting" (startup sync), "serving" or "down"
  folderDirty,  \* a notification of the folder is pending
  docDirty,     \* documents with a pending notification
  missed,       \* documents edited while nothing listened
  sound,        \* history: no operation failed, and what was taken for granted was so
  exact,        \* history: no event was lost, and no stale content taken for the current one
  edits, crashes

server == <<remoteMeta, remoteText, edits>>
state  == <<filemeta, localState, hashes>>
notifications == <<folderDirty, docDirty, missed>>
granted == <<sound, exact>>
vars == <<server, disk, state, saved, pass, process, notifications, granted, crashes>>

Listed(meta) == {p \in Paths : meta[p] # None}
Present      == {p \in Paths : disk[p] # None}
DocsIn(meta) == {meta[p].doc : p \in Listed(meta)}

(* mass_change_threshold *)
MassThreshold(membership) == Max({membership \div 10, MassFloor})

------------------------------------------------------------------------------
(* local_file_state: a Python dict keeps the order of insertion. *)

EmptyState == <<>>

Keeps(s, p) == \E i \in DOMAIN s : s[i].path = p

Place(s, p) == CHOOSE i \in DOMAIN s : s[i].path = p

Popped(s, p) == IF Keeps(s, p) THEN RemoveAt(s, Place(s, p)) ELSE s

(* cleanup_extra_local_files hands delete_file a path relative to the      *)
(* folder, "note.md", while the state's keys are metadata paths, "/note.md". *)
RelativePath(p) == <<"relative", p>>

(* Mutant: new entries are keyed by the relative path. *)
StoredRelative(s, p, d) ==
  IF Keeps(s, p)
  THEN [i \in DOMAIN s |-> IF s[i].path = p THEN [path |-> p, doc |-> d] ELSE s[i]]
  ELSE Append(s, [path |-> RelativePath(p), doc |-> d])

Stored(s, p, d) ==
  IF Keeps(s, p)
  THEN [i \in DOMAIN s |-> IF s[i].path = p THEN [path |-> p, doc |-> d] ELSE s[i]]
  ELSE Append(s, [path |-> p, doc |-> d])

PlacesOf(s, d) == {i \in DOMAIN s : s[i].doc = d}

(* find_local_file_by_doc_id: the first path recorded for the document *)
FindByDoc(s, d) == IF PlacesOf(s, d) = {} THEN None ELSE s[Min(PlacesOf(s, d))].path

(* _build_resource_index: local_file_state first (the last path recorded   *)
(* for a document wins), then the accepted metadata.                       *)
IndexPath(d) ==
  IF PlacesOf(localState, d) # {}
  THEN localState[Max(PlacesOf(localState, d))].path
  ELSE IF d \in DocsIn(filemeta)
       THEN CHOOSE p \in Listed(filemeta) : filemeta[p].doc = d
       ELSE None

(* move_file on the state: the entry of the source, if there is one, goes  *)
(* to the target.                                                          *)
Moved(s, from, to) ==
  LET docs == {s[i].doc : i \in {j \in DOMAIN s : s[j].path = from}}
  IN Stored(Popped(s, from), to, IF docs = {} THEN None ELSE CHOOSE d \in docs : TRUE)

(* The file that local_file_state names for a document is that document. *)
Holds(p, d) == disk[p] # None /\ disk[p].doc = d

------------------------------------------------------------------------------
(* One folder pass. *)

NoPass == [pc |-> "idle", meta |-> None, todo |-> {}, deletes |-> {},
           verdict |-> "gated", before |-> 0]

(* apply_remote_state: what to do for path p of the metadata *)
Operation(meta, p) ==
  LET e == meta[p]
      old == FindByDoc(localState, e.doc)
      kind == IF disk[p] # None
              THEN IF e.hash # 0 /\ disk[p] = [doc |-> e.doc, version |-> e.hash]
                   THEN "noop"
                   ELSE "update"
              ELSE IF old # None /\ old # p THEN "rename" ELSE "create"
  IN [kind |-> kind, path |-> p, from |-> IF kind = "rename" THEN old ELSE None,
      doc  |-> e.doc, hash |-> e.hash]

(* A listed document is in its place, unless it has no content yet or its  *)
(* content is still being announced.                                       *)
InPlace(meta, p) ==
  LET d == meta[p].doc IN
  \/ Holds(p, d)
  \/ d \notin Attachments /\ (remoteText[d] = 0 \/ d \in docDirty \cup missed)

(* What a plan takes for granted: a file that it moves is where            *)
(* local_file_state says, and an entry that has not changed is in place.   *)
WellFounded(plan, unchanged) ==
  /\ \A o \in plan.todo : o.kind = "rename" => Holds(o.from, o.doc)
  /\ \A p \in unchanged : InPlace(remoteMeta, p)

Announced(d) == d \in docDirty \cup missed

(* The file at p is document d, with the content of the server, or with an *)
(* event of d to come.                                                     *)
Fresh(p, d, hash) ==
  /\ Holds(p, d)
  /\ IF d \in Attachments THEN disk[p].version = hash
     ELSE disk[p].version = remoteText[d] \/ Announced(d)

(* The same, or the file is left to the first event of a new document.     *)
UpToDate(meta, p) ==
  LET d == meta[p].doc IN
  \/ Fresh(p, d, meta[p].hash)
  \/ /\ d \notin Attachments /\ PlacesOf(localState, d) = {}
     /\ remoteText[d] = 0 \/ Announced(d)

(* Neither a rename nor an unchanged entry fetches anything: the content   *)
(* must be the one the folder shows.                                       *)
Timely(plan, unchanged) ==
  /\ \A o \in plan.todo : o.kind = "rename" => Fresh(o.from, o.doc, o.hash)
  /\ \A p \in unchanged : UpToDate(remoteMeta, p)

(* A document event writes one file. *)
OnlyCopy(d) == \A p \in Paths : Holds(p, d) => p = IndexPath(d)

(* Mutant: only new paths count as changed. *)
ChangedPathsOnly(old, meta) == {p \in Listed(meta) : old[p] = None}

(* _changed_filemeta_entries *)
Changed(old, meta) == {p \in Listed(meta) : old[p] # meta[p]}

(* Mutant: no publication rule. *)
PlanPassWhenEmpty(meta, paths) ==
  [NoPass EXCEPT !.pc = "create", !.meta = meta, !.verdict = "accepted",
                 !.before = Cardinality(Present),
                 !.todo = {o \in {Operation(meta, p) : p \in paths} : o.kind # "noop"}]

(* The part of _apply_remote_folder_changes before anything is executed.   *)
(* An empty folder on the server against local files is never a deletion.  *)
PlanPass(meta, paths) ==
  IF Listed(meta) = {} /\ Present # {}
  THEN [NoPass EXCEPT !.pc = "save", !.meta = meta, !.before = Cardinality(Present)]
  ELSE [NoPass EXCEPT !.pc = "create", !.meta = meta, !.verdict = "accepted",
                      !.before = Cardinality(Present),
                      !.todo = {o \in {Operation(meta, p) : p \in paths} : o.kind # "noop"}]

Accepted == pass.verdict = "accepted"

Pending(kind) == {o \in pass.todo : o.kind = kind}

Done(o) == [pass EXCEPT !.todo = @ \ {o}]

(* The content a handler fetches for an operation: the text as it is now,  *)
(* or the attachment the hash names.                                       *)
Fetched(d, hash) ==
  IF d \in Attachments THEN hash ELSE remoteText[d]

(* handle_server_create and handle_server_update.  A fetch that fails, or  *)
(* finds no content yet, leaves an error in the operation, which counts as *)
(* completed all the same.                                                 *)
WriteOperation(o) ==
  \/ /\ Fetched(o.doc, o.hash) # 0
     /\ UNCHANGED sound
     /\ disk' = [disk EXCEPT ![o.path] = [doc |-> o.doc, version |-> Fetched(o.doc, o.hash)]]
     /\ localState' = Stored(localState, o.path, o.doc)
     /\ pass' = Done(o)
  \/ /\ FetchMayFail \/ Fetched(o.doc, o.hash) = 0
     /\ pass' = Done(o)
     /\ sound' = (sound /\ Fetched(o.doc, o.hash) = 0)
     /\ UNCHANGED <<disk, localState>>

------------------------------------------------------------------------------

(* _initialize_git_repos_from_toml: a configured folder without state gets *)
(* empty metadata, which is saved, and a repository, whose clone may bring *)
(* files that no map knows.                                                *)
Init ==
  /\ remoteMeta = [p \in Paths |-> None]
  /\ remoteText = [d \in Docs |-> 0]
  /\ edits = 0
  /\ IF Cloned THEN disk \in [Paths -> Files \cup {None}] ELSE disk = [p \in Paths |-> None]
  /\ filemeta = [p \in Paths |-> None]
  /\ localState = EmptyState
  /\ hashes = [d \in Docs |-> 0]
  /\ saved = <<filemeta, localState, hashes>>
  /\ pass = NoPass
  /\ process = "starting"
  /\ folderDirty = FALSE
  /\ docDirty = {}
  /\ missed = {}
  /\ sound = TRUE /\ exact = TRUE
  /\ crashes = 0

(* Users work on the server.  The notification of a change reaches the     *)
(* queue only while the listener is connected; what documents missed comes *)
(* back with the index when it connects, what the folder missed does not.  *)

FolderMayChange == QuietStart => ~(process = "starting" /\ pass.pc # "idle")

ChangeFolder(meta) ==
  /\ FolderMayChange
  /\ edits < MaxEdits
  /\ edits' = edits + 1
  /\ remoteMeta' = meta
  /\ folderDirty' = (folderDirty \/ process = "serving")
  /\ exact' = (exact /\ ~(process = "starting" /\ pass.pc # "idle"))
  /\ UNCHANGED <<disk, state, saved, pass, process, sound, crashes>>

ChangeText(d, v) ==
  /\ edits < MaxEdits
  /\ edits' = edits + 1
  /\ remoteText' = [remoteText EXCEPT ![d] = v]
  /\ IF process = "serving"
     THEN docDirty' = docDirty \cup {d} /\ UNCHANGED missed
     ELSE missed' = missed \cup {d} /\ UNCHANGED docDirty
  /\ UNCHANGED <<remoteMeta, disk, state, saved, pass, process, folderDirty, granted, crashes>>

Add(d, p) ==
  /\ "add" \in RemoteOps
  /\ d \notin DocsIn(remoteMeta)
  /\ remoteMeta[p] = None
  /\ \E h \in IF d \in Attachments THEN Versions ELSE {0} :
       ChangeFolder([remoteMeta EXCEPT ![p] = [doc |-> d, hash |-> h]])
  /\ UNCHANGED <<remoteText, docDirty, missed>>

Edit(d) ==
  /\ "edit" \in RemoteOps
  /\ d \in DocsIn(remoteMeta) \ Attachments
  /\ remoteText[d] < MaxVersion
  /\ ChangeText(d, remoteText[d] + 1)

(* An undo brings a former text back. *)
Revert(d) ==
  /\ "revert" \in RemoteOps
  /\ d \in DocsIn(remoteMeta) \ Attachments
  /\ remoteText[d] > 1
  /\ ChangeText(d, remoteText[d] - 1)

(* An attachment is replaced: its hash is in the folder's metadata. *)
Replace(p) ==
  /\ "edit" \in RemoteOps
  /\ remoteMeta[p] # None
  /\ remoteMeta[p].doc \in Attachments
  /\ \E h \in Versions \ {remoteMeta[p].hash} :
       ChangeFolder([remoteMeta EXCEPT ![p].hash = h])
  /\ UNCHANGED <<remoteText, docDirty, missed>>

MoveRemote(p, q) ==
  /\ "rename" \in RemoteOps
  /\ remoteMeta[p] # None /\ remoteMeta[q] = None
  /\ ChangeFolder([remoteMeta EXCEPT ![p] = None, ![q] = remoteMeta[p]])
  /\ UNCHANGED <<remoteText, docDirty, missed>>

Unlist(p) ==
  /\ "remove" \in RemoteOps
  /\ remoteMeta[p] # None
  /\ ChangeFolder([remoteMeta EXCEPT ![p] = None])
  /\ UNCHANGED <<remoteText, docDirty, missed>>

Users ==
  \/ \E d \in Docs : Edit(d) \/ Revert(d) \/ \E p \in Paths : Add(d, p)
  \/ \E p \in Paths : Replace(p) \/ Unlist(p) \/ \E q \in Paths : MoveRemote(p, q)

------------------------------------------------------------------------------

(* Startup: process_sync_request with the whole metadata. *)
StartupPass ==
  /\ process = "starting" /\ pass.pc = "idle"
  /\ pass' = PlanPass(remoteMeta, Listed(remoteMeta))
  /\ sound' = (sound /\ WellFounded(pass', {}))
  /\ exact' = (exact /\ Timely(pass', {}))
  /\ UNCHANGED <<server, disk, state, saved, process, notifications, crashes>>

(* The structure cannot be fetched; the server starts without the folder.  *)
StartupFails ==
  /\ FetchMayFail
  /\ process = "starting" /\ pass.pc = "idle"
  /\ process' = "serving"
  /\ docDirty' = missed \cap DocsIn(filemeta)
  /\ missed' = {}
  /\ exact' = FALSE
  /\ UNCHANGED <<server, disk, state, saved, pass, folderDirty, sound, crashes>>

(* A folder event: an incremental pass, unless the metadata cannot be had. *)
FolderEvent ==
  /\ process = "serving" /\ pass.pc = "idle"
  /\ folderDirty
  /\ folderDirty' = FALSE
  /\ \/ LET unchanged == {p \in Listed(remoteMeta) : filemeta[p] = remoteMeta[p]} IN
        /\ pass' = PlanPass(remoteMeta, Changed(filemeta, remoteMeta))
        /\ sound' = (sound /\ WellFounded(pass', unchanged))
        /\ exact' = (exact /\ Timely(pass', unchanged))
     \/ /\ FetchMayFail
        /\ exact' = FALSE
        /\ UNCHANGED <<pass, sound>>
  /\ UNCHANGED <<server, disk, state, saved, process, docDirty, missed, crashes>>

CreateFile == \E o \in Pending("create") :
  /\ pass.pc = "create"
  /\ WriteOperation(o)
  /\ UNCHANGED <<server, filemeta, hashes, saved, process, notifications, exact, crashes>>

(* handle_server_rename, by move_file: the file is moved, whatever it      *)
(* holds, and its entry with it; a source that is not there is no error.   *)
RenameFile == \E o \in Pending("rename") :
  /\ pass.pc = "create" /\ Pending("create") = {}
  /\ IF disk[o.from] # None
     THEN /\ disk' = [disk EXCEPT ![o.from] = None, ![o.path] = disk[o.from]]
          /\ localState' = Moved(localState, o.from, o.path)
     ELSE UNCHANGED <<disk, localState>>
  /\ pass' = Done(o)
  /\ UNCHANGED <<server, filemeta, hashes, saved, process, notifications, granted, crashes>>

(* Mutant: the cleanup compares with the metadata accepted before. *)
PlanDeletesByOldMeta ==
  LET extra == Present \ Listed(filemeta)
      held  == /\ Cardinality(extra) > MassThreshold(Cardinality(Listed(pass.meta)))
               /\ ~AllowMassDelete
  IN /\ pass.pc = "create"
     /\ Pending("create") = {} /\ Pending("rename") = {}
     /\ pass' = [pass EXCEPT !.pc = "rest", !.verdict = IF held THEN "gated" ELSE "accepted",
                             !.deletes = IF held THEN {} ELSE extra]
     /\ UNCHANGED <<server, disk, state, saved, process, notifications, granted, crashes>>

(* Mutant: the cleanup deletes only files that local_file_state knows. *)
PlanDeletesOfKnown ==
  LET extra == {p \in Present : Keeps(localState, p)} \ Listed(pass.meta)
      held  == /\ Cardinality(extra) > MassThreshold(Cardinality(Listed(pass.meta)))
               /\ ~AllowMassDelete
  IN /\ pass.pc = "create"
     /\ Pending("create") = {} /\ Pending("rename") = {}
     /\ pass' = [pass EXCEPT !.pc = "rest", !.verdict = IF held THEN "gated" ELSE "accepted",
                             !.deletes = IF held THEN {} ELSE extra]
     /\ UNCHANGED <<server, disk, state, saved, process, notifications, granted, crashes>>

(* cleanup_extra_local_files after creates and renames, and the burst gate *)
PlanDeletes ==
  LET extra == Present \ Listed(pass.meta)
      held  == /\ Cardinality(extra) > MassThreshold(Cardinality(Listed(pass.meta)))
               /\ ~AllowMassDelete
  IN /\ pass.pc = "create"
     /\ Pending("create") = {} /\ Pending("rename") = {}
     /\ pass' = [pass EXCEPT !.pc = "rest", !.verdict = IF held THEN "gated" ELSE "accepted",
                             !.deletes = IF held THEN {} ELSE extra]
     /\ UNCHANGED <<server, disk, state, saved, process, notifications, granted, crashes>>

UpdateFile == \E o \in Pending("update") :
  /\ pass.pc = "rest"
  /\ WriteOperation(o)
  /\ UNCHANGED <<server, filemeta, hashes, saved, process, notifications, exact, crashes>>

(* delete_file, with the path the cleanup recorded *)
DeleteFile == \E p \in pass.deletes :
  /\ pass.pc = "rest" /\ pass.todo = {}
  /\ disk' = [disk EXCEPT ![p] = None]
  /\ localState' = Popped(localState, RelativePath(p))
  /\ pass' = [pass EXCEPT !.deletes = @ \ {p}]
  /\ UNCHANGED <<server, filemeta, hashes, saved, process, notifications, granted, crashes>>

PassExecuted ==
  \/ pass.pc = "save"
  \/ pass.pc = "rest" /\ pass.todo = {} /\ pass.deletes = {}

(* The metadata is taken over if it was not gated, and everything is saved. *)
FinishPass ==
  /\ PassExecuted
  /\ filemeta' = IF Accepted THEN pass.meta ELSE filemeta
  /\ saved' = <<filemeta', localState, hashes>>
  /\ pass' = NoPass
  /\ IF process = "starting"
     THEN /\ process' = "serving"
          /\ docDirty' = missed \cap DocsIn(filemeta')
          /\ missed' = {}
     ELSE UNCHANGED <<process, docDirty, missed>>
  /\ UNCHANGED <<server, disk, localState, hashes, folderDirty, granted, crashes>>


(* handle_document_update: the text goes to where the index has the        *)
(* document, whatever is there.                                            *)
UpdateDocument(d) ==
  LET p == IndexPath(d) IN
  /\ p # None
  /\ disk' = [disk EXCEPT ![p] = [doc |-> d, version |-> remoteText[d]]]
  /\ localState' = Stored(localState, p, d)

(* An event that writes nothing finds nothing to write. *)
Answered(d) ==
  IndexPath(d) # None /\ remoteText[d] # 0 =>
    disk'[IndexPath(d)] = [doc |-> d, version |-> remoteText[d]]

(* process_document_change for a document: it is looked up in the resource *)
(* index, fetched, and written if its hash is not the last one known.      *)
DocumentEvent(d) ==
  /\ process = "serving" /\ pass.pc = "idle"
  /\ d \in docDirty
  /\ docDirty' = docDirty \ {d}
  /\ \/ /\ remoteText[d] # 0
        /\ remoteText[d] # hashes[d]
        /\ UpdateDocument(d)
        /\ hashes' = [hashes EXCEPT ![d] = remoteText[d]]
        /\ saved' = <<filemeta, localState', hashes'>>
     \/ /\ \/ IndexPath(d) = None \/ remoteText[d] = 0 \/ remoteText[d] = hashes[d]
           \/ FetchMayFail
        /\ UNCHANGED <<disk, localState, hashes, saved>>
  /\ sound' = (sound /\ (PlacesOf(localState, d) # {} => Holds(IndexPath(d), d)))
  /\ exact' = (exact /\ OnlyCopy(d) /\ Answered(d))
  /\ UNCHANGED <<server, filemeta, pass, process, folderDirty, missed, crashes>>

(* A crash loses the memory: the queue, the pass, the unsaved maps. *)
Crash ==
  /\ crashes < MaxCrashes
  /\ crashes' = crashes + 1
  /\ process # "down"
  /\ process' = "down"
  /\ pass' = NoPass
  /\ filemeta' = saved[1] /\ localState' = saved[2] /\ hashes' = saved[3]
  /\ folderDirty' = FALSE /\ docDirty' = {}
  /\ missed' = missed \cup docDirty
  /\ UNCHANGED <<server, disk, saved, granted>>

Restart ==
  /\ process = "down"
  /\ process' = "starting"
  /\ UNCHANGED <<server, disk, state, saved, pass, notifications, granted, crashes>>

Engine ==
  \/ StartupPass \/ StartupFails \/ FolderEvent
  \/ CreateFile \/ RenameFile \/ PlanDeletes \/ UpdateFile \/ DeleteFile \/ FinishPass
  \/ \E d \in Docs : DocumentEvent(d)

Next == Users \/ Engine \/ Crash \/ Restart

Spec == Init /\ [][Next]_vars

(* The main thread and the worker go on; users may stop at any time. *)
FairSpec == Spec /\ WF_vars(Engine) /\ WF_vars(Restart)

------------------------------------------------------------------------------

(* Every variable keeps its type. *)
TypeOK ==
  /\ remoteMeta \in Metadata
  /\ remoteText \in [Docs -> 0 .. MaxVersion]
  /\ disk \in [Paths -> Files \cup {None}]
  /\ filemeta \in Metadata
  /\ localState \in Seq([path : Paths, doc : Docs \cup {None}])
  /\ hashes \in [Docs -> 0 .. MaxVersion]
  /\ pass.pc \in {"idle", "create", "rest", "save"}
  /\ pass.meta \in Metadata \cup {None}
  /\ pass.deletes \subseteq Paths
  /\ pass.verdict \in {"accepted", "gated"} /\ pass.before \in Nat
  /\ process \in {"starting", "serving", "down"}
  /\ folderDirty \in BOOLEAN
  /\ docDirty \subseteq Docs /\ missed \subseteq Docs
  /\ sound \in BOOLEAN /\ exact \in BOOLEAN
  /\ edits \in 0 .. MaxEdits /\ crashes \in 0 .. MaxCrashes

(* A pass that was not gated leaves no file that the folder does not list, *)
(* however its creates, renames and updates went.                          *)
NoStrangers == PassExecuted /\ Accepted => Present \subseteq Listed(pass.meta)

(* One pass costs the mirror no file when the server shows an empty folder, *)
(* and at most the mass-change threshold of files unless that is allowed.  *)
BoundedLoss ==
  PassExecuted =>
    /\ Listed(pass.meta) = {} => pass.before <= Cardinality(Present)
    /\ AllowMassDelete
         \/ pass.before <= Cardinality(Present) + MassThreshold(Cardinality(Listed(pass.meta)))

(* Nothing is pending and nothing is under way. *)
Settled == process = "serving" /\ pass.pc = "idle" /\ ~folderDirty /\ docDirty = {}

AllInPlace == PassExecuted /\ Accepted => \A p \in Listed(pass.meta) : InPlace(pass.meta, p)

(* As long as a pass and an event were right in what they took for         *)
(* granted, a pass that was not gated leaves every listed document in its  *)
(* place: chains and swaps of moves included.                              *)
PassComplete == sound => AllInPlace

(* "Smart handling of renames, moves, and deletions", and "sync integrity  *)
(* across restarts": the same without the condition.  The code breaks it.  *)
PassAlwaysComplete == AllInPlace

(* The mirror shows what the server shows. *)
Current(p) == LET e == remoteMeta[p] IN
  [doc |-> e.doc, version |-> IF e.hash # 0 THEN e.hash ELSE remoteText[e.doc]]

Uploaded(p) == Current(p).version # 0

Mirrored == \A p \in Paths :
  IF remoteMeta[p] = None THEN disk[p] = None
  ELSE Uploaded(p) => disk[p] = Current(p)

(* What the folder shows is held back: it is empty, or it would cost more  *)
(* files than the threshold.                                               *)
HeldBack ==
  /\ Present # {}
  /\ \/ Listed(remoteMeta) = {}
     \/ /\ ~AllowMassDelete
        /\ Cardinality(Present \ Listed(remoteMeta))
             > MassThreshold(Cardinality(Listed(remoteMeta)))

Synchronised == Mirrored \/ HeldBack \/ ~(sound /\ exact)

(* When nothing is pending any more, the mirror is the folder: every order *)
(* of folder events, document events and fetches ends in the same files.   *)
SettledMirror == Settled => Synchronised

==============================================================================
