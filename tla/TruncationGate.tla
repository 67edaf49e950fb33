-------------------------- MODULE TruncationGate --------------------------
(***************************************************************************)
(* The gate on emptied files of one folder (sync_engine.py).  A pass may    *)
(* empty so many files, document events so many in a rolling window; the    *)
(* two budgets do not know of each other.  All steps are taken by one       *)
(* thread, one after the other.  The files exist and stay in place; heads   *)
(* are those of documents that already have one on record.                 *)
(***************************************************************************)
EXTENDS Naturals, FiniteSets, SequencesExt

CONSTANTS
  Documents,    \* an emptied document is an empty file
  Canvases,     \* an emptied canvas is a file with an empty JSON object
  Fraction,     \* 1 / MASS_CHANGE_THRESHOLD_FRACTION (10)
  Floor,        \* MASS_CHANGE_THRESHOLD_FLOOR (25)
  Window,       \* TRUNCATION_EVENT_WINDOW_SECONDS (60)
  MaxEdits,     \* bound: edits of the users
  MaxPasses     \* bound: passes

Files == Documents \cup Canvases

ASSUME GateAssumption ==
  /\ IsFiniteSet(Files) /\ Documents \cap Canvases = {}
  /\ Fraction \in Nat \ {0} /\ Floor \in Nat /\ Window \in Nat
  /\ MaxEdits \in Nat /\ MaxPasses \in Nat

VARIABLES
  remote,      \* what the server has: "full" or "blank"
  file,        \* what the file has
  hash,        \* document_hashes, "none" if there is none
  current,     \* documents whose recorded head is the server's
  pending,     \* changes in the queue: "event", or "head", with the server's head
  todo,        \* files the pass under way has yet to update
  passing,     \* a pass is under way
  applied,     \* _truncation_gates: what the pass has spent
  recent,      \* _recent_truncations, as ages
  lost,        \* history: ages of the files emptied by events in the last window
  lostInPass,  \* history: files emptied by the pass under way
  rewritten,   \* history: files a pass wrote with another text than hash says
  edits, passes

asked   == <<remote, current, pending>>
budgets == <<applied, recent>>
history == <<lost, lostInPass, rewritten>>
vars == <<asked, file, hash, todo, passing, budgets, history, edits, passes>>

(* mass_change_threshold *)
Threshold == LET share == Cardinality(Files) \div Fraction
             IN IF share > Floor THEN share ELSE Floor

(* os.path.getsize *)
HasSize(f) == f \in Canvases \/ file[f] = "full"

Init ==
  /\ remote \in [Files -> {"full", "blank"}]
  /\ file = remote
  /\ hash \in [Files -> {"none"} \cup {"full", "blank"}]
  /\ \A f \in Files : hash[f] \in {"none", file[f]}
  /\ current = Files
  /\ pending = [f \in Files |-> "none"]
  /\ todo = {} /\ passing = FALSE
  /\ applied = 0 /\ recent = <<>>
  /\ lost = <<>> /\ lostInPass = 0 /\ rewritten = {f \in Files : hash[f] # file[f]}
  /\ edits = 0 /\ passes = 0

------------------------------------------------------------------------------

(* A user empties or restores a document; an event tells of it.  A head that *)
(* waits in the queue is no longer the last one.                            *)
Edit(f) ==
  /\ edits < MaxEdits
  /\ remote' = [remote EXCEPT ![f] = IF @ = "full" THEN "blank" ELSE "full"]
  /\ current' = current \ {f}
  /\ pending' = [pending EXCEPT ![f] = "event"]
  /\ edits' = edits + 1
  /\ UNCHANGED <<file, hash, todo, passing, budgets, history, passes>>

(* The listener reconnects and the index brings every head not on record.   *)
Reconnect ==
  /\ \E f \in Files \ current : pending[f] # "head"
  /\ pending' = [f \in Files |-> IF f \in current THEN pending[f] ELSE "head"]
  /\ UNCHANGED <<remote, current, file, hash, todo, passing, budgets, history, edits, passes>>

Older(ages) == [i \in DOMAIN ages |-> ages[i] + 1]
Within(age) == age <= Window

(* Popping what has expired, from the left. *)
Unexpired(ages) ==
  LET fresh == {i \in DOMAIN ages : Within(ages[i])}
  IN IF fresh = {} THEN <<>> ELSE SubSeq(ages, Min(fresh), Len(ages))

Tick ==
  /\ recent' = [i \in DOMAIN recent |-> IF Within(recent[i]) THEN recent[i] + 1 ELSE recent[i]]
  /\ lost' = Unexpired(Older(lost))
  /\ UNCHANGED <<asked, file, hash, todo, passing, applied, lostInPass, rewritten, edits, passes>>

------------------------------------------------------------------------------
(* The pass. *)

(* The gate is set when the pass begins; a full pass updates every file, an *)
(* incremental one those whose entries have changed.                       *)
BeginPass(S) ==
  /\ ~passing /\ passes < MaxPasses
  /\ passing' = TRUE
  /\ todo' = S
  /\ applied' = 0 /\ lostInPass' = 0
  /\ passes' = passes + 1
  /\ UNCHANGED <<asked, file, hash, recent, lost, rewritten, edits>>

(* What a pass writes does not get into document_hashes. *)
PassWrites(f) ==
  /\ file' = [file EXCEPT ![f] = remote[f]]
  /\ rewritten' = IF hash[f] # remote[f] THEN rewritten \cup {f} ELSE rewritten \ {f}

(* Mutant: the budget is never spent. *)
GateUnspent(f) ==
  /\ remote[f] = "blank" /\ HasSize(f)
  /\ applied < Threshold
  /\ UNCHANGED applied

(* _gates_truncation during a pass, when it lets the file be emptied.      *)
GateSpent(f) ==
  /\ remote[f] = "blank" /\ HasSize(f)
  /\ applied < Threshold
  /\ applied' = applied + 1

PassUpdate(f) ==
  /\ f \in todo
  /\ todo' = todo \ {f}
  /\ \/ GateSpent(f)
     \/ ~(remote[f] = "blank" /\ HasSize(f)) /\ UNCHANGED applied
  /\ PassWrites(f)
  /\ lostInPass' = IF file[f] # file'[f] /\ file'[f] = "blank" THEN lostInPass + 1 ELSE lostInPass
  /\ UNCHANGED <<asked, hash, passing, recent, lost, edits, passes>>

(* The operation is marked completed with its error, nothing is written and *)
(* the pass goes on.                                                       *)
PassGated(f) ==
  /\ f \in todo
  /\ todo' = todo \ {f}
  /\ remote[f] = "blank" /\ HasSize(f)
  /\ applied >= Threshold
  /\ UNCHANGED <<asked, file, hash, passing, budgets, history, edits, passes>>

(* Mutant: the gate is removed before the last operation. *)
EndPassEarly ==
  /\ passing
  /\ passing' = FALSE
  /\ applied' = 0 /\ lostInPass' = 0
  /\ UNCHANGED <<asked, file, hash, todo, recent, lost, rewritten, edits, passes>>

(* The gate is removed in any case; the metadata is accepted in any case.   *)
EndPass ==
  /\ passing /\ todo = {}
  /\ passing' = FALSE
  /\ applied' = 0 /\ lostInPass' = 0
  /\ UNCHANGED <<asked, file, hash, todo, recent, lost, rewritten, edits, passes>>

------------------------------------------------------------------------------
(* A document change, between passes. *)

Taken(f) ==
  /\ ~passing
  /\ pending[f] # "none"
  /\ pending' = [pending EXCEPT ![f] = "none"]

RecordHead(f) == current' = IF pending[f] = "head" THEN current \cup {f} ELSE current

(* The text has the recorded hash. *)
EventUnchanged(f) ==
  /\ Taken(f)
  /\ hash[f] = remote[f]
  /\ RecordHead(f)
  /\ UNCHANGED <<remote, file, hash, todo, passing, budgets, history, edits, passes>>

(* The window when the gate is asked. *)
Kept == Unexpired(recent)

EventWrites(f) ==
  /\ Taken(f)
  /\ hash[f] # remote[f]
  /\ \/ /\ remote[f] = "blank" /\ HasSize(f)
        /\ Len(Kept) < Threshold
        /\ recent' = Append(Kept, 0)
     \/ /\ ~(remote[f] = "blank" /\ HasSize(f))
        /\ UNCHANGED recent
  /\ file' = [file EXCEPT ![f] = remote[f]]
  /\ hash' = [hash EXCEPT ![f] = remote[f]]
  /\ rewritten' = rewritten \ {f}
  /\ lost' = IF file[f] # file'[f] /\ file'[f] = "blank" THEN Append(lost, 0) ELSE lost
  /\ RecordHead(f)
  /\ UNCHANGED <<remote, todo, passing, applied, lostInPass, edits, passes>>

(* Mutant: the head of a refused change is recorded. *)
EventGatedForGood(f) ==
  /\ Taken(f)
  /\ hash[f] # remote[f]
  /\ remote[f] = "blank" /\ HasSize(f)
  /\ Len(Kept) >= Threshold
  /\ recent' = Kept
  /\ RecordHead(f)
  /\ UNCHANGED <<remote, file, hash, todo, passing, applied, history, edits, passes>>

(* Refused: neither the hash nor the head is recorded. *)
EventGated(f) ==
  /\ Taken(f)
  /\ hash[f] # remote[f]
  /\ remote[f] = "blank" /\ HasSize(f)
  /\ Len(Kept) >= Threshold
  /\ recent' = Kept
  /\ UNCHANGED <<remote, current, file, hash, todo, passing, applied, history, edits, passes>>

------------------------------------------------------------------------------

Engine ==
  \/ \E f \in Files : PassUpdate(f) \/ PassGated(f)
  \/ EndPass
  \/ \E f \in Files : EventUnchanged(f) \/ EventWrites(f) \/ EventGated(f)

Next ==
  \/ \E f \in Files : Edit(f)
  \/ Reconnect \/ Tick
  \/ \E S \in SUBSET Files : BeginPass(S)
  \/ Engine

Spec == Init /\ [][Next]_vars

(* The engine goes on, time passes, and the connection is lost and made     *)
(* again now and then.                                                     *)
FairSpec == Spec /\ WF_vars(Engine) /\ WF_vars(Tick) /\ WF_vars(Reconnect)

------------------------------------------------------------------------------

(* Every variable keeps its type, and only a pass has files to update.      *)
TypeOK ==
  /\ remote \in [Files -> {"full", "blank"}] /\ file \in [Files -> {"full", "blank"}]
  /\ hash \in [Files -> {"none", "full", "blank"}]
  /\ pending \in [Files -> {"none", "event", "head"}]
  /\ current \subseteq Files /\ rewritten \subseteq Files /\ todo \subseteq Files
  /\ passing \in BOOLEAN /\ (todo # {} => passing)
  /\ applied \in Nat /\ lostInPass \in Nat
  /\ recent \in Seq(0 .. Window + 1) /\ lost \in Seq(0 .. Window)

(* However edits, passes, events and time mix, document events empty at most *)
(* the threshold of files in any window, and one pass empties no more; the  *)
(* two budgets are independent, so both together can empty twice as many.   *)
BurstBounded == Len(lost) <= Threshold /\ lostInPass <= Threshold

(* A file that is not what the server has is not forgotten: its change is   *)
(* waiting, or its head is not on record and the index brings it again,     *)
(* unless a pass has written a text behind the back of document_hashes.     *)
HeldBackIsAsked ==
  \A f \in Files : file[f] # remote[f] =>
    pending[f] # "none" \/ f \notin current \/ f \in rewritten

==============================================================================
