----------------------------- MODULE ChangeInbox -----------------------------
(***************************************************************************)
(* What the operations queue promises to the listener threads and to the   *)
(* webhook handler: a change notification that was accepted waits in the   *)
(* inbox of its resource until everything that waits there is handed to    *)
(* the sync engine in one piece, and that always happens.  How the promise *)
(* is kept (a dictionary, a lock and a queue of tokens) is the business of *)
(* ChangeQueue, which implements this module.                              *)
(***************************************************************************)
EXTENDS Naturals, Sequences, FiniteSetsExt

CONSTANTS
  Keys,      \* the (relay_id, resource_id) pairs that notifications are about
  MaxNotes   \* bound on the notifications of a behaviour

VARIABLES
  notes,     \* the notifications accepted so far, in the order of acceptance
  waiting,   \* waiting[k]: the numbers of the notifications of k not yet handed over
  handed     \* handed[k]: the last change of k given to the sync engine

inboxVars == <<notes, waiting, handed>>

(* An "event" names a resource and carries no index head; "adopt" and      *)
(* "fetch" carry one, with baseline_only set and not set.                  *)
Kinds == {"event", "adopt", "fetch"}

Heads(S) == {n \in S : notes[n] # "event"}

(* The coalesced form of a set of notifications: the newest index head     *)
(* among them (0 when there is none), and the kind it came with.           *)
Summary(S) ==
  [covers |-> S,
   head   |-> IF Heads(S) = {} THEN 0 ELSE Max(Heads(S)),
   kind   |-> IF Heads(S) = {} THEN "event" ELSE notes[Max(Heads(S))]]

NothingHanded == [covers |-> {}, head |-> 0, kind |-> "event"]

InboxInit ==
  /\ notes = <<>>
  /\ waiting = [k \in Keys |-> {}]
  /\ handed = [k \in Keys |-> NothingHanded]

Notify(k, kind) ==
  /\ Len(notes) < MaxNotes
  /\ notes' = Append(notes, kind)
  /\ waiting' = [waiting EXCEPT ![k] = @ \cup {Len(notes) + 1}]
  /\ UNCHANGED handed

Deliver(k) ==
  /\ waiting[k] # {}
  /\ handed' = [handed EXCEPT ![k] = Summary(waiting[k])]
  /\ waiting' = [waiting EXCEPT ![k] = {}]
  /\ UNCHANGED notes

InboxNext == \E k \in Keys : Deliver(k) \/ \E kind \in Kinds : Notify(k, kind)

(* Without the promise that it happens. *)
InboxSafe == InboxInit /\ [][InboxNext]_inboxVars

InboxSpec ==
  /\ InboxSafe
  /\ \A k \in Keys : WF_inboxVars(Deliver(k))
==============================================================================
