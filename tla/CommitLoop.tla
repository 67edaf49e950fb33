----------------------------- MODULE CommitLoop -----------------------------
(***************************************************************************)
(* How changes of the mirror reach git (operations_queue.py, commit_changes *)
(* of persistence.py).  The worker writes files and, when a change has been *)
(* processed, sets has_changes.  The commit timer wakes up, looks at the    *)
(* flag without a lock, walks over the repositories, adds, commits and      *)
(* pushes each, and clears the flag.  The main thread makes the same walk   *)
(* once after the startup sync, without looking at the flag.                *)
(*                                                                         *)
(* The content of a repository is the number of changes it has seen: in the *)
(* working tree, the index, HEAD and the remote.  What others push, and     *)
(* pulling it, is left out.                                                *)
(***************************************************************************)
EXTENDS Naturals

CONSTANTS
  Repos,        \* git_repos: one per configured folder
  Remotes,      \* the repositories with a remote
  MaxWrites,    \* bound: files written in a repository
  MaxFailures   \* bound: failures of git or of a change

ASSUME CommitAssumption ==
  /\ Remotes \subseteq Repos
  /\ MaxWrites \in Nat /\ MaxFailures \in Nat

VARIABLES
  tree,        \* the working tree
  index,       \* what has been added
  head,        \* what has been committed
  pushed,      \* what has arrived at the remote
  worker,      \* the repository that the worker is writing to, or none
  hasChanges,  \* SyncState.has_changes
  announced,   \* history: the tree when has_changes was last set for it
  step,        \* where commit_changes is: asleep, walk, add, commit, push
  caller,      \* who called it: startup or timer
  repo,        \* the repository it works on
  todo,        \* the repositories it has not visited
  committedAny,
  asOf,        \* history: announced when the walk began
  failures

git    == <<tree, index, head, pushed>>
commit == <<step, caller, repo, todo, committedAny, asOf>>
vars   == <<git, worker, hasChanges, announced, commit, failures>>

Idle == {}   \* the worker writes to no repository

Init ==
  /\ tree \in [Repos -> 0 .. 1]
  /\ index = [r \in Repos |-> 0] /\ head = index /\ pushed = index
  /\ worker = Idle
  /\ hasChanges = FALSE
  /\ announced = [r \in Repos |-> 0]
  /\ step = "walk" /\ caller = "startup"
  /\ repo \in Repos
  /\ todo = Repos
  /\ committedAny = FALSE
  /\ asOf = announced
  /\ failures = 0

Fails == failures < MaxFailures /\ failures' = failures + 1

------------------------------------------------------------------------------
(* The worker; it gets its first change after the startup walk. *)

Serving == caller = "timer"

StartChange(r) ==
  /\ Serving
  /\ worker = Idle
  /\ worker' = {r}
  /\ UNCHANGED <<git, hasChanges, announced, commit, failures>>

WriteFile(r) ==
  /\ r \in worker
  /\ tree[r] < MaxWrites
  /\ tree' = [tree EXCEPT ![r] = @ + 1]
  /\ UNCHANGED <<index, head, pushed, worker, hasChanges, announced, commit, failures>>

(* The change had operations, with or without an effect. *)
ChangeDone(r) ==
  /\ r \in worker
  /\ worker' = Idle
  /\ hasChanges' = TRUE
  /\ announced' = [announced EXCEPT ![r] = tree[r]]
  /\ UNCHANGED <<git, commit, failures>>

(* An exception, even after files were written, comes back as no operations. *)
ChangeFails(r) ==
  /\ r \in worker
  /\ Fails
  /\ worker' = Idle
  /\ UNCHANGED <<git, hasChanges, announced, commit>>

------------------------------------------------------------------------------
(* The walk over the repositories. *)

(* Mutant: the flag is reset before the walk. *)
TickResettingFirst ==
  /\ step = "asleep"
  /\ hasChanges
  /\ hasChanges' = FALSE
  /\ step' = "walk"
  /\ todo' = Repos
  /\ committedAny' = FALSE
  /\ asOf' = announced
  /\ UNCHANGED <<git, worker, announced, caller, repo, failures>>

(* _maybe_commit_changes looks at the flag. *)
Tick ==
  /\ step = "asleep"
  /\ hasChanges
  /\ step' = "walk"
  /\ todo' = Repos
  /\ committedAny' = FALSE
  /\ asOf' = announced
  /\ UNCHANGED <<git, worker, hasChanges, announced, caller, repo, failures>>

Dirty(r)    == tree[r] # head[r] \/ index[r] # head[r]
Unpushed(r) == r \in Remotes /\ pushed[r] # head[r]

(* is_dirty, or else _has_unpushed_commits, which answers no on an error.  *)
VisitRepo(r) ==
  /\ step = "walk"
  /\ r \in todo
  /\ todo' = todo \ {r}
  /\ repo' = r
  /\ \/ Dirty(r) /\ step' = "add" /\ UNCHANGED failures
     \/ ~Dirty(r) /\ Unpushed(r) /\ step' = "push" /\ UNCHANGED failures
     \/ ~Dirty(r) /\ Unpushed(r) /\ step' = "walk" /\ Fails
     \/ ~Dirty(r) /\ ~Unpushed(r) /\ step' = "walk" /\ UNCHANGED failures
  /\ UNCHANGED <<git, worker, hasChanges, announced, caller, committedAny, asOf>>

(* git add -A *)
AddAll ==
  /\ step = "add"
  /\ step' = "commit"
  /\ index' = [index EXCEPT ![repo] = tree[repo]]
  /\ UNCHANGED <<tree, head, pushed, worker, hasChanges, announced,
                 caller, repo, todo, committedAny, asOf, failures>>

(* Mutant: the tree is committed, not the index. *)
CommitTree ==
  /\ step = "commit"
  /\ step' = "push"
  /\ head' = [head EXCEPT ![repo] = tree[repo]]
  /\ committedAny' = TRUE
  /\ UNCHANGED <<tree, index, pushed, worker, hasChanges, announced,
                 caller, repo, todo, asOf, failures>>

(* index.commit *)
CommitIndex ==
  /\ step = "commit"
  /\ step' = "push"
  /\ head' = [head EXCEPT ![repo] = index[repo]]
  /\ committedAny' = TRUE
  /\ UNCHANGED <<tree, index, pushed, worker, hasChanges, announced,
                 caller, repo, todo, asOf, failures>>

(* _push_to_remote: nothing to do without a remote; errors are logged only. *)
Push ==
  /\ step = "push"
  /\ step' = "walk"
  /\ \/ repo \in Remotes /\ pushed' = [pushed EXCEPT ![repo] = head[repo]] /\ UNCHANGED failures
     \/ repo \notin Remotes /\ UNCHANGED <<pushed, failures>>
     \/ repo \in Remotes /\ Fails /\ UNCHANGED pushed
  /\ UNCHANGED <<tree, index, head, worker, hasChanges, announced,
                 caller, repo, todo, committedAny, asOf>>

(* The end of the walk: the timer clears the flag if there was a commit. *)
EndWalk ==
  /\ step = "walk" /\ todo = {}
  /\ step' = "asleep"
  /\ caller' = "timer"
  /\ hasChanges' = (hasChanges /\ ~(caller = "timer" /\ committedAny))
  /\ UNCHANGED <<git, worker, announced, repo, todo, committedAny, asOf, failures>>

(* Mutant: the exception handler answers whether anything was committed. *)
WalkFailsSayingCommitted ==
  /\ step \in {"walk", "add", "commit"}
  /\ Fails
  /\ step' = "asleep"
  /\ caller' = "timer"
  /\ hasChanges' = (hasChanges /\ ~(caller = "timer" /\ committedAny))
  /\ UNCHANGED <<git, worker, announced, repo, todo, committedAny, asOf>>

(* An exception ends the walk over all repositories; the answer is False,  *)
(* whatever was committed before.                                          *)
WalkFails ==
  /\ step \in {"walk", "add", "commit"}
  /\ Fails
  /\ step' = "asleep"
  /\ caller' = "timer"
  /\ UNCHANGED <<git, worker, hasChanges, announced, repo, todo, committedAny, asOf>>

Walk == (\E r \in Repos : VisitRepo(r)) \/ AddAll \/ CommitIndex \/ Push \/ EndWalk

Worker == \E r \in Repos : StartChange(r) \/ WriteFile(r) \/ ChangeDone(r) \/ ChangeFails(r)

Next == Worker \/ Tick \/ Walk \/ WalkFails

Spec == Init /\ [][Next]_vars

(* The timer wakes up again and again and the walk goes on; the worker     *)
(* finishes the change it is busy with.                                    *)
FairSpec ==
  /\ Spec
  /\ WF_vars(Tick) /\ WF_vars(Walk)
  /\ \A r \in Repos : WF_vars(ChangeDone(r))

------------------------------------------------------------------------------

(* Every variable keeps its type, and content only moves forward: what is  *)
(* pushed was committed, and what is committed was added, and written.     *)
TypeOK ==
  /\ tree \in [Repos -> Nat] /\ index \in [Repos -> Nat]
  /\ head \in [Repos -> Nat] /\ pushed \in [Repos -> Nat]
  /\ announced \in [Repos -> Nat] /\ asOf \in [Repos -> Nat]
  /\ \A r \in Repos :
       /\ pushed[r] <= head[r] /\ head[r] <= index[r] /\ index[r] <= tree[r]
       /\ asOf[r] <= announced[r] /\ announced[r] <= tree[r]
  /\ worker \in SUBSET Repos
  /\ hasChanges \in BOOLEAN /\ committedAny \in BOOLEAN
  /\ step \in {"asleep", "walk", "add", "commit", "push"}
  /\ caller \in {"startup", "timer"}
  /\ repo \in Repos /\ todo \subseteq Repos
  /\ failures \in Nat

(* The flag is cleared only when every change that had been announced when *)
(* the walk began is committed, in every repository, failures or not.      *)
Covered == hasChanges /\ ~hasChanges' => \A r \in Repos : head[r] >= asOf[r]
ClearedMeansCommitted == [][Covered]_vars

(* A change that is announced while the timer sleeps gets committed.       *)
AnnouncedIsCommitted ==
  \A r \in Repos : \A n \in 1 .. MaxWrites :
    (step = "asleep" /\ hasChanges /\ announced[r] = n) ~> (head[r] >= n)

(* "Changes are automatically committed to Git": the same for a change     *)
(* announced at any time.  The code breaks it: the flag set during a walk  *)
(* is cleared at its end.                                                  *)
EveryChangeIsCommitted ==
  \A r \in Repos : \A n \in 1 .. MaxWrites : (announced[r] = n) ~> (head[r] >= n)

==============================================================================
