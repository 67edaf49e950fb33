----------------------------- MODULE GitRemote -----------------------------
(***************************************************************************)
(* One repository of the mirror and its remote, to which others push too    *)
(* (persistence.py): opening the repository, reattaching a detached HEAD,   *)
(* the commit walk, pull with rebase, conflicts, push and its retry.  The   *)
(* committer is the main thread, which opens the repository and makes the   *)
(* startup commit, and then the commit timer.  The worker opens the         *)
(* repository before each folder pass, which pulls, and writes files; both  *)
(* threads share the repository.  A git command that has started ends       *)
(* before the other thread's next one, but the sequence of commands that    *)
(* resolves a conflict has no lock.  The process may die at any point and   *)
(* is started again on the repository it left behind.                      *)
(*                                                                         *)
(* Nothing in the code ever completes a merge, so every history is a        *)
(* sequence of commits.  The name of a history stands for its tip, and one  *)
(* history contains another if the other is a prefix.  git itself is        *)
(* external: it behaves like git 2.39, the version of the image, without    *)
(* pull.rebase or pull.ff set.                                             *)
(***************************************************************************)
EXTENDS Naturals, FiniteSets, SequencesExt

CONSTANTS
  Own,          \* files that _resolve_conflicts_in_our_favor calls our files
  Outside,      \* the other files: outside the prefix, or dotfiles
  Texts,        \* what the mirror writes
  OtherTexts,   \* what others push
  None,         \* no such file
  Markers,      \* a text with conflict markers
  Editors,      \* whether rebase --continue finds a working editor: {FALSE} in the image
  MaxWrites,    \* bound: files written by the mirror
  MaxPushes,    \* bound: pushes of others
  MaxPasses,    \* bound: folder passes
  MaxFaults     \* bound: losses of the network and restarts of the process

ASSUME GitAssumption ==
  /\ Own \cap Outside = {}
  /\ Texts # {} /\ OtherTexts # {}
  /\ None \notin Texts \cup OtherTexts /\ Markers \notin Texts \cup OtherTexts /\ None # Markers
  /\ Editors \subseteq BOOLEAN
  /\ {MaxWrites, MaxPushes, MaxPasses, MaxFaults} \subseteq Nat

VARIABLES
  remote,      \* the branch at the remote, <<>> if it has none
  online,      \* the remote can be reached
  branch,      \* the configured branch
  head,        \* HEAD
  detached,    \* HEAD is not on the branch
  recovery,    \* the recovery/... branches
  tracked,     \* the remote-tracking ref, as of the last fetch or push
  tracking,    \* the branch has an upstream
  stage,       \* the index
  tree,        \* the working tree
  unmerged,    \* paths with a conflict in the index
  rebasing,    \* .git/rebase-merge exists
  orig,        \* the branch as it was when the rebase began
  pick,        \* the commit of orig that the rebase is applying
  pc,          \* where each thread is
  back,        \* where _pull_from_remote returns to
  caller,      \* of commit_changes: startup or timer
  hasChanges,  \* SyncState.has_changes
  committedAny,
  recent,      \* the unpushed check has fetched within the last five minutes
  made,        \* how many commits the mirror has made
  settled,     \* history: commits a rebase dropped because the remote's text was taken
  theirs,      \* history: what others pushed last, for each outside file
  disturbed,   \* history: one thread took HEAD off a rebase of the other
  writes, pushes, passes, outages, crashes

refs     == <<branch, head, detached, recovery>>
upstream == <<tracked, tracking, recent>>
files    == <<stage, tree, unmerged>>
replay   == <<rebasing, orig, pick>>
control  == <<pc, back>>
loop     == <<caller, hasChanges, committedAny>>
history  == <<made, settled, theirs, disturbed>>
bounds   == <<writes, pushes, passes, outages, crashes>>
vars == <<remote, online, refs, upstream, files, replay, control, loop, history, bounds>>

Threads == {"committer", "worker"}

Files  == Own \cup Outside
Text   == Texts \cup OtherTexts \cup {None, Markers}
Tree   == [Files -> Text]
Empty  == [f \in Files |-> None]

(* A commit made by the mirror has a number, which a rebase keeps; commits  *)
(* of others and the first one have 0.                                     *)
Commit == [n : Nat, tree : Tree]

TreeOf(h)   == IF h = <<>> THEN Empty ELSE Last(h).tree
Upto(h, i)  == SubSeq(h, 1, i)
Fork(g, h)  == Cardinality({i \in DOMAIN g : IsPrefix(Upto(g, i), h)})

(* is_dirty or untracked_files *)
Dirty == tree # stage \/ stage # TreeOf(head) \/ unmerged # {}

(* A file that git does not know and that a checkout of t would overwrite.  *)
Overwrites(t) == \E f \in Files \ unmerged : stage[f] = None /\ tree[f] # None /\ t[f] # None

(* The working tree after a checkout of t that keeps unknown files.         *)
CheckedOut(t) == [f \in Files |-> IF stage[f] = None /\ t[f] = None /\ f \notin unmerged
                                  THEN tree[f] ELSE t[f]]

(* Both sides have changed a file since they parted.                       *)
Touched(h, from) ==
  {f \in Files : \E i \in from + 1 .. Len(h) : h[i].tree[f] # TreeOf(Upto(h, i - 1))[f]}
Contended ==
  LET k == Fork(branch, remote) IN Touched(branch, k) \cap Touched(remote, k) # {}

First == <<[n |-> 0, tree |-> Empty]>>
Base  == <<[n |-> 0, tree |-> [f \in Files |-> IF f \in Own THEN CHOOSE t \in Texts : TRUE
                                                          ELSE CHOOSE t \in OtherTexts : TRUE]]>>

(* init_git_repo without a repository: a clone that repairs its upstream, or, when there is *)
(* no branch to clone or cloning fails, a new repository with its first commit.             *)
Init ==
  /\ online = TRUE
  /\ \/ /\ remote \in {First, Base}
        /\ head = remote /\ tracked = remote /\ tracking = TRUE
     \/ /\ remote \in {<<>>, Base} /\ head = First /\ tracked = <<>> /\ tracking = FALSE
  /\ branch = head /\ detached = FALSE /\ recovery = {}
  /\ recent = FALSE
  /\ stage = TreeOf(head) /\ tree = stage /\ unmerged = {}
  /\ rebasing = FALSE /\ orig = <<>> /\ pick = 0
  /\ pc = [t \in Threads |-> IF t = "committer" THEN "configure" ELSE "idle"]
  /\ back = [t \in Threads |-> "idle"]
  /\ caller = "startup" /\ hasChanges = FALSE /\ committedAny = FALSE
  /\ made = 0 /\ settled = {}
  /\ theirs = [f \in Outside |-> TreeOf(remote)[f]]
  /\ disturbed = FALSE
  /\ writes = 0 /\ pushes = 0 /\ passes = 0 /\ outages = 0 /\ crashes = 0

------------------------------------------------------------------------------
(* What goes on around git. *)

(* Passes run in the main thread until the startup commit, in the worker after it. *)
Mirroring == IF caller = "startup" THEN "committer" ELSE "worker"

(* The thread is between the first and the last command of a rebase.        *)
Replaying(t) == pc[t] \in {"pick", "repick", "resolve", "continue", "abort"}

(* The other thread is not in the middle of a command that moves HEAD. *)
Turn(t) == \A s \in Threads \ {t} : pc[s] \notin {"pick", "repick"}

At(t, place)   == pc[t] = place /\ Turn(t)
Goto(t, place) == pc' = [pc EXCEPT ![t] = place]
Return(t)      == Goto(t, back[t])

PullThen(t, place) ==
  /\ Goto(t, "pull")
  /\ back' = [back EXCEPT ![t] = place]

(* A pass or a document change writes a file; None stands for deleting it.  *)
Write(f, v) ==
  /\ At(Mirroring, "idle")
  /\ writes < MaxWrites
  /\ tree[f] # v
  /\ tree' = [tree EXCEPT ![f] = v]
  /\ hasChanges' = (hasChanges \/ caller = "timer")
  /\ writes' = writes + 1
  /\ UNCHANGED <<remote, online, refs, upstream, stage, unmerged, replay, control,
                 caller, committedAny, history, pushes, passes, outages, crashes>>

(* A change was processed that wrote nothing. *)
EmptyChange ==
  /\ caller = "timer"
  /\ hasChanges' = TRUE
  /\ UNCHANGED <<remote, online, refs, upstream, files, replay, control,
                 caller, committedAny, history, bounds>>

OtherPush(f, v) ==
  /\ pushes < MaxPushes
  /\ TreeOf(remote)[f] # v
  /\ remote' = Append(remote, [n |-> 0, tree |-> [TreeOf(remote) EXCEPT ![f] = v]])
  /\ theirs' = [g \in Outside |-> IF g = f THEN v ELSE theirs[g]]
  /\ pushes' = pushes + 1
  /\ UNCHANGED <<online, refs, upstream, files, replay, control, loop, made, settled,
                 disturbed, writes, passes, outages, crashes>>

GoOffline ==
  /\ online /\ outages + crashes < MaxFaults
  /\ online' = FALSE
  /\ outages' = outages + 1
  /\ UNCHANGED <<remote, refs, upstream, files, replay, control, loop, history,
                 writes, pushes, passes, crashes>>

GoOnline ==
  /\ ~online
  /\ online' = TRUE
  /\ UNCHANGED <<remote, refs, upstream, files, replay, control, loop, history, bounds>>

(* The process dies; what it held in memory is gone, the repository stays.  *)
(* The new one goes through all repositories there are, opens each and then *)
(* configures its remote (_initialize_all_git_repos).                       *)
Crash ==
  /\ outages + crashes < MaxFaults
  /\ crashes' = crashes + 1
  /\ pc' = [t \in Threads |-> IF t = "committer" THEN "start" ELSE "idle"]
  /\ back' = [t \in Threads |-> "idle"]
  /\ caller' = "startup" /\ hasChanges' = FALSE /\ committedAny' = FALSE
  /\ recent' = FALSE
  /\ UNCHANGED <<remote, online, refs, tracked, tracking, files, replay, history,
                 writes, pushes, passes, outages>>

------------------------------------------------------------------------------
(* Opening the repository, and the walk. *)

(* The remote-tracking ref after a fetch, which may fail. *)
Fetched == IF online THEN remote ELSE tracked

(* _repair_tracking_branch_if_obvious: an upstream, once set, stays; it is  *)
(* set when the remote is known to have the branch.                        *)
Repaired(known) == tracking \/ known # <<>>

(* A thread moves HEAD between the commands of the other's rebase.          *)
MovesHead(t) ==
  disturbed' = (disturbed \/ \E s \in Threads \ {t} : pc[s] \in {"resolve", "continue", "abort"})

(* Mutant: the branch is moved and its old tip forgotten. *)
EnsureBranchWithoutRecovery(t) ==
  /\ branch' = head
  /\ detached' = FALSE
  /\ IF detached THEN MovesHead(t) ELSE UNCHANGED disturbed
  /\ UNCHANGED <<head, recovery>>

(* _ensure_configured_branch: nothing to do on a branch; otherwise the      *)
(* branch is set to HEAD, and its old tip kept under a recovery name.       *)
EnsureBranch(t) ==
  /\ branch' = head
  /\ detached' = FALSE
  /\ recovery' = recovery \cup (IF detached /\ branch # head THEN {branch} ELSE {})
  /\ IF detached THEN MovesHead(t) ELSE UNCHANGED disturbed
  /\ UNCHANGED head

(* init_git_repo of an existing repository, at the start: reattach and pull. *)
OpenRepo(t) ==
  /\ At(t, "start")
  /\ EnsureBranch(t)
  /\ PullThen(t, "configure")
  /\ UNCHANGED <<remote, online, upstream, files, replay, loop, made, settled, theirs, bounds>>

(* init_git_repo before a folder pass. *)
OpenForPass(t) ==
  /\ t = Mirroring /\ At(t, "idle")
  /\ passes < MaxPasses
  /\ passes' = passes + 1
  /\ EnsureBranch(t)
  /\ PullThen(t, "idle")
  /\ UNCHANGED <<remote, online, upstream, files, replay, loop, made, settled, theirs,
                 writes, pushes, outages, crashes>>

(* configure_git_remote, and _repair_tracking_branch_if_obvious from what   *)
(* is known of the remote without asking it.                               *)
ConfigureRemote(t) ==
  /\ At(t, "configure")
  /\ EnsureBranch(t)
  /\ tracking' = Repaired(tracked)
  /\ Goto(t, "idle")
  /\ UNCHANGED <<remote, online, tracked, recent, files, replay, back, loop, made, settled,
                 theirs, bounds>>

(* commit_changes returns; the timer clears the flag if there was a commit. *)
EndWalk(t) ==
  /\ Goto(t, "idle")
  /\ caller' = "timer"
  /\ hasChanges' = (hasChanges /\ ~(committedAny /\ caller = "timer"))
  /\ UNCHANGED <<back, committedAny>>

BeginWalk(t) ==
  /\ t = "committer" /\ At(t, "idle")
  /\ caller = "startup" \/ hasChanges
  /\ EnsureBranch(t)

(* Something to commit: pull first. *)
WalkDirty(t) ==
  /\ BeginWalk(t) /\ Dirty
  /\ PullThen(t, "commit")
  /\ committedAny' = FALSE
  /\ UNCHANGED <<remote, online, upstream, files, replay, caller, hasChanges, made, settled,
                 theirs, bounds>>

(* Nothing to commit: _has_unpushed_commits decides whether to push. *)
PushUnless(t, upToDate) ==
  /\ Goto(t, IF upToDate THEN "idle" ELSE "push")
  /\ caller' = IF upToDate THEN "timer" ELSE caller
  /\ committedAny' = FALSE
  /\ UNCHANGED <<back, hasChanges>>

WalkClean(t) ==
  /\ BeginWalk(t) /\ ~Dirty
  /\ tracking
  /\ PushUnless(t, IsPrefix(head, tracked))
  /\ UNCHANGED <<remote, online, upstream, files, replay, made, settled, theirs, bounds>>

(* Without an upstream the question needs a fetch, which is made at most    *)
(* once in five minutes.  Offline, the fetch raises and ends the walk.      *)
WalkWithoutUpstream(t) ==
  /\ BeginWalk(t) /\ ~Dirty
  /\ ~tracking
  /\ recent' = TRUE
  /\ LET asks == ~recent /\ online
     IN /\ tracked' = IF asks THEN Fetched ELSE tracked
        /\ tracking' = (asks /\ Repaired(remote))
        /\ PushUnless(t, ~asks \/ IsPrefix(head, remote))
  /\ UNCHANGED <<remote, online, files, replay, made, settled, theirs, bounds>>

IntervalPasses ==
  /\ recent
  /\ recent' = FALSE
  /\ UNCHANGED <<remote, online, refs, tracked, tracking, files, replay, control, loop,
                 history, bounds>>

(* git add -A and index.commit, on HEAD wherever it is.  What is in the     *)
(* working tree is committed, and a conflict in the index is gone.          *)
CommitAll(t) ==
  /\ At(t, "commit")
  /\ head' = Append(head, [n |-> made + 1, tree |-> tree])
  /\ branch' = IF detached THEN branch ELSE head'
  /\ stage' = tree /\ unmerged' = {}
  /\ made' = made + 1
  /\ MovesHead(t)
  /\ committedAny' = TRUE
  /\ Goto(t, "push")
  /\ UNCHANGED <<remote, online, detached, recovery, upstream, tree, replay, back, caller,
                 hasChanges, settled, theirs, bounds>>

------------------------------------------------------------------------------
(* _pull_from_remote *)

(* Reattach, fetch, repair the upstream, compare.  A failed fetch, and the  *)
(* fetch tried after it, are logged only.                                  *)
PullFetch(t) ==
  /\ At(t, "pull")
  /\ EnsureBranch(t)
  /\ IF ~online THEN Return(t) /\ UNCHANGED upstream
     ELSE /\ tracked' = remote
          /\ tracking' = Repaired(remote)
          /\ UNCHANGED recent
          /\ Goto(t, IF ~tracking' \/ IsPrefix(remote, head) THEN back[t]
                     ELSE IF IsPrefix(head, remote) THEN "forward" ELSE "rebase")
  /\ UNCHANGED <<remote, online, files, replay, back, loop, made, settled, theirs, bounds>>

(* Mutant: the branch is forwarded and the files stay. *)
FastForwardRefs(t) ==
  /\ At(t, "forward")
  /\ Return(t)
  /\ IF online
     THEN /\ head' = remote /\ branch' = remote /\ tracked' = remote
          /\ stage' = TreeOf(remote) /\ UNCHANGED <<detached, recovery, tree, unmerged>>
     ELSE UNCHANGED <<refs, tracked, files>>
  /\ UNCHANGED <<remote, online, tracking, recent, replay, back, loop, history, bounds>>

(* Only behind: git pull.  It refuses with a conflict in the index, when it *)
(* would overwrite a file that has been changed or is unknown, and when     *)
(* HEAD has meanwhile diverged.                                            *)
FastForward(t) ==
  /\ At(t, "forward")
  /\ Return(t)
  /\ LET new == TreeOf(remote)
         changes == {f \in Files : new[f] # TreeOf(head)[f]}
         refused == ~online \/ unmerged # {} \/ ~IsPrefix(head, remote)
                      \/ \E f \in changes : TreeOf(head)[f] \notin {tree[f]} \cap {stage[f]}
     IN IF refused
        THEN /\ tracked' = Fetched
             /\ UNCHANGED <<refs, files, disturbed>>
        ELSE /\ MovesHead(t)
             /\ head' = remote /\ tracked' = remote
             /\ branch' = IF detached THEN branch ELSE remote
             /\ stage' = [f \in Files |-> IF f \in changes THEN new[f] ELSE stage[f]]
             /\ tree'  = [f \in Files |-> IF f \in changes THEN new[f] ELSE tree[f]]
             /\ UNCHANGED <<detached, recovery, unmerged>>
  /\ UNCHANGED <<remote, online, tracking, recent, replay, back, loop, made, settled, theirs,
                 bounds>>

(* Ahead and behind: git pull --rebase.  It refuses changed files, a file   *)
(* it would overwrite, and a repository in which a rebase is under way or   *)
(* was left; that is not a conflict, so nothing but another fetch follows.  *)
StartRebase(t) ==
  /\ At(t, "rebase")
  /\ LET new == TreeOf(remote)
         changed == stage # TreeOf(head) \/ unmerged # {}
                      \/ \E f \in Files : stage[f] # None /\ tree[f] # stage[f]
     IN IF ~online \/ rebasing \/ changed \/ Overwrites(new) \/ IsPrefix(remote, branch)
        THEN /\ Return(t)
             /\ tracked' = Fetched
             /\ UNCHANGED <<refs, files, replay>>
        ELSE /\ tracked' = remote
             /\ head' = remote /\ detached' = TRUE
             /\ tree' = CheckedOut(new) /\ stage' = new
             /\ rebasing' = TRUE /\ orig' = branch /\ pick' = Fork(branch, remote) + 1
             /\ Goto(t, "pick")
             /\ UNCHANGED <<branch, recovery, unmerged>>
  /\ UNCHANGED <<remote, online, tracking, recent, back, loop, history, bounds>>

(* The commit that is applied, what it was made from, and what it is applied to. *)
Theirs3 == orig[pick].tree
Base3   == TreeOf(Upto(orig, pick - 1))
Ours3   == TreeOf(head)

Merged    == [f \in Files |-> IF Ours3[f] = Base3[f] THEN Theirs3[f] ELSE Ours3[f]]
Conflicts == {f \in Files : /\ Theirs3[f] # Base3[f] /\ Ours3[f] # Base3[f]
                            /\ Theirs3[f] # Ours3[f]}

Picking(t) == pc[t] \in {"pick", "repick"}

(* HEAD gets the commit under pick with tree u, and so does the branch it is on. *)
Apply(u) ==
  /\ head' = Append(head, [orig[pick] EXCEPT !.tree = u])
  /\ branch' = IF detached THEN branch ELSE head'

(* The commit under pick changes nothing any more. *)
Drop == settled' = settled \cup {orig[pick].n} /\ UNCHANGED <<head, branch>>

(* A commit that changes nothing any more is dropped, one that never did is kept. *)
PickClean(t) ==
  /\ Picking(t) /\ pick <= Len(orig)
  /\ Conflicts = {}
  /\ \A f \in Files : Merged[f] # Ours3[f] => tree[f] = stage[f]
  /\ IF Merged = Ours3 /\ Theirs3 # Base3 THEN Drop
     ELSE Apply(Merged) /\ UNCHANGED settled
  /\ stage' = Merged
  /\ tree' = [f \in Files |-> IF Merged[f] # Ours3[f] THEN Merged[f] ELSE tree[f]]
  /\ pick' = pick + 1
  /\ UNCHANGED <<remote, online, detached, recovery, upstream, unmerged, rebasing, orig,
                 control, loop, made, theirs, disturbed, bounds>>

(* git stops.  A conflict of the pull is resolved, one of rebase --continue aborts the     *)
(* rebase; a file in the way is no conflict to the pull, which leaves the rebase behind.   *)
PickStops(t) ==
  /\ Picking(t) /\ pick <= Len(orig)
  /\ LET touched  == Conflicts \cup {f \in Files : Merged[f] # Ours3[f]}
         inTheWay == \E f \in touched : tree[f] # stage[f]
     IN /\ IF inTheWay
           THEN UNCHANGED files
           ELSE /\ Conflicts # {}
                /\ unmerged' = Conflicts
                /\ stage' = Merged
                /\ tree' = [f \in Files |->
                     IF f \notin Conflicts THEN IF f \in touched THEN Merged[f] ELSE tree[f]
                     ELSE IF None \notin {Ours3[f], Theirs3[f]} THEN Markers
                     ELSE IF Ours3[f] = None THEN Theirs3[f] ELSE Ours3[f]]
        /\ Goto(t, IF pc[t] = "repick" THEN "abort" ELSE IF inTheWay THEN back[t] ELSE "resolve")
  /\ UNCHANGED <<remote, online, refs, upstream, replay, back, loop, history, bounds>>

(* Mutant: HEAD is put on the branch, and the branch is not moved. *)
FinishRebaseInPlace(t) ==
  /\ Picking(t) /\ pick > Len(orig)
  /\ detached' = FALSE
  /\ rebasing' = FALSE
  /\ Return(t)
  /\ UNCHANGED <<remote, online, branch, head, recovery, upstream, files, orig, pick, back,
                 loop, history, bounds>>

(* git moves the branch to HEAD, but not if somebody else has moved it.     *)
FinishRebase(t) ==
  /\ Picking(t) /\ pick > Len(orig)
  /\ IF branch = orig
     THEN /\ branch' = head /\ detached' = FALSE
          /\ rebasing' = FALSE
          /\ Return(t)
     ELSE Goto(t, "abort") /\ UNCHANGED <<branch, detached, rebasing>>
  /\ UNCHANGED <<remote, online, head, recovery, upstream, files, orig, pick, back, loop,
                 history, bounds>>

(* _resolve_conflicts_in_our_favor: checkout --ours for our files, --theirs *)
(* for the others, and add.  In a rebase, ours is what the commit is        *)
(* applied to, that is the remote's side.  The side that has deleted the    *)
(* file cannot be checked out: the error is logged and the conflict stays.  *)
Side(f) == IF f \in Own THEN Ours3[f] ELSE Theirs3[f]

(* Mutant: the files are added as the stopped rebase has left them. *)
ResolveByAdding(t) ==
  /\ At(t, "resolve")
  /\ unmerged' = {f \in unmerged : Side(f) = None}
  /\ stage' = [f \in Files |-> IF f \in unmerged \ unmerged' THEN tree[f] ELSE stage[f]]
  /\ Goto(t, "continue")
  /\ UNCHANGED <<remote, online, refs, upstream, tree, replay, back, loop, history, bounds>>

Resolve(t) ==
  /\ At(t, "resolve")
  /\ unmerged' = {f \in unmerged : Side(f) = None}
  /\ LET resolved == unmerged \ unmerged'
     IN /\ stage' = [f \in Files |-> IF f \in resolved THEN Side(f) ELSE stage[f]]
        /\ tree'  = [f \in Files |-> IF f \in resolved THEN Side(f) ELSE tree[f]]
  /\ Goto(t, "continue")
  /\ UNCHANGED <<remote, online, refs, upstream, replay, back, loop, history, bounds>>

(* rebase --continue fails with a conflict or a changed file, and, when     *)
(* there is something to commit, without an editor for the message.  With   *)
(* nothing left to commit it drops the commit.                             *)
Continue(t, editor) ==
  /\ At(t, "continue")
  /\ LET stopped == unmerged # {} \/ \E f \in Files : stage[f] # None /\ tree[f] # stage[f]
     IN \/ /\ stopped \/ (stage # Ours3 /\ ~editor)
           /\ Goto(t, "abort")
           /\ UNCHANGED <<head, branch, settled, pick>>
        \/ /\ ~stopped /\ (stage = Ours3 \/ editor)
           /\ Goto(t, "repick")
           /\ pick' = pick + 1
           /\ IF stage = Ours3 THEN Drop ELSE Apply(stage) /\ UNCHANGED settled
  /\ UNCHANGED <<remote, online, detached, recovery, upstream, files, rebasing, orig,
                 back, loop, made, theirs, disturbed, bounds>>

(* rebase --abort, which resets every known file and refuses to overwrite   *)
(* an unknown one; then git pull, which refuses to choose between merge and *)
(* rebase for branches that have diverged.  Either error ends in a fetch,   *)
(* so that the merge and the second resolution below it are never reached. *)
Abort(t) ==
  /\ At(t, "abort")
  /\ IF Overwrites(TreeOf(orig))
     THEN UNCHANGED <<head, branch, detached, files, rebasing>>
     ELSE /\ head' = orig /\ branch' = orig /\ detached' = FALSE
          /\ tree' = CheckedOut(TreeOf(orig)) /\ stage' = TreeOf(orig) /\ unmerged' = {}
          /\ rebasing' = FALSE
  /\ tracked' = Fetched
  /\ Return(t)
  /\ UNCHANGED <<remote, online, recovery, tracking, recent, orig, pick, back, loop,
                 history, bounds>>

------------------------------------------------------------------------------
(* _push_to_remote *)

(* Reattach; without an upstream, fetch and repair it.  A failed fetch ends *)
(* the push.                                                               *)
StartPush(t) ==
  /\ At(t, "push")
  /\ EnsureBranch(t)
  /\ IF tracking \/ online THEN Goto(t, "send") /\ UNCHANGED <<back, loop>> ELSE EndWalk(t)
  /\ IF ~tracking /\ online
     THEN tracked' = remote /\ tracking' = Repaired(remote)
     ELSE UNCHANGED <<tracked, tracking>>
  /\ UNCHANGED <<remote, online, recent, files, replay, made, settled, theirs, bounds>>

(* With an upstream git pushes the branch that HEAD is on; off a branch     *)
(* there is nothing to push.                                               *)
Pushes   == online /\ (detached => ~tracking)
Accepted == Pushes /\ IsPrefix(remote, branch)

(* Mutant: a push that overwrites what it does not contain. *)
SendForced(t) ==
  /\ At(t, "send")
  /\ online
  /\ remote' = branch /\ tracked' = branch /\ tracking' = TRUE
  /\ EndWalk(t)
  /\ UNCHANGED <<online, refs, recent, files, replay, history, bounds>>

(* Mutant: a rejected push is given up. *)
SendOnce(t) ==
  /\ At(t, "send")
  /\ IF Accepted THEN remote' = branch /\ tracked' = branch /\ tracking' = TRUE
     ELSE UNCHANGED <<remote, tracked, tracking>>
  /\ EndWalk(t)
  /\ UNCHANGED <<online, refs, recent, files, replay, history, bounds>>

(* _push_and_verify: accepted; or rejected, then pull and once more, unless *)
(* it was to set the upstream; or without an answer, which is taken for a   *)
(* success.                                                                *)
Send(t) ==
  /\ At(t, "send")
  /\ IF Accepted THEN remote' = branch /\ tracked' = branch /\ tracking' = TRUE
     ELSE UNCHANGED <<remote, tracked, tracking>>
  /\ IF Pushes /\ ~Accepted /\ tracking
     THEN PullThen(t, "again") /\ UNCHANGED loop
     ELSE EndWalk(t)
  /\ UNCHANGED <<online, refs, recent, files, replay, history, bounds>>

(* The second push, after which the code gives up until the next walk. *)
SendAgain(t) ==
  /\ At(t, "again")
  /\ IF Accepted THEN remote' = branch /\ tracked' = branch
     ELSE UNCHANGED <<remote, tracked>>
  /\ EndWalk(t)
  /\ UNCHANGED <<online, refs, tracking, recent, files, replay, history, bounds>>

------------------------------------------------------------------------------

GitThread(t) ==
  \/ OpenRepo(t) \/ ConfigureRemote(t)
  \/ WalkDirty(t) \/ WalkClean(t) \/ WalkWithoutUpstream(t) \/ CommitAll(t)
  \/ PullFetch(t) \/ FastForward(t)
  \/ StartRebase(t) \/ PickClean(t) \/ PickStops(t) \/ FinishRebase(t)
  \/ Resolve(t) \/ (\E editor \in Editors : Continue(t, editor)) \/ Abort(t)
  \/ StartPush(t) \/ Send(t) \/ SendAgain(t)

Environment ==
  \/ \E f \in Own : \E v \in Texts \cup {None} : Write(f, v)
  \/ EmptyChange
  \/ \E f \in Files : \E v \in OtherTexts \cup {None} : OtherPush(f, v)
  \/ GoOffline \/ GoOnline \/ IntervalPasses \/ Crash

Next == Environment \/ \E t \in Threads : GitThread(t) \/ OpenForPass(t)

Spec == Init /\ [][Next]_vars

(* The threads go on, and an outage ends.  That there will be another       *)
(* change, which makes the timer walk, or another pass is not assumed here. *)
FairSpec ==
  /\ Spec
  /\ WF_vars(\E t \in Threads : GitThread(t))
  /\ WF_vars(GoOnline) /\ WF_vars(IntervalPasses)

------------------------------------------------------------------------------

(* Every variable keeps its type; outside a rebase HEAD is the branch, and  *)
(* the remote-tracking ref never knows of more than the remote has.         *)
TypeOK ==
  /\ \A h \in {remote, branch, head, tracked, orig} \cup recovery :
       \A i \in DOMAIN h : h[i] \in Commit
  /\ stage \in Tree /\ tree \in Tree /\ unmerged \subseteq Files
  /\ IsPrefix(tracked, remote)
  /\ ~detached => branch = head
  /\ detached => rebasing
  /\ \A t \in Threads :
       /\ Replaying(t) => rebasing /\ (detached \/ disturbed)
       /\ pc[t] \in {"start", "configure", "idle", "pull", "commit", "forward", "rebase", "pick",
                     "repick", "resolve", "continue", "abort", "push", "send", "again"}
       /\ back[t] \in {"configure", "commit", "again", "idle"}
  /\ settled \subseteq 0 .. made

(* Nobody's commits disappear from the remote: the mirror pushes without    *)
(* force, whatever it has rebased, reattached or found after a crash.       *)
RemoteOnlyGrows == [][IsPrefix(remote, remote')]_vars

(* What others push outside the mirror's files is what the remote has, and  *)
(* no commit of the mirror ever takes it back.                             *)
OutsideKept == \A f \in Outside : TreeOf(remote)[f] = theirs[f]

Recoverable ==
  \A n \in 1 .. made \ settled :
    \E h \in {remote, branch, head} \cup recovery : \E i \in DOMAIN h : h[i].n = n

(* Every commit of the mirror can be found: on the branch, on HEAD, at the  *)
(* remote or under a recovery name, unless a rebase has dropped it because  *)
(* nothing of it was left, or one thread has disturbed a rebase of the other. *)
CommitsRecoverable == ~disturbed => Recoverable

(* "Keeps both histories recoverable": the same without the last excuse.    *)
HistoriesRecoverable == Recoverable

(* A text with conflict markers gets into a commit only when a rebase has   *)
(* been left behind, because the process died in it or git refused to abort *)
(* it, or the other thread has stepped into it.                            *)
LeftBehind == rebasing /\ \A t \in Threads : ~Replaying(t)
MarkersNeedAnAccident ==
  ~disturbed /\ ~LeftBehind =>
    \A h \in {remote, branch} : \A i \in DOMAIN h : \A f \in Files : h[i].tree[f] # Markers

(* As long as changes keep coming, all that was written is committed and    *)
(* has arrived at the remote again and again, unless both sides have        *)
(* changed the same file or a crash has left a rebase behind.  That the     *)
(* files get what others push is not claimed: without a commit or a pass    *)
(* the mirror does not pull.                                                *)
Arrived == IsPrefix(branch, remote) /\ ~detached /\ ~Dirty
EventuallyPushed == []<>hasChanges => []<>(Arrived \/ Contended \/ rebasing)
==============================================================================
