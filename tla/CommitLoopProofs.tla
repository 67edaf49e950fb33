-------------------------- MODULE CommitLoopProofs --------------------------
(***************************************************************************)
(* The commit timer never forgets what was announced before its walk, for  *)
(* any number of repositories and any pattern of failures.                 *)
(***************************************************************************)
EXTENDS CommitLoop, TLAPS

Has(r) == head[r] >= asOf[r]

(* A repository that the walk has left behind is committed. *)
VisitedCommitted ==
  /\ step = "walk" => \A r \in Repos \ todo : Has(r)
  /\ step \in {"add", "commit", "push"} => \A r \in Repos \ (todo \cup {repo}) : Has(r)

(* What the commit will take, and what it has taken. *)
AtHand ==
  /\ step = "commit" => index[repo] >= asOf[repo]
  /\ step = "push" => Has(repo)

IInv == TypeOK /\ VisitedCommitted /\ AtHand

------------------------------------------------------------------------------

LEMMA InitGood == Init => IInv
<1> SUFFICES ASSUME Init PROVE IInv
  OBVIOUS
<1>1. /\ tree \in [Repos -> Nat] /\ index \in [Repos -> Nat]
      /\ head \in [Repos -> Nat] /\ pushed \in [Repos -> Nat]
      /\ announced \in [Repos -> Nat] /\ asOf \in [Repos -> Nat]
  BY DEF Init
<1>2. \A r \in Repos :
       /\ pushed[r] <= head[r] /\ head[r] <= index[r] /\ index[r] <= tree[r]
       /\ asOf[r] <= announced[r] /\ announced[r] <= tree[r]
  <2> TAKE r \in Repos
  <2>1. index[r] = 0 /\ head[r] = 0 /\ pushed[r] = 0 /\ announced[r] = 0 /\ asOf[r] = 0
    BY DEF Init
  <2>2. tree[r] \in Nat
    BY <1>1
  <2> QED
    BY <2>1, <2>2
<1>3. /\ worker \in SUBSET Repos
      /\ step \in {"asleep", "walk", "add", "commit", "push"}
      /\ caller \in {"startup", "timer"}
      /\ repo \in Repos /\ todo \subseteq Repos
      /\ failures \in Nat
  BY DEF Init, Idle
<1>4. hasChanges \in BOOLEAN /\ committedAny \in BOOLEAN
  BY DEF Init
<1>5. VisitedCommitted /\ AtHand
  BY DEF Init, VisitedCommitted, AtHand
<1> QED
  BY <1>1, <1>2, <1>3, <1>4, <1>5 DEF IInv, TypeOK

(* The worker changes the tree and the announcements, both forward. *)
LEMMA WorkerGood ==
  ASSUME IInv, NEW r \in Repos,
         StartChange(r) \/ WriteFile(r) \/ ChangeDone(r) \/ ChangeFails(r)
  PROVE  IInv'
<1> USE DEF git, commit, IInv
<1>1. CASE StartChange(r)
  BY <1>1 DEF StartChange, TypeOK, VisitedCommitted, AtHand, Has
<1>2. CASE WriteFile(r)
  BY <1>2 DEF WriteFile, TypeOK, VisitedCommitted, AtHand, Has
<1>3. CASE ChangeDone(r)
  BY <1>3 DEF ChangeDone, TypeOK, VisitedCommitted, AtHand, Has, Idle
<1>4. CASE ChangeFails(r)
  BY <1>4 DEF ChangeFails, Fails, TypeOK, VisitedCommitted, AtHand, Has, Idle
<1> QED
  BY <1>1, <1>2, <1>3, <1>4

LEMMA TickGood == IInv /\ Tick => IInv'
<1> SUFFICES ASSUME IInv, Tick PROVE IInv'
  OBVIOUS
<1>1. hasChanges' \in BOOLEAN /\ committedAny' \in BOOLEAN
  BY DEF Tick, IInv, TypeOK
<1>2. /\ UNCHANGED <<tree, index, head, pushed, announced, worker, caller, repo, failures>>
      /\ step' = "walk" /\ todo' = Repos /\ asOf' = announced
  BY DEF Tick, git
<1>3. TypeOK'
  BY <1>1, <1>2 DEF IInv, TypeOK
<1>4. VisitedCommitted' /\ AtHand'
  BY <1>2 DEF VisitedCommitted, AtHand
<1> QED
  BY <1>3, <1>4 DEF IInv

(* A repository that needs no commit already has what was announced. *)
LEMMA VisitGood ==
  ASSUME IInv, NEW r \in Repos, VisitRepo(r)
  PROVE  IInv'
<1>1. TypeOK'
  BY DEF VisitRepo, Fails, git, IInv, TypeOK
<1>2. ~Dirty(r) => Has(r)
  BY DEF Dirty, Has, IInv, TypeOK
<1>3. /\ step = "walk" /\ todo' = todo \ {r} /\ repo' = r
      /\ head' = head /\ asOf' = asOf /\ index' = index
      /\ step' \in {"walk", "add", "push"}
      /\ step' # "add" => ~Dirty(r)
  BY DEF VisitRepo, git
<1>4. VisitedCommitted'
  BY <1>2, <1>3 DEF VisitedCommitted, Has, IInv
<1>5. AtHand'
  BY <1>2, <1>3 DEF AtHand, Has
<1> QED
  BY <1>1, <1>4, <1>5 DEF IInv

LEMMA WalkGood ==
  ASSUME IInv, AddAll \/ CommitIndex \/ Push \/ EndWalk \/ WalkFails
  PROVE  IInv'
<1> USE DEF git, IInv
<1>1. CASE AddAll
  <2>1. tree[repo] >= asOf[repo]
    BY DEF TypeOK
  <2> QED
    BY <1>1, <2>1 DEF AddAll, TypeOK, VisitedCommitted, AtHand, Has
<1>2. CASE CommitIndex
  BY <1>2 DEF CommitIndex, TypeOK, VisitedCommitted, AtHand, Has
<1>3. CASE Push
  <2>1. TypeOK'
    BY <1>3 DEF Push, Fails, TypeOK
  <2>2. step = "push" /\ step' = "walk" /\ UNCHANGED <<head, asOf, todo, repo>>
    BY <1>3 DEF Push
  <2>3. VisitedCommitted' /\ AtHand'
    BY <2>2 DEF VisitedCommitted, AtHand, Has
  <2> QED
    BY <2>1, <2>3
<1>4. CASE EndWalk
  BY <1>4 DEF EndWalk, TypeOK, VisitedCommitted, AtHand
<1>5. CASE WalkFails
  BY <1>5 DEF WalkFails, Fails, TypeOK, VisitedCommitted, AtHand
<1> QED
  BY <1>1, <1>2, <1>3, <1>4, <1>5

LEMMA StepGood == IInv /\ [Next]_vars => IInv'
<1> SUFFICES ASSUME IInv, [Next]_vars PROVE IInv'
  OBVIOUS
<1>1. CASE UNCHANGED vars
  BY <1>1 DEF vars, git, commit, IInv, TypeOK, VisitedCommitted, AtHand, Has
<1> QED
  BY <1>1, WorkerGood, TickGood, VisitGood, WalkGood DEF Next, Worker, Walk

(* Only the end of a walk clears the flag, and then every repository has   *)
(* been left behind.                                                       *)
LEMMA ClearedIsCovered == IInv /\ [Next]_vars => Covered
<1> SUFFICES ASSUME IInv, [Next]_vars, hasChanges, ~hasChanges'
             PROVE  \A r \in Repos : head[r] >= asOf[r]
  BY DEF Covered
<1>1. EndWalk
  BY DEF Next, vars, git, commit, Worker, StartChange, WriteFile, ChangeDone, ChangeFails,
         Tick, Walk, VisitRepo, AddAll, CommitIndex, Push, WalkFails
<1> QED
  BY <1>1 DEF EndWalk, IInv, VisitedCommitted, Has

------------------------------------------------------------------------------

(* Content only moves forward: nothing is pushed that was not committed,   *)
(* nothing is committed that was not written.                              *)
THEOREM TypeCorrect == Spec => []TypeOK
<1>1. IInv => TypeOK
  BY DEF IInv
<1> QED
  BY <1>1, InitGood, StepGood, PTL DEF Spec

(* When the timer clears has_changes, every change that was announced      *)
(* before its walk began is committed in its repository.                   *)
THEOREM NothingAnnouncedIsForgotten == Spec => ClearedMeansCommitted
BY InitGood, StepGood, ClearedIsCovered, PTL DEF Spec, ClearedMeansCommitted
=============================================================================
