-------------------------- MODULE GitRemoteProofs --------------------------
(***************************************************************************)
(* What the git commands of the mirror preserve, for any files, any number *)
(* of pushes by others, and any interleaving of the two threads, crashes   *)
(* and outages: the remote only grows, nobody's files outside the prefix   *)
(* are taken back, the mirror's commits stay within reach, and conflict    *)
(* markers are committed only after an accident.                           *)
(***************************************************************************)
EXTENDS GitRemote, SequenceTheorems, FiniteSetTheorems, TLAPS

Hist == Seq(Commit)

Places  == {"start", "configure", "idle", "pull", "commit", "forward", "rebase", "pick",
            "repick", "resolve", "continue", "abort", "push", "send", "again"}
Returns == {"configure", "commit", "again", "idle"}

(* The numbers of the commits in a history.                                *)
Numbers(h) == {h[i].n : i \in DOMAIN h}

Typed ==
  /\ remote \in Hist /\ branch \in Hist /\ head \in Hist /\ tracked \in Hist /\ orig \in Hist
  /\ recovery \subseteq Hist
  /\ stage \in Tree /\ tree \in Tree /\ unmerged \subseteq Files
  /\ pc \in [Threads -> Places] /\ back \in [Threads -> Returns]
  /\ pick \in Nat
  /\ made \in Nat /\ settled \subseteq 0 .. made

(* The numbers in use are those given out.                                 *)
Numbered ==
  \A h \in {remote, branch, head, orig} : Numbers(h) \subseteq 0 .. made

(* Only one thread is in a rebase, and then HEAD is off the branch, unless *)
(* the other thread has put it back.                                       *)
OneRebase ==
  /\ \A s, t \in Threads : Replaying(s) /\ Replaying(t) => s = t
  /\ \A t \in Threads : Replaying(t) =>
       /\ rebasing /\ (detached \/ disturbed)
       /\ pick \in Nat \ {0}
       /\ pc[t] \in {"resolve", "continue"} => pick <= Len(orig)

Refs == (~detached => branch = head) /\ (detached => rebasing) /\ IsPrefix(tracked, remote)

Orderly == Typed /\ Numbered /\ OneRebase /\ Refs

(* A rebase that nobody has disturbed has the branch as it was, has put    *)
(* every commit before pick on HEAD or settled it, and has brought nothing *)
(* else to HEAD.                                                           *)
NothingDropped ==
  \A t \in Threads : Replaying(t) /\ ~disturbed =>
    /\ branch = orig
    /\ \A i \in DOMAIN orig : i < pick =>
         orig[i].n \in settled \cup Numbers(head) \cup Numbers(remote)
    /\ Numbers(head) \subseteq Numbers(remote) \cup Numbers(orig)

(* Up to its k-th commit h is what g has; from there it changes no file    *)
(* outside the prefix.                                                     *)
Parts(h, k, g) ==
  /\ k <= Len(h)
  /\ IsPrefix(Upto(h, k), g)
  /\ \A i \in k + 1 .. Len(h) : \A f \in Outside : h[i].tree[f] = TreeOf(Upto(h, k))[f]

(* The same of a rebase: every commit that is still to be picked leaves    *)
(* the files outside alone; and those are as HEAD has them, in the index   *)
(* and in the working tree.                                                *)
OutsideSynced ==
  /\ \A h \in {branch, head, orig} : \E k \in 0 .. Len(h) : Parts(h, k, remote)
  /\ \A t \in Threads : Replaying(t) => \E k \in 0 .. pick - 1 : Parts(orig, k, remote)
  /\ \A f \in Outside :
       f \notin unmerged /\ tree[f] = TreeOf(head)[f] /\ stage[f] = TreeOf(head)[f]

Unmarked(h) == \A i \in DOMAIN h : \A f \in Files : h[i].tree[f] # Markers

(* Markers are in the working tree only while a conflict waits for its     *)
(* resolution, where neither side has deleted the file, or for the abort.  *)
Awaits(t, f) ==
  \/ pc[t] = "abort"
  \/ pc[t] = "resolve" /\ Ours3[f] # None /\ Theirs3[f] # None

Clean ==
  /\ \A h \in {remote, branch, head, orig} : Unmarked(h)
  /\ \A f \in Files : stage[f] # Markers
  /\ \A f \in Files : tree[f] = Markers => f \in unmerged /\ \E t \in Threads : Awaits(t, f)

MarkersResolved == ~disturbed /\ ~LeftBehind => Clean

------------------------------------------------------------------------------
(* Histories. *)

(* A prefix is shorter and agrees on its positions.                        *)
LEMMA PrefixMeaning ==
  ASSUME NEW S, NEW g \in Seq(S), NEW h \in Seq(S)
  PROVE  IsPrefix(g, h) <=> Len(g) <= Len(h) /\ \A i \in 1 .. Len(g) : g[i] = h[i]
<1>1. Len(g) \in Nat /\ Len(h) \in Nat
  BY LenProperties
<1>2. SubSeq(g, 1, Len(g)) = g
  BY SubSeqFull
<1>3. ASSUME Len(g) <= Len(h)
      PROVE  /\ SubSeq(h, 1, Len(g)) \in Seq(S)
             /\ Len(SubSeq(h, 1, Len(g))) = Len(g)
             /\ \A i \in 1 .. Len(g) : SubSeq(h, 1, Len(g))[i] = h[i]
  <2>1. \A i \in 1 .. Len(g) : h[i] \in S
    BY <1>1, <1>3, ElementOfSeq
  <2>2. /\ SubSeq(h, 1, Len(g)) \in Seq(S)
        /\ Len(SubSeq(h, 1, Len(g))) = IF 1 <= Len(g) THEN Len(g) - 1 + 1 ELSE 0
        /\ \A i \in 1 .. Len(g) - 1 + 1 : SubSeq(h, 1, Len(g))[i] = h[1 + i - 1]
    BY <1>1, <2>1, SubSeqProperties
  <2> QED
    BY <1>1, <2>2
<1>4. ASSUME Len(g) <= Len(h), \A i \in 1 .. Len(g) : g[i] = h[i]
      PROVE  g = SubSeq(h, 1, Len(g))
  BY <1>3, <1>4, SeqEqual
<1> QED
  BY <1>2, <1>3, <1>4 DEF IsPrefix

LEMMA PrefixReflexive ==
  ASSUME NEW S, NEW h \in Seq(S)
  PROVE  IsPrefix(h, h)
BY PrefixMeaning, LenProperties

LEMMA PrefixTransitive ==
  ASSUME NEW S, NEW f \in Seq(S), NEW g \in Seq(S), NEW h \in Seq(S),
         IsPrefix(f, g), IsPrefix(g, h)
  PROVE  IsPrefix(f, h)
<1>1. Len(f) \in Nat /\ Len(g) \in Nat /\ Len(h) \in Nat
  BY LenProperties
<1>2. Len(f) <= Len(g) /\ \A i \in 1 .. Len(f) : f[i] = g[i]
  BY PrefixMeaning
<1>3. Len(g) <= Len(h) /\ \A i \in 1 .. Len(g) : g[i] = h[i]
  BY PrefixMeaning
<1>4. Len(f) <= Len(h) /\ \A i \in 1 .. Len(f) : f[i] = h[i]
  BY <1>1, <1>2, <1>3
<1> QED
  BY <1>4, PrefixMeaning

LEMMA AppendExtends ==
  ASSUME NEW S, NEW h \in Seq(S), NEW c \in S
  PROVE  Append(h, c) \in Seq(S) /\ IsPrefix(h, Append(h, c))
<1>1. /\ Append(h, c) \in Seq(S)
      /\ Len(Append(h, c)) = Len(h) + 1
      /\ \A i \in 1 .. Len(h) : Append(h, c)[i] = h[i]
  BY AppendProperties
<1>2. Len(h) <= Len(Append(h, c)) /\ \A i \in 1 .. Len(h) : h[i] = Append(h, c)[i]
  BY <1>1, LenProperties
<1> QED
  BY <1>1, <1>2, PrefixMeaning

LEMMA UptoType ==
  ASSUME NEW h \in Hist, NEW i \in 0 .. Len(h)
  PROVE  /\ Upto(h, i) \in Hist /\ Len(Upto(h, i)) = i
         /\ \A j \in 1 .. i : Upto(h, i)[j] = h[j]
<1>1. Len(h) \in Nat
  BY LenProperties DEF Hist
<1>2. \A j \in 1 .. i : h[j] \in Commit
  BY <1>1, ElementOfSeq DEF Hist
<1>3. /\ Upto(h, i) \in Hist
      /\ Len(Upto(h, i)) = IF 1 <= i THEN i - 1 + 1 ELSE 0
      /\ \A j \in 1 .. i - 1 + 1 : Upto(h, i)[j] = h[1 + j - 1]
  BY <1>1, <1>2, SubSeqProperties DEF Upto, Hist
<1> QED
  BY <1>1, <1>3

LEMMA HistType ==
  ASSUME NEW h \in Hist
  PROVE  /\ Len(h) \in Nat /\ DOMAIN h = 1 .. Len(h)
         /\ \A i \in DOMAIN h : h[i] \in Commit
         /\ (h = <<>>) <=> (Len(h) = 0)
BY LenProperties, ElementOfSeq, EmptySeq DEF Hist

(* The tree of a history is that of its last commit, or empty.             *)
LEMMA TreeOfType ==
  ASSUME NEW h \in Hist
  PROVE  TreeOf(h) \in Tree
<1>1. Empty \in Tree
  BY DEF Empty, Tree, Text
<1>2. CASE h = <<>>
  BY <1>1, <1>2 DEF TreeOf
<1>3. CASE h # <<>>
  <2>1. h[Len(h)] \in Commit
    BY <1>3, HistType
  <2> QED
    BY <1>3, <2>1 DEF TreeOf, Last, Commit
<1> QED
  BY <1>2, <1>3

LEMMA TreeOfUpto ==
  ASSUME NEW h \in Hist, NEW i \in 1 .. Len(h)
  PROVE  TreeOf(Upto(h, i)) = h[i].tree
<1>1. i \in 0 .. Len(h) /\ i \in Nat \ {0}
  BY HistType
<1>2. /\ Upto(h, i) \in Hist /\ Len(Upto(h, i)) = i
      /\ Upto(h, i)[i] = h[i]
  BY <1>1, UptoType
<1>3. Upto(h, i) # <<>>
  BY <1>1, <1>2, HistType
<1> QED
  BY <1>2, <1>3 DEF TreeOf, Last

(* One more commit.                                                        *)
LEMMA AppendCommit ==
  ASSUME NEW h \in Hist, NEW c \in Commit
  PROVE  /\ Append(h, c) \in Hist
         /\ IsPrefix(h, Append(h, c))
         /\ Numbers(Append(h, c)) = Numbers(h) \cup {c.n}
         /\ TreeOf(Append(h, c)) = c.tree
         /\ Len(Append(h, c)) = Len(h) + 1
         /\ Append(h, c)[Len(h) + 1] = c
         /\ \A i \in 1 .. Len(h) : Append(h, c)[i] = h[i]
<1> DEFINE a == Append(h, c)
<1>1. /\ a \in Hist /\ Len(a) = Len(h) + 1
      /\ \A i \in 1 .. Len(h) : a[i] = h[i]
      /\ a[Len(h) + 1] = c
  BY AppendProperties DEF Hist
<1>2. IsPrefix(h, a)
  BY AppendExtends DEF Hist
<1>3. Len(h) \in Nat /\ DOMAIN h = 1 .. Len(h) /\ DOMAIN a = 1 .. Len(h) + 1
  BY <1>1, HistType
<1>4. Numbers(a) = Numbers(h) \cup {c.n}
  <2> HIDE DEF a
  <2> QED
    BY <1>1, <1>3 DEF Numbers
<1>5. a # <<>>
  BY <1>1, <1>3, HistType
<1>6. TreeOf(a) = c.tree
  BY <1>1, <1>5 DEF TreeOf, Last
<1> QED
  BY <1>1, <1>2, <1>4, <1>6

LEMMA PrefixNumbers ==
  ASSUME NEW g \in Hist, NEW h \in Hist, IsPrefix(g, h)
  PROVE  Numbers(g) \subseteq Numbers(h)
<1>1. Len(g) <= Len(h) /\ \A i \in 1 .. Len(g) : g[i] = h[i]
  BY PrefixMeaning DEF Hist
<1>2. /\ Len(g) \in Nat /\ DOMAIN g = 1 .. Len(g)
      /\ Len(h) \in Nat /\ DOMAIN h = 1 .. Len(h)
  BY HistType
<1> QED
  BY <1>1, <1>2 DEF Numbers

(* Fork counts the commits that g and h have in common.                    *)
LEMMA ForkMeaning ==
  ASSUME NEW g \in Hist, NEW h \in Hist
  PROVE  /\ Fork(g, h) \in Nat /\ Fork(g, h) <= Len(g)
         /\ \A k \in 0 .. Len(g) : IsPrefix(Upto(g, k), h) <=> k <= Fork(g, h)
<1> DEFINE common == {i \in DOMAIN g : IsPrefix(Upto(g, i), h)}
<1>1. /\ Len(g) \in Nat /\ DOMAIN g = 1 .. Len(g)
      /\ Len(h) \in Nat
  BY HistType
<1>2. IsFiniteSet(1 .. Len(g)) /\ Cardinality(1 .. Len(g)) = Len(g)
  <2>1. 1 \in Int /\ Len(g) \in Int
    BY <1>1
  <2>2. /\ IsFiniteSet(1 .. Len(g))
        /\ Cardinality(1 .. Len(g)) = IF 1 > Len(g) THEN 0 ELSE Len(g) - 1 + 1
    BY <2>1, FS_Interval
  <2> QED
    BY <1>1, <2>2
<1>3. /\ IsFiniteSet(common) /\ Cardinality(common) \in Nat
      /\ Cardinality(common) <= Len(g)
  BY <1>1, <1>2, FS_Subset, FS_CardinalityType
<1>4. \A i \in common : \A j \in 1 .. i : j \in common
  <2> TAKE i \in common
  <2> TAKE j \in 1 .. i
  <2>1. i \in 0 .. Len(g) /\ j \in 0 .. Len(g) /\ i \in Nat /\ j \in Nat /\ j <= i
    BY <1>1
  <2>2. /\ Upto(g, i) \in Hist /\ Len(Upto(g, i)) = i /\ \A l \in 1 .. i : Upto(g, i)[l] = g[l]
        /\ Upto(g, j) \in Hist /\ Len(Upto(g, j)) = j /\ \A l \in 1 .. j : Upto(g, j)[l] = g[l]
    BY <2>1, UptoType
  <2>3. i <= Len(h) /\ \A l \in 1 .. i : g[l] = h[l]
    BY <2>2, PrefixMeaning DEF Hist
  <2>4. IsPrefix(Upto(g, j), h)
    <3>1. j <= Len(h) /\ \A l \in 1 .. j : Upto(g, j)[l] = h[l]
      BY <1>1, <2>1, <2>2, <2>3
    <3> QED
      BY <2>2, <3>1, PrefixMeaning DEF Hist
  <2> QED
    BY <1>1, <2>1, <2>4
<1>5. \A i \in common : i <= Cardinality(common)
  <2> TAKE i \in common
  <2>1. i \in Nat /\ 1 .. i \subseteq common
    BY <1>1, <1>4
  <2>2. Cardinality(1 .. i) = i
    <3>1. 1 \in Int /\ i \in Int /\ i >= 1
      BY <1>1, <2>1
    <3>2. Cardinality(1 .. i) = IF 1 > i THEN 0 ELSE i - 1 + 1
      BY <3>1, FS_Interval
    <3> QED
      BY <3>1, <3>2
  <2> QED
    BY <1>3, <2>1, <2>2, FS_Subset
<1>6. \A i \in 1 .. Len(g) : i <= Cardinality(common) => i \in common
  <2> SUFFICES ASSUME NEW i \in 1 .. Len(g), i \notin common PROVE Cardinality(common) < i
    BY <1>3
  <2>1. i \in Nat /\ common \subseteq 1 .. i - 1
    BY <1>1, <1>4
  <2>2. IsFiniteSet(1 .. i - 1) /\ Cardinality(1 .. i - 1) = i - 1
    <3>1. 1 \in Int /\ i - 1 \in Int /\ i >= 1
      BY <1>1, <2>1
    <3>2. /\ IsFiniteSet(1 .. i - 1)
          /\ Cardinality(1 .. i - 1) = IF 1 > i - 1 THEN 0 ELSE i - 1 - 1 + 1
      BY <3>1, FS_Interval
    <3> QED
      BY <3>1, <3>2
  <2>3. Cardinality(common) <= i - 1
    BY <2>1, <2>2, FS_Subset
  <2> QED
    BY <1>3, <2>1, <2>3
<1>7. IsPrefix(Upto(g, 0), h)
  <2>1. Upto(g, 0) \in Hist /\ Len(Upto(g, 0)) = 0
    BY <1>1, UptoType, 0 \in 0 .. Len(g)
  <2> QED
    BY <1>1, <2>1, PrefixMeaning DEF Hist
<1>8. ASSUME NEW k \in 0 .. Len(g)
      PROVE  IsPrefix(Upto(g, k), h) <=> k <= Cardinality(common)
  <2>1. CASE k = 0
    BY <1>3, <1>7, <2>1
  <2>2. CASE k # 0
    <3>1. k \in DOMAIN g
      BY <1>1, <2>2
    <3> QED
      BY <1>1, <1>5, <1>6, <3>1
  <2> QED
    BY <2>1, <2>2
<1> QED
  BY <1>3, <1>8 DEF Fork

------------------------------------------------------------------------------
(* The actions, grouped by what they do to the histories. *)

(* A thread goes on to a place outside a rebase, or stays outside.         *)
Elsewhere(t) ==
  /\ pc' \in [Threads -> Places] /\ back' \in [Threads -> Returns]
  /\ pc'[t] \notin {"pick", "repick", "resolve", "continue", "abort"}
  /\ \A s \in Threads \ {t} : pc'[s] = pc[s]

(* Between rebases a thread reattaches HEAD and may fetch.                 *)
Reattaches(t) ==
  /\ ~Replaying(t) /\ Turn(t) /\ EnsureBranch(t) /\ Elsewhere(t)
  /\ tracked' \in {tracked, remote}
  /\ UNCHANGED <<remote, files, replay, made, settled, theirs>>

(* A thread does no more than fetch, or push what the remote accepts.      *)
Exchanges(t) ==
  /\ ~Replaying(t) /\ Elsewhere(t)
  /\ \/ remote' = remote /\ tracked' \in {tracked, remote}
     \/ IsPrefix(remote, branch) /\ remote' = branch /\ tracked' = branch
  /\ UNCHANGED <<refs, files, replay, made, settled, theirs, disturbed>>

(* Only memory and bounds change, or the network.                          *)
Unseen ==
  /\ \/ UNCHANGED control
     \/ /\ \A t \in Threads : ~Replaying(t)'
        /\ pc' \in [Threads -> Places] /\ back' \in [Threads -> Returns]
  /\ UNCHANGED <<remote, refs, tracked, files, replay, made, settled, theirs, disturbed>>

LEMMA GotoMeaning ==
  ASSUME Typed, NEW t \in Threads, NEW place \in Places, Goto(t, place)
  PROVE  /\ pc' \in [Threads -> Places] /\ pc'[t] = place
         /\ \A s \in Threads \ {t} : pc'[s] = pc[s]
BY DEF Typed, Goto

LEMMA ReturnMeaning ==
  ASSUME Typed, NEW t \in Threads, Return(t), UNCHANGED back
  PROVE  Elsewhere(t) /\ pc'[t] \in Returns
<1>1. back[t] \in Returns /\ back' \in [Threads -> Returns]
  BY DEF Typed
<1>2. back[t] \in Places
  BY <1>1 DEF Returns, Places
<1>3. /\ pc' \in [Threads -> Places] /\ pc'[t] = back[t]
      /\ \A s \in Threads \ {t} : pc'[s] = pc[s]
  BY <1>2, GotoMeaning DEF Return
<1> QED
  BY <1>1, <1>3 DEF Elsewhere, Returns

LEMMA PullThenMeaning ==
  ASSUME Typed, NEW t \in Threads, NEW place \in Returns, PullThen(t, place)
  PROVE  Elsewhere(t)
<1>1. back' \in [Threads -> Returns]
  BY DEF Typed, PullThen
<1>2. "pull" \in Places
  BY DEF Places
<1>3. /\ pc' \in [Threads -> Places] /\ pc'[t] = "pull"
      /\ \A s \in Threads \ {t} : pc'[s] = pc[s]
  BY <1>2, GotoMeaning DEF PullThen
<1> QED
  BY <1>1, <1>3 DEF Elsewhere

LEMMA GotoOutside ==
  ASSUME Typed, NEW t \in Threads, UNCHANGED back,
         NEW place \in {"start", "configure", "idle", "pull", "commit", "forward", "rebase",
                        "push", "send", "again"},
         Goto(t, place)
  PROVE  Elsewhere(t)
<1>1. place \in Places
  BY DEF Places
<1> QED
  BY <1>1, GotoMeaning DEF Elsewhere, Typed

LEMMA EndWalkOutside ==
  ASSUME Typed, NEW t \in Threads, EndWalk(t)
  PROVE  Elsewhere(t)
BY GotoOutside DEF EndWalk

LEMMA ReattachesWhen ==
  ASSUME Typed, NEW t \in Threads,
         \/ OpenRepo(t) \/ OpenForPass(t) \/ ConfigureRemote(t)
         \/ WalkDirty(t) \/ WalkClean(t) \/ WalkWithoutUpstream(t)
         \/ PullFetch(t) \/ StartPush(t)
  PROVE  Reattaches(t)
<1> USE DEF files, replay, upstream, bounds
<1>1. CASE OpenRepo(t)
  <2>1. Elsewhere(t)
    BY <1>1, PullThenMeaning DEF OpenRepo, Returns
  <2> QED
    BY <1>1, <2>1 DEF OpenRepo, At, Replaying, Reattaches
<1>2. CASE OpenForPass(t)
  <2>1. Elsewhere(t)
    BY <1>2, PullThenMeaning DEF OpenForPass, Returns
  <2> QED
    BY <1>2, <2>1 DEF OpenForPass, At, Replaying, Reattaches
<1>3. CASE ConfigureRemote(t)
  <2>1. Elsewhere(t)
    BY <1>3, GotoOutside DEF ConfigureRemote
  <2> QED
    BY <1>3, <2>1 DEF ConfigureRemote, At, Replaying, Reattaches
<1>4. CASE WalkDirty(t)
  <2>1. Elsewhere(t)
    BY <1>4, PullThenMeaning DEF WalkDirty, Returns
  <2> QED
    BY <1>4, <2>1 DEF WalkDirty, BeginWalk, At, Replaying, Reattaches
<1>5. CASE WalkClean(t)
  <2>1. Elsewhere(t)
    BY <1>5, GotoOutside DEF WalkClean, PushUnless
  <2> QED
    BY <1>5, <2>1 DEF WalkClean, BeginWalk, At, Replaying, Reattaches
<1>6. CASE WalkWithoutUpstream(t)
  <2>1. Elsewhere(t)
    <3>1. \E place \in {"idle", "push"} : Goto(t, place)
      BY <1>6 DEF WalkWithoutUpstream, PushUnless
    <3> QED
      BY <1>6, <3>1, GotoOutside DEF WalkWithoutUpstream, PushUnless
  <2> QED
    BY <1>6, <2>1 DEF WalkWithoutUpstream, BeginWalk, At, Replaying, Reattaches, Fetched
<1>7. CASE PullFetch(t)
  <2>1. Elsewhere(t)
    <3>1. CASE Return(t)
      BY <1>7, <3>1, ReturnMeaning DEF PullFetch
    <3>2. CASE ~Return(t)
      <4>1. Goto(t, "forward") \/ Goto(t, "rebase")
        BY <1>7, <3>2 DEF PullFetch, Return
      <4> QED
        BY <1>7, <4>1, GotoOutside DEF PullFetch
    <3> QED
      BY <3>1, <3>2
  <2> QED
    BY <1>7, <2>1 DEF PullFetch, At, Replaying, Reattaches
<1>8. CASE StartPush(t)
  <2>1. Elsewhere(t)
    BY <1>8, GotoOutside, EndWalkOutside DEF StartPush
  <2> QED
    BY <1>8, <2>1 DEF StartPush, At, Replaying, Reattaches
<1> QED
  BY <1>1, <1>2, <1>3, <1>4, <1>5, <1>6, <1>7, <1>8

LEMMA ExchangesWhen ==
  ASSUME Typed, NEW t \in Threads, Send(t) \/ SendAgain(t)
  PROVE  Exchanges(t)
<1> USE DEF files, replay, upstream, bounds, refs, history
<1>1. CASE Send(t)
  <2>1. Elsewhere(t)
    BY <1>1, PullThenMeaning, EndWalkOutside DEF Send, Returns
  <2> QED
    BY <1>1, <2>1 DEF Send, At, Replaying, Exchanges, Accepted
<1>2. CASE SendAgain(t)
  <2>1. Elsewhere(t)
    BY <1>2, EndWalkOutside DEF SendAgain
  <2> QED
    BY <1>2, <2>1 DEF SendAgain, At, Replaying, Exchanges, Accepted
<1> QED
  BY <1>1, <1>2

LEMMA UnseenWhen ==
  ASSUME Typed,
         EmptyChange \/ GoOffline \/ GoOnline \/ IntervalPasses \/ Crash \/ UNCHANGED vars
  PROVE  Unseen
<1> USE DEF files, replay, upstream, bounds, refs, history, control
<1>1. CASE Crash
  <2>1. pc' \in [Threads -> Places] /\ back' \in [Threads -> Returns]
    BY <1>1 DEF Crash, Places, Returns
  <2>2. \A t \in Threads : ~Replaying(t)'
    BY <1>1 DEF Crash, Replaying
  <2> QED
    BY <1>1, <2>1, <2>2 DEF Crash, Unseen
<1>2. CASE EmptyChange
  BY <1>2 DEF EmptyChange, Unseen
<1>3. CASE GoOffline \/ GoOnline \/ IntervalPasses
  BY <1>3 DEF GoOffline, GoOnline, IntervalPasses, Unseen
<1>4. CASE UNCHANGED vars
  BY <1>4 DEF vars, Unseen
<1> QED
  BY <1>1, <1>2, <1>3, <1>4

------------------------------------------------------------------------------
(* Typing, and the shape of a rebase. *)

(* A thread that moves HEAD in its turn disturbs every rebase there is.    *)
LEMMA MovesHeadMeaning ==
  ASSUME NEW t \in Threads, MovesHead(t), Turn(t)
  PROVE  /\ disturbed => disturbed'
         /\ \A s \in Threads \ {t} : Replaying(s) => disturbed'
BY DEF MovesHead, Turn, Replaying

LEMMA EnsureBranchMeaning ==
  ASSUME NEW t \in Threads, EnsureBranch(t), Turn(t)
  PROVE  /\ branch' = head /\ head' = head /\ ~detached'
         /\ recovery \subseteq recovery' /\ recovery' \subseteq recovery \cup {branch}
         /\ detached /\ branch # head => branch \in recovery'
         /\ disturbed => disturbed'
         /\ detached => \A s \in Threads \ {t} : Replaying(s) => disturbed'
<1>1. CASE detached
  BY <1>1, MovesHeadMeaning DEF EnsureBranch
<1>2. CASE ~detached
  BY <1>2 DEF EnsureBranch
<1> QED
  BY <1>1, <1>2

(* While the other thread is elsewhere, a rebase stays as it is.           *)
LEMMA RebaseElsewhere ==
  ASSUME OneRebase, NEW t \in Threads, Elsewhere(t), UNCHANGED <<rebasing, orig, pick>>,
         disturbed => disturbed',
         \A s \in Threads \ {t} : Replaying(s) /\ detached /\ ~detached' => disturbed'
  PROVE  OneRebase'
BY DEF OneRebase, Elsewhere, Replaying

LEMMA InitOrderly == Init => Orderly
<1> SUFFICES ASSUME Init PROVE Orderly
  OBVIOUS
<1>1. <<>> \in Hist /\ First \in Hist /\ Base \in Hist
  <2>1. Empty \in Tree
    BY DEF Empty, Tree, Text
  <2>2. [f \in Files |-> IF f \in Own THEN CHOOSE t \in Texts : TRUE
                                      ELSE CHOOSE t \in OtherTexts : TRUE] \in Tree
    <3>1. (CHOOSE t \in Texts : TRUE) \in Texts /\ (CHOOSE t \in OtherTexts : TRUE) \in OtherTexts
      BY GitAssumption
    <3> QED
      BY <3>1 DEF Tree, Text
  <2>3. [n |-> 0, tree |-> Empty] \in Commit /\ Base[1] \in Commit
    BY <2>1, <2>2 DEF Commit, Base
  <2> QED
    BY <2>3, EmptySeq DEF Hist, First, Base
<1>2. Numbers(<<>>) \subseteq 0 .. 0 /\ Numbers(First) \subseteq 0 .. 0 /\ Numbers(Base) \subseteq 0 .. 0
  BY DEF Numbers, First, Base
<1>3. /\ remote \in {<<>>, First, Base} /\ head \in {First, Base} /\ branch = head
      /\ orig = <<>> /\ recovery = {} /\ made = 0 /\ settled = {} /\ pick = 0
      /\ tracked = remote \/ tracked = <<>>
  BY DEF Init
<1>4. /\ remote \in Hist /\ branch \in Hist /\ head \in Hist /\ tracked \in Hist /\ orig \in Hist
      /\ recovery \subseteq Hist
  BY <1>1, <1>3
<1>5. stage \in Tree /\ tree \in Tree /\ unmerged \subseteq Files
  BY <1>4, TreeOfType DEF Init
<1>6. pc \in [Threads -> Places] /\ back \in [Threads -> Returns] /\ \A t \in Threads : ~Replaying(t)
  BY DEF Init, Places, Returns, Replaying
<1>7. Typed
  BY <1>3, <1>4, <1>5, <1>6 DEF Typed
<1>8. Numbered
  BY <1>2, <1>3 DEF Numbered
<1>9. Refs
  <2>1. IsPrefix(tracked, remote)
    <3>1. CASE tracked = remote
      BY <1>4, <3>1, PrefixReflexive DEF Hist
    <3>2. CASE tracked = <<>>
      <4>1. Len(tracked) = 0 /\ Len(remote) \in Nat
        BY <1>4, <3>2, HistType
      <4>2. Len(tracked) <= Len(remote) /\ \A i \in 1 .. Len(tracked) : tracked[i] = remote[i]
        BY <4>1
      <4> QED
        BY <1>4, <4>2, PrefixMeaning DEF Hist
    <3> QED
      BY <1>3, <3>1, <3>2
  <2> QED
    BY <2>1 DEF Init, Refs
<1> QED
  BY <1>6, <1>7, <1>8, <1>9 DEF Orderly, OneRebase

LEMMA UnseenOrderly == Orderly /\ Unseen => Orderly'
<1> SUFFICES ASSUME Orderly, Unseen PROVE Orderly'
  OBVIOUS
<1>1. Typed' /\ Numbered' /\ Refs'
  BY DEF Orderly, Unseen, Typed, Numbered, Refs, refs, files, replay, control
<1>2. OneRebase'
  BY DEF Orderly, Unseen, OneRebase, Replaying, refs, replay, control
<1> QED
  BY <1>1, <1>2 DEF Orderly

LEMMA ReattachesOrderly ==
  ASSUME Orderly, NEW t \in Threads, Reattaches(t)
  PROVE  Orderly'
<1>1. /\ branch' = head /\ head' = head /\ ~detached'
      /\ recovery' \subseteq recovery \cup {branch}
      /\ disturbed => disturbed'
      /\ detached => \A s \in Threads \ {t} : Replaying(s) => disturbed'
  BY EnsureBranchMeaning DEF Reattaches
<1>2. /\ Elsewhere(t) /\ tracked' \in {tracked, remote}
      /\ UNCHANGED <<remote, stage, tree, unmerged, rebasing, orig, pick, made, settled>>
  BY DEF Reattaches, files, replay
<1>3. Typed'
  BY <1>1, <1>2 DEF Orderly, Typed, Elsewhere
<1>4. Numbered'
  BY <1>1, <1>2 DEF Orderly, Numbered
<1>5. Refs'
  BY <1>1, <1>2, PrefixReflexive DEF Orderly, Typed, Refs, Hist
<1>6. OneRebase'
  BY <1>1, <1>2, RebaseElsewhere DEF Orderly
<1> QED
  BY <1>3, <1>4, <1>5, <1>6 DEF Orderly

LEMMA ExchangesOrderly ==
  ASSUME Orderly, NEW t \in Threads, Exchanges(t)
  PROVE  Orderly'
<1>1. /\ Elsewhere(t)
      /\ remote' \in {remote, branch} /\ tracked' \in {tracked, remote, branch}
      /\ UNCHANGED <<branch, head, detached, recovery, stage, tree, unmerged, rebasing, orig,
                     pick, made, settled, disturbed>>
  BY DEF Exchanges, refs, files, replay
<1>2. Typed'
  BY <1>1 DEF Orderly, Typed, Elsewhere
<1>3. Numbered'
  BY <1>1 DEF Orderly, Numbered
<1>4. IsPrefix(tracked', remote')
  BY PrefixReflexive DEF Exchanges, Orderly, Typed, Refs, Hist
<1>5. OneRebase'
  BY <1>1, RebaseElsewhere DEF Orderly
<1> QED
  BY <1>1, <1>2, <1>3, <1>4, <1>5 DEF Orderly, Refs

LEMMA WriteOrderly ==
  ASSUME Orderly, NEW f \in Own, NEW v \in Texts \cup {None}, Write(f, v)
  PROVE  Orderly'
<1>1. /\ tree' = [tree EXCEPT ![f] = v]
      /\ UNCHANGED <<remote, branch, head, detached, recovery, tracked, stage, unmerged,
                     rebasing, orig, pick, pc, back, made, settled, disturbed>>
  BY DEF Write, refs, upstream, replay, control, history
<1>2. tree' \in Tree
  BY <1>1 DEF Orderly, Typed, Tree, Text
<1> QED
  BY <1>1, <1>2 DEF Orderly, Typed, Numbered, OneRebase, Refs, Replaying

LEMMA OtherPushOrderly ==
  ASSUME Orderly, NEW f \in Files, NEW v \in OtherTexts \cup {None}, OtherPush(f, v)
  PROVE  Orderly'
<1> DEFINE c == [n |-> 0, tree |-> [TreeOf(remote) EXCEPT ![f] = v]]
<1>1. /\ remote' = Append(remote, c)
      /\ UNCHANGED <<branch, head, detached, recovery, tracked, stage, tree, unmerged,
                     rebasing, orig, pick, pc, back, made, settled, disturbed>>
  BY DEF OtherPush, refs, upstream, files, replay, control
<1>2. c \in Commit
  <2>1. TreeOf(remote) \in Tree
    BY TreeOfType DEF Orderly, Typed
  <2>2. [TreeOf(remote) EXCEPT ![f] = v] \in Tree
    BY <2>1 DEF Tree, Text
  <2> QED
    BY <2>2 DEF Commit
<1>3. /\ remote' \in Hist /\ IsPrefix(remote, remote')
      /\ Numbers(remote') = Numbers(remote) \cup {0}
  BY <1>1, <1>2, AppendCommit DEF Orderly, Typed
<1>4. Typed'
  BY <1>1, <1>3 DEF Orderly, Typed
<1>5. Numbered'
  <2>1. 0 \in 0 .. made
    BY DEF Orderly, Typed
  <2> QED
    BY <1>1, <1>3, <2>1 DEF Orderly, Numbered
<1>6. Refs'
  <2>1. IsPrefix(tracked, remote')
    BY <1>3, PrefixTransitive DEF Orderly, Typed, Refs, Hist
  <2> QED
    BY <1>1, <2>1 DEF Orderly, Refs
<1> QED
  BY <1>1, <1>4, <1>5, <1>6 DEF Orderly, OneRebase, Replaying

(* CommitAll puts one commit with the next number on HEAD.                 *)
LEMMA CommitAllMeaning ==
  ASSUME Orderly, NEW t \in Threads, CommitAll(t)
  PROVE  /\ Elsewhere(t) /\ Turn(t) /\ ~Replaying(t)
         /\ head' \in Hist /\ IsPrefix(head, head')
         /\ Numbers(head') = Numbers(head) \cup {made + 1} /\ TreeOf(head') = tree
         /\ branch' = IF detached THEN branch ELSE head'
         /\ stage' = tree /\ unmerged' = {} /\ made' = made + 1
         /\ disturbed => disturbed'
         /\ \A s \in Threads \ {t} : Replaying(s) => disturbed'
         /\ UNCHANGED <<remote, detached, recovery, tracked, tree, rebasing, orig, pick, settled>>
<1>1. [n |-> made + 1, tree |-> tree] \in Commit
  BY DEF Orderly, Typed, Commit
<1>2. /\ head' \in Hist /\ IsPrefix(head, head')
      /\ Numbers(head') = Numbers(head) \cup {made + 1} /\ TreeOf(head') = tree
  BY <1>1, AppendCommit DEF Orderly, Typed, CommitAll
<1>3. Elsewhere(t)
  BY GotoOutside DEF Orderly, CommitAll
<1>4. /\ disturbed => disturbed'
      /\ \A s \in Threads \ {t} : Replaying(s) => disturbed'
  BY MovesHeadMeaning DEF CommitAll, At
<1> QED
  BY <1>2, <1>3, <1>4 DEF CommitAll, At, Replaying, upstream, replay

LEMMA CommitAllOrderly ==
  ASSUME Orderly, NEW t \in Threads, CommitAll(t)
  PROVE  Orderly'
<1>1. /\ Elsewhere(t)
      /\ head' \in Hist
      /\ Numbers(head') = Numbers(head) \cup {made + 1}
      /\ branch' = IF detached THEN branch ELSE head'
      /\ stage' = tree /\ unmerged' = {} /\ made' = made + 1
      /\ disturbed => disturbed'
      /\ UNCHANGED <<remote, detached, recovery, tracked, tree, rebasing, orig, pick, settled>>
  BY CommitAllMeaning
<1>2. made \in Nat /\ 0 .. made \subseteq 0 .. made' /\ made + 1 \in 0 .. made'
  BY <1>1 DEF Orderly, Typed
<1>3. Typed'
  BY <1>1, <1>2 DEF Orderly, Typed, Elsewhere
<1>4. Numbered'
  BY <1>1, <1>2 DEF Orderly, Numbered
<1>5. OneRebase'
  BY <1>1, RebaseElsewhere DEF Orderly
<1> QED
  BY <1>1, <1>3, <1>4, <1>5 DEF Orderly, Refs

(* A forwarded HEAD has what the remote has.                               *)
Forwards(t) ==
  /\ ~Replaying(t) /\ Turn(t) /\ Elsewhere(t) /\ MovesHead(t)
  /\ unmerged = {} /\ IsPrefix(head, remote)
  /\ head' = remote /\ tracked' = remote
  /\ branch' = IF detached THEN branch ELSE remote
  /\ stage' = [f \in Files |-> IF TreeOf(remote)[f] # TreeOf(head)[f] THEN TreeOf(remote)[f] ELSE stage[f]]
  /\ tree' = [f \in Files |-> IF TreeOf(remote)[f] # TreeOf(head)[f] THEN TreeOf(remote)[f] ELSE tree[f]]
  /\ UNCHANGED <<remote, detached, recovery, unmerged, replay, made, settled, theirs>>

LEMMA FastForwardMeaning ==
  ASSUME Typed, NEW t \in Threads, FastForward(t)
  PROVE  Exchanges(t) \/ Forwards(t)
<1> DEFINE new == TreeOf(remote)
           changes == {f \in Files : new[f] # TreeOf(head)[f]}
           refused == ~online \/ unmerged # {} \/ ~IsPrefix(head, remote)
                        \/ \E f \in changes : TreeOf(head)[f] \notin {tree[f]} \cap {stage[f]}
<1>1. Elsewhere(t) /\ ~Replaying(t) /\ Turn(t)
  BY ReturnMeaning DEF FastForward, At, Replaying
<1>2. UNCHANGED <<remote, replay, made, settled, theirs>>
  BY DEF FastForward
<1>3. CASE refused
  <2>1. tracked' = Fetched /\ UNCHANGED <<refs, files, disturbed>>
    BY <1>3 DEF FastForward
  <2> QED
    BY <1>1, <1>2, <2>1 DEF Exchanges, Fetched
<1>4. CASE ~refused
  <2>1. /\ MovesHead(t)
        /\ head' = remote /\ tracked' = remote
        /\ branch' = IF detached THEN branch ELSE remote
        /\ stage' = [f \in Files |-> IF f \in changes THEN new[f] ELSE stage[f]]
        /\ tree'  = [f \in Files |-> IF f \in changes THEN new[f] ELSE tree[f]]
        /\ UNCHANGED <<detached, recovery, unmerged>>
    BY <1>4 DEF FastForward
  <2>2. /\ stage' = [f \in Files |-> IF new[f] # TreeOf(head)[f] THEN new[f] ELSE stage[f]]
        /\ tree'  = [f \in Files |-> IF new[f] # TreeOf(head)[f] THEN new[f] ELSE tree[f]]
    BY <2>1
  <2> QED
    BY <1>1, <1>2, <1>4, <2>1, <2>2 DEF Forwards
<1> QED
  BY <1>3, <1>4

LEMMA ForwardsOrderly ==
  ASSUME Orderly, NEW t \in Threads, Forwards(t)
  PROVE  Orderly'
<1>1. /\ Elsewhere(t)
      /\ head' = remote /\ tracked' = remote
      /\ branch' = IF detached THEN branch ELSE remote
      /\ UNCHANGED <<remote, detached, recovery, unmerged, rebasing, orig, pick, made, settled>>
  BY DEF Forwards, replay
<1>2. disturbed => disturbed'
  BY MovesHeadMeaning DEF Forwards
<1>3. stage' \in Tree /\ tree' \in Tree
  <2>1. TreeOf(remote) \in Tree /\ stage \in Tree /\ tree \in Tree
    BY TreeOfType DEF Orderly, Typed
  <2> QED
    BY <2>1 DEF Forwards, Tree
<1>4. Typed'
  BY <1>1, <1>3 DEF Orderly, Typed, Elsewhere
<1>5. Numbered'
  BY <1>1 DEF Orderly, Numbered
<1>6. OneRebase'
  BY <1>1, <1>2, RebaseElsewhere DEF Orderly
<1>7. IsPrefix(tracked', remote')
  BY <1>1, PrefixReflexive DEF Orderly, Typed, Hist
<1> QED
  BY <1>1, <1>4, <1>5, <1>6, <1>7 DEF Orderly, Refs

(* A rebase begins on the branch and goes to what the remote has.          *)
Detaches(t) ==
  /\ ~Replaying(t) /\ ~rebasing
  /\ stage = TreeOf(head) /\ unmerged = {}
  /\ head' = remote /\ tracked' = remote /\ detached' = TRUE
  /\ tree' = CheckedOut(TreeOf(remote)) /\ stage' = TreeOf(remote)
  /\ rebasing' = TRUE /\ orig' = branch /\ pick' = Fork(branch, remote) + 1
  /\ Goto(t, "pick")
  /\ UNCHANGED <<remote, branch, recovery, unmerged, back, made, settled, theirs, disturbed>>

LEMMA StartRebaseMeaning ==
  ASSUME Typed, NEW t \in Threads, StartRebase(t)
  PROVE  Exchanges(t) \/ Detaches(t)
<1> DEFINE new == TreeOf(remote)
           changed == stage # TreeOf(head) \/ unmerged # {}
                        \/ \E f \in Files : stage[f] # None /\ tree[f] # stage[f]
           refused == ~online \/ rebasing \/ changed \/ Overwrites(new) \/ IsPrefix(remote, branch)
<1>1. /\ ~Replaying(t)
      /\ UNCHANGED <<remote, back, made, settled, theirs, disturbed>>
  BY DEF StartRebase, At, Replaying, history
<1>2. CASE refused
  <2>1. Return(t) /\ tracked' = Fetched /\ UNCHANGED <<refs, files, replay>>
    BY <1>2 DEF StartRebase
  <2>2. Elsewhere(t)
    BY <1>1, <2>1, ReturnMeaning
  <2> QED
    BY <1>1, <2>1, <2>2 DEF Exchanges, Fetched
<1>3. CASE ~refused
  <2>1. /\ head' = remote /\ tracked' = remote /\ detached' = TRUE
        /\ tree' = CheckedOut(new) /\ stage' = new
        /\ rebasing' = TRUE /\ orig' = branch /\ pick' = Fork(branch, remote) + 1
        /\ Goto(t, "pick")
        /\ UNCHANGED <<branch, recovery, unmerged>>
    BY <1>3 DEF StartRebase
  <2> QED
    BY <1>1, <1>3, <2>1 DEF Detaches
<1> QED
  BY <1>2, <1>3

LEMMA CheckedOutType ==
  ASSUME Typed, NEW u \in Tree
  PROVE  CheckedOut(u) \in Tree
BY DEF Typed, CheckedOut, Tree

LEMMA DetachesOrderly ==
  ASSUME Orderly, NEW t \in Threads, Detaches(t)
  PROVE  Orderly'
<1>1. /\ head' = remote /\ tracked' = remote /\ detached' = TRUE
      /\ tree' = CheckedOut(TreeOf(remote)) /\ stage' = TreeOf(remote)
      /\ rebasing' = TRUE /\ orig' = branch /\ pick' = Fork(branch, remote) + 1
      /\ UNCHANGED <<remote, branch, recovery, unmerged, back, made, settled, disturbed>>
  BY DEF Detaches
<1>2. /\ pc' \in [Threads -> Places] /\ pc'[t] = "pick"
      /\ \A s \in Threads \ {t} : pc'[s] = pc[s]
  BY GotoMeaning, "pick" \in Places DEF Detaches, Orderly, Places
<1>3. \A s \in Threads : ~Replaying(s)
  BY DEF Detaches, Orderly, OneRebase
<1>4. pick' \in Nat \ {0}
  <2>1. Fork(branch, remote) \in Nat
    BY ForkMeaning DEF Orderly, Typed
  <2> QED
    BY <1>1, <2>1
<1>5. tree' \in Tree /\ stage' \in Tree
  BY <1>1, TreeOfType, CheckedOutType DEF Orderly, Typed
<1>6. Typed'
  BY <1>1, <1>2, <1>4, <1>5 DEF Orderly, Typed
<1>7. Numbered'
  BY <1>1 DEF Orderly, Numbered
<1>8. OneRebase'
  BY <1>1, <1>2, <1>3, <1>4 DEF OneRebase, Replaying
<1>9. Refs'
  BY <1>1, PrefixReflexive DEF Orderly, Typed, Refs, Hist
<1> QED
  BY <1>6, <1>7, <1>8, <1>9 DEF Orderly

(* The commit under pick is put on HEAD with the tree u, or it is settled. *)
Advances(u) ==
  /\ pick \in DOMAIN orig
  /\ orig[pick] \in Commit /\ u \in Tree
  /\ pick' = pick + 1
  /\ \/ /\ head' \in Hist /\ IsPrefix(head, head')
        /\ Numbers(head') = Numbers(head) \cup {orig[pick].n} /\ TreeOf(head') = u
        /\ head' = Append(head, [orig[pick] EXCEPT !.tree = u])
        /\ branch' = IF detached THEN branch ELSE head'
        /\ settled' = settled
     \/ settled' = settled \cup {orig[pick].n} /\ UNCHANGED <<head, branch>>

LEMMA AdvancesWhen ==
  ASSUME Typed, NEW u \in Tree, pick \in DOMAIN orig, pick' = pick + 1,
         (Apply(u) /\ UNCHANGED settled) \/ Drop
  PROVE  Advances(u)
<1>1. orig[pick] \in Commit
  BY HistType DEF Typed
<1>2. CASE Apply(u) /\ UNCHANGED settled
  <2> DEFINE c == [orig[pick] EXCEPT !.tree = u]
  <2>1. c \in Commit /\ c.n = orig[pick].n /\ c.tree = u
    BY <1>1 DEF Commit
  <2>2. head' = Append(head, c) /\ branch' = IF detached THEN branch ELSE head'
    BY <1>2 DEF Apply
  <2>3. head \in Hist
    BY DEF Typed
  <2>4. /\ head' \in Hist /\ IsPrefix(head, head')
        /\ Numbers(head') = Numbers(head) \cup {c.n} /\ TreeOf(head') = c.tree
    <3> HIDE DEF c
    <3> QED
      BY <2>1, <2>2, <2>3, AppendCommit
  <2> QED
    BY <1>1, <1>2, <2>1, <2>2, <2>4 DEF Advances
<1>3. CASE Drop
  BY <1>1, <1>3 DEF Drop, Advances
<1> QED
  BY <1>2, <1>3

(* The trees of the three sides.                                           *)
LEMMA SidesType ==
  ASSUME Typed, pick \in DOMAIN orig
  PROVE  /\ Ours3 \in Tree /\ Theirs3 \in Tree /\ Base3 \in Tree /\ Merged \in Tree
         /\ pick \in Nat \ {0} /\ pick - 1 \in 0 .. Len(orig)
<1>1. pick \in Nat \ {0} /\ pick - 1 \in 0 .. Len(orig)
  BY HistType DEF Typed
<1>2. Ours3 \in Tree
  BY TreeOfType DEF Typed, Ours3
<1>3. Theirs3 \in Tree
  BY HistType DEF Typed, Theirs3, Commit
<1>4. Base3 \in Tree
  <2>1. Upto(orig, pick - 1) \in Hist
    BY <1>1, UptoType DEF Typed
  <2> QED
    BY <2>1, TreeOfType DEF Base3
<1>5. Merged \in Tree
  BY <1>2, <1>3 DEF Merged, Tree
<1> QED
  BY <1>1, <1>2, <1>3, <1>4, <1>5

LEMMA PickCleanMeaning ==
  ASSUME Typed, NEW t \in Threads, PickClean(t), pick \in Nat \ {0}
  PROVE  /\ Picking(t) /\ Advances(Merged)
         /\ stage' = Merged /\ tree' \in Tree
         /\ tree' = [f \in Files |-> IF Merged[f] # Ours3[f] THEN Merged[f] ELSE tree[f]]
         /\ UNCHANGED <<remote, tracked, detached, recovery, unmerged, rebasing, orig, pc, back,
                        made, theirs, disturbed>>
<1>1. pick \in DOMAIN orig
  BY HistType DEF PickClean, Typed
<1>2. Merged \in Tree
  BY <1>1, SidesType
<1>3. (Apply(Merged) /\ UNCHANGED settled) \/ Drop
  BY DEF PickClean
<1>4. Advances(Merged)
  BY <1>1, <1>2, <1>3, AdvancesWhen DEF PickClean
<1>5. tree' \in Tree
  BY <1>2 DEF PickClean, Typed, Tree
<1> QED
  BY <1>4, <1>5 DEF PickClean, upstream, control

LEMMA ContinueMeaning ==
  ASSUME Orderly, NEW t \in Threads, NEW editor \in Editors, Continue(t, editor)
  PROVE  /\ pc[t] = "continue" /\ Replaying(t)
         /\ \/ Goto(t, "abort") /\ UNCHANGED <<head, branch, settled, pick>>
            \/ Goto(t, "repick") /\ Advances(stage) /\ unmerged = {}
         /\ UNCHANGED <<remote, tracked, detached, recovery, stage, tree, unmerged, rebasing, orig,
                        back, made, theirs, disturbed>>
<1>1. pc[t] = "continue" /\ Replaying(t)
  BY DEF Continue, At, Replaying
<1>2. pick \in DOMAIN orig
  BY <1>1, HistType DEF Orderly, OneRebase, Typed
<1>3. ASSUME (stage = Ours3 \/ editor), pick' = pick + 1, Goto(t, "repick"),
             IF stage = Ours3 THEN Drop ELSE Apply(stage) /\ UNCHANGED settled
      PROVE  Advances(stage)
  <2>1. (Apply(stage) /\ UNCHANGED settled) \/ Drop
    BY <1>3
  <2> QED
    BY <1>2, <1>3, <2>1, AdvancesWhen DEF Orderly, Typed
<1>4. UNCHANGED <<remote, tracked, detached, recovery, stage, tree, unmerged, rebasing, orig,
                  back, made, theirs, disturbed>>
  BY DEF Continue, upstream, files
<1>5. \/ Goto(t, "abort") /\ UNCHANGED <<head, branch, settled, pick>>
      \/ Goto(t, "repick") /\ Advances(stage) /\ unmerged = {}
  BY <1>3 DEF Continue
<1> QED
  BY <1>1, <1>4, <1>5

(* One more commit on HEAD in a rebase.                                    *)
LEMMA AdvancesTyped ==
  ASSUME Orderly, NEW u, Advances(u), UNCHANGED <<remote, orig, made, detached, recovery>>
  PROVE  /\ head' \in Hist /\ branch' \in Hist /\ pick' \in Nat \ {0}
         /\ settled' \subseteq 0 .. made'
         /\ Numbered'
         /\ ~detached' => branch' = head'
<1>1. orig[pick].n \in Numbers(orig) /\ Numbers(orig) \subseteq 0 .. made
  BY DEF Advances, Numbers, Orderly, Numbered
<1>2. head' \in Hist /\ branch' \in Hist /\ pick' \in Nat \ {0}
  BY DEF Advances, Orderly, Typed
<1>3. settled' \subseteq 0 .. made'
  BY <1>1 DEF Advances, Orderly, Typed
<1>4. Numbered'
  <2>1. Numbers(head') \subseteq 0 .. made /\ Numbers(branch') \subseteq 0 .. made
    BY <1>1 DEF Advances, Orderly, Numbered
  <2> QED
    BY <2>1 DEF Orderly, Numbered
<1>5. ~detached' => branch' = head'
  BY DEF Advances, Orderly, Refs
<1> QED
  BY <1>2, <1>3, <1>4, <1>5

LEMMA PickCleanOrderly ==
  ASSUME Orderly, NEW t \in Threads, PickClean(t)
  PROVE  Orderly'
<1>1. pick \in Nat \ {0} /\ pc[t] \in {"pick", "repick"}
  BY DEF PickClean, Picking, Orderly, OneRebase, Replaying
<1>2. /\ Advances(Merged) /\ stage' = Merged /\ tree' \in Tree
      /\ UNCHANGED <<remote, tracked, detached, recovery, unmerged, rebasing, orig, pc, back,
                     made, disturbed>>
  BY <1>1, PickCleanMeaning DEF Orderly
<1>3. /\ head' \in Hist /\ branch' \in Hist /\ pick' \in Nat \ {0}
      /\ settled' \subseteq 0 .. made' /\ Numbered' /\ (~detached' => branch' = head')
  BY <1>2, AdvancesTyped
<1>4. Typed'
  BY <1>2, <1>3 DEF Orderly, Typed, Advances
<1>5. OneRebase'
  BY <1>1, <1>2, <1>3 DEF Orderly, OneRebase, Replaying
<1>6. Refs'
  BY <1>2, <1>3 DEF Orderly, Refs
<1> QED
  BY <1>3, <1>4, <1>5, <1>6 DEF Orderly

LEMMA ContinueOrderly ==
  ASSUME Orderly, NEW t \in Threads, NEW editor \in Editors, Continue(t, editor)
  PROVE  Orderly'
<1>1. /\ pc[t] = "continue" /\ Replaying(t)
      /\ \/ Goto(t, "abort") /\ UNCHANGED <<head, branch, settled, pick>>
         \/ Goto(t, "repick") /\ Advances(stage)
      /\ UNCHANGED <<remote, tracked, detached, recovery, stage, tree, unmerged, rebasing, orig,
                     back, made, disturbed>>
  BY ContinueMeaning
<1>2. "abort" \in Places /\ "repick" \in Places
  BY DEF Places
<1>3. /\ pc' \in [Threads -> Places] /\ pc'[t] \in {"abort", "repick"}
      /\ \A s \in Threads \ {t} : pc'[s] = pc[s]
  BY <1>1, <1>2, GotoMeaning DEF Orderly
<1>4. /\ head' \in Hist /\ branch' \in Hist /\ pick' \in Nat \ {0}
      /\ settled' \subseteq 0 .. made' /\ Numbered' /\ (~detached' => branch' = head')
  <2>1. CASE Advances(stage)
    BY <1>1, <2>1, AdvancesTyped
  <2>2. CASE UNCHANGED <<head, branch, settled, pick>>
    BY <1>1, <2>2 DEF Orderly, Typed, Numbered, Refs, OneRebase
  <2> QED
    BY <1>1, <2>1, <2>2
<1>5. Typed'
  BY <1>1, <1>3, <1>4 DEF Orderly, Typed
<1>6. OneRebase'
  BY <1>1, <1>3, <1>4 DEF Orderly, OneRebase, Replaying
<1>7. Refs'
  BY <1>1, <1>4 DEF Orderly, Refs
<1> QED
  BY <1>4, <1>5, <1>6, <1>7 DEF Orderly

(* The files of a stopped pick: markers where both sides have a text.      *)
LeavesConflicts ==
  /\ unmerged' = Conflicts /\ stage' = Merged
  /\ \A f \in Files : tree'[f] \in
       IF f \notin Conflicts THEN {tree[f], Merged[f]}
       ELSE IF None \notin {Ours3[f], Theirs3[f]} THEN {Markers}
       ELSE {Ours3[f], Theirs3[f]}

LEMMA PickStopsMeaning ==
  ASSUME Typed, NEW t \in Threads, PickStops(t), pick \in Nat \ {0}
  PROVE  /\ Picking(t) /\ pick \in DOMAIN orig
         /\ \/ UNCHANGED files /\ Goto(t, IF pc[t] = "repick" THEN "abort" ELSE back[t])
            \/ LeavesConflicts /\ Goto(t, IF pc[t] = "repick" THEN "abort" ELSE "resolve")
         /\ stage' \in Tree /\ tree' \in Tree /\ unmerged' \subseteq Files
         /\ UNCHANGED <<remote, refs, tracked, replay, back, made, settled, theirs, disturbed>>
<1>1. pick \in DOMAIN orig
  BY HistType DEF PickStops, Typed
<1>2. Merged \in Tree /\ Ours3 \in Tree /\ Theirs3 \in Tree
  BY <1>1, SidesType
<1>3. Picking(t) /\ UNCHANGED <<remote, refs, tracked, replay, back, made, settled, theirs, disturbed>>
  BY DEF PickStops, upstream, history
<1> DEFINE touched  == Conflicts \cup {f \in Files : Merged[f] # Ours3[f]}
           inTheWay == \E f \in touched : tree[f] # stage[f]
<1>4. CASE inTheWay
  <2>1. UNCHANGED files /\ Goto(t, IF pc[t] = "repick" THEN "abort" ELSE back[t])
    BY <1>4 DEF PickStops
  <2> QED
    BY <1>1, <1>3, <2>1 DEF Typed, files
<1>5. CASE ~inTheWay
  <2>1. /\ unmerged' = Conflicts /\ stage' = Merged
        /\ tree' = [f \in Files |->
             IF f \notin Conflicts THEN IF f \in touched THEN Merged[f] ELSE tree[f]
             ELSE IF None \notin {Ours3[f], Theirs3[f]} THEN Markers
             ELSE IF Ours3[f] = None THEN Theirs3[f] ELSE Ours3[f]]
        /\ Goto(t, IF pc[t] = "repick" THEN "abort" ELSE "resolve")
    BY <1>5 DEF PickStops
  <2>2. LeavesConflicts
    BY <2>1 DEF LeavesConflicts
  <2>3. tree' \in Tree
    <3>1. Markers \in Text
      BY DEF Text
    <3> QED
      BY <1>2, <2>1, <3>1 DEF Typed, Tree
  <2>4. unmerged' \subseteq Files /\ stage' \in Tree
    BY <1>2, <2>1 DEF Conflicts
  <2> QED
    BY <1>1, <1>3, <2>1, <2>2, <2>3, <2>4
<1> QED
  BY <1>4, <1>5

LEMMA PickStopsOrderly ==
  ASSUME Orderly, NEW t \in Threads, PickStops(t)
  PROVE  Orderly'
<1>1. pick \in Nat \ {0} /\ pc[t] \in {"pick", "repick"}
  BY DEF PickStops, Picking, Orderly, OneRebase, Replaying
<1>2. /\ pick \in DOMAIN orig
      /\ \E place \in Places : Goto(t, place) /\ place \notin {"continue", "pick", "repick"}
      /\ stage' \in Tree /\ tree' \in Tree /\ unmerged' \subseteq Files
      /\ UNCHANGED <<remote, branch, head, detached, recovery, tracked, rebasing, orig, pick, back,
                     made, settled, disturbed>>
  <2>1. \E place \in {"abort", "resolve", back[t]} : Goto(t, place)
    BY <1>1, PickStopsMeaning DEF Orderly
  <2>2. back[t] \in Returns
    BY DEF Orderly, Typed
  <2>3. \A place \in {"abort", "resolve", back[t]} :
          place \in Places /\ place \notin {"continue", "pick", "repick"}
    BY <2>2 DEF Places, Returns
  <2> QED
    BY <1>1, <2>1, <2>3, PickStopsMeaning DEF Orderly, refs, replay
<1>3. /\ pc' \in [Threads -> Places] /\ pc'[t] \notin {"continue", "pick", "repick"}
      /\ \A s \in Threads \ {t} : pc'[s] = pc[s]
  BY <1>2, GotoMeaning DEF Orderly
<1>4. Typed'
  BY <1>2, <1>3 DEF Orderly, Typed
<1>5. Numbered'
  BY <1>2 DEF Orderly, Numbered
<1>6. OneRebase'
  <2>1. pick <= Len(orig) /\ Replaying(t)
    BY <1>1, <1>2, HistType DEF Orderly, Typed, Replaying
  <2> QED
    BY <1>2, <1>3, <2>1 DEF Orderly, OneRebase, Replaying
<1>7. Refs'
  BY <1>2 DEF Orderly, Refs
<1> QED
  BY <1>4, <1>5, <1>6, <1>7 DEF Orderly

LEMMA ResolveMeaning ==
  ASSUME Typed, NEW t \in Threads, Resolve(t), pick \in DOMAIN orig
  PROVE  /\ pc[t] = "resolve" /\ Goto(t, "continue")
         /\ unmerged' = {f \in unmerged : Side(f) = None}
         /\ \A f \in Files : IF f \in unmerged /\ Side(f) # None
                             THEN stage'[f] = Side(f) /\ tree'[f] = Side(f)
                             ELSE stage'[f] = stage[f] /\ tree'[f] = tree[f]
         /\ stage' \in Tree /\ tree' \in Tree
         /\ UNCHANGED <<remote, refs, tracked, replay, back, made, settled, theirs, disturbed>>
<1>1. /\ unmerged' = {f \in unmerged : Side(f) = None}
      /\ stage' = [f \in Files |-> IF f \in unmerged \ unmerged' THEN Side(f) ELSE stage[f]]
      /\ tree'  = [f \in Files |-> IF f \in unmerged \ unmerged' THEN Side(f) ELSE tree[f]]
  BY DEF Resolve
<1>2. \A f \in Files : Side(f) \in Text
  BY SidesType DEF Side, Tree
<1>3. stage' \in Tree /\ tree' \in Tree
  BY <1>1, <1>2 DEF Typed, Tree
<1>4. \A f \in Files : f \in unmerged \ unmerged' <=> f \in unmerged /\ Side(f) # None
  BY <1>1
<1>5. \A f \in Files : IF f \in unmerged /\ Side(f) # None
                       THEN stage'[f] = Side(f) /\ tree'[f] = Side(f)
                       ELSE stage'[f] = stage[f] /\ tree'[f] = tree[f]
  BY <1>1, <1>4
<1> QED
  BY <1>1, <1>3, <1>5 DEF Resolve, At, upstream, history

LEMMA ResolveOrderly ==
  ASSUME Orderly, NEW t \in Threads, Resolve(t)
  PROVE  Orderly'
<1>1. pick \in Nat \ {0} /\ pick <= Len(orig) /\ Replaying(t)
  BY DEF Resolve, At, Orderly, OneRebase, Replaying
<1>2. pick \in DOMAIN orig
  BY <1>1, HistType DEF Orderly, Typed
<1>3. /\ Goto(t, "continue") /\ unmerged' \subseteq unmerged
      /\ stage' \in Tree /\ tree' \in Tree
      /\ UNCHANGED <<remote, branch, head, detached, recovery, tracked, rebasing, orig, pick, back,
                     made, settled, disturbed>>
  BY <1>2, ResolveMeaning DEF Orderly, refs, replay
<1>4. "continue" \in Places
  BY DEF Places
<1>5. /\ pc' \in [Threads -> Places] /\ pc'[t] = "continue"
      /\ \A s \in Threads \ {t} : pc'[s] = pc[s]
  BY <1>3, <1>4, GotoMeaning DEF Orderly
<1>6. Typed'
  BY <1>3, <1>5 DEF Orderly, Typed
<1>7. Numbered'
  BY <1>3 DEF Orderly, Numbered
<1>8. OneRebase'
  BY <1>1, <1>3, <1>5 DEF Orderly, OneRebase, Replaying
<1>9. Refs'
  BY <1>3 DEF Orderly, Refs
<1> QED
  BY <1>6, <1>7, <1>8, <1>9 DEF Orderly

(* The end of a rebase, and what an abort goes back to.                    *)
LEMMA FinishRebaseMeaning ==
  ASSUME Typed, NEW t \in Threads, FinishRebase(t)
  PROVE  /\ Picking(t) /\ pick > Len(orig)
         /\ \/ /\ branch = orig /\ branch' = head /\ detached' = FALSE /\ rebasing' = FALSE
               /\ Elsewhere(t)
            \/ branch # orig /\ Goto(t, "abort") /\ UNCHANGED <<branch, detached, rebasing>>
         /\ UNCHANGED <<remote, head, recovery, tracked, files, orig, pick, back, made, settled,
                        theirs, disturbed>>
BY ReturnMeaning DEF FinishRebase, upstream, history

LEMMA FinishRebaseOrderly ==
  ASSUME Orderly, NEW t \in Threads, FinishRebase(t)
  PROVE  Orderly'
<1>1. Replaying(t) /\ \A s \in Threads \ {t} : ~Replaying(s)
  BY DEF FinishRebase, Picking, Orderly, OneRebase, Replaying
<1>2. /\ \/ /\ branch' = head /\ detached' = FALSE /\ rebasing' = FALSE /\ Elsewhere(t)
         \/ Goto(t, "abort") /\ UNCHANGED <<branch, detached, rebasing>>
      /\ UNCHANGED <<remote, head, recovery, tracked, stage, tree, unmerged, orig, pick, back,
                     made, settled, disturbed>>
  BY FinishRebaseMeaning DEF Orderly, files
<1>3. CASE Elsewhere(t) /\ branch' = head /\ detached' = FALSE /\ rebasing' = FALSE
  <2>1. Typed'
    BY <1>2, <1>3 DEF Orderly, Typed, Elsewhere
  <2>2. Numbered' /\ Refs'
    BY <1>2, <1>3 DEF Orderly, Numbered, Refs
  <2>3. OneRebase'
    BY <1>1, <1>3 DEF Elsewhere, OneRebase, Replaying
  <2> QED
    BY <2>1, <2>2, <2>3 DEF Orderly
<1>4. CASE Goto(t, "abort") /\ UNCHANGED <<branch, detached, rebasing>>
  <2>1. "abort" \in Places
    BY DEF Places
  <2>2. /\ pc' \in [Threads -> Places] /\ pc'[t] = "abort"
        /\ \A s \in Threads \ {t} : pc'[s] = pc[s]
    BY <1>4, <2>1, GotoMeaning DEF Orderly
  <2>3. Typed'
    BY <1>2, <1>4, <2>2 DEF Orderly, Typed
  <2>4. Numbered' /\ Refs'
    BY <1>2, <1>4 DEF Orderly, Numbered, Refs
  <2>5. OneRebase'
    BY <1>1, <1>2, <1>4, <2>2 DEF Orderly, OneRebase, Replaying
  <2> QED
    BY <2>3, <2>4, <2>5 DEF Orderly
<1> QED
  BY <1>2, <1>3, <1>4

LEMMA AbortMeaning ==
  ASSUME Typed, NEW t \in Threads, Abort(t)
  PROVE  /\ pc[t] = "abort" /\ Replaying(t) /\ Elsewhere(t)
         /\ \/ UNCHANGED <<head, branch, detached, files, rebasing>>
            \/ /\ head' = orig /\ branch' = orig /\ detached' = FALSE
               /\ tree' = CheckedOut(TreeOf(orig)) /\ stage' = TreeOf(orig) /\ unmerged' = {}
               /\ rebasing' = FALSE
         /\ tracked' \in {tracked, remote}
         /\ UNCHANGED <<remote, recovery, orig, pick, back, made, settled, theirs, disturbed>>
BY ReturnMeaning DEF Abort, At, Replaying, Fetched, history

LEMMA AbortOrderly ==
  ASSUME Orderly, NEW t \in Threads, Abort(t)
  PROVE  Orderly'
<1>1. Replaying(t) /\ \A s \in Threads \ {t} : ~Replaying(s)
  BY AbortMeaning DEF Orderly, OneRebase
<1>2. /\ Elsewhere(t) /\ tracked' \in {tracked, remote}
      /\ \/ UNCHANGED <<head, branch, detached, stage, tree, unmerged, rebasing>>
         \/ /\ head' = orig /\ branch' = orig /\ detached' = FALSE
            /\ tree' = CheckedOut(TreeOf(orig)) /\ stage' = TreeOf(orig) /\ unmerged' = {}
            /\ rebasing' = FALSE
      /\ UNCHANGED <<remote, recovery, orig, pick, back, made, settled, disturbed>>
  BY AbortMeaning DEF Orderly, files
<1>3. stage' \in Tree /\ tree' \in Tree /\ unmerged' \subseteq Files
  BY <1>2, TreeOfType, CheckedOutType DEF Orderly, Typed
<1>4. Typed'
  BY <1>2, <1>3 DEF Orderly, Typed, Elsewhere
<1>5. Numbered'
  BY <1>2 DEF Orderly, Numbered
<1>6. OneRebase'
  BY <1>1, <1>2 DEF Elsewhere, OneRebase, Replaying
<1>7. Refs'
  BY <1>2, PrefixReflexive DEF Orderly, Typed, Refs, Hist
<1> QED
  BY <1>4, <1>5, <1>6, <1>7 DEF Orderly

(* Every step is one of these.                                             *)
Steps(t) ==
  \/ Reattaches(t) \/ Exchanges(t) \/ CommitAll(t) \/ Forwards(t) \/ Detaches(t)
  \/ PickClean(t) \/ PickStops(t) \/ FinishRebase(t) \/ Resolve(t)
  \/ (\E editor \in Editors : Continue(t, editor)) \/ Abort(t)

Surroundings ==
  \/ Unseen
  \/ \E f \in Own : \E v \in Texts \cup {None} : Write(f, v)
  \/ \E f \in Files : \E v \in OtherTexts \cup {None} : OtherPush(f, v)

LEMMA NextMeaning ==
  ASSUME Typed, [Next]_vars
  PROVE  Surroundings \/ \E t \in Threads : Steps(t)
<1>1. CASE Environment \/ UNCHANGED vars
  BY <1>1, UnseenWhen DEF Environment, Surroundings
<1>2. CASE \E t \in Threads : GitThread(t) \/ OpenForPass(t)
  <2>1. PICK t \in Threads : GitThread(t) \/ OpenForPass(t)
    BY <1>2
  <2>2. CASE \/ OpenRepo(t) \/ OpenForPass(t) \/ ConfigureRemote(t)
             \/ WalkDirty(t) \/ WalkClean(t) \/ WalkWithoutUpstream(t)
             \/ PullFetch(t) \/ StartPush(t)
    BY <2>2, ReattachesWhen DEF Steps
  <2>3. CASE Send(t) \/ SendAgain(t)
    BY <2>3, ExchangesWhen DEF Steps
  <2>4. CASE FastForward(t)
    BY <2>4, FastForwardMeaning DEF Steps
  <2>5. CASE StartRebase(t)
    BY <2>5, StartRebaseMeaning DEF Steps
  <2>6. CASE \/ CommitAll(t) \/ PickClean(t) \/ PickStops(t) \/ FinishRebase(t) \/ Resolve(t)
             \/ (\E editor \in Editors : Continue(t, editor)) \/ Abort(t)
    BY <2>6 DEF Steps
  <2> QED
    BY <2>1, <2>2, <2>3, <2>4, <2>5, <2>6 DEF GitThread
<1> QED
  BY <1>1, <1>2 DEF Next

LEMMA NextOrderly == Orderly /\ [Next]_vars => Orderly'
<1> SUFFICES ASSUME Orderly, [Next]_vars PROVE Orderly'
  OBVIOUS
<1>1. CASE Surroundings
  BY <1>1, UnseenOrderly, WriteOrderly, OtherPushOrderly DEF Surroundings
<1>2. ASSUME NEW t \in Threads, Steps(t) PROVE Orderly'
  BY <1>2, ReattachesOrderly, ExchangesOrderly, CommitAllOrderly, ForwardsOrderly,
     DetachesOrderly, PickCleanOrderly, PickStopsOrderly, FinishRebaseOrderly, ResolveOrderly,
     ContinueOrderly, AbortOrderly DEF Steps
<1>3. Typed
  BY DEF Orderly
<1> QED
  BY <1>1, <1>2, <1>3, NextMeaning

LEMMA AlwaysOrderly == Spec => []Orderly
<1>1. Init => Orderly
  BY InitOrderly
<1>2. Orderly /\ [Next]_vars => Orderly'
  BY NextOrderly
<1> QED
  BY <1>1, <1>2, PTL DEF Spec

(* Every variable keeps its type; outside a rebase HEAD is the branch, and  *)
(* the remote-tracking ref never knows of more than the remote has.         *)
THEOREM TypeCorrect == Spec => []TypeOK
<1>1. Orderly => TypeOK
  <2> SUFFICES ASSUME Orderly PROVE TypeOK
    OBVIOUS
  <2>1. \A h \in {remote, branch, head, tracked, orig} \cup recovery :
          \A i \in DOMAIN h : h[i] \in Commit
    BY HistType DEF Orderly, Typed
  <2>2. \A t \in Threads : Replaying(t) => rebasing /\ (detached \/ disturbed)
    BY DEF Orderly, OneRebase
  <2>3. \A t \in Threads : pc[t] \in Places /\ back[t] \in Returns
    BY DEF Orderly, Typed
  <2> QED
    BY <2>1, <2>2, <2>3 DEF Orderly, Typed, Refs, TypeOK, Places, Returns
<1> QED
  BY <1>1, AlwaysOrderly, PTL

(* Nobody's commits disappear from the remote: whatever the mirror has      *)
(* rebased, reattached or found after a crash, what it sends contains what  *)
(* the remote has.                                                         *)
THEOREM RemoteGrows == Spec => RemoteOnlyGrows
<1>1. Orderly /\ [Next]_vars => IsPrefix(remote, remote')
  <2> SUFFICES ASSUME Orderly, [Next]_vars PROVE IsPrefix(remote, remote')
    OBVIOUS
  <2>1. Typed
    BY DEF Orderly
  <2>2. IsPrefix(remote, remote)
    BY <2>1, PrefixReflexive DEF Typed, Hist
  <2>3. CASE Surroundings
    <3>1. CASE remote' = remote
      BY <2>2, <3>1
    <3>2. ASSUME NEW f \in Files, NEW v \in OtherTexts \cup {None}, OtherPush(f, v)
          PROVE  IsPrefix(remote, remote')
      <4>1. TreeOf(remote) \in Tree
        BY <2>1, TreeOfType DEF Typed
      <4>2. [n |-> 0, tree |-> [TreeOf(remote) EXCEPT ![f] = v]] \in Commit
        BY <4>1 DEF Tree, Text, Commit
      <4> QED
        BY <2>1, <3>2, <4>2, AppendCommit DEF OtherPush, Typed
    <3> QED
      BY <2>3, <3>1, <3>2 DEF Surroundings, Unseen, Write
  <2>4. ASSUME NEW t \in Threads, Steps(t) PROVE IsPrefix(remote, remote')
    <3>1. CASE Exchanges(t)
      BY <2>2, <3>1 DEF Exchanges
    <3>2. CASE Reattaches(t) \/ Forwards(t) \/ Detaches(t)
      BY <2>2, <3>2 DEF Reattaches, Forwards, Detaches
    <3>3. CASE CommitAll(t) \/ PickClean(t) \/ PickStops(t) \/ FinishRebase(t) \/ Resolve(t)
      BY <2>2, <3>3 DEF CommitAll, PickClean, PickStops, FinishRebase, Resolve
    <3>4. CASE (\E editor \in Editors : Continue(t, editor)) \/ Abort(t)
      BY <2>2, <3>4 DEF Continue, Abort
    <3> QED
      BY <2>4, <3>1, <3>2, <3>3, <3>4 DEF Steps
  <2> QED
    BY <2>1, <2>3, <2>4, NextMeaning
<1>2. Orderly /\ [Next]_vars => [IsPrefix(remote, remote')]_vars
  BY <1>1
<1> QED
  BY <1>2, AlwaysOrderly, PTL DEF Spec, RemoteOnlyGrows

------------------------------------------------------------------------------
(* No commit of the mirror is lost. *)

(* The numbers of the commits that can be found, or have been settled.     *)
Found ==
  settled \cup Numbers(remote) \cup Numbers(branch) \cup Numbers(head)
    \cup UNION {Numbers(h) : h \in recovery}

LEMMA RecoverableMeaning == Recoverable <=> 1 .. made \subseteq Found
<1>1. \A n, h : n \in Numbers(h) <=> \E i \in DOMAIN h : h[i].n = n
  BY DEF Numbers
<1>2. Recoverable <=> \A n \in 1 .. made \ settled :
                        \E h \in {remote, branch, head} \cup recovery : n \in Numbers(h)
  BY <1>1 DEF Recoverable
<1>3. \A n : n \in Found <=> \/ n \in settled
                             \/ \E h \in {remote, branch, head} \cup recovery : n \in Numbers(h)
  BY DEF Found
<1> QED
  BY <1>2, <1>3

Recovered == ~disturbed => 1 .. made \subseteq Found

Kept == NothingDropped /\ Recovered

LEMMA UnseenKept == Orderly /\ Kept /\ Unseen => Kept'
<1> SUFFICES ASSUME Orderly, Kept, Unseen PROVE Kept'
  OBVIOUS
<1>1. UNCHANGED <<remote, branch, head, recovery, orig, pick, made, settled, disturbed>>
  BY DEF Unseen, refs, replay
<1>2. \A t \in Threads : Replaying(t)' => Replaying(t)
  BY DEF Unseen, Replaying, control
<1>3. NothingDropped'
  BY <1>1, <1>2 DEF Kept, NothingDropped
<1>4. Recovered'
  BY <1>1 DEF Kept, Recovered, Found
<1> QED
  BY <1>3, <1>4 DEF Kept

LEMMA SurroundingsKept == Orderly /\ Kept /\ Surroundings => Kept'
<1> SUFFICES ASSUME Orderly, Kept, Surroundings PROVE Kept'
  OBVIOUS
<1>1. CASE Unseen
  BY <1>1, UnseenKept
<1>2. ASSUME NEW f \in Own, NEW v \in Texts \cup {None}, Write(f, v) PROVE Kept'
  <2>1. UNCHANGED <<remote, branch, head, recovery, orig, pick, pc, made, settled, disturbed>>
    BY <1>2 DEF Write, refs, replay, control, history
  <2> QED
    BY <2>1 DEF Kept, NothingDropped, Recovered, Found, Replaying
<1>3. ASSUME NEW f \in Files, NEW v \in OtherTexts \cup {None}, OtherPush(f, v) PROVE Kept'
  <2>1. UNCHANGED <<branch, head, recovery, orig, pick, pc, made, settled, disturbed>>
    BY <1>3 DEF OtherPush, refs, replay, control
  <2>2. Numbers(remote) \subseteq Numbers(remote')
    <3>1. TreeOf(remote) \in Tree
      BY TreeOfType DEF Orderly, Typed
    <3>2. [n |-> 0, tree |-> [TreeOf(remote) EXCEPT ![f] = v]] \in Commit
      BY <3>1 DEF Tree, Text, Commit
    <3> QED
      BY <1>3, <3>2, AppendCommit DEF OtherPush, Orderly, Typed
  <2>3. NothingDropped'
    BY <2>1, <2>2 DEF Kept, NothingDropped, Replaying
  <2>4. Recovered'
    BY <2>1, <2>2 DEF Kept, Recovered, Found
  <2> QED
    BY <2>3, <2>4 DEF Kept
<1> QED
  BY <1>1, <1>2, <1>3 DEF Surroundings

(* Putting HEAD back on the branch in another thread's rebase disturbs it; *)
(* the old tip is kept under a recovery name.                              *)
LEMMA ReattachesKept ==
  ASSUME Orderly, Kept, NEW t \in Threads, Reattaches(t)
  PROVE  Kept'
<1>1. /\ branch' = head /\ head' = head
      /\ recovery \subseteq recovery'
      /\ (detached /\ branch # head => branch \in recovery')
      /\ (disturbed => disturbed')
      /\ (detached => \A s \in Threads \ {t} : Replaying(s) => disturbed')
  BY EnsureBranchMeaning DEF Reattaches
<1>2. /\ Elsewhere(t) /\ UNCHANGED <<remote, orig, pick, made, settled>>
  BY DEF Reattaches, replay
<1>3. NothingDropped'
  <2> SUFFICES ASSUME NEW s \in Threads, Replaying(s)', ~disturbed' PROVE FALSE
    BY DEF NothingDropped
  <2>1. s \in Threads \ {t} /\ Replaying(s)
    BY <1>2 DEF Elsewhere, Replaying
  <2> QED
    BY <1>1, <2>1 DEF Orderly, OneRebase
<1>4. Recovered'
  <2>1. branch = head \/ branch \in recovery'
    BY <1>1 DEF Orderly, Refs
  <2>2. Found \subseteq Found'
    BY <1>1, <1>2, <2>1 DEF Found
  <2> QED
    BY <1>1, <1>2, <2>2 DEF Kept, Recovered
<1> QED
  BY <1>3, <1>4 DEF Kept

LEMMA ExchangesKept ==
  ASSUME Orderly, Kept, NEW t \in Threads, Exchanges(t)
  PROVE  Kept'
<1>1. /\ Elsewhere(t)
      /\ remote' = remote \/ (IsPrefix(remote, branch) /\ remote' = branch)
      /\ UNCHANGED <<branch, head, recovery, orig, pick, made, settled, disturbed>>
  BY DEF Exchanges, refs, replay
<1>2. Numbers(remote) \subseteq Numbers(remote')
  BY <1>1, PrefixNumbers DEF Orderly, Typed
<1>3. \A s \in Threads : Replaying(s)' => Replaying(s)
  BY <1>1 DEF Elsewhere, Replaying
<1>4. NothingDropped'
  BY <1>1, <1>2, <1>3 DEF Kept, NothingDropped
<1>5. Recovered'
  BY <1>1, <1>2 DEF Kept, Recovered, Found
<1> QED
  BY <1>4, <1>5 DEF Kept

LEMMA CommitAllKept ==
  ASSUME Orderly, Kept, NEW t \in Threads, CommitAll(t)
  PROVE  Kept'
<1>1. /\ Elsewhere(t) /\ Numbers(head') = Numbers(head) \cup {made + 1}
      /\ branch' = IF detached THEN branch ELSE head'
      /\ made' = made + 1
      /\ (disturbed => disturbed')
      /\ \A s \in Threads \ {t} : Replaying(s) => disturbed'
      /\ UNCHANGED <<remote, recovery, settled>>
  BY CommitAllMeaning
<1>2. NothingDropped'
  BY <1>1 DEF NothingDropped, Elsewhere, Replaying
<1>3. Recovered'
  <2>1. Found \cup {made + 1} \subseteq Found'
    <3>1. Numbers(branch) \subseteq Numbers(branch') \cup Numbers(head')
      BY <1>1 DEF Orderly, Refs
    <3> QED
      BY <1>1, <3>1 DEF Found
  <2>2. 1 .. made' \subseteq 1 .. made \cup {made + 1}
    BY <1>1 DEF Orderly, Typed
  <2> QED
    BY <1>1, <2>1, <2>2 DEF Kept, Recovered
<1> QED
  BY <1>2, <1>3 DEF Kept

LEMMA ForwardsKept ==
  ASSUME Orderly, Kept, NEW t \in Threads, Forwards(t)
  PROVE  Kept'
<1>1. /\ Elsewhere(t) /\ IsPrefix(head, remote) /\ head' = remote
      /\ branch' = IF detached THEN branch ELSE remote
      /\ UNCHANGED <<remote, recovery, made, settled>>
  BY DEF Forwards
<1>2. /\ (disturbed => disturbed')
      /\ \A s \in Threads \ {t} : Replaying(s) => disturbed'
  BY MovesHeadMeaning DEF Forwards
<1>3. NothingDropped'
  BY <1>1, <1>2 DEF NothingDropped, Elsewhere, Replaying
<1>4. Recovered'
  <2>1. Numbers(head) \subseteq Numbers(remote)
    BY <1>1, PrefixNumbers DEF Orderly, Typed
  <2>2. Numbers(branch) \subseteq Numbers(branch') \cup Numbers(remote)
    BY <1>1, <2>1 DEF Orderly, Refs
  <2>3. Found \subseteq Found'
    BY <1>1, <2>1, <2>2 DEF Found
  <2> QED
    BY <1>1, <1>2, <2>3 DEF Kept, Recovered
<1> QED
  BY <1>3, <1>4 DEF Kept

(* What the branch had in common with the remote needs no picking.         *)
LEMMA DetachesKept ==
  ASSUME Orderly, Kept, NEW t \in Threads, Detaches(t)
  PROVE  Kept'
<1>1. /\ head' = remote /\ orig' = branch /\ pick' = Fork(branch, remote) + 1
      /\ UNCHANGED <<remote, branch, recovery, made, settled, disturbed>>
  BY DEF Detaches
<1>2. branch = head
  BY DEF Detaches, Orderly, Refs
<1>3. \A i \in DOMAIN branch : i < Fork(branch, remote) + 1 => branch[i].n \in Numbers(remote)
  <2> SUFFICES ASSUME NEW i \in DOMAIN branch, i < Fork(branch, remote) + 1
               PROVE  branch[i].n \in Numbers(remote)
    OBVIOUS
  <2>1. /\ branch \in Hist /\ remote \in Hist
        /\ i \in 1 .. Len(branch) /\ i \in Nat \ {0} /\ i \in 0 .. Len(branch)
    BY HistType DEF Orderly, Typed
  <2>2. Fork(branch, remote) \in Nat
    BY <2>1, ForkMeaning
  <2>3. IsPrefix(Upto(branch, i), remote)
    BY <2>1, <2>2, ForkMeaning
  <2>4. /\ Upto(branch, i) \in Hist /\ Len(Upto(branch, i)) = i /\ Upto(branch, i)[i] = branch[i]
    BY <2>1, UptoType
  <2>5. branch[i].n \in Numbers(Upto(branch, i))
    BY <2>1, <2>4, HistType DEF Numbers
  <2> QED
    BY <2>1, <2>3, <2>4, <2>5, PrefixNumbers
<1>4. NothingDropped'
  BY <1>1, <1>3 DEF NothingDropped
<1>5. Recovered'
  BY <1>1, <1>2 DEF Kept, Recovered, Found
<1> QED
  BY <1>4, <1>5 DEF Kept

(* A pick keeps its commit, as HEAD's or as settled.                       *)
LEMMA AdvancesKept ==
  ASSUME Orderly, Kept, NEW t \in Threads, NEW u, Replaying(t), Advances(u),
         \A s \in Threads \ {t} : pc'[s] = pc[s],
         UNCHANGED <<remote, detached, recovery, orig, made, disturbed>>
  PROVE  Kept'
<1>1. /\ Numbers(head) \subseteq Numbers(head')
      /\ Numbers(head') \subseteq Numbers(head) \cup {orig[pick].n}
      /\ settled \subseteq settled'
      /\ orig[pick].n \in settled' \cup Numbers(head')
      /\ pick' = pick + 1
  BY DEF Advances
<1>2. orig[pick].n \in Numbers(orig)
  BY DEF Advances, Numbers
<1>3. NothingDropped'
  <2> SUFFICES ASSUME NEW s \in Threads, Replaying(s)', ~disturbed'
               PROVE  /\ branch' = orig'
                      /\ \A i \in DOMAIN orig' : i < pick' =>
                           orig'[i].n \in settled' \cup Numbers(head') \cup Numbers(remote')
                      /\ Numbers(head') \subseteq Numbers(remote') \cup Numbers(orig')
    BY DEF NothingDropped
  <2>1. ~disturbed /\ detached
    BY DEF Orderly, OneRebase
  <2>2. /\ branch = orig
        /\ \A i \in DOMAIN orig : i < pick =>
             orig[i].n \in settled \cup Numbers(head) \cup Numbers(remote)
        /\ Numbers(head) \subseteq Numbers(remote) \cup Numbers(orig)
    BY <2>1 DEF Kept, NothingDropped
  <2>3. branch' = orig
    BY <2>1, <2>2 DEF Advances
  <2>4. \A i \in DOMAIN orig : i < pick' =>
          orig[i].n \in settled' \cup Numbers(head') \cup Numbers(remote)
    <3> TAKE i \in DOMAIN orig
    <3>1. i \in Nat /\ pick \in Nat
      BY HistType DEF Orderly, Typed
    <3>2. i < pick' => i < pick \/ i = pick
      BY <1>1, <3>1
    <3> QED
      BY <1>1, <2>2, <3>2
  <2> QED
    BY <1>1, <1>2, <2>2, <2>3, <2>4
<1>4. Recovered'
  <2>1. Numbers(branch) \subseteq Numbers(branch') \cup Numbers(head')
    BY <1>1 DEF Advances, Orderly, Refs
  <2>2. Found \subseteq Found'
    BY <1>1, <2>1 DEF Found
  <2> QED
    BY <2>2 DEF Kept, Recovered
<1> QED
  BY <1>3, <1>4 DEF Kept

LEMMA StillKept ==
  ASSUME Kept, \A s \in Threads : Replaying(s)' => Replaying(s),
         UNCHANGED <<remote, branch, head, recovery, orig, pick, made, settled, disturbed>>
  PROVE  Kept'
<1>1. NothingDropped'
  BY DEF Kept, NothingDropped
<1>2. Recovered'
  BY DEF Kept, Recovered, Found
<1> QED
  BY <1>1, <1>2 DEF Kept

(* The branch goes to HEAD when all of it has been picked.                 *)
LEMMA FinishRebaseKept ==
  ASSUME Orderly, Kept, NEW t \in Threads, FinishRebase(t)
  PROVE  Kept'
<1>1. Replaying(t) /\ \A s \in Threads \ {t} : ~Replaying(s)
  BY DEF FinishRebase, Picking, Orderly, OneRebase, Replaying
<1>2. /\ pick > Len(orig)
      /\ \/ branch = orig /\ branch' = head /\ Elsewhere(t)
         \/ branch # orig /\ Goto(t, "abort") /\ UNCHANGED branch
      /\ UNCHANGED <<remote, head, recovery, orig, pick, made, settled, disturbed>>
  BY FinishRebaseMeaning DEF Orderly
<1>3. CASE branch = orig /\ branch' = head /\ Elsewhere(t)
  <2>1. NothingDropped'
    BY <1>1, <1>3 DEF NothingDropped, Elsewhere, Replaying
  <2>2. Recovered'
    <3> SUFFICES ASSUME ~disturbed PROVE Found \subseteq Found'
      BY <1>2 DEF Kept, Recovered
    <3>1. \A i \in DOMAIN orig : orig[i].n \in settled \cup Numbers(head) \cup Numbers(remote)
      <4>1. \A i \in DOMAIN orig : i < pick
        BY <1>2, HistType DEF Orderly, Typed
      <4> QED
        BY <1>1, <4>1 DEF Kept, NothingDropped
    <3>2. Numbers(branch) \subseteq settled \cup Numbers(head) \cup Numbers(remote)
      BY <1>3, <3>1 DEF Numbers
    <3> QED
      BY <1>2, <3>2 DEF Found
  <2> QED
    BY <2>1, <2>2 DEF Kept
<1>4. CASE branch # orig /\ Goto(t, "abort") /\ UNCHANGED branch
  <2>1. /\ pc'[t] = "abort"
        /\ \A s \in Threads \ {t} : pc'[s] = pc[s]
    BY <1>4, GotoMeaning DEF Orderly, Places
  <2>2. \A s \in Threads : Replaying(s)' => Replaying(s)
    BY <1>1, <2>1 DEF Replaying
  <2> QED
    BY <1>2, <1>4, <2>2, StillKept
<1> QED
  BY <1>2, <1>3, <1>4

(* What was on HEAD is on the branch that an abort goes back to.           *)
LEMMA AbortKept ==
  ASSUME Orderly, Kept, NEW t \in Threads, Abort(t)
  PROVE  Kept'
<1>1. /\ Replaying(t) /\ Elsewhere(t)
      /\ \/ UNCHANGED <<head, branch>>
         \/ head' = orig /\ branch' = orig
      /\ UNCHANGED <<remote, recovery, orig, pick, made, settled, disturbed>>
  BY AbortMeaning DEF Orderly
<1>2. CASE UNCHANGED <<head, branch>>
  <2>1. \A s \in Threads : Replaying(s)' => Replaying(s)
    BY <1>1 DEF Elsewhere, Replaying
  <2> QED
    BY <1>1, <1>2, <2>1, StillKept
<1>3. CASE head' = orig /\ branch' = orig
  <2>1. NothingDropped'
    BY <1>1 DEF NothingDropped, Elsewhere, Replaying, Orderly, OneRebase
  <2>2. Recovered'
    <3> SUFFICES ASSUME ~disturbed PROVE Found \subseteq Found'
      BY <1>1 DEF Kept, Recovered
    <3>1. branch = orig /\ Numbers(head) \subseteq Numbers(remote) \cup Numbers(orig)
      BY <1>1 DEF Kept, NothingDropped
    <3> QED
      BY <1>1, <1>3, <3>1 DEF Found
  <2> QED
    BY <2>1, <2>2 DEF Kept
<1> QED
  BY <1>1, <1>2, <1>3

LEMMA ReplayKept ==
  ASSUME Orderly, Kept, NEW t \in Threads,
         \/ PickClean(t) \/ PickStops(t) \/ Resolve(t)
         \/ \E editor \in Editors : Continue(t, editor)
  PROVE  Kept'
<1>1. CASE PickClean(t)
  <2>1. pick \in Nat \ {0} /\ Replaying(t)
    BY <1>1 DEF PickClean, Picking, Orderly, OneRebase, Replaying
  <2>2. /\ Advances(Merged)
        /\ UNCHANGED <<remote, detached, recovery, orig, pc, made, disturbed>>
    BY <1>1, <2>1, PickCleanMeaning DEF Orderly
  <2> QED
    BY <2>1, <2>2, AdvancesKept
<1>2. CASE PickStops(t)
  <2>1. pick \in Nat \ {0} /\ Replaying(t)
    BY <1>2 DEF PickStops, Picking, Orderly, OneRebase, Replaying
  <2>2. /\ \E place : Goto(t, place)
        /\ UNCHANGED <<remote, branch, head, recovery, orig, pick, made, settled, disturbed>>
    BY <1>2, <2>1, PickStopsMeaning DEF Orderly, refs, replay
  <2>3. \A s \in Threads \ {t} : pc'[s] = pc[s]
    BY <2>2 DEF Goto, Orderly, Typed
  <2>4. \A s \in Threads : Replaying(s)' => Replaying(s)
    BY <2>1, <2>3 DEF Replaying
  <2> QED
    BY <2>2, <2>4, StillKept
<1>3. CASE Resolve(t)
  <2>1. Replaying(t) /\ pc' = [pc EXCEPT ![t] = "continue"]
    BY <1>3 DEF Resolve, At, Goto, Replaying
  <2>2. UNCHANGED <<remote, branch, head, recovery, orig, pick, made, settled, disturbed>>
    BY <1>3 DEF Resolve, refs, replay, history
  <2>3. \A s \in Threads : Replaying(s)' => Replaying(s)
    BY <2>1 DEF Replaying, Orderly, Typed
  <2> QED
    BY <2>2, <2>3, StillKept
<1>4. ASSUME NEW editor \in Editors, Continue(t, editor) PROVE Kept'
  <2>1. /\ Replaying(t)
        /\ \/ Goto(t, "abort") /\ UNCHANGED <<head, branch, settled, pick>>
           \/ Goto(t, "repick") /\ Advances(stage)
        /\ UNCHANGED <<remote, detached, recovery, orig, made, disturbed>>
    BY <1>4, ContinueMeaning
  <2>2. \A s \in Threads \ {t} : pc'[s] = pc[s]
    BY <2>1 DEF Goto, Orderly, Typed
  <2>3. \A s \in Threads : Replaying(s)' => Replaying(s)
    BY <2>1, <2>2 DEF Replaying
  <2>4. CASE Advances(stage)
    BY <2>1, <2>2, <2>4, AdvancesKept
  <2>5. CASE UNCHANGED <<head, branch, settled, pick>>
    BY <2>1, <2>3, <2>5, StillKept
  <2> QED
    BY <2>1, <2>4, <2>5
<1> QED
  BY <1>1, <1>2, <1>3, <1>4

(* Every commit of the mirror can be found: on the branch, on HEAD, at the  *)
(* remote or under a recovery name, unless a rebase has dropped it because  *)
(* nothing of it was left, or one thread has disturbed a rebase of the other. *)
THEOREM CommitsKept == Spec => []CommitsRecoverable
<1>1. Init => Kept
  <2> SUFFICES ASSUME Init PROVE Kept
    OBVIOUS
  <2>1. NothingDropped
    BY DEF Init, NothingDropped, Replaying
  <2>2. 1 .. made = {}
    BY DEF Init
  <2> QED
    BY <2>1, <2>2 DEF Kept, Recovered
<1>2. Orderly /\ Kept /\ [Next]_vars => Kept'
  <2> SUFFICES ASSUME Orderly, Kept, [Next]_vars PROVE Kept'
    OBVIOUS
  <2>1. ASSUME NEW t \in Threads, Steps(t) PROVE Kept'
    BY <2>1, ReattachesKept, ExchangesKept, CommitAllKept, ForwardsKept, DetachesKept, ReplayKept,
       FinishRebaseKept, AbortKept DEF Steps
  <2>2. Typed
    BY DEF Orderly
  <2> QED
    BY <2>1, <2>2, SurroundingsKept, NextMeaning
<1>3. Kept => CommitsRecoverable
  BY RecoverableMeaning DEF Kept, Recovered, CommitsRecoverable
<1> QED
  BY <1>1, <1>2, <1>3, AlwaysOrderly, PTL DEF Spec

------------------------------------------------------------------------------
(* Files outside the prefix. *)

LEMMA UptoSame ==
  ASSUME NEW h \in Hist, NEW g \in Hist, NEW k \in 0 .. Len(h),
         k <= Len(g), \A i \in 1 .. k : g[i] = h[i]
  PROVE  Upto(g, k) = Upto(h, k)
<1>1. k \in 0 .. Len(g) /\ k \in Nat
  BY HistType
<1>2. /\ Upto(h, k) \in Hist /\ Len(Upto(h, k)) = k /\ \A j \in 1 .. k : Upto(h, k)[j] = h[j]
      /\ Upto(g, k) \in Hist /\ Len(Upto(g, k)) = k /\ \A j \in 1 .. k : Upto(g, k)[j] = g[j]
  BY <1>1, UptoType
<1> QED
  BY <1>2, SeqEqual DEF Hist

LEMMA PartsGrow ==
  ASSUME NEW h \in Hist, NEW g1 \in Hist, NEW g2 \in Hist, NEW k \in Nat,
         Parts(h, k, g1), IsPrefix(g1, g2)
  PROVE  Parts(h, k, g2)
<1>1. k \in 0 .. Len(h)
  BY HistType DEF Parts
<1>2. Upto(h, k) \in Hist
  BY <1>1, UptoType
<1>3. IsPrefix(Upto(h, k), g2)
  BY <1>2, PrefixTransitive DEF Parts, Hist
<1> QED
  BY <1>3 DEF Parts

LEMMA PartsSelf ==
  ASSUME NEW h \in Hist
  PROVE  Len(h) \in 0 .. Len(h) /\ Parts(h, Len(h), h)
<1>1. Len(h) \in Nat /\ Len(h) \in 0 .. Len(h)
  BY HistType
<1>2. Upto(h, Len(h)) = h
  BY SubSeqFull DEF Upto, Hist
<1>3. IsPrefix(h, h)
  BY PrefixReflexive DEF Hist
<1>4. Len(h) + 1 .. Len(h) = {}
  BY <1>1
<1> QED
  BY <1>1, <1>2, <1>3, <1>4 DEF Parts

(* The tip, and every commit after the k-th, has the files outside of the  *)
(* k-th.                                                                   *)
LEMMA PartsBetween ==
  ASSUME NEW h \in Hist, NEW g, NEW k \in Nat, Parts(h, k, g),
         NEW i \in 0 .. Len(h), k <= i, NEW f \in Outside
  PROVE  TreeOf(Upto(h, i))[f] = TreeOf(Upto(h, k))[f]
<1>1. CASE i = k
  BY <1>1
<1>2. CASE i # k
  <2>1. i \in 1 .. Len(h) /\ i \in k + 1 .. Len(h)
    BY <1>2, HistType
  <2> QED
    BY <2>1, TreeOfUpto DEF Parts
<1> QED
  BY <1>1, <1>2

LEMMA PartsStep ==
  ASSUME NEW h \in Hist, NEW g, NEW k \in Nat, Parts(h, k, g),
         NEW i \in 1 .. Len(h), k < i, NEW f \in Outside
  PROVE  h[i].tree[f] = TreeOf(Upto(h, i - 1))[f]
<1>1. i \in Nat /\ i - 1 \in 0 .. Len(h) /\ i \in 0 .. Len(h) /\ k <= i - 1 /\ k <= i
  BY HistType
<1>2. TreeOf(Upto(h, i - 1))[f] = TreeOf(Upto(h, k))[f]
  BY <1>1, PartsBetween
<1>3. TreeOf(Upto(h, i))[f] = TreeOf(Upto(h, k))[f]
  BY <1>1, PartsBetween
<1> QED
  BY <1>2, <1>3, TreeOfUpto

LEMMA PartsContained ==
  ASSUME NEW h \in Hist, NEW g \in Hist, NEW k \in Nat, Parts(h, k, g), IsPrefix(g, h),
         NEW f \in Outside
  PROVE  TreeOf(h)[f] = TreeOf(g)[f]
<1>1. /\ Len(h) \in Nat /\ Len(g) \in Nat /\ Len(g) <= Len(h)
      /\ \A i \in 1 .. Len(g) : h[i] = g[i]
  BY HistType, PrefixMeaning DEF Hist
<1>2. k <= Len(g)
  <2>1. k \in 0 .. Len(h) /\ Upto(h, k) \in Hist /\ Len(Upto(h, k)) = k
    BY <1>1, UptoType DEF Parts
  <2> QED
    BY <2>1, PrefixMeaning DEF Parts, Hist
<1>3. Upto(h, Len(h)) = h /\ Upto(g, Len(g)) = g
  BY SubSeqFull DEF Upto, Hist
<1>4. Upto(h, Len(g)) = Upto(g, Len(g))
  BY <1>1, UptoSame, Len(g) \in 0 .. Len(g)
<1>5. Len(h) \in 0 .. Len(h) /\ Len(g) \in 0 .. Len(h) /\ k <= Len(h)
  BY <1>1, <1>2
<1>6. TreeOf(Upto(h, Len(h)))[f] = TreeOf(Upto(h, Len(g)))[f]
  BY <1>2, <1>5, PartsBetween
<1> QED
  BY <1>3, <1>4, <1>6

LEMMA PartsAppend ==
  ASSUME NEW h \in Hist, NEW g \in Hist, NEW k \in Nat, Parts(h, k, g),
         NEW c \in Commit, \A f \in Outside : c.tree[f] = TreeOf(h)[f]
  PROVE  Parts(Append(h, c), k, g)
<1> DEFINE a == Append(h, c)
<1>1. /\ a \in Hist /\ Len(a) = Len(h) + 1
      /\ a[Len(h) + 1] = c /\ \A i \in 1 .. Len(h) : a[i] = h[i]
  BY AppendCommit
<1>2. Len(h) \in Nat /\ k <= Len(h) /\ k \in 0 .. Len(h)
  BY HistType DEF Parts
<1> HIDE DEF a
<1>3. Upto(a, k) = Upto(h, k)
  BY <1>1, <1>2, UptoSame
<1>4. Upto(h, Len(h)) = h /\ Len(h) \in 0 .. Len(h)
  BY <1>2, SubSeqFull DEF Upto, Hist
<1>5. \A f \in Outside : c.tree[f] = TreeOf(Upto(h, k))[f]
  BY <1>2, <1>4, PartsBetween
<1>6. \A i \in k + 1 .. Len(a) : \A f \in Outside : a[i].tree[f] = TreeOf(Upto(a, k))[f]
  <2> TAKE i \in k + 1 .. Len(a)
  <2>1. Len(a) = Len(h) + 1
    BY <1>1
  <2>2. CASE i = Len(h) + 1
    BY <1>1, <1>3, <1>5, <2>2
  <2>3. CASE i # Len(h) + 1
    <3>1. i \in k + 1 .. Len(h) /\ i \in 1 .. Len(h)
      BY <1>2, <2>1, <2>3
    <3> QED
      BY <1>1, <1>3, <3>1 DEF Parts
  <2> QED
    BY <2>2, <2>3
<1>7. Parts(a, k, g)
  BY <1>1, <1>2, <1>3, <1>6 DEF Parts
<1> QED
  BY <1>7 DEF a

LEMMA PartsBeforeFork ==
  ASSUME NEW h \in Hist, NEW g \in Hist, NEW k \in Nat, Parts(h, k, g)
  PROVE  k <= Fork(h, g)
BY HistType, ForkMeaning DEF Parts

LEMMA EmptyParts ==
  ASSUME NEW g \in Hist
  PROVE  Parts(<<>>, 0, g) /\ Parts(First, 0, g)
<1>1. Empty \in Tree
  BY DEF Empty, Tree, Text
<1>2. [n |-> 0, tree |-> Empty] \in Commit
  BY <1>1 DEF Commit
<1>3. <<>> \in Hist /\ First \in Hist /\ Len(First) = 1 /\ Len(<<>>) = 0
  BY <1>2, EmptySeq DEF Hist, First
<1>4. /\ Upto(<<>>, 0) \in Hist /\ Len(Upto(<<>>, 0)) = 0
      /\ Upto(First, 0) \in Hist /\ Len(Upto(First, 0)) = 0
  BY <1>3, UptoType, 0 \in 0 .. 0, 0 \in 0 .. 1
<1>5. Upto(First, 0) = <<>> /\ Upto(<<>>, 0) = <<>>
  BY <1>4, HistType
<1>6. IsPrefix(<<>>, g)
  <2>1. Len(g) \in Nat /\ Len(<<>>) <= Len(g) /\ \A i \in 1 .. Len(<<>>) : <<>>[i] = g[i]
    BY <1>3, HistType
  <2> QED
    BY <1>3, <2>1, PrefixMeaning DEF Hist
<1>7. \A i \in 0 + 1 .. Len(First) : \A f \in Outside : First[i].tree[f] = TreeOf(<<>>)[f]
  BY <1>3 DEF First, TreeOf
<1>8. 0 + 1 .. Len(<<>>) = {}
  BY <1>3
<1> QED
  BY <1>3, <1>5, <1>6, <1>7, <1>8 DEF Parts

Foreign == OutsideSynced /\ OutsideKept

(* Parts of OutsideSynced that most steps leave alone.                     *)
Parted  == \A h \in {branch, head, orig} : \E k \in 0 .. Len(h) : Parts(h, k, remote)
Unpicked == \A t \in Threads : Replaying(t) => \E k \in 0 .. pick - 1 : Parts(orig, k, remote)
Synced == \A f \in Outside :
            f \notin unmerged /\ tree[f] = TreeOf(head)[f] /\ stage[f] = TreeOf(head)[f]

LEMMA ForeignParts == Foreign <=> Parted /\ Unpicked /\ Synced /\ OutsideKept
BY DEF Foreign, OutsideSynced, Parted, Unpicked, Synced

(* Growth of the remote leaves a rebase's rest as it was.                  *)
LEMMA UnpickedStays ==
  ASSUME Typed, Unpicked, remote' \in Hist, IsPrefix(remote, remote'), UNCHANGED orig,
         \A s \in Threads : Replaying(s)' =>
            Replaying(s) /\ (pick' = pick \/ (pick \in Nat /\ pick' = pick + 1))
  PROVE  Unpicked'
<1> SUFFICES ASSUME NEW s \in Threads, Replaying(s)'
             PROVE  \E k \in 0 .. pick' - 1 : Parts(orig, k, remote')
  BY DEF Unpicked
<1>1. PICK k \in 0 .. pick - 1 : Parts(orig, k, remote)
  BY DEF Unpicked
<1>2. Parts(orig, k, remote')
  BY <1>1, PartsGrow DEF Typed
<1>3. k \in 0 .. pick' - 1
  BY <1>1 DEF Typed
<1> QED
  BY <1>2, <1>3

LEMMA PartedGrows ==
  ASSUME Typed, Parted, remote' \in Hist, IsPrefix(remote, remote'),
         NEW h \in {branch, head, orig}
  PROVE  \E k \in 0 .. Len(h) : Parts(h, k, remote')
<1>1. PICK k \in 0 .. Len(h) : Parts(h, k, remote)
  BY DEF Parted
<1>2. h \in Hist /\ k \in Nat
  BY <1>1, HistType DEF Typed
<1> QED
  BY <1>1, <1>2, PartsGrow DEF Typed

LEMMA RemoteParted ==
  ASSUME Typed
  PROVE  IsPrefix(remote, remote) /\ \E k \in 0 .. Len(remote) : Parts(remote, k, remote)
BY PartsSelf, PrefixReflexive DEF Typed, Hist

LEMMA UnseenForeign == Orderly /\ Foreign /\ Unseen => Foreign'
<1> SUFFICES ASSUME Orderly, Foreign, Unseen PROVE Foreign'
  OBVIOUS
<1>1. UNCHANGED <<remote, branch, head, orig, pick, stage, tree, unmerged, theirs>>
  BY DEF Unseen, refs, replay, files
<1>2. \A t \in Threads : Replaying(t)' => Replaying(t)
  BY DEF Unseen, Replaying, control
<1> QED
  BY <1>1, <1>2 DEF Foreign, OutsideSynced, OutsideKept

LEMMA WriteForeign ==
  ASSUME Orderly, Foreign, NEW f \in Own, NEW v \in Texts \cup {None}, Write(f, v)
  PROVE  Foreign'
<1>1. /\ tree' = [tree EXCEPT ![f] = v]
      /\ UNCHANGED <<remote, branch, head, orig, pick, stage, unmerged, theirs, pc>>
  BY DEF Write, refs, replay, history, control
<1>2. \A g \in Outside : g # f /\ tree'[g] = tree[g]
  BY <1>1, GitAssumption DEF Orderly, Typed, Tree, Files
<1> QED
  BY <1>1, <1>2 DEF Foreign, OutsideSynced, OutsideKept, Replaying

LEMMA OtherPushForeign ==
  ASSUME Orderly, Foreign, NEW f \in Files, NEW v \in OtherTexts \cup {None}, OtherPush(f, v)
  PROVE  Foreign'
<1> DEFINE c == [n |-> 0, tree |-> [TreeOf(remote) EXCEPT ![f] = v]]
<1>1. /\ remote' = Append(remote, c)
      /\ theirs' = [g \in Outside |-> IF g = f THEN v ELSE theirs[g]]
      /\ UNCHANGED <<branch, head, orig, pick, stage, tree, unmerged, pc>>
  BY DEF OtherPush, refs, files, replay, control
<1>2. TreeOf(remote) \in Tree
  BY TreeOfType DEF Orderly, Typed
<1>3. c \in Commit
  BY <1>2 DEF Tree, Text, Commit
<1>4. remote' \in Hist /\ IsPrefix(remote, remote') /\ TreeOf(remote') = [TreeOf(remote) EXCEPT ![f] = v]
  BY <1>1, <1>3, AppendCommit DEF Orderly, Typed
<1>5. OutsideKept'
  BY <1>1, <1>2, <1>4 DEF Foreign, OutsideKept, Tree, Files
<1>6. Parted /\ Unpicked /\ Synced /\ Typed
  BY ForeignParts DEF Orderly
<1>7. Parted'
  <2>1. \A h \in {branch, head, orig} : \E k \in 0 .. Len(h) : Parts(h, k, remote')
    BY <1>4, <1>6, PartedGrows
  <2> QED
    BY <1>1, <2>1 DEF Parted
<1>8. Unpicked'
  BY <1>1, <1>4, <1>6, UnpickedStays DEF Replaying
<1>9. Synced'
  BY <1>1, <1>6 DEF Synced
<1> QED
  BY <1>5, <1>7, <1>8, <1>9 DEF Foreign, OutsideSynced, Parted, Unpicked, Synced

LEMMA ReattachesForeign ==
  ASSUME Orderly, Foreign, NEW t \in Threads, Reattaches(t)
  PROVE  Foreign'
<1>1. branch' = head /\ head' = head
  BY DEF Reattaches, EnsureBranch
<1>2. /\ Elsewhere(t)
      /\ UNCHANGED <<remote, orig, pick, stage, tree, unmerged, theirs>>
  BY DEF Reattaches, files, replay
<1>3. \A s \in Threads : Replaying(s)' => Replaying(s)
  BY <1>2 DEF Elsewhere, Replaying
<1> QED
  BY <1>1, <1>2, <1>3 DEF Foreign, OutsideSynced, OutsideKept

(* A push that the remote accepts brings it no change outside.             *)
LEMMA ExchangesForeign ==
  ASSUME Orderly, Foreign, NEW t \in Threads, Exchanges(t)
  PROVE  Foreign'
<1>1. /\ Elsewhere(t)
      /\ remote' = remote \/ (IsPrefix(remote, branch) /\ remote' = branch)
      /\ UNCHANGED <<branch, head, orig, pick, stage, tree, unmerged, theirs>>
  BY DEF Exchanges, refs, files, replay
<1>2. Parted /\ Unpicked /\ Synced /\ OutsideKept /\ Typed
  BY ForeignParts DEF Orderly
<1>3. remote' \in Hist /\ IsPrefix(remote, remote')
  BY <1>1, <1>2, RemoteParted DEF Typed
<1>4. OutsideKept'
  <2>1. CASE remote' = remote
    BY <1>1, <1>2, <2>1 DEF OutsideKept
  <2>2. CASE IsPrefix(remote, branch) /\ remote' = branch
    <3>1. PICK k \in 0 .. Len(branch) : Parts(branch, k, remote)
      BY <1>2 DEF Parted
    <3>2. k \in Nat /\ branch \in Hist /\ remote \in Hist
      BY <1>2, <3>1, HistType DEF Typed
    <3>3. \A f \in Outside : TreeOf(branch)[f] = TreeOf(remote)[f]
      BY <2>2, <3>1, <3>2, PartsContained
    <3> QED
      BY <1>1, <1>2, <2>2, <3>3 DEF OutsideKept
  <2> QED
    BY <1>1, <2>1, <2>2
<1>5. Parted'
  <2>1. \A h \in {branch, head, orig} : \E k \in 0 .. Len(h) : Parts(h, k, remote')
    BY <1>2, <1>3, PartedGrows
  <2> QED
    BY <1>1, <2>1 DEF Parted
<1>6. Unpicked'
  <2>1. \A s \in Threads : Replaying(s)' => Replaying(s)
    BY <1>1 DEF Elsewhere, Replaying
  <2> QED
    BY <1>1, <1>2, <1>3, <2>1, UnpickedStays
<1>7. Synced'
  BY <1>1, <1>2 DEF Synced
<1> QED
  BY <1>4, <1>5, <1>6, <1>7 DEF Foreign, OutsideSynced, Parted, Unpicked, Synced

LEMMA CommitAllForeign ==
  ASSUME Orderly, Foreign, NEW t \in Threads, CommitAll(t)
  PROVE  Foreign'
<1> DEFINE c == [n |-> made + 1, tree |-> tree]
<1>1. /\ Elsewhere(t) /\ head' \in Hist /\ TreeOf(head') = tree
      /\ branch' = IF detached THEN branch ELSE head'
      /\ stage' = tree /\ unmerged' = {}
      /\ UNCHANGED <<remote, tree, orig, pick>>
  BY CommitAllMeaning
<1>2. head' = Append(head, c) /\ UNCHANGED theirs
  BY DEF CommitAll
<1>3. Parted /\ Unpicked /\ Synced /\ OutsideKept /\ Typed
  BY ForeignParts DEF Orderly
<1>4. c \in Commit
  BY <1>3 DEF Typed, Commit
<1>5. \E k \in 0 .. Len(head') : Parts(head', k, remote)
  <2>1. PICK k \in 0 .. Len(head) : Parts(head, k, remote)
    BY <1>3 DEF Parted
  <2>2. k \in Nat /\ Len(head') = Len(head) + 1 /\ Len(head) \in Nat
    BY <1>2, <1>3, <1>4, <2>1, HistType, AppendCommit DEF Typed
  <2>3. \A f \in Outside : c.tree[f] = TreeOf(head)[f]
    BY <1>3 DEF Synced
  <2>4. Parts(head', k, remote)
    <3> HIDE DEF c
    <3> QED
      BY <1>2, <1>3, <1>4, <2>1, <2>2, <2>3, PartsAppend DEF Typed
  <2> QED
    BY <2>1, <2>2, <2>4
<1>6. Parted'
  BY <1>1, <1>3, <1>5 DEF Parted
<1>7. Unpicked'
  <2>1. \A s \in Threads : Replaying(s)' => Replaying(s)
    BY <1>1 DEF Elsewhere, Replaying
  <2>2. remote' \in Hist /\ IsPrefix(remote, remote')
    BY <1>1, <1>3, RemoteParted DEF Typed
  <2> QED
    BY <1>1, <1>3, <2>1, <2>2, UnpickedStays
<1>8. Synced'
  BY <1>1 DEF Synced
<1>9. OutsideKept'
  BY <1>1, <1>2, <1>3 DEF OutsideKept
<1> QED
  BY <1>6, <1>7, <1>8, <1>9 DEF Foreign, OutsideSynced, Parted, Unpicked, Synced

LEMMA ForwardsForeign ==
  ASSUME Orderly, Foreign, NEW t \in Threads, Forwards(t)
  PROVE  Foreign'
<1>1. /\ Elsewhere(t) /\ head' = remote
      /\ branch' = IF detached THEN branch ELSE remote
      /\ UNCHANGED <<remote, unmerged, orig, pick, theirs>>
  BY DEF Forwards, replay
<1>2. Parted /\ Unpicked /\ Synced /\ OutsideKept /\ Typed
  BY ForeignParts DEF Orderly
<1>3. IsPrefix(remote, remote) /\ \E k \in 0 .. Len(remote) : Parts(remote, k, remote)
  BY <1>2, RemoteParted
<1>4. Parted'
  BY <1>1, <1>2, <1>3 DEF Parted
<1>5. Unpicked'
  <2>1. \A s \in Threads : Replaying(s)' => Replaying(s)
    BY <1>1 DEF Elsewhere, Replaying
  <2> QED
    BY <1>1, <1>2, <1>3, <2>1, UnpickedStays DEF Typed
<1>6. Synced'
  <2>1. \A f \in Files :
          /\ stage'[f] = IF TreeOf(remote)[f] # TreeOf(head)[f] THEN TreeOf(remote)[f] ELSE stage[f]
          /\ tree'[f] = IF TreeOf(remote)[f] # TreeOf(head)[f] THEN TreeOf(remote)[f] ELSE tree[f]
    BY DEF Forwards
  <2> QED
    BY <1>1, <1>2, <2>1 DEF Synced, Files
<1>7. OutsideKept'
  BY <1>1, <1>2 DEF OutsideKept
<1> QED
  BY <1>4, <1>5, <1>6, <1>7 DEF Foreign, OutsideSynced, Parted, Unpicked, Synced

LEMMA DetachesForeign ==
  ASSUME Orderly, Foreign, NEW t \in Threads, Detaches(t)
  PROVE  Foreign'
<1>1. /\ head' = remote /\ orig' = branch /\ pick' = Fork(branch, remote) + 1
      /\ tree' = CheckedOut(TreeOf(remote)) /\ stage' = TreeOf(remote)
      /\ UNCHANGED <<remote, branch, unmerged, theirs>>
  BY DEF Detaches
<1>2. Parted /\ Unpicked /\ Synced /\ OutsideKept /\ Typed
  BY ForeignParts DEF Orderly
<1>3. Parted'
  BY <1>1, <1>2, RemoteParted DEF Parted
<1>4. Unpicked'
  <2>1. PICK k \in 0 .. Len(branch) : Parts(branch, k, remote)
    BY <1>2 DEF Parted
  <2>2. k \in Nat /\ Fork(branch, remote) \in Nat
    BY <1>2, <2>1, HistType, ForkMeaning DEF Typed
  <2>3. k <= Fork(branch, remote)
    BY <1>2, <2>1, <2>2, PartsBeforeFork DEF Typed
  <2>4. k \in 0 .. pick' - 1
    BY <1>1, <2>2, <2>3
  <2> QED
    BY <1>1, <2>1, <2>4 DEF Unpicked
<1>5. Synced'
  <2>1. \A f \in Outside : tree'[f] = TreeOf(remote)[f]
    BY <1>1, <1>2 DEF CheckedOut, Synced, Files
  <2> QED
    BY <1>1, <1>2, <2>1 DEF Synced
<1>6. OutsideKept'
  BY <1>1, <1>2 DEF OutsideKept
<1> QED
  BY <1>3, <1>4, <1>5, <1>6 DEF Foreign, OutsideSynced, Parted, Unpicked, Synced

(* A commit that leaves the files outside alone goes on HEAD or is dropped. *)
LEMMA AdvancesForeign ==
  ASSUME Orderly, Foreign, NEW t \in Threads, NEW u, Replaying(t), Advances(u),
         \A f \in Outside : u[f] = TreeOf(head)[f],
         \A s \in Threads \ {t} : pc'[s] = pc[s],
         UNCHANGED <<remote, orig>>
  PROVE  /\ Parted' /\ Unpicked'
         /\ \A f \in Outside : TreeOf(head')[f] = TreeOf(head)[f]
<1>1. Parted /\ Unpicked /\ Typed
  BY ForeignParts DEF Orderly
<1>2. /\ \E k \in 0 .. Len(head') : Parts(head', k, remote)
      /\ \A f \in Outside : TreeOf(head')[f] = TreeOf(head)[f]
      /\ branch' \in {branch, head'}
  <2>1. CASE UNCHANGED <<head, branch>>
    BY <1>1, <2>1 DEF Parted
  <2>2. CASE head' = Append(head, [orig[pick] EXCEPT !.tree = u])
             /\ branch' = IF detached THEN branch ELSE head'
    <3> DEFINE c == [orig[pick] EXCEPT !.tree = u]
    <3>1. c \in Commit /\ c.tree = u
      <4>1. orig[pick] \in Commit /\ u \in Tree
        BY DEF Advances
      <4> QED
        BY <4>1 DEF Commit
    <3>2. head' = Append(head, c)
      BY <2>2
    <3> HIDE DEF c
    <3>3. PICK k \in 0 .. Len(head) : Parts(head, k, remote)
      BY <1>1 DEF Parted
    <3>4. /\ k \in Nat /\ Len(head') = Len(head) + 1 /\ Len(head) \in Nat
          /\ TreeOf(head') = u
      <4>1. head \in Hist
        BY <1>1 DEF Typed
      <4>2. Len(head') = Len(head) + 1 /\ TreeOf(head') = c.tree
        BY <3>1, <3>2, <4>1, AppendCommit
      <4> QED
        BY <3>1, <3>3, <4>1, <4>2, HistType
    <3>5. Parts(head', k, remote)
      BY <1>1, <3>1, <3>2, <3>3, <3>4, PartsAppend DEF Typed
    <3>6. k \in 0 .. Len(head')
      BY <3>3, <3>4
    <3> QED
      BY <2>2, <3>4, <3>5, <3>6
  <2> QED
    BY <2>1, <2>2 DEF Advances
<1>3. Parted'
  BY <1>1, <1>2 DEF Parted
<1>4. Unpicked'
  <2>1. pick \in Nat /\ pick' = pick + 1
    BY <1>1 DEF Advances, Typed
  <2>2. \A s \in Threads : Replaying(s)' => Replaying(s)
    BY DEF Replaying
  <2>3. remote' \in Hist /\ IsPrefix(remote, remote')
    BY <1>1, RemoteParted DEF Typed
  <2> QED
    BY <1>1, <2>1, <2>2, <2>3, UnpickedStays
<1> QED
  BY <1>2, <1>3, <1>4

(* Nothing outside is contended: the commit under pick leaves it alone.    *)
LEMMA MergedOutside ==
  ASSUME Orderly, Foreign, NEW t \in Threads, Replaying(t), pick \in DOMAIN orig,
         NEW f \in Outside
  PROVE  Merged[f] = TreeOf(head)[f] /\ f \notin Conflicts
<1>1. Unpicked /\ Typed
  BY ForeignParts DEF Orderly
<1>2. PICK k \in 0 .. pick - 1 : Parts(orig, k, remote)
  BY <1>1 DEF Unpicked
<1>3. k \in Nat /\ k < pick /\ pick \in 1 .. Len(orig) /\ orig \in Hist
  BY <1>1, <1>2, HistType DEF Typed
<1>4. orig[pick].tree[f] = TreeOf(Upto(orig, pick - 1))[f]
  BY <1>2, <1>3, PartsStep
<1>5. Theirs3[f] = Base3[f]
  BY <1>4 DEF Theirs3, Base3
<1> QED
  BY <1>5 DEF Merged, Conflicts, Ours3, Files

LEMMA PickCleanForeign ==
  ASSUME Orderly, Foreign, NEW t \in Threads, PickClean(t)
  PROVE  Foreign'
<1>1. pick \in Nat \ {0} /\ Replaying(t)
  BY DEF PickClean, Picking, Orderly, OneRebase, Replaying
<1>2. /\ Advances(Merged)
      /\ stage' = Merged
      /\ tree' = [f \in Files |-> IF Merged[f] # Ours3[f] THEN Merged[f] ELSE tree[f]]
      /\ UNCHANGED <<remote, unmerged, orig, pc, theirs>>
  BY <1>1, PickCleanMeaning DEF Orderly
<1>3. \A f \in Outside : Merged[f] = TreeOf(head)[f]
  BY <1>1, <1>2, MergedOutside DEF Advances
<1>4. Parted /\ Unpicked /\ Synced /\ OutsideKept
  BY ForeignParts
<1>5. Parted' /\ Unpicked' /\ \A f \in Outside : TreeOf(head')[f] = TreeOf(head)[f]
  BY <1>1, <1>2, <1>3, AdvancesForeign
<1>6. Synced'
  <2>1. \A f \in Outside : tree'[f] = tree[f] /\ stage'[f] = Merged[f]
    BY <1>2, <1>3 DEF Files, Ours3
  <2> QED
    BY <1>2, <1>3, <1>4, <1>5, <2>1 DEF Synced
<1>7. OutsideKept'
  BY <1>2, <1>4 DEF OutsideKept
<1> QED
  BY <1>5, <1>6, <1>7 DEF Foreign, OutsideSynced, Parted, Unpicked, Synced

LEMMA ContinueForeign ==
  ASSUME Orderly, Foreign, NEW t \in Threads, NEW editor \in Editors, Continue(t, editor)
  PROVE  Foreign'
<1>1. /\ Replaying(t)
      /\ \/ Goto(t, "abort") /\ UNCHANGED <<head, branch, settled, pick>>
         \/ Goto(t, "repick") /\ Advances(stage)
      /\ UNCHANGED <<remote, stage, tree, unmerged, orig, theirs>>
  BY ContinueMeaning
<1>2. Parted /\ Unpicked /\ Synced /\ OutsideKept
  BY ForeignParts
<1>3. \A s \in Threads \ {t} : pc'[s] = pc[s]
  BY <1>1 DEF Goto, Orderly, Typed
<1>4. Parted' /\ Unpicked' /\ \A f \in Outside : TreeOf(head')[f] = TreeOf(head)[f]
  <2>1. CASE Advances(stage)
    <3>1. \A f \in Outside : stage[f] = TreeOf(head)[f]
      BY <1>2 DEF Synced
    <3> QED
      BY <1>1, <1>3, <2>1, <3>1, AdvancesForeign
  <2>2. CASE UNCHANGED <<head, branch, settled, pick>>
    <3>1. \A s \in Threads : Replaying(s)' => Replaying(s)
      BY <1>1, <1>3 DEF Replaying
    <3> QED
      BY <1>1, <1>2, <2>2, <3>1 DEF Parted, Unpicked
  <2> QED
    BY <1>1, <2>1, <2>2
<1>5. Synced' /\ OutsideKept'
  BY <1>1, <1>2, <1>4 DEF Synced, OutsideKept
<1> QED
  BY <1>4, <1>5 DEF Foreign, OutsideSynced, Parted, Unpicked, Synced

(* The files and the place of a thread change, no history.                 *)
LEMMA FilesForeign ==
  ASSUME Orderly, Foreign, \A s \in Threads : Replaying(s)' => Replaying(s),
         UNCHANGED <<remote, branch, head, orig, pick, theirs>>,
         \A f \in Outside : /\ f \notin unmerged'
                            /\ tree'[f] \in {tree[f], TreeOf(head)[f]}
                            /\ stage'[f] \in {stage[f], TreeOf(head)[f]}
  PROVE  Foreign'
<1>1. Parted /\ Unpicked /\ Synced /\ OutsideKept
  BY ForeignParts
<1>2. Parted' /\ Unpicked' /\ OutsideKept'
  BY <1>1 DEF Parted, Unpicked, OutsideKept
<1>3. Synced'
  BY <1>1 DEF Synced
<1> QED
  BY <1>2, <1>3 DEF Foreign, OutsideSynced, Parted, Unpicked, Synced

LEMMA PickStopsForeign ==
  ASSUME Orderly, Foreign, NEW t \in Threads, PickStops(t)
  PROVE  Foreign'
<1>1. pick \in Nat \ {0} /\ Replaying(t)
  BY DEF PickStops, Picking, Orderly, OneRebase, Replaying
<1>2. /\ pick \in DOMAIN orig
      /\ UNCHANGED files \/ LeavesConflicts
      /\ \E place : Goto(t, place)
      /\ UNCHANGED <<remote, branch, head, orig, pick, theirs>>
  BY <1>1, PickStopsMeaning DEF Orderly, refs, replay
<1>3. \A s \in Threads : Replaying(s)' => Replaying(s)
  <2>1. \A s \in Threads \ {t} : pc'[s] = pc[s]
    BY <1>2 DEF Goto, Orderly, Typed
  <2> QED
    BY <1>1, <2>1 DEF Replaying
<1>4. Synced
  BY ForeignParts
<1>5. \A f \in Outside : /\ f \notin unmerged'
                         /\ tree'[f] \in {tree[f], TreeOf(head)[f]}
                         /\ stage'[f] \in {stage[f], TreeOf(head)[f]}
  <2>1. CASE UNCHANGED files
    BY <1>4, <2>1 DEF Synced, files
  <2>2. CASE LeavesConflicts
    <3> TAKE f \in Outside
    <3>1. Merged[f] = TreeOf(head)[f] /\ f \notin Conflicts
      BY <1>1, <1>2, MergedOutside
    <3> QED
      BY <2>2, <3>1 DEF LeavesConflicts, Files
  <2> QED
    BY <1>2, <2>1, <2>2
<1> QED
  BY <1>2, <1>3, <1>5, FilesForeign

LEMMA ResolveForeign ==
  ASSUME Orderly, Foreign, NEW t \in Threads, Resolve(t)
  PROVE  Foreign'
<1>1. pick \in DOMAIN orig /\ Replaying(t)
  BY HistType DEF Resolve, At, Orderly, OneRebase, Replaying, Typed
<1>2. /\ Goto(t, "continue") /\ unmerged' \subseteq unmerged
      /\ \A f \in Files : f \notin unmerged => stage'[f] = stage[f] /\ tree'[f] = tree[f]
      /\ UNCHANGED <<remote, branch, head, orig, pick, theirs>>
  BY <1>1, ResolveMeaning DEF Orderly, refs, replay
<1>3. \A s \in Threads : Replaying(s)' => Replaying(s)
  <2>1. \A s \in Threads \ {t} : pc'[s] = pc[s]
    BY <1>2 DEF Goto, Orderly, Typed
  <2> QED
    BY <1>1, <2>1 DEF Replaying
<1>4. Synced
  BY ForeignParts
<1>5. \A f \in Outside : /\ f \notin unmerged'
                         /\ tree'[f] \in {tree[f], TreeOf(head)[f]}
                         /\ stage'[f] \in {stage[f], TreeOf(head)[f]}
  BY <1>2, <1>4 DEF Synced, Files
<1> QED
  BY <1>2, <1>3, <1>5, FilesForeign

LEMMA FinishRebaseForeign ==
  ASSUME Orderly, Foreign, NEW t \in Threads, FinishRebase(t)
  PROVE  Foreign'
<1>1. /\ branch' \in {branch, head}
      /\ UNCHANGED <<remote, head, orig, pick, stage, tree, unmerged, theirs>>
      /\ Elsewhere(t) \/ Goto(t, "abort")
  BY FinishRebaseMeaning DEF Orderly, files
<1>2. \A s \in Threads : Replaying(s)' => Replaying(s)
  <2>1. \A s \in Threads \ {t} : pc'[s] = pc[s]
    BY <1>1 DEF Elsewhere, Goto, Orderly, Typed
  <2>2. Replaying(t)
    BY DEF FinishRebase, Picking, Replaying
  <2> QED
    BY <2>1, <2>2 DEF Replaying
<1>3. Parted /\ Unpicked /\ Synced /\ OutsideKept
  BY ForeignParts
<1>4. Parted' /\ Unpicked' /\ Synced' /\ OutsideKept'
  BY <1>1, <1>2, <1>3 DEF Parted, Unpicked, Synced, OutsideKept
<1> QED
  BY <1>4 DEF Foreign, OutsideSynced, Parted, Unpicked, Synced

LEMMA AbortForeign ==
  ASSUME Orderly, Foreign, NEW t \in Threads, Abort(t)
  PROVE  Foreign'
<1>1. /\ Replaying(t) /\ Elsewhere(t)
      /\ \/ UNCHANGED <<head, branch, stage, tree, unmerged>>
         \/ /\ head' = orig /\ branch' = orig
            /\ tree' = CheckedOut(TreeOf(orig)) /\ stage' = TreeOf(orig) /\ unmerged' = {}
      /\ UNCHANGED <<remote, orig, pick, theirs>>
  BY AbortMeaning DEF Orderly, files
<1>2. Parted /\ Unpicked /\ Synced /\ OutsideKept
  BY ForeignParts
<1>3. Parted' /\ OutsideKept'
  BY <1>1, <1>2 DEF Parted, OutsideKept
<1>4. Unpicked'
  BY <1>1, <1>2 DEF Unpicked, Elsewhere, Replaying
<1>5. Synced'
  <2>1. CASE UNCHANGED <<head, stage, tree, unmerged>>
    BY <1>2, <2>1 DEF Synced
  <2>2. CASE /\ head' = orig
             /\ tree' = CheckedOut(TreeOf(orig)) /\ stage' = TreeOf(orig) /\ unmerged' = {}
    <3>1. \A f \in Outside : CheckedOut(TreeOf(orig))[f] =
            IF stage[f] = None /\ TreeOf(orig)[f] = None THEN tree[f] ELSE TreeOf(orig)[f]
      BY <1>2 DEF Synced, CheckedOut, Files
    <3>2. \A f \in Outside : CheckedOut(TreeOf(orig))[f] = TreeOf(orig)[f]
      BY <1>2, <3>1 DEF Synced
    <3> QED
      BY <2>2, <3>2 DEF Synced
  <2> QED
    BY <1>1, <2>1, <2>2
<1> QED
  BY <1>3, <1>4, <1>5 DEF Foreign, OutsideSynced, Parted, Unpicked, Synced

LEMMA InitForeign == Init => Foreign
<1> SUFFICES ASSUME Init PROVE Foreign
  OBVIOUS
<1>1. Typed /\ remote \in Hist
  BY InitOrderly DEF Orderly, Typed
<1>2. /\ \/ head = remote
         \/ head = First
      /\ branch = head /\ orig = <<>>
  BY DEF Init
<1>3. \E k \in 0 .. Len(head) : Parts(head, k, remote)
  <2>1. CASE head = remote
    BY <1>1, <2>1, RemoteParted
  <2>2. CASE head = First
    <3>1. Len(head) \in Nat /\ Parts(head, 0, remote)
      BY <1>1, <2>2, EmptyParts DEF First
    <3> QED
      BY <3>1
  <2> QED
    BY <1>2, <2>1, <2>2
<1>4. \E k \in 0 .. Len(orig) : Parts(orig, k, remote)
  <2>1. Len(orig) = 0 /\ Parts(orig, 0, remote)
    BY <1>1, <1>2, EmptyParts
  <2> QED
    BY <2>1
<1>5. Parted
  BY <1>2, <1>3, <1>4 DEF Parted
<1>6. Unpicked /\ Synced /\ OutsideKept
  BY DEF Init, Unpicked, Synced, OutsideKept, Replaying
<1> QED
  BY <1>5, <1>6, ForeignParts

(* What others push outside the mirror's files is what the remote has, and  *)
(* no commit of the mirror ever takes it back: no commit that the remote    *)
(* does not have changes a file outside, and HEAD, index and working tree   *)
(* agree on all of them.                                                   *)
THEOREM OthersKept == Spec => []OutsideKept
<1>1. Orderly /\ Foreign /\ [Next]_vars => Foreign'
  <2> SUFFICES ASSUME Orderly, Foreign, [Next]_vars PROVE Foreign'
    OBVIOUS
  <2>1. CASE Surroundings
    BY <2>1, UnseenForeign, WriteForeign, OtherPushForeign DEF Surroundings
  <2>2. ASSUME NEW t \in Threads, Steps(t) PROVE Foreign'
    BY <2>2, ReattachesForeign, ExchangesForeign, CommitAllForeign, ForwardsForeign,
       DetachesForeign, PickCleanForeign, PickStopsForeign, FinishRebaseForeign, ResolveForeign,
       ContinueForeign, AbortForeign DEF Steps
  <2>3. Typed
    BY DEF Orderly
  <2> QED
    BY <2>1, <2>2, <2>3, NextMeaning
<1>2. Foreign => OutsideKept
  BY DEF Foreign
<1> QED
  BY <1>1, <1>2, InitForeign, AlwaysOrderly, PTL DEF Spec

------------------------------------------------------------------------------
(* Conflict markers. *)

LEMMA UnmarkedTip ==
  ASSUME NEW h \in Hist, Unmarked(h), NEW f \in Files
  PROVE  TreeOf(h)[f] # Markers
<1>1. CASE h = <<>>
  BY <1>1, GitAssumption DEF TreeOf, Empty
<1>2. CASE h # <<>>
  <2>1. Len(h) \in DOMAIN h
    BY <1>2, HistType
  <2> QED
    BY <1>2, <2>1 DEF TreeOf, Last, Unmarked
<1> QED
  BY <1>1, <1>2

LEMMA UnmarkedAppend ==
  ASSUME NEW h \in Hist, Unmarked(h), NEW c \in Commit, \A f \in Files : c.tree[f] # Markers
  PROVE  Unmarked(Append(h, c))
<1> DEFINE a == Append(h, c)
<1>1. /\ a \in Hist /\ Len(a) = Len(h) + 1
      /\ a[Len(h) + 1] = c /\ \A i \in 1 .. Len(h) : a[i] = h[i]
  BY AppendCommit
<1>2. Len(h) \in Nat /\ DOMAIN h = 1 .. Len(h) /\ DOMAIN a = 1 .. Len(h) + 1
  BY <1>1, HistType
<1> HIDE DEF a
<1>3. Unmarked(a)
  <2> SUFFICES ASSUME NEW i \in 1 .. Len(h) + 1, NEW f \in Files PROVE a[i].tree[f] # Markers
    BY <1>2 DEF Unmarked
  <2>1. CASE i = Len(h) + 1
    BY <1>1, <2>1
  <2>2. CASE i # Len(h) + 1
    <3>1. i \in 1 .. Len(h)
      BY <1>2, <2>2
    <3> QED
      BY <1>1, <1>2, <3>1 DEF Unmarked
  <2> QED
    BY <2>1, <2>2
<1> QED
  BY <1>3 DEF a

(* Nobody waits: the working tree is free of markers.                      *)
LEMMA NoMarkers ==
  ASSUME Clean, \A s \in Threads : pc[s] \notin {"resolve", "abort"}, NEW f \in Files
  PROVE  tree[f] # Markers
BY DEF Clean, Awaits

(* The three sides of a pick, and what is made of them.                    *)
LEMMA UnmarkedSides ==
  ASSUME Typed, Clean, pick \in DOMAIN orig, NEW f \in Files
  PROVE  Ours3[f] # Markers /\ Theirs3[f] # Markers /\ Merged[f] # Markers
<1>1. Ours3[f] # Markers
  BY UnmarkedTip DEF Typed, Clean, Ours3
<1>2. Theirs3[f] # Markers
  BY DEF Clean, Unmarked, Theirs3
<1> QED
  BY <1>1, <1>2 DEF Merged

(* A rebase that is left behind stays; a disturbance is never forgotten.   *)
Calm == ~disturbed /\ ~LeftBehind

LEMMA CalmBefore ==
  ASSUME Orderly, Surroundings \/ (\E t \in Threads : Steps(t)), Calm'
  PROVE  Calm
<1>1. CASE Unseen
  BY <1>1 DEF Unseen, Calm, LeftBehind, Replaying, replay, control
<1>2. ASSUME NEW f \in Own, NEW v \in Texts \cup {None}, Write(f, v) PROVE Calm
  BY <1>2 DEF Write, Calm, LeftBehind, Replaying, replay, control, history
<1>3. ASSUME NEW f \in Files, NEW v \in OtherTexts \cup {None}, OtherPush(f, v) PROVE Calm
  BY <1>3 DEF OtherPush, Calm, LeftBehind, Replaying, replay, control
<1>4. ASSUME NEW t \in Threads, Steps(t) PROVE Calm
  <2>1. ASSUME Elsewhere(t), ~Replaying(t), disturbed => disturbed', UNCHANGED rebasing
        PROVE  Calm
    BY <2>1 DEF Elsewhere, Calm, LeftBehind, Replaying
  <2>2. ASSUME Replaying(t), disturbed => disturbed' PROVE Calm
    BY <2>2 DEF Calm, LeftBehind
  <2>3. CASE Reattaches(t)
    <3>1. disturbed => disturbed'
      BY <2>3, EnsureBranchMeaning DEF Reattaches
    <3> QED
      BY <2>1, <2>3, <3>1 DEF Reattaches, replay
  <2>4. CASE Exchanges(t)
    BY <2>1, <2>4 DEF Exchanges, replay
  <2>5. CASE CommitAll(t)
    BY <2>1, <2>5, CommitAllMeaning
  <2>6. CASE Forwards(t)
    <3>1. disturbed => disturbed'
      BY <2>6, MovesHeadMeaning DEF Forwards
    <3> QED
      BY <2>1, <2>6, <3>1 DEF Forwards, replay
  <2>7. CASE Detaches(t)
    BY <2>7 DEF Detaches, Calm, LeftBehind
  <2>8. CASE PickClean(t) \/ PickStops(t) \/ FinishRebase(t)
    BY <2>2, <2>8 DEF PickClean, PickStops, FinishRebase, Picking, Replaying, history
  <2>9. CASE Resolve(t) \/ (\E editor \in Editors : Continue(t, editor)) \/ Abort(t)
    BY <2>2, <2>9 DEF Resolve, Continue, Abort, At, Replaying, history
  <2> QED
    BY <1>4, <2>3, <2>4, <2>5, <2>6, <2>7, <2>8, <2>9 DEF Steps
<1> QED
  BY <1>1, <1>2, <1>3, <1>4 DEF Surroundings

(* Files and HEAD stay, and so do those who wait.                          *)
LEMMA CleanStays ==
  ASSUME Clean, UNCHANGED <<head, orig, pick, stage, tree, unmerged>>,
         Unmarked(remote'), Unmarked(branch'),
         \A s \in Threads : pc[s] \in {"resolve", "abort"} => pc'[s] = pc[s]
  PROVE  Clean'
<1>1. \A f \in Files : \A s \in Threads : Awaits(s, f) => Awaits(s, f)'
  BY DEF Awaits, Ours3, Theirs3
<1> QED
  BY <1>1 DEF Clean

LEMMA UnseenClean == Orderly /\ Clean /\ Unseen /\ Calm' => Clean'
<1> SUFFICES ASSUME Orderly, Clean, Unseen, Calm' PROVE Clean'
  OBVIOUS
<1>1. UNCHANGED <<remote, branch, head, orig, pick, stage, tree, unmerged, rebasing>>
  BY DEF Unseen, refs, replay, files
<1>2. CASE UNCHANGED control
  BY <1>1, <1>2, CleanStays DEF Clean, control
<1>3. CASE \A s \in Threads : ~Replaying(s)'
  <2>1. ~rebasing
    BY <1>1, <1>3 DEF Calm, LeftBehind
  <2>2. \A s \in Threads : ~Replaying(s)
    BY <2>1 DEF Orderly, OneRebase
  <2>3. \A s \in Threads : pc[s] \notin {"resolve", "abort"}
    BY <2>2 DEF Replaying
  <2> QED
    BY <1>1, <2>3, CleanStays DEF Clean
<1> QED
  BY <1>2, <1>3 DEF Unseen

LEMMA WriteClean ==
  ASSUME Orderly, Clean, NEW f \in Own, NEW v \in Texts \cup {None}, Write(f, v)
  PROVE  Clean'
<1>1. /\ tree' = [tree EXCEPT ![f] = v]
      /\ UNCHANGED <<remote, branch, head, orig, pick, stage, unmerged, pc>>
  BY DEF Write, refs, replay, control
<1>2. v # Markers
  BY GitAssumption
<1>3. \A g \in Files : tree'[g] = Markers => tree[g] = Markers
  BY <1>1, <1>2 DEF Orderly, Typed, Tree
<1>4. \A g \in Files : \A s \in Threads : Awaits(s, g) => Awaits(s, g)'
  BY <1>1 DEF Awaits, Ours3, Theirs3
<1> QED
  BY <1>1, <1>3, <1>4 DEF Clean, Unmarked

LEMMA OtherPushClean ==
  ASSUME Orderly, Clean, NEW f \in Files, NEW v \in OtherTexts \cup {None}, OtherPush(f, v)
  PROVE  Clean'
<1> DEFINE c == [n |-> 0, tree |-> [TreeOf(remote) EXCEPT ![f] = v]]
<1>1. /\ remote' = Append(remote, c)
      /\ UNCHANGED <<branch, head, orig, pick, stage, tree, unmerged, pc>>
  BY DEF OtherPush, refs, files, replay, control
<1>2. TreeOf(remote) \in Tree /\ remote \in Hist /\ Unmarked(remote)
  BY TreeOfType DEF Orderly, Typed, Clean
<1>3. c \in Commit
  BY <1>2 DEF Tree, Text, Commit
<1>4. \A g \in Files : c.tree[g] # Markers
  BY <1>2, UnmarkedTip, GitAssumption DEF Tree
<1>5. Unmarked(remote')
  <2> HIDE DEF c
  <2> QED
    BY <1>1, <1>2, <1>3, <1>4, UnmarkedAppend
<1> QED
  BY <1>1, <1>5, CleanStays DEF Clean

LEMMA OutsideClean ==
  ASSUME Orderly, Clean, NEW t \in Threads, Reattaches(t) \/ Exchanges(t)
  PROVE  Clean'
<1>1. /\ ~Replaying(t) /\ Elsewhere(t)
      /\ UNCHANGED <<head, orig, pick, stage, tree, unmerged>>
      /\ branch' \in {branch, head} /\ remote' \in {remote, branch}
  BY DEF Reattaches, Exchanges, EnsureBranch, refs, files, replay
<1>2. \A s \in Threads : pc[s] \in {"resolve", "abort"} => pc'[s] = pc[s]
  BY <1>1 DEF Elsewhere, Replaying
<1> QED
  BY <1>1, <1>2, CleanStays DEF Clean

(* Whoever commits or forwards during a rebase of the other disturbs it.   *)
LEMMA CommitAllClean ==
  ASSUME Orderly, Clean, NEW t \in Threads, CommitAll(t), Calm'
  PROVE  Clean'
<1> DEFINE c == [n |-> made + 1, tree |-> tree]
<1>1. /\ ~Replaying(t)
      /\ branch' = IF detached THEN branch ELSE head'
      /\ stage' = tree
      /\ \A s \in Threads \ {t} : Replaying(s) => disturbed'
      /\ UNCHANGED <<remote, tree, orig>>
  BY CommitAllMeaning
<1>2. head' = Append(head, c)
  BY DEF CommitAll
<1>3. \A f \in Files : tree[f] # Markers
  <2>1. \A s \in Threads : pc[s] \notin {"resolve", "abort"}
    BY <1>1 DEF Calm, Replaying
  <2> QED
    BY <2>1, NoMarkers
<1>4. Unmarked(head')
  <2>1. c \in Commit /\ head \in Hist /\ Unmarked(head)
    BY DEF Orderly, Typed, Commit, Clean
  <2>2. \A f \in Files : c.tree[f] # Markers
    BY <1>3
  <2> HIDE DEF c
  <2> QED
    BY <1>2, <2>1, <2>2, UnmarkedAppend
<1> QED
  BY <1>1, <1>3, <1>4 DEF Clean

LEMMA ForwardsClean ==
  ASSUME Orderly, Clean, NEW t \in Threads, Forwards(t)
  PROVE  Clean'
<1>1. /\ head' = remote /\ branch' \in {branch, remote} /\ unmerged = {}
      /\ \A f \in Files : /\ stage'[f] \in {TreeOf(remote)[f], stage[f]}
                          /\ tree'[f] \in {TreeOf(remote)[f], tree[f]}
      /\ UNCHANGED <<remote, orig>>
  BY DEF Forwards, replay
<1>2. \A f \in Files : TreeOf(remote)[f] # Markers
  BY UnmarkedTip DEF Orderly, Typed, Clean
<1>3. \A f \in Files : tree[f] # Markers
  BY <1>1 DEF Clean
<1> QED
  BY <1>1, <1>2, <1>3 DEF Clean

LEMMA DetachesClean ==
  ASSUME Orderly, Clean, NEW t \in Threads, Detaches(t)
  PROVE  Clean'
<1>1. /\ head' = remote /\ orig' = branch
      /\ tree' = CheckedOut(TreeOf(remote)) /\ stage' = TreeOf(remote)
      /\ UNCHANGED <<remote, branch>>
  BY DEF Detaches
<1>2. \A s \in Threads : pc[s] \notin {"resolve", "abort"}
  BY DEF Detaches, Orderly, OneRebase, Replaying
<1>3. \A f \in Files : TreeOf(remote)[f] # Markers /\ tree[f] # Markers
  BY <1>2, UnmarkedTip, NoMarkers DEF Orderly, Typed, Clean
<1>4. \A f \in Files : tree'[f] # Markers
  BY <1>1, <1>3 DEF CheckedOut
<1> QED
  BY <1>1, <1>3, <1>4 DEF Clean

LEMMA AdvancesClean ==
  ASSUME Orderly, Clean, NEW u, Advances(u), \A f \in Files : u[f] # Markers
  PROVE  Unmarked(head') /\ Unmarked(branch')
<1>1. CASE UNCHANGED <<head, branch>>
  BY <1>1 DEF Clean
<1>2. CASE head' = Append(head, [orig[pick] EXCEPT !.tree = u])
           /\ branch' = IF detached THEN branch ELSE head'
  <2> DEFINE c == [orig[pick] EXCEPT !.tree = u]
  <2>1. c \in Commit /\ c.tree = u
    <3>1. orig[pick] \in Commit /\ u \in Tree
      BY DEF Advances
    <3> QED
      BY <3>1 DEF Commit
  <2>2. head' = Append(head, c) /\ head \in Hist /\ Unmarked(head)
    BY <1>2 DEF Orderly, Typed, Clean
  <2> HIDE DEF c
  <2>3. Unmarked(head')
    BY <2>1, <2>2, UnmarkedAppend
  <2> QED
    BY <1>2, <2>3 DEF Clean
<1> QED
  BY <1>1, <1>2 DEF Advances

(* The picking thread is the only one in a rebase: nobody waits.           *)
LEMMA PickingAlone ==
  ASSUME Orderly, NEW t \in Threads, pc[t] \in {"pick", "repick", "continue"}
  PROVE  \A s \in Threads : pc[s] \notin {"resolve", "abort"}
BY DEF Orderly, OneRebase, Replaying

LEMMA PickCleanClean ==
  ASSUME Orderly, Clean, NEW t \in Threads, PickClean(t)
  PROVE  Clean'
<1>1. pick \in Nat \ {0} /\ pc[t] \in {"pick", "repick"}
  BY DEF PickClean, Picking, Orderly, OneRebase, Replaying
<1>2. /\ Advances(Merged) /\ stage' = Merged
      /\ tree' = [f \in Files |-> IF Merged[f] # Ours3[f] THEN Merged[f] ELSE tree[f]]
      /\ UNCHANGED <<remote, orig>>
  BY <1>1, PickCleanMeaning DEF Orderly
<1>3. \A f \in Files : Merged[f] # Markers
  BY <1>2, UnmarkedSides DEF Advances, Orderly
<1>4. Unmarked(head') /\ Unmarked(branch')
  BY <1>2, <1>3, AdvancesClean
<1>5. \A f \in Files : tree[f] # Markers
  BY <1>1, PickingAlone, NoMarkers
<1>6. \A f \in Files : stage'[f] # Markers /\ tree'[f] # Markers
  BY <1>2, <1>3, <1>5
<1> QED
  BY <1>2, <1>4, <1>6 DEF Clean

LEMMA ContinueClean ==
  ASSUME Orderly, Clean, NEW t \in Threads, NEW editor \in Editors, Continue(t, editor)
  PROVE  Clean'
<1>1. /\ pc[t] = "continue"
      /\ UNCHANGED <<head, branch>> \/ Advances(stage)
      /\ UNCHANGED <<remote, stage, tree, orig>>
  BY ContinueMeaning
<1>2. Unmarked(head') /\ Unmarked(branch')
  BY <1>1, AdvancesClean DEF Clean
<1>3. \A f \in Files : tree[f] # Markers
  BY <1>1, PickingAlone, NoMarkers
<1> QED
  BY <1>1, <1>2, <1>3 DEF Clean

(* A stopped pick leaves markers, and a thread that waits.                 *)
LEMMA PickStopsClean ==
  ASSUME Orderly, Clean, NEW t \in Threads, PickStops(t)
  PROVE  Clean'
<1>1. pick \in Nat \ {0} /\ pc[t] \in {"pick", "repick"}
  BY DEF PickStops, Picking, Orderly, OneRebase, Replaying
<1>2. /\ pick \in DOMAIN orig
      /\ UNCHANGED files \/
           (LeavesConflicts /\ Goto(t, IF pc[t] = "repick" THEN "abort" ELSE "resolve"))
      /\ UNCHANGED <<remote, branch, head, orig, pick>>
  BY <1>1, PickStopsMeaning DEF Orderly, refs, replay
<1>3. \A f \in Files : tree[f] # Markers
  BY <1>1, PickingAlone, NoMarkers
<1>4. CASE UNCHANGED files
  BY <1>2, <1>3, <1>4 DEF Clean, files
<1>5. CASE LeavesConflicts /\ Goto(t, IF pc[t] = "repick" THEN "abort" ELSE "resolve")
  <2>1. \A f \in Files : Ours3[f] # Markers /\ Theirs3[f] # Markers /\ Merged[f] # Markers
    BY <1>2, UnmarkedSides DEF Orderly
  <2>2. pc'[t] \in {"abort", "resolve"}
    BY <1>5 DEF Goto, Orderly, Typed
  <2>3. ASSUME NEW f \in Files, tree'[f] = Markers
        PROVE  f \in unmerged' /\ Awaits(t, f)'
    <3>1. f \in Conflicts /\ Ours3[f] # None /\ Theirs3[f] # None
      BY <1>3, <1>5, <2>1, <2>3 DEF LeavesConflicts
    <3>2. Ours3' = Ours3 /\ Theirs3' = Theirs3
      BY <1>2 DEF Ours3, Theirs3
    <3> QED
      BY <1>5, <2>2, <3>1, <3>2 DEF LeavesConflicts, Awaits
  <2>4. \A f \in Files : stage'[f] # Markers
    BY <1>5, <2>1 DEF LeavesConflicts
  <2> QED
    BY <1>2, <2>3, <2>4 DEF Clean
<1> QED
  BY <1>2, <1>4, <1>5

(* The resolution takes every marker away.                                 *)
LEMMA ResolveClean ==
  ASSUME Orderly, Clean, NEW t \in Threads, Resolve(t)
  PROVE  Clean'
<1>1. pc[t] = "resolve" /\ pick \in DOMAIN orig
  BY HistType DEF Resolve, At, Orderly, OneRebase, Replaying, Typed
<1>2. /\ \A f \in Files : IF f \in unmerged /\ Side(f) # None
                          THEN stage'[f] = Side(f) /\ tree'[f] = Side(f)
                          ELSE stage'[f] = stage[f] /\ tree'[f] = tree[f]
      /\ UNCHANGED <<remote, branch, head, orig>>
  BY <1>1, ResolveMeaning DEF Orderly, refs, replay
<1>3. \A f \in Files : Side(f) # Markers
  BY <1>1, UnmarkedSides DEF Side, Orderly
<1>4. \A f \in Files : tree[f] = Markers => f \in unmerged /\ Side(f) # None
  <2> SUFFICES ASSUME NEW f \in Files, tree[f] = Markers PROVE f \in unmerged /\ Side(f) # None
    OBVIOUS
  <2>1. f \in unmerged /\ \E s \in Threads : Awaits(s, f)
    BY DEF Clean
  <2>2. Awaits(t, f)
    BY <1>1, <2>1 DEF Awaits, Orderly, OneRebase, Replaying
  <2> QED
    BY <1>1, <2>1, <2>2 DEF Awaits, Side
<1>5. \A f \in Files : stage'[f] # Markers /\ tree'[f] # Markers
  BY <1>2, <1>3, <1>4 DEF Clean
<1> QED
  BY <1>2, <1>5 DEF Clean

LEMMA FinishRebaseClean ==
  ASSUME Orderly, Clean, NEW t \in Threads, FinishRebase(t)
  PROVE  Clean'
<1>1. /\ branch' \in {branch, head}
      /\ UNCHANGED <<remote, head, orig, stage, tree>>
      /\ pc[t] \in {"pick", "repick"}
  BY FinishRebaseMeaning DEF Orderly, files, Picking
<1>2. \A f \in Files : tree[f] # Markers
  BY <1>1, PickingAlone, NoMarkers
<1> QED
  BY <1>1, <1>2 DEF Clean

(* An abort resets the conflicts, unless git refuses it, which leaves the  *)
(* rebase behind.                                                          *)
LEMMA AbortClean ==
  ASSUME Orderly, Clean, NEW t \in Threads, Abort(t), Calm'
  PROVE  Clean'
<1>1. /\ Replaying(t) /\ Elsewhere(t)
      /\ \/ UNCHANGED rebasing
         \/ /\ head' = orig /\ branch' = orig
            /\ tree' = CheckedOut(TreeOf(orig)) /\ stage' = TreeOf(orig)
      /\ UNCHANGED <<remote, orig>>
  BY AbortMeaning DEF Orderly
<1>2. ~UNCHANGED rebasing
  <2>1. rebasing /\ \A s \in Threads \ {t} : ~Replaying(s)
    BY <1>1 DEF Orderly, OneRebase
  <2>2. \A s \in Threads : ~Replaying(s)'
    BY <1>1, <2>1 DEF Elsewhere, Replaying
  <2> QED
    BY <2>1, <2>2 DEF Calm, LeftBehind
<1>3. \A f \in Files : TreeOf(orig)[f] # Markers
  BY UnmarkedTip DEF Orderly, Typed, Clean
<1>4. \A f \in Files : CheckedOut(TreeOf(orig))[f] # Markers
  BY <1>3 DEF CheckedOut, Clean
<1> QED
  BY <1>1, <1>2, <1>3, <1>4 DEF Clean

LEMMA InitClean == Init => Clean
<1> SUFFICES ASSUME Init PROVE Clean
  OBVIOUS
<1>1. /\ remote \in {<<>>, First, Base} /\ head \in {First, Base} /\ branch = head /\ orig = <<>>
      /\ stage = TreeOf(head) /\ tree = stage
  BY DEF Init
<1>2. Unmarked(<<>>)
  BY DEF Unmarked
<1>3. Unmarked(First)
  BY GitAssumption DEF Unmarked, First, Empty
<1>4. Unmarked(Base)
  <2>1. (CHOOSE t \in Texts : TRUE) \in Texts /\ (CHOOSE t \in OtherTexts : TRUE) \in OtherTexts
    BY GitAssumption
  <2> QED
    BY <2>1, GitAssumption DEF Unmarked, Base
<1>5. Unmarked(remote) /\ Unmarked(head) /\ Unmarked(branch) /\ Unmarked(orig)
  BY <1>1, <1>2, <1>3, <1>4
<1>6. \A f \in Files : tree[f] # Markers /\ stage[f] # Markers
  BY <1>1, <1>5, UnmarkedTip, InitOrderly DEF Orderly, Typed
<1> QED
  BY <1>5, <1>6 DEF Clean

(* A text with conflict markers gets into a commit only when a rebase has   *)
(* been left behind, because the process died in it or git refused to abort *)
(* it, or the other thread has stepped into it.                            *)
THEOREM MarkersStayOut == Spec => []MarkersNeedAnAccident
<1>1. Init => MarkersResolved
  BY InitClean DEF MarkersResolved
<1>2. Orderly /\ MarkersResolved /\ [Next]_vars => MarkersResolved'
  <2> SUFFICES ASSUME Orderly, MarkersResolved, [Next]_vars, Calm' PROVE Clean'
    BY DEF MarkersResolved, Calm
  <2>1. Surroundings \/ \E t \in Threads : Steps(t)
    BY NextMeaning DEF Orderly
  <2>2. Clean
    BY <2>1, CalmBefore DEF MarkersResolved, Calm
  <2>3. CASE Surroundings
    BY <2>2, <2>3, UnseenClean, WriteClean, OtherPushClean DEF Surroundings
  <2>4. ASSUME NEW t \in Threads, Steps(t) PROVE Clean'
    BY <2>2, <2>4, OutsideClean, CommitAllClean, ForwardsClean, DetachesClean, PickCleanClean,
       PickStopsClean, FinishRebaseClean, ResolveClean, ContinueClean, AbortClean DEF Steps
  <2> QED
    BY <2>1, <2>3, <2>4
<1>3. MarkersResolved => MarkersNeedAnAccident
  BY DEF MarkersResolved, MarkersNeedAnAccident, Clean, Unmarked
<1> QED
  BY <1>1, <1>2, <1>3, AlwaysOrderly, PTL DEF Spec

=============================================================================
