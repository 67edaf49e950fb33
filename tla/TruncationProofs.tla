------------------------- MODULE TruncationProofs -------------------------
(***************************************************************************)
(* What is proved of TruncationGate, for any number of files, any           *)
(* threshold and any window: the types, the two bounds on a burst, and that  *)
(* a file which was held back is asked for again.                          *)
(***************************************************************************)
EXTENDS TruncationGate, Extrema, SequenceTheorems, TLAPS

------------------------------------------------------------------------------
(* Lemmas on ages. *)

(* The deque is in the order of time: the oldest is at the left. *)
Descending(ages) == \A i, j \in 1 .. Len(ages) : i <= j => ages[i] >= ages[j]

LEMMA MinMeaning ==
  ASSUME NEW S \in SUBSET Nat, S # {}
  PROVE  Min(S) \in S /\ \A y \in S : Min(S) <= y
BY LeastExists DEF Min

(* Popping takes a number of ages from the left, those that have expired;   *)
(* what is left is within the window, if the ages are in order.            *)
LEMMA UnexpiredMeaning ==
  ASSUME NEW ages \in Seq(Nat), Descending(ages), Window \in Nat
  PROVE  \E k \in 0 .. Len(ages) :
           /\ Unexpired(ages) \in Seq(0 .. Window)
           /\ Len(Unexpired(ages)) = Len(ages) - k
           /\ \A i \in 1 .. Len(ages) - k : Unexpired(ages)[i] = ages[k + i]
           /\ \A i \in 1 .. k : ages[i] > Window
<1> DEFINE fresh == {i \in DOMAIN ages : Within(ages[i])}
<1>1. Len(ages) \in Nat /\ DOMAIN ages = 1 .. Len(ages) /\ \A i \in 1 .. Len(ages) : ages[i] \in Nat
  BY LenProperties, ElementOfSeq
<1>2. CASE fresh = {}
  <2>1. Unexpired(ages) = <<>>
    BY <1>2 DEF Unexpired
  <2>2. \A i \in 1 .. Len(ages) : ages[i] > Window
    BY <1>1, <1>2 DEF Within
  <2> WITNESS Len(ages) \in 0 .. Len(ages)
  <2> QED BY <2>1, <2>2, <1>1
<1>3. CASE fresh # {}
  <2> DEFINE m == Min(fresh)
  <2>1. fresh \in SUBSET Nat
    BY <1>1
  <2>2. m \in fresh /\ \A y \in fresh : m <= y
    <3> HIDE DEF fresh
    <3> QED BY <2>1, <1>3, MinMeaning
  <2> HIDE DEF m
  <2>3. m \in 1 .. Len(ages) /\ ages[m] <= Window
    BY <2>2, <1>1 DEF Within
  <2>4. \A i \in m .. Len(ages) : ages[i] \in 0 .. Window
    BY <2>3, <1>1 DEF Descending
  <2>5. \A i \in 1 .. m - 1 : ages[i] > Window
    <3> SUFFICES ASSUME NEW i \in 1 .. m - 1, ~(ages[i] > Window) PROVE FALSE
      OBVIOUS
    <3>1. i \in 1 .. Len(ages) /\ ages[i] <= Window
      BY <1>1, <2>3
    <3>2. i \in fresh
      BY <3>1, <1>1 DEF Within
    <3> QED BY <3>2, <2>2, <2>3
  <2>6. Unexpired(ages) = SubSeq(ages, m, Len(ages))
    BY <1>3 DEF Unexpired, m
  <2>7. /\ SubSeq(ages, m, Len(ages)) \in Seq(0 .. Window)
        /\ Len(SubSeq(ages, m, Len(ages))) = Len(ages) - m + 1
        /\ \A i \in 1 .. Len(ages) - m + 1 : SubSeq(ages, m, Len(ages))[i] = ages[m + i - 1]
    <3>1. m \in Int /\ Len(ages) \in Int /\ m <= Len(ages) + 1
      BY <2>3, <1>1
    <3>2. /\ SubSeq(ages, m, Len(ages)) \in Seq(0 .. Window)
          /\ Len(SubSeq(ages, m, Len(ages))) = IF m <= Len(ages) THEN Len(ages) - m + 1 ELSE 0
          /\ \A i \in 1 .. Len(ages) - m + 1 : SubSeq(ages, m, Len(ages))[i] = ages[m + i - 1]
      BY <3>1, <2>4, SubSeqProperties
    <3> QED BY <3>2, <2>3
  <2>8. m - 1 \in 0 .. Len(ages)
    BY <2>3, <1>1
  <2> WITNESS m - 1 \in 0 .. Len(ages)
  <2>9. Len(Unexpired(ages)) = Len(ages) - (m - 1)
    BY <2>6, <2>7, <2>3, <1>1
  <2>10. \A i \in 1 .. Len(ages) - (m - 1) : Unexpired(ages)[i] = ages[(m - 1) + i]
    <3> SUFFICES ASSUME NEW i \in 1 .. Len(ages) - (m - 1)
                 PROVE  Unexpired(ages)[i] = ages[(m - 1) + i]
      OBVIOUS
    <3>1. i \in 1 .. Len(ages) - m + 1 /\ m + i - 1 = (m - 1) + i
      BY <2>3, <1>1
    <3> QED BY <3>1, <2>6, <2>7
  <2> QED BY <2>5, <2>6, <2>7, <2>9, <2>10
<1> QED BY <1>2, <1>3

(* Every age in l has a counterpart in r that is no older: r, counted from  *)
(* the right, has at least as much to say as l.                            *)
Covers(r, l) ==
  /\ Len(l) <= Len(r)
  /\ \A i \in 1 .. Len(l) : r[Len(r) - Len(l) + i] <= l[i]

(* Popping keeps the order, and it takes nothing that still counts.         *)
LEMMA PopKeeps ==
  ASSUME NEW r \in Seq(Nat), Descending(r), Window \in Nat
  PROVE  /\ Unexpired(r) \in Seq(0 .. Window)
         /\ Descending(Unexpired(r))
         /\ \A l \in Seq(0 .. Window) : Covers(r, l) => Covers(Unexpired(r), l)
<1> DEFINE u == Unexpired(r)
<1>1. PICK k \in 0 .. Len(r) :
        /\ u \in Seq(0 .. Window)
        /\ Len(u) = Len(r) - k
        /\ \A i \in 1 .. Len(r) - k : u[i] = r[k + i]
        /\ \A i \in 1 .. k : r[i] > Window
  BY UnexpiredMeaning
<1> HIDE DEF u
<1>2. Len(r) \in Nat /\ \A i \in 1 .. Len(r) : r[i] \in Nat
  BY LenProperties, ElementOfSeq
<1>3. Descending(u)
  <2> SUFFICES ASSUME NEW i \in 1 .. Len(u), NEW j \in 1 .. Len(u), i <= j
               PROVE  u[i] >= u[j]
    BY DEF Descending
  <2>1. /\ k + i \in 1 .. Len(r) /\ k + j \in 1 .. Len(r) /\ k + i <= k + j
        /\ i \in 1 .. Len(r) - k /\ j \in 1 .. Len(r) - k
    BY <1>1, <1>2
  <2>2. r[k + i] >= r[k + j]
    BY <2>1 DEF Descending
  <2>3. u[i] = r[k + i] /\ u[j] = r[k + j]
    BY <2>1, <1>1
  <2> QED BY <2>2, <2>3
<1>4. ASSUME NEW l \in Seq(0 .. Window), Covers(r, l)
      PROVE  Covers(u, l)
  <2>1. Len(l) \in Nat /\ \A i \in 1 .. Len(l) : l[i] \in 0 .. Window
    BY LenProperties, ElementOfSeq
  <2>2. Len(l) <= Len(u)
    <3> SUFFICES ASSUME Len(l) > Len(r) - k PROVE FALSE
      BY <1>1, <1>2, <2>1
    <3>1. 1 \in 1 .. Len(l) /\ Len(r) - Len(l) + 1 \in 1 .. k
      BY <1>2, <2>1, <1>4 DEF Covers
    <3>2. r[Len(r) - Len(l) + 1] <= l[1]
      BY <3>1, <1>4 DEF Covers
    <3>3. r[Len(r) - Len(l) + 1] > Window
      BY <3>1, <1>1
    <3>4. r[Len(r) - Len(l) + 1] \in Nat /\ l[1] \in 0 .. Window
      BY <3>1, <1>2, <2>1
    <3> QED BY <3>2, <3>3, <3>4
  <2>3. ASSUME NEW i \in 1 .. Len(l)
        PROVE  u[Len(u) - Len(l) + i] <= l[i]
    <3>1. Len(u) - Len(l) + i \in 1 .. Len(r) - k
      BY <2>1, <2>2, <1>1, <1>2
    <3>2. k + (Len(u) - Len(l) + i) = Len(r) - Len(l) + i
      BY <2>1, <1>1, <1>2
    <3>3. u[Len(u) - Len(l) + i] = r[Len(r) - Len(l) + i]
      BY <3>1, <3>2, <1>1
    <3> QED BY <3>3, <1>4 DEF Covers
  <2> QED BY <2>2, <2>3 DEF Covers
<1> QED BY <1>1, <1>3, <1>4 DEF u

(* A new age at the right keeps the order, and what is covered.             *)
LEMMA AppendKeeps ==
  ASSUME NEW r \in Seq(Nat), Descending(r), NEW l \in Seq(Nat), Descending(l), Covers(r, l)
  PROVE  /\ Descending(Append(r, 0))
         /\ Covers(Append(r, 0), l)
         /\ Covers(Append(r, 0), Append(l, 0))
<1>1. /\ Len(r) \in Nat /\ \A i \in 1 .. Len(r) : r[i] \in Nat
      /\ Len(l) \in Nat /\ \A i \in 1 .. Len(l) : l[i] \in Nat
  BY LenProperties, ElementOfSeq
<1> DEFINE ra == Append(r, 0)
           la == Append(l, 0)
<1>2. /\ Len(ra) = Len(r) + 1 /\ ra[Len(r) + 1] = 0
      /\ \A i \in 1 .. Len(r) : ra[i] = r[i]
  BY AppendProperties
<1>3. /\ Len(la) = Len(l) + 1 /\ la[Len(l) + 1] = 0
      /\ \A i \in 1 .. Len(l) : la[i] = l[i]
  BY AppendProperties
<1> HIDE DEF ra, la
<1>4. Descending(ra)
  <2> SUFFICES ASSUME NEW i \in 1 .. Len(r) + 1, NEW j \in 1 .. Len(r) + 1, i <= j
               PROVE  ra[i] >= ra[j]
    BY <1>1, <1>2 DEF Descending
  <2>1. CASE j = Len(r) + 1
    <3>1. ra[i] \in Nat
      BY <1>1, <1>2
    <3> QED BY <2>1, <3>1, <1>2
  <2>2. CASE j \in 1 .. Len(r)
    <3>1. i \in 1 .. Len(r) /\ r[i] >= r[j]
      BY <2>2, <1>1 DEF Descending
    <3> QED BY <2>2, <3>1, <1>2
  <2> QED BY <2>1, <2>2, <1>1
<1>5. Covers(ra, l)
  <2> SUFFICES ASSUME NEW i \in 1 .. Len(l)
               PROVE  ra[Len(r) + 1 - Len(l) + i] <= l[i]
    BY <1>1, <1>2 DEF Covers
  <2>1. CASE i = Len(l)
    BY <2>1, <1>1, <1>2
  <2>2. CASE i < Len(l)
    <3>1. i + 1 \in 1 .. Len(l) /\ Len(r) - Len(l) + (i + 1) \in 1 .. Len(r)
      BY <2>2, <1>1 DEF Covers
    <3>2. Len(r) + 1 - Len(l) + i = Len(r) - Len(l) + (i + 1)
      BY <1>1
    <3>3. r[Len(r) - Len(l) + (i + 1)] <= l[i + 1] /\ l[i + 1] <= l[i]
      BY <3>1, <1>1 DEF Covers, Descending
    <3>4. ra[Len(r) - Len(l) + (i + 1)] = r[Len(r) - Len(l) + (i + 1)]
      BY <3>1, <1>2
    <3>5. r[Len(r) - Len(l) + (i + 1)] \in Nat /\ l[i] \in Nat /\ l[i + 1] \in Nat
      BY <3>1, <1>1
    <3>6. ra[Len(r) - Len(l) + (i + 1)] <= l[i]
      BY <3>3, <3>4, <3>5
    <3> QED BY <3>2, <3>6
  <2> QED BY <2>1, <2>2, <1>1
<1>6. Covers(ra, la)
  <2> SUFFICES ASSUME NEW i \in 1 .. Len(l) + 1
               PROVE  ra[Len(r) - Len(l) + i] <= la[i]
    <3>1. Len(la) <= Len(ra) /\ Len(ra) - Len(la) = Len(r) - Len(l)
      BY <1>1, <1>2, <1>3 DEF Covers
    <3> QED BY <3>1, <1>3 DEF Covers
  <2>1. CASE i = Len(l) + 1
    BY <2>1, <1>1, <1>2, <1>3
  <2>2. CASE i \in 1 .. Len(l)
    <3>1. Len(r) - Len(l) + i \in 1 .. Len(r)
      BY <2>2, <1>1 DEF Covers
    <3> QED BY <3>1, <2>2, <1>2, <1>3 DEF Covers
  <2> QED BY <2>1, <2>2, <1>1
<1> QED BY <1>4, <1>5, <1>6 DEF ra, la

(* Time makes every age older, the recorded ones only as long as they count, *)
(* and takes what has expired from the history.                            *)
LEMMA TickKeeps ==
  ASSUME NEW r \in Seq(0 .. Window + 1), Descending(r),
         NEW l \in Seq(0 .. Window), Descending(l), Covers(r, l), Window \in Nat,
         NEW q, q = [i \in DOMAIN r |-> IF Within(r[i]) THEN r[i] + 1 ELSE r[i]]
  PROVE  /\ q \in Seq(0 .. Window + 1) /\ Descending(q)
         /\ Unexpired(Older(l)) \in Seq(0 .. Window) /\ Descending(Unexpired(Older(l)))
         /\ Covers(q, Unexpired(Older(l)))
         /\ Len(Unexpired(Older(l))) <= Len(l)
<1>1. /\ Len(r) \in Nat /\ DOMAIN r = 1 .. Len(r) /\ \A i \in 1 .. Len(r) : r[i] \in 0 .. Window + 1
      /\ Len(l) \in Nat /\ DOMAIN l = 1 .. Len(l) /\ \A i \in 1 .. Len(l) : l[i] \in 0 .. Window
  BY LenProperties, ElementOfSeq
<1>2. /\ q \in Seq(0 .. Window + 1) /\ Len(q) = Len(r)
      /\ \A i \in 1 .. Len(r) : q[i] = IF r[i] <= Window THEN r[i] + 1 ELSE r[i]
  <2>1. q \in [1 .. Len(r) -> 0 .. Window + 1]
    BY <1>1 DEF Within
  <2> QED BY <2>1, <1>1 DEF Within
<1>3. Descending(q)
  <2> SUFFICES ASSUME NEW i \in 1 .. Len(r), NEW j \in 1 .. Len(r), i <= j
               PROVE  q[i] >= q[j]
    BY <1>2 DEF Descending
  <2>1. r[i] >= r[j]
    BY DEF Descending
  <2> QED BY <2>1, <1>1, <1>2
<1> DEFINE o == Older(l)
<1>4. /\ o \in Seq(Nat) /\ Len(o) = Len(l)
      /\ \A i \in 1 .. Len(l) : o[i] = l[i] + 1
  <2>1. o \in [1 .. Len(l) -> Nat]
    BY <1>1 DEF Older
  <2> QED BY <2>1, <1>1 DEF Older
<1> HIDE DEF o
<1>5. Descending(o)
  <2> SUFFICES ASSUME NEW i \in 1 .. Len(l), NEW j \in 1 .. Len(l), i <= j
               PROVE  o[i] >= o[j]
    BY <1>4 DEF Descending
  <2>1. l[i] >= l[j]
    BY DEF Descending
  <2> QED BY <2>1, <1>1, <1>4
<1> DEFINE u == Unexpired(o)
<1>6. u \in Seq(0 .. Window) /\ Descending(u)
  BY <1>4, <1>5, PopKeeps
<1>7. PICK k \in 0 .. Len(o) :
        /\ Len(u) = Len(o) - k
        /\ \A i \in 1 .. Len(o) - k : u[i] = o[k + i]
  BY <1>4, <1>5, UnexpiredMeaning
<1> HIDE DEF u
<1>8. Covers(q, u)
  <2>1. Len(u) <= Len(q)
    BY <1>1, <1>2, <1>4, <1>7 DEF Covers
  <2>2. ASSUME NEW i \in 1 .. Len(u)
        PROVE  q[Len(q) - Len(u) + i] <= u[i]
    <3>1. k + i \in 1 .. Len(l) /\ Len(r) - Len(l) + (k + i) \in 1 .. Len(r)
      BY <1>1, <1>4, <1>7 DEF Covers
    <3>2. Len(q) - Len(u) + i = Len(r) - Len(l) + (k + i)
      BY <1>1, <1>2, <1>4, <1>7
    <3>3. r[Len(r) - Len(l) + (k + i)] <= l[k + i]
      BY <3>1 DEF Covers
    <3>4. q[Len(r) - Len(l) + (k + i)] <= r[Len(r) - Len(l) + (k + i)] + 1
      BY <3>1, <1>1, <1>2
    <3>5. u[i] = l[k + i] + 1
      BY <3>1, <1>4, <1>7
    <3>6. /\ r[Len(r) - Len(l) + (k + i)] \in Int /\ l[k + i] \in Int
          /\ q[Len(r) - Len(l) + (k + i)] \in Int
      BY <3>1, <1>1, <1>2
    <3>7. q[Len(r) - Len(l) + (k + i)] <= l[k + i] + 1
      <4>1. \A a, b, c \in Int : a <= c /\ b <= a + 1 => b <= c + 1
        OBVIOUS
      <4> QED BY <4>1, <3>3, <3>4, <3>6
    <3> QED BY <3>2, <3>5, <3>7
  <2> QED BY <2>1, <2>2 DEF Covers
<1>9. Len(u) <= Len(l)
  BY <1>1, <1>4, <1>7
<1> QED BY <1>2, <1>3, <1>6, <1>8, <1>9 DEF o, u

------------------------------------------------------------------------------
(* The inductive invariant. *)

(* The window keeps at least what the events of the last minute emptied.    *)
Windowed ==
  /\ recent \in Seq(0 .. Window + 1) /\ Descending(recent)
  /\ lost \in Seq(0 .. Window) /\ Descending(lost)
  /\ Covers(recent, lost)

(* A pass has spent its budget on whatever it emptied.                     *)
Spent ==
  /\ applied \in Nat /\ lostInPass \in Nat
  /\ lostInPass <= applied /\ applied <= Threshold

(* Users, files and what is recorded of them. *)
Recorded ==
  /\ remote \in [Files -> {"full", "blank"}] /\ file \in [Files -> {"full", "blank"}]
  /\ hash \in [Files -> {"none", "full", "blank"}]
  /\ pending \in [Files -> {"none", "event", "head"}]
  /\ current \subseteq Files /\ rewritten \subseteq Files

(* A head waits only for a document that has none on record; what is not    *)
(* rewritten has the text of its hash; what lags behind the server is out of *)
(* date by its head, or rewritten.                                        *)
Lagging(f) ==
  /\ pending[f] # "none" => f \notin current
  /\ f \notin rewritten => hash[f] = file[f]
  /\ file[f] # remote[f] => (f \notin current \/ f \in rewritten)

GateInv ==
  /\ Recorded
  /\ todo \subseteq Files /\ passing \in BOOLEAN /\ (todo # {} => passing)
  /\ Windowed /\ Len(lost) <= Threshold
  /\ Spent
  /\ \A f \in Files : Lagging(f)

LEMMA ThresholdIsNat == Threshold \in Nat
<1>1. Cardinality(Files) \in Nat
  BY GateAssumption, FS_CardinalityType DEF GateAssumption
<1>2. Cardinality(Files) \div Fraction \in Nat
  BY <1>1, GateAssumption DEF GateAssumption
<1> QED BY <1>2, GateAssumption DEF Threshold, GateAssumption

(* In the beginning every file is the server's, and no budget is spent.     *)
LEMMA InitGate == Init => GateInv
<1> SUFFICES ASSUME Init PROVE GateInv
  OBVIOUS
<1> USE DEF Init
<1>1. Recorded /\ \A f \in Files : Lagging(f)
  <2>1. file \in [Files -> {"full", "blank"}]
    OBVIOUS
  <2>2. hash \in [Files -> {"none", "full", "blank"}]
    OBVIOUS
  <2>3. \A f \in Files : pending[f] = "none"
    OBVIOUS
  <2> QED BY <2>1, <2>2, <2>3 DEF Recorded, Lagging
<1>2. Windowed /\ Len(lost) <= Threshold
  <2>1. Len(<<>>) = 0 /\ <<>> \in Seq(0 .. Window + 1) /\ <<>> \in Seq(0 .. Window)
    OBVIOUS
  <2> QED BY <2>1, ThresholdIsNat DEF Windowed, Descending, Covers
<1>3. Spent
  BY ThresholdIsNat DEF Spent
<1> QED BY <1>1, <1>2, <1>3 DEF GateInv

------------------------------------------------------------------------------
(* What each part of the invariant needs of a step. *)

(* A step that opens neither the window nor the budget leaves both parts.   *)
LEMMA WindowUnchanged ==
  ASSUME GateInv, UNCHANGED <<recent, lost>>
  PROVE  Windowed' /\ (Len(lost) <= Threshold)'
<1>1. recent' = recent /\ lost' = lost
  OBVIOUS
<1> QED BY <1>1 DEF GateInv, Windowed, Covers, Descending, Threshold

LEMMA BudgetUnchanged ==
  ASSUME GateInv, UNCHANGED <<applied, lostInPass>>
  PROVE  Spent'
BY DEF GateInv, Spent, Threshold

(* A document event that writes: it asks the gate whenever it empties a file. *)
LEMMA EventKeepsWindow ==
  ASSUME GateInv, NEW f \in Files, EventWrites(f)
  PROVE  Windowed' /\ (Len(lost) <= Threshold)'
<1>1. Window \in Nat /\ Threshold \in Nat
  BY ThresholdIsNat, GateAssumption DEF GateAssumption
<1>2. /\ recent \in Seq(0 .. Window + 1) /\ recent \in Seq(Nat) /\ Descending(recent)
      /\ lost \in Seq(0 .. Window) /\ lost \in Seq(Nat) /\ Descending(lost)
      /\ Covers(recent, lost) /\ Len(lost) <= Threshold
  <2>1. recent \in Seq(0 .. Window + 1) /\ lost \in Seq(0 .. Window)
    BY DEF GateInv, Windowed
  <2>2. Seq(0 .. Window + 1) \subseteq Seq(Nat) /\ Seq(0 .. Window) \subseteq Seq(Nat)
    BY <1>1
  <2> QED BY <2>1, <2>2 DEF GateInv, Windowed
<1>3. file' = [file EXCEPT ![f] = remote[f]] /\ file \in [Files -> {"full", "blank"}]
  BY DEF EventWrites, GateInv, Recorded
<1>4. CASE recent' = recent /\ lost' = lost
  BY <1>4, WindowUnchanged
<1>5. CASE /\ Len(Kept) < Threshold /\ recent' = Append(Kept, 0)
           /\ (lost' = lost \/ lost' = Append(lost, 0))
  <2>1. Kept \in Seq(0 .. Window) /\ Descending(Kept) /\ Covers(Kept, lost)
    BY <1>1, <1>2, PopKeeps DEF Kept
  <2>2. Kept \in Seq(Nat)
    <3>1. Seq(0 .. Window) \subseteq Seq(Nat)
      BY <1>1
    <3> QED BY <2>1, <3>1
  <2>3. /\ Descending(Append(Kept, 0)) /\ Covers(Append(Kept, 0), lost)
        /\ Covers(Append(Kept, 0), Append(lost, 0))
    BY <1>2, <2>1, <2>2, AppendKeeps
  <2>4. Append(Kept, 0) \in Seq(0 .. Window + 1)
    <3>1. 0 \in 0 .. Window + 1 /\ Kept \in Seq(0 .. Window + 1)
      <4>1. Seq(0 .. Window) \subseteq Seq(0 .. Window + 1)
        BY <1>1
      <4> QED BY <1>1, <2>1, <4>1
    <3> QED BY <3>1, AppendProperties
  <2>5. /\ Append(lost, 0) \in Seq(0 .. Window) /\ Descending(Append(lost, 0))
        /\ Len(Append(lost, 0)) = Len(lost) + 1
    <3>1. Covers(lost, <<>>) /\ Descending(<<>>) /\ <<>> \in Seq(Nat)
      <4>1. Len(<<>>) = 0 /\ Len(lost) \in Nat
        BY <1>2, LenProperties
      <4> QED BY <4>1 DEF Covers, Descending
    <3>2. Descending(Append(lost, 0))
      BY <1>2, <3>1, AppendKeeps
    <3>3. 0 \in 0 .. Window
      BY <1>1
    <3> QED BY <1>2, <3>2, <3>3, AppendProperties
  <2>6. Len(lost) <= Len(Kept)
    BY <2>1 DEF Covers
  <2>7. Len(lost) \in Nat /\ Len(Kept) \in Nat
    BY <1>2, <2>2, LenProperties
  <2>8. Threshold' = Threshold
    BY DEF Threshold
  <2>9. Len(lost') <= Threshold
    BY <1>1, <1>2, <1>5, <2>5, <2>6, <2>7
  <2>10. lost' \in Seq(0 .. Window) /\ Descending(lost') /\ Covers(recent', lost')
    BY <1>2, <1>5, <2>3, <2>5
  <2>11. recent' \in Seq(0 .. Window + 1) /\ Descending(recent')
    BY <1>5, <2>3, <2>4
  <2> QED BY <2>8, <2>9, <2>10, <2>11 DEF Windowed, Covers, Descending
<1>6. CASE ~(remote[f] = "blank" /\ HasSize(f)) /\ recent' = recent
  <2>1. ~(file[f] # file'[f] /\ file'[f] = "blank")
    BY <1>3, <1>6 DEF HasSize
  <2> QED BY <2>1, <1>4, <1>6 DEF EventWrites
<1> QED BY <1>5, <1>6 DEF EventWrites

(* A refused event only pops. *)
LEMMA RefusalKeepsWindow ==
  ASSUME GateInv, NEW f \in Files, EventGated(f)
  PROVE  Windowed' /\ (Len(lost) <= Threshold)'
<1>1. Window \in Nat
  BY GateAssumption DEF GateAssumption
<1>2. /\ recent \in Seq(Nat) /\ Descending(recent)
      /\ lost \in Seq(0 .. Window) /\ Covers(recent, lost)
  <2>1. Seq(0 .. Window + 1) \subseteq Seq(Nat)
    BY <1>1
  <2> QED BY <2>1 DEF GateInv, Windowed
<1>3. recent' = Kept /\ lost' = lost
  BY DEF EventGated, history
<1>4. Kept \in Seq(0 .. Window) /\ Descending(Kept) /\ Covers(Kept, lost)
  BY <1>1, <1>2, PopKeeps DEF Kept
<1>5. Kept \in Seq(0 .. Window + 1)
  <2>1. Seq(0 .. Window) \subseteq Seq(0 .. Window + 1)
    BY <1>1
  <2> QED BY <1>4, <2>1
<1> QED BY <1>3, <1>4, <1>5 DEF GateInv, Windowed, Covers, Descending, Threshold

(* Time. *)
LEMMA TickKeepsWindow ==
  ASSUME GateInv, Tick
  PROVE  Windowed' /\ (Len(lost) <= Threshold)'
<1>1. Window \in Nat /\ Threshold \in Nat
  BY ThresholdIsNat, GateAssumption DEF GateAssumption
<1>2. /\ recent \in Seq(0 .. Window + 1) /\ Descending(recent)
      /\ lost \in Seq(0 .. Window) /\ Descending(lost) /\ Covers(recent, lost)
      /\ Len(lost) <= Threshold
  BY DEF GateInv, Windowed
<1>3. /\ recent' = [i \in DOMAIN recent |-> IF Within(recent[i]) THEN recent[i] + 1 ELSE recent[i]]
      /\ lost' = Unexpired(Older(lost))
  BY DEF Tick
<1>4. /\ recent' \in Seq(0 .. Window + 1) /\ Descending(recent')
      /\ lost' \in Seq(0 .. Window) /\ Descending(lost') /\ Covers(recent', lost')
      /\ Len(lost') <= Len(lost)
  BY <1>1, <1>2, <1>3, TickKeeps
<1>5. Len(lost') \in Nat /\ Len(lost) \in Nat
  BY <1>2, <1>4, LenProperties
<1> QED BY <1>1, <1>2, <1>4, <1>5 DEF Windowed, Covers, Descending, Threshold

(* What is recorded of the files, action by action. *)
LEMMA RecordsKept ==
  ASSUME GateInv, [Next]_vars
  PROVE  Recorded' /\ (\A f \in Files : Lagging(f))'
<1> USE DEF GateInv, Recorded, Lagging
<1>1. ASSUME NEW f \in Files, Edit(f)
      PROVE  Recorded' /\ (\A g \in Files : Lagging(g))'
  BY <1>1 DEF Edit, history, budgets
<1>2. CASE Reconnect
  BY <1>2 DEF Reconnect, history, budgets
<1>3. CASE Tick
  BY <1>3 DEF Tick, asked
<1>4. ASSUME NEW S \in SUBSET Files, BeginPass(S)
      PROVE  Recorded' /\ (\A g \in Files : Lagging(g))'
  BY <1>4 DEF BeginPass, asked
<1>5. ASSUME NEW f \in Files, PassUpdate(f)
      PROVE  Recorded' /\ (\A g \in Files : Lagging(g))'
  BY <1>5 DEF PassUpdate, PassWrites, asked
<1>6. ASSUME NEW f \in Files, PassGated(f)
      PROVE  Recorded' /\ (\A g \in Files : Lagging(g))'
  BY <1>6 DEF PassGated, asked, history, budgets
<1>7. CASE EndPass
  BY <1>7 DEF EndPass, asked
<1>8. ASSUME NEW f \in Files, EventUnchanged(f)
      PROVE  Recorded' /\ (\A g \in Files : Lagging(g))'
  BY <1>8 DEF EventUnchanged, Taken, RecordHead, history, budgets
<1>9. ASSUME NEW f \in Files, EventWrites(f)
      PROVE  Recorded' /\ (\A g \in Files : Lagging(g))'
  <2>1. /\ Taken(f) /\ RecordHead(f)
        /\ file' = [file EXCEPT ![f] = remote[f]]
        /\ hash' = [hash EXCEPT ![f] = remote[f]]
        /\ rewritten' = rewritten \ {f}
        /\ remote' = remote
    BY <1>9 DEF EventWrites
  <2> QED BY <2>1 DEF Taken, RecordHead
<1>10. ASSUME NEW f \in Files, EventGated(f)
      PROVE  Recorded' /\ (\A g \in Files : Lagging(g))'
  <2>1. /\ Taken(f) /\ UNCHANGED <<remote, current, file, hash, rewritten>>
    BY <1>10 DEF EventGated, history
  <2> QED BY <2>1 DEF Taken
<1>11. CASE UNCHANGED vars
  BY <1>11 DEF vars, asked, history, budgets
<1> QED BY <1>1, <1>2, <1>3, <1>4, <1>5, <1>6, <1>7, <1>8, <1>9, <1>10, <1>11 DEF Next, Engine

(* The pass: what it empties it has paid for. *)
LEMMA PassSpends ==
  ASSUME GateInv, NEW f \in Files, PassUpdate(f)
  PROVE  Spent'
<1>1. /\ applied \in Nat /\ lostInPass \in Nat /\ lostInPass <= applied /\ applied <= Threshold
      /\ Threshold \in Nat
  BY ThresholdIsNat DEF GateInv, Spent
<1>2. file' = [file EXCEPT ![f] = remote[f]] /\ file \in [Files -> {"full", "blank"}]
  BY DEF PassUpdate, PassWrites, GateInv, Recorded
<1>3. Threshold' = Threshold
  BY DEF Threshold
<1>4. lostInPass' \in {lostInPass, lostInPass + 1}
  BY DEF PassUpdate
<1>5. CASE GateSpent(f)
  <2>1. applied < Threshold /\ applied' = applied + 1
    BY <1>5 DEF GateSpent
  <2> QED BY <1>1, <1>3, <1>4, <2>1 DEF Spent
<1>6. CASE ~(remote[f] = "blank" /\ HasSize(f)) /\ UNCHANGED applied
  <2>1. ~(file[f] # file'[f] /\ file'[f] = "blank")
    BY <1>2, <1>6 DEF HasSize
  <2>2. lostInPass' = lostInPass
    BY <2>1 DEF PassUpdate
  <2> QED BY <1>1, <1>3, <1>6, <2>2 DEF Spent
<1> QED BY <1>5, <1>6 DEF PassUpdate

LEMMA NextGate == GateInv /\ [Next]_vars => GateInv'
<1> SUFFICES ASSUME GateInv, [Next]_vars PROVE GateInv'
  OBVIOUS
<1>1. Recorded' /\ (\A f \in Files : Lagging(f))'
  BY RecordsKept
<1>2. /\ todo' \subseteq Files /\ passing' \in BOOLEAN /\ (todo' # {} => passing')
      /\ Windowed' /\ (Len(lost) <= Threshold)' /\ Spent'
  <2>1. ASSUME NEW f \in Files, Edit(f) PROVE <1>2!:
    <3>1. UNCHANGED <<todo, passing, recent, lost, applied, lostInPass>>
      BY <2>1 DEF Edit, budgets, history
    <3> QED BY <3>1, WindowUnchanged, BudgetUnchanged DEF GateInv
  <2>2. CASE Reconnect
    <3>1. UNCHANGED <<todo, passing, recent, lost, applied, lostInPass>>
      BY <2>2 DEF Reconnect, budgets, history
    <3> QED BY <3>1, WindowUnchanged, BudgetUnchanged DEF GateInv
  <2>3. CASE Tick
    <3>1. UNCHANGED <<todo, passing, applied, lostInPass>>
      BY <2>3 DEF Tick
    <3> QED BY <3>1, <2>3, TickKeepsWindow, BudgetUnchanged DEF GateInv
  <2>4. ASSUME NEW S \in SUBSET Files, BeginPass(S) PROVE <1>2!:
    <3>1. UNCHANGED <<recent, lost>> /\ todo' = S /\ passing' = TRUE
      BY <2>4 DEF BeginPass
    <3>2. applied' = 0 /\ lostInPass' = 0 /\ Threshold' = Threshold
      BY <2>4 DEF BeginPass, Threshold
    <3>3. Spent'
      BY <3>2, ThresholdIsNat DEF Spent
    <3> QED BY <3>1, <3>3, WindowUnchanged
  <2>5. ASSUME NEW f \in Files, PassUpdate(f) PROVE <1>2!:
    <3>1. UNCHANGED <<recent, lost, passing>> /\ todo' = todo \ {f}
      BY <2>5 DEF PassUpdate
    <3> QED BY <3>1, <2>5, WindowUnchanged, PassSpends DEF GateInv
  <2>6. ASSUME NEW f \in Files, PassGated(f) PROVE <1>2!:
    <3>1. UNCHANGED <<passing, recent, lost, applied, lostInPass>> /\ todo' = todo \ {f}
      BY <2>6 DEF PassGated, budgets, history
    <3> QED BY <3>1, WindowUnchanged, BudgetUnchanged DEF GateInv
  <2>7. CASE EndPass
    <3>1. UNCHANGED <<recent, lost, todo>> /\ passing' = FALSE /\ todo = {}
      BY <2>7 DEF EndPass
    <3>2. applied' = 0 /\ lostInPass' = 0 /\ Threshold' = Threshold
      BY <2>7 DEF EndPass, Threshold
    <3>3. Spent'
      BY <3>2, ThresholdIsNat DEF Spent
    <3> QED BY <3>1, <3>3, WindowUnchanged DEF GateInv
  <2>8. ASSUME NEW f \in Files, EventUnchanged(f) PROVE <1>2!:
    <3>1. UNCHANGED <<todo, passing, recent, lost, applied, lostInPass>>
      BY <2>8 DEF EventUnchanged, budgets, history
    <3> QED BY <3>1, WindowUnchanged, BudgetUnchanged DEF GateInv
  <2>9. ASSUME NEW f \in Files, EventWrites(f) PROVE <1>2!:
    <3>1. UNCHANGED <<todo, passing, applied, lostInPass>>
      BY <2>9 DEF EventWrites
    <3> QED BY <3>1, <2>9, EventKeepsWindow, BudgetUnchanged DEF GateInv
  <2>10. ASSUME NEW f \in Files, EventGated(f) PROVE <1>2!:
    <3>1. UNCHANGED <<todo, passing, applied, lostInPass>>
      BY <2>10 DEF EventGated, history
    <3> QED BY <3>1, <2>10, RefusalKeepsWindow, BudgetUnchanged DEF GateInv
  <2>11. CASE UNCHANGED vars
    <3>1. UNCHANGED <<todo, passing, recent, lost, applied, lostInPass>>
      BY <2>11 DEF vars, budgets, history
    <3> QED BY <3>1, WindowUnchanged, BudgetUnchanged DEF GateInv
  <2> QED BY <2>1, <2>2, <2>3, <2>4, <2>5, <2>6, <2>7, <2>8, <2>9, <2>10, <2>11 DEF Next, Engine
<1> QED BY <1>1, <1>2 DEF GateInv

------------------------------------------------------------------------------
(* The theorems. *)

(* GateInv holds in every state that the program can be in. *)
LEMMA GateInvariant == Spec => []GateInv
<1> QED BY InitGate, NextGate, PTL DEF Spec

(* Every variable keeps its type: in particular the pass's budget and the   *)
(* ages in the window stay within their bounds, whatever the gate decides.  *)
THEOREM TypeCorrect == Spec => []TypeOK
<1>1. GateInv => TypeOK
  BY DEF GateInv, Recorded, Windowed, Spent, TypeOK
<1> QED BY <1>1, GateInvariant, PTL

(* Whatever users edit and however events, passes and time mix: in no window *)
(* of time do document events empty more files than the threshold, although *)
(* the deque is popped only when the gate is asked, and no pass empties more *)
(* (_gates_truncation).                                                   *)
THEOREM BurstsAreBounded == Spec => []BurstBounded
<1>1. GateInv => BurstBounded
  <2> SUFFICES ASSUME GateInv PROVE BurstBounded
    OBVIOUS
  <2>1. Len(lost) <= Threshold /\ lostInPass <= applied /\ applied <= Threshold
    BY DEF GateInv, Spent
  <2>2. lostInPass \in Nat /\ applied \in Nat /\ Threshold \in Nat
    BY ThresholdIsNat DEF GateInv, Spent
  <2> QED BY <2>1, <2>2 DEF BurstBounded
<1> QED BY <1>1, GateInvariant, PTL

(* A file that the gate, or the queue, keeps behind the server has no head  *)
(* on record, so that the index tells of it again; the only exception are   *)
(* files that a pass wrote (process_document_change, which records neither  *)
(* the hash nor the head of a refused change).                            *)
THEOREM HeldBackStaysAsked == Spec => []HeldBackIsAsked
<1>1. GateInv => HeldBackIsAsked
  BY DEF GateInv, Lagging, HeldBackIsAsked
<1> QED BY <1>1, GateInvariant, PTL
==============================================================================
