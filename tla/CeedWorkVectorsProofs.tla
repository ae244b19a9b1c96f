------------------------- MODULE CeedWorkVectorsProofs -------------------------
(***************************************************************************)
(* Theorems about CeedWorkVectors, for any sets of vectors and lengths.    *)
(* What the loops of CeedClearWorkVectors and CeedWorkVectorsDestroy       *)
(* preserve is shown round by round: a set of rounds that has the first    *)
(* one, and with every round the next, has them all.                       *)
(***************************************************************************)
EXTENDS CeedWorkVectors, FiniteSetTheorems, WellFoundedInduction, TLAPS

(***************************************************************************)
(* Rounds.                                                                 *)
(***************************************************************************)
\* A set of numbers has a least one.
LEMMA LeastNumber ==
  ASSUME NEW S, S \subseteq Nat, S # {}
  PROVE  \E i \in S : \A j \in S : i <= j
<1>1. IsWellFoundedOn(OpToRel(<, Nat), Nat)
  BY NatLessThanWellFounded
<1>2. PICK i \in S : \A j \in S : <<j, i>> \notin OpToRel(<, Nat)
  BY <1>1, WFMin
<1>3. \A j \in S : ~(j < i)
  BY <1>2 DEF OpToRel
<1> QED
  BY <1>3

LEMMA AllRounds ==
  ASSUME NEW n \in Nat, NEW S, 0 \in S, \A k \in 0 .. n : k \in S /\ k < n => k + 1 \in S
  PROVE  0 .. n \subseteq S
<1> DEFINE T == {k \in 0 .. n : k \notin S}
<1>1. ASSUME T # {}
      PROVE  FALSE
  <2>1. T \subseteq Nat
    OBVIOUS
  <2>2. PICK i \in T : \A j \in T : i <= j
    BY <1>1, <2>1, LeastNumber
  <2>3. i \in 0 .. n /\ i \notin S /\ i # 0
    BY <2>2
  <2>4. i - 1 \in 0 .. n /\ i - 1 \notin T
    BY <2>2, <2>3
  <2>5. i - 1 \in S /\ i - 1 < n /\ (i - 1) + 1 = i
    BY <2>3, <2>4
  <2> QED
    BY <2>3, <2>4, <2>5
<1> QED
  BY <1>1

\* The loop of CeedClearWorkVectors has a value in every round.
ClearRounds(f, n, start, min_len) ==
  f = [k \in 0 .. n |-> IF k = 0 THEN start ELSE ClearStep(f[k - 1], min_len)]

LEMMA ClearRoundsExist ==
  ASSUME NEW n \in Nat, NEW start, NEW min_len
  PROVE  \E f : ClearRounds(f, n, start, min_len)
<1> DEFINE S == {k \in 0 .. n : \E f : ClearRounds(f, k, start, min_len)}
<1>1. 0 \in S
  <2> DEFINE f == [k \in 0 .. 0 |-> start]
  <2>1. f = [k \in 0 .. 0 |-> IF k = 0 THEN start ELSE ClearStep(f[k - 1], min_len)]
    OBVIOUS
  <2>2. ClearRounds(f, 0, start, min_len)
    BY <2>1 DEF ClearRounds
  <2> HIDE DEF f
  <2> QED
    BY <2>2
<1>2. ASSUME NEW k \in 0 .. n, k \in S, k < n
      PROVE  k + 1 \in S
  <2>1. PICK f : ClearRounds(f, k, start, min_len)
    BY <1>2
  <2> DEFINE g == [j \in 0 .. k + 1 |-> IF j = k + 1 THEN ClearStep(f[k], min_len) ELSE f[j]]
  <2>2. \A j \in 0 .. k : f[j] = IF j = 0 THEN start ELSE ClearStep(f[j - 1], min_len)
    BY <2>1 DEF ClearRounds
  <2>3. ASSUME NEW j \in 0 .. k + 1
        PROVE  g[j] = IF j = 0 THEN start ELSE ClearStep(g[j - 1], min_len)
    <3>1. CASE j = k + 1
      <4>1. g[j] = ClearStep(f[k], min_len) /\ j # 0 /\ j - 1 = k
        BY <3>1
      <4>2. g[k] = f[k]
        OBVIOUS
      <4> HIDE DEF g
      <4> QED
        BY <4>1, <4>2
    <3>2. CASE j = 0
      BY <2>2, <3>2
    <3>3. CASE j # k + 1 /\ j # 0
      <4>1. j \in 0 .. k /\ j - 1 \in 0 .. k /\ g[j] = f[j] /\ g[j - 1] = f[j - 1]
        BY <3>3
      <4> HIDE DEF g
      <4> QED
        BY <2>2, <3>3, <4>1
    <3> QED
      BY <3>1, <3>2, <3>3
  <2>4. g = [j \in 0 .. k + 1 |-> IF j = 0 THEN start ELSE ClearStep(g[j - 1], min_len)]
    <3>1. g = [j \in 0 .. k + 1 |-> g[j]]
      OBVIOUS
    <3> HIDE DEF g
    <3> QED
      BY <2>3, <3>1
  <2> HIDE DEF g
  <2> QED
    BY <1>2, <2>4 DEF ClearRounds
<1>3. 0 .. n \subseteq S
  BY <1>1, <1>2, AllRounds
<1> QED
  BY <1>3

ClearStart ==
  [i |-> 0, num |-> num_vecs, vecs |-> vecs, used |-> is_in_use,
   refs |-> vec_refs, count |-> ref_count, again |-> reentered]

LEMMA ClearedRounds ==
  ASSUME num_vecs \in Nat, NEW min_len
  PROVE  \E f : ClearRounds(f, num_vecs, ClearStart, min_len) /\ Cleared(min_len) = f[num_vecs]
<1> DEFINE f == CHOOSE f : f = [k \in 0 .. num_vecs |->
                                  IF k = 0 THEN ClearStart ELSE ClearStep(f[k - 1], min_len)]
<1>1. \E g : g = [k \in 0 .. num_vecs |->
                    IF k = 0 THEN ClearStart ELSE ClearStep(g[k - 1], min_len)]
  <2>1. PICK g : ClearRounds(g, num_vecs, ClearStart, min_len)
    BY ClearRoundsExist
  <2> QED
    BY <2>1 DEF ClearRounds
<1>2. f = [k \in 0 .. num_vecs |-> IF k = 0 THEN ClearStart ELSE ClearStep(f[k - 1], min_len)]
  BY <1>1
<1>3. Cleared(min_len) = f[num_vecs]
  BY DEF Cleared, ClearStart
<1> HIDE DEF f
<1> QED
  BY <1>2, <1>3 DEF ClearRounds

(***************************************************************************)
(* The arrays and the counts.                                              *)
(***************************************************************************)
Members(num, vs) == {vs[i] : i \in 0 .. num - 1}
Referenced(refs) == {v \in Vec : refs[v] > 0}

\* The entries are different vectors, and those in use are the ones that are lent.
ArraysOK(num, vs, used) ==
  /\ num \in Nat /\ num <= max_vecs
  /\ vs \in [Cells -> Vec \cup {NULL}] /\ used \in [Cells -> BOOLEAN]
  /\ \A i \in 0 .. num - 1 : vs[i] \in Vec /\ (used[i] <=> vs[i] \in lent)
  /\ \A i, j \in 0 .. num - 1 : vs[i] = vs[j] => i = j
  /\ lent \subseteq Members(num, vs)

\* The counts of the vectors and of the context when the vectors in M are in the pool.
CountsOK(M, refs, count) ==
  /\ refs \in [Vec -> Nat] /\ count \in Nat
  /\ \A v \in Vec :
       refs[v] = outside[v] + (IF v \in M THEN 1 ELSE 0) + (IF v \in lent THEN 1 ELSE 0)
  /\ IsFiniteSet(Referenced(refs))
  /\ count = handles + Cardinality(lent) + Cardinality(Referenced(refs) \ M)

LEMMA MembersBelow ==
  ASSUME max_vecs \in Nat, NEW num, NEW vs, NEW used, ArraysOK(num, vs, used)
  PROVE  Members(num, vs) \subseteq Vec /\ \A i \in 0 .. num - 1 : i \in Cells
<1>1. num \in Nat /\ num <= max_vecs
  BY DEF ArraysOK
<1>2. \A i \in 0 .. num - 1 : i \in Cells
  BY <1>1 DEF Cells
<1>3. \A i \in 0 .. num - 1 : vs[i] \in Vec
  BY DEF ArraysOK
<1> QED
  BY <1>2, <1>3 DEF Members

\* Taking the entry i out: the last entry fills the hole.
Moved(num, vs, used, i, vs2, used2) ==
  /\ vs2 = [vs EXCEPT ![i] = IF i = num - 1 THEN NULL ELSE vs[num - 1]]
  /\ used2 = [used EXCEPT ![i] = used[num - 1], ![num - 1] = FALSE]

\* The entries stay different, and only the one at i is gone.
LEMMA HoleFilled ==
  ASSUME max_vecs \in Nat, NEW num, NEW vs, NEW used, ArraysOK(num, vs, used),
         NEW i \in 0 .. num - 1, ~used[i], num - 1 # 0,
         NEW vs2, NEW used2, Moved(num, vs, used, i, vs2, used2)
  PROVE  /\ ArraysOK(num - 1, vs2, used2)
         /\ Members(num - 1, vs2) = Members(num, vs) \ {vs[i]}
<1> DEFINE last == num - 1
<1>1. /\ num \in Nat /\ last \in Nat /\ last < max_vecs /\ i <= last /\ i \in Cells /\ last \in Cells
      /\ vs \in [Cells -> Vec \cup {NULL}] /\ used \in [Cells -> BOOLEAN]
      /\ last \in 0 .. num - 1
  BY DEF ArraysOK, Cells
<1> HIDE DEF last
<1>2. \A j \in 0 .. last - 1 : /\ j \in 0 .. num - 1 /\ j # last /\ j \in Cells
                               /\ j # i => vs2[j] = vs[j] /\ used2[j] = used[j]
                               /\ j = i => vs2[j] = vs[last] /\ used2[j] = used[last]
  <2> SUFFICES ASSUME NEW j \in 0 .. last - 1
               PROVE  /\ j \in 0 .. num - 1 /\ j # last /\ j \in Cells
                      /\ j # i => vs2[j] = vs[j] /\ used2[j] = used[j]
                      /\ j = i => vs2[j] = vs[last] /\ used2[j] = used[last]
    OBVIOUS
  <2>1. j \in 0 .. num - 1 /\ j # last /\ j \in Cells
    BY <1>1 DEF Cells, last
  <2>2. vs2 = [vs EXCEPT ![i] = IF i = last THEN NULL ELSE vs[last]]
    BY DEF last, Moved
  <2>3. used2 = [used EXCEPT ![i] = used[last], ![last] = FALSE]
    BY DEF last, Moved
  <2>4. vs2[j] = IF j = i THEN vs[last] ELSE vs[j]
    BY <1>1, <2>1, <2>2
  <2>5. used2[j] = IF j = i THEN used[last] ELSE used[j]
    BY <1>1, <2>1, <2>3
  <2> QED
    BY <2>1, <2>4, <2>5
<1>3. vs2 \in [Cells -> Vec \cup {NULL}] /\ used2 \in [Cells -> BOOLEAN]
  <2>1. vs[last] \in Vec \cup {NULL}
    BY <1>1
  <2>2. vs2 \in [Cells -> Vec \cup {NULL}]
    BY <1>1, <2>1 DEF last, Moved
  <2>3. used[last] \in BOOLEAN
    BY <1>1
  <2>4. used2 = [used EXCEPT ![i] = used[last], ![last] = FALSE]
    BY DEF last, Moved
  <2>5. used2 \in [Cells -> BOOLEAN]
    BY <1>1, <2>3, <2>4
  <2> QED
    BY <2>2, <2>5
<1>4. \A j \in 0 .. last - 1 : vs2[j] \in Vec /\ (used2[j] <=> vs2[j] \in lent)
  BY <1>1, <1>2 DEF ArraysOK
<1>5. ASSUME NEW j \in 0 .. last - 1, NEW k \in 0 .. last - 1, vs2[j] = vs2[k]
      PROVE  j = k
  <2>1. CASE j # i /\ k # i
    BY <1>1, <1>2, <1>5, <2>1 DEF ArraysOK
  <2>2. CASE j = i /\ k # i
    <3>1. vs[last] = vs[k] /\ k # last /\ k \in 0 .. num - 1
      BY <1>2, <1>5, <2>2
    <3> QED
      BY <1>1, <3>1 DEF ArraysOK
  <2>3. CASE j # i /\ k = i
    <3>1. vs[last] = vs[j] /\ j # last /\ j \in 0 .. num - 1
      BY <1>2, <1>5, <2>3
    <3> QED
      BY <1>1, <3>1 DEF ArraysOK
  <2> QED
    BY <2>1, <2>2, <2>3
<1>6. Members(last, vs2) = Members(num, vs) \ {vs[i]}
  <2>1. ASSUME NEW j \in 0 .. last - 1
        PROVE  vs2[j] \in Members(num, vs) \ {vs[i]}
    <3>1. CASE j = i
      <4>1. vs2[j] = vs[last] /\ i # last
        BY <1>2, <3>1
      <4>2. vs[last] # vs[i]
        BY <1>1, <4>1 DEF ArraysOK
      <4> QED
        BY <1>1, <4>1, <4>2 DEF Members
    <3>2. CASE j # i
      <4>1. vs2[j] = vs[j] /\ j \in 0 .. num - 1
        BY <1>2, <3>2
      <4>2. vs[j] # vs[i]
        BY <3>2, <4>1 DEF ArraysOK
      <4> QED
        BY <4>1, <4>2 DEF Members
    <3> QED
      BY <3>1, <3>2
  <2>2. ASSUME NEW j \in 0 .. num - 1, vs[j] # vs[i]
        PROVE  vs[j] \in Members(last, vs2)
    <3>1. CASE j = last
      <4>1. i # last /\ i \in 0 .. last - 1
        BY <1>1, <2>2, <3>1
      <4>2. vs2[i] = vs[last]
        BY <1>2, <4>1
      <4> QED
        BY <3>1, <4>1, <4>2 DEF Members
    <3>2. CASE j # last
      <4>1. j \in 0 .. last - 1 /\ j # i
        BY <1>1, <2>2, <3>2 DEF last
      <4>2. vs2[j] = vs[j]
        BY <1>2, <4>1
      <4> QED
        BY <4>1, <4>2 DEF Members
    <3> QED
      BY <3>1, <3>2
  <2> QED
    BY <2>1, <2>2 DEF Members
<1>7. lent \subseteq Members(last, vs2)
  BY <1>6 DEF ArraysOK
<1> QED
  <2>1. ArraysOK(last, vs2, used2)
    <3>1. last \in Nat /\ last <= max_vecs
      BY <1>1
    <3> QED
      BY <3>1, <1>3, <1>4, <1>5, <1>7 DEF ArraysOK
  <2> QED
    BY <1>6, <2>1 DEF last

LEMMA LastTaken ==
  ASSUME max_vecs \in Nat, NEW num, NEW vs, NEW used, ArraysOK(num, vs, used),
         NEW i \in 0 .. num - 1, ~used[i], num - 1 = 0,
         NEW vs2, vs2 = [vs EXCEPT ![i] = NULL]
  PROVE  /\ ArraysOK(0, vs2, used)
         /\ Members(0, vs2) = Members(num, vs) \ {vs[i]}
<1>1. num = 1 /\ i = 0 /\ 0 .. num - 1 = {0}
  BY DEF ArraysOK
<1>2. Members(num, vs) = {vs[0]} /\ Members(0, vs2) = {}
  BY <1>1 DEF Members
<1>3. lent = {}
  BY <1>1, <1>2 DEF ArraysOK
<1>4. vs \in [Cells -> Vec \cup {NULL}] /\ used \in [Cells -> BOOLEAN]
  BY DEF ArraysOK
<1>5. vs2 \in [Cells -> Vec \cup {NULL}]
  BY <1>4
<1>6. \A j : j \notin 0 .. 0 - 1
  OBVIOUS
<1>7. ArraysOK(0, vs2, used)
  BY <1>3, <1>4, <1>5, <1>6 DEF ArraysOK
<1> QED
  BY <1>1, <1>2, <1>7

\* A vector taken out of the pool loses the pool's reference. One that a caller has a
\* reference to counts from then on.
LEMMA EntryDropped ==
  ASSUME NEW M, NEW refs, NEW count, CountsOK(M, refs, count), outside \in [Vec -> Nat],
         lent \subseteq M, M \subseteq Vec, handles \in Nat,
         NEW v \in Vec, v \in M, v \notin lent,
         NEW refs2, refs2 = [refs EXCEPT ![v] = @ - 1],
         NEW count2, count2 = IF refs[v] > 1 THEN count + 1 ELSE count
  PROVE  CountsOK(M \ {v}, refs2, count2)
<1>1. refs \in [Vec -> Nat] /\ count \in Nat /\ refs[v] = outside[v] + 1 /\ outside[v] \in Nat
  BY DEF CountsOK
<1>2. refs2 \in [Vec -> Nat] /\ refs2[v] = outside[v] /\ \A w \in Vec \ {v} : refs2[w] = refs[w]
  BY <1>1
<1>3. \A w \in Vec : refs2[w] = outside[w] + (IF w \in M \ {v} THEN 1 ELSE 0)
                                  + (IF w \in lent THEN 1 ELSE 0)
  BY <1>1, <1>2 DEF CountsOK
<1>4. Referenced(refs2) \subseteq Referenced(refs)
  BY <1>1, <1>2 DEF Referenced
<1>5. IsFiniteSet(Referenced(refs)) /\ IsFiniteSet(Referenced(refs2))
  BY <1>4, FS_Subset DEF CountsOK
<1> DEFINE lost == Referenced(refs) \ M
           lost2 == Referenced(refs2) \ (M \ {v})
<1>6. IsFiniteSet(lost) /\ Cardinality(lost) \in Nat /\ v \notin lost
  BY <1>5, FS_Subset, FS_CardinalityType
<1>7. count = handles + Cardinality(lent) + Cardinality(lost)
  BY DEF CountsOK
<1>8. CASE refs[v] > 1
  <2>1. lost2 = lost \cup {v}
    BY <1>1, <1>2, <1>8 DEF Referenced
  <2>2. Cardinality(lost2) = Cardinality(lost) + 1
    BY <1>6, <2>1, FS_AddElement
  <2>3. Cardinality(lent) \in Nat
    <3>1. lent \subseteq Referenced(refs)
      <4>1. ASSUME NEW w \in lent
            PROVE  w \in Referenced(refs)
        <5>1. w \in Vec
          BY <4>1
        <5> QED
          BY <5>1 DEF Referenced, CountsOK
      <4> QED
        BY <4>1
    <3> QED
      BY <1>5, <3>1, FS_Subset, FS_CardinalityType
  <2> HIDE DEF lost, lost2
  <2>4. count2 = handles + Cardinality(lent) + Cardinality(lost2)
    BY <1>1, <1>6, <1>7, <1>8, <2>2, <2>3
  <2> QED
    BY <1>1, <1>2, <1>3, <1>5, <1>8, <2>4 DEF CountsOK, lost2
<1>9. CASE ~(refs[v] > 1)
  <2>1. lost2 = lost
    BY <1>1, <1>2, <1>9 DEF Referenced
  <2> QED
    BY <1>1, <1>2, <1>3, <1>5, <1>7, <1>9, <2>1 DEF CountsOK
<1> QED
  BY <1>8, <1>9

(***************************************************************************)
(* The loop of CeedClearWorkVectors.                                       *)
(***************************************************************************)
Entries == [Cells -> Vec \cup {NULL}]
Flags == [Cells -> BOOLEAN]
Counts == [Vec -> Nat]
LoopStates ==
  [i : Nat, num : Nat, vecs : Entries, used : Flags, refs : Counts, count : Nat, again : BOOLEAN]

\* What holds in every round: the arrays and the counts are right for the entries left,
\* what has gone was idle and too short, and what was passed was not.
LoopInv(s, min_len) ==
  /\ s \in LoopStates
  /\ s.again = FALSE
  /\ ArraysOK(s.num, s.vecs, s.used)
  /\ CountsOK(Members(s.num, s.vecs), s.refs, s.count)
  /\ Members(s.num, s.vecs) \subseteq InPool
  /\ \A v \in InPool : v \in Members(s.num, s.vecs) \/ (v \notin lent /\ length[v] < min_len)
  /\ \A j \in 0 .. s.num - 1 : j < s.i => s.used[j] \/ length[s.vecs[j]] >= min_len

\* After k rounds the loop is done, or has passed or dropped k entries.
Progress(s, k) == s.i >= s.num \/ s.i + (num_vecs - s.num) >= k

\* The reference of the pool is dropped, and the context is not destroyed by that.
LEMMA LoopDestroys ==
  ASSUME NEW s \in LoopStates, NEW v \in Vec, s.again = FALSE, s.refs[v] >= 1
  PROVE  LET d == DestroyEntry(s, v)
         IN /\ d \in LoopStates /\ d.again = FALSE
            /\ d.i = s.i /\ d.num = s.num /\ d.vecs = s.vecs /\ d.used = s.used
            /\ d.refs = [s.refs EXCEPT ![v] = @ - 1]
            /\ d.count = IF s.refs[v] > 1 THEN s.count + 1 ELSE s.count
<1> DEFINE d == DestroyEntry(s, v)
<1>1. s.refs \in Counts /\ s.count \in Nat
  BY DEF LoopStates
<1> DEFINE refs2 == [s.refs EXCEPT ![v] = @ - 1]
<1>2. refs2 \in Counts
  BY <1>1 DEF Counts
<1>3. CASE s.refs[v] > 1
  <2>1. d = [s EXCEPT !.refs = refs2, !.count = s.count + 1]
    BY <1>3 DEF DestroyEntry, LoopStates
  <2> HIDE DEF d, refs2
  <2>2. /\ d \in LoopStates /\ d.again = FALSE
        /\ d.i = s.i /\ d.num = s.num /\ d.vecs = s.vecs /\ d.used = s.used
        /\ d.refs = refs2 /\ d.count = s.count + 1
    <3>1. s.count + 1 \in Nat
      BY <1>1
    <3> DEFINE more == s.count + 1
    <3>2. d = [s EXCEPT !.refs = refs2, !.count = more] /\ more \in Nat
      BY <2>1, <3>1
    <3> HIDE DEF more
    <3>3. /\ d \in LoopStates /\ d.again = FALSE
          /\ d.i = s.i /\ d.num = s.num /\ d.vecs = s.vecs /\ d.used = s.used
          /\ d.refs = refs2 /\ d.count = more
      BY <1>2, <3>2 DEF LoopStates
    <3> QED
      BY <3>3 DEF more
  <2> QED
    BY <1>3, <2>2 DEF d, refs2
<1>4. CASE ~(s.refs[v] > 1)
  <2>1. s.refs[v] - 1 = 0 /\ ~(s.count + 1 <= 0)
    BY <1>1, <1>4 DEF Counts
  <2>2. d = [s EXCEPT !.refs = [s.refs EXCEPT ![v] = 0], !.again = s.again \/ s.count + 1 <= 0]
    BY <1>4 DEF DestroyEntry, LoopStates
  <2>3. [s.refs EXCEPT ![v] = 0] = [s.refs EXCEPT ![v] = @ - 1]
    BY <2>1
  <2>4. (s.again \/ s.count + 1 <= 0) = FALSE
    BY <2>1
  <2>5. d = [s EXCEPT !.refs = refs2, !.again = FALSE]
    BY <2>2, <2>3, <2>4
  <2> HIDE DEF d, refs2
  <2>6. /\ d \in LoopStates /\ d.again = FALSE
        /\ d.i = s.i /\ d.num = s.num /\ d.vecs = s.vecs /\ d.used = s.used
        /\ d.refs = refs2 /\ d.count = s.count
    BY <1>1, <1>2, <2>5 DEF LoopStates
  <2> QED
    BY <1>4, <2>6 DEF d, refs2
<1> QED
  BY <1>3, <1>4

LEMMA LoopFills ==
  ASSUME NEW s \in LoopStates, s.i \in Cells, s.num - 1 \in Cells, s.num - 1 # 0
  PROVE  LET f == FillHole(s)
             last == s.num - 1
         IN /\ f \in LoopStates /\ f.again = s.again /\ f.refs = s.refs /\ f.count = s.count
            /\ f.i = s.i /\ f.num = last
            /\ f.vecs = [s.vecs EXCEPT ![s.i] = IF s.i = last THEN NULL ELSE s.vecs[last]]
            /\ f.used = [s.used EXCEPT ![s.i] = s.used[last], ![last] = FALSE]
<1> DEFINE f == FillHole(s)
           last == s.num - 1
           vs == [s.vecs EXCEPT ![s.i] = IF s.i = last THEN NULL ELSE s.vecs[last]]
           us == [s.used EXCEPT ![s.i] = s.used[last], ![last] = FALSE]
<1>1. s.vecs \in Entries /\ s.used \in Flags /\ last \in Nat
  BY DEF LoopStates, Cells
<1>2. f = [s EXCEPT !.num = last, !.vecs = vs, !.used = us]
  BY DEF FillHole, LoopStates
<1>3. vs \in Entries
  <2> DEFINE moved == IF s.i = last THEN NULL ELSE s.vecs[last]
  <2>1. moved \in Vec \cup {NULL}
    BY <1>1 DEF Entries
  <2>2. vs = [s.vecs EXCEPT ![s.i] = moved]
    OBVIOUS
  <2> HIDE DEF vs, moved
  <2> QED
    BY <1>1, <2>1, <2>2 DEF Entries
<1>4. us \in Flags
  <2> DEFINE flag == s.used[last]
  <2>1. flag \in BOOLEAN
    BY <1>1 DEF Flags
  <2>2. us = [s.used EXCEPT ![s.i] = flag, ![last] = FALSE]
    OBVIOUS
  <2> HIDE DEF us, flag, last
  <2> QED
    BY <1>1, <2>1, <2>2 DEF Flags
<1> HIDE DEF f, last, vs, us
<1>5. /\ f \in LoopStates /\ f.again = s.again /\ f.refs = s.refs /\ f.count = s.count
      /\ f.i = s.i /\ f.num = last /\ f.vecs = vs /\ f.used = us
  BY <1>1, <1>2, <1>3, <1>4 DEF LoopStates
<1> QED
  BY <1>5 DEF f, last, vs, us

LEMMA LoopEmpties ==
  ASSUME NEW s \in LoopStates, s.num - 1 = 0
  PROVE  LET f == FillHole(s)
         IN /\ f \in LoopStates /\ f.again = s.again /\ f.refs = s.refs /\ f.count = s.count
            /\ f.i = s.i + 1 /\ f.num = 0
            /\ f.vecs = [s.vecs EXCEPT ![s.i] = NULL] /\ f.used = s.used
<1> DEFINE f == FillHole(s)
           vs == [s.vecs EXCEPT ![s.i] = NULL]
<1>1. s.vecs \in Entries
  BY DEF LoopStates
<1>2. f = [s EXCEPT !.num = 0, !.vecs = vs, !.i = s.i + 1]
  BY DEF FillHole, LoopStates
<1>3. vs \in Entries
  BY <1>1 DEF Entries
<1>4. s.i + 1 \in Nat
  BY DEF LoopStates
<1> HIDE DEF f, vs
<1>5. /\ f \in LoopStates /\ f.again = s.again /\ f.refs = s.refs /\ f.count = s.count
      /\ f.i = s.i + 1 /\ f.num = 0 /\ f.vecs = vs /\ f.used = s.used
  BY <1>2, <1>3, <1>4 DEF LoopStates
<1> QED
  BY <1>5 DEF f, vs

LEMMA LoopStarts ==
  ASSUME NEW min_len, max_vecs \in Nat, num_vecs \in 0 .. max_vecs, vecs \in [Cells -> Vec \cup {NULL}],
         is_in_use \in [Cells -> BOOLEAN], vec_refs \in [Vec -> Nat], ref_count \in Nat,
         reentered = FALSE,
         ArraysOK(num_vecs, vecs, is_in_use), CountsOK(InPool, vec_refs, ref_count)
  PROVE  LoopInv(ClearStart, min_len) /\ Progress(ClearStart, 0) /\ ClearStart.num <= num_vecs
<1>1. ClearStart \in LoopStates
  <2>1. num_vecs \in Nat /\ vecs \in Entries /\ is_in_use \in Flags /\ vec_refs \in Counts
    BY DEF Entries, Flags, Counts
  <2> QED
    BY <2>1 DEF ClearStart, LoopStates
<1>2. /\ ClearStart.i = 0 /\ ClearStart.num = num_vecs /\ ClearStart.vecs = vecs
      /\ ClearStart.used = is_in_use /\ ClearStart.refs = vec_refs
      /\ ClearStart.count = ref_count /\ ClearStart.again = FALSE
  BY DEF ClearStart
<1>3. InPool = Members(num_vecs, vecs)
  BY DEF InPool, Slots, Members
<1>4. \A j \in 0 .. num_vecs - 1 : ~(j < 0)
  OBVIOUS
<1>5. Progress(ClearStart, 0)
  BY <1>2 DEF Progress
<1>6. LoopInv(ClearStart, min_len)
  BY <1>1, <1>2, <1>3, <1>4 DEF LoopInv
<1> QED
  BY <1>2, <1>5, <1>6

\* What the loop leaves as it is.
Constants ==
  /\ max_vecs \in Nat /\ num_vecs \in 0 .. max_vecs /\ vecs \in [Cells -> Vec \cup {NULL}]
  /\ handles \in Nat /\ outside \in [Vec -> Nat] /\ length \in [Vec -> Length \cup {0}]

LEMMA LoopPasses ==
  ASSUME Constants, NEW min_len \in Nat, NEW s, NEW k \in Nat, LoopInv(s, min_len), s.num <= num_vecs,
         Progress(s, k), s.i < s.num, s.used[s.i] \/ length[s.vecs[s.i]] >= min_len
  PROVE  LET t == [s EXCEPT !.i = @ + 1]
         IN LoopInv(t, min_len) /\ Progress(t, k + 1) /\ t.num <= num_vecs
<1> DEFINE t == [s EXCEPT !.i = @ + 1]
<1>1. s \in LoopStates /\ s.i \in Nat /\ s.num \in Nat
  BY DEF LoopInv, LoopStates
<1> DEFINE next == s.i + 1
<1>2. t = [s EXCEPT !.i = next] /\ next \in Nat
  BY <1>1
<1>3. \A j \in 0 .. s.num - 1 : j < next => j < s.i \/ j = s.i
  BY <1>1
<1>4. next >= s.num \/ next + (num_vecs - s.num) >= k + 1
  BY <1>1 DEF Progress, Constants
<1> HIDE DEF next, t
<1>5. /\ t \in LoopStates /\ t.again = s.again /\ t.refs = s.refs /\ t.count = s.count
      /\ t.i = next /\ t.num = s.num /\ t.vecs = s.vecs /\ t.used = s.used
  BY <1>1, <1>2 DEF LoopStates
<1>6. \A j \in 0 .. t.num - 1 : j < t.i => t.used[j] \/ length[t.vecs[j]] >= min_len
  BY <1>3, <1>5 DEF LoopInv
<1>7. LoopInv(t, min_len)
  BY <1>5, <1>6 DEF LoopInv
<1>8. Progress(t, k + 1)
  BY <1>4, <1>5 DEF Progress
<1> QED
  BY <1>5, <1>7, <1>8 DEF t

LEMMA LoopDrops ==
  ASSUME Constants, NEW min_len \in Nat, NEW s, NEW k \in Nat, LoopInv(s, min_len), s.num <= num_vecs,
         Progress(s, k), s.i < s.num, ~(s.used[s.i] \/ length[s.vecs[s.i]] >= min_len)
  PROVE  LET t == FillHole(DestroyEntry(s, s.vecs[s.i]))
         IN LoopInv(t, min_len) /\ Progress(t, k + 1) /\ t.num <= num_vecs
<1> DEFINE v == s.vecs[s.i]
           M == Members(s.num, s.vecs)
           last == s.num - 1
           d == DestroyEntry(s, v)
           t == FillHole(d)
           refs2 == [s.refs EXCEPT ![v] = @ - 1]
           count2 == IF s.refs[v] > 1 THEN s.count + 1 ELSE s.count
<1>1. /\ s \in LoopStates /\ s.i \in Nat /\ s.num \in Nat /\ s.again = FALSE
      /\ ArraysOK(s.num, s.vecs, s.used) /\ CountsOK(M, s.refs, s.count)
  BY DEF LoopInv, LoopStates
<1>2. s.i \in 0 .. last /\ last \in 0 .. last /\ last \in Nat
  BY <1>1
<1>3. M \subseteq Vec /\ s.i \in Cells /\ last \in Cells
  BY <1>1, <1>2, MembersBelow DEF Constants
<1>4. v \in M /\ v \in Vec /\ v \notin lent /\ length[v] < min_len
  <2>1. v \in M /\ v \in Vec /\ ~s.used[s.i] /\ (s.used[s.i] <=> v \in lent)
    BY <1>1, <1>2 DEF Members, ArraysOK
  <2>2. ~(length[v] >= min_len)
    OBVIOUS
  <2> HIDE DEF v, M
  <2>3. length[v] \in Nat
    <3>1. length \in [Vec -> Length \cup {0}] /\ Length \cup {0} \subseteq Nat
      BY PoolAssumption DEF Constants
    <3> QED
      BY <2>1, <3>1
  <2> QED
    BY <2>1, <2>2, <2>3
<1>5. lent \subseteq M
  BY <1>1 DEF ArraysOK
<1>6. s.refs[v] = outside[v] + 1 /\ outside[v] \in Nat
  BY <1>1, <1>4 DEF CountsOK, Constants
<1>7. CountsOK(M \ {v}, refs2, count2)
  BY <1>1, <1>3, <1>4, <1>5, EntryDropped DEF Constants
<1>8. /\ d \in LoopStates /\ d.again = FALSE
      /\ d.i = s.i /\ d.num = s.num /\ d.vecs = s.vecs /\ d.used = s.used
      /\ d.refs = refs2 /\ d.count = count2
  <2> HIDE DEF v
  <2>1. s.refs[v] >= 1
    BY <1>6
  <2> QED
    BY <1>1, <1>4, <2>1, LoopDestroys
<1>9. ~s.used[s.i]
  OBVIOUS
<1>10. ASSUME NEW w \in InPool
       PROVE  w \in M \ {v} \/ (w \notin lent /\ length[w] < min_len)
  BY <1>4 DEF LoopInv
<1>11. M \ {v} \subseteq InPool
  BY DEF LoopInv
<1>12. CASE last # 0
  <2> DEFINE vs2 == [s.vecs EXCEPT ![s.i] = IF s.i = last THEN NULL ELSE s.vecs[last]]
             used2 == [s.used EXCEPT ![s.i] = s.used[last], ![last] = FALSE]
  <2>1. ArraysOK(last, vs2, used2) /\ Members(last, vs2) = M \ {s.vecs[s.i]}
    <3>1. /\ s.num - 1 # 0 /\ s.i \in 0 .. s.num - 1
          /\ Moved(s.num, s.vecs, s.used, s.i, vs2, used2)
      BY <1>2, <1>12 DEF Moved
    <3> HIDE DEF v, vs2, used2, d, t
    <3>2. max_vecs \in Nat
      BY DEF Constants
    <3>3. /\ ArraysOK(s.num - 1, vs2, used2)
          /\ Members(s.num - 1, vs2) = Members(s.num, s.vecs) \ {s.vecs[s.i]}
      BY <1>1, <1>9, <3>1, <3>2, HoleFilled
    <3> QED
      BY <3>3
  <2>2. /\ t \in LoopStates /\ t.again = FALSE /\ t.refs = refs2 /\ t.count = count2
        /\ t.i = s.i /\ t.num = last /\ t.vecs = vs2 /\ t.used = used2
    <3>1. d.i \in Cells /\ d.num - 1 \in Cells /\ d.num - 1 # 0
      BY <1>3, <1>8, <1>12
    <3> HIDE DEF d
    <3> QED
      BY <1>8, <3>1, LoopFills
  <2>3. \A j \in 0 .. last - 1 : j < s.i => vs2[j] = s.vecs[j] /\ used2[j] = s.used[j]
    <3> SUFFICES ASSUME NEW j \in 0 .. last - 1, j < s.i
                 PROVE  vs2[j] = s.vecs[j] /\ used2[j] = s.used[j]
      OBVIOUS
    <3>1. j # s.i /\ j # last /\ j \in 0 .. s.num - 1
      BY <1>1
    <3>2. j \in Cells /\ s.vecs \in [Cells -> Vec \cup {NULL}] /\ s.used \in [Cells -> BOOLEAN]
      BY <1>1, <3>1, MembersBelow DEF ArraysOK, Constants
    <3> HIDE DEF last
    <3> QED
      BY <3>1, <3>2
  <2>4. last <= num_vecs /\ (s.i >= last \/ s.i + (num_vecs - last) >= k + 1)
    BY <1>1 DEF Progress, Constants
  <2>5. \A j \in 0 .. last - 1 : j \in 0 .. s.num - 1
    BY <1>1
  <2> HIDE DEF vs2, used2, last, t, d, refs2, count2, M, v
  <2>6. \A j \in 0 .. t.num - 1 : j < t.i => t.used[j] \/ length[t.vecs[j]] >= min_len
    BY <2>2, <2>3, <2>5 DEF LoopInv
  <2>7. Members(t.num, t.vecs) = M \ {v}
    BY <2>1, <2>2 DEF v
  <2>8. LoopInv(t, min_len)
    BY <1>7, <1>10, <1>11, <2>1, <2>2, <2>6, <2>7 DEF LoopInv
  <2>9. Progress(t, k + 1) /\ t.num <= num_vecs
    BY <2>2, <2>4 DEF Progress
  <2> QED
    BY <2>8, <2>9 DEF t, d, v
<1>13. CASE last = 0
  <2> DEFINE vs2 == [s.vecs EXCEPT ![s.i] = NULL]
  <2>1. ArraysOK(0, vs2, s.used) /\ Members(0, vs2) = M \ {s.vecs[s.i]}
    <3> HIDE DEF v
    <3> QED
      BY <1>1, <1>2, <1>9, <1>13, LastTaken DEF Constants
  <2>2. /\ t \in LoopStates /\ t.again = FALSE /\ t.refs = refs2 /\ t.count = count2
        /\ t.i = s.i + 1 /\ t.num = 0 /\ t.vecs = vs2 /\ t.used = s.used
    <3>1. d.num - 1 = 0
      BY <1>8, <1>13
    <3> HIDE DEF d
    <3> QED
      BY <1>8, <3>1, LoopEmpties
  <2>3. \A j \in 0 .. 0 - 1 : FALSE
    OBVIOUS
  <2>4. s.i + 1 >= 0 /\ 0 <= num_vecs
    BY <1>1 DEF Constants
  <2> HIDE DEF vs2, last, t, d, refs2, count2, M, v
  <2>5. Members(t.num, t.vecs) = M \ {v}
    BY <2>1, <2>2 DEF v
  <2>6. LoopInv(t, min_len)
    BY <1>7, <1>10, <1>11, <2>1, <2>2, <2>3, <2>5 DEF LoopInv
  <2>7. Progress(t, k + 1) /\ t.num <= num_vecs
    BY <2>2, <2>4 DEF Progress
  <2> QED
    BY <2>6, <2>7 DEF t, d, v
<1> QED
  BY <1>12, <1>13

LEMMA LoopSteps ==
  ASSUME Constants, NEW min_len \in Nat, NEW s, NEW k \in Nat, LoopInv(s, min_len), s.num <= num_vecs,
         Progress(s, k)
  PROVE  /\ LoopInv(ClearStep(s, min_len), min_len)
         /\ Progress(ClearStep(s, min_len), k + 1)
         /\ ClearStep(s, min_len).num <= num_vecs
<1> DEFINE t == ClearStep(s, min_len)
<1>1. s.i \in Nat /\ s.num \in Nat
  BY DEF LoopInv, LoopStates
<1>2. CASE s.i >= s.num
  <2>1. t = s
    BY <1>2 DEF ClearStep
  <2>2. Progress(s, k + 1)
    BY <1>2 DEF Progress
  <2> HIDE DEF t
  <2> QED
    BY <2>1, <2>2 DEF t
<1>3. CASE s.i < s.num /\ (s.used[s.i] \/ length[s.vecs[s.i]] >= min_len)
  <2>1. t = [s EXCEPT !.i = @ + 1]
    BY <1>1, <1>3 DEF ClearStep
  <2>2. LET u == [s EXCEPT !.i = @ + 1]
        IN LoopInv(u, min_len) /\ Progress(u, k + 1) /\ u.num <= num_vecs
    BY <1>3, LoopPasses
  <2> HIDE DEF t
  <2> QED
    BY <2>1, <2>2 DEF t
<1>4. CASE s.i < s.num /\ ~(s.used[s.i] \/ length[s.vecs[s.i]] >= min_len)
  <2>1. t = FillHole(DestroyEntry(s, s.vecs[s.i]))
    BY <1>1, <1>4 DEF ClearStep
  <2>2. LET u == FillHole(DestroyEntry(s, s.vecs[s.i]))
        IN LoopInv(u, min_len) /\ Progress(u, k + 1) /\ u.num <= num_vecs
    BY <1>4, LoopDrops
  <2> HIDE DEF t
  <2> QED
    BY <2>1, <2>2 DEF t
<1> QED
  BY <1>1, <1>2, <1>3, <1>4

\* The rounds that are enough: what the loop leaves in the pool.
LEMMA ClearedKeeps ==
  ASSUME Constants, NEW min_len \in Nat, LoopInv(ClearStart, min_len), Progress(ClearStart, 0),
         ClearStart.num <= num_vecs
  PROVE  LET s == Cleared(min_len)
         IN LoopInv(s, min_len) /\ s.i >= s.num /\ s.num <= num_vecs
<1>1. num_vecs \in Nat
  BY DEF Constants
<1>2. PICK f : ClearRounds(f, num_vecs, ClearStart, min_len) /\ Cleared(min_len) = f[num_vecs]
  BY <1>1, ClearedRounds
<1>3. \A k \in 0 .. num_vecs :
        f[k] = IF k = 0 THEN ClearStart ELSE ClearStep(f[k - 1], min_len)
  BY <1>2 DEF ClearRounds
<1> DEFINE S == {k \in 0 .. num_vecs :
                  LoopInv(f[k], min_len) /\ Progress(f[k], k) /\ f[k].num <= num_vecs}
<1>4. 0 \in S
  BY <1>1, <1>3
<1>5. ASSUME NEW k \in 0 .. num_vecs, k \in S, k < num_vecs
      PROVE  k + 1 \in S
  <2>1. k \in Nat /\ k + 1 \in 0 .. num_vecs /\ k + 1 # 0 /\ (k + 1) - 1 = k
    BY <1>1, <1>5
  <2>2. f[k + 1] = ClearStep(f[k], min_len)
    BY <1>3, <2>1
  <2>3. LoopInv(f[k], min_len) /\ Progress(f[k], k) /\ f[k].num <= num_vecs
    BY <1>5
  <2>4. /\ LoopInv(ClearStep(f[k], min_len), min_len)
        /\ Progress(ClearStep(f[k], min_len), k + 1)
        /\ ClearStep(f[k], min_len).num <= num_vecs
    BY <2>1, <2>3, LoopSteps
  <2> QED
    BY <2>1, <2>2, <2>4
<1>6. 0 .. num_vecs \subseteq S
  <2> HIDE DEF S
  <2> QED
    BY <1>1, <1>4, <1>5, AllRounds
<1>7. num_vecs \in S
  BY <1>1, <1>6
<1> DEFINE s == f[num_vecs]
<1>8. LoopInv(s, min_len) /\ Progress(s, num_vecs) /\ s.num <= num_vecs
  BY <1>7
<1> HIDE DEF s
<1>9. s.i >= s.num
  <2>1. s.i \in Nat /\ s.num \in Nat
    BY <1>8 DEF LoopInv, LoopStates
  <2> QED
    BY <1>1, <1>8, <2>1 DEF Progress
<1> QED
  BY <1>2, <1>8, <1>9 DEF s

\* What is left is what was lent or long enough.
LEMMA ClearedMembers ==
  ASSUME Constants, NEW min_len \in Nat, NEW s, LoopInv(s, min_len), s.i >= s.num, InPool \subseteq Vec
  PROVE  Members(s.num, s.vecs) = {v \in InPool : v \in lent \/ length[v] >= min_len}
<1>1. s.i \in Nat /\ s.num \in Nat /\ ArraysOK(s.num, s.vecs, s.used)
  BY DEF LoopInv, LoopStates
<1>2. ASSUME NEW v \in Members(s.num, s.vecs)
      PROVE  v \in InPool /\ (v \in lent \/ length[v] >= min_len)
  <2>1. PICK j \in 0 .. s.num - 1 : v = s.vecs[j]
    BY DEF Members
  <2>2. j < s.i
    BY <1>1, <2>1
  <2>3. s.used[j] \/ length[s.vecs[j]] >= min_len
    BY <2>1, <2>2 DEF LoopInv
  <2>4. s.used[j] <=> v \in lent
    BY <1>1, <2>1 DEF ArraysOK
  <2> QED
    BY <2>1, <2>3, <2>4 DEF LoopInv
<1>3. ASSUME NEW v \in InPool, v \in lent \/ length[v] >= min_len
      PROVE  v \in Members(s.num, s.vecs)
  <2>1. CASE v \in lent
    BY <1>1, <2>1 DEF ArraysOK
  <2>2. CASE v \notin lent /\ length[v] >= min_len
    <3>1. length[v] \in Nat
      <4>1. length \in [Vec -> Length \cup {0}] /\ Length \cup {0} \subseteq Nat
        BY PoolAssumption DEF Constants
      <4> QED
        BY <4>1
    <3>2. ~(length[v] < min_len)
      BY <2>2, <3>1
    <3> QED
      BY <3>2 DEF LoopInv
  <2> QED
    BY <1>3, <2>1, <2>2
<1> QED
  BY <1>2, <1>3

(***************************************************************************)
(* The loop of CeedWorkVectorsDestroy.                                     *)
(***************************************************************************)
DestroyStart(refs) == [refs |-> refs, count |-> 0, again |-> FALSE]

DestroyRounds(f, n, refs) ==
  f = [k \in 0 .. n |-> IF k = 0 THEN DestroyStart(refs) ELSE DestroyEntry(f[k - 1], vecs[k - 1])]

LEMMA DestroyRoundsExist ==
  ASSUME NEW n \in Nat, NEW refs
  PROVE  \E f : DestroyRounds(f, n, refs)
<1> DEFINE S == {k \in 0 .. n : \E f : DestroyRounds(f, k, refs)}
<1>1. 0 \in S
  <2> DEFINE f == [k \in 0 .. 0 |-> DestroyStart(refs)]
  <2>1. f = [k \in 0 .. 0 |->
               IF k = 0 THEN DestroyStart(refs) ELSE DestroyEntry(f[k - 1], vecs[k - 1])]
    OBVIOUS
  <2>2. DestroyRounds(f, 0, refs)
    BY <2>1 DEF DestroyRounds
  <2> HIDE DEF f
  <2> QED
    BY <2>2
<1>2. ASSUME NEW k \in 0 .. n, k \in S, k < n
      PROVE  k + 1 \in S
  <2>1. PICK f : DestroyRounds(f, k, refs)
    BY <1>2
  <2> DEFINE g == [j \in 0 .. k + 1 |-> IF j = k + 1 THEN DestroyEntry(f[k], vecs[k]) ELSE f[j]]
  <2>2. \A j \in 0 .. k :
          f[j] = IF j = 0 THEN DestroyStart(refs) ELSE DestroyEntry(f[j - 1], vecs[j - 1])
    BY <2>1 DEF DestroyRounds
  <2>3. ASSUME NEW j \in 0 .. k + 1
        PROVE  g[j] = IF j = 0 THEN DestroyStart(refs) ELSE DestroyEntry(g[j - 1], vecs[j - 1])
    <3>1. CASE j = k + 1
      <4>1. g[j] = DestroyEntry(f[k], vecs[k]) /\ j # 0 /\ j - 1 = k
        BY <3>1
      <4>2. g[k] = f[k]
        OBVIOUS
      <4> HIDE DEF g
      <4> QED
        BY <4>1, <4>2
    <3>2. CASE j = 0
      BY <2>2, <3>2
    <3>3. CASE j # k + 1 /\ j # 0
      <4>1. j \in 0 .. k /\ j - 1 \in 0 .. k /\ g[j] = f[j] /\ g[j - 1] = f[j - 1]
        BY <3>3
      <4> HIDE DEF g
      <4> QED
        BY <2>2, <3>3, <4>1
    <3> QED
      BY <3>1, <3>2, <3>3
  <2>4. g = [j \in 0 .. k + 1 |->
               IF j = 0 THEN DestroyStart(refs) ELSE DestroyEntry(g[j - 1], vecs[j - 1])]
    <3>1. g = [j \in 0 .. k + 1 |-> g[j]]
      OBVIOUS
    <3> HIDE DEF g
    <3> QED
      BY <2>3, <3>1
  <2> HIDE DEF g
  <2> QED
    BY <1>2, <2>4 DEF DestroyRounds
<1>3. 0 .. n \subseteq S
  BY <1>1, <1>2, AllRounds
<1> QED
  BY <1>3

\* The value of the LET in WorkVectorsDestroy.
Destroyed(refs) ==
  LET start == [refs |-> refs, count |-> 0, again |-> FALSE]
      round[k \in 0 .. num_vecs] ==
        IF k = 0 THEN start ELSE DestroyEntry(round[k - 1], vecs[k - 1])
  IN round[num_vecs]

LEMMA DestroyedRounds ==
  ASSUME num_vecs \in Nat, NEW refs
  PROVE  \E f : DestroyRounds(f, num_vecs, refs) /\ Destroyed(refs) = f[num_vecs]
<1> DEFINE f == CHOOSE f : f = [k \in 0 .. num_vecs |->
                  IF k = 0 THEN DestroyStart(refs) ELSE DestroyEntry(f[k - 1], vecs[k - 1])]
<1>1. \E g : g = [k \in 0 .. num_vecs |->
                IF k = 0 THEN DestroyStart(refs) ELSE DestroyEntry(g[k - 1], vecs[k - 1])]
  <2>1. PICK g : DestroyRounds(g, num_vecs, refs)
    BY DestroyRoundsExist
  <2> QED
    BY <2>1 DEF DestroyRounds
<1>2. f = [k \in 0 .. num_vecs |->
             IF k = 0 THEN DestroyStart(refs) ELSE DestroyEntry(f[k - 1], vecs[k - 1])]
  BY <1>1
<1>3. Destroyed(refs) = f[num_vecs]
  BY DEF Destroyed, DestroyStart
<1> HIDE DEF f
<1> QED
  BY <1>2, <1>3 DEF DestroyRounds

DestroyStates == [refs : Counts, count : Nat, again : BOOLEAN]

\* After k rounds the first k entries are gone, and the context is not destroyed again.
DestroyInv(s, k, refs) ==
  /\ s \in DestroyStates /\ s.count = 0 /\ s.again = FALSE
  /\ \A v \in Vec : s.refs[v] = IF v \in Members(k, vecs) THEN 0 ELSE refs[v]

\* Every entry has no reference but the pool's: it goes.
LEMMA DestroySteps ==
  ASSUME NEW refs \in Counts, NEW k \in Nat, NEW s, DestroyInv(s, k, refs),
         vecs[k] \in Vec, vecs[k] \notin Members(k, vecs), refs[vecs[k]] = 1
  PROVE  DestroyInv(DestroyEntry(s, vecs[k]), k + 1, refs)
<1> DEFINE v == vecs[k]
           d == DestroyEntry(s, v)
           refs2 == [s.refs EXCEPT ![v] = 0]
<1>1. s \in DestroyStates /\ s.refs \in Counts /\ s.count = 0 /\ s.again = FALSE /\ s.refs[v] = 1
  BY DEF DestroyInv, DestroyStates
<1>2. d = [s EXCEPT !.refs = refs2, !.again = FALSE]
  <2>1. d = [s EXCEPT !.refs = refs2, !.again = s.again \/ s.count + 1 <= 0]
    BY <1>1 DEF DestroyEntry, DestroyStates
  <2>2. (s.again \/ s.count + 1 <= 0) = FALSE
    BY <1>1
  <2> QED
    BY <2>1, <2>2
<1>3. refs2 \in Counts
  BY <1>1 DEF Counts
<1>4. \A w \in Vec : refs2[w] = IF w = v THEN 0 ELSE s.refs[w]
  BY <1>1 DEF Counts
<1>5. \A w : w \in Members(k + 1, vecs) <=> w \in Members(k, vecs) \/ w = v
  <2>1. \A j : j \in 0 .. (k + 1) - 1 <=> j \in 0 .. k - 1 \/ j = k
    OBVIOUS
  <2> QED
    BY <2>1 DEF Members
<1> HIDE DEF d, refs2
<1>6. d \in DestroyStates /\ d.count = 0 /\ d.again = FALSE /\ d.refs = refs2
  BY <1>1, <1>2, <1>3 DEF DestroyStates
<1>7. DestroyInv(d, k + 1, refs)
  <2> HIDE DEF v
  <2> QED
    BY <1>4, <1>5, <1>6 DEF DestroyInv
<1> QED
  BY <1>7 DEF d

LEMMA DestroyedKeeps ==
  ASSUME NEW refs \in Counts, num_vecs \in Nat, \A i \in Slots : vecs[i] \in Vec /\ refs[vecs[i]] = 1,
         \A i, j \in Slots : vecs[i] = vecs[j] => i = j
  PROVE  /\ Destroyed(refs).count = 0 /\ Destroyed(refs).again = FALSE
         /\ Destroyed(refs).refs \in Counts
         /\ \A v \in Vec : Destroyed(refs).refs[v] = IF v \in InPool THEN 0 ELSE refs[v]
<1>1. PICK f : DestroyRounds(f, num_vecs, refs) /\ Destroyed(refs) = f[num_vecs]
  BY DestroyedRounds
<1>2. \A k \in 0 .. num_vecs :
        f[k] = IF k = 0 THEN DestroyStart(refs) ELSE DestroyEntry(f[k - 1], vecs[k - 1])
  BY <1>1 DEF DestroyRounds
<1> DEFINE S == {k \in 0 .. num_vecs : DestroyInv(f[k], k, refs)}
<1>3. 0 \in S
  <2>1. f[0] = DestroyStart(refs)
    BY <1>2
  <2>2. Members(0, vecs) = {}
    BY DEF Members
  <2>3. DestroyInv(DestroyStart(refs), 0, refs)
    BY <2>2 DEF DestroyInv, DestroyStart, DestroyStates
  <2> QED
    BY <2>1, <2>3
<1>4. ASSUME NEW k \in 0 .. num_vecs, k \in S, k < num_vecs
      PROVE  k + 1 \in S
  <2>1. k \in Nat /\ k \in Slots /\ k + 1 \in 0 .. num_vecs /\ k + 1 # 0 /\ (k + 1) - 1 = k
    BY <1>4 DEF Slots
  <2>2. f[k + 1] = DestroyEntry(f[k], vecs[k])
    BY <1>2, <2>1
  <2>3. vecs[k] \notin Members(k, vecs)
    <3>1. \A j \in 0 .. k - 1 : j \in Slots /\ j # k
      BY <1>4 DEF Slots
    <3> QED
      BY <2>1, <3>1 DEF Members
  <2>4. DestroyInv(DestroyEntry(f[k], vecs[k]), k + 1, refs)
    <3>1. DestroyInv(f[k], k, refs) /\ vecs[k] \in Vec /\ refs[vecs[k]] = 1
      BY <1>4, <2>1
    <3> QED
      BY <2>1, <2>3, <3>1, DestroySteps
  <2> QED
    BY <2>1, <2>2, <2>4
<1>5. num_vecs \in S
  <2> HIDE DEF S
  <2>1. 0 .. num_vecs \subseteq S
    BY <1>3, <1>4, AllRounds
  <2> QED
    BY <2>1
<1>6. Members(num_vecs, vecs) = InPool
  BY DEF Members, InPool, Slots
<1>7. DestroyInv(Destroyed(refs), num_vecs, refs)
  BY <1>1, <1>5
<1> QED
  BY <1>6, <1>7 DEF DestroyInv, DestroyStates

(***************************************************************************)
(* The inductive invariant.                                                *)
(***************************************************************************)
\* The types of what the arrays and the counts leave open.
Typed ==
  /\ max_vecs \in Nat /\ num_vecs \in 0 .. max_vecs /\ vecs \in [Cells -> Vec \cup {NULL}]
  /\ length \in [Vec -> Length \cup {0}] /\ outside \in [Vec -> Nat]
  /\ handles \in Nat /\ lent \in SUBSET Vec /\ reentered \in BOOLEAN

IInv ==
  /\ Typed
  /\ ArraysOK(num_vecs, vecs, is_in_use)
  /\ CountsOK(InPool, vec_refs, ref_count)
  /\ NeverReentered

LEMMA IInvConstants ==
  ASSUME IInv
  PROVE  /\ Constants /\ InPool = Members(num_vecs, vecs) /\ InPool \subseteq Vec
         /\ lent \subseteq InPool /\ reentered = FALSE
<1>1. Constants
  BY DEF IInv, Typed, Constants
<1>2. InPool = Members(num_vecs, vecs)
  BY DEF InPool, Members, Slots
<1>3. InPool \subseteq Vec
  BY <1>1, <1>2, MembersBelow DEF IInv, Constants
<1>4. lent \subseteq InPool
  BY <1>2 DEF IInv, ArraysOK
<1>5. reentered = FALSE
  BY DEF IInv, NeverReentered, Typed
<1> QED
  BY <1>1, <1>2, <1>3, <1>4, <1>5

\* It gives the invariants of the runs.
LEMMA IInvTypes ==
  ASSUME IInv
  PROVE  PoolTypeOK
<1>1. vec_refs \in [Vec -> Nat] /\ ref_count \in Nat
  BY DEF IInv, CountsOK
<1>2. is_in_use \in [Cells -> BOOLEAN]
  BY DEF IInv, ArraysOK
<1> QED
  BY <1>1, <1>2 DEF IInv, Typed, PoolTypeOK

LEMMA IInvAccounts ==
  ASSUME IInv
  PROVE  PoolAccounted
<1>1. \A i, j \in Slots : vecs[i] = vecs[j] => i = j
  BY DEF IInv, ArraysOK, Slots
<1>2. {vecs[i] : i \in {j \in Slots : is_in_use[j]}} = lent
  <2>1. \A i \in Slots : is_in_use[i] <=> vecs[i] \in lent
    BY DEF IInv, ArraysOK, Slots
  <2>2. \A v \in lent : \E i \in Slots : v = vecs[i]
    BY IInvConstants DEF InPool
  <2> QED
    BY <2>1, <2>2
<1>3. \A v \in Vec :
        vec_refs[v] = outside[v] + (IF v \in InPool THEN 1 ELSE 0) + (IF v \in lent THEN 1 ELSE 0)
  BY DEF IInv, CountsOK
<1> QED
  BY <1>1, <1>2, <1>3 DEF PoolAccounted

LEMMA IInvCounts ==
  ASSUME IInv
  PROVE  ContextReferences
BY DEF IInv, CountsOK, ContextReferences, Existing, Referenced

LEMMA InitIInv ==
  ASSUME Init
  PROVE  IInv
<1>1. Typed
  <2>1. max_vecs = 0 /\ num_vecs = 0 /\ vecs = <<>> /\ Cells = {}
    BY DEF Init, Empty, Cells
  <2>2. vecs \in [Cells -> Vec \cup {NULL}]
    BY <2>1
  <2>3. length \in [Vec -> Length \cup {0}]
    BY DEF Init
  <2>4. outside \in [Vec -> Nat]
    BY DEF Init
  <2>5. handles \in Nat /\ lent \in SUBSET Vec /\ reentered \in BOOLEAN
    BY DEF Init
  <2> QED
    BY <2>1, <2>2, <2>3, <2>4, <2>5 DEF Typed
<1>2. InPool = {} /\ \A i : i \notin 0 .. num_vecs - 1
  BY DEF Init, Empty, InPool, Slots
<1>3. ArraysOK(num_vecs, vecs, is_in_use)
  <2>1. Cells = {} /\ is_in_use = <<>> /\ is_in_use \in [Cells -> BOOLEAN]
    BY DEF Init, Empty, Cells
  <2>2. num_vecs = 0 /\ max_vecs = 0 /\ lent = {} /\ vecs \in [Cells -> Vec \cup {NULL}]
    BY <1>1 DEF Init, Empty, Typed
  <2> QED
    BY <1>2, <2>1, <2>2 DEF ArraysOK
<1>4. CountsOK(InPool, vec_refs, ref_count)
  <2>1. Referenced(vec_refs) = {} /\ lent = {}
    BY DEF Init, Referenced
  <2>2. Cardinality(lent) = 0 /\ Cardinality(Referenced(vec_refs) \ InPool) = 0
    BY <2>1, FS_EmptySet
  <2>3. IsFiniteSet(Referenced(vec_refs))
    BY <2>1, FS_EmptySet
  <2>4. ref_count = 1 /\ handles = 1 /\ vec_refs \in [Vec -> Nat]
    BY DEF Init
  <2>5. \A v \in Vec : vec_refs[v] = 0 /\ outside[v] = 0
    BY DEF Init
  <2> QED
    BY <1>2, <2>1, <2>2, <2>3, <2>4, <2>5 DEF CountsOK
<1> QED
  BY <1>1, <1>3, <1>4 DEF IInv, NeverReentered, Init

\* The vectors that are lent are in the pool, and so they exist.
LEMMA LentFinite ==
  ASSUME IInv
  PROVE  /\ IsFiniteSet(lent) /\ Cardinality(lent) \in Nat
         /\ InPool \subseteq Referenced(vec_refs)
         /\ IsFiniteSet(Referenced(vec_refs) \ InPool)
         /\ Cardinality(Referenced(vec_refs) \ InPool) \in Nat
<1>1. InPool \subseteq Vec /\ lent \subseteq InPool
  BY IInvConstants
<1>2. InPool \subseteq Referenced(vec_refs)
  <2>1. ASSUME NEW v \in InPool
        PROVE  vec_refs[v] > 0
    <3>1. v \in Vec /\ outside[v] \in Nat
      BY <1>1 DEF IInv, Typed
    <3> QED
      BY <3>1 DEF IInv, CountsOK
  <2> QED
    BY <1>1, <2>1 DEF Referenced
<1>3. IsFiniteSet(Referenced(vec_refs))
  BY DEF IInv, CountsOK
<1>4. IsFiniteSet(lent)
  BY <1>1, <1>2, <1>3, FS_Subset
<1>5. IsFiniteSet(Referenced(vec_refs) \ InPool)
  BY <1>3, FS_Subset
<1> QED
  BY <1>2, <1>4, <1>5, FS_CardinalityType

\* A step that leaves the arrays, and what is lent, as they are.
LEMMA ArraysKept ==
  ASSUME IInv, UNCHANGED arrays, UNCHANGED lent
  PROVE  ArraysOK(num_vecs, vecs, is_in_use)' /\ InPool' = InPool
<1>1. UNCHANGED <<vecs, is_in_use, num_vecs, max_vecs>>
  BY DEF arrays
<1>2. ArraysOK(num_vecs, vecs, is_in_use)'
  BY <1>1 DEF IInv, ArraysOK, Cells, Members
<1>3. InPool' = InPool
  BY <1>1 DEF InPool, Slots
<1> QED
  BY <1>2, <1>3

(***************************************************************************)
(* Getting and restoring.                                                  *)
(***************************************************************************)
\* The search finds an adequate entry if there is one, and says so if there is none.
LEMMA SearchFinds ==
  ASSUME num_vecs \in Nat, NEW len
  PROVE  \/ /\ Search(len) \in Slots /\ Adequate(Search(len), len)
         \/ /\ Search(len) = num_vecs /\ \A i \in Slots : ~Adequate(i, len)
<1> DEFINE found == {i \in Slots : Adequate(i, len)}
<1>1. CASE found = {}
  BY <1>1 DEF Search
<1>2. CASE found # {}
  <2>1. found \subseteq Nat
    BY DEF Slots
  <2>2. \E i \in found : \A j \in found : i <= j
    <3> HIDE DEF found
    <3> QED
      BY <1>2, <2>1, LeastNumber
  <2>3. Search(len) = CHOOSE i \in found : \A j \in found : i <= j
    BY <1>2 DEF Search
  <2>4. Search(len) \in found
    <3> HIDE DEF found
    <3> QED
      BY <2>2, <2>3
  <2> QED
    BY <2>4
<1> QED
  BY <1>1, <1>2

LEMMA LendIdleKeeps ==
  ASSUME IInv, NEW len \in Length, GetIdle(len)
  PROVE  /\ IInv' /\ InPool' = InPool
         /\ \E v \in InPool \ lent : length[v] >= len /\ lent' = lent \cup {v} /\ length' = length
<1> DEFINE i == Search(len)
           v == vecs[i]
<1>1. num_vecs \in Nat /\ max_vecs \in Nat
  BY DEF IInv, Typed
<1>2. i \in Slots /\ Adequate(i, len)
  <2>1. i < num_vecs
    BY DEF GetIdle
  <2> HIDE DEF i
  <2> QED
    BY <1>1, <2>1, SearchFinds DEF i
<1>3. /\ is_in_use' = [is_in_use EXCEPT ![i] = TRUE] /\ vec_refs' = [vec_refs EXCEPT ![v] = @ + 1]
      /\ lent' = lent \cup {v} /\ ref_count' = ref_count + 1
      /\ UNCHANGED <<handles, outside, reentered, vecs, num_vecs, max_vecs, length>>
  BY DEF GetIdle, Lend
<1> HIDE DEF i
<1>4. /\ v \in InPool /\ v \in Vec /\ v \notin lent /\ length[v] >= len
  <2>1. v \in InPool
    BY <1>2 DEF InPool
  <2>2. v \in Vec
    BY <2>1, IInvConstants
  <2>3. is_in_use[i] <=> v \in lent
    BY <1>2 DEF IInv, ArraysOK, Slots
  <2> QED
    BY <1>2, <2>1, <2>2, <2>3 DEF Adequate
<1>5. InPool' = InPool
  BY <1>3 DEF InPool, Slots
<1>6. Typed'
  <2>1. Cells' = Cells
    BY <1>3 DEF Cells
  <2>2. lent' \in SUBSET Vec
    BY <1>3, <1>4 DEF IInv, Typed
  <2> QED
    BY <1>3, <2>1, <2>2 DEF IInv, Typed
<1>7. ArraysOK(num_vecs, vecs, is_in_use)'
  <2>1. Cells' = Cells /\ i \in Cells
    <3>1. i \in 0 .. num_vecs - 1 /\ num_vecs <= max_vecs
      BY <1>2 DEF Slots, IInv, ArraysOK
    <3> QED
      BY <1>1, <1>3, <3>1 DEF Cells
  <2>2. is_in_use' \in [Cells -> BOOLEAN]
    BY <1>3, <2>1 DEF IInv, ArraysOK
  <2>3. \A j \in 0 .. num_vecs - 1 : j \in Cells
    BY <1>1, MembersBelow DEF IInv
  <2>4. \A j \in 0 .. num_vecs - 1 : vecs[j] \in Vec /\ (is_in_use'[j] <=> vecs[j] \in lent')
    <3> SUFFICES ASSUME NEW j \in 0 .. num_vecs - 1
                 PROVE  vecs[j] \in Vec /\ (is_in_use'[j] <=> vecs[j] \in lent')
      OBVIOUS
    <3>1. vecs[j] \in Vec /\ (is_in_use[j] <=> vecs[j] \in lent)
      BY DEF IInv, ArraysOK
    <3>2. CASE j = i
      <4>1. is_in_use'[i] = TRUE
        BY <1>3, <2>1 DEF IInv, ArraysOK
      <4> QED
        BY <1>3, <3>1, <3>2, <4>1
    <3>3. CASE j # i
      <4>1. is_in_use'[j] = is_in_use[j]
        BY <1>3, <2>1, <2>3, <3>3 DEF IInv, ArraysOK
      <4>2. vecs[j] # v
        BY <1>2, <3>3 DEF IInv, ArraysOK, Slots
      <4> QED
        BY <1>3, <3>1, <4>1, <4>2
    <3> QED
      BY <3>2, <3>3
  <2>5. lent' \subseteq Members(num_vecs, vecs)
    BY <1>3, <1>4, IInvConstants
  <2>6. /\ num_vecs \in Nat /\ num_vecs <= max_vecs /\ vecs \in [Cells -> Vec \cup {NULL}]
        /\ \A j, k \in 0 .. num_vecs - 1 : vecs[j] = vecs[k] => j = k
    BY DEF IInv, ArraysOK
  <2>7. Members(num_vecs, vecs)' = Members(num_vecs, vecs)
    BY <1>3 DEF Members
  <2> QED
    BY <1>3, <2>1, <2>2, <2>4, <2>5, <2>6, <2>7 DEF ArraysOK
<1>8. CountsOK(InPool, vec_refs, ref_count)'
  <2>1. vec_refs \in [Vec -> Nat] /\ vec_refs' \in [Vec -> Nat] /\ ref_count \in Nat
    BY <1>3, <1>4 DEF IInv, CountsOK
  <2>2. \A w \in Vec : vec_refs'[w] = outside[w] + (IF w \in InPool THEN 1 ELSE 0)
                                       + (IF w \in lent' THEN 1 ELSE 0)
    <3> SUFFICES ASSUME NEW w \in Vec
                 PROVE  vec_refs'[w] = outside[w] + (IF w \in InPool THEN 1 ELSE 0)
                                       + (IF w \in lent' THEN 1 ELSE 0)
      OBVIOUS
    <3>1. /\ vec_refs[w] = outside[w] + (IF w \in InPool THEN 1 ELSE 0) + (IF w \in lent THEN 1 ELSE 0)
          /\ outside[w] \in Nat
      BY DEF IInv, CountsOK, Typed
    <3>2. vec_refs'[w] = IF w = v THEN vec_refs[w] + 1 ELSE vec_refs[w]
      BY <1>3, <1>4, <2>1
    <3>3. w \in lent' <=> w \in lent \/ w = v
      BY <1>3
    <3> HIDE DEF v
    <3> QED
      BY <1>4, <3>1, <3>2, <3>3
  <2>3. Referenced(vec_refs') = Referenced(vec_refs)
    <3>1. \A w \in Vec : vec_refs'[w] > 0 <=> vec_refs[w] > 0
      <4> SUFFICES ASSUME NEW w \in Vec
                   PROVE  vec_refs'[w] > 0 <=> vec_refs[w] > 0
        OBVIOUS
      <4>1. vec_refs'[w] = IF w = v THEN vec_refs[w] + 1 ELSE vec_refs[w]
        BY <1>3, <1>4, <2>1
      <4>2. vec_refs[v] > 0
        BY <1>4, LentFinite DEF Referenced
      <4> QED
        BY <2>1, <4>1, <4>2
    <3> QED
      BY <3>1 DEF Referenced
  <2>4. Cardinality(lent') = Cardinality(lent) + 1
    BY <1>3, <1>4, LentFinite, FS_AddElement
  <2>5. ref_count' = handles + Cardinality(lent') + Cardinality(Referenced(vec_refs) \ InPool)
    <3> DEFINE a == Cardinality(lent)
               b == Cardinality(Referenced(vec_refs) \ InPool)
    <3>1. ref_count = handles + a + b /\ a \in Nat /\ b \in Nat /\ handles \in Nat
      BY LentFinite DEF IInv, CountsOK, Typed
    <3>2. ref_count' = ref_count + 1 /\ Cardinality(lent') = a + 1
      BY <1>3, <2>4
    <3> HIDE DEF a, b
    <3>3. ref_count' = handles + (a + 1) + b
      BY <3>1, <3>2
    <3> QED
      BY <3>2, <3>3 DEF b
  <2>6. IsFiniteSet(Referenced(vec_refs))
    BY DEF IInv, CountsOK
  <2>7. Referenced(vec_refs)' = Referenced(vec_refs)
    BY <2>3 DEF Referenced
  <2>8. ref_count' \in Nat
    BY <1>3, <2>1
  <2> QED
    BY <1>3, <1>5, <2>1, <2>2, <2>5, <2>6, <2>7, <2>8 DEF CountsOK
<1> QED
  BY <1>3, <1>4, <1>5, <1>6, <1>7, <1>8 DEF IInv, NeverReentered

\* A new entry at num_vecs, in arrays that were long enough or grew.
LEMMA NewEntry ==
  ASSUME IInv, NEW len \in Length, NEW v \in Vec \ Existing, NEW junk \in BOOLEAN, GetNew(len, v, junk)
  PROVE  /\ max_vecs' \in Nat /\ num_vecs' = num_vecs + 1 /\ num_vecs' <= max_vecs'
         /\ vecs' \in [Cells' -> Vec \cup {NULL}] /\ is_in_use' \in [Cells' -> BOOLEAN]
         /\ \A i \in Slots : vecs'[i] = vecs[i] /\ is_in_use'[i] = is_in_use[i]
         /\ vecs'[num_vecs] = v /\ is_in_use'[num_vecs] = TRUE
<1> DEFINE n == num_vecs
           vs == [k \in 0 .. Room - 1 |-> IF k < max_vecs THEN vecs[k] ELSE NULL]
           us == [k \in 0 .. Room - 1 |-> IF k < max_vecs THEN is_in_use[k] ELSE junk]
<1>1. n \in Nat /\ max_vecs \in Nat /\ n <= max_vecs
  BY DEF IInv, Typed
<1>2. Room \in Nat /\ n < Room /\ max_vecs <= Room
  BY <1>1 DEF Room
<1>3. max_vecs' = Room /\ Cells' = 0 .. Room - 1 /\ num_vecs' = n + 1
  BY DEF GetNew, Cells
<1>4. vecs' = [vs EXCEPT ![n] = v] /\ is_in_use' = [us EXCEPT ![n] = TRUE]
  BY DEF GetNew
<1>5. vecs \in [Cells -> Vec \cup {NULL}] /\ is_in_use \in [Cells -> BOOLEAN]
  BY DEF IInv, ArraysOK
<1>6. \A k \in 0 .. Room - 1 : k < max_vecs => k \in Cells
  BY <1>1 DEF Cells
<1>7. vs \in [0 .. Room - 1 -> Vec \cup {NULL}]
  BY <1>5, <1>6
<1>8. us \in [0 .. Room - 1 -> BOOLEAN]
  BY <1>5, <1>6
<1>9. n \in 0 .. Room - 1 /\ n \notin Slots
  BY <1>1, <1>2 DEF Slots
<1>10. \A i \in Slots : i \in 0 .. Room - 1 /\ i < max_vecs /\ i # n
  BY <1>1, <1>2 DEF Slots
<1>11. \A i \in Slots : vs[i] = vecs[i] /\ us[i] = is_in_use[i]
  BY <1>10
<1> HIDE DEF vs, us, n
<1>12. /\ vecs' \in [0 .. Room - 1 -> Vec \cup {NULL}] /\ is_in_use' \in [0 .. Room - 1 -> BOOLEAN]
       /\ vecs'[n] = v /\ is_in_use'[n] = TRUE
  BY <1>4, <1>7, <1>8, <1>9
<1>13. \A i \in Slots : vecs'[i] = vs[i] /\ is_in_use'[i] = us[i]
  BY <1>4, <1>7, <1>8, <1>10
<1> QED
  BY <1>1, <1>2, <1>3, <1>11, <1>12, <1>13 DEF n

LEMMA LendNewKeeps ==
  ASSUME IInv, NEW len \in Length, NEW v \in Vec \ Existing, NEW junk \in BOOLEAN, GetNew(len, v, junk)
  PROVE  /\ IInv' /\ v \notin InPool /\ InPool' = InPool \cup {v}
         /\ \A w \in InPool : w \in lent \/ ~(length[w] >= len)
         /\ lent' = lent \cup {v} /\ length' = [length EXCEPT ![v] = len]
<1>1. num_vecs \in Nat /\ max_vecs \in Nat
  BY DEF IInv, Typed
<1>2. /\ length' = [length EXCEPT ![v] = len] /\ vec_refs' = [vec_refs EXCEPT ![v] = 2]
      /\ lent' = lent \cup {v} /\ ref_count' = ref_count + 1 /\ num_vecs' = num_vecs + 1
      /\ UNCHANGED <<handles, outside, reentered>>
  BY DEF GetNew, Lend
<1>3. \A w \in InPool : w \in lent \/ ~(length[w] >= len)
  <2>1. \A i \in Slots : ~Adequate(i, len)
    <3>1. Search(len) = num_vecs
      BY DEF GetNew
    <3>2. num_vecs \notin Slots
      BY <1>1 DEF Slots
    <3> QED
      BY <1>1, <3>1, <3>2, SearchFinds
  <2>2. \A i \in Slots : is_in_use[i] <=> vecs[i] \in lent
    BY DEF IInv, ArraysOK, Slots
  <2> QED
    BY <2>1, <2>2 DEF InPool, Adequate
<1>4. v \in Vec /\ v \notin InPool /\ v \notin lent /\ vec_refs[v] = 0
  <2>1. v \notin Referenced(vec_refs)
    BY DEF Existing, Referenced
  <2>2. vec_refs[v] \in Nat
    BY DEF IInv, CountsOK
  <2> QED
    BY <2>1, <2>2, LentFinite, IInvConstants DEF Referenced
<1>5. /\ max_vecs' \in Nat /\ num_vecs' = num_vecs + 1 /\ num_vecs' <= max_vecs'
      /\ vecs' \in [Cells' -> Vec \cup {NULL}] /\ is_in_use' \in [Cells' -> BOOLEAN]
      /\ \A i \in Slots : vecs'[i] = vecs[i] /\ is_in_use'[i] = is_in_use[i]
      /\ vecs'[num_vecs] = v /\ is_in_use'[num_vecs] = TRUE
  BY NewEntry
<1>6. \A i : i \in 0 .. num_vecs' - 1 <=> i \in Slots \/ i = num_vecs
  BY <1>1, <1>2 DEF Slots
<1>7. InPool' = InPool \cup {v}
  <2>1. InPool' = {vecs'[i] : i \in 0 .. num_vecs' - 1}
    BY DEF InPool, Slots
  <2> QED
    BY <1>5, <1>6, <2>1 DEF InPool
<1>8. Typed'
  <2>1. length' \in [Vec -> Length \cup {0}]
    BY <1>2 DEF IInv, Typed
  <2>2. lent' \in SUBSET Vec
    BY <1>2, <1>4 DEF IInv, Typed
  <2>3. num_vecs' \in 0 .. max_vecs'
    BY <1>1, <1>5
  <2>4. outside' \in [Vec -> Nat] /\ handles' \in Nat /\ reentered' \in BOOLEAN
    BY <1>2 DEF IInv, Typed
  <2> QED
    BY <1>5, <2>1, <2>2, <2>3, <2>4 DEF Typed
<1>9. ArraysOK(num_vecs, vecs, is_in_use)'
  <2>1. \A i \in Slots : vecs[i] \in Vec /\ vecs[i] \in InPool /\ (is_in_use[i] <=> vecs[i] \in lent)
    BY DEF IInv, ArraysOK, Slots, InPool
  <2>2. \A i \in 0 .. num_vecs' - 1 : vecs'[i] \in Vec /\ (is_in_use'[i] <=> vecs'[i] \in lent')
    <3> SUFFICES ASSUME NEW i \in 0 .. num_vecs' - 1
                 PROVE  vecs'[i] \in Vec /\ (is_in_use'[i] <=> vecs'[i] \in lent')
      OBVIOUS
    <3>1. CASE i \in Slots
      BY <1>2, <1>4, <1>5, <2>1, <3>1
    <3>2. CASE i = num_vecs
      BY <1>2, <1>4, <1>5, <3>2
    <3> QED
      BY <1>6, <3>1, <3>2
  <2>3. \A i, j \in 0 .. num_vecs' - 1 : vecs'[i] = vecs'[j] => i = j
    <3> SUFFICES ASSUME NEW i \in 0 .. num_vecs' - 1, NEW j \in 0 .. num_vecs' - 1, vecs'[i] = vecs'[j]
                 PROVE  i = j
      OBVIOUS
    <3>1. CASE i \in Slots /\ j \in Slots
      BY <1>5, <3>1 DEF IInv, ArraysOK, Slots
    <3>2. CASE i = num_vecs /\ j = num_vecs
      BY <3>2
    <3>3. CASE i \in Slots /\ j = num_vecs
      BY <1>4, <1>5, <2>1, <3>3
    <3>4. CASE i = num_vecs /\ j \in Slots
      BY <1>4, <1>5, <2>1, <3>4
    <3> QED
      BY <1>6, <3>1, <3>2, <3>3, <3>4
  <2>4. lent' \subseteq Members(num_vecs', vecs')
    <3>1. Members(num_vecs', vecs') = InPool'
      BY DEF Members, InPool, Slots
    <3> QED
      BY <1>2, <1>7, <3>1, IInvConstants
  <2>5. num_vecs' \in Nat
    BY <1>1, <1>2
  <2> QED
    BY <1>5, <2>2, <2>3, <2>4, <2>5 DEF ArraysOK, Members
<1>10. CountsOK(InPool, vec_refs, ref_count)'
  <2>1. vec_refs \in [Vec -> Nat] /\ vec_refs' \in [Vec -> Nat] /\ ref_count \in Nat
    BY <1>2, <1>4 DEF IInv, CountsOK
  <2>2. \A w \in Vec : vec_refs'[w] = outside'[w] + (IF w \in InPool' THEN 1 ELSE 0)
                                       + (IF w \in lent' THEN 1 ELSE 0)
    <3> SUFFICES ASSUME NEW w \in Vec
                 PROVE  vec_refs'[w] = outside[w] + (IF w \in InPool' THEN 1 ELSE 0)
                                       + (IF w \in lent' THEN 1 ELSE 0)
      BY <1>2
    <3>1. /\ vec_refs[w] = outside[w] + (IF w \in InPool THEN 1 ELSE 0) + (IF w \in lent THEN 1 ELSE 0)
          /\ outside[w] \in Nat
      BY DEF IInv, CountsOK, Typed
    <3>2. vec_refs'[w] = IF w = v THEN 2 ELSE vec_refs[w]
      BY <1>2, <1>4, <2>1
    <3>3. (w \in lent' <=> w \in lent \/ w = v) /\ (w \in InPool' <=> w \in InPool \/ w = v)
      BY <1>2, <1>7
    <3> QED
      BY <1>4, <3>1, <3>2, <3>3
  <2>3. Referenced(vec_refs') = Referenced(vec_refs) \cup {v}
    <3>1. \A w \in Vec : vec_refs'[w] = IF w = v THEN 2 ELSE vec_refs[w]
      BY <1>2, <1>4, <2>1
    <3> QED
      BY <1>4, <3>1 DEF Referenced
  <2>4. Referenced(vec_refs') \ InPool' = Referenced(vec_refs) \ InPool
    <3>1. v \notin Referenced(vec_refs)
      BY <1>4 DEF Referenced
    <3> QED
      BY <1>7, <2>3, <3>1
  <2>5. Cardinality(lent') = Cardinality(lent) + 1
    BY <1>2, <1>4, LentFinite, FS_AddElement
  <2>6. ref_count' = handles' + Cardinality(lent') + Cardinality(Referenced(vec_refs') \ InPool')
    <3> DEFINE a == Cardinality(lent)
               b == Cardinality(Referenced(vec_refs) \ InPool)
               b2 == Cardinality(Referenced(vec_refs') \ InPool')
    <3>1. ref_count = handles + a + b /\ a \in Nat /\ b \in Nat /\ handles \in Nat
      BY LentFinite DEF IInv, CountsOK, Typed
    <3>2. ref_count' = ref_count + 1 /\ Cardinality(lent') = a + 1 /\ b2 = b /\ handles' = handles
      BY <1>2, <2>4, <2>5
    <3> HIDE DEF a, b, b2
    <3>3. ref_count' = handles + (a + 1) + b
      BY <3>1, <3>2
    <3> QED
      BY <3>2, <3>3 DEF b2
  <2>7. IsFiniteSet(Referenced(vec_refs'))
    BY <2>3, FS_AddElement DEF IInv, CountsOK
  <2>8. ref_count' \in Nat
    BY <1>2, <2>1
  <2> QED
    BY <2>1, <2>2, <2>6, <2>7, <2>8 DEF CountsOK, Referenced
<1> QED
  BY <1>2, <1>3, <1>4, <1>7, <1>8, <1>9, <1>10 DEF IInv, NeverReentered

LEMMA RestoreKeeps ==
  ASSUME IInv, NEW v \in lent, RestoreLent(v)
  PROVE  IInv' /\ InPool' = InPool /\ lent' = lent \ {v} /\ length' = length
<1>1. num_vecs \in Nat /\ max_vecs \in Nat
  BY DEF IInv, Typed
<1>2. PICK i \in Slots :
        /\ vecs[i] = v
        /\ is_in_use' = [is_in_use EXCEPT ![i] = FALSE]
        /\ vec_refs' = [vec_refs EXCEPT ![v] = @ - 1]
        /\ ref_count' = ref_count - 1
        /\ lent' = lent \ {v}
        /\ UNCHANGED <<vecs, num_vecs, max_vecs, length, handles, outside, reentered>>
  BY DEF RestoreLent
<1>3. v \in InPool /\ v \in Vec
  BY IInvConstants
<1>4. InPool' = InPool
  BY <1>2 DEF InPool, Slots
<1>5. Typed'
  <2>1. Cells' = Cells
    BY <1>2 DEF Cells
  <2>2. lent' \in SUBSET Vec
    BY <1>2 DEF IInv, Typed
  <2> QED
    BY <1>2, <2>1, <2>2 DEF IInv, Typed
<1>6. ArraysOK(num_vecs, vecs, is_in_use)'
  <2>1. Cells' = Cells /\ i \in Cells
    <3>1. i \in 0 .. num_vecs - 1 /\ num_vecs <= max_vecs
      BY DEF Slots, IInv, ArraysOK
    <3> QED
      BY <1>1, <1>2, <3>1 DEF Cells
  <2>2. is_in_use' \in [Cells -> BOOLEAN]
    BY <1>2, <2>1 DEF IInv, ArraysOK
  <2>3. \A j \in 0 .. num_vecs - 1 : j \in Cells
    BY <1>1, MembersBelow DEF IInv
  <2>4. \A j \in 0 .. num_vecs - 1 : vecs[j] \in Vec /\ (is_in_use'[j] <=> vecs[j] \in lent')
    <3> SUFFICES ASSUME NEW j \in 0 .. num_vecs - 1
                 PROVE  vecs[j] \in Vec /\ (is_in_use'[j] <=> vecs[j] \in lent')
      OBVIOUS
    <3>1. vecs[j] \in Vec /\ (is_in_use[j] <=> vecs[j] \in lent)
      BY DEF IInv, ArraysOK
    <3>2. CASE j = i
      <4>1. is_in_use'[i] = FALSE
        BY <1>2, <2>1 DEF IInv, ArraysOK
      <4> QED
        BY <1>2, <3>1, <3>2, <4>1
    <3>3. CASE j # i
      <4>1. is_in_use'[j] = is_in_use[j]
        BY <1>2, <2>1, <2>3, <3>3 DEF IInv, ArraysOK
      <4>2. vecs[j] # v
        BY <1>2, <3>3 DEF IInv, ArraysOK, Slots
      <4> QED
        BY <1>2, <3>1, <4>1, <4>2
    <3> QED
      BY <3>2, <3>3
  <2>5. lent' \subseteq Members(num_vecs, vecs)
    BY <1>2, IInvConstants
  <2>6. /\ num_vecs \in Nat /\ num_vecs <= max_vecs /\ vecs \in [Cells -> Vec \cup {NULL}]
        /\ \A j, k \in 0 .. num_vecs - 1 : vecs[j] = vecs[k] => j = k
    BY DEF IInv, ArraysOK
  <2>7. Members(num_vecs, vecs)' = Members(num_vecs, vecs)
    BY <1>2 DEF Members
  <2> QED
    BY <1>2, <2>1, <2>2, <2>4, <2>5, <2>6, <2>7 DEF ArraysOK
<1>7. CountsOK(InPool, vec_refs, ref_count)'
  <2>1. vec_refs \in [Vec -> Nat] /\ ref_count \in Nat
    BY DEF IInv, CountsOK
  <2>2. vec_refs[v] = outside[v] + 2 /\ outside[v] \in Nat
    BY <1>3 DEF IInv, CountsOK, Typed
  <2>3. vec_refs' \in [Vec -> Nat] /\ vec_refs'[v] = outside[v] + 1
    BY <1>2, <1>3, <2>1, <2>2
  <2>4. \A w \in Vec : w # v => vec_refs'[w] = vec_refs[w]
    BY <1>2, <2>1
  <2>5. \A w \in Vec : vec_refs'[w] = outside[w] + (IF w \in InPool THEN 1 ELSE 0)
                                       + (IF w \in lent' THEN 1 ELSE 0)
    <3> SUFFICES ASSUME NEW w \in Vec
                 PROVE  vec_refs'[w] = outside[w] + (IF w \in InPool THEN 1 ELSE 0)
                                       + (IF w \in lent' THEN 1 ELSE 0)
      OBVIOUS
    <3>1. vec_refs[w] = outside[w] + (IF w \in InPool THEN 1 ELSE 0) + (IF w \in lent THEN 1 ELSE 0)
      BY DEF IInv, CountsOK
    <3> QED
      BY <1>2, <1>3, <2>2, <2>3, <2>4, <3>1
  <2>6. Referenced(vec_refs') = Referenced(vec_refs)
    BY <2>1, <2>2, <2>3, <2>4 DEF Referenced
  <2>7. Cardinality(lent') = Cardinality(lent) - 1
    BY <1>2, LentFinite, FS_RemoveElement
  <2>8. ref_count' = handles + Cardinality(lent') + Cardinality(Referenced(vec_refs) \ InPool)
        /\ ref_count' \in Nat
    <3> DEFINE a == Cardinality(lent)
               a2 == Cardinality(lent')
               b == Cardinality(Referenced(vec_refs) \ InPool)
    <3>1. ref_count = handles + a + b /\ a \in Nat /\ b \in Nat /\ handles \in Nat
      BY LentFinite DEF IInv, CountsOK, Typed
    <3>2. ref_count' = ref_count - 1 /\ a2 = a - 1
      BY <1>2, <2>7
    <3>3. a2 \in Nat
      BY <1>2, LentFinite, FS_RemoveElement, FS_CardinalityType
    <3> HIDE DEF a, a2, b
    <3>4. ref_count' = handles + a2 + b /\ ref_count' \in Nat
      BY <3>1, <3>2, <3>3
    <3> QED
      BY <3>4 DEF a2, b
  <2>9. IsFiniteSet(Referenced(vec_refs)) /\ Referenced(vec_refs)' = Referenced(vec_refs)
    BY <2>6 DEF IInv, CountsOK, Referenced
  <2> QED
    BY <1>2, <1>4, <2>3, <2>5, <2>8, <2>9 DEF CountsOK
<1> QED
  BY <1>2, <1>4, <1>5, <1>6, <1>7 DEF IInv, NeverReentered

(***************************************************************************)
(* Clearing and destroying.                                                *)
(***************************************************************************)
LEMMA LengthsTyped ==
  ASSUME Typed, NEW refs
  PROVE  LengthsOf(refs) \in [Vec -> Length \cup {0}]
BY DEF Typed, LengthsOf

LEMMA ClearKeeps ==
  ASSUME IInv, NEW len \in Length, CeedClearWorkVectors(len)
  PROVE  /\ IInv' /\ lent' = lent
         /\ InPool' = {v \in InPool : v \in lent \/ length[v] >= len}
         /\ \A v \in InPool' : length'[v] = length[v]
<1> DEFINE s == Cleared(len)
<1>1. /\ num_vecs' = s.num /\ vecs' = s.vecs /\ is_in_use' = s.used
      /\ vec_refs' = s.refs /\ ref_count' = s.count /\ reentered' = s.again
      /\ length' = LengthsOf(s.refs)
      /\ UNCHANGED <<max_vecs, handles, lent, outside>>
  BY DEF CeedClearWorkVectors
<1>2. len \in Nat
  BY PoolAssumption
<1>3. Constants /\ InPool = Members(num_vecs, vecs) /\ InPool \subseteq Vec /\ reentered = FALSE
  BY IInvConstants
<1>4. LoopInv(s, len) /\ s.i >= s.num /\ s.num <= num_vecs
  <2>1. LoopInv(ClearStart, len) /\ Progress(ClearStart, 0) /\ ClearStart.num <= num_vecs
    <3>1. /\ max_vecs \in Nat /\ num_vecs \in 0 .. max_vecs /\ vecs \in [Cells -> Vec \cup {NULL}]
      BY <1>3 DEF Constants
    <3>2. /\ is_in_use \in [Cells -> BOOLEAN] /\ vec_refs \in [Vec -> Nat] /\ ref_count \in Nat
          /\ ArraysOK(num_vecs, vecs, is_in_use) /\ CountsOK(InPool, vec_refs, ref_count)
      BY DEF IInv, ArraysOK, CountsOK
    <3> QED
      BY <1>3, <3>1, <3>2, LoopStarts
  <2> HIDE DEF s
  <2> QED
    BY <1>2, <1>3, <2>1, ClearedKeeps DEF s
<1> HIDE DEF s
<1>5. /\ s \in LoopStates /\ s.again = FALSE /\ ArraysOK(s.num, s.vecs, s.used)
      /\ CountsOK(Members(s.num, s.vecs), s.refs, s.count)
  BY <1>4 DEF LoopInv
<1>6. InPool' = Members(s.num, s.vecs)
  BY <1>1 DEF InPool, Slots, Members
<1>7. InPool' = {v \in InPool : v \in lent \/ length[v] >= len}
  BY <1>2, <1>3, <1>4, <1>6, ClearedMembers
<1>8. Cells' = Cells
  BY <1>1 DEF Cells
<1>9. ArraysOK(num_vecs, vecs, is_in_use)'
  BY <1>1, <1>5, <1>8 DEF ArraysOK, Members
<1>10. CountsOK(InPool, vec_refs, ref_count)'
  BY <1>1, <1>5, <1>6 DEF CountsOK, Referenced
<1>11. Typed'
  <2>1. length' \in [Vec -> Length \cup {0}]
    BY <1>1, LengthsTyped DEF IInv
  <2>2. num_vecs' \in 0 .. max_vecs' /\ max_vecs' \in Nat /\ vecs' \in [Cells' -> Vec \cup {NULL}]
    BY <1>1, <1>3, <1>5, <1>8 DEF ArraysOK, Constants
  <2>3. outside' \in [Vec -> Nat] /\ handles' \in Nat /\ lent' \in SUBSET Vec
    BY <1>1 DEF IInv, Typed
  <2>4. reentered' \in BOOLEAN
    BY <1>1, <1>5
  <2> QED
    BY <2>1, <2>2, <2>3, <2>4 DEF Typed
<1>12. \A v \in InPool' : length'[v] = length[v]
  <2> SUFFICES ASSUME NEW v \in InPool'
               PROVE  length'[v] = length[v]
    OBVIOUS
  <2>1. v \in Vec /\ v \in Members(s.num, s.vecs) /\ outside[v] \in Nat
    BY <1>3, <1>6, <1>7 DEF IInv, Typed
  <2>2. s.refs[v] # 0
    BY <1>5, <2>1 DEF CountsOK
  <2> QED
    BY <1>1, <2>1, <2>2 DEF LengthsOf
<1> QED
  BY <1>1, <1>5, <1>7, <1>9, <1>10, <1>11, <1>12 DEF IInv, NeverReentered

\* When the pool is destroyed nothing is left.
LEMMA PoolDestroyed ==
  ASSUME IInv, NEW refs \in Counts, WorkVectorsDestroy(refs),
         \A w \in InPool : refs[w] = 1, \A w \in Vec \ InPool : refs[w] = 0,
         handles' = 0, lent' = {}, outside' \in [Vec -> Nat], \A w \in Vec : outside'[w] = 0
  PROVE  IInv' /\ InPool' = {}
<1> DEFINE s == Destroyed(refs)
<1>1. /\ vecs' = <<>> /\ is_in_use' = <<>> /\ num_vecs' = 0 /\ max_vecs' = 0
      /\ vec_refs' = s.refs /\ ref_count' = s.count /\ reentered' = s.again
      /\ length' = LengthsOf(s.refs)
  BY DEF WorkVectorsDestroy, Destroyed
<1>2. /\ s.count = 0 /\ s.again = FALSE /\ s.refs \in Counts
      /\ \A v \in Vec : s.refs[v] = IF v \in InPool THEN 0 ELSE refs[v]
  <2>1. num_vecs \in Nat
    BY DEF IInv, Typed
  <2>2. \A i \in Slots : vecs[i] \in Vec /\ refs[vecs[i]] = 1
    BY IInvConstants DEF InPool
  <2>3. \A i, j \in Slots : vecs[i] = vecs[j] => i = j
    BY DEF IInv, ArraysOK, Slots
  <2> HIDE DEF s
  <2> QED
    BY <2>1, <2>2, <2>3, DestroyedKeeps DEF s
<1> HIDE DEF s
<1>3. InPool' = {} /\ Cells' = {} /\ \A i : i \notin 0 .. num_vecs' - 1
  BY <1>1 DEF InPool, Slots, Cells
<1>4. Typed'
  <2>1. length' \in [Vec -> Length \cup {0}]
    BY <1>1, LengthsTyped DEF IInv
  <2>2. vecs' \in [Cells' -> Vec \cup {NULL}]
    BY <1>1, <1>3
  <2>3. max_vecs' \in Nat /\ num_vecs' \in 0 .. max_vecs' /\ handles' \in Nat
    BY <1>1
  <2>4. lent' \in SUBSET Vec /\ reentered' \in BOOLEAN
    BY <1>1, <1>2
  <2> QED
    BY <2>1, <2>2, <2>3, <2>4 DEF Typed
<1>5. ArraysOK(num_vecs, vecs, is_in_use)'
  <2>1. is_in_use' \in [Cells' -> BOOLEAN] /\ vecs' \in [Cells' -> Vec \cup {NULL}]
    BY <1>1, <1>3
  <2> QED
    BY <1>1, <1>3, <2>1 DEF ArraysOK
<1>6. CountsOK(InPool, vec_refs, ref_count)'
  <2>1. \A w \in Vec : vec_refs'[w] = 0
    BY <1>1, <1>2
  <2>2. Referenced(vec_refs)' = {}
    BY <2>1 DEF Referenced
  <2>3. Cardinality(lent') = 0 /\ Cardinality(Referenced(vec_refs)' \ InPool') = 0
    BY <2>2, FS_EmptySet
  <2>4. IsFiniteSet(Referenced(vec_refs)')
    BY <2>2, FS_EmptySet
  <2>5. vec_refs' \in [Vec -> Nat] /\ ref_count' = 0
    BY <1>1, <1>2 DEF Counts
  <2> QED
    BY <1>3, <2>1, <2>3, <2>4, <2>5 DEF CountsOK
<1>7. reentered' = FALSE
  BY <1>1, <1>2
<1> QED
  BY <1>3, <1>4, <1>5, <1>6, <1>7 DEF IInv, NeverReentered

\* What the counts say when they stand at one.
LEMMA LastReference ==
  ASSUME IInv, ref_count = 1
  PROVE  /\ handles > 0 => /\ handles = 1 /\ lent = {} /\ Referenced(vec_refs) \subseteq InPool
         /\ \A v \in Referenced(vec_refs) \ InPool :
              /\ handles = 0 /\ lent = {} /\ Referenced(vec_refs) \ InPool = {v}
<1> DEFINE lost == Referenced(vec_refs) \ InPool
           a == Cardinality(lent)
           b == Cardinality(lost)
<1>1. handles + a + b = 1 /\ a \in Nat /\ b \in Nat /\ handles \in Nat
  BY LentFinite DEF IInv, CountsOK, Typed
<1>2. IsFiniteSet(lent) /\ IsFiniteSet(lost)
  BY LentFinite
<1>3. (a = 0 => lent = {}) /\ (b = 0 => lost = {})
  BY <1>2, FS_EmptySet
<1>4. ASSUME handles > 0
      PROVE  /\ handles = 1 /\ lent = {} /\ Referenced(vec_refs) \subseteq InPool
  <2>1. handles = 1 /\ a = 0 /\ b = 0
    <3> HIDE DEF a, b
    <3> QED
      BY <1>1, <1>4
  <2> QED
    BY <1>3, <2>1
<1>5. ASSUME NEW v \in lost
      PROVE  handles = 0 /\ lent = {} /\ lost = {v}
  <2>1. IsFiniteSet(lost \ {v}) /\ Cardinality(lost \ {v}) = b - 1
    BY <1>2, <1>5, FS_RemoveElement
  <2>2. Cardinality(lost \ {v}) \in Nat
    BY <2>1, FS_CardinalityType
  <2> DEFINE c == Cardinality(lost \ {v})
  <2>3. handles = 0 /\ a = 0 /\ c = 0
    <3>1. c = b - 1 /\ c \in Nat
      BY <2>1, <2>2
    <3> HIDE DEF a, b, c
    <3> QED
      BY <1>1, <3>1
  <2>4. lost \ {v} = {}
    BY <2>1, <2>3, FS_EmptySet
  <2> QED
    BY <1>3, <1>5, <2>3, <2>4
<1> QED
  BY <1>4, <1>5

\* The lengths of the vectors that exist are kept.
LEMMA LengthsKept ==
  ASSUME IInv, NEW refs, \A w \in InPool : refs[w] # 0, length' = LengthsOf(refs)
  PROVE  \A w \in InPool : length'[w] = length[w]
<1>1. InPool \subseteq Vec
  BY IInvConstants
<1> QED
  BY <1>1 DEF LengthsOf

LEMMA DestroyKeeps ==
  ASSUME IInv, CeedDestroy
  PROVE  /\ IInv' /\ lent' = lent
         /\ \/ InPool' = InPool /\ \A v \in InPool : length'[v] = length[v]
            \/ InPool' = {} /\ lent = {}
<1>1. /\ handles > 0 /\ handles' = handles - 1 /\ Release(vec_refs) /\ UNCHANGED <<lent, outside>>
  BY DEF CeedDestroy
<1>2. handles \in Nat /\ handles' \in Nat /\ vec_refs \in Counts /\ ref_count \in Nat
  BY <1>1 DEF IInv, Typed, CountsOK, Counts
<1>3. CASE /\ ref_count > 1
           /\ ref_count' = ref_count - 1
           /\ vec_refs' = vec_refs /\ length' = LengthsOf(vec_refs)
           /\ UNCHANGED <<arrays, reentered>>
  <2>1. ArraysOK(num_vecs, vecs, is_in_use)' /\ InPool' = InPool
    BY <1>1, <1>3, ArraysKept
  <2>2. length' \in [Vec -> Length \cup {0}]
    BY <1>3, LengthsTyped DEF IInv
  <2>3. Typed'
    <3>1. UNCHANGED <<max_vecs, num_vecs, vecs>> /\ Cells' = Cells
      BY <1>3 DEF arrays, Cells
    <3> QED
      BY <1>1, <1>2, <1>3, <2>2, <3>1 DEF IInv, Typed
  <2>4. CountsOK(InPool, vec_refs, ref_count)'
    <3>1. Referenced(vec_refs)' = Referenced(vec_refs)
      BY <1>3 DEF Referenced
    <3> DEFINE a == Cardinality(lent)
               b == Cardinality(Referenced(vec_refs) \ InPool)
    <3>2. ref_count = handles + a + b /\ a \in Nat /\ b \in Nat
      BY LentFinite DEF IInv, CountsOK, Typed
    <3> HIDE DEF a, b
    <3>3. ref_count' = handles' + a + b /\ ref_count' \in Nat
      BY <1>1, <1>2, <1>3, <3>2
    <3>4. ref_count' = handles' + Cardinality(lent') + Cardinality(Referenced(vec_refs)' \ InPool')
      BY <1>1, <2>1, <3>1, <3>3 DEF a, b
    <3>5. /\ vec_refs' \in [Vec -> Nat] /\ IsFiniteSet(Referenced(vec_refs)')
          /\ \A v \in Vec : vec_refs'[v] = outside'[v] + (IF v \in InPool' THEN 1 ELSE 0)
                                           + (IF v \in lent' THEN 1 ELSE 0)
      BY <1>1, <1>3, <2>1, <3>1 DEF IInv, CountsOK
    <3> QED
      BY <3>3, <3>4, <3>5 DEF CountsOK
  <2>5. \A w \in InPool : vec_refs[w] # 0
    BY LentFinite DEF Referenced
  <2>6. \A w \in InPool : length'[w] = length[w]
    BY <1>3, <2>5, LengthsKept
  <2> QED
    BY <1>1, <1>3, <2>1, <2>3, <2>4, <2>6 DEF IInv, NeverReentered
<1>4. CASE ref_count = 1 /\ WorkVectorsDestroy(vec_refs)
  <2>1. handles = 1 /\ lent = {} /\ Referenced(vec_refs) \subseteq InPool
    BY <1>1, <1>4, LastReference
  <2>2. \A w \in InPool : outside[w] = 0
    BY <1>4 DEF WorkVectorsDestroy, OutsideDropped
  <2>3. \A w \in Vec : /\ vec_refs[w] = outside[w] + (IF w \in InPool THEN 1 ELSE 0)
                                        + (IF w \in lent THEN 1 ELSE 0)
                       /\ outside[w] \in Nat /\ vec_refs[w] \in Nat
    BY DEF IInv, CountsOK, Typed
  <2>4. \A w \in InPool : vec_refs[w] = 1
    BY <2>1, <2>2, <2>3, IInvConstants
  <2>5. \A w \in Vec \ InPool : vec_refs[w] = 0 /\ outside[w] = 0
    BY <2>1, <2>3 DEF Referenced
  <2>6. handles' = 0 /\ lent' = {} /\ outside' \in [Vec -> Nat] /\ \A w \in Vec : outside'[w] = 0
    BY <1>1, <2>1, <2>2, <2>5 DEF IInv, Typed
  <2>7. IInv' /\ InPool' = {}
    BY <1>2, <1>4, <2>4, <2>5, <2>6, PoolDestroyed
  <2> QED
    BY <1>1, <2>1, <2>7
<1> QED
  BY <1>1, <1>3, <1>4 DEF Release

LEMMA VectorDestroyKeeps ==
  ASSUME IInv, NEW v \in Vec, CeedVectorDestroy(v)
  PROVE  /\ IInv' /\ lent' = lent
         /\ \/ InPool' = InPool /\ \A w \in InPool : length'[w] = length[w]
            \/ InPool' = {} /\ lent = {}
<1> DEFINE refs == [vec_refs EXCEPT ![v] = @ - 1]
<1>1. /\ outside[v] > 0 /\ outside' = [outside EXCEPT ![v] = @ - 1]
      /\ IF refs[v] = 0 THEN Release(refs)
         ELSE vec_refs' = refs /\ UNCHANGED <<arrays, length, ref_count, reentered>>
      /\ UNCHANGED <<handles, lent>>
  BY DEF CeedVectorDestroy
<1>2. /\ vec_refs \in [Vec -> Nat] /\ outside \in [Vec -> Nat] /\ ref_count \in Nat
      /\ handles \in Nat /\ InPool \subseteq Vec /\ lent \subseteq InPool
      /\ \A w \in Vec : vec_refs[w] = outside[w] + (IF w \in InPool THEN 1 ELSE 0)
                                       + (IF w \in lent THEN 1 ELSE 0)
  BY IInvConstants DEF IInv, Typed, CountsOK
<1>3. vec_refs[v] > 0
  BY <1>1, <1>2
<1>4. refs \in Counts /\ \A w \in Vec : refs[w] = IF w = v THEN vec_refs[v] - 1 ELSE vec_refs[w]
  BY <1>2, <1>3 DEF Counts
<1>5. /\ outside' \in [Vec -> Nat]
      /\ \A w \in Vec : outside'[w] = IF w = v THEN outside[v] - 1 ELSE outside[w]
  BY <1>1, <1>2
<1> HIDE DEF refs
<1>6. \A w \in Vec : refs[w] = outside'[w] + (IF w \in InPool THEN 1 ELSE 0)
                                + (IF w \in lent THEN 1 ELSE 0)
  BY <1>1, <1>2, <1>4, <1>5
<1>7. \A w \in InPool : refs[w] # 0
  BY <1>2, <1>5, <1>6
<1>8. CASE refs[v] # 0
  <2>1. vec_refs' = refs /\ UNCHANGED <<arrays, length, ref_count, reentered>>
    BY <1>1, <1>8
  <2>2. ArraysOK(num_vecs, vecs, is_in_use)' /\ InPool' = InPool
    BY <1>1, <2>1, ArraysKept
  <2>3. Typed'
    <3>1. UNCHANGED <<max_vecs, num_vecs, vecs>> /\ Cells' = Cells
      BY <2>1 DEF arrays, Cells
    <3> QED
      BY <1>1, <1>5, <2>1, <3>1 DEF IInv, Typed
  <2>4. Referenced(vec_refs)' = Referenced(vec_refs)
    BY <1>2, <1>3, <1>4, <1>8, <2>1 DEF Referenced
  <2>5. CountsOK(InPool, vec_refs, ref_count)'
    <3>1. vec_refs' \in [Vec -> Nat]
      BY <1>4, <2>1 DEF Counts
    <3>2. \A w \in Vec : vec_refs'[w] = outside'[w] + (IF w \in InPool' THEN 1 ELSE 0)
                                         + (IF w \in lent' THEN 1 ELSE 0)
      BY <1>1, <1>6, <2>1, <2>2
    <3>3. /\ IsFiniteSet(Referenced(vec_refs)')
          /\ ref_count' = handles' + Cardinality(lent') + Cardinality(Referenced(vec_refs)' \ InPool')
      BY <1>1, <2>1, <2>2, <2>4 DEF IInv, CountsOK
    <3> QED
      BY <1>2, <2>1, <3>1, <3>2, <3>3 DEF CountsOK
  <2> QED
    BY <1>1, <2>1, <2>2, <2>3, <2>5 DEF IInv, NeverReentered
<1>9. CASE refs[v] = 0
  <2>1. v \notin InPool /\ v \in Referenced(vec_refs) \ InPool
    BY <1>3, <1>7, <1>9 DEF Referenced
  <2>2. Release(refs)
    BY <1>1, <1>9
  <2>3. CASE /\ ref_count > 1
             /\ ref_count' = ref_count - 1
             /\ vec_refs' = refs /\ length' = LengthsOf(refs)
             /\ UNCHANGED <<arrays, reentered>>
    <3>1. ArraysOK(num_vecs, vecs, is_in_use)' /\ InPool' = InPool
      BY <1>1, <2>3, ArraysKept
    <3>2. length' \in [Vec -> Length \cup {0}]
      BY <2>3, LengthsTyped DEF IInv
    <3>3. Typed'
      <4>1. UNCHANGED <<max_vecs, num_vecs, vecs>> /\ Cells' = Cells
        BY <2>3 DEF arrays, Cells
      <4> QED
        BY <1>1, <1>5, <2>3, <3>2, <4>1 DEF IInv, Typed
    <3>4. Referenced(vec_refs)' = Referenced(vec_refs) \ {v}
      BY <1>2, <1>3, <1>4, <1>9, <2>3 DEF Referenced
    <3>5. CountsOK(InPool, vec_refs, ref_count)'
      <4> DEFINE lost == Referenced(vec_refs) \ InPool
                 lost2 == Referenced(vec_refs)' \ InPool'
                 a == Cardinality(lent)
                 b == Cardinality(lost)
                 b2 == Cardinality(lost2)
      <4>1. lost2 = lost \ {v}
        BY <3>1, <3>4
      <4>2. b2 = b - 1
        BY <2>1, <4>1, LentFinite, FS_RemoveElement
      <4>3. ref_count = handles + a + b /\ a \in Nat /\ b \in Nat
        BY LentFinite DEF IInv, CountsOK, Typed
      <4>4. Cardinality(lent') = a /\ handles' = handles
        BY <1>1
      <4> HIDE DEF a, b, b2
      <4>5. ref_count' = handles' + Cardinality(lent') + b2 /\ ref_count' \in Nat
        BY <1>2, <2>3, <4>2, <4>3, <4>4
      <4>6. IsFiniteSet(Referenced(vec_refs)')
        BY <3>4, FS_Subset DEF IInv, CountsOK
      <4>7. vec_refs' \in [Vec -> Nat]
        BY <1>4, <2>3 DEF Counts
      <4>8. \A w \in Vec : vec_refs'[w] = outside'[w] + (IF w \in InPool' THEN 1 ELSE 0)
                                           + (IF w \in lent' THEN 1 ELSE 0)
        BY <1>1, <1>6, <2>3, <3>1
      <4> QED
        BY <4>5, <4>6, <4>7, <4>8 DEF CountsOK, b2
    <3>6. \A w \in InPool : length'[w] = length[w]
      BY <1>7, <2>3, LengthsKept
    <3> QED
      BY <1>1, <2>3, <3>1, <3>3, <3>5, <3>6 DEF IInv, NeverReentered
  <2>4. CASE ref_count = 1 /\ WorkVectorsDestroy(refs)
    <3>1. handles = 0 /\ lent = {} /\ Referenced(vec_refs) \ InPool = {v}
      BY <2>1, <2>4, LastReference
    <3>2. \A w \in InPool : outside[w] = 0
      BY <2>4 DEF WorkVectorsDestroy, OutsideDropped
    <3>3. \A w \in InPool : refs[w] = 1 /\ outside'[w] = 0
      BY <1>2, <1>5, <1>6, <2>1, <3>1, <3>2
    <3>4. \A w \in Vec \ InPool : refs[w] = 0 /\ outside'[w] = 0
      <4> SUFFICES ASSUME NEW w \in Vec \ InPool
                   PROVE  refs[w] = 0 /\ outside'[w] = 0
        OBVIOUS
      <4>1. refs[w] = 0
        <5>1. CASE w = v
          BY <1>9, <5>1
        <5>2. CASE w # v
          <6>1. w \notin Referenced(vec_refs)
            BY <3>1, <5>2
          <6>2. vec_refs[w] = 0
            BY <1>2, <6>1 DEF Referenced
          <6> QED
            BY <1>4, <5>2, <6>2
        <5> QED
          BY <5>1, <5>2
      <4> QED
        BY <1>5, <1>6, <3>1, <4>1
    <3>5. handles' = 0 /\ lent' = {}
      BY <1>1, <3>1
    <3>6. \A w \in Vec : outside'[w] = 0
      BY <3>3, <3>4
    <3>7. IInv' /\ InPool' = {}
      BY <1>4, <1>5, <2>4, <3>3, <3>4, <3>5, <3>6, PoolDestroyed
    <3> QED
      BY <1>1, <3>1, <3>7
  <2> QED
    BY <2>2, <2>3, <2>4 DEF Release
<1> QED
  BY <1>8, <1>9

(***************************************************************************)
(* References.                                                             *)
(***************************************************************************)
LEMMA HandleKeeps ==
  ASSUME IInv, AddHandle
  PROVE  IInv' /\ lent' = lent /\ InPool' = InPool /\ length' = length
<1>1. /\ handles' = handles + 1 /\ ref_count' = ref_count + 1
      /\ UNCHANGED <<arrays, length, vec_refs, lent, outside, reentered>>
  BY DEF AddHandle
<1>2. ArraysOK(num_vecs, vecs, is_in_use)' /\ InPool' = InPool
  BY <1>1, ArraysKept
<1>3. Typed'
  <2>1. UNCHANGED <<max_vecs, num_vecs, vecs>> /\ Cells' = Cells
    BY <1>1 DEF arrays, Cells
  <2> QED
    BY <1>1, <2>1 DEF IInv, Typed
<1>4. CountsOK(InPool, vec_refs, ref_count)'
  <2>1. Referenced(vec_refs)' = Referenced(vec_refs)
    BY <1>1 DEF Referenced
  <2> DEFINE a == Cardinality(lent)
             b == Cardinality(Referenced(vec_refs) \ InPool)
  <2>2. ref_count = handles + a + b /\ a \in Nat /\ b \in Nat /\ handles \in Nat
    BY LentFinite DEF IInv, CountsOK, Typed
  <2> HIDE DEF a, b
  <2>3. ref_count' = handles' + a + b /\ ref_count' \in Nat
    BY <1>1, <2>2
  <2>4. ref_count' = handles' + Cardinality(lent') + Cardinality(Referenced(vec_refs)' \ InPool')
    BY <1>1, <1>2, <2>1, <2>3 DEF a, b
  <2>5. /\ vec_refs' \in [Vec -> Nat] /\ IsFiniteSet(Referenced(vec_refs)')
        /\ \A w \in Vec : vec_refs'[w] = outside'[w] + (IF w \in InPool' THEN 1 ELSE 0)
                                         + (IF w \in lent' THEN 1 ELSE 0)
    BY <1>1, <1>2, <2>1 DEF IInv, CountsOK
  <2> QED
    BY <2>3, <2>4, <2>5 DEF CountsOK
<1> QED
  BY <1>1, <1>2, <1>3, <1>4 DEF IInv, NeverReentered

LEMMA InitAgainKeeps ==
  ASSUME IInv, CeedInit
  PROVE  IInv' /\ lent' = lent /\ InPool' = InPool /\ length' = length
<1>1. /\ ref_count = 0 /\ handles' = 1 /\ ref_count' = 1
      /\ UNCHANGED <<arrays, length, vec_refs, lent, outside, reentered>>
  BY DEF CeedInit
<1>2. ArraysOK(num_vecs, vecs, is_in_use)' /\ InPool' = InPool
  BY <1>1, ArraysKept
<1>3. Typed'
  <2>1. UNCHANGED <<max_vecs, num_vecs, vecs>> /\ Cells' = Cells
    BY <1>1 DEF arrays, Cells
  <2> QED
    BY <1>1, <2>1 DEF IInv, Typed
<1>4. CountsOK(InPool, vec_refs, ref_count)'
  <2>1. Referenced(vec_refs)' = Referenced(vec_refs)
    BY <1>1 DEF Referenced
  <2> DEFINE a == Cardinality(lent)
             b == Cardinality(Referenced(vec_refs) \ InPool)
  <2>2. ref_count = handles + a + b /\ a \in Nat /\ b \in Nat /\ handles \in Nat
    BY LentFinite DEF IInv, CountsOK, Typed
  <2> HIDE DEF a, b
  <2>3. ref_count' = handles' + a + b /\ ref_count' \in Nat
    BY <1>1, <2>2
  <2>4. ref_count' = handles' + Cardinality(lent') + Cardinality(Referenced(vec_refs)' \ InPool')
    BY <1>1, <1>2, <2>1, <2>3 DEF a, b
  <2>5. /\ vec_refs' \in [Vec -> Nat] /\ IsFiniteSet(Referenced(vec_refs)')
        /\ \A w \in Vec : vec_refs'[w] = outside'[w] + (IF w \in InPool' THEN 1 ELSE 0)
                                         + (IF w \in lent' THEN 1 ELSE 0)
    BY <1>1, <1>2, <2>1 DEF IInv, CountsOK
  <2> QED
    BY <2>3, <2>4, <2>5 DEF CountsOK
<1> QED
  BY <1>1, <1>2, <1>3, <1>4 DEF IInv, NeverReentered

LEMMA VectorReferenceKeeps ==
  ASSUME IInv, NEW v \in Vec, CeedVectorReferenceCopy(v)
  PROVE  IInv' /\ lent' = lent /\ InPool' = InPool /\ length' = length
<1>1. /\ v \in lent \/ outside[v] > 0
      /\ outside' = [outside EXCEPT ![v] = @ + 1] /\ vec_refs' = [vec_refs EXCEPT ![v] = @ + 1]
      /\ UNCHANGED <<arrays, length, ref_count, handles, lent, reentered>>
  BY DEF CeedVectorReferenceCopy
<1>2. ArraysOK(num_vecs, vecs, is_in_use)' /\ InPool' = InPool
  BY <1>1, ArraysKept
<1>3. /\ vec_refs \in [Vec -> Nat] /\ outside \in [Vec -> Nat]
      /\ \A w \in Vec : vec_refs[w] = outside[w] + (IF w \in InPool THEN 1 ELSE 0)
                                       + (IF w \in lent THEN 1 ELSE 0)
  BY DEF IInv, Typed, CountsOK
<1>4. /\ outside' \in [Vec -> Nat] /\ vec_refs' \in [Vec -> Nat]
      /\ \A w \in Vec : /\ outside'[w] = IF w = v THEN outside[v] + 1 ELSE outside[w]
                        /\ vec_refs'[w] = IF w = v THEN vec_refs[v] + 1 ELSE vec_refs[w]
  BY <1>1, <1>3
<1>5. Typed'
  <2>1. UNCHANGED <<max_vecs, num_vecs, vecs>> /\ Cells' = Cells
    BY <1>1 DEF arrays, Cells
  <2> QED
    BY <1>1, <1>4, <2>1 DEF IInv, Typed
<1>6. CountsOK(InPool, vec_refs, ref_count)'
  <2>1. vec_refs[v] > 0
    BY <1>1, <1>3
  <2>2. Referenced(vec_refs)' = Referenced(vec_refs)
    BY <1>3, <1>4, <2>1 DEF Referenced
  <2>3. \A w \in Vec : vec_refs'[w] = outside'[w] + (IF w \in InPool' THEN 1 ELSE 0)
                                      + (IF w \in lent' THEN 1 ELSE 0)
    BY <1>1, <1>2, <1>3, <1>4
  <2>4. /\ IsFiniteSet(Referenced(vec_refs)') /\ ref_count' \in Nat
        /\ ref_count' = handles' + Cardinality(lent') + Cardinality(Referenced(vec_refs)' \ InPool')
    BY <1>1, <1>2, <2>2 DEF IInv, CountsOK
  <2> QED
    BY <1>4, <2>3, <2>4 DEF CountsOK
<1> QED
  BY <1>1, <1>2, <1>5, <1>6 DEF IInv, NeverReentered

(***************************************************************************)
(* Every step.                                                             *)
(***************************************************************************)
LEMMA NextKeeps ==
  ASSUME IInv, [Next]_vars
  PROVE  IInv'
<1>1. ASSUME NEW len \in Length, CeedGetWorkVector(len)
      PROVE  IInv'
  BY <1>1, LendIdleKeeps, LendNewKeeps DEF CeedGetWorkVector
<1>2. ASSUME NEW v \in Vec, CeedVectorGetCeed(v)
      PROVE  IInv'
  BY <1>2, HandleKeeps DEF CeedVectorGetCeed
<1>3. ASSUME CeedReferenceCopy
      PROVE  IInv'
  BY <1>3, HandleKeeps DEF CeedReferenceCopy
<1>4. ASSUME NEW v \in lent, CeedRestoreWorkVector(v)
      PROVE  IInv'
  BY <1>4, RestoreKeeps DEF CeedRestoreWorkVector
<1>5. ASSUME UNCHANGED vars
      PROVE  IInv'
  <2>1. ArraysOK(num_vecs, vecs, is_in_use)' /\ InPool' = InPool
    BY <1>5, ArraysKept DEF vars
  <2>2. Typed'
    BY <1>5 DEF vars, arrays, IInv, Typed, Cells
  <2>3. CountsOK(InPool, vec_refs, ref_count)'
    BY <1>5, <2>1 DEF vars, IInv, CountsOK, Referenced
  <2> QED
    BY <1>5, <2>1, <2>2, <2>3 DEF vars, IInv, NeverReentered
<1> QED
  BY <1>1, <1>2, <1>3, <1>4, <1>5, ClearKeeps, VectorReferenceKeeps, VectorDestroyKeeps,
     InitAgainKeeps, DestroyKeeps
  DEF Next

\* The inductive invariant of the pool, its loops included (interface/ceed.c:844-978).
THEOREM InvariantCorrect == Spec => []IInv
<1> QED
  BY InitIInv, NextKeeps, PTL DEF Spec

\* Every variable of the pool stays in its type (interface/ceed-impl.h:77-81).
THEOREM PoolTypeOKCorrect == Spec => []PoolTypeOK
<1> QED
  BY InvariantCorrect, IInvTypes, PTL

\* The entries are different vectors, those in use are the ones callers have, and a vector
\* outside the pool exists only by its callers' references: no vector is lost, and none is
\* destroyed under a caller (interface/ceed.c:844-978).
THEOREM PoolAccountedCorrect == Spec => []PoolAccounted
<1> QED
  BY InvariantCorrect, IInvAccounts, PTL

\* The context's count is that of its handles, of the vectors it has lent, and of those that
\* have left the pool: it is not destroyed while one of them is there (interface/ceed.c:168).
THEOREM ContextReferencesCorrect == Spec => []ContextReferences
<1> QED
  BY InvariantCorrect, IInvCounts, PTL

\* No call on the pool destroys the context it works on (interface/ceed.c:861).
THEOREM NeverReenteredCorrect == Spec => []NeverReentered
<1>1. IInv => NeverReentered
  BY DEF IInv
<1> QED
  BY <1>1, InvariantCorrect, PTL

(***************************************************************************)
(* The arrays implement the pool of WorkPool.                              *)
(***************************************************************************)
PoolStep == [Pool!PoolNext]_(Pool!poolVars)

LEMMA PoolStutters ==
  ASSUME lent' = lent, InPool' = InPool, \A v \in InPool : length'[v] = length[v]
  PROVE  PoolStep
<1>1. [v \in InPool' |-> length'[v]] = [v \in InPool |-> length[v]]
  OBVIOUS
<1> QED
  BY <1>1 DEF PoolStep, Pool!poolVars

LEMMA PoolCloses ==
  ASSUME lent' = lent, InPool' = {}, lent = {}
  PROVE  PoolStep
<1>1. [v \in InPool' |-> length'[v]] = <<>>
  OBVIOUS
<1>2. Pool!Close
  BY <1>1 DEF Pool!Close
<1> QED
  BY <1>2 DEF PoolStep, Pool!PoolNext

LEMMA PoolLends ==
  ASSUME IInv, NEW len \in Length, CeedGetWorkVector(len)
  PROVE  PoolStep
<1>1. CASE GetIdle(len)
  <2>1. PICK v \in InPool \ lent :
          InPool' = InPool /\ length[v] >= len /\ lent' = lent \cup {v} /\ length' = length
    BY <1>1, LendIdleKeeps
  <2>2. [w \in InPool' |-> length'[w]] = [w \in InPool |-> length[w]]
    BY <2>1
  <2>3. v \in Pool!LongEnough(len)
    BY <2>1 DEF Pool!LongEnough, Pool!Idle
  <2>4. Pool!LendIdle(len)
    BY <2>1, <2>2, <2>3 DEF Pool!LendIdle
  <2> QED
    BY <2>4 DEF PoolStep, Pool!PoolNext
<1>2. CASE \E v \in Vec \ Existing, junk \in BOOLEAN : GetNew(len, v, junk)
  <2>1. PICK v \in Vec \ Existing :
          /\ v \notin InPool /\ InPool' = InPool \cup {v}
          /\ \A w \in InPool : w \in lent \/ ~(length[w] >= len)
          /\ lent' = lent \cup {v} /\ length' = [length EXCEPT ![v] = len]
    BY <1>2, LendNewKeeps
  <2>2. Pool!LongEnough(len) = {}
    BY <2>1 DEF Pool!LongEnough, Pool!Idle
  <2>3. [w \in InPool' |-> length'[w]]
          = [w \in InPool \cup {v} |-> IF w = v THEN len ELSE [u \in InPool |-> length[u]][w]]
    <3>1. \A w \in InPool : w \in Vec /\ w # v
      BY <2>1, IInvConstants
    <3>2. \A w \in Vec : length'[w] = IF w = v THEN len ELSE length[w]
      BY <2>1 DEF IInv, Typed
    <3> QED
      BY <2>1, <3>1, <3>2
  <2>4. Pool!LendNew(len)
    BY <2>1, <2>2, <2>3 DEF Pool!LendNew
  <2> QED
    BY <2>4 DEF PoolStep, Pool!PoolNext
<1> QED
  BY <1>1, <1>2 DEF CeedGetWorkVector

LEMMA PoolGetsBack ==
  ASSUME IInv, NEW v \in lent, CeedRestoreWorkVector(v)
  PROVE  PoolStep
<1>1. InPool' = InPool /\ lent' = lent \ {v} /\ length' = length
  BY RestoreKeeps DEF CeedRestoreWorkVector
<1>2. [w \in InPool' |-> length'[w]] = [w \in InPool |-> length[w]]
  BY <1>1
<1>3. Pool!GiveBack
  BY <1>1, <1>2 DEF Pool!GiveBack
<1> QED
  BY <1>3 DEF PoolStep, Pool!PoolNext

LEMMA PoolClears ==
  ASSUME IInv, NEW len \in Length, CeedClearWorkVectors(len)
  PROVE  PoolStep
<1>1. /\ lent' = lent /\ InPool' = {v \in InPool : v \in lent \/ length[v] >= len}
      /\ \A v \in InPool' : length'[v] = length[v]
  BY ClearKeeps
<1>2. lent \subseteq InPool
  BY IInvConstants
<1>3. InPool' = lent \cup Pool!LongEnough(len)
  BY <1>1, <1>2 DEF Pool!LongEnough, Pool!Idle
<1>4. [v \in InPool' |-> length'[v]]
        = [v \in lent \cup Pool!LongEnough(len) |-> [w \in InPool |-> length[w]][v]]
  <2>1. \A v \in InPool' : length'[v] = [w \in InPool |-> length[w]][v]
    BY <1>1
  <2> QED
    BY <1>3, <2>1
<1>5. Pool!ClearBelow(len)
  BY <1>1, <1>4 DEF Pool!ClearBelow
<1> QED
  BY <1>5 DEF PoolStep, Pool!PoolNext

LEMMA NextPool ==
  ASSUME IInv, [Next]_vars
  PROVE  PoolStep
<1>1. ASSUME NEW v \in Vec,
             CeedVectorGetCeed(v) \/ CeedVectorReferenceCopy(v) \/ CeedVectorDestroy(v)
      PROVE  PoolStep
  BY <1>1, HandleKeeps, VectorReferenceKeeps, VectorDestroyKeeps, PoolStutters, PoolCloses
  DEF CeedVectorGetCeed
<1>2. ASSUME CeedInit \/ CeedReferenceCopy \/ CeedDestroy
      PROVE  PoolStep
  BY <1>2, HandleKeeps, InitAgainKeeps, DestroyKeeps, PoolStutters, PoolCloses
  DEF CeedReferenceCopy
<1>3. ASSUME UNCHANGED vars
      PROVE  PoolStep
  <2>1. lent' = lent /\ InPool' = InPool /\ length' = length
    BY <1>3 DEF vars, arrays, InPool, Slots
  <2> QED
    BY <2>1, PoolStutters
<1> QED
  BY <1>1, <1>2, <1>3, PoolLends, PoolGetsBack, PoolClears DEF Next

\* The arrays, the search and the loops do what WorkPool promises: a vector has one user at
\* a time and is long enough, and no vector is made while one would do
\* (interface/ceed.c:844-978).
THEOREM KeepsPoolPromiseCorrect == Spec => KeepsPoolPromise
<1>1. Init => Pool!PoolInit
  <2>1. ASSUME Init
        PROVE  Pool!PoolInit
    <3>1. InPool = {} /\ lent = {}
      BY <2>1 DEF Init, Empty, InPool, Slots
    <3>2. [v \in InPool |-> length[v]] = <<>>
      BY <3>1
    <3> QED
      BY <3>1, <3>2 DEF Pool!PoolInit
  <2> QED
    BY <2>1
<1>2. IInv /\ [Next]_vars => [Pool!PoolNext]_(Pool!poolVars)
  BY NextPool DEF PoolStep
<1> QED
  BY <1>1, <1>2, InvariantCorrect, PTL DEF Spec, KeepsPoolPromise, Pool!PoolSpec
===============================================================================
