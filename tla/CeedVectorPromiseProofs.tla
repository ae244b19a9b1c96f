------------------------ MODULE CeedVectorPromiseProofs ------------------------
(***************************************************************************)
(* The ref backend of CeedVector implements ArrayAccess, for any number of *)
(* vectors, arrays, values and readers: every call is, for each vector, a  *)
(* step that a cell may take. The parts from "What no call does" on prove  *)
(* of both backends what happens to contents, copies and accesses.         *)
(***************************************************************************)
EXTENDS CeedVectorProofs

Ref == Backend = "ref"

\* The contents that Visible shows of a vector whose array is l.
Shown(v, l, m) == IF v \in Empty THEN Unset ELSE IF l = NULL THEN NULL ELSE m[l]

LEMMA VisibleShown ==
  ASSUME NEW v \in Vec
  PROVE  Visible[v] = Shown(v, array[v], mem) /\ Visible'[v] = Shown(v, array'[v], mem')
BY DEF Visible, Shown

\* There are contents exactly when the vector has a valid array.
LEMMA ShownExists ==
  ASSUME NEW v \in Vec, NEW l \in Location \cup {NULL}, NEW m \in [Location -> Contents]
  PROVE  Shown(v, l, m) # NULL <=> v \in Empty \/ l # NULL
BY VecAssumption DEF Shown, Contents

LEMMA ContentsExist ==
  ASSUME TypeOK, NEW v \in Vec
  PROVE  Visible[v] # NULL <=> HasValidArray(v)
BY VisibleShown, ShownExists DEF TypeOK, HasValidArray

(***************************************************************************)
(* The steps of a cell, said of a vector.                                  *)
(***************************************************************************)
LEMMA StepSame ==
  ASSUME NEW v \in Vec, state'[v] = state[v], num_readers'[v] = num_readers[v], Visible'[v] = Visible[v]
  PROVE  Promise!CellStep(v)
<1>1. Promise!Same(v)
  BY DEF Promise!Same, Even
<1> QED
  BY <1>1 DEF Promise!CellStep

LEMMA StepBeginRead ==
  ASSUME NEW v \in Vec, Even(v), state'[v] = state[v], num_readers'[v] = num_readers[v] + 1,
         Visible[v] # NULL, Visible'[v] = Visible[v]
  PROVE  Promise!CellStep(v)
<1>1. Promise!BeginRead(v)
  BY DEF Promise!BeginRead, Even
<1> QED
  BY <1>1 DEF Promise!CellStep

LEMMA StepEndRead ==
  ASSUME NEW v \in Vec, state'[v] = state[v], num_readers[v] > 0, num_readers'[v] = num_readers[v] - 1,
         Visible'[v] = Visible[v]
  PROVE  Promise!CellStep(v)
<1>1. Promise!EndRead(v)
  BY DEF Promise!EndRead, Even
<1> QED
  BY <1>1 DEF Promise!CellStep

LEMMA StepBeginWrite ==
  ASSUME TypeOK, NEW v \in Vec, NEW n \in {1, 3}, Free(v), state'[v] = state[v] + n,
         num_readers'[v] = num_readers[v], Visible'[v] # NULL, Visible[v] # NULL => Visible'[v] = Visible[v]
  PROVE  Promise!CellStep(v)
<1>1. state[v] \in Nat /\ state[v] % 2 = 0 /\ num_readers[v] = 0
  BY DEF TypeOK, Free, Even
<1>2. (state[v] + n) % 2 = 1 /\ (state[v] + n) \div 2 >= state[v] \div 2
  BY <1>1
<1>3. Even(v) /\ ~Even(v)' /\ state'[v] \div 2 >= state[v] \div 2
  BY <1>1, <1>2 DEF Even
<1>4. num_readers[v] = 0 /\ num_readers'[v] = 0
  BY <1>1
<1>5. Promise!Exclusive(v)
  BY <1>3, <1>4 DEF Promise!Exclusive
<1>6. Promise!BeginWrite(v)
  BY <1>3, <1>5 DEF Promise!BeginWrite
<1> QED
  BY <1>6 DEF Promise!CellStep

LEMMA StepStore ==
  ASSUME NEW v \in Vec, ~Even(v), state'[v] = state[v], num_readers'[v] = num_readers[v], Visible'[v] # NULL
  PROVE  Promise!CellStep(v)
<1>1. Promise!Store(v)
  BY DEF Promise!Store, Even
<1> QED
  BY <1>1 DEF Promise!CellStep

LEMMA StepEndWrite ==
  ASSUME TypeOK, NEW v \in Vec, ~Even(v), state'[v] = state[v] + 1, num_readers'[v] = num_readers[v],
         Visible'[v] # NULL
  PROVE  Promise!CellStep(v)
<1>1. state[v] \in Nat /\ state[v] % 2 # 0
  BY DEF TypeOK, Even
<1>2. (state[v] + 1) % 2 = 0 /\ (state[v] + 1) \div 2 > state[v] \div 2
  BY <1>1
<1>3. Promise!EndWrite(v)
  BY <1>1, <1>2 DEF Promise!EndWrite, Even
<1> QED
  BY <1>3 DEF Promise!CellStep

LEMMA StepReplace ==
  ASSUME TypeOK, NEW v \in Vec, NEW n \in {2, 4}, Free(v), state'[v] = state[v] + n,
         num_readers'[v] = num_readers[v]
  PROVE  Promise!CellStep(v)
<1>1. state[v] \in Nat /\ state[v] % 2 = 0 /\ num_readers[v] = 0
  BY DEF TypeOK, Free, Even
<1>2. (state[v] + n) % 2 = 0 /\ (state[v] + n) \div 2 > state[v] \div 2
  BY <1>1
<1>3. Promise!Replace(v)
  BY <1>1, <1>2 DEF Promise!Replace, Promise!Exclusive, Even
<1> QED
  BY <1>3 DEF Promise!CellStep

LEMMA StepDiscard ==
  ASSUME NEW v \in Vec, Free(v), state'[v] = state[v], num_readers'[v] = num_readers[v], Visible'[v] = NULL
  PROVE  Promise!CellStep(v)
<1>1. Promise!Discard(v)
  BY DEF Promise!Discard, Promise!Exclusive, Free, Even
<1> QED
  BY <1>1 DEF Promise!CellStep

(***************************************************************************)
(* No two vectors have the same array.                                     *)
(***************************************************************************)
\* The locations where a call on the vectors in S may store: no other vector's array.
Apart(S) == {l \in Location : \A u \in Vec \ S : array[u] # l}

LEMMA ArraysApart ==
  ASSUME Ref, TypeOK, PointerInv, NEW v \in Vec
  PROVE  /\ array[v] # NULL => array[v] \in Apart({v})
         /\ CopyTarget(v) \in Apart({v})
         /\ \A a \in Array : Available(v, a) => a \in Apart({v})
<1> USE VecAssumption
<1>1. ~Memcheck
  BY DEF Memcheck, Ref
<1>2. \A u \in Vec : array[u] # NULL =>
        \/ owned[u] # NULL /\ array[u] = owned[u] /\ owned[u] \in Array \cup {u}
        \/ owned[u] = NULL /\ array[u] = borrowed[u] /\ borrowed[u] \in Array
  BY <1>1 DEF PointerInv, PointersAgree, TypeOK
<1>3. \A u \in Vec : /\ owned[u] \in Array => owner[owned[u]] = "library"
                     /\ borrowed[u] \in Array => owner[borrowed[u]] = "user"
  BY DEF PointerInv, ArraysAccounted
<1>4. \A u \in Vec \ {v} : /\ owned[u] \in Array => owned[u] # owned[v]
                           /\ borrowed[u] # NULL => borrowed[u] # borrowed[v]
  BY DEF PointerInv, ArraysAccounted
<1>5. \A u \in Vec \ {v} : array[v] # NULL => array[u] # array[v]
  BY <1>2, <1>3, <1>4
<1>6. \A u \in Vec \ {v} : array[u] # v
  BY <1>2
<1>7. array[v] = NULL => owned[v] = NULL /\ borrowed[v] = NULL
  BY DEF PointerInv, PointersAgree
<1>8. CopyTarget(v) = IF array[v] # NULL THEN array[v] ELSE v
  BY <1>1, <1>7 DEF CopyTarget
<1>9. ASSUME NEW a \in Array, Available(v, a), NEW u \in Vec \ {v}
      PROVE  array[u] # a
  BY <1>2, <1>3, <1>9 DEF Available
<1>10. array[v] \in Location \cup {NULL}
  BY DEF TypeOK
<1> QED
  BY <1>5, <1>6, <1>8, <1>9, <1>10 DEF Apart, Location

\* A call that stores only there, and changes nothing else of the other vectors.
Touched(S) ==
  /\ \A u \in Vec \ S : array'[u] = array[u] /\ state'[u] = state[u] /\ num_readers'[u] = num_readers[u]
  /\ \A l \in Location \ Apart(S) : mem'[l] = mem[l]

LEMMA OthersKeep ==
  ASSUME TypeOK, NEW S \in SUBSET Vec, Touched(S), NEW u \in Vec \ S
  PROVE  Promise!CellStep(u) /\ Visible'[u] = Visible[u]
<1>1. array'[u] = array[u] /\ state'[u] = state[u] /\ num_readers'[u] = num_readers[u]
  BY DEF Touched
<1>2. array[u] # NULL => mem'[array[u]] = mem[array[u]]
  BY DEF Touched, Apart, TypeOK
<1>3. Visible'[u] = Visible[u]
  BY <1>1, <1>2, VisibleShown DEF Shown
<1> QED
  BY <1>1, <1>3, StepSame

(***************************************************************************)
(* The calls on one vector.                                                *)
(***************************************************************************)
\* While a vector is locked it has an array to write to.
LockedHasArray == \A v \in Vec : ~Even(v) => HasValidArray(v)

RefInv == TypeInv /\ PointerInv /\ LockedHasArray

Steps == \A u \in Vec : Promise!CellStep(u)

\* Only contents and arrays of v change.
OnlyOf(v) ==
  /\ \A u \in Vec \ {v} : array'[u] = array[u]
  /\ \A l \in Location \ Apart({v}) : mem'[l] = mem[l]

LEMMA QuietSteps ==
  ASSUME UNCHANGED <<lockVars, array, mem>>
  PROVE  Steps /\ Visible' = Visible
<1>1. state' = state /\ num_readers' = num_readers /\ array' = array /\ mem' = mem
  BY DEF lockVars
<1>2. Visible' = Visible
  BY <1>1 DEF Visible
<1> QED
  BY <1>1, <1>2, StepSame DEF Steps

LEMMA BumpedOnly ==
  ASSUME TypeOK, NEW v \in Vec, NEW n \in Nat, Bump(v, n)
  PROVE  state'[v] = state[v] + n /\ \A u \in Vec \ {v} : state'[u] = state[u]
BY DEF TypeOK, Bump

LEMMA OneTouched ==
  ASSUME TypeOK, NEW v \in Vec, NEW n \in Nat, OnlyOf(v), Bump(v, n), UNCHANGED num_readers,
         Promise!CellStep(v)
  PROVE  Steps
<1>1. Touched({v})
  BY BumpedOnly DEF Touched, OnlyOf
<1>2. \A u \in Vec \ {v} : Promise!CellStep(u)
  BY <1>1, OthersKeep
<1> QED
  BY <1>2 DEF Steps

LEMMA ReplaceSteps ==
  ASSUME TypeOK, NEW v \in Vec, NEW n \in {2, 4}, OnlyOf(v), Free(v), Bump(v, n), UNCHANGED num_readers
  PROVE  Steps
<1>1. state'[v] = state[v] + n
  BY BumpedOnly
<1>2. Promise!CellStep(v)
  BY <1>1, StepReplace
<1> QED
  BY <1>2, OneTouched

\* What COPY_VALUES stores.
LEMMA CopiedOnly ==
  ASSUME Ref, TypeOK, PointerInv, NEW v \in Vec, NEW source, CopyValues(v, source)
  PROVE  OnlyOf(v) /\ array'[v] = CopyTarget(v) /\ CopyTarget(v) # NULL
<1>1. CopyTarget(v) \in Apart({v}) /\ CopyTarget(v) \in Location
  BY ArraysApart DEF Apart
<1>2. array' = [array EXCEPT ![v] = CopyTarget(v)]
  BY DEF CopyValues
<1>3. mem' = [mem EXCEPT ![CopyTarget(v)] = CopyContents(v, source)]
  BY DEF CopyValues
<1>4. array'[v] = CopyTarget(v) /\ \A u \in Vec \ {v} : array'[u] = array[u]
  BY <1>2 DEF TypeOK
<1>5. \A l \in Location \ Apart({v}) : mem'[l] = mem[l]
  BY <1>1, <1>3 DEF TypeOK
<1>6. CopyTarget(v) # NULL
  BY <1>1, VecAssumption DEF Location
<1> QED
  BY <1>4, <1>5, <1>6 DEF OnlyOf

\* What a write through the array of v stores.
LEMMA StoredOnly ==
  ASSUME Ref, TypeOK, PointerInv, NEW v \in Vec, NEW val,
         mem' = Stored(v, val) \/ mem' = [mem EXCEPT ![array[v]] = val], UNCHANGED array
  PROVE  OnlyOf(v)
<1>1. array[v] # NULL => array[v] \in Apart({v})
  BY ArraysApart
<1>2. NULL \notin Location
  BY VecAssumption DEF Location
<1>3. \A l \in Location \ Apart({v}) : l # array[v]
  BY <1>1, <1>2
<1>4. Targets(v) = {array[v]}
  BY DEF Targets, Memcheck, Ref
<1>5. \A l \in Location \ Apart({v}) : mem'[l] = mem[l]
  BY <1>3, <1>4 DEF Stored, TypeOK
<1> QED
  BY <1>5 DEF OnlyOf

LEMMA HandedOnly ==
  ASSUME Ref, TypeOK, PointerInv, NEW v \in Vec, NEW m, NEW a \in Array, NEW val,
         Available(v, a), HandOver(v, m, a, val)
  PROVE  OnlyOf(v)
<1>1. a \in Apart({v})
  BY ArraysApart
<1>2. array' = [array EXCEPT ![v] = a] /\ mem' = [l \in Location |-> IF l = a THEN val ELSE mem[l]]
  BY DEF HandOver, Received, Memcheck, Ref
<1> QED
  BY <1>1, <1>2 DEF OnlyOf, TypeOK

LEMMA SameOnly ==
  ASSUME NEW v \in Vec, UNCHANGED implVars
  PROVE  OnlyOf(v)
BY DEF OnlyOf, implVars

\* The array of a vector that nobody holds is given up.
LEMMA DiscardSteps ==
  ASSUME TypeOK, NEW v \in Vec \ Empty, Free(v), UNCHANGED <<lockVars, mem>>,
         array' = [array EXCEPT ![v] = NULL]
  PROVE  Steps
<1>1. array'[v] = NULL /\ \A u \in Vec \ {v} : array'[u] = array[u]
  BY DEF TypeOK
<1>2. state' = state /\ num_readers' = num_readers /\ mem' = mem
  BY DEF lockVars
<1>3. Visible'[v] = NULL
  BY <1>1, VisibleShown DEF Shown
<1>4. \A u \in Vec \ {v} : Visible'[u] = Visible[u]
  BY <1>1, <1>2, VisibleShown DEF Shown
<1>5. Promise!CellStep(v)
  BY <1>2, <1>3, StepDiscard
<1>6. \A u \in Vec \ {v} : Promise!CellStep(u)
  BY <1>2, <1>4, StepSame
<1> QED
  BY <1>5, <1>6 DEF Steps

LEMMA CreateSteps ==
  ASSUME NEW v \in Vec, CeedVectorCreate(v) \/ CeedVectorReferenceCopy(v)
  PROVE  Steps /\ Visible' = Visible
BY QuietSteps DEF CeedVectorCreate, CeedVectorReferenceCopy, implVars

LEMMA DestroySteps ==
  ASSUME RefInv, NEW v \in Vec, NEW counts, DestroyReference(v, counts)
  PROVE  Steps
<1>1. CASE UNCHANGED implVars
  BY <1>1, QuietSteps, DestroyKeeps DEF implVars
<1>2. CASE Free(v) /\ array' = [array EXCEPT ![v] = NULL]
  <2>1. UNCHANGED <<lockVars, mem>>
    BY DestroyKeeps
  <2>2. CASE v \in Empty
    <3>1. array[v] = NULL
      BY <2>2 DEF RefInv, PointerInv, EmptyHasNone
    <3>2. array' = array
      BY <1>2, <3>1 DEF RefInv, TypeInv, TypeOK
    <3> QED
      BY <2>1, <3>2, QuietSteps
  <2>3. CASE v \notin Empty
    BY <1>2, <2>1, <2>3, DiscardSteps DEF RefInv, TypeInv
  <2> QED
    BY <2>2, <2>3
<1> QED
  BY <1>1, <1>2, DestroyKeeps

LEMMA SetArraySteps ==
  ASSUME Ref, RefInv, NEW v \in Vec,
         \/ \E source : CeedVectorSetArrayCopy(v, source)
         \/ \E m \in {"own", "use"}, a \in Array, val \in Value : CeedVectorSetArrayPointer(v, m, a, val)
  PROVE  Steps
<1>1. TypeOK /\ PointerInv
  BY DEF RefInv, TypeInv
<1>2. ASSUME NEW source, CeedVectorSetArrayCopy(v, source)
      PROVE  Steps
  <2>1. CASE Reject("access")
    BY <2>1, QuietSteps DEF Reject, implVars
  <2>2. CASE /\ Free(v)
             /\ IF v \in Empty THEN UNCHANGED implVars ELSE CopyValues(v, source)
             /\ Bump(v, 2)
             /\ UNCHANGED num_readers
    <3>1. OnlyOf(v)
      BY <1>1, <2>2, SameOnly, CopiedOnly
    <3> QED
      BY <1>1, <2>2, <3>1, ReplaceSteps
  <2> QED
    BY <1>2, <2>1, <2>2 DEF CeedVectorSetArrayCopy
<1>3. ASSUME NEW m, NEW a \in Array, NEW val, CeedVectorSetArrayPointer(v, m, a, val)
      PROVE  Steps
  <2>1. CASE Reject("access")
    BY <2>1, QuietSteps DEF Reject, implVars
  <2>2. CASE /\ Free(v) /\ Available(v, a)
             /\ IF v \in Empty THEN UNCHANGED <<array, mem>> ELSE HandOver(v, m, a, val)
             /\ Bump(v, 2)
             /\ UNCHANGED num_readers
    <3>1. CASE v \in Empty
      <4>1. OnlyOf(v)
        BY <2>2, <3>1 DEF OnlyOf
      <4> QED
        BY <1>1, <2>2, <4>1, ReplaceSteps
    <3>2. CASE v \notin Empty
      <4>1. OnlyOf(v)
        BY <1>1, <2>2, <3>2, HandedOnly
      <4> QED
        BY <1>1, <2>2, <4>1, ReplaceSteps
    <3> QED
      BY <3>1, <3>2
  <2> QED
    BY <1>3, <2>1, <2>2 DEF CeedVectorSetArrayPointer
<1> QED
  BY <1>2, <1>3

LEMMA TakeArraySteps ==
  ASSUME Ref, RefInv, NEW v \in Vec, CeedVectorTakeArray(v)
  PROVE  Steps
<1>1. CASE Reject("access") \/ Reject("backend") \/ Accept
  BY <1>1, QuietSteps DEF Reject, Accept, implVars
<1>2. CASE /\ Free(v) /\ v \notin Empty
           /\ mem' = IF Memcheck THEN Stored(v, Content(v)) ELSE mem
           /\ array' = [array EXCEPT ![v] = NULL]
           /\ UNCHANGED lockVars
  BY <1>2, DiscardSteps DEF RefInv, TypeInv, Memcheck, Ref
<1> QED
  BY <1>1, <1>2 DEF CeedVectorTakeArray

(***************************************************************************)
(* Accesses.                                                               *)
(***************************************************************************)
\* Write access to an array that is there.
LEMMA LockSteps ==
  ASSUME TypeOK, NEW v \in Vec, Free(v), HasValidArray(v), Bump(v, 1), UNCHANGED <<num_readers, implVars>>
  PROVE  Steps
<1>1. state'[v] = state[v] + 1 /\ num_readers'[v] = num_readers[v]
  BY BumpedOnly
<1>2. Visible[v] # NULL
  BY ContentsExist
<1>3. Visible'[v] = Visible[v]
  BY VisibleShown DEF implVars
<1>4. Promise!CellStep(v)
  BY <1>1, <1>2, <1>3, StepBeginWrite
<1> QED
  BY <1>4, SameOnly, OneTouched

LEMMA GetArraySteps ==
  ASSUME Ref, RefInv, NEW v \in Vec, CeedVectorGetArray(v)
  PROVE  Steps
<1>1. CASE Reject("access") \/ Reject("backend")
  BY <1>1, QuietSteps DEF Reject, implVars
<1>2. CASE /\ Free(v) /\ HasValidArray(v) /\ Bump(v, 1)
           /\ UNCHANGED <<num_readers, implVars>>
  BY <1>2, LockSteps DEF RefInv, TypeInv
<1> QED
  BY <1>1, <1>2 DEF CeedVectorGetArray

\* Write access as GetArrayWrite takes it: a vector with no array gets one, in a step that adds 2
\* to state of itself.
LEMMA WriteAccessStep ==
  ASSUME Ref, TypeOK, PointerInv, TypeOK', NEW v \in Vec, Free(v),
         IF NeedsArray(v) THEN CopyValues(v, NULL) ELSE UNCHANGED implVars,
         Bump(v, WriteBump(v) + 1), num_readers'[v] = num_readers[v]
  PROVE  Promise!CellStep(v) /\ OnlyOf(v) /\ WriteBump(v) + 1 \in Nat
<1>1. ~Memcheck
  BY DEF Memcheck, Ref
<1>2. CASE NeedsArray(v)
  <2>1. WriteBump(v) + 1 = 3 /\ CopyValues(v, NULL)
    BY <1>1, <1>2 DEF WriteBump
  <2>2. OnlyOf(v) /\ array'[v] # NULL
    BY <2>1, CopiedOnly
  <2>3. array'[v] \in Location \cup {NULL} /\ mem' \in [Location -> Contents]
    BY DEF TypeOK
  <2>4. Visible'[v] # NULL
    BY <2>2, <2>3, ShownExists, VisibleShown
  <2>5. Visible[v] = NULL
    BY <1>2, VisibleShown DEF NeedsArray, Shown
  <2>6. state'[v] = state[v] + 3
    BY <2>1, BumpedOnly
  <2>7. Promise!CellStep(v)
    BY <2>4, <2>5, <2>6, StepBeginWrite
  <2> QED
    BY <2>1, <2>2, <2>7
<1>3. CASE ~NeedsArray(v)
  <2>1. WriteBump(v) + 1 = 1 /\ UNCHANGED implVars
    BY <1>3 DEF WriteBump
  <2>2. Visible'[v] = Visible[v]
    BY <2>1, VisibleShown DEF implVars
  <2>3. Visible[v] # NULL
    BY <1>3, ContentsExist DEF NeedsArray, HasValidArray
  <2>4. state'[v] = state[v] + 1
    BY <2>1, BumpedOnly
  <2>5. Promise!CellStep(v)
    BY <2>2, <2>3, <2>4, StepBeginWrite
  <2> QED
    BY <2>1, <2>5, SameOnly
<1> QED
  BY <1>2, <1>3

LEMMA GetArrayWriteSteps ==
  ASSUME Ref, RefInv, NEW v \in Vec, CeedVectorGetArrayWrite(v), TypeOK'
  PROVE  Steps
<1>1. TypeOK /\ PointerInv
  BY DEF RefInv, TypeInv
<1>2. CASE Reject("access")
  BY <1>2, QuietSteps DEF Reject, implVars
<1>3. CASE /\ Free(v)
           /\ IF NeedsArray(v) THEN CopyValues(v, NULL) ELSE UNCHANGED implVars
           /\ Bump(v, WriteBump(v) + 1)
           /\ UNCHANGED num_readers
  <2>1. Promise!CellStep(v) /\ OnlyOf(v) /\ WriteBump(v) + 1 \in Nat
    BY <1>1, <1>3, WriteAccessStep
  <2> QED
    BY <1>1, <1>3, <2>1, OneTouched
<1> QED
  BY <1>2, <1>3 DEF CeedVectorGetArrayWrite

\* The readers of one vector change.
LEMMA ReaderSteps ==
  ASSUME TypeOK, NEW v \in Vec, NEW n, num_readers' = [num_readers EXCEPT ![v] = n],
         UNCHANGED <<state, array, mem>>,
         \/ Even(v) /\ HasValidArray(v) /\ n = num_readers[v] + 1
         \/ num_readers[v] > 0 /\ n = num_readers[v] - 1
  PROVE  Steps /\ Visible' = Visible
<1>1. num_readers'[v] = n /\ \A u \in Vec \ {v} : num_readers'[u] = num_readers[u]
  BY DEF TypeOK
<1>2. Visible' = Visible
  BY DEF Visible
<1>3. HasValidArray(v) => Visible[v] # NULL
  BY ContentsExist
<1>4. Promise!CellStep(v)
  BY <1>1, <1>2, <1>3, StepBeginRead, StepEndRead
<1>5. \A u \in Vec \ {v} : Promise!CellStep(u)
  BY <1>1, <1>2, StepSame
<1> QED
  BY <1>2, <1>4, <1>5 DEF Steps

LEMMA GetArrayReadSteps ==
  ASSUME Ref, RefInv, NEW v \in Vec, CeedVectorGetArrayRead(v)
  PROVE  Steps
<1>1. CASE Reject("access") \/ Reject("backend")
  BY <1>1, QuietSteps DEF Reject, implVars
<1>2. CASE /\ Even(v) /\ HasValidArray(v)
           /\ num_readers' = [num_readers EXCEPT ![v] = @ + 1]
           /\ UNCHANGED <<state, implVars>>
  BY <1>2, ReaderSteps DEF RefInv, TypeInv, implVars
<1> QED
  BY <1>1, <1>2 DEF CeedVectorGetArrayRead

LEMMA RestoreArrayReadSteps ==
  ASSUME Ref, RefInv, NEW v \in Vec, CeedVectorRestoreArrayRead(v)
  PROVE  Steps
<1>1. CASE Reject("access")
  BY <1>1, QuietSteps DEF Reject, implVars
<1>2. CASE /\ num_readers[v] > 0
           /\ num_readers' = [num_readers EXCEPT ![v] = @ - 1]
           /\ UNCHANGED <<state, implVars>>
  BY <1>2, ReaderSteps DEF RefInv, TypeInv, implVars
<1> QED
  BY <1>1, <1>2 DEF CeedVectorRestoreArrayRead

LEMMA RestoreArraySteps ==
  ASSUME Ref, RefInv, NEW v \in Vec, CeedVectorRestoreArray(v)
  PROVE  Steps
<1>1. TypeOK
  BY DEF RefInv, TypeInv
<1>2. CASE Reject("access")
  BY <1>2, QuietSteps DEF Reject, implVars
<1>3. CASE ~Even(v) /\ Bump(v, 1) /\ UNCHANGED <<num_readers, implVars>>
  <2>1. state'[v] = state[v] + 1 /\ num_readers'[v] = num_readers[v]
    BY <1>1, <1>3, BumpedOnly
  <2>2. Visible'[v] = Visible[v]
    BY <1>3, VisibleShown DEF implVars
  <2>3. Visible[v] # NULL
    BY <1>1, <1>3, ContentsExist DEF RefInv, LockedHasArray
  <2>4. Promise!CellStep(v)
    BY <1>1, <1>3, <2>1, <2>2, <2>3, StepEndWrite
  <2> QED
    BY <1>1, <1>3, <2>4, SameOnly, OneTouched
<1> QED
  BY <1>2, <1>3 DEF CeedVectorRestoreArray, Memcheck, Ref, implVars

LEMMA WriteThroughSteps ==
  ASSUME Ref, RefInv, NEW v \in Vec, NEW val \in Value, WriteThrough(v, val), TypeOK'
  PROVE  Steps
<1>1. TypeOK /\ PointerInv
  BY DEF RefInv, TypeInv
<1>2. /\ v \in writer \ Empty /\ mem' = [mem EXCEPT ![array[v]] = val]
      /\ UNCHANGED <<lockVars, array>>
  BY DEF WriteThrough, Memcheck, Ref
<1>3. ~Even(v) /\ array[v] # NULL
  BY <1>2 DEF RefInv, TypeInv, WriterHolds, LockedHasArray, HasValidArray
<1>4. OnlyOf(v)
  BY <1>1, <1>2, StoredOnly
<1>5. Visible'[v] # NULL
  <2>1. array'[v] \in Location \cup {NULL} /\ mem' \in [Location -> Contents]
    BY DEF TypeOK
  <2> QED
    BY <1>2, <1>3, <2>1, ShownExists, VisibleShown
<1>6. state' = state /\ num_readers' = num_readers
  BY <1>2 DEF lockVars
<1>7. Promise!CellStep(v)
  BY <1>3, <1>5, <1>6, StepStore
<1>8. Touched({v})
  BY <1>4, <1>6 DEF Touched, OnlyOf
<1>9. \A u \in Vec \ {v} : Promise!CellStep(u)
  BY <1>1, <1>8, OthersKeep
<1> QED
  BY <1>7, <1>9 DEF Steps

(***************************************************************************)
(* Calls that read or write the whole vector.                              *)
(***************************************************************************)
LEMMA ReadWholeSteps ==
  ASSUME Ref, NEW v \in Vec, ReadWhole(v) \/ CeedVectorNorm(v) \/ CeedVectorSyncArray(v)
  PROVE  Steps
<1>1. UNCHANGED <<lockVars, implVars>>
  BY DEF ReadWhole, CeedVectorNorm, CeedVectorSyncArray, Reject, Accept, Memcheck, Ref
<1> QED
  BY <1>1, QuietSteps DEF implVars

LEMMA SetValueSteps ==
  ASSUME Ref, RefInv, NEW v \in Vec, NEW val \in Value,
         CeedVectorSetValue(v, val) \/ \E r \in BOOLEAN : CeedVectorSetValueStrided(v, r, val)
  PROVE  Steps
<1>1. TypeOK /\ PointerInv /\ ~Memcheck
  BY DEF RefInv, TypeInv, Memcheck, Ref
<1>2. CASE Reject("access") \/ Reject("backend") \/ Accept
  BY <1>2, QuietSteps DEF Reject, Accept, implVars
<1>3. CASE Free(v) /\ v \in Empty /\ Bump(v, 2) /\ UNCHANGED <<num_readers, implVars>>
  BY <1>1, <1>3, SameOnly, ReplaceSteps
<1>4. ASSUME Free(v),
             IF NeedsArray(v) THEN CopyValues(v, val)
             ELSE mem' = [mem EXCEPT ![array[v]] = val] /\ UNCHANGED array,
             Bump(v, 2) \/ Bump(v, 4), UNCHANGED num_readers
      PROVE  Steps
  <2>1. OnlyOf(v)
    BY <1>1, <1>4, CopiedOnly, StoredOnly
  <2> QED
    BY <1>1, <1>4, <2>1, ReplaceSteps
<1>5. CASE CeedVectorSetValue(v, val)
  <2>1. WriteBump(v) + 2 \in {2, 4}
    BY DEF WriteBump
  <2> QED
    BY <1>2, <1>3, <1>4, <1>5, <2>1 DEF CeedVectorSetValue
<1>6. CASE \E r \in BOOLEAN : CeedVectorSetValueStrided(v, r, val)
  BY <1>1, <1>2, <1>3, <1>4, <1>6 DEF CeedVectorSetValueStrided
<1> QED
  BY <1>5, <1>6

LEMMA UpdateSteps ==
  ASSUME Ref, RefInv, NEW v \in Vec, NEW val \in Value, UpdateArray(v, val)
  PROVE  Steps
<1>1. TypeOK /\ PointerInv
  BY DEF RefInv, TypeInv
<1>2. CASE Reject("access")
  BY <1>2, QuietSteps DEF Reject, implVars
<1>3. CASE Free(v) /\ mem' = Stored(v, val) /\ Bump(v, 2) /\ UNCHANGED <<num_readers, array>>
  BY <1>1, <1>3, StoredOnly, ReplaceSteps
<1> QED
  BY <1>2, <1>3 DEF UpdateArray

LEMMA ArithmeticSteps ==
  ASSUME Ref, RefInv, NEW v \in Vec, NEW val \in Value,
         CeedVectorScale(v, val) \/ CeedVectorFilter(v, val) \/ CeedVectorReciprocal(v, val)
  PROVE  Steps
<1>1. CASE Reject("backend") \/ Reject("incomplete") \/ Accept
  BY <1>1, QuietSteps DEF Reject, Accept, implVars
<1>2. CASE UpdateArray(v, val)
  BY <1>2, UpdateSteps
<1> QED
  BY <1>1, <1>2 DEF CeedVectorScale, CeedVectorFilter, CeedVectorReciprocal, Memcheck, Ref

(***************************************************************************)
(* Calls on two and three vectors.                                         *)
(***************************************************************************)
LEMMA AddScaledSteps ==
  ASSUME Ref, RefInv, NEW y \in Vec, NEW x \in Vec, NEW val \in Value, AddScaled(y, x, val)
  PROVE  Steps
<1>1. CASE Reject("unsupported") \/ Reject("backend") \/ Accept
  BY <1>1, QuietSteps DEF Reject, Accept, implVars
<1>2. CASE /\ HasValidArray(y) /\ Free(y) /\ Bump(y, 1)
           /\ UNCHANGED <<num_readers, implVars>>
  BY <1>2, LockSteps DEF RefInv, TypeInv
<1>3. CASE UpdateArray(y, val)
  BY <1>3, UpdateSteps
<1> QED
  BY <1>1, <1>2, <1>3 DEF AddScaled, StrandWrite, Memcheck, Ref

\* The copy leaves the contents of the source in both vectors; both were free.
LEMMA CopyBothSteps ==
  ASSUME Ref, RefInv, NEW v \in Vec, NEW w \in Vec, v # w, Free(v), Free(w),
         IF v \in Empty THEN UNCHANGED implVars
         ELSE /\ array' = [array EXCEPT ![w] = CopyTarget(w)]
              /\ mem' = [Stored(v, Content(v)) EXCEPT ![CopyTarget(w)] = Content(v)],
         state' = [state EXCEPT ![v] = @ + 2, ![w] = @ + 2], UNCHANGED num_readers
  PROVE  Steps
<1>1. TypeOK /\ PointerInv
  BY DEF RefInv, TypeInv
<1>2. /\ state'[v] = state[v] + 2 /\ state'[w] = state[w] + 2
      /\ \A u \in Vec \ {v, w} : state'[u] = state[u]
  BY <1>1 DEF TypeOK
<1>3. Promise!CellStep(v) /\ Promise!CellStep(w)
  BY <1>1, <1>2, StepReplace
<1>4. \A u \in Vec \ {v, w} : array'[u] = array[u]
  BY <1>1 DEF implVars, TypeOK
<1>5. \A l \in Location \ Apart({v, w}) : mem'[l] = mem[l]
  <2>1. CASE v \in Empty
    BY <2>1 DEF implVars
  <2>2. CASE v \notin Empty
    <3>1. CopyTarget(w) \in Apart({v, w})
      BY <1>1, ArraysApart DEF Apart
    <3>2. Targets(v) = {array[v]}
      BY DEF Targets, Memcheck, Ref
    <3>3. \A l \in Location : Stored(v, Content(v))[l] = mem[l]
      BY <3>2 DEF Stored, Content
    <3>4. mem' = [Stored(v, Content(v)) EXCEPT ![CopyTarget(w)] = Content(v)]
      BY <2>2
    <3>5. DOMAIN Stored(v, Content(v)) = Location
      BY DEF Stored
    <3>6. \A l \in Location : l # CopyTarget(w) => mem'[l] = Stored(v, Content(v))[l]
      BY <3>4, <3>5
    <3> QED
      BY <3>1, <3>3, <3>6
  <2> QED
    BY <2>1, <2>2
<1>6. Touched({v, w})
  BY <1>2, <1>4, <1>5 DEF Touched
<1>7. \A u \in Vec \ {v, w} : Promise!CellStep(u)
  BY <1>1, <1>6, OthersKeep
<1> QED
  BY <1>3, <1>7 DEF Steps

LEMMA CopySteps ==
  ASSUME Ref, RefInv, NEW v \in Vec, NEW w \in Vec, v # w, CeedVectorCopy(v, w)
  PROVE  Steps
<1>1. CASE Reject("incompatible") \/ Reject("access") \/ Reject("backend")
  BY <1>1, QuietSteps DEF Reject, implVars
<1>2. CASE Free(v) /\ HasValidArray(v) /\ StrandWrite(v, 1) /\ UNCHANGED implVars
  BY <1>2, LockSteps DEF RefInv, TypeInv, StrandWrite
<1>3. CASE /\ Free(v) /\ Free(w)
           /\ IF v \in Empty THEN UNCHANGED implVars
              ELSE /\ array' = [array EXCEPT ![w] = CopyTarget(w)]
                   /\ mem' = [Stored(v, Content(v)) EXCEPT ![CopyTarget(w)] = Content(v)]
           /\ state' = [state EXCEPT ![v] = @ + 2, ![w] = @ + 2]
           /\ UNCHANGED num_readers
  BY <1>3, CopyBothSteps
<1> QED
  BY <1>1, <1>2, <1>3 DEF CeedVectorCopy

LEMMA CopyStridedSteps ==
  ASSUME Ref, RefInv, NEW v \in Vec, NEW w \in Vec, NEW r \in BOOLEAN, NEW val \in Value,
         CeedVectorCopyStrided(v, w, r, val)
  PROVE  Steps
<1>1. TypeOK /\ PointerInv
  BY DEF RefInv, TypeInv
<1>2. CASE Reject("access") \/ Reject("backend") \/ Accept
  BY <1>2, QuietSteps DEF Reject, Accept, implVars
<1>3. CASE /\ Even(v) /\ HasValidArray(v)
           /\ num_readers' = [num_readers EXCEPT ![v] = @ + 1]
           /\ UNCHANGED <<state, implVars>>
  BY <1>1, <1>3, ReaderSteps DEF implVars
<1>4. CASE /\ Free(w) /\ mem' = Stored(w, val) /\ Bump(w, 2)
           /\ UNCHANGED <<num_readers, array>>
  BY <1>1, <1>4, StoredOnly, ReplaceSteps
<1> QED
  BY <1>2, <1>3, <1>4 DEF CeedVectorCopyStrided, Memcheck, Ref

\* Write access to w is granted, and maybe read access to x, when an access is refused.
LEMMA MultRefusedSteps ==
  ASSUME Ref, RefInv, TypeOK', NEW w \in Vec, NEW x \in Vec, Free(w), HasValidArray(x),
         MultAllocate(w), Bump(w, WriteBump(w) + 1),
         num_readers' = [num_readers EXCEPT ![x] = IF x # w /\ Even(x) THEN @ + 1 ELSE @]
  PROVE  Steps
<1>1. TypeOK /\ PointerInv
  BY DEF RefInv, TypeInv
<1>2. /\ num_readers'[x] = IF x # w /\ Even(x) THEN num_readers[x] + 1 ELSE num_readers[x]
      /\ \A u \in Vec \ {x} : num_readers'[u] = num_readers[u]
  BY <1>1 DEF TypeOK
<1>3. Promise!CellStep(w) /\ OnlyOf(w) /\ WriteBump(w) + 1 \in Nat
  BY <1>1, <1>2, WriteAccessStep DEF MultAllocate
<1>4. \A u \in Vec \ {w} : state'[u] = state[u]
  BY <1>1, <1>3, BumpedOnly
<1>5. ASSUME NEW u \in Vec \ {w}
      PROVE  Visible'[u] = Visible[u]
  <2>1. array'[u] = array[u]
    BY <1>3 DEF OnlyOf
  <2>2. array[u] # NULL => mem'[array[u]] = mem[array[u]]
    BY <1>1, <1>3 DEF OnlyOf, Apart, TypeOK
  <2> QED
    BY <2>1, <2>2, VisibleShown DEF Shown
<1>6. ASSUME NEW u \in Vec \ {w}
      PROVE  Promise!CellStep(u)
  <2>1. CASE u = x /\ Even(x)
    <3>1. Visible[x] # NULL
      BY <1>1, ContentsExist
    <3> QED
      BY <1>2, <1>4, <1>5, <2>1, <3>1, StepBeginRead
  <2>2. CASE ~(u = x /\ Even(x))
    <3>1. num_readers'[u] = num_readers[u]
      BY <1>2, <2>2
    <3> QED
      BY <1>4, <1>5, <3>1, StepSame
  <2> QED
    BY <2>1, <2>2
<1> QED
  BY <1>3, <1>6 DEF Steps

LEMMA PointwiseMultSteps ==
  ASSUME Ref, RefInv, TypeOK', NEW w \in Vec, NEW x \in Vec, NEW y \in Vec, NEW val \in Value,
         CeedVectorPointwiseMult(w, x, y, val)
  PROVE  Steps
<1>1. TypeOK /\ PointerInv
  BY DEF RefInv, TypeInv
<1>2. CASE Reject("unsupported") \/ Reject("backend") \/ Reject("access") \/ Accept
  BY <1>2, QuietSteps DEF Reject, Accept, implVars
<1>3. CASE /\ Free(w) /\ HasValidArray(x) /\ MultAllocate(w) /\ Bump(w, WriteBump(w) + 1)
           /\ num_readers' = [num_readers EXCEPT ![x] = IF x # w /\ Even(x) THEN @ + 1 ELSE @]
  BY <1>3, MultRefusedSteps
<1>4. CASE /\ Free(w)
           /\ IF NeedsArray(w) THEN CopyValues(w, val) ELSE mem' = Stored(w, val) /\ UNCHANGED array
           /\ Bump(w, WriteBump(w) + 2)
           /\ UNCHANGED num_readers
  <2>1. WriteBump(w) + 2 \in {2, 4}
    BY DEF WriteBump
  <2>2. OnlyOf(w)
    BY <1>1, <1>4, CopiedOnly, StoredOnly
  <2> QED
    BY <1>1, <1>4, <2>1, <2>2, ReplaceSteps
<1> QED
  BY <1>2, <1>3, <1>4 DEF CeedVectorPointwiseMult, Memcheck, Ref

(***************************************************************************)
(* The refinement.                                                         *)
(***************************************************************************)
LEMMA OneVectorSteps ==
  ASSUME Ref, RefInv, TypeOK', NEW v \in Vec, CallOnOne(v)
  PROVE  Steps
<1>1. CASE CeedVectorReferenceCopy(v)
  BY <1>1, CreateSteps
<1>2. CASE CeedVectorDestroy(v)
  BY <1>2, DestroySteps DEF CeedVectorDestroy
<1>3. CASE \/ \E source \in Value \cup {NULL} : CeedVectorSetArrayCopy(v, source)
           \/ \E m \in {"own", "use"}, a \in Array, val \in Value : CeedVectorSetArrayPointer(v, m, a, val)
  BY <1>3, SetArraySteps
<1>4. CASE CeedVectorTakeArray(v)
  BY <1>4, TakeArraySteps
<1>5. CASE Access(v)
  BY <1>5, GetArraySteps, GetArrayWriteSteps, GetArrayReadSteps DEF Access
<1>6. CASE CeedVectorRestoreArray(v) \/ CeedVectorRestoreArrayRead(v)
  BY <1>6, RestoreArraySteps, RestoreArrayReadSteps
<1>7. CASE ReadWhole(v) \/ CeedVectorNorm(v) \/ CeedVectorSyncArray(v)
  BY <1>7, ReadWholeSteps
<1>8. ASSUME NEW val \in Value,
             \/ WriteThrough(v, val)
             \/ CeedVectorSetValue(v, val)
             \/ \E in_range \in BOOLEAN : CeedVectorSetValueStrided(v, in_range, val)
             \/ CeedVectorScale(v, val) \/ CeedVectorFilter(v, val) \/ CeedVectorReciprocal(v, val)
      PROVE  Steps
  BY <1>8, WriteThroughSteps, SetValueSteps, ArithmeticSteps
<1> QED
  BY <1>1, <1>2, <1>3, <1>4, <1>5, <1>6, <1>7, <1>8 DEF CallOnOne

LEMMA NextSteps ==
  ASSUME Ref, RefInv, TypeOK', Next
  PROVE  Steps
<1>1. ASSUME NEW v \in Vec, CeedVectorCreate(v)
      PROVE  Steps
  BY <1>1, CreateSteps
<1>2. ASSUME NEW v \in Live, CallOnOne(v)
      PROVE  Steps
  BY <1>2, OneVectorSteps DEF Live
<1>3. ASSUME NEW v \in Live, NEW w \in Live, CallOnTwo(v, w)
      PROVE  Steps
  <2>1. v \in Vec /\ w \in Vec
    BY DEF Live
  <2>0. CASE CeedVectorReferenceCopyOver(v, w)
    BY <2>0, <2>1, DestroySteps DEF CeedVectorReferenceCopyOver
  <2>2. CASE v # w /\ CeedVectorCopy(v, w)
    BY <2>1, <2>2, CopySteps
  <2>3. ASSUME NEW val \in Value, CeedVectorAXPY(v, w, val) \/ CeedVectorAXPBY(v, w, val)
        PROVE  Steps
    BY <2>1, <2>3, AddScaledSteps DEF CeedVectorAXPY, CeedVectorAXPBY
  <2>4. ASSUME NEW val \in Value, NEW r \in BOOLEAN, CeedVectorCopyStrided(v, w, r, val)
        PROVE  Steps
    BY <2>1, <2>4, CopyStridedSteps
  <2> QED
    BY <1>3, <2>0, <2>2, <2>3, <2>4 DEF CallOnTwo
<1>4. ASSUME NEW w \in Live, NEW x \in Live, NEW y \in Live, NEW val \in Value,
             CeedVectorPointwiseMult(w, x, y, val)
      PROVE  Steps
  BY <1>4, PointwiseMultSteps DEF Live
<1> QED
  BY <1>1, <1>2, <1>3, <1>4 DEF Next

\* A cell that is locked has contents, and keeps some: the array of a locked vector is there.
LEMMA LockedStep ==
  ASSUME TypeOK, TypeOK', LockedHasArray, Steps
  PROVE  LockedHasArray'
<1> SUFFICES ASSUME NEW v \in Vec, ~Even(v)'
             PROVE  HasValidArray(v)'
  BY DEF LockedHasArray
<1>1. Promise!CellStep(v)
  BY DEF Steps
<1>2. ~Even(v) => Visible[v] # NULL
  BY ContentsExist DEF LockedHasArray
<1>3. Visible'[v] # NULL
  BY <1>1, <1>2 DEF Promise!CellStep, Promise!Same, Promise!BeginRead, Promise!EndRead, Promise!BeginWrite,
     Promise!Store, Promise!EndWrite, Promise!Replace, Promise!Discard
<1>4. array'[v] \in Location \cup {NULL} /\ mem' \in [Location -> Contents]
  BY DEF TypeOK
<1>5. Visible'[v] = Shown(v, array'[v], mem')
  BY VisibleShown
<1>6. v \in Empty \/ array'[v] # NULL
  BY <1>3, <1>4, <1>5, ShownExists
<1> QED
  BY <1>6 DEF HasValidArray

LEMMA RefInvStep ==
  ASSUME Ref, RefInv, [Next]_vars
  PROVE  RefInv' /\ Steps
<1>1. TypeInv'
  BY TypeInvStep DEF RefInv
<1>2. CASE Next
  <2>1. PointerInv'
    BY <1>2, PointersStep DEF RefInv, TypeInv
  <2>2. Steps
    BY <1>1, <1>2, NextSteps DEF TypeInv
  <2>3. LockedHasArray'
    BY <1>1, <2>2, LockedStep DEF RefInv, TypeInv
  <2> QED
    BY <1>1, <2>1, <2>2, <2>3 DEF RefInv
<1>3. CASE UNCHANGED vars
  <2>1. UNCHANGED <<lockVars, array, mem>> /\ UNCHANGED pointerVars
    BY <1>3 DEF vars, implVars, pointerVars
  <2>2. Steps
    BY <2>1, QuietSteps
  <2>3. PointerInv'
    BY <2>1, PointersSame DEF RefInv
  <2>4. LockedHasArray'
    BY <1>1, <2>2, LockedStep DEF RefInv, TypeInv
  <2> QED
    BY <1>1, <2>2, <2>3, <2>4 DEF RefInv
<1> QED
  BY <1>2, <1>3

LEMMA RefInvInit == Init => RefInv
<1>1. Init => LockedHasArray
  BY DEF Init, LockedHasArray, Even
<1> QED
  BY <1>1, TypeInvInit, PointerInvInit DEF RefInv

LEMMA PromiseInit == Init => Promise!CellInit
<1> SUFFICES ASSUME Init
             PROVE  Promise!CellInit
  OBVIOUS
<1>1. TypeOK
  BY TypeInvInit DEF TypeInv
<1>2. [v \in Vec |-> ~Even(v)] = [v \in Vec |-> FALSE]
  <2>1. \A v \in Vec : Even(v)
    BY DEF Init, Even
  <2> HIDE DEF Even
  <2> QED
    BY <2>1, Zenon
<1>3. [v \in Vec |-> state[v] \div 2] = [v \in Vec |-> 0]
  BY DEF Init
<1>4. num_readers = [v \in Vec |-> 0]
  BY DEF Init
<1>5. Visible \in [Vec -> Contents \cup {NULL}]
  BY <1>1 DEF Visible, TypeOK, Contents
<1> QED
  BY <1>2, <1>3, <1>4, <1>5 DEF Promise!CellInit

\* While a caller holds write access to a vector of the ref backend there is an array behind the
\* pointer: nothing frees, takes or replaces it before the access is given back.
THEOREM LockedHasArrayCorrect == ASSUME Backend = "ref" PROVE Spec => []LockedHasArray
<1>1. RefInv /\ [Next]_vars => RefInv'
  BY RefInvStep DEF Ref
<1> QED
  BY <1>1, RefInvInit, PTL DEF Spec, RefInv

\* Through every call of the interface the ref backend keeps the promise of ArrayAccess to the
\* users of a vector: one writer or many readers, contents that stand still while they are read,
\* and no new contents under an old state.
THEOREM KeepsPromiseCorrect == ASSUME Backend = "ref" PROVE Spec => KeepsPromise
<1>1. RefInv /\ [Next]_vars => RefInv' /\ [Promise!CellNext]_Promise!cellVars
  BY RefInvStep DEF Ref, Steps, Promise!CellNext
<1> QED
  BY <1>1, RefInvInit, PromiseInit, PTL DEF Spec, KeepsPromise, Promise!CellSpec

(***************************************************************************)
(* What no call does, on either backend: the action properties.            *)
(***************************************************************************)
LEMMA BackendIs == Ref \/ Memcheck
BY VecAssumption DEF Ref, Memcheck

LEMMA TakenHasContents ==
  ASSUME TypeOK, PointerInv, NEW v \in Vec, CeedVectorTakeArray(v), borrowed'[v] # borrowed[v]
  PROVE  mem'[borrowed[v]] = Content(v)
<1>1. /\ v \notin Empty /\ HasBorrowedArray(v) /\ HasValidArray(v)
      /\ mem' = IF Memcheck THEN Stored(v, Content(v)) ELSE mem
  BY DEF CeedVectorTakeArray, Reject, Accept, implVars
<1>2. borrowed[v] \in Array /\ borrowed[v] # NULL /\ array[v] # NULL
  BY <1>1 DEF HasBorrowedArray, HasValidArray, TypeOK
<1>3. CASE Memcheck
  <2>1. borrowed[v] \in Location /\ borrowed[v] \in Targets(v)
    BY <1>2, <1>3 DEF Targets, Location
  <2> QED
    BY <1>1, <1>3, <2>1 DEF Stored
<1>4. CASE ~Memcheck
  <2>1. array[v] = borrowed[v]
    BY <1>2, <1>4 DEF PointerInv, PointersAgree
  <2> QED
    BY <1>1, <1>4, <2>1 DEF Content
<1> QED
  BY <1>3, <1>4

\* A caller that takes its array back finds the contents of the vector in it.
THEOREM TakenArrayHasContentsCorrect == Spec => TakenArrayHasContents
<1>1. TypeOK /\ PointerInv /\ [Next]_vars
        => [\A v \in Vec : CeedVectorTakeArray(v) /\ borrowed'[v] # borrowed[v]
              => mem'[borrowed[v]] = Content(v)]_vars
  BY TakenHasContents
<1> QED
  BY <1>1, TypeCorrect, PointerInvariant, PTL DEF Spec, TakenArrayHasContents

(***************************************************************************)
(* Nonterminal errors.                                                     *)
(***************************************************************************)
\* A call that returns one stores nothing, unless it is the multiplication that gave its result an
\* array before another access was refused.
LEMMA NonterminalOnOne ==
  ASSUME NEW v \in Vec, CallOnOne(v), err' \in Nonterminal
  PROVE  UNCHANGED <<array, mem>>
<1> USE DEF Nonterminal, Reject, Accept, implVars
<1>1. CASE CeedVectorReferenceCopy(v) \/ CeedVectorDestroy(v) \/ CeedVectorTakeArray(v)
  BY <1>1, DestroyKeeps DEF CeedVectorReferenceCopy, CeedVectorDestroy, CeedVectorTakeArray
<1>2. ASSUME NEW source, CeedVectorSetArrayCopy(v, source)
      PROVE  UNCHANGED <<array, mem>>
  BY <1>2 DEF CeedVectorSetArrayCopy
<1>3. ASSUME NEW m, NEW a, NEW val, CeedVectorSetArrayPointer(v, m, a, val)
      PROVE  UNCHANGED <<array, mem>>
  BY <1>3 DEF CeedVectorSetArrayPointer
<1>4. CASE Access(v)
  BY <1>4 DEF Access, CeedVectorGetArray, CeedVectorGetArrayWrite, CeedVectorGetArrayRead
<1>5. CASE CeedVectorRestoreArray(v) \/ CeedVectorRestoreArrayRead(v)
  BY <1>5 DEF CeedVectorRestoreArray, CeedVectorRestoreArrayRead
<1>6. CASE ReadWhole(v) \/ CeedVectorNorm(v) \/ CeedVectorSyncArray(v)
  BY <1>6 DEF ReadWhole, CeedVectorNorm, CeedVectorSyncArray
<1>7. ASSUME NEW val \in Value, WriteThrough(v, val) \/ CeedVectorSetValue(v, val)
      PROVE  UNCHANGED <<array, mem>>
  BY <1>7 DEF WriteThrough, CeedVectorSetValue
<1>8. ASSUME NEW val \in Value, NEW r \in BOOLEAN, CeedVectorSetValueStrided(v, r, val)
      PROVE  UNCHANGED <<array, mem>>
  BY <1>8 DEF CeedVectorSetValueStrided
<1>9. ASSUME NEW val \in Value,
             CeedVectorScale(v, val) \/ CeedVectorFilter(v, val) \/ CeedVectorReciprocal(v, val)
      PROVE  UNCHANGED <<array, mem>>
  BY <1>9 DEF CeedVectorScale, CeedVectorFilter, CeedVectorReciprocal, UpdateArray, UpdateBuffer
<1> QED
  BY <1>1, <1>2, <1>3, <1>4, <1>5, <1>6, <1>7, <1>8, <1>9 DEF CallOnOne

LEMMA NonterminalOnTwo ==
  ASSUME NEW v \in Vec, NEW w \in Vec, CallOnTwo(v, w), err' \in Nonterminal
  PROVE  UNCHANGED <<array, mem>>
<1> USE DEF Nonterminal, Reject, Accept, implVars
<1>0. CASE CeedVectorReferenceCopyOver(v, w)
  BY <1>0, DestroyKeeps DEF CeedVectorReferenceCopyOver
<1>1. CASE CeedVectorCopy(v, w)
  BY <1>1 DEF CeedVectorCopy
<1>2. ASSUME NEW val \in Value, AddScaled(v, w, val)
      PROVE  UNCHANGED <<array, mem>>
  BY <1>2 DEF AddScaled, UpdateArray, UpdateBuffer
<1>3. ASSUME NEW val \in Value, NEW r \in BOOLEAN, CeedVectorCopyStrided(v, w, r, val)
      PROVE  UNCHANGED <<array, mem>>
  BY <1>3 DEF CeedVectorCopyStrided
<1> QED
  BY <1>0, <1>1, <1>2, <1>3 DEF CallOnTwo, CeedVectorAXPY, CeedVectorAXPBY

LEMMA NonterminalKeeps ==
  ASSUME TypeOK, PointerInv, Next, err' \in Nonterminal, NEW u \in Vec, Visible[u] # NULL
  PROVE  Visible'[u] = Visible[u]
<1>1. ASSUME UNCHANGED <<array, mem>>
      PROVE  Visible'[u] = Visible[u]
  BY <1>1 DEF Visible
<1>2. ASSUME NEW v \in Vec, CeedVectorCreate(v)
      PROVE  UNCHANGED <<array, mem>>
  BY <1>2 DEF CeedVectorCreate, implVars
<1>3. ASSUME NEW v \in Live, CallOnOne(v)
      PROVE  UNCHANGED <<array, mem>>
  BY <1>3, NonterminalOnOne DEF Live
<1>4. ASSUME NEW v \in Live, NEW w \in Live, CallOnTwo(v, w)
      PROVE  UNCHANGED <<array, mem>>
  BY <1>4, NonterminalOnTwo DEF Live
<1>5. ASSUME NEW w \in Vec, ~Memcheck, NeedsArray(w), CopyValues(w, NULL)
      PROVE  Visible'[u] = Visible[u]
  <2>1. Visible[w] = NULL
    BY <1>5, VisibleShown DEF NeedsArray, Shown
  <2>2. OnlyOf(w)
    BY <1>5, BackendIs, CopiedOnly
  <2>3. u # w /\ array'[u] = array[u]
    BY <2>1, <2>2 DEF OnlyOf
  <2>4. array[u] # NULL => mem'[array[u]] = mem[array[u]]
    BY <2>2, <2>3 DEF OnlyOf, Apart, TypeOK
  <2> QED
    BY <2>3, <2>4, VisibleShown DEF Shown
<1>6. ASSUME NEW w \in Vec, NEW x \in Vec, NEW y \in Vec, NEW val \in Value,
             CeedVectorPointwiseMult(w, x, y, val)
      PROVE  Visible'[u] = Visible[u]
  <2>1. CASE Reject("unsupported") \/ Reject("backend") \/ Reject("access") \/ Accept
    BY <1>1, <2>1 DEF Reject, Accept, implVars
  <2>2. CASE ~Memcheck /\ MultAllocate(w)
    BY <1>1, <1>5, <1>6, <2>2 DEF MultAllocate, implVars
  <2> QED
    BY <1>6, <2>1, <2>2 DEF CeedVectorPointwiseMult, UpdateBuffer, Nonterminal
<1> QED
  BY <1>1, <1>2, <1>3, <1>4, <1>5, <1>6 DEF Next, Live

\* A nonterminal error is no excuse for lost contents, not even of another vector.
THEOREM NonterminalErrorKeepsContentsCorrect == Spec => NonterminalErrorKeepsContents
<1>1. TypeOK /\ PointerInv /\ [Next]_vars
        => [err' \in Nonterminal => \A v \in Vec : Visible[v] # NULL => Visible'[v] = Visible[v]]_vars
  BY NonterminalKeeps
<1> QED
  BY <1>1, TypeCorrect, PointerInvariant, PTL DEF Spec, NonterminalErrorKeepsContents

(***************************************************************************)
(* memcheck's copy for the readers.                                        *)
(***************************************************************************)
\* The copy of v changes only when its first reader comes, its last one goes, or it has none.
CopyHandled(v) ==
  \E c : read_only_copy' = [read_only_copy EXCEPT ![v] = c] /\ (num_readers[v] > 0 => c = ReadCopy(v))
CopyReleased(v) ==
  /\ num_readers' = [num_readers EXCEPT ![v] = 0]
  /\ \E c : read_only_copy' = [read_only_copy EXCEPT ![v] = c]

CopyStep == UNCHANGED read_only_copy \/ \E v \in Vec : CopyHandled(v) \/ CopyReleased(v)

LEMMA CopyOnOne ==
  ASSUME TypeOK, NEW v \in Vec, CallOnOne(v)
  PROVE  CopyStep
<1> USE DEF CopyStep, Reject, Accept, copyVars
<1>1. CASE CeedVectorReferenceCopy(v) \/ CeedVectorDestroy(v) \/ CeedVectorTakeArray(v)
  BY <1>1, DestroyKeeps DEF CeedVectorReferenceCopy, CeedVectorDestroy, CeedVectorTakeArray
<1>2. ASSUME NEW source, CeedVectorSetArrayCopy(v, source)
      PROVE  CopyStep
  BY <1>2 DEF CeedVectorSetArrayCopy
<1>3. ASSUME NEW m, NEW a, NEW val, CeedVectorSetArrayPointer(v, m, a, val)
      PROVE  CopyStep
  BY <1>3 DEF CeedVectorSetArrayPointer
<1>4. CASE CeedVectorGetArray(v) \/ CeedVectorGetArrayWrite(v) \/ CeedVectorRestoreArray(v)
  BY <1>4 DEF CeedVectorGetArray, CeedVectorGetArrayWrite, CeedVectorRestoreArray
<1>5. CASE CeedVectorGetArrayRead(v)
  BY <1>5 DEF CeedVectorGetArrayRead, CopyHandled
<1>6. CASE CeedVectorRestoreArrayRead(v)
  <2>1. num_readers[v] \in Nat
    BY DEF TypeOK
  <2>2. CASE num_readers[v] = 1
    <3>1. CASE read_only_copy' = [read_only_copy EXCEPT ![v] = NULL]
      <4>1. num_readers' = [num_readers EXCEPT ![v] = num_readers[v] - 1] /\ num_readers[v] - 1 = 0
        BY <1>6, <2>2, <3>1 DEF CeedVectorRestoreArrayRead
      <4>2. num_readers' = [num_readers EXCEPT ![v] = 0]
        BY <4>1
      <4> QED
        BY <3>1, <4>2, Zenon DEF CopyReleased
    <3> QED
      BY <1>6, <2>2, <3>1 DEF CeedVectorRestoreArrayRead
  <2>3. CASE num_readers[v] # 1
    BY <1>6, <2>1, <2>3 DEF CeedVectorRestoreArrayRead
  <2> QED
    BY <2>2, <2>3
<1>7. CASE ReadWhole(v)
  <2>1. CASE num_readers[v] = 0 /\ read_only_copy' = [read_only_copy EXCEPT ![v] = NULL]
    <3>1. ~(num_readers[v] > 0)
      BY <2>1
    <3> QED
      BY <2>1, <3>1, Zenon DEF CopyHandled
  <2> QED
    BY <1>7, <2>1 DEF ReadWhole, lockVars
<1>8. CASE CeedVectorNorm(v) \/ CeedVectorSyncArray(v)
  BY <1>7, <1>8 DEF CeedVectorNorm, CeedVectorSyncArray
<1>9. ASSUME NEW val \in Value, WriteThrough(v, val) \/ CeedVectorSetValue(v, val)
      PROVE  CopyStep
  BY <1>9 DEF WriteThrough, CeedVectorSetValue
<1>10. ASSUME NEW val \in Value, NEW r \in BOOLEAN, CeedVectorSetValueStrided(v, r, val)
       PROVE  CopyStep
  BY <1>10 DEF CeedVectorSetValueStrided
<1>11. ASSUME NEW val \in Value,
              CeedVectorScale(v, val) \/ CeedVectorFilter(v, val) \/ CeedVectorReciprocal(v, val)
       PROVE  CopyStep
  BY <1>11 DEF CeedVectorScale, CeedVectorFilter, CeedVectorReciprocal, UpdateArray, UpdateBuffer
<1> QED
  BY <1>1, <1>2, <1>3, <1>4, <1>5, <1>6, <1>7, <1>8, <1>9, <1>10, <1>11 DEF CallOnOne, Access

LEMMA CopyOnTwo ==
  ASSUME NEW v \in Vec, NEW w \in Vec, CallOnTwo(v, w)
  PROVE  CopyStep
<1> USE DEF CopyStep, Reject, Accept, copyVars
<1>0. CASE CeedVectorReferenceCopyOver(v, w)
  BY <1>0, DestroyKeeps DEF CeedVectorReferenceCopyOver
<1>1. CASE CeedVectorCopy(v, w)
  BY <1>1 DEF CeedVectorCopy
<1>2. ASSUME NEW val \in Value, AddScaled(v, w, val)
      PROVE  CopyStep
  BY <1>2 DEF AddScaled, UpdateArray, UpdateBuffer
<1>3. ASSUME NEW val \in Value, NEW r \in BOOLEAN, CeedVectorCopyStrided(v, w, r, val)
      PROVE  CopyStep
  <2>1. CASE /\ read_only_copy' = [read_only_copy EXCEPT ![v] = ReadCopy(v)]
             /\ num_readers' = [num_readers EXCEPT ![v] = @ + 1]
    BY <2>1 DEF CopyHandled
  <2>2. CASE num_readers[v] = 0 /\ read_only_copy' = [read_only_copy EXCEPT ![v] = NULL]
    <3>1. ~(num_readers[v] > 0)
      BY <2>2
    <3> QED
      BY <2>2, <3>1, Zenon DEF CopyHandled
  <2> QED
    BY <1>3, <2>1, <2>2 DEF CeedVectorCopyStrided
<1> QED
  BY <1>0, <1>1, <1>2, <1>3 DEF CallOnTwo, CeedVectorAXPY, CeedVectorAXPBY

LEMMA CopyNext ==
  ASSUME TypeOK, Next
  PROVE  CopyStep
<1>1. ASSUME NEW v \in Vec, CeedVectorCreate(v)
      PROVE  CopyStep
  BY <1>1 DEF CeedVectorCreate, CopyStep, copyVars
<1>2. ASSUME NEW w \in Vec, NEW x \in Vec, NEW y \in Vec, NEW val \in Value,
             CeedVectorPointwiseMult(w, x, y, val)
      PROVE  CopyStep
  BY <1>2 DEF CeedVectorPointwiseMult, UpdateBuffer, Reject, Accept, CopyStep, copyVars
<1> QED
  BY <1>1, <1>2, CopyOnOne, CopyOnTwo DEF Next, Live

LEMMA CopyStays ==
  ASSUME TypeInv, CopyStep, NEW u \in Vec \ Empty, Memcheck, num_readers[u] > 0, num_readers'[u] > 0
  PROVE  read_only_copy'[u] = read_only_copy[u]
<1>1. TypeOK /\ read_only_copy[u] # NULL
  BY DEF TypeInv, CopiesFollowAccess
<1>2. ASSUME NEW v \in Vec, CopyHandled(v)
      PROVE  read_only_copy'[u] = read_only_copy[u]
  BY <1>1, <1>2 DEF CopyHandled, ReadCopy, TypeOK
<1>3. ASSUME NEW v \in Vec, CopyReleased(v)
      PROVE  read_only_copy'[u] = read_only_copy[u]
  BY <1>1, <1>3 DEF CopyReleased, TypeOK
<1> QED
  BY <1>2, <1>3 DEF CopyStep

\* Whoever comes and goes, a reader of memcheck's vector keeps the copy it was given.
THEOREM ReadersKeepTheirCopyCorrect == Spec => ReadersKeepTheirCopy
<1>1. TypeInv /\ [Next]_vars
        => [\A v \in Vec \ Empty :
              Memcheck /\ num_readers[v] > 0 /\ num_readers'[v] > 0
                => read_only_copy'[v] = read_only_copy[v]]_vars
  BY CopyNext, CopyStays DEF TypeInv
<1> QED
  BY <1>1, TypeInvariant, PTL DEF Spec, ReadersKeepTheirCopy

(***************************************************************************)
(* Stranded accesses.                                                      *)
(***************************************************************************)
\* What excuses a call that leaves u held.
Excused(u) ==
  \/ err' = "access" /\ \E t \in Vec \ {u} : ~Free(t)
  \/ err' \notin Nonterminal \cup {"success"}

\* No vector becomes held without an excuse.
NoneStranded == \A u \in Vec : Free(u) /\ ~Free(u)' => Excused(u)

LEMMA SameLocks ==
  ASSUME UNCHANGED lockVars
  PROVE  NoneStranded
BY DEF lockVars, NoneStranded, Free, Even

LEMMA EvenBump ==
  ASSUME TypeOK, NEW v \in Vec, NEW n \in {2, 4}, Bump(v, n), UNCHANGED num_readers
  PROVE  NoneStranded
<1>1. \A u \in Vec : Even(u)' <=> Even(u)
  BY BumpParity
<1> QED
  BY <1>1 DEF NoneStranded, Free

LEMMA OddBump ==
  ASSUME TypeOK, NEW v \in Vec, NEW n \in {1, 3}, Bump(v, n), UNCHANGED num_readers,
         Free(v) => Excused(v)
  PROVE  NoneStranded
<1>1. \A u \in Vec \ {v} : Even(u)' <=> Even(u)
  BY BumpParity
<1> QED
  BY <1>1 DEF NoneStranded, Free

LEMMA LocksOnOne ==
  ASSUME TypeOK, NEW v \in Vec, CallOnOne(v)
  PROVE  Access(v) \/ NoneStranded
<1> USE DEF Reject, Accept
<1>1. CASE CeedVectorReferenceCopy(v) \/ CeedVectorDestroy(v) \/ CeedVectorTakeArray(v)
  BY <1>1, SameLocks, DestroyKeeps DEF CeedVectorReferenceCopy, CeedVectorDestroy, CeedVectorTakeArray
<1>2. ASSUME NEW source, CeedVectorSetArrayCopy(v, source)
      PROVE  NoneStranded
  BY <1>2, SameLocks, EvenBump DEF CeedVectorSetArrayCopy
<1>3. ASSUME NEW m, NEW a, NEW val, CeedVectorSetArrayPointer(v, m, a, val)
      PROVE  NoneStranded
  BY <1>3, SameLocks, EvenBump DEF CeedVectorSetArrayPointer
<1>4. CASE CeedVectorRestoreArray(v)
  BY <1>4, SameLocks, OddBump DEF CeedVectorRestoreArray, Free
<1>5. CASE CeedVectorRestoreArrayRead(v)
  <2>1. CASE /\ num_readers[v] > 0 /\ UNCHANGED state
             /\ num_readers' = [num_readers EXCEPT ![v] = @ - 1]
    BY <2>1 DEF NoneStranded, Free, Even, TypeOK
  <2> QED
    BY <1>5, <2>1, SameLocks DEF CeedVectorRestoreArrayRead
<1>6. CASE ReadWhole(v) \/ CeedVectorNorm(v) \/ CeedVectorSyncArray(v)
  BY <1>6, SameLocks DEF ReadWhole, CeedVectorNorm, CeedVectorSyncArray
<1>7. ASSUME NEW val \in Value, WriteThrough(v, val)
      PROVE  NoneStranded
  BY <1>7, SameLocks DEF WriteThrough
<1>8. ASSUME NEW val \in Value, CeedVectorSetValue(v, val)
      PROVE  NoneStranded
  <2>1. WriteBump(v) + 2 \in {2, 4}
    BY DEF WriteBump
  <2> QED
    BY <1>8, <2>1, SameLocks, EvenBump DEF CeedVectorSetValue
<1>9. ASSUME NEW val \in Value, NEW r \in BOOLEAN, CeedVectorSetValueStrided(v, r, val)
      PROVE  NoneStranded
  BY <1>9, SameLocks, EvenBump DEF CeedVectorSetValueStrided
<1>10. ASSUME NEW val \in Value,
              CeedVectorScale(v, val) \/ CeedVectorFilter(v, val) \/ CeedVectorReciprocal(v, val)
       PROVE  NoneStranded
  BY <1>10, SameLocks, EvenBump DEF CeedVectorScale, CeedVectorFilter, CeedVectorReciprocal, UpdateArray,
     UpdateBuffer
<1> QED
  BY <1>1, <1>2, <1>3, <1>4, <1>5, <1>6, <1>7, <1>8, <1>9, <1>10 DEF CallOnOne

LEMMA LocksOnTwo ==
  ASSUME TypeOK, NEW v \in Vec, NEW w \in Vec, CallOnTwo(v, w)
  PROVE  NoneStranded
<1> USE DEF Reject, Accept
<1>0. CASE CeedVectorReferenceCopyOver(v, w)
  BY <1>0, DestroyKeeps, SameLocks DEF CeedVectorReferenceCopyOver
<1>1. CASE v # w /\ CeedVectorCopy(v, w)
  <2>1. CASE ~Free(w) /\ Bump(v, 1) /\ err' = "access" /\ UNCHANGED num_readers
    BY <1>1, <2>1, OddBump DEF Excused
  <2>2. CASE state' = [state EXCEPT ![v] = @ + 2, ![w] = @ + 2] /\ UNCHANGED num_readers
    <3>1. ASSUME NEW u \in Vec
          PROVE  Even(u)' <=> Even(u)
      <4>1. state'[u] \in {state[u] + 0, state[u] + 2} /\ state[u] \in Nat
        BY <1>1, <2>2 DEF TypeOK
      <4> QED
        BY <4>1, AddEven DEF Even
    <3> QED
      BY <2>2, <3>1 DEF NoneStranded, Free
  <2> QED
    BY <1>1, <2>1, <2>2, SameLocks DEF CeedVectorCopy, StrandWrite
<1>2. ASSUME NEW val \in Value, AddScaled(v, w, val)
      PROVE  NoneStranded
  <2>1. CASE v # w /\ ~Even(w) /\ StrandWrite(v, 1)
    BY <2>1, OddBump DEF Excused, StrandWrite, Free
  <2> QED
    BY <1>2, <2>1, SameLocks, EvenBump DEF AddScaled, UpdateArray, UpdateBuffer
<1>3. ASSUME NEW val \in Value, NEW r \in BOOLEAN, v # w, CeedVectorCopyStrided(v, w, r, val)
      PROVE  NoneStranded
  <2>1. CASE /\ num_readers' = [num_readers EXCEPT ![v] = @ + 1] /\ UNCHANGED state
             /\ err' = IF Free(w) THEN "backend" ELSE "access"
    <3>1. Excused(v)
      BY <1>3, <2>1 DEF Excused, Nonterminal
    <3>2. \A u \in Vec \ {v} : num_readers'[u] = num_readers[u]
      BY <2>1 DEF TypeOK
    <3> QED
      BY <2>1, <3>1, <3>2 DEF NoneStranded, Free, Even
  <2>2. CASE Bump(w, 1) /\ err' = "backend" /\ UNCHANGED num_readers
    BY <2>2, OddBump DEF Excused, Nonterminal
  <2> QED
    BY <1>3, <2>1, <2>2, SameLocks, EvenBump DEF CeedVectorCopyStrided
<1> QED
  BY <1>0, <1>1, <1>2, <1>3 DEF CallOnTwo, CeedVectorAXPY, CeedVectorAXPBY

LEMMA LocksOnThree ==
  ASSUME TypeOK, NEW w \in Vec, NEW x \in Vec, NEW y \in Vec, NEW val \in Value,
         CeedVectorPointwiseMult(w, x, y, val)
  PROVE  NoneStranded
<1>1. WriteBump(w) + 1 \in {1, 3} /\ WriteBump(w) + 2 \in {2, 4}
  BY DEF WriteBump
<1>2. CASE UNCHANGED lockVars
  BY <1>2, SameLocks
<1>3. CASE Bump(w, WriteBump(w) + 2) /\ UNCHANGED num_readers
  BY <1>1, <1>3, EvenBump
<1>4. CASE /\ Bump(w, WriteBump(w) + 1) /\ MultRefused(w, x, y) /\ err' = "access"
           /\ num_readers' = [num_readers EXCEPT ![x] = IF x # w /\ Even(x) THEN @ + 1 ELSE @]
  <2>1. PICK t \in {x, y} \ {w} : ~Even(t)
    BY <1>4 DEF MultRefused
  <2>2. ~Free(t)
    BY <2>1 DEF Free
  <2>3. \A u \in Vec \ {w} : Even(u)' <=> Even(u)
    BY <1>1, <1>4, BumpParity
  <2>4. ASSUME NEW u \in Vec, Free(u), ~Free(u)'
        PROVE  u # t
    BY <2>2, <2>4
  <2> QED
    BY <1>4, <2>1, <2>2, <2>4 DEF NoneStranded, Excused
<1> QED
  BY <1>2, <1>3, <1>4 DEF CeedVectorPointwiseMult, UpdateBuffer, Reject, Accept, lockVars

LEMMA LocksNext ==
  ASSUME TypeOK, Next, NEW u \in Vec, Free(u), ~Free(u)'
  PROVE  Access(u) \/ Excused(u)
<1>1. ASSUME NoneStranded
      PROVE  Access(u) \/ Excused(u)
  BY <1>1 DEF NoneStranded
<1>2. ASSUME NEW v \in Vec, Access(v)
      PROVE  Access(u) \/ Excused(u)
  <2>1. CASE u = v
    BY <1>2, <2>1
  <2>2. CASE u # v
    <3>1. CASE UNCHANGED lockVars
      BY <1>1, <3>1, SameLocks
    <3>2. CASE \E n \in {1, 3} : Bump(v, n) /\ UNCHANGED num_readers
      <4>1. Even(u)' <=> Even(u)
        BY <2>2, <3>2, BumpParity
      <4> QED
        BY <3>2, <4>1 DEF Free
    <3>3. CASE num_readers' = [num_readers EXCEPT ![v] = @ + 1] /\ UNCHANGED state
      BY <2>2, <3>3 DEF Free, Even, TypeOK
    <3>4. WriteBump(v) + 1 \in {1, 3}
      BY DEF WriteBump
    <3> QED
      BY <1>2, <3>1, <3>2, <3>3, <3>4 DEF Access, CeedVectorGetArray, CeedVectorGetArrayWrite,
         CeedVectorGetArrayRead, Reject
  <2> QED
    BY <2>1, <2>2
<1>3. ASSUME NEW v \in Vec, CeedVectorCreate(v)
      PROVE  NoneStranded
  BY <1>3, SameLocks DEF CeedVectorCreate
<1> QED
  BY <1>1, <1>2, <1>3, LocksOnOne, LocksOnTwo, LocksOnThree DEF Next, Live

\* Only a call that runs into somebody's access on another vector, or fails for good, leaves an
\* access behind that nobody can give back.
THEOREM StrandsOnlyOnContentionCorrect == Spec => StrandsOnlyOnContention
<1>1. TypeOK /\ [Next]_vars
        => [\A v \in Vec : Free(v) /\ ~Free(v)' =>
              Access(v) \/ (err' = "access" /\ \E u \in Vec \ {v} : ~Free(u))
                \/ err' \notin Nonterminal \cup {"success"}]_vars
  BY LocksNext DEF Excused
<1> QED
  BY <1>1, TypeCorrect, PTL DEF Spec, StrandsOnlyOnContention

(***************************************************************************)
(* Writers exclude readers.                                                *)
(***************************************************************************)
\* A vector with write access granted has no readers.
Excluded == \A u \in Vec : Even(u) \/ num_readers[u] = 0

LEMMA ExcludedSame ==
  ASSUME Excluded, UNCHANGED lockVars
  PROVE  Excluded'
BY DEF Excluded, lockVars, Even

\* State moves while nobody reads.
LEMMA ExcludedBump ==
  ASSUME TypeOK, Excluded, NEW v \in Vec, NEW n \in Nat, Bump(v, n), UNCHANGED num_readers,
         Free(v) \/ ~Even(v)
  PROVE  Excluded'
<1>1. num_readers[v] = 0
  BY DEF Excluded, Free
<1>2. \A u \in Vec \ {v} : Even(u)' <=> Even(u)
  BY BumpParity
<1> QED
  BY <1>1, <1>2 DEF Excluded

\* Readers come and go while nobody writes.
LEMMA ExcludedReader ==
  ASSUME TypeOK, Excluded, NEW v \in Vec, NEW n, num_readers' = [num_readers EXCEPT ![v] = n],
         UNCHANGED state, Even(v) \/ num_readers[v] > 0
  PROVE  Excluded'
<1>1. Even(v)
  BY DEF Excluded
<1>2. \A u \in Vec : Even(u)' <=> Even(u)
  BY DEF Even
<1> QED
  BY <1>1, <1>2 DEF Excluded, TypeOK

LEMMA ExcludedAccess ==
  ASSUME TypeOK, Excluded, NEW v \in Vec,
         Access(v) \/ CeedVectorRestoreArray(v) \/ CeedVectorRestoreArrayRead(v)
  PROVE  Excluded'
<1> USE DEF Reject
<1>1. WriteBump(v) + 1 \in Nat
  BY DEF WriteBump
<1>2. CASE CeedVectorGetArray(v) \/ CeedVectorGetArrayWrite(v) \/ CeedVectorRestoreArray(v)
  BY <1>1, <1>2, ExcludedSame, ExcludedBump DEF CeedVectorGetArray, CeedVectorGetArrayWrite,
     CeedVectorRestoreArray
<1>3. CASE CeedVectorGetArrayRead(v) \/ CeedVectorRestoreArrayRead(v)
  <2>1. CASE UNCHANGED state /\ Even(v) /\ num_readers' = [num_readers EXCEPT ![v] = @ + 1]
    BY <2>1, ExcludedReader
  <2>2. CASE UNCHANGED state /\ num_readers[v] > 0 /\ num_readers' = [num_readers EXCEPT ![v] = @ - 1]
    BY <2>2, ExcludedReader
  <2> QED
    BY <1>3, <2>1, <2>2, ExcludedSame DEF CeedVectorGetArrayRead, CeedVectorRestoreArrayRead
<1> QED
  BY <1>2, <1>3 DEF Access

LEMMA ExcludedOnOne ==
  ASSUME TypeOK, Excluded, NEW v \in Vec, CallOnOne(v)
  PROVE  Excluded'
<1> USE DEF Reject, Accept
<1>1. CASE CeedVectorReferenceCopy(v) \/ CeedVectorDestroy(v) \/ CeedVectorTakeArray(v)
  BY <1>1, ExcludedSame, DestroyKeeps DEF CeedVectorReferenceCopy, CeedVectorDestroy, CeedVectorTakeArray
<1>2. ASSUME NEW source, CeedVectorSetArrayCopy(v, source)
      PROVE  Excluded'
  BY <1>2, ExcludedSame, ExcludedBump DEF CeedVectorSetArrayCopy
<1>3. ASSUME NEW m, NEW a, NEW val, CeedVectorSetArrayPointer(v, m, a, val)
      PROVE  Excluded'
  BY <1>3, ExcludedSame, ExcludedBump DEF CeedVectorSetArrayPointer
<1>4. CASE Access(v) \/ CeedVectorRestoreArray(v) \/ CeedVectorRestoreArrayRead(v)
  BY <1>4, ExcludedAccess
<1>5. CASE ReadWhole(v) \/ CeedVectorNorm(v) \/ CeedVectorSyncArray(v)
  BY <1>5, ExcludedSame DEF ReadWhole, CeedVectorNorm, CeedVectorSyncArray
<1>6. ASSUME NEW val \in Value, WriteThrough(v, val) \/ CeedVectorSetValue(v, val)
      PROVE  Excluded'
  <2>1. WriteBump(v) + 2 \in Nat
    BY DEF WriteBump
  <2> QED
    BY <1>6, <2>1, ExcludedSame, ExcludedBump DEF WriteThrough, CeedVectorSetValue
<1>7. ASSUME NEW val \in Value, NEW r \in BOOLEAN, CeedVectorSetValueStrided(v, r, val)
      PROVE  Excluded'
  BY <1>7, ExcludedSame, ExcludedBump DEF CeedVectorSetValueStrided
<1>8. ASSUME NEW val \in Value,
             CeedVectorScale(v, val) \/ CeedVectorFilter(v, val) \/ CeedVectorReciprocal(v, val)
      PROVE  Excluded'
  BY <1>8, ExcludedSame, ExcludedBump DEF CeedVectorScale, CeedVectorFilter, CeedVectorReciprocal,
     UpdateArray, UpdateBuffer
<1> QED
  BY <1>1, <1>2, <1>3, <1>4, <1>5, <1>6, <1>7, <1>8 DEF CallOnOne

LEMMA ExcludedOnTwo ==
  ASSUME TypeOK, Excluded, NEW v \in Vec, NEW w \in Vec, CallOnTwo(v, w)
  PROVE  Excluded'
<1> USE DEF Reject, Accept
<1>0. CASE CeedVectorReferenceCopyOver(v, w)
  BY <1>0, DestroyKeeps, ExcludedSame DEF CeedVectorReferenceCopyOver
<1>1. CASE v # w /\ CeedVectorCopy(v, w)
  <2>1. CASE Free(v) /\ Bump(v, 1) /\ UNCHANGED num_readers
    BY <2>1, ExcludedBump
  <2>2. CASE /\ Free(v) /\ Free(w) /\ UNCHANGED num_readers
             /\ state' = [state EXCEPT ![v] = @ + 2, ![w] = @ + 2]
    <3>1. \A u \in Vec \ {v, w} : Even(u)' <=> Even(u)
      BY <2>2 DEF Even, TypeOK
    <3> QED
      BY <2>2, <3>1 DEF Excluded, Free
  <2> QED
    BY <1>1, <2>1, <2>2, ExcludedSame DEF CeedVectorCopy, StrandWrite
<1>2. ASSUME NEW val \in Value, AddScaled(v, w, val)
      PROVE  Excluded'
  BY <1>2, ExcludedSame, ExcludedBump DEF AddScaled, UpdateArray, UpdateBuffer, StrandWrite
<1>3. ASSUME NEW val \in Value, NEW r \in BOOLEAN, CeedVectorCopyStrided(v, w, r, val)
      PROVE  Excluded'
  <2>1. CASE UNCHANGED state /\ Even(v) /\ num_readers' = [num_readers EXCEPT ![v] = @ + 1]
    BY <2>1, ExcludedReader
  <2> QED
    BY <1>3, <2>1, ExcludedSame, ExcludedBump DEF CeedVectorCopyStrided
<1> QED
  BY <1>0, <1>1, <1>2, <1>3 DEF CallOnTwo, CeedVectorAXPY, CeedVectorAXPBY

LEMMA ExcludedOnThree ==
  ASSUME TypeOK, Excluded, NEW w \in Vec, NEW x \in Vec, NEW y \in Vec, NEW val \in Value,
         CeedVectorPointwiseMult(w, x, y, val)
  PROVE  Excluded'
<1>1. WriteBump(w) + 1 \in Nat /\ WriteBump(w) + 2 \in Nat
  BY DEF WriteBump
<1>2. CASE UNCHANGED lockVars
  BY <1>2, ExcludedSame
<1>3. CASE Free(w) /\ Bump(w, WriteBump(w) + 2) /\ UNCHANGED num_readers
  BY <1>1, <1>3, ExcludedBump
<1>4. CASE /\ Free(w) /\ Bump(w, WriteBump(w) + 1)
           /\ num_readers' = [num_readers EXCEPT ![x] = IF x # w /\ Even(x) THEN @ + 1 ELSE @]
  <2>1. \A u \in Vec \ {w} : Even(u)' <=> Even(u)
    BY <1>1, <1>4, BumpParity
  <2>2. num_readers'[w] = num_readers[w] /\ num_readers[w] = 0
    BY <1>4 DEF TypeOK, Free
  <2>3. \A u \in Vec : Even(u) \/ num_readers'[u] = num_readers[u]
    BY <1>4 DEF TypeOK
  <2> QED
    BY <2>1, <2>2, <2>3 DEF Excluded
<1> QED
  BY <1>2, <1>3, <1>4 DEF CeedVectorPointwiseMult, UpdateBuffer, Reject, Accept, lockVars

\* No order of Gets, Restores, refused calls and stranded accesses, on either backend, grants
\* write access to a vector that is being read, or read access to one that is being written.
THEOREM ExcludedCorrect == Spec => []Excluded
<1>1. Init => Excluded
  BY DEF Init, Excluded
<1>2. TypeOK /\ Excluded /\ [Next]_vars => Excluded'
  <2> SUFFICES ASSUME TypeOK, Excluded, [Next]_vars
               PROVE  Excluded'
    OBVIOUS
  <2>1. ASSUME NEW v \in Vec, CeedVectorCreate(v)
        PROVE  Excluded'
    BY <2>1, ExcludedSame DEF CeedVectorCreate
  <2>2. CASE UNCHANGED vars
    BY <2>2, ExcludedSame DEF vars
  <2> QED
    BY <2>1, <2>2, ExcludedOnOne, ExcludedOnTwo, ExcludedOnThree DEF Next, Live
<1> QED
  BY <1>1, <1>2, TypeCorrect, PTL DEF Spec
================================================================================
