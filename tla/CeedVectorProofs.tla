--------------------------- MODULE CeedVectorProofs ---------------------------
(***************************************************************************)
(* Theorems about CeedVector, for every number of vectors, arrays, values  *)
(* and for both backends unless a theorem names one.                       *)
(***************************************************************************)
EXTENDS CeedVector, TLAPS

\* The pointer of a caller is one the vector is locked for.
WriterHolds == \A v \in writer : ~Even(v)

TypeInv == TypeOK /\ WriterHolds /\ CopiesFollowAccess

(***************************************************************************)
(* Types of the pieces actions are made of.                                *)
(***************************************************************************)
LEMMA BumpType ==
  ASSUME TypeOK, NEW v \in Vec, NEW n \in Nat, Bump(v, n)
  PROVE  state' \in [Vec -> Nat]
  BY DEF TypeOK, Bump

LEMMA CopyTargetType ==
  ASSUME TypeOK, NEW v \in Vec
  PROVE  CopyTarget(v) \in Location
  BY VecAssumption DEF TypeOK, CopyTarget, Location, Memcheck

LEMMA StoredType ==
  ASSUME TypeOK, NEW v \in Vec, NEW val \in Contents
  PROVE  Stored(v, val) \in [Location -> Contents]
  BY DEF TypeOK, Stored

LEMMA ContentType ==
  ASSUME TypeOK, NEW v \in Vec \ Empty, HasValidArray(v)
  PROVE  Content(v) \in Contents
  BY DEF TypeOK, HasValidArray, Content, Location

ImplTypeOK ==
  /\ array \in [Vec -> Location \cup {NULL}]
  /\ owned \in [Vec -> Location \cup {NULL}]
  /\ borrowed \in [Vec -> Array \cup {NULL}]
  /\ mem \in [Location -> Contents]
  /\ owner \in [Array -> {"user", "library", "freed", "lost"}]

LEMMA CopyValuesType ==
  ASSUME TypeOK, NEW v \in Vec, NEW source \in Contents \cup {NULL}, CopyValues(v, source)
  PROVE  ImplTypeOK'
  <1>1. CopyTarget(v) \in Location
    BY CopyTargetType
  <1>2. CopyContents(v, source) \in Contents
    BY <1>1, VecAssumption DEF TypeOK, CopyContents, Contents
  <1> QED
    BY <1>1, <1>2 DEF TypeOK, ImplTypeOK, CopyValues, Location

LEMMA HandOverType ==
  ASSUME TypeOK, NEW v \in Vec, NEW m \in {"own", "use"}, NEW a \in Array, NEW val \in Value,
         HandOver(v, m, a, val)
  PROVE  ImplTypeOK'
  BY VecAssumption DEF TypeOK, ImplTypeOK, HandOver, OwnerAfter, Received, Location, Contents

\* What CeedVectorDestroy does to everything but the references, alone or inside
\* CeedVectorReferenceCopy.
LEMMA DestroyKeeps ==
  ASSUME NEW v \in Vec, NEW counts, DestroyReference(v, counts)
  PROVE  /\ UNCHANGED <<lockVars, mem, copyVars, writer>>
         /\ \/ UNCHANGED implVars
            \/ /\ Free(v) /\ err' \in {"success", "unsupported"}
               /\ array' = [array EXCEPT ![v] = NULL]
               /\ owned' = [owned EXCEPT ![v] = NULL]
               /\ borrowed' = [borrowed EXCEPT ![v] = NULL]
               /\ owner' = [a \in Array |-> IF a = owned[v] THEN "freed" ELSE owner[a]]
  BY DEF DestroyReference, DestroyShared, DestroyRefused, DestroyLast, implVars

LEMMA DestroyCounts ==
  ASSUME TypeOK, NEW v \in Vec, NEW counts \in [Vec -> Int], DestroyReference(v, counts)
  PROVE  /\ phase' \in [Vec -> {"none", "live", "destroyed", "torn"}]
         /\ ref_count' \in [Vec -> Int]
         /\ refused' \subseteq Vec
         /\ err' \in {"success", "access", "unsupported"}
  BY DEF TypeOK, DestroyReference, DestroyShared, DestroyRefused, DestroyLast, Dereference

LEMMA DestroyType ==
  ASSUME TypeOK, NEW v \in Vec, NEW counts \in [Vec -> Int], DestroyReference(v, counts),
         handles' \in [Vec -> Nat], leaked' \in [Vec -> Nat]
  PROVE  TypeOK'
  <1>1. UNCHANGED <<lockVars, mem, copyVars, writer>> /\ ImplTypeOK'
    BY DestroyKeeps DEF TypeOK, ImplTypeOK, implVars
  <1> QED
    BY <1>1, DestroyCounts DEF TypeOK, ImplTypeOK, lockVars, copyVars

LEMMA TypeStep == ASSUME TypeInv, Next PROVE TypeOK'
  <1> USE DEF TypeInv, TypeOK, ImplTypeOK, refVars, lockVars, implVars, copyVars, Reject, Accept
  <1>1. ASSUME NEW v \in Vec, CeedVectorCreate(v) \/ CeedVectorReferenceCopy(v) PROVE TypeOK'
    BY <1>1 DEF CeedVectorCreate, CeedVectorReferenceCopy
  <1>2. ASSUME NEW v \in Live, CeedVectorDestroy(v) \/ \E u \in Live : CeedVectorReferenceCopyOver(u, v)
        PROVE TypeOK'
    <2> HIDE DEF TypeOK, TypeInv
    <2>1. TypeOK /\ v \in Vec /\ handles \in [Vec -> Nat] /\ leaked \in [Vec -> Nat] /\ ref_count \in [Vec -> Int]
      BY DEF TypeInv, TypeOK, Live
    <2>2. handles[v] - 1 \in Nat
      BY <2>1 DEF Live
    <2>3. CASE CeedVectorDestroy(v)
      BY <2>1, <2>2, <2>3, DestroyType DEF CeedVectorDestroy
    <2>4. ASSUME NEW u \in Live, CeedVectorReferenceCopyOver(u, v) PROVE TypeOK'
      <3>1. u \in Vec /\ [ref_count EXCEPT ![u] = @ + 1] \in [Vec -> Int]
        BY <2>1 DEF Live
      <3>2. handles' \in [Vec -> Nat] /\ leaked' \in [Vec -> Nat]
        BY <2>1, <2>2, <2>4, <3>1 DEF CeedVectorReferenceCopyOver
      <3> QED
        BY <2>1, <2>4, <3>1, <3>2, DestroyType DEF CeedVectorReferenceCopyOver
    <2> QED
      BY <1>2, <2>3, <2>4
  <1>3. ASSUME NEW v \in Vec, NEW source \in Value \cup {NULL}, CeedVectorSetArrayCopy(v, source)
        PROVE TypeOK'
    BY <1>3, CopyValuesType, BumpType DEF CeedVectorSetArrayCopy, Contents
  <1>4. ASSUME NEW v \in Vec, NEW m \in {"own", "use"}, NEW a \in Array, NEW val \in Value,
               CeedVectorSetArrayPointer(v, m, a, val)
        PROVE TypeOK'
    BY <1>4, HandOverType, BumpType DEF CeedVectorSetArrayPointer
  <1>5. ASSUME NEW v \in Vec, CeedVectorTakeArray(v) PROVE TypeOK'
    <2>1. CASE v \notin Empty /\ HasValidArray(v)
      <3>1. Stored(v, Content(v)) \in [Location -> Contents]
        BY <2>1, StoredType, ContentType
      <3> QED
        BY <1>5, <2>1, <3>1 DEF CeedVectorTakeArray
    <2> QED
      BY <1>5, <2>1 DEF CeedVectorTakeArray
  <1>6. ASSUME NEW v \in Vec, CeedVectorGetArray(v) PROVE TypeOK'
    BY <1>6, ContentType, BumpType DEF CeedVectorGetArray
  <1>7. ASSUME NEW v \in Vec, CeedVectorGetArrayWrite(v) PROVE TypeOK'
    BY <1>7, CopyValuesType, BumpType DEF CeedVectorGetArrayWrite, WriteBump, Contents
  <1>8. ASSUME NEW v \in Vec, CeedVectorGetArrayRead(v) PROVE TypeOK'
    BY <1>8, ContentType DEF CeedVectorGetArrayRead, ReadCopy
  <1>9. ASSUME NEW v \in Vec, CeedVectorRestoreArray(v) PROVE TypeOK'
    <2>1. CASE ~Even(v) /\ Memcheck /\ v \notin Empty
      <3>1. writable_copy[v] \in Contents
        BY <2>1 DEF CopiesFollowAccess
      <3>2. Stored(v, writable_copy[v]) \in [Location -> Contents]
        BY <3>1, StoredType
      <3> QED
        BY <1>9, <2>1, <3>2, BumpType DEF CeedVectorRestoreArray
    <2> QED
      BY <1>9, <2>1, BumpType DEF CeedVectorRestoreArray
  <1>10. ASSUME NEW v \in Vec, CeedVectorRestoreArrayRead(v) PROVE TypeOK'
    BY <1>10 DEF CeedVectorRestoreArrayRead
  <1>11. ASSUME NEW v \in Vec, ReadWhole(v) \/ CeedVectorNorm(v) PROVE TypeOK'
    BY <1>11 DEF ReadWhole, CeedVectorNorm
  <1>12. ASSUME NEW v \in Vec, CeedVectorSyncArray(v) PROVE TypeOK'
    <2>1. Stored(v, mem[v]) \in [Location -> Contents]
      BY StoredType DEF Location
    <2> QED
      BY <1>12, <2>1 DEF CeedVectorSyncArray, ReadWhole
  <1>13. ASSUME NEW v \in Vec, NEW val \in Value, WriteThrough(v, val) PROVE TypeOK'
    BY <1>13 DEF WriteThrough, Contents
  <1>14. ASSUME NEW v \in Vec, NEW val \in Value, CeedVectorSetValue(v, val) PROVE TypeOK'
    BY <1>14, CopyValuesType, BumpType DEF CeedVectorSetValue, WriteBump, Contents
  <1>15. ASSUME NEW v \in Vec, NEW val \in Value, NEW r \in BOOLEAN, CeedVectorSetValueStrided(v, r, val)
         PROVE TypeOK'
    BY <1>15, CopyValuesType, BumpType DEF CeedVectorSetValueStrided, Contents
  <1>16. ASSUME NEW v \in Vec, NEW val \in Value, UpdateArray(v, val) \/ UpdateBuffer(v, val)
         PROVE TypeOK'
    <2>1. val \in Contents /\ Stored(v, val) \in [Location -> Contents]
      BY StoredType DEF Contents
    <2> QED
      BY <1>16, <2>1, BumpType DEF UpdateArray, UpdateBuffer
  <1>17. ASSUME NEW v \in Vec, NEW val \in Value,
                CeedVectorScale(v, val) \/ CeedVectorFilter(v, val) \/ CeedVectorReciprocal(v, val)
         PROVE TypeOK'
    BY <1>16, <1>17 DEF CeedVectorScale, CeedVectorFilter, CeedVectorReciprocal
  <1>18. ASSUME NEW y \in Vec, NEW x \in Vec, NEW val \in Value, AddScaled(y, x, val) PROVE TypeOK'
    BY <1>16, <1>18, BumpType DEF AddScaled, StrandWrite
  <1>19. ASSUME NEW w \in Vec, NEW x \in Vec, NEW y \in Vec, NEW val \in Value,
                CeedVectorPointwiseMult(w, x, y, val)
         PROVE TypeOK'
    <2>1. val \in Contents /\ Stored(w, val) \in [Location -> Contents]
      BY StoredType DEF Contents
    <2>2. WriteBump(w) + 1 \in Nat /\ WriteBump(w) + 2 \in Nat
      BY DEF WriteBump
    <2>3. ASSUME CopyValues(w, NULL) \/ CopyValues(w, val) PROVE ImplTypeOK'
      BY <2>1, <2>3, CopyValuesType
    <2>4. ASSUME UpdateBuffer(w, val) PROVE TypeOK'
      BY <1>16, <2>4
    <2> HIDE DEF TypeOK
    <2>5. ASSUME ImplTypeOK', state' \in [Vec -> Nat], num_readers' \in [Vec -> Nat],
                 err' \in {"success", "access"}, UNCHANGED <<refVars, copyVars, writer>>
          PROVE  TypeOK'
      BY <2>5 DEF TypeOK
    <2>6. ASSUME NEW n \in Nat, Bump(w, n) PROVE state' \in [Vec -> Nat]
      BY <2>6, BumpType
    <2> QED
      BY <1>19, <2>1, <2>2, <2>3, <2>4, <2>5, <2>6 DEF CeedVectorPointwiseMult, MultAllocate, TypeOK
  <1>20. ASSUME NEW v \in Vec, NEW w \in Vec, CeedVectorCopy(v, w) PROVE TypeOK'
    <2>1. CASE v \notin Empty /\ HasValidArray(v)
      <3>1. Content(v) \in Contents /\ Stored(v, Content(v)) \in [Location -> Contents]
        BY <2>1, StoredType, ContentType
      <3>2. CopyTarget(w) \in Location
        BY CopyTargetType
      <3> QED
        BY <1>20, <2>1, <3>1, <3>2, BumpType, SMTT(30) DEF CeedVectorCopy, StrandWrite, Location
    <2> QED
      BY <1>20, <2>1, BumpType DEF CeedVectorCopy, StrandWrite, HasValidArray
  <1>21. ASSUME NEW v \in Vec, NEW w \in Vec, NEW val \in Value, NEW r \in BOOLEAN,
                CeedVectorCopyStrided(v, w, r, val)
         PROVE TypeOK'
    <2>1. val \in Contents /\ Stored(w, val) \in [Location -> Contents]
      BY StoredType DEF Contents
    <2>2. ASSUME v \notin Empty, HasValidArray(v) PROVE ReadCopy(v) \in Contents
      BY <2>2, ContentType DEF ReadCopy
    <2> QED
      BY <1>21, <2>1, <2>2, BumpType DEF CeedVectorCopyStrided
  <1> QED
    BY <1>1, <1>2, <1>3, <1>4, <1>5, <1>6, <1>7, <1>8, <1>9, <1>10, <1>11, <1>12, <1>13, <1>14, SMTT(30),
       <1>15, <1>17, <1>18, <1>19, <1>20, <1>21
       DEF Next, Live, CallOnOne, CallOnTwo, Access, CeedVectorAXPY, CeedVectorAXPBY

(***************************************************************************)
(* References and copies.                                                  *)
(***************************************************************************)
\* Only the calls on the life of a vector touch the references.
LEMMA ReferencesChange ==
  ASSUME Next
  PROVE  \/ UNCHANGED refVars
         \/ \E v \in Vec : CeedVectorCreate(v)
         \/ \E v \in Live : CeedVectorReferenceCopy(v) \/ CeedVectorDestroy(v)
         \/ \E v, w \in Live : CeedVectorReferenceCopyOver(v, w)
  <1> USE DEF Reject, Accept
  <1>1. ASSUME NEW v \in Live, CallOnOne(v)
        PROVE UNCHANGED refVars \/ CeedVectorReferenceCopy(v) \/ CeedVectorDestroy(v)
    BY <1>1 DEF CallOnOne, CeedVectorSetArrayCopy, CeedVectorSetArrayPointer, CeedVectorTakeArray, Access,
      CeedVectorGetArray, CeedVectorGetArrayWrite, CeedVectorGetArrayRead, CeedVectorRestoreArray,
      CeedVectorRestoreArrayRead, ReadWhole, CeedVectorNorm, CeedVectorSyncArray, WriteThrough, CeedVectorSetValue,
      CeedVectorSetValueStrided, CeedVectorScale, CeedVectorFilter, CeedVectorReciprocal, UpdateArray, UpdateBuffer
  <1>2. ASSUME NEW v \in Live, NEW w \in Live, CallOnTwo(v, w)
        PROVE UNCHANGED refVars \/ CeedVectorReferenceCopyOver(v, w)
    BY <1>2 DEF CallOnTwo, CeedVectorCopy, CeedVectorCopyStrided, CeedVectorAXPY, CeedVectorAXPBY, AddScaled,
      StrandWrite, UpdateArray, UpdateBuffer
  <1>3. ASSUME NEW w \in Live, NEW x \in Live, NEW y \in Live, NEW val \in Value,
               CeedVectorPointwiseMult(w, x, y, val)
        PROVE UNCHANGED refVars
    BY <1>3 DEF CeedVectorPointwiseMult, UpdateBuffer
  <1> QED
    BY <1>1, <1>2, <1>3 DEF Next

LEMMA AddEven == ASSUME NEW n \in Nat, NEW k \in Nat, k % 2 = 0 PROVE (n + k) % 2 = n % 2
  OBVIOUS
LEMMA AddOdd == ASSUME NEW n \in Nat, NEW k \in Nat, k % 2 = 1 PROVE (n + k) % 2 = 0 <=> n % 2 # 0
  OBVIOUS

LEMMA BumpParity ==
  ASSUME TypeOK, NEW v \in Vec, NEW n \in Nat, Bump(v, n), NEW u \in Vec
  PROVE  Even(u)' <=> IF u = v /\ n % 2 = 1 THEN ~Even(u) ELSE Even(u)
  <1>1. state' = [state EXCEPT ![v] = @ + n] /\ state \in [Vec -> Nat]
    BY DEF TypeOK, Bump
  <1>2. CASE u # v
    BY <1>1, <1>2 DEF Even
  <1>3. CASE u = v /\ n % 2 = 1
    <2>1. (state[v] + n) % 2 = 0 <=> state[v] % 2 # 0
      BY <1>1, <1>3, AddOdd
    <2> QED
      BY <1>1, <1>3, <2>1 DEF Even
  <1>4. CASE u = v /\ n % 2 # 1
    <2>1. n % 2 = 0
      BY <1>4
    <2>2. (state[v] + n) % 2 = state[v] % 2
      BY <1>1, <2>1, AddEven
    <2> QED
      BY <1>1, <1>4, <2>2 DEF Even
  <1> QED
    BY <1>2, <1>3, <1>4

\* Accesses, the callers' pointers and memcheck's copies change together.
CopyFollows(u) ==
  /\ writable_copy[u] # NULL <=> ~Even(u)
  /\ num_readers[u] > 0 => read_only_copy[u] # NULL
Follows(u) ==
  /\ u \in writer => ~Even(u)
  /\ Memcheck /\ u \notin Empty => CopyFollows(u)

LEMMA FollowsStep == ASSUME TypeInv, Next, NEW u \in Vec PROVE Follows(u)'
  <1>0. Follows(u)
    BY DEF TypeInv, CopiesFollowAccess, WriterHolds, Follows, CopyFollows
  <1>t. TypeOK
    BY DEF TypeInv
  <1> USE DEF TypeInv, TypeOK, Follows, CopyFollows, Reject, Accept, lockVars, copyVars, Memcheck
  <1>1. ASSUME UNCHANGED <<lockVars, copyVars, writer>> PROVE Follows(u)'
    BY <1>0, <1>1 DEF Even
  <1>2. ASSUME NEW v \in Vec, NEW n \in {0, 2, 4}, Bump(v, n), UNCHANGED <<num_readers, copyVars, writer>>
        PROVE Follows(u)'
    <2>1. Even(u)' <=> Even(u)
      BY <1>2, BumpParity, SMTT(30)
    <2> QED
      BY <1>0, <1>2, <2>1
  <1>3. ASSUME NEW v \in Vec, NEW n \in {1, 3}, Bump(v, n), Even(v), UNCHANGED <<num_readers, read_only_copy>>,
               writer' \in {writer, writer \cup {v}},
               IF Memcheck /\ v \notin Empty
               THEN \E c \in Contents : writable_copy' = [writable_copy EXCEPT ![v] = c]
               ELSE UNCHANGED writable_copy
        PROVE Follows(u)'
    <2>0. n \in Nat /\ n % 2 = 1
      BY <1>3
    <2>1. Even(u)' <=> IF u = v THEN ~Even(u) ELSE Even(u)
      BY <1>3, <2>0, BumpParity
    <2> QED
      BY <1>0, <1>3, <2>1, VecAssumption DEF Contents
  <1>4. ASSUME NEW v \in Vec, Even(v), HasValidArray(v), num_readers' = [num_readers EXCEPT ![v] = @ + 1],
               read_only_copy' = IF Memcheck /\ v \notin Empty
                                 THEN [read_only_copy EXCEPT ![v] = ReadCopy(v)] ELSE read_only_copy,
               UNCHANGED <<state, writable_copy, writer>>
        PROVE Follows(u)'
    <2>1. v \notin Empty => Content(v) # NULL
      BY <1>4, ContentType, VecAssumption DEF Contents
    <2> QED
      BY <1>0, <1>4, <2>1 DEF Even, ReadCopy
  <1>5. ASSUME NEW v \in Vec, UNCHANGED <<lockVars, writable_copy, writer>>, num_readers[v] = 0,
               read_only_copy' \in {read_only_copy, [read_only_copy EXCEPT ![v] = NULL]}
        PROVE Follows(u)'
    BY <1>0, <1>5 DEF Even
  <1>6. ASSUME NEW v \in Vec, CeedVectorGetArray(v) PROVE Follows(u)'
    <2>1. CASE Free(v) /\ HasValidArray(v)
      <3>1. v \notin Empty => Content(v) \in Contents
        BY <2>1, ContentType
      <3> QED
        BY <1>1, <1>3, <1>6, <2>1, <3>1 DEF CeedVectorGetArray, Free
    <2> QED
      BY <1>1, <1>6, <2>1 DEF CeedVectorGetArray
  <1>7. ASSUME NEW v \in Vec, CeedVectorGetArrayWrite(v) PROVE Follows(u)'
    <2>1. CASE Free(v) /\ err' = "success"
      <3>1. WriteBump(v) + 1 \in {1, 3} /\ Unset \in Contents
        BY DEF WriteBump, Contents
      <3> QED
        BY <1>3, <1>7, <2>1, <3>1 DEF CeedVectorGetArrayWrite, Free
    <2> QED
      BY <1>1, <1>7, <2>1 DEF CeedVectorGetArrayWrite
  <1>8. ASSUME NEW v \in Vec, CeedVectorRestoreArray(v) PROVE Follows(u)'
    <2>1. CASE ~Even(v)
      <3>1. Even(u)' <=> IF u = v THEN ~Even(u) ELSE Even(u)
        BY <1>8, <2>1, BumpParity DEF CeedVectorRestoreArray
      <3> QED
        BY <1>0, <1>8, <2>1, <3>1 DEF CeedVectorRestoreArray
    <2> QED
      BY <1>1, <1>8, <2>1 DEF CeedVectorRestoreArray
  <1>9. ASSUME NEW v \in Vec, CeedVectorGetArrayRead(v) PROVE Follows(u)'
    BY <1>1, <1>4, <1>9 DEF CeedVectorGetArrayRead
  <1>10. ASSUME NEW v \in Vec, CeedVectorRestoreArrayRead(v) PROVE Follows(u)'
    BY <1>0, <1>1, <1>10 DEF CeedVectorRestoreArrayRead, Even
  <1>11. ASSUME NEW v \in Vec, ReadWhole(v) \/ CeedVectorNorm(v) \/ CeedVectorSyncArray(v) PROVE Follows(u)'
    BY <1>1, <1>5, <1>11 DEF ReadWhole, CeedVectorNorm, CeedVectorSyncArray
  <1>12. ASSUME NEW v \in Vec, NEW val \in Value, WriteThrough(v, val) PROVE Follows(u)'
    BY <1>0, <1>12, VecAssumption DEF WriteThrough, Even, WriterHolds
  <1>13. ASSUME NEW v \in Vec, CeedVectorTakeArray(v) PROVE Follows(u)'
    BY <1>1, <1>13 DEF CeedVectorTakeArray
  <1>14. ASSUME NEW v \in Vec, NEW source \in Value \cup {NULL}, CeedVectorSetArrayCopy(v, source)
         PROVE Follows(u)'
    BY <1>1, <1>2, <1>14 DEF CeedVectorSetArrayCopy
  <1>15. ASSUME NEW v \in Vec, NEW m \in {"own", "use"}, NEW a \in Array, NEW val \in Value,
                CeedVectorSetArrayPointer(v, m, a, val)
         PROVE Follows(u)'
    BY <1>1, <1>2, <1>15 DEF CeedVectorSetArrayPointer
  <1>16. ASSUME NEW v \in Vec, NEW val \in Value, CeedVectorSetValue(v, val) PROVE Follows(u)'
    <2>1. WriteBump(v) + 2 \in {2, 4}
      BY DEF WriteBump
    <2> QED
      BY <1>1, <1>2, <1>16, <2>1 DEF CeedVectorSetValue
  <1>17. ASSUME NEW v \in Vec, NEW r \in BOOLEAN, NEW val \in Value, CeedVectorSetValueStrided(v, r, val)
         PROVE Follows(u)'
    BY <1>1, <1>2, <1>17 DEF CeedVectorSetValueStrided
  <1>18. ASSUME NEW v \in Vec, NEW val \in Value, UpdateArray(v, val) \/ UpdateBuffer(v, val) PROVE Follows(u)'
    BY <1>1, <1>2, <1>18 DEF UpdateArray, UpdateBuffer
  <1>19. ASSUME NEW v \in Vec, NEW val \in Value,
                CeedVectorScale(v, val) \/ CeedVectorFilter(v, val) \/ CeedVectorReciprocal(v, val)
         PROVE Follows(u)'
    BY <1>1, <1>18, <1>19 DEF CeedVectorScale, CeedVectorFilter, CeedVectorReciprocal
  <1>20. ASSUME NEW y \in Vec, NEW x \in Vec, NEW val \in Value, AddScaled(y, x, val) PROVE Follows(u)'
    BY <1>1, <1>3, <1>18, <1>20 DEF AddScaled, StrandWrite, Free
  <1>21. ASSUME NEW w \in Vec, NEW x \in Vec, NEW y \in Vec, NEW val \in Value,
                CeedVectorPointwiseMult(w, x, y, val)
         PROVE Follows(u)'
    <2>1. WriteBump(w) + 1 \in {1, 3} /\ WriteBump(w) + 2 \in {2, 4}
      BY DEF WriteBump
    <2>2. CASE UNCHANGED lockVars
      BY <1>1, <1>18, <1>21, <2>2 DEF CeedVectorPointwiseMult, UpdateBuffer
    <2>3. ASSUME ~Memcheck, Free(w), UNCHANGED <<copyVars, writer>>, Bump(w, WriteBump(w) + 1)
          PROVE Follows(u)'
      <3>1. Even(u)' <=> IF u = w THEN ~Even(u) ELSE Even(u)
        BY <2>1, <2>3, BumpParity
      <3> QED
        BY <1>0, <2>3, <3>1 DEF Free
    <2> QED
      BY <1>1, <1>2, <1>18, <1>21, <2>1, <2>2, <2>3 DEF CeedVectorPointwiseMult
  <1>22. ASSUME NEW v \in Vec, NEW w \in Vec, v # w, CeedVectorCopy(v, w) PROVE Follows(u)'
    <2>1. CASE Free(v) /\ HasValidArray(v) /\ ~Free(w)
      <3>1. v \notin Empty => Content(v) \in Contents
        BY <2>1, ContentType
      <3> QED
        BY <1>1, <1>3, <1>22, <2>1, <3>1 DEF CeedVectorCopy, StrandWrite, Free
    <2>2. CASE state' = [state EXCEPT ![v] = @ + 2, ![w] = @ + 2]
      <3>1. state'[u] \in {state[u] + 0, state[u] + 2}
        BY <1>22, <2>2
      <3>2. Even(u)' <=> Even(u)
        BY <3>1, AddEven DEF Even
      <3>3. UNCHANGED <<num_readers, writer>> /\ (Memcheck => UNCHANGED copyVars)
        BY <1>22, <2>2 DEF CeedVectorCopy, StrandWrite, Bump
      <3> QED
        BY <1>0, <3>2, <3>3
    <2> QED
      BY <1>1, <1>22, <2>1, <2>2 DEF CeedVectorCopy
  <1>23. ASSUME NEW v \in Vec, NEW w \in Vec, NEW val \in Value, NEW r \in BOOLEAN, v # w,
                CeedVectorCopyStrided(v, w, r, val)
         PROVE Follows(u)'
    <2>1. CASE Even(v) /\ HasValidArray(v) /\ {v, w} \cap Empty = {} /\ ~(Free(w) /\ HasValidArray(w))
      BY <1>1, <1>4, <1>23, <2>1 DEF CeedVectorCopyStrided
    <2>2. CASE Even(v) /\ HasValidArray(v) /\ {v, w} \cap Empty = {} /\ Free(w) /\ HasValidArray(w)
      <3>1. ASSUME Memcheck, Bump(w, 1), writable_copy' = [writable_copy EXCEPT ![w] = val],
                   UNCHANGED <<num_readers, read_only_copy, writer>>
            PROVE  Follows(u)'
        BY <1>3, <2>2, <3>1 DEF Free, Contents
      <3>2. ASSUME Bump(w, 2), UNCHANGED <<num_readers, writable_copy, writer>>,
                   read_only_copy' = IF num_readers[v] = 0 THEN [read_only_copy EXCEPT ![v] = NULL] ELSE read_only_copy
            PROVE  Follows(u)'
        <4>1. Even(u)' <=> Even(u)
          BY <3>2, BumpParity
        <4> QED
          BY <1>0, <3>2, <4>1
      <3> QED
        BY <1>1, <1>23, <2>2, <3>1, <3>2 DEF CeedVectorCopyStrided
    <2> QED
      BY <1>1, <1>23, <2>1, <2>2 DEF CeedVectorCopyStrided
  <1>24. ASSUME NEW v \in Vec, CeedVectorCreate(v) \/ CeedVectorReferenceCopy(v) \/ CeedVectorDestroy(v)
                                 \/ \E w : CeedVectorReferenceCopyOver(w, v)
         PROVE Follows(u)'
    BY <1>1, <1>24, DestroyKeeps DEF CeedVectorCreate, CeedVectorReferenceCopy, CeedVectorDestroy,
                                     CeedVectorReferenceCopyOver
  <1> HIDE DEF TypeInv, TypeOK, Follows
  <1>25. ASSUME NEW v \in Vec, CallOnOne(v) PROVE Follows(u)'
    BY <1>6, <1>7, <1>8, <1>9, <1>10, <1>11, <1>12, <1>13, <1>14, <1>15, <1>16, <1>17, <1>19, <1>24, <1>25
       DEF CallOnOne, Access
  <1>26. ASSUME NEW v \in Vec, NEW w \in Vec, CallOnTwo(v, w) PROVE Follows(u)'
    BY <1>20, <1>22, <1>23, <1>24, <1>26 DEF CallOnTwo, CeedVectorAXPY, CeedVectorAXPBY
  <1> QED
    BY <1>21, <1>24, <1>25, <1>26 DEF Next, Live

(***************************************************************************)
(* The first invariant.                                                    *)
(***************************************************************************)
LEMMA TypeInvInit == Init => TypeInv
  BY VecAssumption DEF Init, TypeInv, TypeOK, WriterHolds, CopiesFollowAccess, Contents, Even

LEMMA TypeInvStep == TypeInv /\ [Next]_vars => TypeInv'
  <1> SUFFICES ASSUME TypeInv, [Next]_vars PROVE TypeInv'
    OBVIOUS
  <1>1. CASE Next
    <2>1. TypeOK'
      BY <1>1, TypeStep
    <2>2. writer' \subseteq Vec
      BY <2>1 DEF TypeOK
    <2>3. \A u \in Vec : Follows(u)'
      BY <1>1, FollowsStep
    <2>4. WriterHolds'
      BY <2>2, <2>3 DEF WriterHolds, Follows
    <2>5. CopiesFollowAccess'
      BY <2>3 DEF CopiesFollowAccess, Follows, CopyFollows, Memcheck
    <2> QED
      BY <2>1, <2>4, <2>5 DEF TypeInv
  <1>2. CASE UNCHANGED vars
    BY <1>2 DEF vars, refVars, lockVars, implVars, copyVars, TypeInv, TypeOK, WriterHolds,
                CopiesFollowAccess, Even
  <1> QED
    BY <1>1, <1>2

LEMMA TypeInvariant == Spec => []TypeInv
  BY TypeInvInit, TypeInvStep, PTL DEF Spec

\* Every variable of a vector keeps its type through every call, whatever is allocated, lent or
\* locked: each pointer the code follows points to an array.
THEOREM TypeCorrect == Spec => []TypeOK
  BY TypeInvariant, PTL DEF TypeInv

\* In memcheck the writable copy exists exactly while write access is granted, and a reader
\* never lacks its copy, through every call that locks, strands or releases an access.
THEOREM CopiesCorrect == Spec => []CopiesFollowAccess
  BY TypeInvariant, PTL DEF TypeInv

(***************************************************************************)
(* Pointers: what the calls do to array, owned, borrowed and owner.        *)
(***************************************************************************)
pointerVars == <<array, owned, borrowed, owner>>

\* A vector of length 0 never gets an array.
EmptyHasNone == \A v \in Empty : array[v] = NULL

PointerInv == PointersAgree /\ ArraysAccounted /\ EmptyHasNone

\* CEED_COPY_VALUES, here and at the end of CeedVectorCopy.
CopyPointers(v) ==
  /\ array' = [array EXCEPT ![v] = CopyTarget(v)]
  /\ owned' = [owned EXCEPT ![v] = IF ~Memcheck /\ CopyTarget(v) = v THEN v ELSE @]
  /\ UNCHANGED <<borrowed, owner>>

LEMMA PointersSame == ASSUME PointerInv, UNCHANGED pointerVars PROVE PointerInv'
  BY DEF PointerInv, PointersAgree, ArraysAccounted, EmptyHasNone, pointerVars, Memcheck

LEMMA PointersCopied ==
  ASSUME TypeOK, PointerInv, NEW v \in Vec \ Empty, CopyPointers(v)
  PROVE  PointerInv'
  <1> USE VecAssumption DEF PointerInv, CopyPointers, TypeOK
  <1>1. array'[v] = CopyTarget(v) /\ owned'[v] = IF ~Memcheck /\ CopyTarget(v) = v THEN v ELSE owned[v]
    OBVIOUS
  <1>2. \A u \in Vec \ {v} : array'[u] = array[u] /\ owned'[u] = owned[u]
    OBVIOUS
  <1>3. Memcheck => CopyTarget(v) = v /\ owned'[v] = owned[v]
    BY <1>1 DEF CopyTarget
  <1>4. ~Memcheck /\ array[v] # NULL => CopyTarget(v) = array[v] /\ owned'[v] = owned[v]
    BY <1>1 DEF CopyTarget, PointersAgree, Location
  <1>5. ~Memcheck /\ array[v] = NULL => CopyTarget(v) = v /\ owned'[v] = v /\ borrowed[v] = NULL /\ owned[v] = NULL
    BY <1>1 DEF CopyTarget, PointersAgree
  <1>6. PointersAgree'
    BY <1>1, <1>2, <1>3, <1>4, <1>5 DEF PointersAgree, Memcheck
  <1>7. \A u \in Vec : owned'[u] = owned[u] \/ (owned'[u] = u /\ owned[u] = NULL)
    BY <1>2, <1>3, <1>4, <1>5
  <1>8. ArraysAccounted'
    BY <1>7 DEF ArraysAccounted
  <1>9. EmptyHasNone'
    BY <1>2 DEF EmptyHasNone
  <1> QED
    BY <1>6, <1>8, <1>9

LEMMA PointersHandedOver ==
  ASSUME TypeOK, PointerInv, NEW v \in Vec \ Empty, NEW m \in {"own", "use"}, NEW a \in Array,
         NEW val \in Value, Available(v, a), HandOver(v, m, a, val)
  PROVE  PointerInv'
  <1> USE VecAssumption DEF PointerInv, HandOver, OwnerAfter, Received, TypeOK, Available
  <1>1. PointersAgree'
    BY DEF PointersAgree, Memcheck
  <1>2. \A u \in Vec : owned[u] # a
    BY DEF ArraysAccounted
  <1>3. ArraysAccounted'
    BY <1>2 DEF ArraysAccounted
  <1>4. EmptyHasNone'
    BY DEF EmptyHasNone
  <1> QED
    BY <1>1, <1>3, <1>4

\* TakeArray gives a lent array back; destroying a vector frees the array it owns.
LEMMA PointersDropped ==
  ASSUME TypeOK, PointerInv, NEW v \in Vec,
         array' = [array EXCEPT ![v] = NULL],
         owned' = [owned EXCEPT ![v] = NULL],
         borrowed' = [borrowed EXCEPT ![v] = NULL],
         owner' = [a \in Array |-> IF a = owned[v] THEN "freed" ELSE owner[a]]
  PROVE  PointerInv'
  <1> USE VecAssumption DEF PointerInv, TypeOK
  <1>1. PointersAgree'
    BY DEF PointersAgree, Memcheck
  <1>2. ArraysAccounted'
    BY DEF ArraysAccounted
  <1>3. EmptyHasNone'
    BY DEF EmptyHasNone
  <1> QED
    BY <1>1, <1>2, <1>3

LEMMA ArrayLost ==
  ASSUME TypeOK, PointerInv, NEW v \in Empty, NEW a \in Array, Available(v, a),
         owner' = [owner EXCEPT ![a] = "lost"], UNCHANGED <<array, owned, borrowed>>
  PROVE  PointerInv'
  <1> USE VecAssumption DEF PointerInv, TypeOK, Available
  <1>1. borrowed[v] = NULL
    BY DEF PointersAgree, EmptyHasNone
  <1>2. \A u \in Vec : owned[u] # a /\ borrowed[u] # a
    BY <1>1 DEF ArraysAccounted
  <1>3. ArraysAccounted'
    BY <1>2 DEF ArraysAccounted
  <1>4. PointersAgree' /\ EmptyHasNone'
    BY DEF PointersAgree, EmptyHasNone, Memcheck
  <1> QED
    BY <1>3, <1>4

LEMMA PointersStep == ASSUME TypeOK, PointerInv, Next PROVE PointerInv'
  <1> USE DEF Reject, Accept, implVars
  <1>1. ASSUME UNCHANGED pointerVars PROVE PointerInv'
    BY <1>1, PointersSame
  <1>2. ASSUME NEW v \in Vec \ Empty, NEW source, CopyValues(v, source) PROVE PointerInv'
    BY <1>2, PointersCopied DEF CopyValues, CopyPointers
  <1>3. ASSUME NEW v \in Vec, CeedVectorCreate(v) \/ CeedVectorReferenceCopy(v) PROVE PointerInv'
    BY <1>1, <1>3 DEF CeedVectorCreate, CeedVectorReferenceCopy, pointerVars
  <1>4. ASSUME NEW v \in Vec, CeedVectorDestroy(v) \/ \E u : CeedVectorReferenceCopyOver(u, v) PROVE PointerInv'
    <2>1. ASSUME NEW counts, DestroyReference(v, counts) PROVE PointerInv'
      BY <1>1, <2>1, DestroyKeeps, PointersDropped DEF pointerVars
    <2> QED
      BY <1>4, <2>1 DEF CeedVectorDestroy, CeedVectorReferenceCopyOver
  <1>5. ASSUME NEW v \in Vec, NEW source, CeedVectorSetArrayCopy(v, source) PROVE PointerInv'
    BY <1>1, <1>2, <1>5 DEF CeedVectorSetArrayCopy, pointerVars
  <1>6. ASSUME NEW v \in Vec, NEW m \in {"own", "use"}, NEW a \in Array, NEW val \in Value,
               CeedVectorSetArrayPointer(v, m, a, val)
        PROVE PointerInv'
    <2>1. CASE Free(v) /\ Available(v, a) /\ v \in Empty
      <3>1. CASE m = "own"
        BY <1>6, <2>1, <3>1, ArrayLost DEF CeedVectorSetArrayPointer, Reject
      <3>2. CASE m # "own"
        BY <1>1, <1>6, <2>1, <3>2 DEF CeedVectorSetArrayPointer, pointerVars, TypeOK
      <3> QED
        BY <3>1, <3>2
    <2>2. CASE Free(v) /\ Available(v, a) /\ v \notin Empty
      BY <1>6, <2>2, PointersHandedOver DEF CeedVectorSetArrayPointer
    <2> QED
      BY <1>1, <1>6, <2>1, <2>2 DEF CeedVectorSetArrayPointer, pointerVars
  <1>7. ASSUME NEW v \in Vec, CeedVectorTakeArray(v) PROVE PointerInv'
    <2>1. CASE UNCHANGED pointerVars
      BY <1>1, <2>1
    <2>2. CASE ~UNCHANGED pointerVars
      <3>1. borrowed[v] # NULL /\ UNCHANGED <<owned, owner>>
            /\ array' = [array EXCEPT ![v] = NULL] /\ borrowed' = [borrowed EXCEPT ![v] = NULL]
        BY <1>7, <2>2 DEF CeedVectorTakeArray, HasBorrowedArray, pointerVars
      <3>2. owned[v] = NULL
        BY <3>1 DEF PointerInv, PointersAgree
      <3>3. owned' = [owned EXCEPT ![v] = NULL]
        BY <3>1, <3>2 DEF TypeOK
      <3>4. owner' = [a \in Array |-> IF a = owned[v] THEN "freed" ELSE owner[a]]
        BY <3>1, <3>2, VecAssumption DEF TypeOK
      <3> QED
        BY <3>1, <3>3, <3>4, PointersDropped
    <2> QED
      BY <2>1, <2>2
  <1>8. ASSUME NEW v \in Vec, Access(v) PROVE PointerInv'
    BY <1>1, <1>2, <1>8 DEF Access, CeedVectorGetArray, CeedVectorGetArrayWrite, CeedVectorGetArrayRead,
                            NeedsArray, pointerVars
  <1>9. ASSUME NEW v \in Vec, CeedVectorRestoreArray(v) \/ CeedVectorRestoreArrayRead(v) PROVE PointerInv'
    BY <1>1, <1>9 DEF CeedVectorRestoreArray, CeedVectorRestoreArrayRead, pointerVars
  <1>10. ASSUME NEW v \in Vec, ReadWhole(v) \/ CeedVectorNorm(v) \/ CeedVectorSyncArray(v) PROVE PointerInv'
    BY <1>1, <1>10 DEF ReadWhole, CeedVectorNorm, CeedVectorSyncArray, pointerVars
  <1>11. ASSUME NEW v \in Vec, NEW val \in Value,
                WriteThrough(v, val) \/ UpdateArray(v, val) \/ UpdateBuffer(v, val)
         PROVE PointerInv'
    BY <1>1, <1>11 DEF WriteThrough, UpdateArray, UpdateBuffer, pointerVars
  <1>12. ASSUME NEW v \in Vec, NEW val \in Value,
                CeedVectorSetValue(v, val) \/ \E r \in BOOLEAN : CeedVectorSetValueStrided(v, r, val)
         PROVE PointerInv'
    BY <1>1, <1>2, <1>12 DEF CeedVectorSetValue, CeedVectorSetValueStrided, NeedsArray, pointerVars
  <1>13. ASSUME NEW v \in Vec, NEW val \in Value,
                CeedVectorScale(v, val) \/ CeedVectorFilter(v, val) \/ CeedVectorReciprocal(v, val)
         PROVE PointerInv'
    BY <1>1, <1>11, <1>13 DEF CeedVectorScale, CeedVectorFilter, CeedVectorReciprocal, pointerVars
  <1>14. ASSUME NEW v \in Vec, CallOnOne(v) PROVE PointerInv'
    BY <1>3, <1>4, <1>5, <1>6, <1>7, <1>8, <1>9, <1>10, <1>11, <1>12, <1>13, <1>14 DEF CallOnOne
  <1>15. ASSUME NEW y \in Vec, NEW x \in Vec, NEW val \in Value, AddScaled(y, x, val) PROVE PointerInv'
    BY <1>1, <1>11, <1>15 DEF AddScaled, pointerVars
  <1>16. ASSUME NEW v \in Vec, NEW w \in Vec, CeedVectorCopy(v, w) PROVE PointerInv'
    <2>1. ASSUME CopyPointers(w), w \notin Empty PROVE PointerInv'
      BY <2>1, PointersCopied
    <2> QED
      BY <1>1, <1>16, <2>1 DEF CeedVectorCopy, CopyPointers, SameLength, pointerVars
  <1>17. ASSUME NEW v \in Vec, NEW w \in Vec, NEW val \in Value, NEW r \in BOOLEAN,
                CeedVectorCopyStrided(v, w, r, val)
         PROVE PointerInv'
    BY <1>1, <1>17 DEF CeedVectorCopyStrided, pointerVars
  <1>18. ASSUME NEW v \in Vec, NEW w \in Vec, CallOnTwo(v, w) PROVE PointerInv'
    BY <1>4, <1>15, <1>16, <1>17, <1>18 DEF CallOnTwo, CeedVectorAXPY, CeedVectorAXPBY
  <1>19. ASSUME NEW w \in Vec, NEW x \in Vec, NEW y \in Vec, NEW val \in Value,
                CeedVectorPointwiseMult(w, x, y, val)
         PROVE PointerInv'
    BY <1>1, <1>2, <1>11, <1>19 DEF CeedVectorPointwiseMult, MultAllocate, NeedsArray, pointerVars
  <1> QED
    BY <1>3, <1>14, <1>18, <1>19 DEF Next, Live

LEMMA PointerInvInit == Init => PointerInv
  BY VecAssumption DEF Init, PointerInv, PointersAgree, ArraysAccounted, EmptyHasNone

LEMMA PointerInvariant == Spec => []PointerInv
  <1>1. TypeOK /\ PointerInv /\ [Next]_vars => PointerInv'
    BY PointersStep, PointersSame DEF vars, implVars, pointerVars
  <1> QED
    BY <1>1, PointerInvInit, TypeCorrect, PTL DEF Spec

\* In both backends a vector's data are in the memory it owns or in the memory lent to it, of
\* which it has at most one, after any sequence of SetArray, TakeArray, copies and writes.
THEOREM PointersCorrect == Spec => []PointersAgree
  BY PointerInvariant, PTL DEF PointerInv

\* No array given with CEED_OWN_POINTER is freed twice or by two vectors, an owned array always has
\* the vector that will free it, and no array is lent to two vectors. What is not claimed is that
\* none is lost: with a vector of length 0 around one can be, without there is none.
THEOREM ArraysCorrect == Spec => []ArraysAccounted
  BY PointerInvariant, PTL DEF PointerInv

(***************************************************************************)
(* References.                                                             *)
(***************************************************************************)
\* A handle is dropped from counts that have one reference for every handle but the new one.
LEMMA CountDestroy ==
  ASSUME TypeOK, HandlesCounted, NEW v \in Live, CeedVectorDestroy(v)
  PROVE  HandlesCounted'
  <1> USE DEF TypeOK, HandlesCounted, Live, CeedVectorDestroy, Dereference
  <1>1. CASE DestroyShared(v, ref_count)
    BY <1>1 DEF DestroyShared
  <1>2. CASE DestroyRefused(v, ref_count)
    BY <1>2 DEF DestroyRefused
  <1>3. CASE DestroyLast(v, ref_count)
    BY <1>3 DEF DestroyLast
  <1> QED
    BY <1>1, <1>2, <1>3 DEF DestroyReference

LEMMA CountCopyOver ==
  ASSUME TypeOK, HandlesCounted, NEW v \in Live, NEW w \in Live, CeedVectorReferenceCopyOver(v, w)
  PROVE  HandlesCounted'
  <1> DEFINE counts == [ref_count EXCEPT ![v] = @ + 1]
  <1> USE DEF TypeOK, HandlesCounted, Live, Dereference
  <1>1. CASE DestroyShared(w, counts)
    <2>1. handles' = [handles EXCEPT ![w] = @ - 1, ![v] = @ + 1] /\ UNCHANGED <<leaked, phase, refused>>
      BY <1>1 DEF DestroyShared, CeedVectorReferenceCopyOver
    <2>2. ref_count' = [counts EXCEPT ![w] = @ - 1] /\ counts[w] > 1
      BY <1>1 DEF DestroyShared
    <2>3. ASSUME NEW u \in Vec \ refused
          PROVE /\ ref_count'[u] = handles'[u] + leaked'[u]
                /\ phase'[u] = "live" <=> handles'[u] + leaked'[u] > 0
      <3>1. CASE u = v
        <4>1. CASE v = w
          <5>1. ref_count'[v] = ref_count[v] /\ handles'[v] = handles[v]
            BY <2>1, <2>2, <4>1
          <5> QED
            BY <2>1, <3>1, <5>1
        <4>2. CASE v # w
          <5>1. ref_count'[v] = ref_count[v] + 1 /\ handles'[v] = handles[v] + 1
            BY <2>1, <2>2, <4>2
          <5> QED
            BY <2>1, <3>1, <5>1
        <4> QED
          BY <4>1, <4>2
      <3>2. CASE u # v
        BY <2>1, <2>2, <3>2
      <3> QED
        BY <3>1, <3>2
    <2> QED
      BY <2>1, <2>3
  <1>2. CASE DestroyRefused(w, counts)
    BY <1>2 DEF DestroyRefused, CeedVectorReferenceCopyOver
  <1>3. CASE DestroyLast(w, counts)
    BY <1>3 DEF DestroyLast, CeedVectorReferenceCopyOver
  <1> QED
    BY <1>1, <1>2, <1>3 DEF DestroyReference, CeedVectorReferenceCopyOver

LEMMA CountStep == ASSUME TypeOK, HandlesCounted, Next PROVE HandlesCounted'
  <1> USE DEF TypeOK, HandlesCounted
  <1>1. ASSUME NEW v \in Vec, CeedVectorCreate(v) PROVE HandlesCounted'
    <2>1. ASSUME NEW u \in Vec \ refused
          PROVE /\ ref_count'[u] = handles'[u] + leaked'[u]
                /\ phase'[u] = "live" <=> handles'[u] + leaked'[u] > 0
                /\ phase'[u] # "torn"
      BY <1>1 DEF CeedVectorCreate
    <2> QED
      BY <1>1, <2>1 DEF CeedVectorCreate
  <1>2. ASSUME NEW v \in Live, CeedVectorReferenceCopy(v) PROVE HandlesCounted'
    BY <1>2 DEF CeedVectorReferenceCopy, Live
  <1>3. ASSUME UNCHANGED refVars PROVE HandlesCounted'
    BY <1>3 DEF refVars
  <1> QED
    BY <1>1, <1>2, <1>3, CountDestroy, CountCopyOver, ReferencesChange

\* For any number of references, copied to empty variables or over other handles: a vector none of
\* whose destructions was refused is destroyed with its last counted reference, neither before nor
\* after. A reference beside the handles exists only where a CeedVectorReferenceCopy was refused.
THEOREM ReferencesCorrect == Spec => []HandlesCounted
  <1>1. Init => HandlesCounted
    BY DEF Init, HandlesCounted
  <1>2. TypeOK /\ HandlesCounted /\ [Next]_vars => HandlesCounted'
    BY CountStep DEF vars, refVars, HandlesCounted
  <1> QED
    BY <1>1, <1>2, TypeCorrect, PTL DEF Spec
===============================================================================
