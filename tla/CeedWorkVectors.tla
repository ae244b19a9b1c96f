--------------------------- MODULE CeedWorkVectors ----------------------------
(***************************************************************************)
(* The pool of work vectors of one Ceed context (interface/ceed.c): the    *)
(* two arrays that grow by doubling, the search of GetWorkVector, the      *)
(* loop of ClearWorkVectors that fills holes with the last entry, and the  *)
(* reference counts around them.  A vector in the pool does not count as a *)
(* reference to its context unless it is lent, so that the context can go; *)
(* every call that destroys such a vector has to make up for that.         *)
(*                                                                         *)
(* Callers may hold references of their own to a vector of the pool, also  *)
(* after they gave it back and after it has left the pool.  They drop them *)
(* before the last reference to the context goes (OutsideDropped): what    *)
(* CeedWorkVectorsDestroy does otherwise is in the README.                 *)
(***************************************************************************)
EXTENDS Integers, FiniteSets, TLC

CONSTANTS
  Vec,        \* vectors
  Length,     \* lengths asked for
  NULL,
  MaxHandles, \* bound on the references to the context callers hold
  MaxOutside  \* bound on the references of their own callers hold to a vector

ASSUME PoolAssumption == NULL \notin Vec /\ Length \subseteq Nat \ {0}

VARIABLES
  vecs, is_in_use,     \* work_vectors->vecs and ->is_in_use, from index 0 to max_vecs - 1
  num_vecs, max_vecs,  \* entries in use, entries allocated
  length,              \* length[v], 0 for a vector that does not exist
  vec_refs,            \* vec_refs[v]: the vector's obj.ref_count
  ref_count,           \* the context's obj.ref_count
  handles,             \* history: references to the context that callers hold
  lent,                \* history: vectors callers got and have not restored
  outside,             \* history: references callers hold beside those
  reentered            \* history: CeedDestroy ran to its end inside a call on the pool

arrays == <<vecs, is_in_use, num_vecs, max_vecs>>
vars == <<arrays, length, vec_refs, ref_count, handles, lent, outside, reentered>>

Slots == 0 .. num_vecs - 1
Cells == 0 .. max_vecs - 1
InPool == {vecs[i] : i \in Slots}
Existing == {v \in Vec : vec_refs[v] > 0}

PoolTypeOK ==
  /\ max_vecs \in Nat /\ num_vecs \in 0 .. max_vecs
  /\ vecs \in [Cells -> Vec \cup {NULL}] /\ is_in_use \in [Cells -> BOOLEAN]
  /\ length \in [Vec -> Length \cup {0}]
  /\ vec_refs \in [Vec -> Nat] /\ outside \in [Vec -> Nat]
  /\ ref_count \in Nat /\ handles \in Nat
  /\ lent \in SUBSET Vec /\ reentered \in BOOLEAN

Empty == vecs = <<>> /\ is_in_use = <<>> /\ num_vecs = 0 /\ max_vecs = 0

Init ==
  /\ Empty
  /\ length = [v \in Vec |-> 0] /\ vec_refs = [v \in Vec |-> 0] /\ outside = [v \in Vec |-> 0]
  /\ ref_count = 1 /\ handles = 1
  /\ lent = {} /\ reentered = FALSE

(***************************************************************************)
(* Getting and restoring.                                                  *)
(***************************************************************************)
Adequate(i, len) == ~is_in_use[i] /\ length[vecs[i]] >= len

\* The first idle entry that is long enough, num_vecs when there is none.
Search(len) ==
  LET found == {i \in Slots : Adequate(i, len)}
  IN IF found = {} THEN num_vecs ELSE CHOOSE i \in found : \A j \in found : i <= j

Lend(v) ==
  /\ lent' = lent \cup {v}
  /\ ref_count' = ref_count + 1
  /\ UNCHANGED <<handles, outside, reentered>>

GetIdle(len) ==
  LET i == Search(len)
  IN /\ i < num_vecs
     /\ is_in_use' = [is_in_use EXCEPT ![i] = TRUE]
     /\ vec_refs' = [vec_refs EXCEPT ![vecs[i]] = @ + 1]
     /\ Lend(vecs[i])
     /\ UNCHANGED <<vecs, num_vecs, max_vecs, length>>

\* Mutant: the array is reallocated one call too late.
RoomLate == IF max_vecs = 0 THEN 1 ELSE IF max_vecs < num_vecs THEN 2 * max_vecs ELSE max_vecs

\* max_vecs after the growth that makes room for one more entry.
Room == IF max_vecs = 0 THEN 1 ELSE IF max_vecs = num_vecs THEN 2 * max_vecs ELSE max_vecs

\* CeedRealloc leaves the new cells uninitialised: any Boolean may be in them.
GetNew(len, v, junk) ==
  LET i == num_vecs
      kept(old, new) == [k \in 0 .. Room - 1 |-> IF k < max_vecs THEN old[k] ELSE new]
  IN /\ Search(len) = num_vecs
     /\ max_vecs' = Room
     /\ vecs' = [kept(vecs, NULL) EXCEPT ![i] = v]
     /\ is_in_use' = [kept(is_in_use, junk) EXCEPT ![i] = TRUE]
     /\ num_vecs' = num_vecs + 1
     /\ length' = [length EXCEPT ![v] = len]
     /\ vec_refs' = [vec_refs EXCEPT ![v] = 2]
     /\ Lend(v)

CeedGetWorkVector(len) ==
  /\ handles > 0
  /\ \/ GetIdle(len)
     \/ \E v \in Vec \ Existing, junk \in BOOLEAN : GetNew(len, v, junk)

\* Mutant: the entry is not marked idle again.
RestoreKeepsUse(v) ==
  \E i \in Slots :
    /\ vecs[i] = v
    /\ vec_refs' = [vec_refs EXCEPT ![v] = @ - 1]
    /\ ref_count' = ref_count - 1
    /\ lent' = lent \ {v}
    /\ UNCHANGED <<arrays, length, handles, outside, reentered>>

\* Mutant: the context still counts the vector.
RestoreKeepsCount(v) ==
  \E i \in Slots :
    /\ vecs[i] = v
    /\ is_in_use' = [is_in_use EXCEPT ![i] = FALSE]
    /\ vec_refs' = [vec_refs EXCEPT ![v] = @ - 1]
    /\ lent' = lent \ {v}
    /\ UNCHANGED <<vecs, num_vecs, max_vecs, length, ref_count, handles, outside, reentered>>

\* The count of the context is lowered without looking whether it was the last. A vector
\* that is not lent, or not of the pool, is refused and nothing changes here.
RestoreLent(v) ==
  \E i \in Slots :
    /\ vecs[i] = v
    /\ is_in_use' = [is_in_use EXCEPT ![i] = FALSE]
    /\ vec_refs' = [vec_refs EXCEPT ![v] = @ - 1]
    /\ ref_count' = ref_count - 1
    /\ lent' = lent \ {v}
    /\ UNCHANGED <<vecs, num_vecs, max_vecs, length, handles, outside, reentered>>

CeedRestoreWorkVector(v) == handles > 0 /\ RestoreLent(v)

(***************************************************************************)
(* Clearing and destroying.                                                *)
(***************************************************************************)
\* Mutant: the context is not protected while a vector of the pool is destroyed.
DestroyEntryUnprotected(s, v) ==
  IF s.refs[v] > 1 THEN [s EXCEPT !.refs[v] = @ - 1]
  ELSE [s EXCEPT !.refs[v] = 0, !.count = @ - 1, !.again = @ \/ s.count <= 1]

\* CeedVectorDestroy of an entry, between two CeedObjectReference and one
\* CeedObjectDereference of the context. The vector gives up its own reference to
\* the context only when it was the last one to the vector.
DestroyEntry(s, v) ==
  IF s.refs[v] > 1 THEN [s EXCEPT !.refs[v] = @ - 1, !.count = @ + 1]
  ELSE [s EXCEPT !.refs[v] = 0, !.again = @ \/ s.count + 1 <= 0]

\* Mutant: the entry that fills the hole is not looked at.
FillHoleAndPass(s) ==
  LET last == s.num - 1
  IN IF last = 0 THEN [s EXCEPT !.num = 0, !.vecs[s.i] = NULL, !.i = @ + 1]
     ELSE [s EXCEPT !.num = last, !.i = @ + 1,
                    !.vecs[s.i] = IF s.i = last THEN NULL ELSE s.vecs[last],
                    !.used = [s.used EXCEPT ![s.i] = s.used[last], ![last] = FALSE]]

\* The last entry moves into the hole, and is looked at next.
FillHole(s) ==
  LET last == s.num - 1
  IN IF last = 0 THEN [s EXCEPT !.num = 0, !.vecs[s.i] = NULL, !.i = @ + 1]
     ELSE [s EXCEPT !.num = last,
                    !.vecs[s.i] = IF s.i = last THEN NULL ELSE s.vecs[last],
                    !.used = [s.used EXCEPT ![s.i] = s.used[last], ![last] = FALSE]]

ClearStep(s, min_len) ==
  IF s.i >= s.num THEN s
  ELSE IF s.used[s.i] \/ length[s.vecs[s.i]] >= min_len THEN [s EXCEPT !.i = @ + 1]
  ELSE FillHole(DestroyEntry(s, s.vecs[s.i]))

\* Each round either passes an entry or drops one, so num_vecs rounds are enough.
Cleared(min_len) ==
  LET start == [i |-> 0, num |-> num_vecs, vecs |-> vecs, used |-> is_in_use,
                refs |-> vec_refs, count |-> ref_count, again |-> reentered]
      round[k \in 0 .. num_vecs] == IF k = 0 THEN start ELSE ClearStep(round[k - 1], min_len)
  IN round[num_vecs]

LengthsOf(refs) == [v \in Vec |-> IF refs[v] = 0 THEN 0 ELSE length[v]]

CeedClearWorkVectors(min_len) ==
  LET s == Cleared(min_len)
  IN /\ handles > 0
     /\ num_vecs' = s.num /\ vecs' = s.vecs /\ is_in_use' = s.used
     /\ vec_refs' = s.refs /\ ref_count' = s.count /\ reentered' = s.again
     /\ length' = LengthsOf(s.refs)
     /\ UNCHANGED <<max_vecs, handles, lent, outside>>

\* Callers drop their own references to vectors of the pool before the context goes.
OutsideDropped == \A v \in InPool : outside[v] = 0

\* CeedWorkVectorsDestroy destroys every entry while the count stands at 0; its check
\* that no entry is in use cannot fail, by ContextReferences.
WorkVectorsDestroy(refs) ==
  LET start == [refs |-> refs, count |-> 0, again |-> FALSE]
      round[k \in 0 .. num_vecs] ==
        IF k = 0 THEN start ELSE DestroyEntry(round[k - 1], vecs[k - 1])
      s == round[num_vecs]
  IN /\ OutsideDropped
     /\ vecs' = <<>> /\ is_in_use' = <<>> /\ num_vecs' = 0 /\ max_vecs' = 0
     /\ vec_refs' = s.refs /\ ref_count' = s.count /\ reentered' = s.again
     /\ length' = LengthsOf(s.refs)

\* CeedDestroy, by a caller or by the destruction of an object; refs are the counts of
\* the vectors at that moment.
Release(refs) ==
  \/ /\ ref_count > 1
     /\ ref_count' = ref_count - 1
     /\ vec_refs' = refs /\ length' = LengthsOf(refs)
     /\ UNCHANGED <<arrays, reentered>>
  \/ ref_count = 1 /\ WorkVectorsDestroy(refs)

CeedDestroy ==
  /\ handles > 0
  /\ handles' = handles - 1
  /\ Release(vec_refs)
  /\ UNCHANGED <<lent, outside>>

(***************************************************************************)
(* References.                                                             *)
(***************************************************************************)
\* A new context, once the one before is gone.
CeedInit ==
  /\ ref_count = 0
  /\ ref_count' = 1 /\ handles' = 1
  /\ UNCHANGED <<arrays, length, vec_refs, lent, outside, reentered>>

AddHandle ==
  /\ handles < MaxHandles
  /\ handles' = handles + 1
  /\ ref_count' = ref_count + 1
  /\ UNCHANGED <<arrays, length, vec_refs, lent, outside, reentered>>

CeedReferenceCopy == handles > 0 /\ AddHandle

\* A caller with a vector gets at the context through it.
CeedVectorGetCeed(v) == (v \in lent \/ outside[v] > 0) /\ AddHandle

CeedVectorReferenceCopy(v) ==
  /\ v \in lent \/ outside[v] > 0
  /\ outside[v] < MaxOutside
  /\ outside' = [outside EXCEPT ![v] = @ + 1]
  /\ vec_refs' = [vec_refs EXCEPT ![v] = @ + 1]
  /\ UNCHANGED <<arrays, length, ref_count, handles, lent, reentered>>

\* Of a reference of the caller's own: the last one to a vector that has left the pool
\* gives the context back.
CeedVectorDestroy(v) ==
  /\ outside[v] > 0
  /\ outside' = [outside EXCEPT ![v] = @ - 1]
  /\ LET refs == [vec_refs EXCEPT ![v] = @ - 1]
     IN IF refs[v] = 0 THEN Release(refs)
        ELSE vec_refs' = refs /\ UNCHANGED <<arrays, length, ref_count, reentered>>
  /\ UNCHANGED <<handles, lent>>

Next ==
  \/ \E len \in Length : CeedGetWorkVector(len) \/ CeedClearWorkVectors(len)
  \/ \E v \in lent : CeedRestoreWorkVector(v)
  \/ \E v \in Vec : CeedVectorGetCeed(v) \/ CeedVectorReferenceCopy(v) \/ CeedVectorDestroy(v)
  \/ CeedInit \/ CeedReferenceCopy \/ CeedDestroy

Spec == Init /\ [][Next]_vars

(***************************************************************************)
(* Properties.                                                             *)
(***************************************************************************)
\* The entries of the pool are different vectors that exist, one is in use exactly when a
\* caller has it, and a vector outside the pool exists only by its callers' references:
\* no vector is lost and none is destroyed under a caller (interface/ceed.c:844-978).
PoolAccounted ==
  /\ \A i, j \in Slots : vecs[i] = vecs[j] => i = j
  /\ {vecs[i] : i \in {j \in Slots : is_in_use[j]}} = lent
  /\ \A v \in Vec :
       vec_refs[v] = outside[v] + (IF v \in InPool THEN 1 ELSE 0) + (IF v \in lent THEN 1 ELSE 0)

\* The context is kept by its handles, by the vectors it has lent, and by those that have
\* left the pool, and by nothing else; so it goes exactly when none is left, and
\* CeedWorkVectorsDestroy never finds a vector in use (interface/ceed.c:168).
ContextReferences ==
  ref_count = handles + Cardinality(lent) + Cardinality(Existing \ InPool)

\* "increase ref_count to prevent Ceed destructor from triggering" (interface/ceed.c:861).
NeverReentered == ~reentered

Pool == INSTANCE WorkPool WITH size <- [v \in InPool |-> length[v]]

\* The arrays do what a pool promises: one user at a time, long enough, no needless vectors.
KeepsPoolPromise == Pool!PoolSpec
===============================================================================
