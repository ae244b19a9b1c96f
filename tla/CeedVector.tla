------------------------------ MODULE CeedVector ------------------------------
(***************************************************************************)
(* CeedVector: the interface of interface/ceed-vector.c over one of two    *)
(* CPU backends, /cpu/self/ref (backends/ref/ceed-ref-vector.c) and        *)
(* /cpu/self/memcheck (backends/memcheck/ceed-memcheck-vector.c).          *)
(*                                                                         *)
(* The library is sequential, so a call is one step; what interleaves is   *)
(* the accesses that callers hold from a Get to the matching Restore.      *)
(* Every public call may be made at any time on a live vector; it either   *)
(* succeeds or returns an error code, kept in err, and an error that comes *)
(* after a part of the work leaves that part done, as the code does.       *)
(*                                                                         *)
(* The contents of an array are one element of Value: whole-array          *)
(* arithmetic is "some new value", a copy is the same value.               *)
(***************************************************************************)
EXTENDS Integers, FiniteSets

CONSTANTS
  Vec,        \* the CeedVectors; v \in Vec also names v's library allocation
  Array,      \* the arrays callers can hand to SetArray
  Value,      \* what an array can contain
  Unset,      \* contents of a library allocation nobody filled (0 or NaN)
  NULL,
  Empty,      \* the vectors of length 0
  Backend,    \* "ref" or "memcheck"
  MaxState,   \* bound: largest value of a state counter
  MaxReaders, \* bound: largest number of readers of a vector
  MaxRef,     \* bound: largest number of references to a vector
  MaxLeaked   \* bound: references to a vector left behind by refused calls

ASSUME VecAssumption ==
  /\ Vec \cap Array = {}
  /\ NULL \notin Vec \cup Array \cup Value \cup {Unset}
  /\ Empty \subseteq Vec
  /\ Backend \in {"ref", "memcheck"}
ASSUME BoundAssumption == {MaxState, MaxReaders, MaxRef, MaxLeaked} \subseteq Nat

VARIABLES
  phase,          \* "none" before Create, "live", "destroyed", or "torn"
  ref_count,      \* obj.ref_count
  handles,        \* history: handles to the vector that callers hold
  leaked,         \* history: references that were counted for a handle nobody got
  refused,        \* history: the vectors whose destruction was refused once
  state,          \* vec->state: odd while write access is granted
  num_readers,    \* vec->num_readers
  array,          \* ref: impl->array; memcheck: impl->array_allocated
  owned,          \* impl->array_owned
  borrowed,       \* impl->array_borrowed
  writable_copy,  \* memcheck: contents of impl->array_writable_copy
  read_only_copy, \* memcheck: contents of impl->array_read_only_copy
  mem,            \* contents of each array and each library allocation
  owner,          \* who must free each array
  writer,         \* history: the vectors a caller holds a writable pointer of
  err             \* error code returned by the last call

implVars == <<array, owned, borrowed, mem, owner>>
copyVars == <<writable_copy, read_only_copy>>
lockVars == <<state, num_readers>>
refVars  == <<phase, ref_count, handles, leaked, refused>>
vars     == <<refVars, lockVars, implVars, copyVars, writer, err>>

Contents == Value \cup {Unset}
Location == Array \cup Vec
Memcheck == Backend = "memcheck"

TypeOK ==
  /\ phase \in [Vec -> {"none", "live", "destroyed", "torn"}]
  /\ ref_count \in [Vec -> Int]
  /\ handles \in [Vec -> Nat]
  /\ leaked \in [Vec -> Nat]
  /\ refused \subseteq Vec
  /\ state \in [Vec -> Nat]
  /\ num_readers \in [Vec -> Nat]
  /\ array \in [Vec -> Location \cup {NULL}]
  /\ owned \in [Vec -> Location \cup {NULL}]
  /\ borrowed \in [Vec -> Array \cup {NULL}]
  /\ writable_copy \in [Vec -> Contents \cup {NULL}]
  /\ read_only_copy \in [Vec -> Contents \cup {NULL}]
  /\ mem \in [Location -> Contents]
  /\ owner \in [Array -> {"user", "library", "freed", "lost"}]
  /\ writer \subseteq Vec
  /\ err \in {"success", "access", "incomplete", "incompatible", "backend", "unsupported"}

\* include/ceed/types.h: a positive error code is nonterminal.
Nonterminal == {"access", "incomplete", "incompatible"}

Init ==
  /\ phase = [v \in Vec |-> "none"]
  /\ ref_count = [v \in Vec |-> 0]
  /\ handles = [v \in Vec |-> 0]
  /\ leaked = [v \in Vec |-> 0]
  /\ refused = {}
  /\ state = [v \in Vec |-> 0]
  /\ num_readers = [v \in Vec |-> 0]
  /\ array = [v \in Vec |-> NULL]
  /\ owned = [v \in Vec |-> NULL]
  /\ borrowed = [v \in Vec |-> NULL]
  /\ writable_copy = [v \in Vec |-> NULL]
  /\ read_only_copy = [v \in Vec |-> NULL]
  /\ mem = [l \in Location |-> Unset]
  /\ owner = [a \in Array |-> "user"]
  /\ writer = {}
  /\ err = "success"

(***************************************************************************)
(* What the interface checks before it grants an access.                   *)
(***************************************************************************)
Even(v) == state[v] % 2 = 0
Free(v) == Even(v) /\ num_readers[v] = 0
HasValidArray(v) == v \in Empty \/ array[v] # NULL
Content(v) == mem[array[v]]

\* A call that returns an error before it changed anything.
Reject(code) == err' = code /\ UNCHANGED <<refVars, lockVars, implVars, copyVars, writer>>
Accept == err' = "success" /\ UNCHANGED <<refVars, lockVars, implVars, copyVars, writer>>

Bump(v, n) ==
  /\ state[v] + n <= MaxState
  /\ state' = [state EXCEPT ![v] = @ + n]

(***************************************************************************)
(* Backend pieces.                                                         *)
(***************************************************************************)
\* Where contents stored through a writable access end up: the array itself, or the internal
\* buffer and, by the sync at the end of memcheck's RestoreArray, the caller's array.
Targets(v) == IF Memcheck THEN {v, owned[v], borrowed[v]} ELSE {array[v]}
Stored(v, val) == [l \in Location |-> IF l \in Targets(v) THEN val ELSE mem[l]]

\* Mutant: CopyTarget that always allocates, even under a lent array.
CopyTargetFresh(v) == v

\* The array COPY_VALUES copies into.
CopyTarget(v) ==
  IF Memcheck THEN v
  ELSE IF array[v] # NULL THEN array[v]
  ELSE IF borrowed[v] # NULL THEN borrowed[v]
  ELSE IF owned[v] # NULL THEN owned[v] ELSE v

\* With no source the ref backend keeps what is there; memcheck allocates afresh.
CopyContents(v, source) ==
  IF source # NULL THEN source
  ELSE IF ~Memcheck /\ CopyTarget(v) \in {array[v], owned[v], borrowed[v]} THEN mem[CopyTarget(v)]
  ELSE Unset

\* vec->SetArray with CEED_COPY_VALUES.
CopyValues(v, source) ==
  /\ array' = [array EXCEPT ![v] = CopyTarget(v)]
  /\ owned' = [owned EXCEPT ![v] = IF ~Memcheck /\ CopyTarget(v) = v THEN v ELSE @]
  /\ mem' = [mem EXCEPT ![CopyTarget(v)] = CopyContents(v, source)]
  /\ UNCHANGED <<borrowed, owner>>

\* Array a gets to hold val and becomes v's data; memcheck copies it into its own buffer.
Received(v, a, val) ==
  /\ array' = [array EXCEPT ![v] = IF Memcheck THEN v ELSE a]
  /\ mem' = [l \in Location |-> IF l = a \/ (Memcheck /\ l = v) THEN val ELSE mem[l]]

\* The array owned so far is freed, and the new one is the library's to free if it is owned.
OwnerAfter(v, copy_mode, a) ==
  [b \in Array |-> IF b = owned[v] THEN "freed"
                   ELSE IF b = a /\ copy_mode = "own" THEN "library" ELSE owner[b]]

\* Mutants of HandOver: the old array_borrowed, or the old array_owned, is not reset; the old
\* owned array is not freed.
HandOverKeepsBorrowed(v, copy_mode, a, val) ==
  /\ owner' = OwnerAfter(v, copy_mode, a)
  /\ owned' = [owned EXCEPT ![v] = IF copy_mode = "own" THEN a ELSE NULL]
  /\ borrowed' = [borrowed EXCEPT ![v] = IF copy_mode = "use" THEN a ELSE @]
  /\ Received(v, a, val)
HandOverKeepsOwned(v, copy_mode, a, val) ==
  /\ owner' = OwnerAfter(v, copy_mode, a)
  /\ owned' = [owned EXCEPT ![v] = IF copy_mode = "own" THEN a ELSE @]
  /\ borrowed' = [borrowed EXCEPT ![v] = IF copy_mode = "use" THEN a ELSE NULL]
  /\ Received(v, a, val)
HandOverLeaks(v, copy_mode, a, val) ==
  /\ owner' = [owner EXCEPT ![a] = IF copy_mode = "own" THEN "library" ELSE @]
  /\ owned' = [owned EXCEPT ![v] = IF copy_mode = "own" THEN a ELSE NULL]
  /\ borrowed' = [borrowed EXCEPT ![v] = IF copy_mode = "use" THEN a ELSE NULL]
  /\ Received(v, a, val)

\* vec->SetArray with CEED_OWN_POINTER or CEED_USE_POINTER.
HandOver(v, copy_mode, a, val) ==
  /\ owner' = OwnerAfter(v, copy_mode, a)
  /\ owned' = [owned EXCEPT ![v] = IF copy_mode = "own" THEN a ELSE NULL]
  /\ borrowed' = [borrowed EXCEPT ![v] = IF copy_mode = "use" THEN a ELSE NULL]
  /\ Received(v, a, val)

\* GetArrayWrite on a vector with no array allocates one. The ref backend goes through the
\* public CeedVectorSetArray, which adds 2 to state.
NeedsArray(v) == v \notin Empty /\ array[v] = NULL
WriteBump(v) == IF NeedsArray(v) /\ ~Memcheck THEN 2 ELSE 0

\* An array a caller may hand to v: its own, and lent to no other vector.
Available(v, a) == owner[a] = "user" /\ \A u \in Vec \ {v} : borrowed[u] # a

(***************************************************************************)
(* Life of the object.                                                     *)
(***************************************************************************)
CeedVectorCreate(v) ==
  /\ phase[v] = "none"
  /\ phase' = [phase EXCEPT ![v] = "live"]
  /\ ref_count' = [ref_count EXCEPT ![v] = 1]
  /\ handles' = [handles EXCEPT ![v] = 1]
  /\ err' = "success"
  /\ UNCHANGED <<leaked, refused, lockVars, implVars, copyVars, writer>>

\* Mutant: the pointer is copied without CeedVectorReference.
ReferenceCopyUncounted(v) ==
  /\ handles[v] < MaxRef
  /\ handles' = [handles EXCEPT ![v] = @ + 1]
  /\ err' = "success"
  /\ UNCHANGED <<phase, ref_count, leaked, refused, lockVars, implVars, copyVars, writer>>

\* The variable the pointer is copied to is NULL.
CeedVectorReferenceCopy(v) ==
  /\ ref_count[v] < MaxRef
  /\ handles[v] < MaxRef
  /\ ref_count' = [ref_count EXCEPT ![v] = @ + 1]
  /\ handles' = [handles EXCEPT ![v] = @ + 1]
  /\ err' = "success"
  /\ UNCHANGED <<phase, leaked, refused, lockVars, implVars, copyVars, writer>>

\* CeedVectorDestroy finds the references as counts has them.
Dereference(v, counts) == ref_count' = [counts EXCEPT ![v] = @ - 1]

\* Other references remain.
DestroyShared(v, counts) ==
  /\ counts[v] - 1 > 0
  /\ Dereference(v, counts)
  /\ err' = "success"
  /\ UNCHANGED <<phase, refused, lockVars, implVars, copyVars, writer>>

\* The last reference is dropped, and only then the access checks fail. Each further attempt
\* drops one more; -MaxRef bounds how many.
DestroyRefused(v, counts) ==
  /\ -MaxRef < counts[v] /\ counts[v] - 1 <= 0
  /\ ~Free(v)
  /\ Dereference(v, counts)
  /\ refused' = refused \cup {v}
  /\ err' = "access"
  /\ UNCHANGED <<phase, lockVars, implVars, copyVars, writer>>

\* The backend part is freed; CeedObjectDestroy_Private then insists on a count of exactly 0.
DestroyLast(v, counts) ==
  /\ counts[v] - 1 <= 0
  /\ Free(v)
  /\ Dereference(v, counts)
  /\ owner' = [a \in Array |-> IF a = owned[v] THEN "freed" ELSE owner[a]]
  /\ array' = [array EXCEPT ![v] = NULL]
  /\ owned' = [owned EXCEPT ![v] = NULL]
  /\ borrowed' = [borrowed EXCEPT ![v] = NULL]
  /\ IF counts[v] = 1
     THEN phase' = [phase EXCEPT ![v] = "destroyed"] /\ err' = "success"
     ELSE phase' = [phase EXCEPT ![v] = "torn"] /\ err' = "unsupported"
  /\ UNCHANGED <<refused, lockVars, mem, copyVars, writer>>

DestroyReference(v, counts) ==
  DestroyShared(v, counts) \/ DestroyRefused(v, counts) \/ DestroyLast(v, counts)

\* The caller's variable is reset only when the call succeeds.
CeedVectorDestroy(v) ==
  /\ DestroyReference(v, ref_count)
  /\ handles' = IF err' = "success" THEN [handles EXCEPT ![v] = @ - 1] ELSE handles
  /\ UNCHANGED leaked

\* The variable the pointer is copied to holds a handle to w, which may be v itself. The new
\* reference is counted, then w is destroyed; when that fails the variable keeps w, and the
\* reference to v is nobody's.
CeedVectorReferenceCopyOver(v, w) ==
  /\ v # w => ref_count[v] < MaxRef /\ handles[v] < MaxRef
  /\ DestroyReference(w, [ref_count EXCEPT ![v] = @ + 1])
  /\ IF err' = "success"
     THEN handles' = [handles EXCEPT ![w] = @ - 1, ![v] = @ + 1] /\ UNCHANGED leaked
     ELSE leaked[v] < MaxLeaked /\ leaked' = [leaked EXCEPT ![v] = @ + 1] /\ UNCHANGED handles

(***************************************************************************)
(* Handing arrays over and taking them back.                               *)
(***************************************************************************)
CeedVectorSetArrayCopy(v, source) ==
  \/ ~Free(v) /\ Reject("access")
  \/ /\ Free(v)
     /\ IF v \in Empty THEN UNCHANGED implVars ELSE CopyValues(v, source)
     /\ Bump(v, 2)
     /\ err' = "success"
     /\ UNCHANGED <<refVars, num_readers, copyVars, writer>>

\* A vector of length 0 forgets the array: with CEED_OWN_POINTER nobody is left to free it.
CeedVectorSetArrayPointer(v, copy_mode, a, val) ==
  \/ ~Free(v) /\ Reject("access")
  \/ /\ Free(v) /\ Available(v, a)
     /\ IF v \in Empty
        THEN /\ owner' = [owner EXCEPT ![a] = IF copy_mode = "own" THEN "lost" ELSE @]
             /\ UNCHANGED <<array, owned, borrowed, mem>>
        ELSE HandOver(v, copy_mode, a, val)
     /\ Bump(v, 2)
     /\ err' = "success"
     /\ UNCHANGED <<refVars, num_readers, copyVars, writer>>

HasBorrowedArray(v) == v \in Empty \/ borrowed[v] # NULL

\* Mutant: memcheck does not sync the caller's array before it forgets it.
TakeArrayUnsynced(v) ==
  /\ Free(v) /\ v \notin Empty /\ HasBorrowedArray(v) /\ HasValidArray(v)
  /\ array' = [array EXCEPT ![v] = NULL]
  /\ borrowed' = [borrowed EXCEPT ![v] = NULL]
  /\ err' = "success"
  /\ UNCHANGED <<refVars, lockVars, mem, owned, owner, copyVars, writer>>

\* memcheck copies its buffer to the caller's array first; state does not change.
CeedVectorTakeArray(v) ==
  \/ ~Free(v) /\ Reject("access")
  \/ Free(v) /\ ~(HasBorrowedArray(v) /\ HasValidArray(v)) /\ Reject("backend")
  \/ Free(v) /\ v \in Empty /\ Accept
  \/ /\ Free(v) /\ v \notin Empty /\ HasBorrowedArray(v) /\ HasValidArray(v)
     /\ mem' = IF Memcheck THEN Stored(v, Content(v)) ELSE mem
     /\ array' = [array EXCEPT ![v] = NULL]
     /\ borrowed' = [borrowed EXCEPT ![v] = NULL]
     /\ err' = "success"
     /\ UNCHANGED <<refVars, lockVars, owned, owner, copyVars, writer>>

(***************************************************************************)
(* Accesses held by callers.                                               *)
(***************************************************************************)
CeedVectorGetArray(v) ==
  \/ ~Free(v) /\ Reject("access")
  \/ Free(v) /\ ~HasValidArray(v) /\ Reject("backend")
  \/ /\ Free(v) /\ HasValidArray(v)
     /\ writable_copy' = IF Memcheck /\ v \notin Empty
                         THEN [writable_copy EXCEPT ![v] = Content(v)] ELSE writable_copy
     /\ Bump(v, 1)
     /\ writer' = writer \cup {v}
     /\ err' = "success"
     /\ UNCHANGED <<refVars, num_readers, implVars, read_only_copy>>

CeedVectorGetArrayWrite(v) ==
  \/ ~Free(v) /\ Reject("access")
  \/ /\ Free(v)
     /\ IF NeedsArray(v) THEN CopyValues(v, NULL) ELSE UNCHANGED implVars
     /\ writable_copy' = IF Memcheck /\ v \notin Empty
                         THEN [writable_copy EXCEPT ![v] = Unset] ELSE writable_copy
     /\ Bump(v, WriteBump(v) + 1)
     /\ writer' = writer \cup {v}
     /\ err' = "success"
     /\ UNCHANGED <<refVars, num_readers, read_only_copy>>

\* A caller stores through the pointer that GetArray or GetArrayWrite returned.
WriteThrough(v, val) ==
  /\ v \in writer \ Empty
  /\ IF Memcheck
     THEN writable_copy' = [writable_copy EXCEPT ![v] = val] /\ UNCHANGED mem
     ELSE mem' = [mem EXCEPT ![array[v]] = val] /\ UNCHANGED writable_copy
  /\ err' = "success"
  /\ UNCHANGED <<refVars, lockVars, array, owned, borrowed, owner, read_only_copy, writer>>

\* Mutant: the writable copy outlives the access.
RestoreArrayKeepsCopy(v) ==
  /\ ~Even(v)
  /\ mem' = IF Memcheck /\ v \notin Empty THEN Stored(v, writable_copy[v]) ELSE mem
  /\ Bump(v, 1)
  /\ writer' = writer \ {v}
  /\ err' = "success"
  /\ UNCHANGED <<refVars, num_readers, array, owned, borrowed, owner, copyVars>>

CeedVectorRestoreArray(v) ==
  \/ Even(v) /\ Reject("access")
  \/ /\ ~Even(v)
     /\ IF Memcheck /\ v \notin Empty
        THEN mem' = Stored(v, writable_copy[v]) /\ writable_copy' = [writable_copy EXCEPT ![v] = NULL]
        ELSE UNCHANGED <<mem, writable_copy>>
     /\ Bump(v, 1)
     /\ writer' = writer \ {v}
     /\ err' = "success"
     /\ UNCHANGED <<refVars, num_readers, array, owned, borrowed, owner, read_only_copy>>

\* Mutant: a fresh copy for every reader.
ReadCopyFresh(v) == Content(v)

\* What memcheck hands to a reader: one copy, made for the first and shared by the others.
ReadCopy(v) == IF read_only_copy[v] = NULL THEN Content(v) ELSE read_only_copy[v]

\* Mutant: the state is not checked.
GetArrayReadUnchecked(v) ==
  /\ HasValidArray(v) /\ num_readers[v] < MaxReaders
  /\ read_only_copy' = IF Memcheck /\ v \notin Empty
                       THEN [read_only_copy EXCEPT ![v] = ReadCopy(v)] ELSE read_only_copy
  /\ num_readers' = [num_readers EXCEPT ![v] = @ + 1]
  /\ err' = "success"
  /\ UNCHANGED <<refVars, state, implVars, writable_copy, writer>>

CeedVectorGetArrayRead(v) ==
  \/ ~Even(v) /\ Reject("access")
  \/ Even(v) /\ ~HasValidArray(v) /\ Reject("backend")
  \/ /\ Even(v) /\ HasValidArray(v) /\ num_readers[v] < MaxReaders
     /\ read_only_copy' = IF Memcheck /\ v \notin Empty
                          THEN [read_only_copy EXCEPT ![v] = ReadCopy(v)] ELSE read_only_copy
     /\ num_readers' = [num_readers EXCEPT ![v] = @ + 1]
     /\ err' = "success"
     /\ UNCHANGED <<refVars, state, implVars, writable_copy, writer>>

\* memcheck compares its buffer with the readers' copy when the last reader is done.
ReadVerified(v) == Memcheck /\ v \notin Empty => read_only_copy[v] = mem[v]

\* Mutant: more restores than gets.
RestoreArrayReadUnchecked(v) ==
  /\ num_readers' = [num_readers EXCEPT ![v] = @ - 1]
  /\ err' = "success"
  /\ UNCHANGED <<refVars, state, implVars, copyVars, writer>>

CeedVectorRestoreArrayRead(v) ==
  \/ num_readers[v] = 0 /\ Reject("access")
  \/ /\ num_readers[v] > 0
     /\ num_readers' = [num_readers EXCEPT ![v] = @ - 1]
     /\ IF num_readers[v] > 1
        THEN err' = "success" /\ UNCHANGED read_only_copy
        ELSE IF ReadVerified(v)
             THEN err' = "success" /\ read_only_copy' = [read_only_copy EXCEPT ![v] = NULL]
             ELSE err' = "backend" /\ UNCHANGED read_only_copy
     /\ UNCHANGED <<refVars, state, implVars, writable_copy, writer>>

(***************************************************************************)
(* Calls that read the whole vector and return with the access released:   *)
(* Norm, View and, where the backend has no SyncArray of its own, Sync.    *)
(***************************************************************************)
ReadWhole(v) ==
  \/ ~HasValidArray(v) /\ Reject("backend")
  \/ HasValidArray(v) /\ ~Even(v) /\ Reject("access")
  \/ /\ HasValidArray(v) /\ Even(v)
     /\ IF Memcheck /\ v \notin Empty /\ num_readers[v] = 0 /\ read_only_copy[v] # NULL
        THEN IF ReadVerified(v)
             THEN err' = "success" /\ read_only_copy' = [read_only_copy EXCEPT ![v] = NULL]
             ELSE err' = "backend" /\ UNCHANGED read_only_copy
        ELSE err' = "success" /\ UNCHANGED read_only_copy
     /\ UNCHANGED <<refVars, lockVars, implVars, writable_copy, writer>>

CeedVectorNorm(v) == IF v \in Empty THEN Accept ELSE ReadWhole(v)

CeedVectorSyncArray(v) ==
  \/ ~Even(v) /\ Reject("access")
  \/ Even(v) /\ v \in Empty /\ Accept
  \/ Even(v) /\ v \notin Empty /\ ~Memcheck /\ ReadWhole(v)
  \/ /\ Even(v) /\ v \notin Empty /\ Memcheck
     /\ mem' = Stored(v, mem[v])
     /\ err' = "success"
     /\ UNCHANGED <<refVars, lockVars, array, owned, borrowed, owner, copyVars, writer>>

(***************************************************************************)
(* Calls that write the whole vector.                                      *)
(***************************************************************************)
\* Mutants: the state does not move; the values are written before the access checks.
SetValueStateless(v, val) ==
  /\ Free(v) /\ v \notin Empty
  /\ IF NeedsArray(v) THEN CopyValues(v, val)
     ELSE mem' = [mem EXCEPT ![array[v]] = val] /\ UNCHANGED <<array, owned, borrowed, owner>>
  /\ err' = "success"
  /\ UNCHANGED <<refVars, lockVars, copyVars, writer>>
SetValueUnchecked(v, val) ==
  /\ HasValidArray(v)
  /\ mem' = [mem EXCEPT ![array[v]] = val]
  /\ IF Free(v) THEN Bump(v, 2) /\ err' = "success" ELSE err' = "access" /\ UNCHANGED state
  /\ UNCHANGED <<refVars, num_readers, array, owned, borrowed, owner, copyVars, writer>>

\* GetArrayWrite, fill, RestoreArray (ref) or the backend's own SetValue (memcheck), which
\* fills the internal buffer only: the caller's array is synced later.
CeedVectorSetValue(v, val) ==
  \/ ~Free(v) /\ Reject("access")
  \/ Free(v) /\ v \in Empty /\ Bump(v, 2) /\ err' = "success"
     /\ UNCHANGED <<refVars, num_readers, implVars, copyVars, writer>>
  \/ /\ Free(v) /\ v \notin Empty
     /\ IF NeedsArray(v) THEN CopyValues(v, val)
        ELSE mem' = [mem EXCEPT ![array[v]] = val] /\ UNCHANGED <<array, owned, borrowed, owner>>
     /\ Bump(v, WriteBump(v) + 2)
     /\ err' = "success"
     /\ UNCHANGED <<refVars, num_readers, copyVars, writer>>

\* Part of the array is set: ref needs a valid array, memcheck allocates one.
CeedVectorSetValueStrided(v, in_range, val) ==
  \/ ~(Free(v) /\ in_range) /\ Reject("access")
  \/ Free(v) /\ in_range /\ v \in Empty /\ ~Memcheck /\ Accept
  \/ Free(v) /\ in_range /\ NeedsArray(v) /\ ~Memcheck /\ Reject("backend")
  \/ /\ Free(v) /\ in_range
     /\ Memcheck \/ ~(v \in Empty \/ NeedsArray(v))
     /\ IF v \in Empty THEN UNCHANGED implVars
        ELSE IF NeedsArray(v) THEN CopyValues(v, val)
        ELSE mem' = [mem EXCEPT ![array[v]] = val] /\ UNCHANGED <<array, owned, borrowed, owner>>
     /\ Bump(v, 2)
     /\ err' = "success"
     /\ UNCHANGED <<refVars, num_readers, copyVars, writer>>

\* Mutant: no RestoreArray.
UpdateArrayStrands(v, val) ==
  /\ Free(v)
  /\ mem' = Stored(v, val)
  /\ Bump(v, 1)
  /\ err' = "success"
  /\ UNCHANGED <<refVars, num_readers, array, owned, borrowed, owner, copyVars, writer>>

\* The default implementations: GetArray, compute, RestoreArray.
UpdateArray(v, val) ==
  \/ ~Free(v) /\ Reject("access")
  \/ /\ Free(v)
     /\ mem' = Stored(v, val)
     /\ Bump(v, 2)
     /\ err' = "success"
     /\ UNCHANGED <<refVars, num_readers, array, owned, borrowed, owner, copyVars, writer>>

\* memcheck's own implementations: the internal buffer changes, whatever access is granted,
\* and neither state nor the caller's array follows.
UpdateBuffer(v, val) ==
  /\ mem' = [mem EXCEPT ![array[v]] = val]
  /\ err' = "success"
  /\ UNCHANGED <<refVars, lockVars, array, owned, borrowed, owner, copyVars, writer>>

CeedVectorScale(v, val) ==
  \/ ~HasValidArray(v) /\ Reject("backend")
  \/ v \in Empty /\ Accept
  \/ /\ HasValidArray(v) /\ v \notin Empty
     /\ IF Memcheck THEN UpdateBuffer(v, val) ELSE UpdateArray(v, val)

CeedVectorFilter(v, val) ==
  \/ ~HasValidArray(v) /\ Reject("backend")
  \/ v \in Empty /\ Accept
  \/ HasValidArray(v) /\ v \notin Empty /\ UpdateArray(v, val)

CeedVectorReciprocal(v, val) ==
  \/ ~HasValidArray(v) /\ Reject("backend")
  \/ HasValidArray(v) /\ state[v] = 0 /\ Reject("incomplete")
  \/ HasValidArray(v) /\ state[v] > 0 /\ v \in Empty /\ Accept
  \/ /\ HasValidArray(v) /\ state[v] > 0 /\ v \notin Empty
     /\ IF Memcheck THEN UpdateBuffer(v, val) ELSE UpdateArray(v, val)

(***************************************************************************)
(* Calls on two or three vectors. The default implementations take the     *)
(* accesses one after the other and return at the first refusal: what they *)
(* already hold stays granted, and no caller has the pointer to restore.   *)
(***************************************************************************)
SameLength(u, v) == (u \in Empty) = (v \in Empty)

\* Write access to y granted, read access to x refused.
StrandWrite(y, n) ==
  /\ Bump(y, n)
  /\ err' = "access"
  /\ UNCHANGED <<refVars, num_readers, writer>>

\* y = alpha x + beta y
AddScaled(y, x, val) ==
  \/ (~SameLength(x, y) \/ x = y) /\ Reject("unsupported")
  \/ /\ SameLength(x, y) /\ x # y
     /\ \/ ~(HasValidArray(x) /\ HasValidArray(y)) /\ Reject("backend")
        \/ y \in Empty /\ Accept
        \/ /\ HasValidArray(x) /\ HasValidArray(y) /\ y \notin Empty
           /\ \/ Memcheck /\ UpdateBuffer(y, val)
              \/ ~Memcheck /\ Free(y) /\ ~Even(x) /\ StrandWrite(y, 1) /\ UNCHANGED <<implVars, copyVars>>
              \/ ~Memcheck /\ (Free(y) => Even(x)) /\ UpdateArray(y, val)

CeedVectorAXPY(y, x, val) == AddScaled(y, x, val)
CeedVectorAXPBY(y, x, val) == AddScaled(y, x, val)

\* w = x .* y, where x and y may be w. The write access to w comes first; without aliasing it
\* is a GetArrayWrite, which may allocate.
MultRefused(w, x, y) == \E u \in {x, y} \ {w} : ~Even(u)
MultAllocate(w) == IF NeedsArray(w) THEN CopyValues(w, NULL) ELSE UNCHANGED implVars

CeedVectorPointwiseMult(w, x, y, val) ==
  \/ w \notin Empty /\ {x, y} \cap Empty # {} /\ Reject("unsupported")
  \/ /\ w \in Empty \/ {x, y} \cap Empty = {}
     /\ \/ ~(HasValidArray(x) /\ HasValidArray(y)) /\ Reject("backend")
        \/ HasValidArray(x) /\ HasValidArray(y) /\ w \in Empty /\ Accept
        \/ /\ HasValidArray(x) /\ HasValidArray(y) /\ w \notin Empty
           /\ \/ /\ Memcheck
                 /\ IF NeedsArray(w)
                    THEN /\ CopyValues(w, val)
                         /\ err' = "success"
                         /\ UNCHANGED <<refVars, lockVars, copyVars, writer>>
                    ELSE UpdateBuffer(w, val)
              \/ ~Memcheck /\ ~Free(w) /\ Reject("access")
              \/ /\ ~Memcheck /\ Free(w) /\ MultRefused(w, x, y)
                 /\ MultAllocate(w)
                 /\ Bump(w, WriteBump(w) + 1)
                 /\ num_readers[x] < MaxReaders
                 /\ num_readers' = [num_readers EXCEPT ![x] = IF x # w /\ Even(x) THEN @ + 1 ELSE @]
                 /\ err' = "access"
                 /\ UNCHANGED <<refVars, copyVars, writer>>
              \/ /\ ~Memcheck /\ Free(w) /\ ~MultRefused(w, x, y)
                 /\ IF NeedsArray(w) THEN CopyValues(w, val)
                    ELSE mem' = Stored(w, val) /\ UNCHANGED <<array, owned, borrowed, owner>>
                 /\ Bump(w, WriteBump(w) + 2)
                 /\ err' = "success"
                 /\ UNCHANGED <<refVars, num_readers, copyVars, writer>>

\* The source v is accessed with GetArray, so its state advances as well, and memcheck syncs it.
\* v and w differ, as the documentation of both copies requires.
CeedVectorCopy(v, w) ==
  \/ ~SameLength(v, w) /\ Reject("incompatible")
  \/ SameLength(v, w) /\ ~Free(v) /\ Reject("access")
  \/ SameLength(v, w) /\ Free(v) /\ ~HasValidArray(v) /\ Reject("backend")
  \/ /\ SameLength(v, w) /\ Free(v) /\ HasValidArray(v) /\ ~Free(w)
     /\ StrandWrite(v, 1)
     /\ writable_copy' = IF Memcheck /\ v \notin Empty
                         THEN [writable_copy EXCEPT ![v] = Content(v)] ELSE writable_copy
     /\ UNCHANGED <<implVars, read_only_copy>>
  \/ /\ SameLength(v, w) /\ Free(v) /\ HasValidArray(v) /\ Free(w)
     /\ IF v \in Empty THEN UNCHANGED implVars
        ELSE /\ array' = [array EXCEPT ![w] = CopyTarget(w)]
             /\ owned' = [owned EXCEPT ![w] = IF ~Memcheck /\ CopyTarget(w) = w THEN w ELSE @]
             /\ mem' = [Stored(v, Content(v)) EXCEPT ![CopyTarget(w)] = Content(v)]
             /\ UNCHANGED <<borrowed, owner>>
     /\ state[v] + 2 <= MaxState /\ state[w] + 2 <= MaxState
     /\ state' = [state EXCEPT ![v] = @ + 2, ![w] = @ + 2]
     /\ err' = "success"
     /\ UNCHANGED <<refVars, num_readers, copyVars, writer>>

\* Part of w is overwritten with values of v.
CeedVectorCopyStrided(v, w, in_range, val) ==
  \/ {v, w} \cap Empty # {} /\ Accept
  \/ /\ {v, w} \cap Empty = {}
     /\ \/ (~in_range \/ ~Even(v)) /\ Reject("access")
        \/ in_range /\ Even(v) /\ ~HasValidArray(v) /\ Reject("backend")
        \/ \* the write access is refused: v keeps a reader
           /\ in_range /\ Even(v) /\ HasValidArray(v) /\ ~(Free(w) /\ HasValidArray(w))
           /\ num_readers[v] < MaxReaders
           /\ num_readers' = [num_readers EXCEPT ![v] = @ + 1]
           /\ read_only_copy' = IF Memcheck THEN [read_only_copy EXCEPT ![v] = ReadCopy(v)] ELSE read_only_copy
           /\ err' = IF Free(w) THEN "backend" ELSE "access"
           /\ UNCHANGED <<refVars, state, implVars, writable_copy, writer>>
        \/ \* the readers' copy no longer matches: w keeps its write access
           /\ in_range /\ Even(v) /\ HasValidArray(v) /\ Free(w) /\ HasValidArray(w)
           /\ Memcheck /\ num_readers[v] = 0 /\ read_only_copy[v] # NULL /\ ~ReadVerified(v)
           /\ writable_copy' = [writable_copy EXCEPT ![w] = val]
           /\ Bump(w, 1)
           /\ err' = "backend"
           /\ UNCHANGED <<refVars, num_readers, implVars, read_only_copy, writer>>
        \/ /\ in_range /\ Even(v) /\ HasValidArray(v) /\ Free(w) /\ HasValidArray(w)
           /\ num_readers[v] = 0 /\ read_only_copy[v] # NULL => ReadVerified(v)
           /\ mem' = Stored(w, val)
           /\ read_only_copy' = IF num_readers[v] = 0 THEN [read_only_copy EXCEPT ![v] = NULL] ELSE read_only_copy
           /\ Bump(w, 2)
           /\ err' = "success"
           /\ UNCHANGED <<refVars, num_readers, array, owned, borrowed, owner, writable_copy, writer>>

(***************************************************************************)
Access(v) == CeedVectorGetArray(v) \/ CeedVectorGetArrayWrite(v) \/ CeedVectorGetArrayRead(v)

CallOnOne(v) ==
  \/ CeedVectorReferenceCopy(v) \/ CeedVectorDestroy(v)
  \/ \E source \in Value \cup {NULL} : CeedVectorSetArrayCopy(v, source)
  \/ \E m \in {"own", "use"}, a \in Array, val \in Value : CeedVectorSetArrayPointer(v, m, a, val)
  \/ CeedVectorTakeArray(v)
  \/ Access(v)
  \/ CeedVectorRestoreArray(v) \/ CeedVectorRestoreArrayRead(v)
  \/ ReadWhole(v) \/ CeedVectorNorm(v) \/ CeedVectorSyncArray(v)
  \/ \E val \in Value :
       \/ WriteThrough(v, val)
       \/ CeedVectorSetValue(v, val)
       \/ \E in_range \in BOOLEAN : CeedVectorSetValueStrided(v, in_range, val)
       \/ CeedVectorScale(v, val) \/ CeedVectorFilter(v, val) \/ CeedVectorReciprocal(v, val)

CallOnTwo(v, w) ==
  \/ CeedVectorReferenceCopyOver(v, w)
  \/ v # w /\ CeedVectorCopy(v, w)
  \/ \E val \in Value :
       \/ CeedVectorAXPY(v, w, val) \/ CeedVectorAXPBY(v, w, val)
       \/ \E in_range \in BOOLEAN : v # w /\ CeedVectorCopyStrided(v, w, in_range, val)

\* The vectors somebody can call.
Live == {v \in Vec : phase[v] = "live" /\ handles[v] > 0}

Next ==
  \/ \E v \in Vec : CeedVectorCreate(v)
  \/ \E v \in Live : CallOnOne(v)
  \/ \E v, w \in Live : CallOnTwo(v, w)
  \/ \E w, x, y \in Live, val \in Value : CeedVectorPointwiseMult(w, x, y, val)

Spec == Init /\ [][Next]_vars
(***************************************************************************)
(* Properties.                                                             *)
(***************************************************************************)
\* The contents a user of the vector sees: a vector of length 0 always has (no) contents.
Visible == [v \in Vec |-> IF v \in Empty THEN Unset
                          ELSE IF array[v] = NULL THEN NULL ELSE mem[array[v]]]

\* The ref backend keeps the promise of ArrayAccess: readers and the writer exclude each other
\* through every call, the contents stand still while they are read, and no content changes
\* without the state counter moving (libCEED tracks access "thus knowing if norms or other
\* operations may need to be recomputed", interface/ceed-vector.c:523).
Promise == INSTANCE ArrayAccess
             WITH Cell <- Vec, Invalid <- NULL,
                  locked <- [v \in Vec |-> ~Even(v)], readers <- num_readers,
                  version <- [v \in Vec |-> state[v] \div 2], value <- Visible
KeepsPromise == Promise!CellSpec

\* A backend has owned or borrowed memory, not both (doc/sphinx/source/libCEEDdev.md:121), its
\* data are in that memory, and without data it keeps neither.
PointersAgree ==
  \A v \in Vec :
    /\ owned[v] = NULL \/ borrowed[v] = NULL
    /\ array[v] = NULL => owned[v] = NULL /\ borrowed[v] = NULL
    /\ array[v] # NULL => IF Memcheck THEN array[v] = v
                          ELSE array[v] = IF owned[v] # NULL THEN owned[v] ELSE borrowed[v]
    /\ owned[v] \in Array \cup {v, NULL}

\* Each array handed over with CEED_OWN_POINTER is freed once and by the vector that owns it: it
\* is owned by one vector or freed, and never lost as long as no vector has length 0 (what such
\* a vector does with it is the matter of NoneLost); a lent array stays the caller's and is
\* never shared.
ArraysAccounted ==
  /\ \A v \in Vec :
       /\ owned[v] \in Array => owner[owned[v]] = "library"
       /\ borrowed[v] \in Array => owner[borrowed[v]] = "user"
  /\ \A a \in Array : owner[a] = "library" => \E v \in Vec : owned[v] = a
  /\ Empty = {} => \A a \in Array : owner[a] # "lost"
  /\ \A u, v \in Vec : u # v =>
       /\ owned[u] \in Array => owned[u] # owned[v]
       /\ borrowed[u] # NULL => borrowed[u] # borrowed[v]

\* Unless a destruction of it was refused before, the count of a vector is the number of handles
\* and of references left by a refused CeedVectorReferenceCopy, and the vector lives exactly as
\* long as there are any; nothing is left behind before a destruction was refused.
HandlesCounted ==
  /\ \A v \in Vec \ refused :
       /\ ref_count[v] = handles[v] + leaked[v]
       /\ phase[v] = "live" <=> handles[v] + leaked[v] > 0
       /\ phase[v] # "torn"
  /\ refused = {} => \A v \in Vec : leaked[v] = 0

\* CeedVectorTakeArray gives the caller its array with the contents of the vector in it.
TakenArrayHasContents ==
  [][\A v \in Vec : CeedVectorTakeArray(v) /\ borrowed'[v] # borrowed[v] => mem'[borrowed[v]] = Content(v)]_vars

\* A call other than the three Gets leaves no access behind on a vector that was free, unless it
\* met an access somebody holds on another vector or fails with a terminal error (CopyStrided
\* into a vector with no data leaves a reader on its source).
StrandsOnlyOnContention ==
  [][\A v \in Vec : Free(v) /\ ~Free(v)' =>
        Access(v) \/ (err' = "access" /\ \E u \in Vec \ {v} : ~Free(u)) \/ err' \notin Nonterminal \cup {"success"}]_vars

\* An error that is nonterminal never changes valid contents.
NonterminalErrorKeepsContents ==
  [][err' \in Nonterminal =>
       \A v \in Vec : Visible[v] # NULL => Visible'[v] = Visible[v]]_vars

\* memcheck holds a writable copy exactly while write access is granted, and readers always
\* have theirs, which no call replaces under them.
CopiesFollowAccess ==
  \A v \in Vec \ Empty : Memcheck =>
    /\ writable_copy[v] # NULL <=> ~Even(v)
    /\ num_readers[v] > 0 => read_only_copy[v] # NULL
ReadersKeepTheirCopy ==
  [][\A v \in Vec \ Empty :
       Memcheck /\ num_readers[v] > 0 /\ num_readers'[v] > 0 => read_only_copy'[v] = read_only_copy[v]]_vars

\* include/ceed/types.h:160: "With nonterminal errors the object state has not been modified".
NonterminalErrorKeepsAccess ==
  [][err' \in Nonterminal => UNCHANGED lockVars]_vars
NonterminalErrorKeepsReferences ==
  [][err' \in Nonterminal => UNCHANGED ref_count]_vars

\* include/ceed/types.h:201, of CEED_OWN_POINTER: "Implementation takes ownership of the pointer
\* and will free using CeedFree() when done using it".
NoneLost == \A a \in Array : owner[a] # "lost"
===============================================================================
