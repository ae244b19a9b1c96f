------------------------------ MODULE CeedContext ------------------------------
(***************************************************************************)
(* Ceed contexts (interface/ceed.c) and the objects created in them: who   *)
(* keeps a context alive, and when it is destroyed.  A backend's context   *)
(* owns the contexts it delegates to; these know their parent by a pointer *)
(* that is not counted.  Objects count as references to the context they   *)
(* live in, which is the first in the chain of delegates that implements   *)
(* them; vectors of the work vector pool count only while they are lent.   *)
(* Which contexts a backend's init sets up is fixed (Delegate, ...), when  *)
(* any of them goes is not: callers drop what they hold in any order.      *)
(*                                                                         *)
(* The error handler is one that returns.  Callers keep to two rules: no   *)
(* second CeedDestroy of a context that refused the first, and own         *)
(* references to a vector of the pool are dropped before its context goes. *)
(***************************************************************************)
EXTENDS Integers, FiniteSetsExt, Sequences

CONSTANTS
  Ceed,         \* contexts
  Object,       \* vectors and other objects, used again when they are destroyed
  Kind,         \* kinds of objects: "Vector" and others
  Length,       \* lengths of vectors
  NULL,
  Delegate,     \* Delegate[c]: the context c delegates to, or NULL
  ObjDelegates, \* ObjDelegates[c]: records of a name, a kind, and a ceed, in order
  Fallback,     \* Fallback[c]: the context for fallback operators, or NULL
  Implements,   \* Implements[c]: the kinds the backend of c has a create function for
  List,         \* lists that the JiT reads: source roots, defines
  Guarded,      \* the lists whose readers CeedDestroy looks at
  MaxHandles, MaxHeld, MaxReaders, MaxLeaked

\* References that the context p holds to the context d.
References == [p \in Ceed |-> [d \in Ceed |->
  (IF Delegate[p] = d THEN 1 ELSE 0) + (IF Fallback[p] = d THEN 1 ELSE 0)
    + Cardinality({i \in DOMAIN ObjDelegates[p] : ObjDelegates[p][i].ceed = d})]]

IsParent(p, d) == References[p][d] > 0

\* delegate->parent, set when the reference is.
Parent == [d \in Ceed |->
  IF \E p \in Ceed : IsParent(p, d) THEN CHOOSE p \in Ceed : IsParent(p, d) ELSE NULL]

\* Chains have at most three contexts (gen, shared, ref), so going up twice is enough.
Up(c) == IF Parent[c] = NULL THEN c ELSE Parent[c]
Root(c) == Up(Up(c))
Ancestors(c) == {c, Up(c), Root(c)}

ASSUME TopologyAssumption ==
  /\ NULL \notin Ceed \cup Object
  /\ IsFiniteSet(Object)
  /\ Delegate \in [Ceed -> Ceed \cup {NULL}] /\ Fallback \in [Ceed -> Ceed \cup {NULL}]
  /\ ObjDelegates \in [Ceed -> Seq([name : Kind, ceed : Ceed])]
  /\ Implements \in [Ceed -> SUBSET Kind]
  /\ Guarded \subseteq List /\ Length \subseteq Nat \ {0}
  /\ \A d \in Ceed : \A p, q \in Ceed : IsParent(p, d) /\ IsParent(q, d) => p = q
  /\ \A c \in Ceed : Parent[Root(c)] = NULL

VARIABLES
  phase,     \* phase[c]: "none", "live" or "freed"
  ref_count, \* ref_count[c]: obj.ref_count
  readers,   \* readers[c][l]: num_jit_source_roots_readers and the like, in a root context
  home,      \* home[o]: obj.ceed, NULL when there is no such object
  length,    \* length[o]: of a vector; 0 for other objects
  pool,      \* pool[c]: the vectors in work_vectors (see CeedWorkVectors)
  in_use,    \* in_use[c]: those that are lent
  handles,   \* history: counted references to contexts that callers hold
  refused,   \* history: pointers left with callers whose CeedDestroy was refused
  leaked,    \* history: references taken by calls that failed before giving them back
  held,      \* history: references to objects that callers hold, the lent vector included
  err        \* what the last call returned

ceedVars == <<phase, ref_count>>
objVars == <<home, length, pool, in_use>>
callerVars == <<handles, refused, leaked, held>>
vars == <<ceedVars, readers, objVars, callerVars, err>>

ContextTypeOK ==
  /\ phase \in [Ceed -> {"none", "live", "freed"}]
  /\ ref_count \in [Ceed -> Nat]
  /\ readers \in [Ceed -> [List -> Nat]]
  /\ home \in [Object -> Ceed \cup {NULL}] /\ length \in [Object -> Nat]
  /\ pool \in [Ceed -> SUBSET Object] /\ in_use \in [Ceed -> SUBSET Object]
  /\ handles \in [Ceed -> Nat] /\ refused \in [Ceed -> Nat] /\ leaked \in [Ceed -> Nat]
  /\ held \in [Object -> Nat]
  /\ err \in {"success", "access", "unsupported", "major"}

Zero(S) == [x \in S |-> 0]

Init ==
  /\ phase = [c \in Ceed |-> "none"] /\ ref_count = Zero(Ceed)
  /\ readers = [c \in Ceed |-> Zero(List)]
  /\ home = [o \in Object |-> NULL] /\ length = Zero(Object)
  /\ pool = [c \in Ceed |-> {}] /\ in_use = [c \in Ceed |-> {}]
  /\ handles = Zero(Ceed) /\ refused = Zero(Ceed) /\ leaked = Zero(Ceed) /\ held = Zero(Object)
  /\ err = "success"

\* A caller has a pointer to the live context c.
Usable(c) == phase[c] = "live" /\ handles[c] + refused[c] > 0

\* The parents CeedGetParent walks through have not been freed.
ChainLive(c) == \A a \in Ancestors(c) : phase[a] = "live"

(***************************************************************************)
(* Creating and destroying contexts.                                       *)
(***************************************************************************)
\* The backend's init creates the contexts it delegates to, hands each over to its
\* parent and drops its own reference.
CeedInit(r) ==
  LET tree == {c \in Ceed : Root(c) = r}
  IN /\ Parent[r] = NULL /\ phase[r] = "none"
     /\ phase' = [c \in Ceed |-> IF c \in tree THEN "live" ELSE phase[c]]
     /\ ref_count' = [c \in Ceed |-> IF c = r THEN 1
                                     ELSE IF c \in tree THEN References[Parent[c]][c]
                                     ELSE ref_count[c]]
     /\ handles' = [handles EXCEPT ![r] = 1]
     /\ err' = "success"
     /\ UNCHANGED <<readers, objVars, refused, leaked, held>>

Reading(counts, c) == \E l \in Guarded : counts[c][l] > 0

Counted(n, c) == [ref_count EXCEPT ![c] = @ + n]

\* The contexts that go when those in D do: a delegate goes with its parent when the
\* parent's references were the last.
Cascade(count, D) ==
  D \cup {d \in Ceed : Parent[d] \in D /\ count[d] = References[Parent[d]][d]}

\* Objects that are destroyed: their names may be used again.
Gone(G) ==
  /\ home' = [o \in Object |-> IF o \in G THEN NULL ELSE home[o]]
  /\ length' = [o \in Object |-> IF o \in G THEN 0 ELSE length[o]]

Keep(count, c, gone) ==
  /\ ref_count' = [count EXCEPT ![c] = @ - 1]
  /\ Gone(gone)
  /\ UNCHANGED <<phase, pool, in_use>>

\* The context is freed, with its references to other contexts and with its pool. That
\* no vector of the pool is lent, which CeedWorkVectorsDestroy checks, is
\* FreedWithoutLentVectors.
Free(count, c, gone) ==
  LET D == Cascade(count, Cascade(count, {c}))
      pooled == UNION {pool[d] : d \in D}
  IN /\ \A o \in pooled \ UNION {in_use[d] : d \in D} : held[o] = 0
     /\ phase' = [d \in Ceed |-> IF d \in D THEN "freed" ELSE phase[d]]
     /\ ref_count' = [d \in Ceed |-> IF d \in D THEN 0
                                     ELSE IF Parent[d] \in D THEN count[d] - References[Parent[d]][d]
                                     ELSE count[d]]
     /\ pool' = [d \in Ceed |-> IF d \in D THEN {} ELSE pool[d]]
     /\ in_use' = [d \in Ceed |-> IF d \in D THEN {} ELSE in_use[d]]
     /\ Gone(gone \cup pooled)

\* Mutant: a context is freed one reference too late.
ReleaseLate(count, c, gone) ==
  \/ count[c] >= 1 /\ Keep(count, c, gone) /\ err' = "success"
  \/ count[c] < 1 /\ Reading(readers', c) /\ Keep(count, c, gone) /\ err' = "access"
  \/ count[c] < 1 /\ ~Reading(readers', c) /\ Free(count, c, gone) /\ err' = "success"

\* Mutant: a context is freed although a list of it is being read.
ReleaseUnguarded(count, c, gone) ==
  \/ count[c] > 1 /\ Keep(count, c, gone) /\ err' = "success"
  \/ count[c] <= 1 /\ Free(count, c, gone) /\ err' = "success"

\* CeedDestroy of one reference to c, when the counts are count and the objects in gone
\* have just been destroyed. A context whose lists are being read stays, but the
\* reference is gone.
Release(count, c, gone) ==
  \/ count[c] > 1 /\ Keep(count, c, gone) /\ err' = "success"
  \/ count[c] <= 1 /\ Reading(readers', c) /\ Keep(count, c, gone) /\ err' = "access"
  \/ count[c] <= 1 /\ ~Reading(readers', c) /\ Free(count, c, gone) /\ err' = "success"

\* The caller's pointer is set to NULL unless the call fails.
CeedDestroy(c) ==
  /\ handles[c] > 0
  /\ UNCHANGED <<readers, leaked, held>>
  /\ Release(ref_count, c, {})
  /\ handles' = [handles EXCEPT ![c] = @ - 1]
  /\ refused' = [refused EXCEPT ![c] = IF err' = "access" THEN @ + 1 ELSE @]

(***************************************************************************)
(* References to contexts.                                                 *)
(***************************************************************************)
\* The pointers to contexts that callers hold are bounded together.
MoreHandles == MapThenSumSet(LAMBDA c : handles[c] + refused[c], Ceed) < MaxHandles

\* Mutant: the reference is not counted.
AddHandleUncounted(c) ==
  /\ MoreHandles
  /\ handles' = [handles EXCEPT ![c] = @ + 1]
  /\ err' = "success"
  /\ UNCHANGED <<ceedVars, readers, objVars, refused, leaked, held>>

\* A reference to c for a caller whose pointer was NULL.
AddHandle(c) ==
  /\ MoreHandles
  /\ ref_count' = Counted(1, c)
  /\ handles' = [handles EXCEPT ![c] = @ + 1]
  /\ err' = "success"
  /\ UNCHANGED <<phase, readers, objVars, refused, leaked, held>>

\* Calls that fail halfway leave references behind; they are bounded together, too.
CanLeak == MapThenSumSet(LAMBDA c : leaked[c], Ceed) < MaxLeaked

Leak(S) ==
  /\ ref_count' = [c \in Ceed |-> IF c \in S THEN ref_count[c] + 1 ELSE ref_count[c]]
  /\ leaked' = [c \in Ceed |-> IF c \in S THEN leaked[c] + 1 ELSE leaked[c]]

CeedReferenceCopy(c) == Usable(c) /\ AddHandle(c)

\* The destination already is a reference to d, which is destroyed first; when that is
\* refused the reference to c has been counted and nobody has it.
CeedReferenceCopyOver(c, d) ==
  LET added == [x \in Ceed |-> IF x = c THEN 1 ELSE 0]
      dropped == [handles EXCEPT ![d] = @ - 1]
  IN /\ Usable(c) /\ handles[d] > 0
     /\ CanLeak
     /\ UNCHANGED <<readers, held>>
     /\ Release(Counted(1, c), d, {})
     /\ IF err' = "success"
        THEN /\ handles' = [x \in Ceed |-> dropped[x] + added[x]]
             /\ UNCHANGED <<refused, leaked>>
        ELSE /\ handles' = dropped
             /\ refused' = [refused EXCEPT ![d] = @ + 1]
             /\ leaked' = [leaked EXCEPT ![c] = @ + 1]

CeedGetParent(c) == Usable(c) /\ ChainLive(c) /\ AddHandle(Root(c))

CeedGetDelegate(c) == Usable(c) /\ Delegate[c] # NULL /\ AddHandle(Delegate[c])

CeedGetOperatorFallbackCeed(c) == Usable(c) /\ Fallback[c] # NULL /\ AddHandle(Fallback[c])

\* The loop compares, and returns, the first entry in every round.
ObjectDelegate(c, k) ==
  IF ObjDelegates[c] # <<>> /\ ObjDelegates[c][1].name = k THEN ObjDelegates[c][1].ceed
  ELSE Delegate[c]

CeedGetObjectDelegate(c, k) ==
  Usable(c) /\ ObjectDelegate(c, k) # NULL /\ AddHandle(ObjectDelegate(c, k))

CeedObjectGetCeed(o) == held[o] > 0 /\ home[o] # NULL /\ AddHandle(home[o])

(***************************************************************************)
(* Objects. A call on a context that does not implement it goes to the     *)
(* delegate, for as long as there is one; the references taken on the way  *)
(* are given back only when the call succeeds.                             *)
(***************************************************************************)
Hop(k, c) ==
  IF c = NULL THEN NULL ELSE IF k \in Implements[c] THEN c ELSE ObjectDelegate(c, k)

Target(k, c) == Hop(k, Hop(k, Hop(k, c)))
Delegated(k, c) == {Hop(k, c), Hop(k, Hop(k, c)), Target(k, c)} \ {c, NULL}

Fail(k, c, code) ==
  /\ CanLeak
  /\ Leak(Delegated(k, c))
  /\ err' = code
  /\ UNCHANGED <<phase, readers, objVars, handles, refused, held>>

CeedCreate(k, c, o, len) ==
  /\ Usable(c) /\ home[o] = NULL /\ held[o] = 0
  /\ (len > 0) <=> (k = "Vector")
  /\ LET t == Target(k, c)
     IN \/ t = NULL /\ Fail(k, c, "unsupported")
        \/ /\ t # NULL
           /\ home' = [home EXCEPT ![o] = t]
           /\ length' = [length EXCEPT ![o] = len]
           /\ held' = [held EXCEPT ![o] = 1]
           /\ ref_count' = Counted(1, t)
           /\ err' = "success"
           /\ UNCHANGED <<phase, readers, pool, in_use, handles, refused, leaked>>

Pooled(o) == home[o] # NULL /\ o \in pool[home[o]]
Lent(o) == home[o] # NULL /\ o \in in_use[home[o]]

CeedObjectReferenceCopy(o) ==
  /\ held[o] > 0 /\ home[o] # NULL
  /\ held[o] < MaxHeld
  /\ held' = [held EXCEPT ![o] = @ + 1]
  /\ err' = "success"
  /\ UNCHANGED <<ceedVars, readers, objVars, handles, refused, leaked>>

\* The last reference to an object gives up the object's reference to its context. A
\* lent vector is restored, not destroyed.
CeedObjectDestroy(o) ==
  /\ home[o] # NULL
  /\ held[o] > (IF Lent(o) THEN 1 ELSE 0)
  /\ held' = [held EXCEPT ![o] = @ - 1]
  /\ UNCHANGED <<readers, handles, refused, leaked>>
  /\ IF held[o] > 1 \/ Pooled(o)
     THEN err' = "success" /\ UNCHANGED <<ceedVars, objVars>>
     ELSE Release(ref_count, home[o], {o})

(***************************************************************************)
(* Work vectors. Which idle vector is taken is left open: CeedWorkVectors  *)
(* has the arrays and the search.                                          *)
(***************************************************************************)
WorkTarget(c) == Target("Vector", c)

\* Every backend reaches one that implements vectors.
ASSUME VectorsImplemented == \A c \in Ceed : WorkTarget(c) # NULL

\* Mutant: the context is not told that it has a vector out.
LendUncounted(t, o) ==
  /\ in_use' = [in_use EXCEPT ![t] = @ \cup {o}]
  /\ held' = [held EXCEPT ![o] = @ + 1]
  /\ err' = "success"
  /\ UNCHANGED <<ceedVars, readers, handles, refused, leaked>>

Lend(t, o) ==
  /\ in_use' = [in_use EXCEPT ![t] = @ \cup {o}]
  /\ held' = [held EXCEPT ![o] = @ + 1]
  /\ ref_count' = Counted(1, t)
  /\ err' = "success"
  /\ UNCHANGED <<phase, readers, handles, refused, leaked>>

\* Mutant: a vector of just the length asked for is passed over.
AdequateLonger(t, len) == {o \in pool[t] \ in_use[t] : length[o] > len}

Adequate(t, len) == {o \in pool[t] \ in_use[t] : length[o] >= len}

CeedGetWorkVector(c, len) ==
  LET t == WorkTarget(c)
  IN /\ Usable(c)
     /\ \/ /\ \E o \in Adequate(t, len) : Lend(t, o)
           /\ UNCHANGED <<home, length, pool>>
        \/ /\ Adequate(t, len) = {}
           /\ \E o \in {x \in Object : home[x] = NULL /\ held[x] = 0} :
                /\ Lend(t, o)
                /\ home' = [home EXCEPT ![o] = t]
                /\ length' = [length EXCEPT ![o] = len]
                /\ pool' = [pool EXCEPT ![t] = @ \cup {o}]

\* Mutant: restoring gives up the pool's own reference to the context once more.
RestoreTwice(c, o) ==
  LET t == WorkTarget(c)
  IN /\ Usable(c) /\ o \in in_use[t]
     /\ in_use' = [in_use EXCEPT ![t] = @ \ {o}]
     /\ held' = [held EXCEPT ![o] = @ - 1]
     /\ ref_count' = Counted(-2, t)
     /\ err' = "success"
     /\ UNCHANGED <<phase, readers, home, length, pool, handles, refused, leaked>>

\* The reference is given up without a look at whether it was the last.
RestoreLent(c, o) ==
  LET t == WorkTarget(c)
  IN /\ Usable(c) /\ o \in in_use[t]
     /\ in_use' = [in_use EXCEPT ![t] = @ \ {o}]
     /\ held' = [held EXCEPT ![o] = @ - 1]
     /\ ref_count' = Counted(-1, t)
     /\ err' = "success"
     /\ UNCHANGED <<phase, readers, home, length, pool, handles, refused, leaked>>

\* A vector of the pool that is not lent, or one of no (or another) pool. A pool that
\* was never made is not searched.
RestoreRefused(c, o) ==
  LET t == WorkTarget(c)
  IN /\ Usable(c) /\ pool[t] # {}
     /\ held[o] > 0 /\ length[o] > 0 /\ o \notin in_use[t]
     /\ Fail("Vector", c, IF o \in pool[t] THEN "access" ELSE "major")

CeedRestoreWorkVector(c, o) == RestoreLent(c, o) \/ RestoreRefused(c, o)

\* Mutant: the count is raised once before a vector is destroyed, not twice.
ClearReferencedOnce(c, min_len) ==
  LET t == WorkTarget(c)
      cleared == {o \in pool[t] \ in_use[t] : length[o] < min_len}
      kept == {o \in cleared : held[o] > 0}
  IN /\ Usable(c)
     /\ pool' = [pool EXCEPT ![t] = @ \ cleared]
     /\ Gone(cleared \ kept)
     /\ ref_count' = Counted(-Cardinality(cleared \ kept), t)
     /\ err' = "success"
     /\ UNCHANGED <<phase, readers, in_use, callerVars>>

\* Idle vectors shorter than min_len leave the pool; one to which a caller has a
\* reference stays, as an object like any other that counts as a reference to t.
CeedClearWorkVectors(c, min_len) ==
  LET t == WorkTarget(c)
      cleared == {o \in pool[t] \ in_use[t] : length[o] < min_len}
      kept == {o \in cleared : held[o] > 0}
  IN /\ Usable(c)
     /\ pool' = [pool EXCEPT ![t] = @ \ cleared]
     /\ Gone(cleared \ kept)
     /\ ref_count' = Counted(Cardinality(kept), t)
     /\ err' = "success"
     /\ UNCHANGED <<phase, readers, in_use, callerVars>>

(***************************************************************************)
(* The lists that the JiT reads, kept by the root context.  Each call gets *)
(* a reference to the root and destroys it, which is the end of a root     *)
(* whose destruction was refused before.                                   *)
(***************************************************************************)
ReleaseRoot(r) == Release(Counted(1, r), r, {}) /\ UNCHANGED callerVars

CeedGetList(c, l) ==
  LET r == Root(c)
  IN /\ Usable(c) /\ ChainLive(c)
     /\ readers[r][l] < MaxReaders
     /\ readers' = [readers EXCEPT ![r][l] = @ + 1]
     /\ ReleaseRoot(r)

CeedRestoreList(c, l) ==
  LET r == Root(c)
  IN /\ Usable(c) /\ ChainLive(c)
     /\ readers[r][l] > 0
     /\ readers' = [readers EXCEPT ![r][l] = @ - 1]
     /\ ReleaseRoot(r)

\* A list that is being read is not changed; the reference to the root is not given back.
AddRefused(r, l) ==
  /\ readers[r][l] > 0
  /\ CanLeak /\ Leak({r})
  /\ err' = "access"
  /\ UNCHANGED <<phase, readers, objVars, handles, refused, held>>

CeedAddToList(c, l) ==
  LET r == Root(c)
  IN /\ Usable(c) /\ ChainLive(c)
     /\ \/ AddRefused(r, l)
        \/ readers[r][l] = 0 /\ UNCHANGED readers /\ ReleaseRoot(r)

Next ==
  \/ \E c \in Ceed :
       \/ CeedInit(c) \/ CeedDestroy(c) \/ CeedReferenceCopy(c)
       \/ \E d \in Ceed : CeedReferenceCopyOver(c, d)
       \/ CeedGetParent(c) \/ CeedGetDelegate(c) \/ CeedGetOperatorFallbackCeed(c)
       \/ \E k \in Kind : CeedGetObjectDelegate(c, k)
       \/ \E k \in Kind, o \in Object, len \in Length \cup {0} : CeedCreate(k, c, o, len)
       \/ \E len \in Length : CeedGetWorkVector(c, len) \/ CeedClearWorkVectors(c, len)
       \/ \E o \in Object : CeedRestoreWorkVector(c, o)
       \/ \E l \in List : CeedGetList(c, l) \/ CeedRestoreList(c, l) \/ CeedAddToList(c, l)
  \/ \E o \in Object :
       CeedObjectGetCeed(o) \/ CeedObjectReferenceCopy(o) \/ CeedObjectDestroy(o)

Spec == Init /\ [][Next]_vars

(***************************************************************************)
(* Properties.                                                             *)
(***************************************************************************)
Live == {c \in Ceed : phase[c] = "live"}

\* References of a live parent to c.
FromParent(c) == IF Parent[c] \in Live THEN References[Parent[c]][c] ELSE 0

\* Objects of c that count: those outside its pool, and those lent from it.
Counting(c) == {o \in Object : home[o] = c /\ (o \notin pool[c] \/ o \in in_use[c])}

\* The count of a live context is the number of those who rely on it, through delegation,
\* lending, clearing and calls that fail halfway (interface/ceed.c, ceed-object.c).
ReferencesAccounted ==
  \A c \in Live :
    ref_count[c] = handles[c] + leaked[c] + FromParent(c) + Cardinality(Counting(c))

\* A counted pointer, an object's ceed and a live context's delegates are never freed.
NothingDangles ==
  /\ \A c \in Ceed : handles[c] > 0 => c \in Live
  /\ \A o \in Object : home[o] # NULL => home[o] \in Live
  /\ \A c \in Live, d \in Ceed : IsParent(c, d) => d \in Live

\* A context that nothing counts on is there only because a reader, or a caller whose
\* CeedDestroy was refused, can still finish it.
FreedWhenUnreferenced == \A c \in Live : ref_count[c] = 0 => Reading(readers, c) \/ refused[c] > 0

\* No context goes while it has a work vector out: the check of CeedWorkVectorsDestroy
\* (interface/ceed.c:168), after the delegates have been given up, never fails.
FreedWithoutLentVectors ==
  [][\A c \in Live : phase'[c] = "freed" => in_use[c] = {}]_vars

\* A list that somebody reads does not go ("Cannot destroy ceed context, read
\* access for JiT source roots has been granted", interface/ceed.c:1686).
ReadListsStay ==
  [][\A c \in Live, l \in Guarded :
       readers[c][l] > 0 /\ readers'[c][l] > 0
         => phase'[c] = "live"]_vars

\* The pool of each context keeps the promise of work vectors, by whatever context it is used.
Pool(c) == INSTANCE WorkPool WITH Vec <- Object, size <- [o \in pool[c] |-> length[o]],
                                  lent <- in_use[c]
KeepsPoolPromise ==
  /\ \A c \in Ceed : Pool(c)!PoolInit
  /\ [][\A c \in Ceed : [Pool(c)!PoolNext]_(Pool(c)!poolVars)]_vars

\* The contexts registered for objects of kind k.
Registered(c, k) ==
  {ObjDelegates[c][i].ceed : i \in {j \in DOMAIN ObjDelegates[c] : ObjDelegates[c][j].name = k}}

\* "uses delegate implementations for all CeedBasis backend functions" (interface/ceed.c:630):
\* an object of a kind for which a delegate was set is created by that delegate.
ObjectDelegatesHonoured ==
  [][\A k \in Kind, c \in Ceed, o \in Object, len \in Length \cup {0} :
       CeedCreate(k, c, o, len) /\ k \notin Implements[c] /\ Registered(c, k) # {}
         => home'[o] \in Registered(c, k)]_vars
===============================================================================
