--------------------------- MODULE CeedContextProofs ---------------------------
(***************************************************************************)
(* Theorems about CeedContext, for any sets of contexts, objects, kinds    *)
(* and lists, and any delegation between contexts that TopologyAssumption  *)
(* allows.                                                                 *)
(***************************************************************************)
EXTENDS CeedContext, FiniteSetTheorems, SequenceTheorems, TLAPS

(***************************************************************************)
(* The topology.                                                           *)
(***************************************************************************)
\* The references of one context to another are a number.
LEMMA ReferencesNat ==
  ASSUME NEW p \in Ceed, NEW d \in Ceed
  PROVE  References[p][d] \in Nat
<1> DEFINE S == {i \in DOMAIN ObjDelegates[p] : ObjDelegates[p][i].ceed = d}
<1>1. ObjDelegates[p] \in Seq([name : Kind, ceed : Ceed])
  BY TopologyAssumption
<1>2. S \subseteq 1 .. Len(ObjDelegates[p]) /\ Len(ObjDelegates[p]) \in Nat
  BY <1>1
<1>3. IsFiniteSet(1 .. Len(ObjDelegates[p]))
  BY <1>2, FS_Interval
<1>4. Cardinality(S) \in Nat
  BY <1>2, <1>3, FS_Subset, FS_CardinalityType
<1>5. References[p][d] = (IF Delegate[p] = d THEN 1 ELSE 0)
                           + (IF Fallback[p] = d THEN 1 ELSE 0) + Cardinality(S)
  BY DEF References
<1> HIDE DEF S
<1> QED
  BY <1>4, <1>5

\* A context has one parent, and Parent is it.
LEMMA ParentIs ==
  /\ Parent \in [Ceed -> Ceed \cup {NULL}]
  /\ \A d \in Ceed : Parent[d] # NULL => IsParent(Parent[d], d)
  /\ \A p, d \in Ceed : IsParent(p, d) => Parent[d] = p
<1>1. ASSUME NEW d \in Ceed, \E p \in Ceed : IsParent(p, d)
      PROVE  Parent[d] \in Ceed /\ IsParent(Parent[d], d)
  BY <1>1 DEF Parent
<1>2. ASSUME NEW d \in Ceed, ~ \E p \in Ceed : IsParent(p, d)
      PROVE  Parent[d] = NULL
  BY <1>2 DEF Parent
<1>3. Parent \in [Ceed -> Ceed \cup {NULL}]
  <2>1. Parent = [d \in Ceed |-> Parent[d]]
    BY DEF Parent
  <2> QED
    BY <2>1, <1>1, <1>2
<1>4. \A d \in Ceed : Parent[d] # NULL => IsParent(Parent[d], d)
  BY <1>1, <1>2
<1>5. \A p, d \in Ceed : IsParent(p, d) => Parent[d] = p
  BY <1>1, TopologyAssumption
<1> QED
  BY <1>3, <1>4, <1>5

\* Going up ends at a context that has no parent, the same one from parent and child.
LEMMA Roots ==
  ASSUME NEW c \in Ceed
  PROVE  /\ Up(c) \in Ceed /\ Root(c) \in Ceed
         /\ Parent[Root(c)] = NULL /\ Root(Root(c)) = Root(c)
         /\ Parent[c] = NULL => Root(c) = c
         /\ Parent[c] # NULL => Parent[c] \in Ceed /\ Root(Parent[c]) = Root(c)
<1>1. \A x \in Ceed : Up(x) \in Ceed
  BY ParentIs DEF Up
<1>2. \A x \in Ceed : Root(x) \in Ceed /\ Parent[Root(x)] = NULL
  BY <1>1, TopologyAssumption DEF Root
<1>3. \A x \in Ceed : Parent[x] = NULL => Root(x) = x
  BY DEF Root, Up
<1>4. ASSUME Parent[c] # NULL
      PROVE  Parent[c] \in Ceed /\ Root(Parent[c]) = Root(c)
  <2>1. Parent[c] \in Ceed /\ Up(c) = Parent[c] /\ Root(c) = Up(Parent[c])
    BY <1>4, ParentIs DEF Root, Up
  <2>2. Up(Root(c)) = Root(c)
    BY <1>2 DEF Up
  <2> QED
    BY <2>1, <2>2 DEF Root
<1> QED
  BY <1>1, <1>2, <1>3, <1>4

\* The context a call is passed on to is a child.
LEMMA Children ==
  ASSUME NEW c \in Ceed
  PROVE  /\ Delegate[c] \in Ceed \cup {NULL}
         /\ Fallback[c] \in Ceed \cup {NULL}
         /\ Delegate[c] # NULL => IsParent(c, Delegate[c])
         /\ Fallback[c] # NULL => IsParent(c, Fallback[c])
         /\ \A k : /\ ObjectDelegate(c, k) \in Ceed \cup {NULL}
                   /\ ObjectDelegate(c, k) # NULL => IsParent(c, ObjectDelegate(c, k))
<1> DEFINE S(d) == {i \in DOMAIN ObjDelegates[c] : ObjDelegates[c][i].ceed = d}
<1>1. /\ Delegate[c] \in Ceed \cup {NULL} /\ Fallback[c] \in Ceed \cup {NULL}
      /\ ObjDelegates[c] \in Seq([name : Kind, ceed : Ceed])
  BY TopologyAssumption
<1>2. ASSUME NEW d \in Ceed
      PROVE  IsFiniteSet(S(d)) /\ Cardinality(S(d)) \in Nat
  <2>1. S(d) \subseteq 1 .. Len(ObjDelegates[c]) /\ Len(ObjDelegates[c]) \in Nat
    BY <1>1
  <2>2. IsFiniteSet(1 .. Len(ObjDelegates[c]))
    BY <2>1, FS_Interval
  <2> QED
    BY <2>1, <2>2, FS_Subset, FS_CardinalityType
<1>3. ASSUME NEW d \in Ceed
      PROVE  References[c][d] = (IF Delegate[c] = d THEN 1 ELSE 0)
                                  + (IF Fallback[c] = d THEN 1 ELSE 0) + Cardinality(S(d))
  BY DEF References
<1>4. ASSUME NEW d \in Ceed, Delegate[c] = d \/ Fallback[c] = d
      PROVE  IsParent(c, d)
  <2> HIDE DEF S
  <2> QED
    BY <1>2, <1>3, <1>4, ReferencesNat DEF IsParent
<1>5. ASSUME ObjDelegates[c] # <<>>
      PROVE  /\ ObjDelegates[c][1].ceed \in Ceed
             /\ IsParent(c, ObjDelegates[c][1].ceed)
  <2> DEFINE d == ObjDelegates[c][1].ceed
  <2>1. Len(ObjDelegates[c]) \in Nat \ {0} /\ DOMAIN ObjDelegates[c] = 1 .. Len(ObjDelegates[c])
    BY <1>1, <1>5, EmptySeq, LenProperties
  <2>2. 1 \in DOMAIN ObjDelegates[c]
    BY <2>1
  <2>3. ObjDelegates[c][1] \in [name : Kind, ceed : Ceed]
    BY <1>1, <2>1, <2>2, ElementOfSeq
  <2>4. d \in Ceed
    BY <2>3
  <2>5. 1 \in S(d)
    BY <2>2
  <2>6. Cardinality(S(d)) # 0
    BY <1>2, <2>4, <2>5, FS_EmptySet
  <2> HIDE DEF S, d
  <2>7. IsParent(c, d)
    BY <1>2, <1>3, <2>4, <2>6, ReferencesNat DEF IsParent
  <2> QED
    BY <2>4, <2>7 DEF d
<1> HIDE DEF S
<1>6. ASSUME NEW k
      PROVE  /\ ObjectDelegate(c, k) \in Ceed \cup {NULL}
             /\ ObjectDelegate(c, k) # NULL => IsParent(c, ObjectDelegate(c, k))
  BY <1>1, <1>4, <1>5 DEF ObjectDelegate
<1> QED
  BY <1>1, <1>4, <1>6

(***************************************************************************)
(* The inductive invariant.                                                *)
(***************************************************************************)
\* Counted references that callers hold, or that calls which failed have lost.
Owed(c) == handles[c] + leaked[c]

\* The vectors of a pool live in its context; an object that has left every pool, and a
\* lent vector, are there because somebody has a reference to them.
PoolsOwned ==
  /\ \A c \in Ceed : in_use[c] \subseteq pool[c]
  /\ \A c \in Ceed : \A o \in pool[c] : home[o] = c
  /\ \A o \in Object :
       /\ home[o] = NULL => held[o] = 0
       /\ home[o] # NULL /\ (o \notin pool[home[o]] \/ o \in in_use[home[o]]) => held[o] > 0

\* A context that has not been made, or is gone, has no references.
OnlyLiveOwed == \A c \in Ceed : Owed(c) > 0 => c \in Live

\* The contexts of a backend are made together.
TreesWhole == \A c \in Ceed : phase[Root(c)] = "none" => phase[c] = "none"

\* The lists are the root's.
RootsRead == \A c \in Ceed, l \in List : Parent[c] # NULL => readers[c][l] = 0

IInv ==
  /\ ContextTypeOK /\ PoolsOwned /\ OnlyLiveOwed /\ TreesWhole /\ RootsRead
  /\ ReferencesAccounted /\ NothingDangles /\ FreedWhenUnreferenced

\* Sets of objects have a size.
LEMMA ObjectSets ==
  ASSUME NEW S \in SUBSET Object
  PROVE  IsFiniteSet(S) /\ Cardinality(S) \in Nat
BY TopologyAssumption, FS_Subset, FS_CardinalityType

LEMMA OneObjectMore ==
  ASSUME NEW S \in SUBSET Object, NEW o \in Object, o \notin S
  PROVE  Cardinality(S \cup {o}) = Cardinality(S) + 1
BY ObjectSets, FS_AddElement

LEMMA OneObjectLess ==
  ASSUME NEW S \in SUBSET Object, NEW o \in S
  PROVE  Cardinality(S) = Cardinality(S \ {o}) + 1
<1>1. S \ {o} \in SUBSET Object /\ o \notin S \ {o} /\ (S \ {o}) \cup {o} = S /\ o \in Object
  OBVIOUS
<1> QED
  BY <1>1, OneObjectMore

\* What Counting and FromParent are, whatever the state.
LEMMA CountingType ==
  ASSUME NEW c \in Ceed
  PROVE  Counting(c) \in SUBSET Object /\ Cardinality(Counting(c)) \in Nat
<1>1. Counting(c) \in SUBSET Object
  BY DEF Counting
<1> QED
  BY <1>1, ObjectSets

LEMMA FromParentType ==
  ASSUME NEW c \in Ceed
  PROVE  /\ FromParent(c) \in Nat
         /\ Parent[c] \in Live => FromParent(c) = References[Parent[c]][c] /\ FromParent(c) > 0
         /\ Parent[c] \notin Live => FromParent(c) = 0
<1>1. Parent[c] \in Live => Parent[c] \in Ceed /\ Parent[c] # NULL
  BY TopologyAssumption DEF Live
<1>2. Parent[c] \in Live => References[Parent[c]][c] \in Nat /\ References[Parent[c]][c] > 0
  BY <1>1, ReferencesNat, ParentIs DEF IsParent
<1> QED
  BY <1>2 DEF FromParent

\* The contexts that a call is passed on to are there.
LEMMA HopLive ==
  ASSUME NothingDangles, NEW c, NEW k, NEW x \in Ceed \cup {NULL},
         x # NULL => x \in Live /\ (x = c \/ Parent[x] \in Live)
  PROVE  /\ Hop(k, x) \in Ceed \cup {NULL}
         /\ Hop(k, x) # NULL => Hop(k, x) \in Live /\ (Hop(k, x) = c \/ Parent[Hop(k, x)] \in Live)
<1>1. CASE x = NULL
  BY <1>1 DEF Hop
<1>2. CASE x # NULL /\ k \in Implements[x]
  BY <1>2 DEF Hop
<1>3. CASE x # NULL /\ k \notin Implements[x]
  <2>1. Hop(k, x) = ObjectDelegate(x, k)
    BY <1>3 DEF Hop
  <2>2. x \in Ceed /\ x \in Live
    BY <1>3
  <2>3. ObjectDelegate(x, k) # NULL
          => ObjectDelegate(x, k) \in Ceed /\ IsParent(x, ObjectDelegate(x, k))
    BY <2>2, Children
  <2>4. ObjectDelegate(x, k) # NULL
          => ObjectDelegate(x, k) \in Live /\ Parent[ObjectDelegate(x, k)] = x
    BY <2>2, <2>3, ParentIs DEF NothingDangles
  <2> QED
    BY <2>1, <2>2, <2>3, <2>4
<1> QED
  BY <1>1, <1>2, <1>3

LEMMA TargetLive ==
  ASSUME NothingDangles, NEW c \in Live, NEW k
  PROVE  /\ Target(k, c) \in Ceed \cup {NULL}
         /\ Target(k, c) # NULL
              => Target(k, c) \in Live /\ (Target(k, c) = c \/ Parent[Target(k, c)] \in Live)
         /\ Delegated(k, c) \subseteq Live
<1> DEFINE one == Hop(k, c)
           two == Hop(k, one)
           three == Hop(k, two)
<1>1. c \in Ceed /\ c # NULL
  BY TopologyAssumption DEF Live
<1>2. one \in Ceed \cup {NULL} /\ (one # NULL => one \in Live /\ (one = c \/ Parent[one] \in Live))
  BY <1>1, HopLive
<1> HIDE DEF one
<1>3. two \in Ceed \cup {NULL} /\ (two # NULL => two \in Live /\ (two = c \/ Parent[two] \in Live))
  BY <1>2, HopLive
<1> HIDE DEF two
<1>4. /\ three \in Ceed \cup {NULL}
      /\ three # NULL => three \in Live /\ (three = c \/ Parent[three] \in Live)
  BY <1>3, HopLive
<1> HIDE DEF three
<1>5. Target(k, c) = three /\ Delegated(k, c) = {one, two, three} \ {c, NULL}
  BY DEF Target, Delegated, one, two, three
<1> QED
  BY <1>2, <1>3, <1>4, <1>5

\* A context that a caller has, or that implements what one asked for, has a reference.
LEMMA WorkTargetLive ==
  ASSUME NothingDangles, NEW c \in Ceed, Usable(c)
  PROVE  /\ WorkTarget(c) \in Live /\ WorkTarget(c) \in Ceed
         /\ WorkTarget(c) = c \/ Parent[WorkTarget(c)] \in Live
<1>1. c \in Live
  BY DEF Usable, Live
<1>2. WorkTarget(c) # NULL
  BY VectorsImplemented
<1> QED
  BY <1>1, <1>2, TargetLive, TopologyAssumption DEF WorkTarget, Live

(***************************************************************************)
(* Steps in which no context comes or goes.                                *)
(***************************************************************************)
\* What has to be shown of such a step.
LEMMA SamePhase ==
  ASSUME IInv, phase' = phase, ContextTypeOK', PoolsOwned', RootsRead',
         \A x \in Live :
           ref_count'[x] = Owed(x)' + FromParent(x) + Cardinality(Counting(x)'),
         \A x \in Ceed : Owed(x)' > 0 => x \in Live,
         \A o \in Object : home'[o] # NULL => home'[o] \in Live,
         FreedWhenUnreferenced'
  PROVE  IInv'
<1>1. Live' = Live /\ \A x \in Ceed : FromParent(x)' = FromParent(x)
  BY DEF Live, FromParent
<1>2. OnlyLiveOwed'
  BY <1>1 DEF OnlyLiveOwed
<1>3. TreesWhole'
  BY DEF IInv, TreesWhole
<1>4. ReferencesAccounted'
  <2>1. ASSUME NEW x \in Live
        PROVE  ref_count'[x] = handles'[x] + leaked'[x] + FromParent(x)' + Cardinality(Counting(x)')
    <3>1. Owed(x)' = handles'[x] + leaked'[x] /\ x \in Ceed
      BY DEF Owed, Live
    <3> QED
      BY <1>1, <3>1
  <2> QED
    BY <1>1, <2>1 DEF ReferencesAccounted
<1>5. NothingDangles'
  <2>1. \A x \in Ceed : handles'[x] > 0 => x \in Live
    BY DEF Owed, ContextTypeOK
  <2>2. \A x \in Live, d \in Ceed : IsParent(x, d) => d \in Live
    BY DEF IInv, NothingDangles
  <2> QED
    BY <1>1, <2>1, <2>2 DEF NothingDangles
<1> QED
  BY <1>2, <1>3, <1>4, <1>5 DEF IInv

\* A step that changes counts only.
LEMMA SameObjects ==
  ASSUME IInv, UNCHANGED <<phase, objVars, readers>>, ContextTypeOK',
         \A o \in Object : \/ held'[o] = held[o]
                           \/ home[o] # NULL /\ held'[o] > 0
                           \/ home[o] # NULL /\ o \in pool[home[o]] \ in_use[home[o]],
         \A x \in Live : ref_count'[x] - Owed(x)' = ref_count[x] - Owed(x),
         \A x \in Ceed : Owed(x)' > Owed(x) => x \in Live,
         \A x \in Live : ref_count'[x] >= ref_count[x] /\ refused'[x] >= refused[x]
  PROVE  IInv'
<1> USE DEF objVars
<1>1. PoolsOwned'
  BY DEF IInv, PoolsOwned
<1>2. RootsRead'
  BY DEF IInv, RootsRead
<1>3. ASSUME NEW x \in Live
      PROVE  ref_count'[x] = Owed(x)' + FromParent(x) + Cardinality(Counting(x)')
  <2>1. Counting(x)' = Counting(x)
    BY DEF Counting
  <2>2. x \in Ceed /\ Owed(x) \in Nat /\ Owed(x)' \in Nat /\ ref_count'[x] \in Nat
    BY DEF Live, Owed, IInv, ContextTypeOK
  <2>3. ref_count[x] = Owed(x) + FromParent(x) + Cardinality(Counting(x))
    BY DEF IInv, ReferencesAccounted, Owed
  <2> QED
    BY <2>1, <2>2, <2>3, CountingType, FromParentType
<1>4. \A x \in Ceed : Owed(x)' > 0 => x \in Live
  <2>1. \A x \in Ceed : Owed(x) \in Nat /\ Owed(x)' \in Nat
    BY DEF Owed, IInv, ContextTypeOK
  <2> QED
    BY <2>1 DEF IInv, OnlyLiveOwed
<1>5. \A o \in Object : home'[o] # NULL => home'[o] \in Live
  BY DEF IInv, NothingDangles, Live
<1>6. FreedWhenUnreferenced'
  <2>1. \A x \in Live : /\ ref_count[x] \in Nat /\ ref_count'[x] \in Nat
                        /\ refused[x] \in Nat /\ refused'[x] \in Nat
    BY DEF Live, IInv, ContextTypeOK
  <2>2. \A x \in Live : ref_count'[x] = 0 => ref_count[x] = 0
    BY <2>1
  <2>3. \A x \in Live : ref_count'[x] = 0 => Reading(readers, x) \/ refused'[x] > 0
    BY <2>1, <2>2 DEF IInv, FreedWhenUnreferenced
  <2>4. Live' = Live /\ readers' = readers
    BY DEF Live
  <2> QED
    BY <2>3, <2>4 DEF FreedWhenUnreferenced, Reading
<1> QED
  BY <1>1, <1>2, <1>3, <1>4, <1>5, <1>6, SamePhase

\* A reference for a caller.
LEMMA AddHandleKeeps ==
  ASSUME IInv, NEW c \in Live, AddHandle(c)
  PROVE  IInv'
<1>1. /\ ref_count' = [ref_count EXCEPT ![c] = @ + 1]
      /\ handles' = [handles EXCEPT ![c] = @ + 1]
      /\ UNCHANGED <<phase, readers, objVars, refused, leaked, held>>
      /\ err' = "success"
  BY DEF AddHandle, Counted
<1>2. c \in Ceed
  BY DEF Live
<1>3. ContextTypeOK'
  BY <1>1, <1>2 DEF IInv, ContextTypeOK, objVars
<1>4. \A x \in Live : x \in Ceed /\ ref_count[x] \in Nat /\ handles[x] \in Nat /\ leaked[x] \in Nat
                      /\ refused[x] \in Nat
  BY DEF Live, IInv, ContextTypeOK
<1>5. \A x \in Live : ref_count'[x] - Owed(x)' = ref_count[x] - Owed(x)
  BY <1>1, <1>4 DEF Owed, IInv, ContextTypeOK
<1>6. \A x \in Ceed : Owed(x)' > Owed(x) => x \in Live
  BY <1>1 DEF Owed, IInv, ContextTypeOK
<1>7. \A x \in Live : ref_count'[x] >= ref_count[x] /\ refused'[x] >= refused[x]
  BY <1>1, <1>4 DEF IInv, ContextTypeOK
<1>8. UNCHANGED <<phase, objVars, readers>> /\ \A o \in Object : held'[o] = held[o]
  BY <1>1
<1> QED
  BY <1>3, <1>5, <1>6, <1>7, <1>8, SameObjects

\* References that a failing call has lost.
LEMMA LeakKeeps ==
  ASSUME IInv, NEW S \in SUBSET Live, Leak(S),
         UNCHANGED <<phase, readers, objVars, handles, refused, held>>,
         err' \in {"success", "access", "unsupported", "major"}
  PROVE  IInv'
<1>1. /\ ref_count' = [c \in Ceed |-> IF c \in S THEN ref_count[c] + 1 ELSE ref_count[c]]
      /\ leaked' = [c \in Ceed |-> IF c \in S THEN leaked[c] + 1 ELSE leaked[c]]
  BY DEF Leak
<1>2. \A x \in Ceed : /\ ref_count[x] \in Nat /\ handles[x] \in Nat /\ leaked[x] \in Nat
                      /\ refused[x] \in Nat
  BY DEF IInv, ContextTypeOK
<1>3. ContextTypeOK'
  <2>1. ref_count' \in [Ceed -> Nat] /\ leaked' \in [Ceed -> Nat]
    BY <1>1, <1>2
  <2> QED
    BY <2>1 DEF IInv, ContextTypeOK, objVars
<1>4. \A x \in Live : x \in Ceed
  BY DEF Live
<1>5. \A x \in Ceed : \/ ref_count'[x] = ref_count[x] + 1 /\ Owed(x)' = Owed(x) + 1 /\ x \in Live
                      \/ ref_count'[x] = ref_count[x] /\ Owed(x)' = Owed(x)
  BY <1>1, <1>2 DEF Owed
<1>6. \A x \in Ceed : Owed(x) \in Nat
  BY <1>2 DEF Owed
<1> HIDE DEF Owed
<1>7. \A x \in Live : ref_count'[x] - Owed(x)' = ref_count[x] - Owed(x)
  BY <1>2, <1>4, <1>5, <1>6
<1>8. \A x \in Ceed : Owed(x)' > Owed(x) => x \in Live
  BY <1>5, <1>6
<1>9. \A x \in Live : ref_count'[x] >= ref_count[x] /\ refused'[x] >= refused[x]
  BY <1>2, <1>4, <1>5
<1>10. UNCHANGED <<phase, objVars, readers>> /\ \A o \in Object : held'[o] = held[o]
  OBVIOUS
<1> QED
  BY <1>3, <1>7, <1>8, <1>9, <1>10, SameObjects

\* A reference to an object that is there, or one less to one that stays.
LEMMA HeldKeeps ==
  ASSUME IInv, NEW o \in Object, home[o] # NULL, NEW n \in Nat,
         held' = [held EXCEPT ![o] = n], n > 0 \/ (Pooled(o) /\ ~Lent(o)),
         UNCHANGED <<ceedVars, readers, objVars, handles, refused, leaked>>, err' = "success"
  PROVE  IInv'
<1>1. ContextTypeOK'
  BY DEF IInv, ContextTypeOK, ceedVars, objVars
<1>2. \A p \in Object : \/ held'[p] = held[p]
                        \/ home[p] # NULL /\ held'[p] > 0
                        \/ home[p] # NULL /\ p \in pool[home[p]] \ in_use[home[p]]
  BY DEF IInv, ContextTypeOK, Pooled, Lent
<1>3. \A x \in Live : x \in Ceed /\ ref_count[x] \in Nat /\ refused[x] \in Nat
  BY DEF IInv, ContextTypeOK, Live
<1>4. \A x \in Ceed : Owed(x)' = Owed(x) /\ Owed(x) \in Nat
  BY DEF Owed, IInv, ContextTypeOK
<1>5. \A x \in Live : ref_count'[x] - Owed(x)' = ref_count[x] - Owed(x)
  BY <1>3, <1>4 DEF ceedVars
<1>6. \A x \in Ceed : Owed(x)' > Owed(x) => x \in Live
  BY <1>4
<1>7. \A x \in Live : ref_count'[x] >= ref_count[x] /\ refused'[x] >= refused[x]
  BY <1>3 DEF ceedVars
<1>8. UNCHANGED <<phase, objVars, readers>>
  BY DEF ceedVars
<1> QED
  BY <1>1, <1>2, <1>5, <1>6, <1>7, <1>8, SameObjects

\* A step that changes the objects of one context, and its count with them.
LEMMA SameOwed ==
  ASSUME IInv, UNCHANGED <<phase, readers, handles, leaked, refused>>,
         ContextTypeOK', PoolsOwned', NEW t \in Live,
         \A x \in Live \ {t} : Counting(x)' = Counting(x) /\ ref_count'[x] = ref_count[x],
         ref_count'[t] - Cardinality(Counting(t)') = ref_count[t] - Cardinality(Counting(t)),
         \A o \in Object : home'[o] # NULL => home'[o] \in Live,
         ref_count'[t] = 0 => ref_count[t] = 0 \/ refused[t] > 0
  PROVE  IInv'
<1>1. RootsRead'
  BY DEF IInv, RootsRead
<1>2. ASSUME NEW x \in Live
      PROVE  ref_count'[x] = Owed(x)' + FromParent(x) + Cardinality(Counting(x)')
  <2>1. x \in Ceed /\ Owed(x)' = Owed(x) /\ Owed(x) \in Nat
        /\ ref_count[x] \in Nat /\ ref_count'[x] \in Nat
    BY DEF Live, Owed, IInv, ContextTypeOK
  <2>2. ref_count[x] = Owed(x) + FromParent(x) + Cardinality(Counting(x))
    BY DEF IInv, ReferencesAccounted, Owed
  <2>3. Cardinality(Counting(x)) \in Nat /\ FromParent(x) \in Nat
    BY <2>1, CountingType, FromParentType
  <2>4. Cardinality(Counting(x)') \in Nat
    <3>1. Counting(x)' \in SUBSET Object
      BY DEF Counting
    <3> QED
      BY <3>1, ObjectSets
  <2>5. CASE x = t
    <3> DEFINE new == Cardinality(Counting(t)')
               old == Cardinality(Counting(t))
    <3>1. ref_count'[t] - new = ref_count[t] - old /\ new \in Nat /\ old \in Nat
      BY <2>3, <2>4, <2>5
    <3>2. ref_count[t] = Owed(t) + FromParent(t) + old
      BY <2>2, <2>5
    <3> HIDE DEF new, old
    <3>3. ref_count'[t] = Owed(t) + FromParent(t) + new
      BY <2>1, <2>3, <2>5, <3>1, <3>2
    <3> QED
      BY <2>1, <2>5, <3>3 DEF new
  <2>6. CASE x # t
    BY <2>1, <2>2, <2>6
  <2> QED
    BY <2>5, <2>6
<1>3. \A x \in Ceed : Owed(x)' > 0 => x \in Live
  BY DEF IInv, OnlyLiveOwed, Owed
<1>4. FreedWhenUnreferenced'
  <2>1. Live' = Live
    BY DEF Live
  <2>2. \A x \in Live : ref_count'[x] = 0 => Reading(readers, x) \/ refused[x] > 0
    BY DEF IInv, FreedWhenUnreferenced
  <2> QED
    BY <2>1, <2>2 DEF FreedWhenUnreferenced, Reading
<1> QED
  BY <1>1, <1>2, <1>3, <1>4, SamePhase

\* A new object, outside the pools.
LEMMA CreateKeeps ==
  ASSUME IInv, NEW t \in Live, NEW o \in Object, home[o] = NULL, NEW len \in Nat,
         home' = [home EXCEPT ![o] = t], length' = [length EXCEPT ![o] = len],
         held' = [held EXCEPT ![o] = 1], ref_count' = Counted(1, t), err' = "success",
         UNCHANGED <<phase, readers, pool, in_use, handles, refused, leaked>>
  PROVE  IInv'
<1>1. t \in Ceed /\ ref_count[t] \in Nat /\ ref_count' = [ref_count EXCEPT ![t] = @ + 1]
  BY DEF Live, IInv, ContextTypeOK, Counted
<1>2. ContextTypeOK'
  BY <1>1 DEF IInv, ContextTypeOK
<1>3. \A x \in Ceed : o \notin pool[x] /\ o \notin in_use[x]
  BY TopologyAssumption DEF IInv, PoolsOwned
<1>4. PoolsOwned'
  <2>1. \A x \in Ceed : in_use'[x] \subseteq pool'[x]
    BY DEF IInv, PoolsOwned
  <2>2. \A x \in Ceed : \A p \in pool'[x] : home'[p] = x
    BY <1>3 DEF IInv, PoolsOwned, ContextTypeOK
  <2>3. home'[o] = t /\ held'[o] = 1
    BY DEF IInv, ContextTypeOK
  <2>4. \A p \in Object \ {o} : home'[p] = home[p] /\ held'[p] = held[p]
    BY DEF IInv, ContextTypeOK
  <2>5. t # NULL
    BY <1>1, TopologyAssumption
  <2>6. ASSUME NEW p \in Object
        PROVE  /\ home'[p] = NULL => held'[p] = 0
               /\ home'[p] # NULL /\ (p \notin pool'[home'[p]] \/ p \in in_use'[home'[p]]) => held'[p] > 0
    <3>1. CASE p = o
      BY <2>3, <2>5, <3>1
    <3>2. CASE p # o
      BY <2>4, <3>2 DEF IInv, PoolsOwned
    <3> QED
      BY <3>1, <3>2
  <2> QED
    BY <2>1, <2>2, <2>6 DEF PoolsOwned
<1>5. Counting(t)' = Counting(t) \cup {o} /\ o \notin Counting(t)
  <2>1. \A p \in Object : home'[p] = t <=> home[p] = t \/ p = o
    BY DEF IInv, ContextTypeOK
  <2>2. t # NULL
    BY <1>1, TopologyAssumption
  <2> QED
    BY <1>1, <1>3, <2>1, <2>2 DEF Counting
<1>6. \A x \in Live \ {t} : Counting(x)' = Counting(x) /\ ref_count'[x] = ref_count[x]
  <2>1. \A x \in Live : x \in Ceed /\ x # NULL
    BY TopologyAssumption DEF Live
  <2>2. \A x \in Live \ {t} : \A p \in Object : home'[p] = x <=> home[p] = x
    BY <2>1 DEF IInv, ContextTypeOK
  <2>3. \A x \in Live \ {t} : Counting(x)' = Counting(x)
    BY <2>2 DEF Counting
  <2> QED
    BY <1>1, <2>1, <2>3 DEF IInv, ContextTypeOK
<1>7. ref_count'[t] = ref_count[t] + 1
  BY <1>1 DEF IInv, ContextTypeOK
<1>8. Cardinality(Counting(t)') = Cardinality(Counting(t)) + 1
  BY <1>1, <1>5, CountingType, OneObjectMore
<1>9. ref_count'[t] - Cardinality(Counting(t)') = ref_count[t] - Cardinality(Counting(t))
  <2> DEFINE new == Cardinality(Counting(t)')
             old == Cardinality(Counting(t))
  <2>1. old \in Nat /\ new = old + 1
    BY <1>1, <1>8, CountingType
  <2> HIDE DEF new, old
  <2>2. ref_count'[t] - new = ref_count[t] - old
    BY <1>1, <1>7, <2>1
  <2> QED
    BY <2>2 DEF new, old
<1>10. \A p \in Object : home'[p] # NULL => home'[p] \in Live
  BY DEF IInv, NothingDangles, ContextTypeOK
<1>11. ref_count'[t] # 0
  BY <1>1, <1>7
<1> QED
  BY <1>2, <1>4, <1>6, <1>9, <1>10, <1>11, SameOwed

\* A vector of the pool, or a new one that joins it, is lent. It is not in another pool.
LEMMA LendKeeps ==
  ASSUME IInv, NEW t \in Live, NEW o \in Object, NEW len \in Nat, Lend(t, o),
         \/ o \in pool[t] \ in_use[t] /\ UNCHANGED <<home, length, pool>>
         \/ /\ home[o] = NULL
            /\ home' = [home EXCEPT ![o] = t]
            /\ length' = [length EXCEPT ![o] = len]
            /\ pool' = [pool EXCEPT ![t] = @ \cup {o}]
  PROVE  IInv'
<1>1. /\ in_use' = [in_use EXCEPT ![t] = @ \cup {o}]
      /\ held' = [held EXCEPT ![o] = @ + 1]
      /\ ref_count' = [ref_count EXCEPT ![t] = @ + 1]
      /\ err' = "success"
      /\ UNCHANGED <<phase, readers, handles, refused, leaked>>
  BY DEF Lend, Counted
<1>2. t \in Ceed /\ t # NULL /\ ref_count[t] \in Nat
  BY TopologyAssumption DEF Live, IInv, ContextTypeOK
<1>3. ContextTypeOK'
  <2>1. home' \in [Object -> Ceed \cup {NULL}]
    BY <1>2 DEF IInv, ContextTypeOK
  <2>1a. length' \in [Object -> Nat]
    BY DEF IInv, ContextTypeOK
  <2>1b. pool' \in [Ceed -> SUBSET Object]
    <3>1. pool \in [Ceed -> SUBSET Object]
      BY DEF IInv, ContextTypeOK
    <3>2. pool' = pool \/ pool' = [pool EXCEPT ![t] = @ \cup {o}]
      OBVIOUS
    <3> QED
      BY <1>2, <3>1, <3>2
  <2>2. /\ in_use' \in [Ceed -> SUBSET Object] /\ held' \in [Object -> Nat]
        /\ ref_count' \in [Ceed -> Nat]
    BY <1>1, <1>2 DEF IInv, ContextTypeOK
  <2> QED
    BY <1>1, <2>1, <2>1a, <2>1b, <2>2 DEF IInv, ContextTypeOK
<1>4. /\ \A x \in Ceed \ {t} : in_use'[x] = in_use[x] /\ pool'[x] = pool[x]
      /\ in_use'[t] = in_use[t] \cup {o} /\ pool'[t] = pool[t] \cup {o}
      /\ home'[o] = t
      /\ \A p \in Object \ {o} : home'[p] = home[p] /\ held'[p] = held[p]
      /\ held'[o] = held[o] + 1 /\ held[o] \in Nat
      /\ \A x \in Ceed \ {t} : o \notin pool[x]
      /\ home[o] = t \/ home[o] = NULL
      /\ o \notin in_use[t]
  <2>1. o \in pool[t] \ in_use[t] => home[o] = t
    BY <1>2 DEF IInv, PoolsOwned
  <2>2. home[o] = NULL => \A x \in Ceed : o \notin pool[x] /\ o \notin in_use[x]
    BY TopologyAssumption DEF IInv, PoolsOwned
  <2>3. \A x \in Ceed \ {t} : o \notin pool[x]
    BY <1>2, <2>1, <2>2 DEF IInv, PoolsOwned
  <2>4. home'[o] = t /\ \A p \in Object \ {o} : home'[p] = home[p]
    BY <2>1 DEF IInv, ContextTypeOK
  <2>5. /\ \A x \in Ceed \ {t} : pool'[x] = pool[x]
        /\ pool'[t] = pool[t] \cup {o}
    BY <1>2 DEF IInv, ContextTypeOK
  <2>6. /\ \A x \in Ceed \ {t} : in_use'[x] = in_use[x]
        /\ in_use'[t] = in_use[t] \cup {o}
        /\ \A p \in Object \ {o} : held'[p] = held[p]
        /\ held'[o] = held[o] + 1 /\ held[o] \in Nat
    BY <1>1, <1>2 DEF IInv, ContextTypeOK
  <2> QED
    BY <1>2, <2>1, <2>2, <2>3, <2>4, <2>5, <2>6
<1>5. PoolsOwned'
  <2>1. \A x \in Ceed : in_use'[x] \subseteq pool'[x]
    BY <1>4 DEF IInv, PoolsOwned
  <2>2. ASSUME NEW x \in Ceed, NEW p \in pool'[x]
        PROVE  home'[p] = x
    <3>1. CASE p = o
      BY <1>4, <2>2, <3>1
    <3>2. CASE p # o
      <4>1. p \in pool[x] /\ p \in Object
        BY <1>4, <2>2, <3>2 DEF IInv, ContextTypeOK
      <4> QED
        BY <1>4, <3>2, <4>1 DEF IInv, PoolsOwned
    <3> QED
      BY <3>1, <3>2
  <2>3. ASSUME NEW p \in Object
        PROVE  /\ home'[p] = NULL => held'[p] = 0
               /\ home'[p] # NULL /\ (p \notin pool'[home'[p]] \/ p \in in_use'[home'[p]]) => held'[p] > 0
    <3>1. CASE p = o
      BY <1>2, <1>4, <3>1
    <3>2. CASE p # o
      <4>1. /\ home'[p] = home[p] /\ held'[p] = held[p]
            /\ \A x \in Ceed : p \in pool'[x] <=> p \in pool[x]
            /\ \A x \in Ceed : p \in in_use'[x] <=> p \in in_use[x]
        BY <1>4, <3>2
      <4>2. home[p] \in Ceed \cup {NULL}
        BY DEF IInv, ContextTypeOK
      <4> QED
        BY <4>1, <4>2 DEF IInv, PoolsOwned
    <3> QED
      BY <3>1, <3>2
  <2> QED
    BY <2>1, <2>2, <2>3 DEF PoolsOwned
<1>6. ASSUME NEW x \in Live \ {t}
      PROVE  Counting(x)' = Counting(x) /\ ref_count'[x] = ref_count[x]
  <2>1. x \in Ceed \ {t} /\ x # NULL
    BY TopologyAssumption, <1>6 DEF Live
  <2>2. \A p \in Object : home'[p] = x <=> home[p] = x
    BY <1>2, <1>4, <2>1
  <2>3. pool'[x] = pool[x] /\ in_use'[x] = in_use[x]
    BY <1>4, <2>1
  <2>4. Counting(x)' = Counting(x)
    BY <2>2, <2>3 DEF Counting
  <2> QED
    BY <1>1, <2>1, <2>4 DEF IInv, ContextTypeOK
<1>7. Counting(t)' = Counting(t) \cup {o} /\ o \notin Counting(t)
  <2>1. \A p \in Object : home'[p] = t <=> home[p] = t \/ p = o
    BY <1>4
  <2>2. o \notin Counting(t)
    BY <1>2, <1>4 DEF Counting
  <2> QED
    BY <1>4, <2>1, <2>2 DEF Counting
<1>8. Cardinality(Counting(t)') = Cardinality(Counting(t)) + 1
  BY <1>2, <1>7, CountingType, OneObjectMore
<1>9. ref_count'[t] = ref_count[t] + 1
  BY <1>1, <1>2 DEF IInv, ContextTypeOK
<1>10. ref_count'[t] - Cardinality(Counting(t)') = ref_count[t] - Cardinality(Counting(t))
  <2> DEFINE new == Cardinality(Counting(t)')
             old == Cardinality(Counting(t))
  <2>1. old \in Nat /\ new = old + 1
    BY <1>2, <1>8, CountingType
  <2> HIDE DEF new, old
  <2>2. ref_count'[t] - new = ref_count[t] - old
    BY <1>2, <1>9, <2>1
  <2> QED
    BY <2>2 DEF new, old
<1>11. \A p \in Object : home'[p] # NULL => home'[p] \in Live
  BY <1>4 DEF IInv, NothingDangles
<1>12. ref_count'[t] # 0
  BY <1>2, <1>9
<1> QED
  BY <1>1, <1>3, <1>5, <1>6, <1>10, <1>11, <1>12, SameOwed

\* A vector comes back. Its context stays: whoever gives it back has a way to it.
LEMMA RestoreKeeps ==
  ASSUME IInv, NEW c \in Ceed, NEW o \in Object, RestoreLent(c, o)
  PROVE  IInv'
<1> DEFINE t == WorkTarget(c)
<1>1. /\ Usable(c) /\ o \in in_use[t]
      /\ in_use' = [in_use EXCEPT ![t] = @ \ {o}]
      /\ held' = [held EXCEPT ![o] = @ - 1]
      /\ ref_count' = [ref_count EXCEPT ![t] = @ + -1]
      /\ err' = "success"
      /\ UNCHANGED <<phase, readers, home, length, pool, handles, refused, leaked>>
  BY DEF RestoreLent, Counted
<1>2. t \in Live /\ t \in Ceed /\ (t = c \/ Parent[t] \in Live) /\ t # NULL
  BY <1>1, WorkTargetLive, TopologyAssumption DEF IInv
<1> HIDE DEF t
<1>3. /\ home[o] = t /\ o \in pool[t] /\ held[o] > 0 /\ held[o] \in Nat
      /\ o \in Counting(t)
  BY <1>1, <1>2 DEF IInv, PoolsOwned, ContextTypeOK, Counting
<1>4. Cardinality(Counting(t)) = Cardinality(Counting(t) \ {o}) + 1
      /\ Cardinality(Counting(t) \ {o}) \in Nat
  BY <1>2, <1>3, CountingType, OneObjectLess, ObjectSets
<1>5. /\ handles[t] \in Nat /\ leaked[t] \in Nat /\ FromParent(t) \in Nat
      /\ ref_count[t] \in Nat /\ refused[t] \in Nat
      /\ ref_count[t] = Owed(t) + FromParent(t) + Cardinality(Counting(t))
  BY <1>2, FromParentType DEF IInv, ContextTypeOK, ReferencesAccounted, Owed
<1>6. ref_count'[t] = ref_count[t] - 1 /\ ref_count[t] >= 1
  <2> DEFINE n == Cardinality(Counting(t) \ {o})
  <2>1. n \in Nat /\ ref_count[t] = Owed(t) + FromParent(t) + (n + 1) /\ Owed(t) \in Nat
    BY <1>4, <1>5 DEF Owed
  <2> HIDE DEF n
  <2>2. ref_count[t] >= 1
    BY <1>5, <2>1
  <2> QED
    BY <1>1, <1>2, <1>5, <2>2 DEF IInv, ContextTypeOK
<1>7. ContextTypeOK'
  <2>1. ref_count' \in [Ceed -> Nat]
    BY <1>1, <1>2, <1>5, <1>6 DEF IInv, ContextTypeOK
  <2>2. held' \in [Object -> Nat]
    BY <1>1, <1>3 DEF IInv, ContextTypeOK
  <2>3. in_use' \in [Ceed -> SUBSET Object]
    BY <1>1, <1>2 DEF IInv, ContextTypeOK
  <2> QED
    BY <1>1, <2>1, <2>2, <2>3 DEF IInv, ContextTypeOK
<1>8. /\ \A x \in Ceed \ {t} : in_use'[x] = in_use[x]
      /\ in_use'[t] = in_use[t] \ {o}
      /\ \A p \in Object \ {o} : held'[p] = held[p]
  BY <1>1, <1>2 DEF IInv, ContextTypeOK
<1>9. PoolsOwned'
  <2>1. \A x \in Ceed : in_use'[x] \subseteq pool[x]
    BY <1>8 DEF IInv, PoolsOwned
  <2>2. ASSUME NEW p \in Object
        PROVE  /\ home[p] = NULL => held'[p] = 0
               /\ home[p] # NULL /\ (p \notin pool[home[p]] \/ p \in in_use'[home[p]]) => held'[p] > 0
    <3>1. CASE p = o
      BY <1>2, <1>3, <1>8, <3>1
    <3>2. CASE p # o
      <4>1. /\ held'[p] = held[p] /\ home[p] \in Ceed \cup {NULL}
            /\ \A x \in Ceed : p \in in_use'[x] <=> p \in in_use[x]
        BY <1>8, <3>2 DEF IInv, ContextTypeOK
      <4> QED
        BY <4>1 DEF IInv, PoolsOwned
    <3> QED
      BY <3>1, <3>2
  <2> QED
    BY <1>1, <2>1, <2>2 DEF IInv, PoolsOwned
<1>10. ASSUME NEW x \in Live \ {t}
       PROVE  Counting(x)' = Counting(x) /\ ref_count'[x] = ref_count[x]
  <2>1. x \in Ceed \ {t}
    BY <1>10 DEF Live
  <2>2. Counting(x)' = Counting(x)
    BY <1>1, <1>8, <2>1 DEF Counting
  <2> QED
    BY <1>1, <2>1, <2>2 DEF IInv, ContextTypeOK
<1>11. Counting(t)' = Counting(t) \ {o}
  BY <1>1, <1>3, <1>8 DEF Counting
<1>12. ref_count'[t] - Cardinality(Counting(t)') = ref_count[t] - Cardinality(Counting(t))
  <2> DEFINE new == Cardinality(Counting(t)')
             old == Cardinality(Counting(t))
  <2>1. new \in Nat /\ old = new + 1
    BY <1>4, <1>11
  <2> HIDE DEF new, old
  <2>2. ref_count'[t] - new = ref_count[t] - old
    BY <1>5, <1>6, <2>1
  <2> QED
    BY <2>2 DEF new, old
<1>13. ref_count'[t] = 0 => refused[t] > 0
  <2> DEFINE n == Cardinality(Counting(t) \ {o})
  <2>1. n \in Nat /\ ref_count[t] = Owed(t) + FromParent(t) + (n + 1) /\ Owed(t) \in Nat
    BY <1>4, <1>5 DEF Owed
  <2> DEFINE w == Owed(t)
             f == FromParent(t)
  <2> HIDE DEF n, w, f
  <2>1a. n \in Nat /\ w \in Nat /\ f \in Nat /\ ref_count[t] = w + f + (n + 1)
    BY <1>5, <2>1 DEF w, f
  <2>1b. ref_count'[t] = 0 => w = 0 /\ f = 0
    BY <1>6, <2>1a
  <2>2. ref_count'[t] = 0 => Owed(t) = 0 /\ FromParent(t) = 0
    BY <2>1b DEF w, f
  <2>3. Parent[t] \in Live => FromParent(t) # 0
    BY <1>2, FromParentType
  <2>4. t = c => Owed(t) > 0 \/ refused[t] > 0
    BY <1>1, <1>5 DEF Usable, Owed
  <2> QED
    BY <1>2, <2>2, <2>3, <2>4
<1>14. \A p \in Object : home'[p] # NULL => home'[p] \in Live
  BY <1>1 DEF IInv, NothingDangles
<1> QED
  BY <1>1, <1>2, <1>7, <1>9, <1>10, <1>12, <1>13, <1>14, SameOwed

\* Idle vectors leave the pool: those that a caller has a reference to count from now on.
LEMMA ClearKeeps ==
  ASSUME IInv, NEW c \in Ceed, NEW min_len \in Nat, CeedClearWorkVectors(c, min_len)
  PROVE  IInv'
<1> DEFINE t == WorkTarget(c)
           cleared == {o \in pool[t] \ in_use[t] : length[o] < min_len}
           kept == {o \in cleared : held[o] > 0}
           dropped == cleared \ kept
<1>1. /\ Usable(c)
      /\ pool' = [pool EXCEPT ![t] = @ \ cleared]
      /\ home' = [o \in Object |-> IF o \in dropped THEN NULL ELSE home[o]]
      /\ length' = [o \in Object |-> IF o \in dropped THEN 0 ELSE length[o]]
      /\ ref_count' = [ref_count EXCEPT ![t] = @ + Cardinality(kept)]
      /\ err' = "success"
      /\ UNCHANGED <<phase, readers, in_use, handles, refused, leaked, held>>
  BY DEF CeedClearWorkVectors, Counted, Gone, callerVars
<1>2. t \in Live /\ t \in Ceed /\ t # NULL
  BY <1>1, WorkTargetLive, TopologyAssumption DEF IInv
<1> HIDE DEF t
<1>3. /\ kept \in SUBSET Object /\ cleared \in SUBSET Object /\ cleared \subseteq pool[t] \ in_use[t]
      /\ kept \subseteq cleared
      /\ \A o \in cleared : home[o] = t /\ o \in Object
      /\ \A o \in kept : held[o] > 0
      /\ \A o \in dropped : held[o] = 0
      /\ dropped \subseteq cleared
      /\ \A o \in cleared : o \in kept \/ o \in dropped
      /\ \A o \in kept : o \notin dropped
  BY <1>2 DEF IInv, PoolsOwned, ContextTypeOK
<1>4. IsFiniteSet(kept) /\ Cardinality(kept) \in Nat
  BY <1>3, ObjectSets
<1> HIDE DEF cleared, kept, dropped
<1>5. ref_count[t] \in Nat /\ ref_count'[t] = ref_count[t] + Cardinality(kept)
  BY <1>1, <1>2 DEF IInv, ContextTypeOK
<1>6. ContextTypeOK'
  <2>1. ref_count' \in [Ceed -> Nat]
    BY <1>1, <1>2, <1>4, <1>5 DEF IInv, ContextTypeOK
  <2>2. home' \in [Object -> Ceed \cup {NULL}] /\ length' \in [Object -> Nat]
    BY <1>1 DEF IInv, ContextTypeOK
  <2>3. pool' \in [Ceed -> SUBSET Object]
    BY <1>1, <1>2 DEF IInv, ContextTypeOK
  <2> QED
    BY <1>1, <2>1, <2>2, <2>3 DEF IInv, ContextTypeOK
<1>7. /\ \A x \in Ceed \ {t} : pool'[x] = pool[x] /\ ref_count'[x] = ref_count[x]
      /\ pool'[t] = pool[t] \ cleared
      /\ \A o \in Object : o \in dropped => home'[o] = NULL
      /\ \A o \in Object : o \notin dropped => home'[o] = home[o]
  BY <1>1, <1>2 DEF IInv, ContextTypeOK
<1>8. PoolsOwned'
  <2>1. \A x \in Ceed : in_use[x] \subseteq pool'[x]
    BY <1>3, <1>7 DEF IInv, PoolsOwned
  <2>2. ASSUME NEW x \in Ceed, NEW o \in pool'[x]
        PROVE  home'[o] = x
    <3>1. o \in pool[x] /\ o \in Object /\ home[o] = x
      BY <1>7, <2>2 DEF IInv, PoolsOwned, ContextTypeOK
    <3>2. o \notin dropped
      BY <1>3, <1>7, <2>2, <3>1
    <3> QED
      BY <1>7, <3>1, <3>2
  <2>3. ASSUME NEW o \in Object
        PROVE  /\ home'[o] = NULL => held[o] = 0
               /\ home'[o] # NULL /\ (o \notin pool'[home'[o]] \/ o \in in_use[home'[o]]) => held[o] > 0
    <3>1. CASE o \in dropped
      BY <1>3, <1>7, <3>1
    <3>2. CASE o \in kept
      BY <1>2, <1>3, <1>7, <3>2
    <3>3. CASE o \notin cleared
      <4>1. home'[o] = home[o] /\ home[o] \in Ceed \cup {NULL}
        BY <1>3, <1>7, <3>3 DEF IInv, ContextTypeOK
      <4>2. \A x \in Ceed : o \in pool'[x] <=> o \in pool[x]
        BY <1>7, <3>3
      <4> QED
        BY <4>1, <4>2 DEF IInv, PoolsOwned
    <3> QED
      BY <1>3, <3>1, <3>2, <3>3
  <2> QED
    BY <1>1, <2>1, <2>2, <2>3 DEF PoolsOwned
<1>9. ASSUME NEW x \in Live \ {t}
      PROVE  Counting(x)' = Counting(x) /\ ref_count'[x] = ref_count[x]
  <2>1. x \in Ceed \ {t} /\ x # NULL
    BY TopologyAssumption, <1>9 DEF Live
  <2>2. \A o \in Object : home'[o] = x <=> home[o] = x
    BY <1>3, <1>7, <2>1
  <2>3. Counting(x)' = Counting(x)
    BY <1>1, <1>7, <2>1, <2>2 DEF Counting
  <2> QED
    BY <1>7, <2>1, <2>3
<1>10. Counting(t)' = Counting(t) \cup kept /\ Counting(t) \cap kept = {}
  <2>1. Counting(t) \cap kept = {}
    BY <1>3 DEF Counting
  <2>2. ASSUME NEW o \in Object
        PROVE  o \in Counting(t)' <=> o \in Counting(t) \/ o \in kept
    <3>1. CASE o \in dropped
      BY <1>2, <1>3, <1>7, <3>1 DEF Counting
    <3>2. CASE o \in kept
      BY <1>2, <1>3, <1>7, <3>2 DEF Counting
    <3>3. CASE o \notin cleared
      BY <1>1, <1>3, <1>7, <3>3 DEF Counting
    <3> QED
      BY <1>3, <3>1, <3>2, <3>3
  <2>3. Counting(t) \subseteq Object /\ Counting(t)' \subseteq Object
    BY DEF Counting
  <2> QED
    BY <1>3, <2>1, <2>2, <2>3
<1>11. Cardinality(Counting(t)') = Cardinality(Counting(t)) + Cardinality(kept)
  <2>1. IsFiniteSet(Counting(t)) /\ Cardinality(Counting(t)) \in Nat
    BY <1>2, CountingType, ObjectSets
  <2> QED
    BY <1>4, <1>10, <2>1, FS_Union, FS_EmptySet
<1>12. ref_count'[t] - Cardinality(Counting(t)') = ref_count[t] - Cardinality(Counting(t))
  <2> DEFINE new == Cardinality(Counting(t)')
             old == Cardinality(Counting(t))
             n == Cardinality(kept)
  <2>1. old \in Nat /\ n \in Nat /\ new = old + n /\ ref_count'[t] = ref_count[t] + n
    BY <1>2, <1>4, <1>5, <1>11, CountingType
  <2> HIDE DEF new, old, n
  <2>2. ref_count'[t] - new = ref_count[t] - old
    BY <1>5, <2>1
  <2> QED
    BY <2>2 DEF new, old
<1>13. ref_count'[t] = 0 => ref_count[t] = 0
  BY <1>4, <1>5
<1>14. \A o \in Object : home'[o] # NULL => home'[o] \in Live
  BY <1>7 DEF IInv, NothingDangles
<1> QED
  BY <1>1, <1>2, <1>6, <1>8, <1>9, <1>12, <1>13, <1>14, SameOwed

(***************************************************************************)
(* Giving up a reference to a context.                                     *)
(***************************************************************************)
\* The state in which Release is entered: the reference to c that goes is counted by
\* nobody any more, and so are the objects in gone.
Entered(count, c, gone) ==
  /\ c \in Live /\ count \in [Ceed -> Nat] /\ gone \in SUBSET Object
  /\ \A o \in gone : home[o] = c /\ o \notin pool[c] /\ held'[o] = 0
  /\ \A o \in Object \ gone : held'[o] = held[o]
  /\ handles' \in [Ceed -> Nat] /\ leaked' \in [Ceed -> Nat] /\ refused' \in [Ceed -> Nat]
  /\ held' \in [Object -> Nat] /\ readers' \in [Ceed -> [List -> Nat]]
  /\ \A x \in Live : count[x] = Owed(x)' + FromParent(x) + Cardinality(Counting(x) \ gone)
                                  + (IF x = c THEN 1 ELSE 0)
  /\ \A x \in Ceed : Owed(x)' > 0 => x \in Live
  /\ \A x \in Live \ {c} : count[x] = 0 => Reading(readers', x) \/ refused'[x] > 0
  /\ RootsRead'

LEMMA KeepKeeps ==
  ASSUME IInv, NEW count, NEW c, NEW gone, Entered(count, c, gone), Keep(count, c, gone),
         count[c] > 1 \/ Reading(readers', c),
         err' \in {"success", "access", "unsupported", "major"}
  PROVE  IInv'
<1>1. /\ ref_count' = [count EXCEPT ![c] = @ - 1]
      /\ home' = [o \in Object |-> IF o \in gone THEN NULL ELSE home[o]]
      /\ length' = [o \in Object |-> IF o \in gone THEN 0 ELSE length[o]]
      /\ UNCHANGED <<phase, pool, in_use>>
  BY DEF Keep, Gone
<1>2. c \in Ceed /\ c # NULL /\ c \in Live /\ count \in [Ceed -> Nat]
  BY TopologyAssumption DEF Entered, Live
<1>3. /\ \A o \in gone : home[o] = c /\ o \notin pool[c] /\ held'[o] = 0 /\ o \in Object
      /\ \A o \in Object \ gone : held'[o] = held[o]
  BY DEF Entered
<1>4. \A x \in Live : Counting(x)' = Counting(x) \ gone
  <2>1. \A x \in Live : x # NULL
    BY TopologyAssumption DEF Live
  <2>2. \A x \in Live : \A o \in Object : home'[o] = x <=> home[o] = x /\ o \notin gone
    BY <1>1, <2>1
  <2> QED
    BY <1>1, <2>2 DEF Counting
<1>5. ASSUME NEW x \in Live
      PROVE  /\ count[x] = Owed(x)' + FromParent(x) + Cardinality(Counting(x)')
                             + (IF x = c THEN 1 ELSE 0)
             /\ x \in Ceed /\ Owed(x)' \in Nat /\ FromParent(x) \in Nat
             /\ Cardinality(Counting(x)') \in Nat
  <2>1. Counting(x)' \in SUBSET Object
    BY DEF Counting
  <2>2. x \in Ceed /\ Cardinality(Counting(x)') \in Nat /\ FromParent(x) \in Nat
    BY <2>1, ObjectSets, FromParentType DEF Live
  <2>3. Owed(x)' \in Nat
    BY <2>2 DEF Entered, Owed
  <2>4. count[x] = Owed(x)' + FromParent(x) + Cardinality(Counting(x) \ gone)
                     + (IF x = c THEN 1 ELSE 0)
    BY DEF Entered
  <2> QED
    BY <1>4, <2>2, <2>3, <2>4
<1>6. ASSUME NEW x \in Live
      PROVE  ref_count'[x] = Owed(x)' + FromParent(x) + Cardinality(Counting(x)')
  <2>1. ref_count'[x] = count[x] - (IF x = c THEN 1 ELSE 0)
    BY <1>1, <1>2, <1>5
  <2> QED
    BY <1>5, <2>1
<1>7. ref_count' \in [Ceed -> Nat]
  <2>1. count[c] - 1 \in Nat
    BY <1>2, <1>5
  <2> QED
    BY <1>1, <1>2, <2>1
<1>8. ContextTypeOK'
  <2>1. home' \in [Object -> Ceed \cup {NULL}] /\ length' \in [Object -> Nat]
    BY <1>1 DEF IInv, ContextTypeOK
  <2>2. /\ handles' \in [Ceed -> Nat] /\ leaked' \in [Ceed -> Nat] /\ refused' \in [Ceed -> Nat]
        /\ held' \in [Object -> Nat] /\ readers' \in [Ceed -> [List -> Nat]]
    BY DEF Entered
  <2> QED
    BY <1>1, <1>7, <2>1, <2>2 DEF IInv, ContextTypeOK
<1>9. PoolsOwned'
  <2>1. ASSUME NEW x \in Ceed, NEW o \in pool[x]
        PROVE  home'[o] = x
    <3>1. home[o] = x /\ o \in Object
      BY DEF IInv, PoolsOwned, ContextTypeOK
    <3>2. o \notin gone
      BY <1>3, <3>1
    <3> QED
      BY <1>1, <3>1, <3>2
  <2>2. ASSUME NEW o \in Object
        PROVE  /\ home'[o] = NULL => held'[o] = 0
               /\ home'[o] # NULL /\ (o \notin pool[home'[o]] \/ o \in in_use[home'[o]]) => held'[o] > 0
    <3>1. CASE o \in gone
      BY <1>1, <1>3, <3>1
    <3>2. CASE o \notin gone
      <4>1. home'[o] = home[o] /\ held'[o] = held[o]
        BY <1>1, <1>3, <3>2
      <4> QED
        BY <4>1 DEF IInv, PoolsOwned
    <3> QED
      BY <3>1, <3>2
  <2>3. \A x \in Ceed : in_use[x] \subseteq pool[x]
    BY DEF IInv, PoolsOwned
  <2> QED
    BY <1>1, <2>1, <2>2, <2>3 DEF PoolsOwned
<1>10. FreedWhenUnreferenced'
  <2>1. ASSUME NEW x \in Live, ref_count'[x] = 0
        PROVE  Reading(readers', x) \/ refused'[x] > 0
    <3>1. CASE x = c
      <4>1. ref_count'[c] = count[c] - 1 /\ count[c] \in Nat
        BY <1>1, <1>2
      <4> QED
        BY <2>1, <3>1, <4>1
    <3>2. CASE x # c
      <4>1. count[x] = 0
        BY <1>1, <1>2, <1>5, <2>1, <3>2
      <4> QED
        BY <3>2, <4>1 DEF Entered
    <3> QED
      BY <3>1, <3>2
  <2>2. Live' = Live
    BY <1>1 DEF Live
  <2> QED
    BY <2>1, <2>2 DEF FreedWhenUnreferenced
<1>11. \A o \in Object : home'[o] # NULL => home'[o] \in Live
  BY <1>1 DEF IInv, NothingDangles
<1>12. (\A x \in Ceed : Owed(x)' > 0 => x \in Live) /\ RootsRead'
  BY DEF Entered
<1> QED
  BY <1>1, <1>6, <1>8, <1>9, <1>10, <1>11, <1>12, SamePhase

\* The contexts that go with c.
GoesWith(count, c) == Cascade(count, Cascade(count, {c}))

\* A chain of contexts ends before it comes to a context again: two rounds of Cascade
\* reach every context that goes with c.
LEMMA CascadeWhole ==
  ASSUME NEW count, NEW c \in Ceed
  PROVE  LET D == GoesWith(count, c)
         IN /\ D \subseteq Ceed /\ c \in D
            /\ \A d \in D : d # c => Parent[d] \in D /\ count[d] = References[Parent[d]][d]
            /\ \A d \in Ceed : Parent[d] \in D /\ count[d] = References[Parent[d]][d] => d \in D
<1> DEFINE goes(d) == count[d] = References[Parent[d]][d]
           one == Cascade(count, {c})
           D == Cascade(count, one)
<1>1. one = {c} \cup {d \in Ceed : Parent[d] = c /\ goes(d)}
  BY DEF Cascade
<1>2. D = one \cup {d \in Ceed : Parent[d] \in one /\ goes(d)}
  BY DEF Cascade
<1> HIDE DEF one, D
<1>3. D \subseteq Ceed /\ c \in D /\ one \subseteq D /\ one \subseteq Ceed
  BY <1>1, <1>2
<1>4. ASSUME NEW d \in D, d # c
      PROVE  Parent[d] \in D /\ goes(d)
  <2>1. CASE d \in one
    BY <1>1, <1>3, <1>4, <2>1
  <2>2. CASE d \notin one
    BY <1>2, <1>3, <2>2
  <2> QED
    BY <2>1, <2>2
<1>5. ASSUME NEW d \in Ceed, Parent[d] \in D, goes(d)
      PROVE  d \in D
  <2>1. CASE Parent[d] \in one
    BY <1>2, <1>5, <2>1
  <2>2. CASE Parent[d] \notin one
    <3> DEFINE p == Parent[d]
               q == Parent[p]
    <3>1. p \in Ceed /\ q \in one /\ q # c
      BY <1>1, <1>2, <1>3, <1>5, <2>2
    <3>2. q \in Ceed /\ Parent[q] = c
      BY <1>1, <1>3, <3>1
    <3>3. p # NULL /\ q # NULL /\ c # NULL
      BY <3>1, <3>2, TopologyAssumption
    <3>4. Root(d) = q
      BY <3>3 DEF Root, Up
    <3>5. Parent[Root(d)] = NULL
      BY Roots
    <3> QED
      BY <3>2, <3>3, <3>4, <3>5
  <2> QED
    BY <2>1, <2>2
<1> QED
  BY <1>3, <1>4, <1>5 DEF one, D, GoesWith

\* Whoever goes is owed nothing and has nothing out.
LEMMA FreeEffects ==
  ASSUME IInv, NEW count, NEW c, NEW gone, Entered(count, c, gone), Free(count, c, gone),
         count[c] <= 1
  PROVE  LET D == GoesWith(count, c)
         IN /\ D \subseteq Live /\ c \in D
            /\ \A d \in D : d # c => Parent[d] \in D
            /\ \A d \in D : Owed(d)' = 0 /\ in_use[d] = {} /\ Counting(d) \subseteq gone
            /\ Parent[c] \notin Live
            /\ \A d \in Ceed : Parent[d] \in D /\ count[d] = References[Parent[d]][d] => d \in D
<1> DEFINE D == GoesWith(count, c)
<1>1. /\ D \subseteq Ceed /\ c \in D
      /\ \A d \in D : d # c => Parent[d] \in D /\ count[d] = References[Parent[d]][d]
      /\ \A d \in Ceed : Parent[d] \in D /\ count[d] = References[Parent[d]][d] => d \in D
  <2>1. c \in Ceed
    BY DEF Entered, Live
  <2> QED
    BY <2>1, CascadeWhole
<1>2. D \subseteq Live
  <2>1. c \in Live /\ c \in Ceed
    BY DEF Entered, Live
  <2>2. ASSUME NEW d \in Ceed, Parent[d] \in Live
        PROVE  d \in Live
    <3>1. Parent[d] # NULL /\ Parent[d] \in Ceed
      BY <2>2, TopologyAssumption DEF Live
    <3> QED
      BY <2>2, <3>1, ParentIs DEF IInv, NothingDangles
  <2>3. Cascade(count, {c}) \subseteq Live
    BY <2>1, <2>2 DEF Cascade
  <2> QED
    BY <2>2, <2>3 DEF Cascade, GoesWith
<1>3. ASSUME NEW d \in D
      PROVE  /\ count[d] = Owed(d)' + FromParent(d) + Cardinality(Counting(d) \ gone)
                             + (IF d = c THEN 1 ELSE 0)
             /\ Owed(d)' \in Nat /\ FromParent(d) \in Nat /\ Cardinality(Counting(d) \ gone) \in Nat
             /\ d \in Ceed /\ count[d] \in Nat
  <2>1. d \in Live /\ d \in Ceed
    BY <1>2 DEF Live
  <2>2. Counting(d) \ gone \in SUBSET Object
    BY <2>1, CountingType
  <2>3. Cardinality(Counting(d) \ gone) \in Nat /\ FromParent(d) \in Nat
    BY <2>1, <2>2, ObjectSets, FromParentType
  <2>4. Owed(d)' \in Nat /\ count[d] \in Nat
    BY <2>1 DEF Entered, Owed
  <2> QED
    BY <2>1, <2>3, <2>4 DEF Entered
<1>4. /\ FromParent(c) = 0 /\ Owed(c)' = 0
      /\ Cardinality(Counting(c) \ gone) = 0
  <2> DEFINE w == Owed(c)'
             f == FromParent(c)
             n == Cardinality(Counting(c) \ gone)
  <2>1. count[c] = w + f + n + 1 /\ w \in Nat /\ f \in Nat /\ n \in Nat
    BY <1>1, <1>3
  <2> HIDE DEF w, f, n
  <2>2. w = 0 /\ f = 0 /\ n = 0
    BY <2>1
  <2> QED
    BY <2>2 DEF w, f, n
<1>5. ASSUME NEW d \in D, d # c
      PROVE  Owed(d)' = 0 /\ Cardinality(Counting(d) \ gone) = 0
  <2> DEFINE w == Owed(d)'
             f == FromParent(d)
             n == Cardinality(Counting(d) \ gone)
  <2>1. /\ count[d] = w + f + n + (IF d = c THEN 1 ELSE 0)
        /\ w \in Nat /\ f \in Nat /\ n \in Nat
    BY <1>3
  <2>2. count[d] = f
    BY <1>1, <1>2, <1>3, <1>5, FromParentType
  <2> HIDE DEF w, f, n
  <2>3. w = 0 /\ n = 0
    BY <1>5, <2>1, <2>2
  <2> QED
    BY <2>3 DEF w, n
<1>6. ASSUME NEW d \in D
      PROVE  Owed(d)' = 0 /\ in_use[d] = {} /\ Counting(d) \subseteq gone
  <2>1. Owed(d)' = 0 /\ Cardinality(Counting(d) \ gone) = 0
    BY <1>4, <1>5
  <2>2. d \in Ceed /\ Counting(d) \ gone \in SUBSET Object
    BY <1>3, CountingType
  <2>3. Counting(d) \ gone = {}
    BY <2>1, <2>2, ObjectSets, FS_EmptySet
  <2>4. in_use[d] \subseteq Counting(d)
    BY <2>2 DEF IInv, PoolsOwned, ContextTypeOK, Counting
  <2>5. ASSUME NEW o \in in_use[d]
        PROVE  FALSE
    <3>1. o \in gone /\ o \in pool[d] /\ home[o] = d
      BY <2>2, <2>3, <2>4 DEF IInv, PoolsOwned
    <3>2. home[o] = c /\ o \notin pool[c]
      BY <3>1 DEF Entered
    <3> QED
      BY <3>1, <3>2
  <2> QED
    BY <2>1, <2>3, <2>5
<1>7. Parent[c] \notin Live
  BY <1>1, <1>4, FromParentType
<1> QED
  BY <1>1, <1>2, <1>6, <1>7

LEMMA FreeKeeps ==
  ASSUME IInv, NEW count, NEW c, NEW gone, Entered(count, c, gone), Free(count, c, gone),
         count[c] <= 1, err' \in {"success", "access", "unsupported", "major"}
  PROVE  IInv'
<1> DEFINE D == GoesWith(count, c)
           pooled == UNION {pool[d] : d \in D}
<1>1. /\ \A o \in pooled \ UNION {in_use[d] : d \in D} : held[o] = 0
      /\ phase' = [d \in Ceed |-> IF d \in D THEN "freed" ELSE phase[d]]
      /\ ref_count' = [d \in Ceed |-> IF d \in D THEN 0
                                      ELSE IF Parent[d] \in D THEN count[d] - References[Parent[d]][d]
                                      ELSE count[d]]
      /\ pool' = [d \in Ceed |-> IF d \in D THEN {} ELSE pool[d]]
      /\ in_use' = [d \in Ceed |-> IF d \in D THEN {} ELSE in_use[d]]
      /\ home' = [o \in Object |-> IF o \in gone \cup pooled THEN NULL ELSE home[o]]
      /\ length' = [o \in Object |-> IF o \in gone \cup pooled THEN 0 ELSE length[o]]
  BY DEF Free, Gone, GoesWith
<1>2. /\ D \subseteq Live /\ c \in D
      /\ \A d \in D : d # c => Parent[d] \in D
      /\ \A d \in D : Owed(d)' = 0 /\ in_use[d] = {} /\ Counting(d) \subseteq gone
      /\ Parent[c] \notin Live
      /\ \A d \in Ceed : Parent[d] \in D /\ count[d] = References[Parent[d]][d] => d \in D
  BY FreeEffects
<1> HIDE DEF D
<1>3. \A o \in pooled : held[o] = 0 /\ o \in Object /\ home[o] \in D
  <2>1. UNION {in_use[d] : d \in D} = {}
    BY <1>2
  <2>2. \A o \in pooled : \E d \in D : o \in pool[d]
    OBVIOUS
  <2>3. \A d \in D : d \in Ceed
    BY <1>2 DEF Live
  <2>4. ASSUME NEW o \in pooled
        PROVE  o \in Object /\ home[o] \in D
    <3>1. PICK d \in D : o \in pool[d]
      BY <2>2
    <3> QED
      BY <2>3, <3>1 DEF IInv, PoolsOwned, ContextTypeOK
  <2> QED
    BY <1>1, <2>1, <2>4
<1>4. \A d \in D : pool[d] \subseteq pooled
  OBVIOUS
<1> HIDE DEF pooled
<1>5. /\ \A o \in gone : home[o] \in D /\ held'[o] = 0 /\ o \in Object
      /\ \A o \in Object \ gone : held'[o] = held[o]
  BY <1>2 DEF Entered
<1>6. ASSUME NEW o \in Object, home[o] \in D
      PROVE  o \in gone \cup pooled
  <2>1. home[o] \in Ceed /\ Counting(home[o]) \subseteq gone
    BY <1>2, <1>6 DEF Live
  <2>2. CASE o \in Counting(home[o])
    BY <2>1, <2>2
  <2>3. CASE o \notin Counting(home[o])
    BY <1>4, <1>6, <2>3 DEF Counting
  <2> QED
    BY <2>2, <2>3
<1>7. Live' = Live \ D
  BY <1>1, <1>2 DEF Live
<1>8. ASSUME NEW x \in Live \ D
      PROVE  /\ Counting(x)' = Counting(x) \ gone
             /\ x \in Ceed
  <2>1. x \in Ceed /\ x # NULL /\ x \notin D
    BY TopologyAssumption DEF Live
  <2>2. ASSUME NEW o \in Object
        PROVE  home'[o] = x <=> home[o] = x /\ o \notin gone
    <3>1. CASE o \in gone \cup pooled
      BY <1>1, <1>3, <1>5, <2>1, <3>1
    <3>2. CASE o \notin gone \cup pooled
      BY <1>1, <3>2
    <3> QED
      BY <3>1, <3>2
  <2>3. pool'[x] = pool[x] /\ in_use'[x] = in_use[x]
    BY <1>1, <2>1
  <2> QED
    BY <2>1, <2>2, <2>3 DEF Counting
<1>9. ASSUME NEW x \in Live \ D
      PROVE  /\ FromParent(x)' = IF Parent[x] \in D THEN 0 ELSE FromParent(x)
             /\ Parent[x] \in D => FromParent(x) = References[Parent[x]][x]
  BY <1>2, <1>7 DEF FromParent
<1>10. ASSUME NEW x \in Live \ D
       PROVE  /\ count[x] = Owed(x)' + FromParent(x) + Cardinality(Counting(x)')
              /\ x \in Ceed /\ count[x] \in Nat /\ Owed(x)' \in Nat /\ FromParent(x) \in Nat
              /\ Cardinality(Counting(x)') \in Nat
  <2>1. x \in Ceed /\ x # c /\ x \in Live
    BY <1>2 DEF Live
  <2>2. Counting(x)' \in SUBSET Object
    BY DEF Counting
  <2>3. Cardinality(Counting(x)') \in Nat /\ FromParent(x) \in Nat
    BY <2>1, <2>2, ObjectSets, FromParentType
  <2>4. Owed(x)' \in Nat /\ count[x] \in Nat
    BY <2>1 DEF Entered, Owed
  <2>5. count[x] = Owed(x)' + FromParent(x) + Cardinality(Counting(x) \ gone)
                     + (IF x = c THEN 1 ELSE 0)
    BY <2>1 DEF Entered
  <2> DEFINE w == Owed(x)'
             f == FromParent(x)
             n == Cardinality(Counting(x)')
  <2>6. count[x] = w + f + n + (IF x = c THEN 1 ELSE 0) /\ w \in Nat /\ f \in Nat /\ n \in Nat
    BY <1>8, <2>3, <2>4, <2>5
  <2> HIDE DEF w, f, n
  <2>7. count[x] = w + f + n
    BY <2>1, <2>6
  <2> QED
    BY <2>1, <2>3, <2>4, <2>7 DEF w, f, n
<1>11. ASSUME NEW x \in Live \ D
       PROVE  /\ ref_count'[x] = Owed(x)' + FromParent(x)' + Cardinality(Counting(x)')
              /\ ref_count'[x] \in Nat
  <2> DEFINE w == Owed(x)'
             f == FromParent(x)
             g == FromParent(x)'
             n == Cardinality(Counting(x)')
  <2>1. count[x] = w + f + n /\ w \in Nat /\ f \in Nat /\ n \in Nat /\ x \in Ceed \ D
    BY <1>10
  <2>2. g = (IF Parent[x] \in D THEN 0 ELSE f) /\ (Parent[x] \in D => f = References[Parent[x]][x])
    BY <1>9
  <2>3. ref_count'[x] = IF Parent[x] \in D THEN count[x] - References[Parent[x]][x] ELSE count[x]
    BY <1>1, <2>1
  <2> HIDE DEF w, f, g, n
  <2>4. ref_count'[x] = w + g + n /\ ref_count'[x] \in Nat
    BY <2>1, <2>2, <2>3
  <2> QED
    BY <2>4 DEF w, g, n
<1>12. ReferencesAccounted'
  BY <1>7, <1>11 DEF ReferencesAccounted, Owed
<1>13. ContextTypeOK'
  <2>1. ref_count' \in [Ceed -> Nat]
    <3>1. ASSUME NEW x \in Ceed
          PROVE  ref_count'[x] \in Nat
      <4>1. CASE x \in D
        BY <1>1, <4>1
      <4>2. CASE x \in Live \ D
        BY <1>11, <4>2
      <4>3. CASE x \notin Live
        <5>1. Parent[x] \notin Live
          <6>1. ASSUME Parent[x] \in Live PROVE FALSE
            <7>1. Parent[x] # NULL /\ Parent[x] \in Ceed
              BY <6>1, TopologyAssumption DEF Live
            <7> QED
              BY <4>3, <6>1, <7>1, ParentIs DEF IInv, NothingDangles
          <6> QED
            BY <6>1
        <5>2. ref_count'[x] = count[x]
          BY <1>1, <1>2, <4>3, <5>1
        <5> QED
          BY <5>2 DEF Entered
      <4> QED
        BY <4>1, <4>2, <4>3
    <3> QED
      BY <1>1, <3>1
  <2>2. phase' \in [Ceed -> {"none", "live", "freed"}]
    BY <1>1 DEF IInv, ContextTypeOK
  <2>3. home' \in [Object -> Ceed \cup {NULL}] /\ length' \in [Object -> Nat]
    BY <1>1 DEF IInv, ContextTypeOK
  <2>4. pool' \in [Ceed -> SUBSET Object] /\ in_use' \in [Ceed -> SUBSET Object]
    BY <1>1 DEF IInv, ContextTypeOK
  <2>5. /\ handles' \in [Ceed -> Nat] /\ leaked' \in [Ceed -> Nat] /\ refused' \in [Ceed -> Nat]
        /\ held' \in [Object -> Nat] /\ readers' \in [Ceed -> [List -> Nat]]
    BY DEF Entered
  <2> QED
    BY <2>1, <2>2, <2>3, <2>4, <2>5 DEF ContextTypeOK
<1>14. PoolsOwned'
  <2>1. ASSUME NEW x \in Ceed
        PROVE  in_use'[x] \subseteq pool'[x]
    BY <1>1 DEF IInv, PoolsOwned
  <2>2. ASSUME NEW x \in Ceed, NEW o \in pool'[x]
        PROVE  home'[o] = x
    <3>1. x \notin D /\ o \in pool[x]
      BY <1>1, <2>2
    <3>2. home[o] = x /\ o \in Object
      BY <3>1 DEF IInv, PoolsOwned, ContextTypeOK
    <3>3. o \notin gone \cup pooled
      BY <1>3, <1>5, <3>1, <3>2
    <3> QED
      BY <1>1, <3>2, <3>3
  <2>3. ASSUME NEW o \in Object
        PROVE  /\ home'[o] = NULL => held'[o] = 0
               /\ home'[o] # NULL /\ (o \notin pool'[home'[o]] \/ o \in in_use'[home'[o]])
                    => held'[o] > 0
    <3>1. CASE o \in gone \cup pooled
      BY <1>1, <1>3, <1>5, <3>1
    <3>2. CASE o \notin gone \cup pooled
      <4>1. home'[o] = home[o] /\ held'[o] = held[o] /\ home[o] \notin D
        BY <1>1, <1>5, <1>6, <3>2
      <4>2. home[o] \in Ceed \cup {NULL}
        BY DEF IInv, ContextTypeOK
      <4>3. home[o] # NULL => pool'[home[o]] = pool[home[o]] /\ in_use'[home[o]] = in_use[home[o]]
        BY <1>1, <4>1, <4>2
      <4>4. /\ home[o] = NULL => held[o] = 0
            /\ home[o] # NULL /\ (o \notin pool[home[o]] \/ o \in in_use[home[o]]) => held[o] > 0
        BY DEF IInv, PoolsOwned
      <4> QED
        BY <4>1, <4>3, <4>4
    <3> QED
      BY <3>1, <3>2
  <2> QED
    BY <2>1, <2>2, <2>3 DEF PoolsOwned
<1>15. \A x \in Ceed : Owed(x)' > 0 => x \in Live \ D
  BY <1>2 DEF Entered
<1>16. OnlyLiveOwed'
  BY <1>7, <1>15 DEF OnlyLiveOwed
<1>17. TreesWhole'
  <2>1. ASSUME NEW x \in Ceed, phase'[Root(x)] = "none"
        PROVE  phase'[x] = "none"
    <3>1. phase[Root(x)] = "none"
      BY <1>1, <2>1, Roots
    <3>2. phase[x] = "none"
      BY <3>1 DEF IInv, TreesWhole
    <3>3. x \notin D
      BY <1>2, <3>2 DEF Live
    <3> QED
      BY <1>1, <3>2, <3>3
  <2> QED
    BY <2>1 DEF TreesWhole
<1>18. RootsRead'
  BY DEF Entered
<1>19. NothingDangles'
  <2>1. ASSUME NEW x \in Ceed, handles'[x] > 0
        PROVE  x \in Live \ D
    BY <1>13, <1>15, <2>1 DEF Owed, ContextTypeOK
  <2>2. ASSUME NEW o \in Object, home'[o] # NULL
        PROVE  home'[o] \in Live \ D
    <3>1. o \notin gone \cup pooled /\ home'[o] = home[o]
      BY <1>1, <2>2
    <3> QED
      BY <1>6, <2>2, <3>1 DEF IInv, NothingDangles
  <2>3. ASSUME NEW x \in Live \ D, NEW d \in Ceed, IsParent(x, d)
        PROVE  d \in Live \ D
    <3>1. d \in Live /\ Parent[d] = x
      BY <2>3, ParentIs DEF IInv, NothingDangles, Live
    <3> QED
      BY <1>2, <2>3, <3>1
  <2> QED
    BY <1>7, <2>1, <2>2, <2>3 DEF NothingDangles
<1>20. FreedWhenUnreferenced'
  <2>1. ASSUME NEW x \in Live \ D, ref_count'[x] = 0
        PROVE  Reading(readers', x) \/ refused'[x] > 0
    <3>1. x \in Ceed /\ x # c /\ count[x] \in Nat
      BY <1>2, <1>10
    <3>2. ref_count'[x] = IF Parent[x] \in D THEN count[x] - References[Parent[x]][x] ELSE count[x]
      BY <1>1, <2>1, <3>1
    <3>3. CASE Parent[x] \in D
      <4>1. References[Parent[x]][x] \in Nat
        BY <1>2, <3>1, <3>3, ReferencesNat DEF Live
      <4>2. count[x] = References[Parent[x]][x]
        BY <2>1, <3>1, <3>2, <3>3, <4>1
      <4> QED
        BY <1>2, <2>1, <3>1, <3>3, <4>2
    <3>4. CASE Parent[x] \notin D
      <4>1. count[x] = 0
        BY <2>1, <3>2, <3>4
      <4> QED
        BY <2>1, <3>1, <4>1 DEF Entered
    <3> QED
      BY <3>3, <3>4
  <2> QED
    BY <1>7, <2>1 DEF FreedWhenUnreferenced
<1> QED
  BY <1>12, <1>13, <1>14, <1>16, <1>17, <1>18, <1>19, <1>20 DEF IInv

LEMMA ReleaseKeeps ==
  ASSUME IInv, NEW count, NEW c, NEW gone, Entered(count, c, gone), Release(count, c, gone)
  PROVE  IInv'
<1>1. CASE count[c] > 1 /\ Keep(count, c, gone) /\ err' = "success"
  BY <1>1, KeepKeeps
<1>2. CASE count[c] <= 1 /\ Reading(readers', c) /\ Keep(count, c, gone) /\ err' = "access"
  BY <1>2, KeepKeeps
<1>3. CASE count[c] <= 1 /\ ~Reading(readers', c) /\ Free(count, c, gone) /\ err' = "success"
  BY <1>3, FreeKeeps
<1> QED
  BY <1>1, <1>2, <1>3 DEF Release

\* The counts before the call.
LEMMA Account ==
  ASSUME IInv, NEW x \in Live
  PROVE  /\ ref_count[x] = Owed(x) + FromParent(x) + Cardinality(Counting(x))
         /\ ref_count[x] = Owed(x) + FromParent(x) + Cardinality(Counting(x) \ {})
         /\ x \in Ceed /\ ref_count[x] \in Nat /\ Owed(x) \in Nat /\ FromParent(x) \in Nat
         /\ handles[x] \in Nat /\ leaked[x] \in Nat /\ refused[x] \in Nat
         /\ Cardinality(Counting(x)) \in Nat /\ Cardinality(Counting(x) \ {}) \in Nat
         /\ ref_count[x] = 0 => Reading(readers, x) \/ refused[x] > 0
<1>1. x \in Ceed
  BY DEF Live
<1>2. ref_count[x] = Owed(x) + FromParent(x) + Cardinality(Counting(x))
  BY DEF IInv, ReferencesAccounted, Owed
<1>3. ref_count[x] \in Nat /\ handles[x] \in Nat /\ leaked[x] \in Nat /\ refused[x] \in Nat
  BY <1>1 DEF IInv, ContextTypeOK
<1>4. Owed(x) \in Nat
  BY <1>3 DEF Owed
<1>5. Counting(x) \ {} = Counting(x)
  OBVIOUS
<1>6. ref_count[x] = 0 => Reading(readers, x) \/ refused[x] > 0
  BY DEF IInv, FreedWhenUnreferenced
<1> QED
  BY <1>1, <1>2, <1>3, <1>4, <1>5, <1>6, CountingType, FromParentType

LEMMA DestroyReleases ==
  ASSUME IInv, NEW c \in Ceed, CeedDestroy(c)
  PROVE  Entered(ref_count, c, {}) /\ Release(ref_count, c, {})
<1>1. /\ handles[c] > 0 /\ Release(ref_count, c, {})
      /\ handles' = [handles EXCEPT ![c] = @ - 1]
      /\ refused' = [refused EXCEPT ![c] = IF err' = "access" THEN @ + 1 ELSE @]
      /\ UNCHANGED <<readers, leaked, held>>
  BY DEF CeedDestroy
<1>2. c \in Live
  BY <1>1 DEF IInv, NothingDangles
<1>3. handles[c] \in Nat /\ refused[c] \in Nat
  BY DEF IInv, ContextTypeOK
<1>4. handles' \in [Ceed -> Nat] /\ refused' \in [Ceed -> Nat]
  BY <1>1, <1>3 DEF IInv, ContextTypeOK
<1>5. \A x \in Ceed : Owed(x) \in Nat /\ Owed(x)' \in Nat
                      /\ Owed(x) = Owed(x)' + (IF x = c THEN 1 ELSE 0)
  BY <1>1, <1>3, <1>4 DEF Owed, IInv, ContextTypeOK
<1>6. ASSUME NEW x \in Live
      PROVE  ref_count[x] = Owed(x)' + FromParent(x) + Cardinality(Counting(x) \ {})
                              + (IF x = c THEN 1 ELSE 0)
  <2> DEFINE w == Owed(x)
             z == Owed(x)'
             f == FromParent(x)
             n == Cardinality(Counting(x) \ {})
  <2>1. ref_count[x] = w + f + n /\ w \in Nat /\ f \in Nat /\ n \in Nat /\ x \in Ceed
    BY Account
  <2>2. z \in Nat /\ w = z + (IF x = c THEN 1 ELSE 0)
    BY <1>5, <2>1
  <2> HIDE DEF w, z, f, n
  <2>3. ref_count[x] = z + f + n + (IF x = c THEN 1 ELSE 0)
    BY <2>1, <2>2
  <2> QED
    BY <2>3 DEF z, f, n
<1>7. \A x \in Ceed : Owed(x)' > 0 => x \in Live
  BY <1>5 DEF IInv, OnlyLiveOwed
<1>8. \A x \in Live \ {c} : ref_count[x] = 0 => Reading(readers', x) \/ refused'[x] > 0
  <2>1. \A x \in Live \ {c} : refused'[x] = refused[x]
    BY <1>1 DEF IInv, ContextTypeOK, Live
  <2> QED
    BY <1>1, <2>1, Account
<1>9. /\ ref_count \in [Ceed -> Nat] /\ leaked' \in [Ceed -> Nat]
      /\ held' \in [Object -> Nat] /\ readers' \in [Ceed -> [List -> Nat]]
      /\ \A o \in Object : held'[o] = held[o]
  BY <1>1 DEF IInv, ContextTypeOK
<1>10. RootsRead'
  BY <1>1 DEF IInv, RootsRead
<1> QED
  BY <1>1, <1>2, <1>4, <1>6, <1>7, <1>8, <1>9, <1>10 DEF Entered

LEMMA CopyOverReleases ==
  ASSUME IInv, NEW c \in Ceed, NEW d \in Ceed, CeedReferenceCopyOver(c, d)
  PROVE  Entered(Counted(1, c), d, {}) /\ Release(Counted(1, c), d, {})
<1> DEFINE one(b) == IF b THEN 1 ELSE 0
<1>1. /\ Usable(c) /\ handles[d] > 0
      /\ UNCHANGED <<readers, held>>
      /\ Release(Counted(1, c), d, {})
  BY DEF CeedReferenceCopyOver
<1>2. c \in Live /\ d \in Live
  BY <1>1 DEF IInv, NothingDangles, Usable, Live
<1>3. /\ Counted(1, c) \in [Ceed -> Nat]
      /\ \A x \in Ceed : Counted(1, c)[x] = ref_count[x] + one(x = c)
  BY DEF Counted, IInv, ContextTypeOK
<1>4. /\ handles' \in [Ceed -> Nat] /\ leaked' \in [Ceed -> Nat] /\ refused' \in [Ceed -> Nat]
      /\ \A x \in Ceed : /\ Owed(x)' \in Nat /\ Owed(x) \in Nat
                         /\ Owed(x)' + one(x = d) = Owed(x) + one(x = c)
                         /\ refused'[x] >= refused[x] /\ refused[x] \in Nat
  <2>1. /\ \A x \in Ceed : handles[x] \in Nat /\ leaked[x] \in Nat /\ refused[x] \in Nat
        /\ handles \in [Ceed -> Nat] /\ leaked \in [Ceed -> Nat] /\ refused \in [Ceed -> Nat]
    BY DEF IInv, ContextTypeOK
  <2>2. CASE err' = "success"
    <3>1. /\ handles' = [x \in Ceed |-> [handles EXCEPT ![d] = @ - 1][x] + one(x = c)]
          /\ UNCHANGED <<refused, leaked>>
      BY <2>2 DEF CeedReferenceCopyOver
    <3>2. \A x \in Ceed : handles'[x] = handles[x] - one(x = d) + one(x = c) /\ handles'[x] \in Nat
      BY <1>1, <2>1, <3>1
    <3>3. handles' \in [Ceed -> Nat]
      BY <3>1, <3>2
    <3>4. \A x \in Ceed : Owed(x)' = handles'[x] + leaked[x] /\ Owed(x) = handles[x] + leaked[x]
      BY <3>1 DEF Owed
    <3>5. ASSUME NEW x \in Ceed
          PROVE  /\ Owed(x)' \in Nat /\ Owed(x) \in Nat
                 /\ Owed(x)' + one(x = d) = Owed(x) + one(x = c)
      <4>1. one(x = c) \in {0, 1} /\ one(x = d) \in {0, 1}
        OBVIOUS
      <4> HIDE DEF one
      <4>2. handles[x] \in Nat /\ leaked[x] \in Nat /\ handles'[x] \in Nat
        BY <2>1, <3>2
      <4>3. /\ handles'[x] = handles[x] - one(x = d) + one(x = c)
            /\ Owed(x)' = handles'[x] + leaked[x] /\ Owed(x) = handles[x] + leaked[x]
        BY <3>2, <3>4
      <4> QED
        BY <4>1, <4>2, <4>3, SMTT(30)
    <3> QED
      BY <2>1, <3>1, <3>3, <3>5
  <2>3. CASE err' # "success"
    <3>1. /\ handles' = [handles EXCEPT ![d] = @ - 1]
          /\ refused' = [refused EXCEPT ![d] = @ + 1]
          /\ leaked' = [leaked EXCEPT ![c] = @ + 1]
      BY <2>3 DEF CeedReferenceCopyOver
    <3>2. \A x \in Ceed : /\ handles'[x] = handles[x] - one(x = d) /\ handles'[x] \in Nat
                          /\ leaked'[x] = leaked[x] + one(x = c)
                          /\ refused'[x] >= refused[x]
      BY <1>1, <2>1, <3>1
    <3>3. handles' \in [Ceed -> Nat] /\ leaked' \in [Ceed -> Nat] /\ refused' \in [Ceed -> Nat]
      BY <1>1, <2>1, <3>1
    <3>4. \A x \in Ceed : Owed(x)' = handles'[x] + leaked'[x] /\ Owed(x) = handles[x] + leaked[x]
      BY DEF Owed
    <3>5. ASSUME NEW x \in Ceed
          PROVE  /\ Owed(x)' \in Nat /\ Owed(x) \in Nat
                 /\ Owed(x)' + one(x = d) = Owed(x) + one(x = c)
      <4>1. one(x = c) \in {0, 1} /\ one(x = d) \in {0, 1}
        OBVIOUS
      <4> HIDE DEF one
      <4>2. handles[x] \in Nat /\ leaked[x] \in Nat /\ handles'[x] \in Nat
        BY <2>1, <3>2
      <4>3. /\ handles'[x] = handles[x] - one(x = d) /\ leaked'[x] = leaked[x] + one(x = c)
            /\ Owed(x)' = handles'[x] + leaked'[x] /\ Owed(x) = handles[x] + leaked[x]
        BY <3>2, <3>4
      <4> QED
        BY <4>1, <4>2, <4>3, SMTT(30)
    <3> QED
      BY <2>1, <3>2, <3>3, <3>5
  <2> QED
    BY <2>2, <2>3
<1>5. ASSUME NEW x \in Live
      PROVE  Counted(1, c)[x] = Owed(x)' + FromParent(x) + Cardinality(Counting(x) \ {})
                                  + (IF x = d THEN 1 ELSE 0)
  <2> DEFINE w == Owed(x)
             z == Owed(x)'
             f == FromParent(x)
             n == Cardinality(Counting(x) \ {})
  <2>1. ref_count[x] = w + f + n /\ w \in Nat /\ f \in Nat /\ n \in Nat /\ x \in Ceed
    BY Account
  <2>2. z \in Nat /\ z + one(x = d) = w + one(x = c)
    BY <1>4, <2>1
  <2>3. Counted(1, c)[x] = ref_count[x] + one(x = c)
    BY <1>3, <2>1
  <2> HIDE DEF w, z, f, n
  <2>4. Counted(1, c)[x] = z + f + n + (IF x = d THEN 1 ELSE 0)
    BY <2>1, <2>2, <2>3
  <2> QED
    BY <2>4 DEF z, f, n
<1>6. \A x \in Ceed : Owed(x)' > 0 => x \in Live
  <2>1. ASSUME NEW x \in Ceed, Owed(x)' > 0, x # c
        PROVE  Owed(x) > 0
    BY <1>4, <2>1
  <2> QED
    BY <1>2, <2>1 DEF IInv, OnlyLiveOwed
<1>7. \A x \in Live \ {d} : Counted(1, c)[x] = 0 => Reading(readers', x) \/ refused'[x] > 0
  <2>1. ASSUME NEW x \in Live \ {d}, Counted(1, c)[x] = 0
        PROVE  Reading(readers', x) \/ refused'[x] > 0
    <3>1. x \in Ceed /\ ref_count[x] \in Nat /\ (ref_count[x] = 0 => Reading(readers, x) \/ refused[x] > 0)
      BY <2>1, Account
    <3>2. ref_count[x] = 0
      BY <1>3, <2>1, <3>1
    <3>3. refused[x] > 0 => refused'[x] > 0
      BY <1>4, <3>1
    <3> QED
      BY <1>1, <3>1, <3>2, <3>3
  <2> QED
    BY <2>1
<1>8. /\ held' \in [Object -> Nat] /\ readers' \in [Ceed -> [List -> Nat]]
      /\ \A o \in Object : held'[o] = held[o]
  BY <1>1 DEF IInv, ContextTypeOK
<1>9. RootsRead'
  BY <1>1 DEF IInv, RootsRead
<1> QED
  BY <1>1, <1>2, <1>3, <1>4, <1>5, <1>6, <1>7, <1>8, <1>9 DEF Entered

\* The last reference to an object, which counts as one to its context.
LEMMA ObjectReleases ==
  ASSUME IInv, NEW o \in Object, CeedObjectDestroy(o), ~(held[o] > 1 \/ Pooled(o))
  PROVE  Entered(ref_count, home[o], {o}) /\ Release(ref_count, home[o], {o})
<1> DEFINE c == home[o]
<1>1. /\ c # NULL /\ held[o] > 0 /\ held[o] \in Nat
      /\ held' = [held EXCEPT ![o] = @ - 1]
      /\ UNCHANGED <<readers, handles, refused, leaked>>
      /\ Release(ref_count, c, {o})
  BY DEF CeedObjectDestroy, IInv, ContextTypeOK
<1>2. c \in Live /\ c \in Ceed /\ o \notin pool[c] /\ held'[o] = 0
  BY <1>1 DEF IInv, NothingDangles, Live, Pooled, ContextTypeOK
<1>3. \A x \in Ceed : Owed(x)' = Owed(x)
  BY <1>1 DEF Owed
<1>4. ASSUME NEW x \in Live
      PROVE  ref_count[x] = Owed(x)' + FromParent(x) + Cardinality(Counting(x) \ {o})
                              + (IF x = c THEN 1 ELSE 0)
  <2> DEFINE w == Owed(x)
             f == FromParent(x)
             n == Cardinality(Counting(x))
             m == Cardinality(Counting(x) \ {o})
  <2>1. ref_count[x] = w + f + n /\ w \in Nat /\ f \in Nat /\ n \in Nat /\ x \in Ceed
    BY Account
  <2>2. m \in Nat /\ n = m + (IF x = c THEN 1 ELSE 0)
    <3>1. Counting(x) \in SUBSET Object /\ Counting(x) \ {o} \in SUBSET Object
      BY <2>1, CountingType
    <3>2. m \in Nat
      BY <3>1, ObjectSets
    <3>3. CASE x = c
      <4>1. o \in Counting(x)
        BY <1>2, <3>3 DEF Counting
      <4> QED
        BY <3>1, <3>2, <3>3, <4>1, OneObjectLess
    <3>4. CASE x # c
      <4>1. Counting(x) \ {o} = Counting(x)
        BY <3>4 DEF Counting
      <4>2. m = n
        BY <4>1
      <4> HIDE DEF m, n, c
      <4> QED
        BY <3>2, <3>4, <4>2
    <3> QED
      BY <3>3, <3>4
  <2> HIDE DEF w, f, n, m, c
  <2>3. ref_count[x] = w + f + m + (IF x = c THEN 1 ELSE 0)
    BY <2>1, <2>2
  <2> QED
    BY <1>3, <2>1, <2>3 DEF w, f, m, c
<1>5. \A x \in Ceed : Owed(x)' > 0 => x \in Live
  BY <1>3 DEF IInv, OnlyLiveOwed
<1>6. \A x \in Live \ {c} : ref_count[x] = 0 => Reading(readers', x) \/ refused'[x] > 0
  BY <1>1, Account
<1>7. /\ ref_count \in [Ceed -> Nat]
      /\ handles' \in [Ceed -> Nat] /\ leaked' \in [Ceed -> Nat] /\ refused' \in [Ceed -> Nat]
      /\ held' \in [Object -> Nat] /\ readers' \in [Ceed -> [List -> Nat]]
      /\ \A p \in Object \ {o} : held'[p] = held[p]
  BY <1>1 DEF IInv, ContextTypeOK
<1>8. RootsRead'
  BY <1>1 DEF IInv, RootsRead
<1> QED
  BY <1>1, <1>2, <1>4, <1>5, <1>6, <1>7, <1>8 DEF Entered

\* The reference that a call on a list takes and gives back.
LEMMA RootReleases ==
  ASSUME IInv, NEW r \in Live, Parent[r] = NULL, ReleaseRoot(r),
         readers' \in [Ceed -> [List -> Nat]],
         \A x \in Ceed \ {r} : readers'[x] = readers[x]
  PROVE  Entered(Counted(1, r), r, {}) /\ Release(Counted(1, r), r, {})
<1>1. Release(Counted(1, r), r, {}) /\ UNCHANGED <<handles, refused, leaked, held>>
  BY DEF ReleaseRoot, callerVars
<1>2. /\ Counted(1, r) \in [Ceed -> Nat] /\ r \in Ceed
      /\ \A x \in Ceed : Counted(1, r)[x] = ref_count[x] + (IF x = r THEN 1 ELSE 0)
  BY DEF Counted, IInv, ContextTypeOK, Live
<1>3. \A x \in Ceed : Owed(x)' = Owed(x)
  BY <1>1 DEF Owed
<1>4. ASSUME NEW x \in Live
      PROVE  Counted(1, r)[x] = Owed(x)' + FromParent(x) + Cardinality(Counting(x) \ {})
                                  + (IF x = r THEN 1 ELSE 0)
  <2> DEFINE w == Owed(x)
             f == FromParent(x)
             n == Cardinality(Counting(x) \ {})
  <2>1. ref_count[x] = w + f + n /\ w \in Nat /\ f \in Nat /\ n \in Nat /\ x \in Ceed
    BY Account
  <2> HIDE DEF w, f, n
  <2>2. Counted(1, r)[x] = w + f + n + (IF x = r THEN 1 ELSE 0)
    BY <1>2, <2>1
  <2> QED
    BY <1>3, <2>1, <2>2 DEF w, f, n
<1>5. \A x \in Ceed : Owed(x)' > 0 => x \in Live
  BY <1>3 DEF IInv, OnlyLiveOwed
<1>6. \A x \in Live \ {r} : Counted(1, r)[x] = 0 => Reading(readers', x) \/ refused'[x] > 0
  <2>1. ASSUME NEW x \in Live \ {r}, Counted(1, r)[x] = 0
        PROVE  Reading(readers', x) \/ refused'[x] > 0
    <3>1. x \in Ceed /\ ref_count[x] \in Nat /\ (ref_count[x] = 0 => Reading(readers, x) \/ refused[x] > 0)
      BY <2>1, Account
    <3>2. ref_count[x] = 0
      BY <1>2, <2>1, <3>1
    <3>3. readers'[x] = readers[x]
      BY <2>1, <3>1
    <3> QED
      BY <1>1, <3>1, <3>2, <3>3 DEF Reading
  <2> QED
    BY <2>1
<1>7. /\ handles' \in [Ceed -> Nat] /\ leaked' \in [Ceed -> Nat] /\ refused' \in [Ceed -> Nat]
      /\ held' \in [Object -> Nat]
      /\ \A o \in Object : held'[o] = held[o]
  BY <1>1 DEF IInv, ContextTypeOK
<1>8. RootsRead'
  BY DEF IInv, RootsRead
<1> QED
  BY <1>1, <1>2, <1>4, <1>5, <1>6, <1>7, <1>8 DEF Entered

\* The root of a live chain.
LEMMA RootOf ==
  ASSUME NEW c \in Ceed, ChainLive(c)
  PROVE  Root(c) \in Live /\ Root(c) \in Ceed /\ Parent[Root(c)] = NULL
BY Roots DEF ChainLive, Ancestors, Live

LEMMA GetListReleases ==
  ASSUME IInv, NEW c \in Ceed, NEW l \in List, CeedGetList(c, l) \/ CeedRestoreList(c, l)
  PROVE  Entered(Counted(1, Root(c)), Root(c), {}) /\ Release(Counted(1, Root(c)), Root(c), {})
<1> DEFINE r == Root(c)
<1>1. /\ ChainLive(c) /\ ReleaseRoot(r)
      /\ \/ readers' = [readers EXCEPT ![r][l] = @ + 1]
         \/ readers[r][l] > 0 /\ readers' = [readers EXCEPT ![r][l] = @ - 1]
  BY DEF CeedGetList, CeedRestoreList
<1>2. r \in Live /\ r \in Ceed /\ Parent[r] = NULL
  BY <1>1, RootOf
<1> HIDE DEF r
<1>3. readers \in [Ceed -> [List -> Nat]] /\ readers[r] \in [List -> Nat] /\ readers[r][l] \in Nat
  BY <1>2 DEF IInv, ContextTypeOK
<1>4. readers' \in [Ceed -> [List -> Nat]] /\ \A x \in Ceed \ {r} : readers'[x] = readers[x]
  <2>1. CASE readers' = [readers EXCEPT ![r][l] = @ + 1]
    <3>1. [readers[r] EXCEPT ![l] = readers[r][l] + 1] \in [List -> Nat]
      BY <1>3
    <3>2. readers' = [readers EXCEPT ![r] = [readers[r] EXCEPT ![l] = readers[r][l] + 1]]
      BY <2>1
    <3> QED
      BY <1>2, <1>3, <3>1, <3>2
  <2>2. CASE readers[r][l] > 0 /\ readers' = [readers EXCEPT ![r][l] = @ - 1]
    <3>1. [readers[r] EXCEPT ![l] = readers[r][l] - 1] \in [List -> Nat]
      BY <1>3, <2>2
    <3>2. readers' = [readers EXCEPT ![r] = [readers[r] EXCEPT ![l] = readers[r][l] - 1]]
      BY <2>2
    <3> QED
      BY <1>2, <1>3, <3>1, <3>2
  <2> QED
    BY <1>1, <2>1, <2>2
<1>5. Entered(Counted(1, r), r, {}) /\ Release(Counted(1, r), r, {})
  BY <1>1, <1>2, <1>4, RootReleases
<1> QED
  BY <1>5 DEF r

LEMMA AddToListSteps ==
  ASSUME IInv, NEW c \in Ceed, NEW l \in List, CeedAddToList(c, l)
  PROVE  \/ AddRefused(Root(c), l) /\ Root(c) \in Live
         \/ Entered(Counted(1, Root(c)), Root(c), {}) /\ Release(Counted(1, Root(c)), Root(c), {})
<1>1. CASE AddRefused(Root(c), l)
  BY <1>1, RootOf DEF CeedAddToList
<1>2. CASE UNCHANGED readers /\ ReleaseRoot(Root(c))
  <2>1. Root(c) \in Live /\ Parent[Root(c)] = NULL
    BY RootOf DEF CeedAddToList
  <2>2. readers' \in [Ceed -> [List -> Nat]] /\ \A x \in Ceed \ {Root(c)} : readers'[x] = readers[x]
    BY <1>2 DEF IInv, ContextTypeOK
  <2> QED
    BY <1>2, <2>1, <2>2, RootReleases
<1> QED
  BY <1>1, <1>2 DEF CeedAddToList

(***************************************************************************)
(* New contexts.                                                           *)
(***************************************************************************)
LEMMA InitKeeps ==
  ASSUME IInv, NEW r \in Ceed, CeedInit(r)
  PROVE  IInv'
<1> DEFINE tree == {c \in Ceed : Root(c) = r}
<1>1. /\ Parent[r] = NULL /\ phase[r] = "none"
      /\ phase' = [c \in Ceed |-> IF c \in tree THEN "live" ELSE phase[c]]
      /\ ref_count' = [c \in Ceed |-> IF c = r THEN 1
                                      ELSE IF c \in tree THEN References[Parent[c]][c]
                                      ELSE ref_count[c]]
      /\ handles' = [handles EXCEPT ![r] = 1]
      /\ err' = "success"
      /\ UNCHANGED <<readers, home, length, pool, in_use, refused, leaked, held>>
  BY DEF CeedInit, objVars
<1>2. /\ tree \subseteq Ceed /\ r \in tree
      /\ \A x \in tree \ {r} : Parent[x] \in tree /\ Parent[x] # NULL
      /\ \A x \in Ceed : Parent[x] \in tree => x \in tree
      /\ \A x \in Ceed : Root(x) \in tree <=> x \in tree
  <2>1. r \in tree
    BY <1>1, Roots
  <2>2. ASSUME NEW x \in tree \ {r}
        PROVE  Parent[x] \in tree /\ Parent[x] # NULL
    BY Roots
  <2>3. ASSUME NEW x \in Ceed, Parent[x] \in tree
        PROVE  x \in tree
    <3>1. Parent[x] # NULL
      BY <2>3, TopologyAssumption
    <3> QED
      BY <2>3, <3>1, Roots
  <2>4. ASSUME NEW x \in Ceed
        PROVE  Root(x) \in tree <=> x \in tree
    BY Roots
  <2> QED
    BY <2>1, <2>2, <2>3, <2>4
<1>3. \A x \in tree : phase[x] = "none" /\ x \notin Live
  <2>1. \A x \in tree : Root(x) = r
    OBVIOUS
  <2>2. \A x \in tree : phase[x] = "none"
    BY <1>1, <1>2, <2>1 DEF IInv, TreesWhole
  <2> QED
    BY <2>2 DEF Live
<1> HIDE DEF tree
<1>4. Live' = Live \cup tree /\ Live \cap tree = {}
  BY <1>1, <1>2, <1>3 DEF Live
<1>5. \A x \in Ceed : Counting(x)' = Counting(x)
  BY <1>1 DEF Counting
<1>6. \A x \in tree : Counting(x) = {}
  <2>1. \A x \in tree : x # NULL
    BY <1>2, TopologyAssumption
  <2> QED
    BY <1>3, <2>1 DEF Counting, IInv, NothingDangles
<1>7. \A x \in tree : handles[x] = 0 /\ leaked[x] = 0
  BY <1>2, <1>3 DEF IInv, OnlyLiveOwed, Owed, ContextTypeOK
<1>8. /\ handles'[r] = 1
      /\ \A x \in Ceed \ {r} : handles'[x] = handles[x]
  BY <1>1 DEF IInv, ContextTypeOK
<1>9. ASSUME NEW x \in tree
      PROVE  ref_count'[x] = handles'[x] + leaked'[x] + FromParent(x)' + Cardinality(Counting(x)')
  <2>1. x \in Ceed /\ leaked'[x] = 0 /\ Cardinality(Counting(x)') = 0
    BY <1>1, <1>2, <1>5, <1>6, <1>7, FS_EmptySet
  <2>2. CASE x = r
    <3>1. Parent[r] \notin Live'
      BY <1>1, TopologyAssumption DEF Live
    <3>2. FromParent(r)' = 0
      BY <3>1 DEF FromParent
    <3> QED
      BY <1>1, <1>8, <2>1, <2>2, <3>2
  <2>3. CASE x # r
    <3>1. Parent[x] \in tree /\ Parent[x] \in Ceed
      BY <1>2, <2>3
    <3>2. FromParent(x)' = References[Parent[x]][x] /\ References[Parent[x]][x] \in Nat
      BY <1>4, <2>1, <3>1, ReferencesNat DEF FromParent
    <3>3. handles'[x] = 0 /\ ref_count'[x] = References[Parent[x]][x]
      BY <1>1, <1>7, <1>8, <2>1, <2>3
    <3> QED
      BY <2>1, <3>2, <3>3
  <2> QED
    BY <2>2, <2>3
<1>10. ASSUME NEW x \in Live
       PROVE  /\ ref_count'[x] = ref_count[x] /\ refused'[x] = refused[x]
              /\ handles'[x] = handles[x] /\ leaked'[x] = leaked[x]
              /\ FromParent(x)' = FromParent(x) /\ Counting(x)' = Counting(x)
  <2>1. x \in Ceed /\ x \notin tree /\ x # r
    BY <1>2, <1>4 DEF Live
  <2>2. Parent[x] \notin tree
    BY <1>2, <2>1
  <2>3. FromParent(x)' = FromParent(x)
    BY <1>4, <2>2 DEF FromParent
  <2> QED
    BY <1>1, <1>5, <1>8, <2>1, <2>3
<1>11. ReferencesAccounted'
  <2>1. ASSUME NEW x \in Live
        PROVE  ref_count'[x] = handles'[x] + leaked'[x] + FromParent(x)' + Cardinality(Counting(x)')
    BY <1>10 DEF IInv, ReferencesAccounted
  <2> QED
    BY <1>4, <1>9, <2>1 DEF ReferencesAccounted
<1>12. ContextTypeOK'
  <2>1. ref_count' \in [Ceed -> Nat]
    <3>1. ASSUME NEW x \in Ceed
          PROVE  ref_count'[x] \in Nat
      <4>1. CASE x \in tree \ {r}
        BY <1>1, <1>2, <4>1, ReferencesNat
      <4>2. CASE x \notin tree \ {r}
        BY <1>1, <4>2 DEF IInv, ContextTypeOK
      <4> QED
        BY <4>1, <4>2
    <3> QED
      BY <1>1, <3>1
  <2>2. phase' \in [Ceed -> {"none", "live", "freed"}] /\ handles' \in [Ceed -> Nat]
    BY <1>1 DEF IInv, ContextTypeOK
  <2> QED
    BY <1>1, <2>1, <2>2 DEF IInv, ContextTypeOK
<1>13. PoolsOwned' /\ RootsRead'
  BY <1>1 DEF IInv, PoolsOwned, RootsRead
<1>14. OnlyLiveOwed'
  <2>1. ASSUME NEW x \in Ceed, Owed(x)' > 0
        PROVE  x \in Live'
    <3>1. CASE x \in tree
      BY <1>4, <3>1
    <3>2. CASE x \notin tree
      <4>1. Owed(x)' = Owed(x)
        BY <1>1, <1>2, <1>8, <3>2 DEF Owed
      <4> QED
        BY <1>4, <2>1, <4>1 DEF IInv, OnlyLiveOwed
    <3> QED
      BY <3>1, <3>2
  <2> QED
    BY <2>1 DEF OnlyLiveOwed
<1>15. TreesWhole'
  <2>1. ASSUME NEW x \in Ceed, phase'[Root(x)] = "none"
        PROVE  phase'[x] = "none"
    <3>1. Root(x) \in Ceed /\ Root(x) \notin tree
      BY <1>1, <2>1, Roots
    <3>2. x \notin tree
      BY <1>2, <3>1
    <3> QED
      BY <1>1, <2>1, <3>1, <3>2 DEF IInv, TreesWhole
  <2> QED
    BY <2>1 DEF TreesWhole
<1>16. NothingDangles'
  <2>1. \A x \in Ceed : handles'[x] > 0 => x \in Live \cup tree
    BY <1>2, <1>8 DEF IInv, NothingDangles
  <2>2. \A o \in Object : home'[o] # NULL => home'[o] \in Live \cup tree
    BY <1>1 DEF IInv, NothingDangles
  <2>3. ASSUME NEW x \in Live \cup tree, NEW d \in Ceed, IsParent(x, d)
        PROVE  d \in Live \cup tree
    <3>1. CASE x \in Live
      BY <2>3, <3>1 DEF IInv, NothingDangles
    <3>2. CASE x \in tree
      <4>1. Parent[d] = x
        BY <1>2, <2>3, <3>2, ParentIs
      <4> QED
        BY <1>2, <3>2, <4>1
    <3> QED
      BY <3>1, <3>2
  <2> QED
    BY <1>4, <2>1, <2>2, <2>3 DEF NothingDangles
<1>17. FreedWhenUnreferenced'
  <2>1. ASSUME NEW x \in tree
        PROVE  ref_count'[x] # 0
    <3>1. CASE x = r
      BY <1>1, <1>2, <3>1
    <3>2. CASE x # r
      <4>1. Parent[x] \in Ceed /\ Parent[x] # NULL /\ x \in Ceed
        BY <1>2, <2>1, <3>2
      <4>2. References[Parent[x]][x] \in Nat /\ References[Parent[x]][x] > 0
        BY <4>1, ReferencesNat, ParentIs DEF IsParent
      <4> QED
        BY <1>1, <3>2, <4>1, <4>2
    <3> QED
      BY <3>1, <3>2
  <2>2. ASSUME NEW x \in Live, ref_count'[x] = 0
        PROVE  Reading(readers', x) \/ refused'[x] > 0
    BY <1>1, <1>10, <2>2 DEF IInv, FreedWhenUnreferenced
  <2> QED
    BY <1>4, <2>1, <2>2 DEF FreedWhenUnreferenced
<1> QED
  BY <1>11, <1>12, <1>13, <1>14, <1>15, <1>16, <1>17 DEF IInv

(***************************************************************************)
(* Every step.                                                             *)
(***************************************************************************)
\* A failing call on a live context loses references to live contexts only.
LEMMA FailKeeps ==
  ASSUME IInv, NEW c \in Ceed, Usable(c), NEW k, NEW code, Fail(k, c, code),
         code \in {"unsupported", "access", "major"}
  PROVE  IInv' /\ UNCHANGED <<phase, objVars>>
<1>1. /\ Leak(Delegated(k, c)) /\ err' = code
      /\ UNCHANGED <<phase, readers, objVars, handles, refused, held>>
  BY DEF Fail
<1>2. Delegated(k, c) \in SUBSET Live
  BY TargetLive DEF Usable, Live, IInv
<1>3. err' \in {"success", "access", "unsupported", "major"}
  BY <1>1
<1> QED
  BY <1>1, <1>2, <1>3, LeakKeeps

\* Calls that give a caller a reference.
LEMMA HandleActions ==
  ASSUME IInv, NEW c \in Ceed,
         \/ CeedReferenceCopy(c) \/ CeedGetParent(c) \/ CeedGetDelegate(c)
         \/ CeedGetOperatorFallbackCeed(c) \/ \E k \in Kind : CeedGetObjectDelegate(c, k)
  PROVE  IInv' /\ UNCHANGED <<phase, objVars>>
<1>1. c \in Live /\ \A d \in Ceed : IsParent(c, d) => d \in Live
  BY DEF CeedReferenceCopy, CeedGetParent, CeedGetDelegate, CeedGetOperatorFallbackCeed,
         CeedGetObjectDelegate, Usable, Live, IInv, NothingDangles
<1>2. PICK x \in Live : AddHandle(x)
  <2>1. CASE CeedReferenceCopy(c)
    BY <1>1, <2>1 DEF CeedReferenceCopy
  <2>2. CASE CeedGetParent(c)
    BY <2>2, RootOf DEF CeedGetParent
  <2>3. CASE CeedGetDelegate(c)
    BY <1>1, <2>3, Children DEF CeedGetDelegate
  <2>4. CASE CeedGetOperatorFallbackCeed(c)
    BY <1>1, <2>4, Children DEF CeedGetOperatorFallbackCeed
  <2>5. CASE \E k \in Kind : CeedGetObjectDelegate(c, k)
    <3>1. PICK k \in Kind : CeedGetObjectDelegate(c, k)
      BY <2>5
    <3>2. ObjectDelegate(c, k) \in Ceed /\ IsParent(c, ObjectDelegate(c, k))
      BY <3>1, Children DEF CeedGetObjectDelegate
    <3> QED
      BY <1>1, <3>1, <3>2 DEF CeedGetObjectDelegate
  <2> QED
    BY <2>1, <2>2, <2>3, <2>4, <2>5
<1> QED
  BY <1>2, AddHandleKeeps DEF AddHandle

LEMMA GetCeedKeeps ==
  ASSUME IInv, NEW o \in Object, CeedObjectGetCeed(o)
  PROVE  IInv' /\ UNCHANGED <<phase, objVars>>
<1>1. home[o] \in Live /\ AddHandle(home[o])
  BY DEF CeedObjectGetCeed, IInv, NothingDangles
<1> QED
  BY <1>1, AddHandleKeeps DEF AddHandle

LEMMA CreateActionKeeps ==
  ASSUME IInv, NEW k \in Kind, NEW c \in Ceed, NEW o \in Object, NEW len \in Length \cup {0},
         CeedCreate(k, c, o, len)
  PROVE  IInv' /\ phase' = phase
<1>1. Usable(c) /\ home[o] = NULL
  BY DEF CeedCreate
<1>2. CASE Fail(k, c, "unsupported")
  BY <1>1, <1>2, FailKeeps
<1>3. CASE ~Fail(k, c, "unsupported")
  <2> DEFINE t == Target(k, c)
  <2>1. /\ t # NULL
        /\ home' = [home EXCEPT ![o] = t]
        /\ length' = [length EXCEPT ![o] = len]
        /\ held' = [held EXCEPT ![o] = 1]
        /\ ref_count' = Counted(1, t)
        /\ err' = "success"
        /\ UNCHANGED <<phase, readers, pool, in_use, handles, refused, leaked>>
    BY <1>3 DEF CeedCreate
  <2>2. t \in Live
    BY <1>1, <2>1, TargetLive DEF Usable, Live, IInv
  <2>3. len \in Nat
    BY TopologyAssumption
  <2> HIDE DEF t
  <2> QED
    BY <1>1, <2>1, <2>2, <2>3, CreateKeeps
<1> QED
  BY <1>2, <1>3

LEMMA GetWorkVectorKeeps ==
  ASSUME IInv, NEW c \in Ceed, NEW len \in Length, CeedGetWorkVector(c, len)
  PROVE  IInv' /\ phase' = phase
<1> DEFINE t == WorkTarget(c)
<1>1. t \in Live /\ len \in Nat
  BY WorkTargetLive, TopologyAssumption DEF CeedGetWorkVector, IInv
<1>2. PICK o \in Object : /\ Lend(t, o)
                          /\ \/ o \in pool[t] \ in_use[t] /\ UNCHANGED <<home, length, pool>>
                             \/ /\ home[o] = NULL
                                /\ home' = [home EXCEPT ![o] = t]
                                /\ length' = [length EXCEPT ![o] = len]
                                /\ pool' = [pool EXCEPT ![t] = @ \cup {o}]
  <2>1. pool[t] \subseteq Object
    BY <1>1 DEF IInv, ContextTypeOK, Live
  <2> QED
    BY <2>1 DEF CeedGetWorkVector, Adequate
<1>3. phase' = phase
  BY <1>2 DEF Lend
<1> HIDE DEF t
<1> QED
  BY <1>1, <1>2, <1>3, LendKeeps

LEMMA RestoreWorkVectorKeeps ==
  ASSUME IInv, NEW c \in Ceed, NEW o \in Object, CeedRestoreWorkVector(c, o)
  PROVE  IInv' /\ phase' = phase
<1>1. CASE RestoreLent(c, o)
  BY <1>1, RestoreKeeps DEF RestoreLent
<1>2. CASE RestoreRefused(c, o)
  <2>1. /\ Usable(c)
        /\ Fail("Vector", c, IF o \in pool[WorkTarget(c)] THEN "access" ELSE "major")
    BY <1>2 DEF RestoreRefused
  <2> QED
    BY <2>1, FailKeeps
<1> QED
  BY <1>1, <1>2 DEF CeedRestoreWorkVector

LEMMA ClearActionKeeps ==
  ASSUME IInv, NEW c \in Ceed, NEW len \in Length, CeedClearWorkVectors(c, len)
  PROVE  IInv' /\ phase' = phase
BY ClearKeeps, TopologyAssumption DEF CeedClearWorkVectors

LEMMA ReferenceObjectKeeps ==
  ASSUME IInv, NEW o \in Object, CeedObjectReferenceCopy(o)
  PROVE  IInv' /\ UNCHANGED <<phase, objVars>>
<1>1. /\ held[o] \in Nat /\ home[o] # NULL
      /\ held' = [held EXCEPT ![o] = held[o] + 1]
      /\ err' = "success"
      /\ UNCHANGED <<ceedVars, readers, objVars, handles, refused, leaked>>
  BY DEF CeedObjectReferenceCopy, IInv, ContextTypeOK
<1>2. held[o] + 1 \in Nat /\ held[o] + 1 > 0
  BY <1>1
<1> QED
  BY <1>1, <1>2, HeldKeeps DEF ceedVars

\* A reference to an object that stays: it has others, or it is a vector of a pool. The
\* reference of whoever a vector was lent to is none of them.
LEMMA DestroyObjectKeeps ==
  ASSUME IInv, NEW o \in Object, CeedObjectDestroy(o), held[o] > 1 \/ Pooled(o)
  PROVE  IInv' /\ UNCHANGED <<phase, objVars>>
<1>1. /\ held[o] \in Nat /\ home[o] # NULL
      /\ held[o] > (IF Lent(o) THEN 1 ELSE 0)
      /\ held' = [held EXCEPT ![o] = held[o] - 1]
      /\ err' = "success"
      /\ UNCHANGED <<ceedVars, readers, objVars, handles, refused, leaked>>
  BY DEF CeedObjectDestroy, IInv, ContextTypeOK
<1>2. held[o] - 1 \in Nat
  BY <1>1
<1>3. held[o] - 1 > 0 \/ (Pooled(o) /\ ~Lent(o))
  BY <1>1
<1> QED
  BY <1>1, <1>2, <1>3, HeldKeeps DEF ceedVars

LEMMA AddRefusedKeeps ==
  ASSUME IInv, NEW r \in Live, NEW l \in List, AddRefused(r, l)
  PROVE  IInv' /\ UNCHANGED <<phase, objVars>>
<1>1. /\ Leak({r}) /\ err' = "access"
      /\ UNCHANGED <<phase, readers, objVars, handles, refused, held>>
  BY DEF AddRefused
<1> QED
  BY <1>1, LeakKeeps

\* What a step does to contexts: nothing, or it makes a backend's, or it gives up a
\* reference.
LEMMA StepKinds ==
  ASSUME IInv, Next
  PROVE  \/ IInv' /\ phase' = phase
         \/ \E r \in Ceed : CeedInit(r)
         \/ \E count, c, gone : Entered(count, c, gone) /\ Release(count, c, gone)
<1>1. ASSUME NEW c \in Ceed, CeedDestroy(c)
      PROVE  \E count, x, gone : Entered(count, x, gone) /\ Release(count, x, gone)
  BY <1>1, DestroyReleases
<1>2. ASSUME NEW c \in Ceed, NEW d \in Ceed, CeedReferenceCopyOver(c, d)
      PROVE  \E count, x, gone : Entered(count, x, gone) /\ Release(count, x, gone)
  BY <1>2, CopyOverReleases
<1>3. ASSUME NEW c \in Ceed, NEW l \in List, CeedGetList(c, l) \/ CeedRestoreList(c, l)
      PROVE  \E count, x, gone : Entered(count, x, gone) /\ Release(count, x, gone)
  BY <1>3, GetListReleases
<1>4. ASSUME NEW c \in Ceed, NEW l \in List, CeedAddToList(c, l)
      PROVE  \/ IInv' /\ phase' = phase
             \/ \E count, x, gone : Entered(count, x, gone) /\ Release(count, x, gone)
  BY <1>4, AddToListSteps, AddRefusedKeeps
<1>5. ASSUME NEW o \in Object, CeedObjectDestroy(o)
      PROVE  \/ IInv' /\ phase' = phase
             \/ \E count, x, gone : Entered(count, x, gone) /\ Release(count, x, gone)
  BY <1>5, ObjectReleases, DestroyObjectKeeps
<1>6. ASSUME NEW c \in Ceed,
             \/ CeedReferenceCopy(c) \/ CeedGetParent(c) \/ CeedGetDelegate(c)
             \/ CeedGetOperatorFallbackCeed(c) \/ \E k \in Kind : CeedGetObjectDelegate(c, k)
      PROVE  IInv' /\ phase' = phase
  BY <1>6, HandleActions
<1> QED
  BY <1>1, <1>2, <1>3, <1>4, <1>5, <1>6, CreateActionKeeps, GetWorkVectorKeeps,
     ClearActionKeeps, RestoreWorkVectorKeeps, GetCeedKeeps, ReferenceObjectKeeps DEF Next

LEMMA NextKeeps == IInv /\ [Next]_vars => IInv'
<1>1. ASSUME IInv, Next PROVE IInv'
  BY <1>1, StepKinds, InitKeeps, ReleaseKeeps
<1>2. ASSUME IInv, UNCHANGED vars PROVE IInv'
  <2>1. /\ UNCHANGED <<phase, ref_count, readers, home, length, pool, in_use>>
        /\ UNCHANGED <<handles, refused, leaked, held, err>>
    BY <1>2 DEF vars, ceedVars, objVars, callerVars
  <2>2. /\ \A x \in Ceed : Owed(x)' = Owed(x) /\ FromParent(x)' = FromParent(x)
                           /\ Counting(x)' = Counting(x)
        /\ Live' = Live
    BY <2>1 DEF Owed, FromParent, Counting, Live
  <2>3. ContextTypeOK' /\ PoolsOwned' /\ TreesWhole' /\ RootsRead'
    BY <1>2, <2>1 DEF IInv, ContextTypeOK, PoolsOwned, TreesWhole, RootsRead
  <2>4. OnlyLiveOwed' /\ NothingDangles' /\ FreedWhenUnreferenced'
    BY <1>2, <2>1, <2>2 DEF IInv, OnlyLiveOwed, NothingDangles, FreedWhenUnreferenced, Reading
  <2>5. ReferencesAccounted'
    BY <1>2, <2>1, <2>2 DEF IInv, ReferencesAccounted, Live
  <2> QED
    BY <2>3, <2>4, <2>5 DEF IInv
<1> QED
  BY <1>1, <1>2

LEMMA InitHolds == Init => IInv
<1> SUFFICES ASSUME Init PROVE IInv
  OBVIOUS
<1>1. /\ phase = [c \in Ceed |-> "none"] /\ ref_count = [c \in Ceed |-> 0]
      /\ readers = [c \in Ceed |-> [l \in List |-> 0]]
      /\ home = [o \in Object |-> NULL] /\ length = [o \in Object |-> 0]
      /\ pool = [c \in Ceed |-> {}] /\ in_use = [c \in Ceed |-> {}]
      /\ handles = [c \in Ceed |-> 0] /\ refused = [c \in Ceed |-> 0]
      /\ leaked = [c \in Ceed |-> 0] /\ held = [o \in Object |-> 0]
      /\ err = "success"
  BY DEF Init, Zero
<1>2. ContextTypeOK
  BY <1>1 DEF ContextTypeOK
<1>3. Live = {}
  BY <1>1 DEF Live
<1>4. PoolsOwned /\ OnlyLiveOwed /\ RootsRead
  BY <1>1, ParentIs DEF PoolsOwned, OnlyLiveOwed, RootsRead, Owed
<1>5. TreesWhole
  BY <1>1 DEF TreesWhole
<1>6. ReferencesAccounted /\ NothingDangles /\ FreedWhenUnreferenced
  BY <1>1, <1>3 DEF ReferencesAccounted, NothingDangles, FreedWhenUnreferenced
<1> QED
  BY <1>2, <1>4, <1>5, <1>6 DEF IInv

(***************************************************************************)
(* The theorems.                                                           *)
(***************************************************************************)
\* The invariant of which the others are parts.
THEOREM InvariantCorrect == Spec => []IInv
<1>1. Init => IInv
  BY InitHolds
<1>2. IInv /\ [Next]_vars => IInv'
  BY NextKeeps
<1> QED
  BY <1>1, <1>2, PTL DEF Spec

\* Counts stay numbers, whatever is dropped in whatever order (interface/ceed.c).
THEOREM ContextTypeOKCorrect == Spec => []ContextTypeOK
<1>1. IInv => ContextTypeOK
  BY DEF IInv
<1> QED
  BY <1>1, InvariantCorrect, PTL

\* The count of a context is the number of those who rely on it.
THEOREM ReferencesAccountedCorrect == Spec => []ReferencesAccounted
<1>1. IInv => ReferencesAccounted
  BY DEF IInv
<1> QED
  BY <1>1, InvariantCorrect, PTL

\* Nobody who has counted a context, or delegates to it, is left with a freed one.
THEOREM NothingDanglesCorrect == Spec => []NothingDangles
<1>1. IInv => NothingDangles
  BY DEF IInv
<1> QED
  BY <1>1, InvariantCorrect, PTL

\* A context that nothing counts on is freed, or can still be.
THEOREM FreedWhenUnreferencedCorrect == Spec => []FreedWhenUnreferenced
<1>1. IInv => FreedWhenUnreferenced
  BY DEF IInv
<1> QED
  BY <1>1, InvariantCorrect, PTL

\* The check in CeedWorkVectorsDestroy, which runs when the delegates are already given
\* up, finds no vector in use (interface/ceed.c:168).
THEOREM FreedWithoutLentVectorsCorrect == Spec => FreedWithoutLentVectors
<1>1. ASSUME IInv, [Next]_vars, NEW c \in Live, phase'[c] = "freed"
      PROVE  in_use[c] = {}
  <2>1. phase[c] = "live" /\ c \in Ceed
    BY DEF Live
  <2>2. CASE phase' = phase
    BY <1>1, <2>1, <2>2
  <2>3. CASE \E r \in Ceed : CeedInit(r)
    BY <1>1, <2>1, <2>3 DEF CeedInit
  <2>4. CASE \E count, x, gone : Entered(count, x, gone) /\ Release(count, x, gone)
    <3>1. PICK count, x, gone : Entered(count, x, gone) /\ Release(count, x, gone)
      BY <2>4
    <3>2. count[x] <= 1 /\ Free(count, x, gone)
      BY <1>1, <2>1, <3>1 DEF Release, Keep
    <3>3. phase' = [d \in Ceed |-> IF d \in GoesWith(count, x) THEN "freed" ELSE phase[d]]
      BY <3>2 DEF Free, GoesWith
    <3>4. c \in GoesWith(count, x)
      BY <1>1, <2>1, <3>3
    <3> QED
      BY <1>1, <3>1, <3>2, <3>4, FreeEffects
  <2>5. CASE UNCHANGED vars
    BY <1>1, <2>1, <2>5 DEF vars, ceedVars
  <2> QED
    BY <1>1, <2>2, <2>3, <2>4, <2>5, StepKinds
<1>2. IInv /\ [Next]_vars => [\A c \in Live : phase'[c] = "freed" => in_use[c] = {}]_vars
  BY <1>1
<1> QED
  BY <1>2, InvariantCorrect, PTL DEF Spec, FreedWithoutLentVectors

\* A list that somebody reads stays (interface/ceed.c:1686).
THEOREM ReadListsStayCorrect == Spec => ReadListsStay
<1>1. ASSUME IInv, [Next]_vars, NEW c \in Live, NEW l \in Guarded,
             readers[c][l] > 0, readers'[c][l] > 0
      PROVE  phase'[c] = "live"
  <2>1. phase[c] = "live" /\ c \in Ceed
    BY DEF Live
  <2>2. CASE phase' = phase
    BY <2>1, <2>2
  <2>3. CASE \E r \in Ceed : CeedInit(r)
    BY <2>1, <2>3 DEF CeedInit
  <2>4. CASE \E count, x, gone : Entered(count, x, gone) /\ Release(count, x, gone)
    <3>1. PICK count, x, gone : Entered(count, x, gone) /\ Release(count, x, gone)
      BY <2>4
    <3>2. CASE Keep(count, x, gone)
      BY <2>1, <3>2 DEF Keep
    <3>3. CASE ~Keep(count, x, gone)
      <4>1. count[x] <= 1 /\ Free(count, x, gone) /\ ~Reading(readers', x)
        BY <3>1, <3>3 DEF Release
      <4>2. phase' = [d \in Ceed |-> IF d \in GoesWith(count, x) THEN "freed" ELSE phase[d]]
        BY <4>1 DEF Free, GoesWith
      <4>3. ASSUME c \in GoesWith(count, x) PROVE FALSE
        <5>1. c # x => Parent[c] \in GoesWith(count, x) /\ GoesWith(count, x) \subseteq Live
          BY <1>1, <3>1, <4>1, <4>3, FreeEffects
        <5>2. c # x => Parent[c] # NULL
          BY <5>1, TopologyAssumption DEF Live
        <5>3. c # x => readers[c][l] = 0
          BY <1>1, <2>1, <5>2, TopologyAssumption DEF IInv, RootsRead
        <5>4. c = x => Reading(readers', x)
          BY <1>1 DEF Reading
        <5> QED
          BY <1>1, <4>1, <5>3, <5>4
      <4> QED
        BY <2>1, <4>2, <4>3
    <3> QED
      BY <3>2, <3>3
  <2>5. CASE UNCHANGED vars
    BY <2>1, <2>5 DEF vars, ceedVars
  <2> QED
    BY <1>1, <2>2, <2>3, <2>4, <2>5, StepKinds
<1>2. IInv /\ [Next]_vars
        => [\A c \in Live, l \in Guarded :
              readers[c][l] > 0 /\ readers'[c][l] > 0 => phase'[c] = "live"]_vars
  BY <1>1
<1> QED
  BY <1>2, InvariantCorrect, PTL DEF Spec, ReadListsStay

(***************************************************************************)
(* Every context's pool implements WorkPool.                               *)
(***************************************************************************)
PoolStep(x) == [Pool(x)!PoolNext]_(Pool(x)!poolVars)

LEMMA PoolStutters ==
  ASSUME NEW x \in Ceed, pool'[x] = pool[x], in_use'[x] = in_use[x],
         \A o \in pool[x] : length'[o] = length[o]
  PROVE  PoolStep(x)
<1>1. [o \in pool'[x] |-> length'[o]] = [o \in pool[x] |-> length[o]]
  OBVIOUS
<1> QED
  BY <1>1 DEF PoolStep, Pool!poolVars

LEMMA SameObjectsPools ==
  ASSUME UNCHANGED objVars
  PROVE  \A x \in Ceed : PoolStep(x)
BY PoolStutters DEF objVars

LEMMA CreatePools ==
  ASSUME IInv, NEW k \in Kind, NEW c \in Ceed, NEW o \in Object, NEW len \in Length \cup {0},
         CeedCreate(k, c, o, len)
  PROVE  \A x \in Ceed : PoolStep(x)
<1>1. CASE Fail(k, c, "unsupported")
  BY <1>1, SameObjectsPools DEF Fail
<1>2. CASE ~Fail(k, c, "unsupported")
  <2>1. /\ home[o] = NULL /\ length' = [length EXCEPT ![o] = len]
        /\ UNCHANGED <<pool, in_use>>
    BY <1>2 DEF CeedCreate
  <2>2. \A x \in Ceed : o \notin pool[x] /\ pool[x] \subseteq Object
    BY <2>1, TopologyAssumption DEF IInv, PoolsOwned, ContextTypeOK
  <2>3. \A x \in Ceed : \A p \in pool[x] : length'[p] = length[p]
    BY <2>1, <2>2 DEF IInv, ContextTypeOK
  <2> QED
    BY <2>1, <2>3, PoolStutters
<1> QED
  BY <1>1, <1>2

LEMMA GetPools ==
  ASSUME IInv, NEW c \in Ceed, NEW len \in Length, CeedGetWorkVector(c, len)
  PROVE  \A x \in Ceed : PoolStep(x)
<1> DEFINE t == WorkTarget(c)
<1>1. t \in Ceed /\ t # NULL
  BY WorkTargetLive, TopologyAssumption DEF CeedGetWorkVector, IInv
<1>2. /\ pool[t] \subseteq Object /\ in_use[t] \subseteq pool[t]
      /\ \A o \in pool[t] : home[o] = t
      /\ length \in [Object -> Nat] /\ pool \in [Ceed -> SUBSET Object]
      /\ in_use \in [Ceed -> SUBSET Object]
  BY <1>1 DEF IInv, ContextTypeOK, PoolsOwned
<1>3. CASE /\ \E o \in Adequate(t, len) : Lend(t, o)
           /\ UNCHANGED <<home, length, pool>>
  <2>1. PICK o \in Adequate(t, len) : in_use' = [in_use EXCEPT ![t] = @ \cup {o}]
    BY <1>3 DEF Lend
  <2>2. o \in pool[t] \ in_use[t] /\ length[o] >= len
    BY <2>1 DEF Adequate
  <2>3. in_use'[t] = in_use[t] \cup {o} /\ \A x \in Ceed \ {t} : in_use'[x] = in_use[x]
    BY <1>1, <1>2, <2>1
  <2>4. Pool(t)!LendIdle(len)
    <3>1. o \in Pool(t)!LongEnough(len)
      BY <2>2 DEF Pool!LongEnough, Pool!Idle
    <3>2. [p \in pool'[t] |-> length'[p]] = [p \in pool[t] |-> length[p]]
      BY <1>3
    <3> HIDE DEF t
    <3> QED
      BY <2>3, <3>1, <3>2 DEF Pool!LendIdle
  <2>5. PoolStep(t)
    BY <2>4 DEF PoolStep, Pool!PoolNext
  <2>6. \A x \in Ceed \ {t} : PoolStep(x)
    BY <1>3, <2>3, PoolStutters
  <2> QED
    BY <2>5, <2>6
<1>4. CASE /\ Adequate(t, len) = {}
           /\ \E o \in {p \in Object : home[p] = NULL /\ held[p] = 0} :
                /\ Lend(t, o)
                /\ home' = [home EXCEPT ![o] = t]
                /\ length' = [length EXCEPT ![o] = len]
                /\ pool' = [pool EXCEPT ![t] = @ \cup {o}]
  <2>1. PICK o \in Object : /\ home[o] = NULL
                            /\ in_use' = [in_use EXCEPT ![t] = @ \cup {o}]
                            /\ length' = [length EXCEPT ![o] = len]
                            /\ pool' = [pool EXCEPT ![t] = @ \cup {o}]
    BY <1>4 DEF Lend
  <2>2. \A x \in Ceed : o \notin pool[x]
    BY <2>1, TopologyAssumption DEF IInv, PoolsOwned
  <2>3. /\ in_use'[t] = in_use[t] \cup {o} /\ \A x \in Ceed \ {t} : in_use'[x] = in_use[x]
        /\ pool'[t] = pool[t] \cup {o} /\ \A x \in Ceed \ {t} : pool'[x] = pool[x]
        /\ length'[o] = len /\ \A p \in Object \ {o} : length'[p] = length[p]
    BY <1>1, <1>2, <2>1
  <2>4. Pool(t)!LendNew(len)
    <3>1. Pool(t)!LongEnough(len) = {}
      BY <1>4 DEF Pool!LongEnough, Pool!Idle, Adequate
    <3> HIDE DEF t
    <3>2. [p \in pool'[t] |-> length'[p]]
            = [w \in DOMAIN [p \in pool[t] |-> length[p]] \cup {o} |->
                 IF w = o THEN len ELSE [p \in pool[t] |-> length[p]][w]]
      BY <1>1, <1>2, <2>2, <2>3
    <3>3. o \in Object \ DOMAIN [p \in pool[t] |-> length[p]]
      BY <1>1, <2>2
    <3> QED
      BY <2>3, <3>1, <3>2, <3>3 DEF Pool!LendNew
  <2>5. PoolStep(t)
    BY <2>4 DEF PoolStep, Pool!PoolNext
  <2>6. ASSUME NEW x \in Ceed \ {t}
        PROVE  PoolStep(x)
    <3>1. \A p \in pool[x] : length'[p] = length[p]
      BY <1>2, <2>2, <2>3
    <3> QED
      BY <2>3, <3>1, PoolStutters
  <2> QED
    BY <2>5, <2>6
<1> QED
  BY <1>3, <1>4 DEF CeedGetWorkVector

LEMMA RestorePools ==
  ASSUME IInv, NEW c \in Ceed, NEW o \in Object, CeedRestoreWorkVector(c, o)
  PROVE  \A x \in Ceed : PoolStep(x)
<1> DEFINE t == WorkTarget(c)
<1>1. CASE RestoreLent(c, o)
  <2>1. /\ Usable(c) /\ o \in in_use[t]
        /\ in_use' = [in_use EXCEPT ![t] = @ \ {o}]
        /\ UNCHANGED <<length, pool>>
    BY <1>1 DEF RestoreLent
  <2>2. t \in Ceed
    BY <2>1, WorkTargetLive DEF IInv
  <2>3. in_use'[t] = in_use[t] \ {o} /\ \A x \in Ceed \ {t} : in_use'[x] = in_use[x]
    BY <2>1, <2>2 DEF IInv, ContextTypeOK
  <2>4. Pool(t)!GiveBack
    <3> HIDE DEF t
    <3>1. [p \in pool'[t] |-> length'[p]] = [p \in pool[t] |-> length[p]]
      BY <2>1
    <3> QED
      BY <2>1, <2>3, <3>1 DEF Pool!GiveBack
  <2>5. PoolStep(t)
    BY <2>4 DEF PoolStep, Pool!PoolNext
  <2>6. \A x \in Ceed \ {t} : PoolStep(x)
    BY <2>1, <2>3, PoolStutters
  <2> QED
    BY <2>5, <2>6
<1>2. CASE RestoreRefused(c, o)
  <2>1. UNCHANGED objVars
    BY <1>2 DEF RestoreRefused, Fail
  <2> QED
    BY <2>1, SameObjectsPools
<1> QED
  BY <1>1, <1>2 DEF CeedRestoreWorkVector

LEMMA ClearPools ==
  ASSUME IInv, NEW c \in Ceed, NEW min_len \in Length, CeedClearWorkVectors(c, min_len)
  PROVE  \A x \in Ceed : PoolStep(x)
<1> DEFINE t == WorkTarget(c)
           cleared == {o \in pool[t] \ in_use[t] : length[o] < min_len}
           dropped == cleared \ {o \in cleared : held[o] > 0}
<1>1. /\ Usable(c)
      /\ pool' = [pool EXCEPT ![t] = @ \ cleared]
      /\ length' = [o \in Object |-> IF o \in dropped THEN 0 ELSE length[o]]
      /\ UNCHANGED in_use
  BY DEF CeedClearWorkVectors, Gone
<1>2. t \in Ceed /\ min_len \in Nat
  BY <1>1, WorkTargetLive, TopologyAssumption DEF IInv
<1>3. /\ pool[t] \subseteq Object /\ in_use[t] \subseteq pool[t]
      /\ length \in [Object -> Nat] /\ pool \in [Ceed -> SUBSET Object]
  BY <1>2 DEF IInv, ContextTypeOK, PoolsOwned
<1>4. \A x \in Ceed \ {t} : \A o \in pool[x] : o \notin pool[t]
  BY <1>2 DEF IInv, PoolsOwned
<1>5. pool'[t] = pool[t] \ cleared /\ \A x \in Ceed \ {t} : pool'[x] = pool[x]
  BY <1>1, <1>2, <1>3
<1>6. Pool(t)!ClearBelow(min_len)
  <2>1. in_use[t] \cup Pool(t)!LongEnough(min_len) = pool[t] \ cleared
    <3>1. Pool(t)!LongEnough(min_len) = {o \in pool[t] \ in_use[t] : length[o] >= min_len}
      BY DEF Pool!LongEnough, Pool!Idle
    <3>2. \A o \in pool[t] : length[o] \in Nat
      BY <1>3
    <3>3. \A o \in pool[t] : ~(length[o] < min_len) <=> length[o] >= min_len
      BY <1>2, <3>2
    <3> HIDE DEF t
    <3> QED
      BY <1>3, <3>1, <3>3
  <2>2. [o \in pool'[t] |-> length'[o]]
          = [v \in in_use[t] \cup Pool(t)!LongEnough(min_len) |-> [p \in pool[t] |-> length[p]][v]]
    <3>1. \A o \in pool[t] \ cleared : o \notin dropped /\ o \in Object
      BY <1>3
    <3>2. \A o \in pool'[t] : length'[o] = [p \in pool[t] |-> length[p]][o]
      BY <1>1, <1>5, <3>1
    <3> HIDE DEF t, cleared, dropped
    <3> QED
      BY <1>5, <2>1, <3>2
  <2> HIDE DEF t
  <2> QED
    BY <1>1, <2>2 DEF Pool!ClearBelow
<1>7. PoolStep(t)
  BY <1>6 DEF PoolStep, Pool!PoolNext
<1>8. ASSUME NEW x \in Ceed \ {t}
      PROVE  PoolStep(x)
  <2>1. \A o \in pool[x] : length'[o] = length[o]
    <3>1. pool[x] \subseteq Object
      BY <1>3
    <3>2. \A o \in pool[x] : o \notin dropped
      BY <1>4
    <3> HIDE DEF dropped
    <3> QED
      BY <1>1, <3>1, <3>2
  <2> QED
    BY <1>1, <1>5, <2>1, PoolStutters
<1> QED
  BY <1>7, <1>8

LEMMA ReleasePools ==
  ASSUME IInv, NEW count, NEW c, NEW gone, Entered(count, c, gone), Release(count, c, gone)
  PROVE  \A x \in Ceed : PoolStep(x)
<1>1. ASSUME NEW x \in Ceed
      PROVE  pool[x] \subseteq Object /\ \A o \in pool[x] : o \notin gone
  BY DEF Entered, IInv, PoolsOwned, ContextTypeOK
<1>2. CASE Keep(count, c, gone)
  <2>1. /\ UNCHANGED <<pool, in_use>>
        /\ length' = [o \in Object |-> IF o \in gone THEN 0 ELSE length[o]]
    BY <1>2 DEF Keep, Gone
  <2>2. \A x \in Ceed : \A o \in pool[x] : length'[o] = length[o]
    BY <1>1, <2>1
  <2> QED
    BY <2>1, <2>2, PoolStutters
<1>3. CASE ~Keep(count, c, gone)
  <2> DEFINE D == GoesWith(count, c)
             pooled == UNION {pool[d] : d \in D}
  <2>1. count[c] <= 1 /\ Free(count, c, gone)
    BY <1>3 DEF Release
  <2>2. /\ pool' = [d \in Ceed |-> IF d \in D THEN {} ELSE pool[d]]
        /\ in_use' = [d \in Ceed |-> IF d \in D THEN {} ELSE in_use[d]]
        /\ length' = [o \in Object |-> IF o \in gone \cup pooled THEN 0 ELSE length[o]]
    BY <2>1 DEF Free, Gone, GoesWith
  <2>3. D \subseteq Live /\ \A d \in D : in_use[d] = {}
    BY <2>1, FreeEffects
  <2>4. ASSUME NEW x \in Ceed, x \in D
        PROVE  PoolStep(x)
    <3>1. in_use[x] = {} /\ in_use'[x] = {} /\ pool'[x] = {}
      BY <2>2, <2>3, <2>4
    <3>2. [o \in pool'[x] |-> length'[o]] = <<>>
      BY <3>1
    <3>3. Pool(x)!Close
      BY <3>1, <3>2 DEF Pool!Close
    <3> QED
      BY <3>3 DEF PoolStep, Pool!PoolNext
  <2>5. ASSUME NEW x \in Ceed, x \notin D
        PROVE  PoolStep(x)
    <3>1. \A o \in pool[x] : o \notin pooled
      <4>1. ASSUME NEW o \in pool[x], NEW d \in D, o \in pool[d]
            PROVE  FALSE
        <5>1. d \in Ceed
          BY <2>3 DEF Live
        <5>2. home[o] = x /\ home[o] = d
          BY <4>1, <5>1 DEF IInv, PoolsOwned
        <5> QED
          BY <2>5, <5>2
      <4> QED
        BY <4>1
    <3> HIDE DEF D, pooled
    <3>2. pool'[x] = pool[x] /\ in_use'[x] = in_use[x]
      BY <2>2, <2>5
    <3>3. \A o \in pool[x] : length'[o] = length[o]
      BY <1>1, <2>2, <3>1
    <3> QED
      BY <3>2, <3>3, PoolStutters
  <2> QED
    BY <2>4, <2>5
<1> QED
  BY <1>2, <1>3

LEMMA NextPools ==
  ASSUME IInv, [Next]_vars
  PROVE  \A x \in Ceed : PoolStep(x)
<1>1. ASSUME \E count, c, gone : Entered(count, c, gone) /\ Release(count, c, gone)
      PROVE  \A x \in Ceed : PoolStep(x)
  BY <1>1, ReleasePools
<1>2. ASSUME NEW c \in Ceed,
             \/ CeedDestroy(c) \/ \E d \in Ceed : CeedReferenceCopyOver(c, d)
             \/ \E l \in List : CeedGetList(c, l) \/ CeedRestoreList(c, l)
      PROVE  \A x \in Ceed : PoolStep(x)
  BY <1>1, <1>2, DestroyReleases, CopyOverReleases, GetListReleases
<1>3. ASSUME NEW c \in Ceed, NEW l \in List, CeedAddToList(c, l)
      PROVE  \A x \in Ceed : PoolStep(x)
  BY <1>1, <1>3, AddToListSteps, AddRefusedKeeps, SameObjectsPools
<1>4. ASSUME NEW o \in Object, CeedObjectDestroy(o)
      PROVE  \A x \in Ceed : PoolStep(x)
  BY <1>1, <1>4, ObjectReleases, DestroyObjectKeeps, SameObjectsPools
<1>5. ASSUME NEW c \in Ceed,
             \/ CeedReferenceCopy(c) \/ CeedGetParent(c) \/ CeedGetDelegate(c)
             \/ CeedGetOperatorFallbackCeed(c) \/ \E k \in Kind : CeedGetObjectDelegate(c, k)
      PROVE  \A x \in Ceed : PoolStep(x)
  BY <1>5, HandleActions, SameObjectsPools
<1>6. ASSUME NEW o \in Object, CeedObjectGetCeed(o) \/ CeedObjectReferenceCopy(o)
      PROVE  \A x \in Ceed : PoolStep(x)
  BY <1>6, GetCeedKeeps, ReferenceObjectKeeps, SameObjectsPools
<1>7. ASSUME NEW c \in Ceed, CeedInit(c)
      PROVE  \A x \in Ceed : PoolStep(x)
  BY <1>7, SameObjectsPools DEF CeedInit
<1>8. ASSUME UNCHANGED vars
      PROVE  \A x \in Ceed : PoolStep(x)
  BY <1>8, SameObjectsPools DEF vars
<1> QED
  BY <1>2, <1>3, <1>4, <1>5, <1>6, <1>7, <1>8, CreatePools, GetPools, RestorePools, ClearPools
  DEF Next

\* The pool of work vectors of every context is a WorkPool, whatever contexts are used to
\* get at it, and whichever of them are dropped (interface/ceed.c:844-978).
THEOREM KeepsPoolPromiseCorrect == Spec => KeepsPoolPromise
<1>1. Init => \A c \in Ceed : Pool(c)!PoolInit
  <2>1. ASSUME Init, NEW c \in Ceed
        PROVE  Pool(c)!PoolInit
    <3>1. pool[c] = {} /\ in_use[c] = {}
      BY <2>1 DEF Init
    <3>2. [o \in pool[c] |-> length[o]] = <<>>
      BY <3>1
    <3> QED
      BY <3>1, <3>2 DEF Pool!PoolInit
  <2> QED
    BY <2>1
<1>2. IInv /\ [Next]_vars => [\A c \in Ceed : [Pool(c)!PoolNext]_(Pool(c)!poolVars)]_vars
  BY NextPools DEF PoolStep
<1> QED
  BY <1>1, <1>2, InvariantCorrect, PTL DEF Spec, KeepsPoolPromise
===============================================================================
