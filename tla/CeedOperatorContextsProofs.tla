----------------------- MODULE CeedOperatorContextsProofs -----------------------
(***************************************************************************)
(* Theorems about CeedQFunctionContext and CeedOperatorContexts, for any   *)
(* sets of contexts, blocks, values and operators.                         *)
(***************************************************************************)
EXTENDS CeedOperatorContexts, FiniteSetTheorems, SequenceTheorems,
        WellFoundedInduction, TLAPS

(***************************************************************************)
(* Counts. A context that is gone has no users, so that a new one in its   *)
(* place begins with its own handle; and a read access held through an     *)
(* operator belongs to a context that this operator still uses.            *)
(***************************************************************************)
\* FirstContext for given contexts of the operators.
FirstOf(f, s) ==
  LET found == {i \in DOMAIN s : f[s[i]] # NULL}
  IN IF found = {} THEN NULL ELSE f[s[CHOOSE i \in found : \A j \in found : i <= j]]

ReadersOf(c) == {via \in reading : FirstContext(LabelOf(via)) = c}

CountTypes ==
  /\ ref_count \in [Context -> Nat] /\ handles \in [Context -> Nat]
  /\ leaked \in [Context -> Nat]
  /\ num_readers \in [Context -> Nat] /\ held \in [Context -> Nat]
  /\ stranded \in [Context -> Nat]
  /\ state \in [Context -> {0, 1}]
  /\ refused \subseteq Context
  /\ ctx \in [Op -> Context \cup {NULL}]
  /\ sub_operators \in Seq(Op)
  /\ num_sub_labels \in 0..Len(sub_operators)
  /\ reading \subseteq Labelled \cup {Composite}

\* The reads that failing calls have kept; a write access that one has kept is no reader.
KeptReads(c) == IF Locked(c) THEN 0 ELSE stranded[c]

Exact(c) ==
  /\ Live(c) => ref_count[c] = handles[c] + Cardinality(Users(c)) + leaked[c]
  /\ num_readers[c] = held[c] + Cardinality(ReadersOf(c)) + KeptReads(c)
  /\ Locked(c) => num_readers[c] = 0

Gone(c) == ~Exists(c) => Users(c) = {} /\ leaked[c] = 0

CountInv ==
  /\ CountTypes
  /\ \A c \in Context : Exact(c) /\ Gone(c)
  /\ Composite \in reading => num_sub_labels > 0

\* A set of positions has a first one.
LEMMA FirstPosition ==
  ASSUME NEW S, S \subseteq Nat, S # {}
  PROVE  \E i \in S : \A j \in S : i <= j
<1>1. IsWellFoundedOn(OpToRel(<, Nat), Nat)
  BY NatLessThanWellFounded
<1>2. PICK i \in S : \A j \in S : <<j, i>> \notin OpToRel(<, Nat)
  BY <1>1, WFMin
<1>3. \A j \in S : ~(j < i)
  BY <1>2 DEF OpToRel
<1> QED
  BY <1>3

\* It depends on the contexts of the operators of the sequence only.
LEMMA FirstOfSame ==
  ASSUME NEW f, NEW g, NEW s \in Seq(Op), \A i \in DOMAIN s : f[s[i]] = g[s[i]]
  PROVE  FirstOf(f, s) = FirstOf(g, s)
<1> DEFINE found == {i \in DOMAIN s : f[s[i]] # NULL}
<1>1. found = {i \in DOMAIN s : g[s[i]] # NULL}
  OBVIOUS
<1>2. CASE found = {}
  BY <1>1, <1>2 DEF FirstOf
<1>3. CASE found # {}
  <2> DEFINE first == CHOOSE i \in found : \A j \in found : i <= j
  <2>1. FirstOf(f, s) = f[s[first]] /\ FirstOf(g, s) = g[s[first]]
    BY <1>1, <1>3 DEF FirstOf
  <2>2. \E i \in found : \A j \in found : i <= j
    <3>1. found \subseteq Nat
      OBVIOUS
    <3> HIDE DEF found
    <3> QED
      BY <1>3, <3>1, FirstPosition
  <2>3. first \in found
    BY <2>2
  <2>4. first \in DOMAIN s
    BY <2>3
  <2> QED
    BY <2>1, <2>4
<1> QED
  BY <1>2, <1>3

\* FirstContext is FirstOf for the contexts as they are.
LEMMA FirstContextValue ==
  ASSUME NEW s
  PROVE  FirstContext(s) = FirstOf(ctx, s)
BY DEF FirstContext, FirstOf

\* What is first is one of them.
LEMMA FirstOfMember ==
  ASSUME NEW f, NEW s \in Seq(Op), FirstOf(f, s) # NULL
  PROVE  \E i \in DOMAIN s : f[s[i]] = FirstOf(f, s)
<1> DEFINE found == {i \in DOMAIN s : f[s[i]] # NULL}
           first == CHOOSE i \in found : \A j \in found : i <= j
<1>1. found # {} /\ FirstOf(f, s) = f[s[first]]
  BY DEF FirstOf
<1>2. found \subseteq Nat
  OBVIOUS
<1>3. \E i \in found : \A j \in found : i <= j
  <2> HIDE DEF found
  <2> QED
    BY <1>1, <1>2, FirstPosition
<1>4. first \in DOMAIN s
  BY <1>3
<1> QED
  BY <1>1, <1>4

\* A label leads to operators whose context stays.
Pinned(o) == o \in Labelled \/ (InComposite(o) /\ num_sub_labels > 0)

LEMMA LabelType ==
  ASSUME CountTypes, NEW via
  PROVE  /\ LabelOf(via) \in Seq(Op)
         /\ \A i \in DOMAIN LabelOf(via) : LabelOf(via)[i] \in Op /\ Pinned(LabelOf(via)[i])
<1> DEFINE n == num_sub_labels
           s == SubSeq(sub_operators, 1, n)
<1>1. /\ sub_operators \in Seq(Op) /\ Len(sub_operators) \in Nat
      /\ n \in 0..Len(sub_operators) /\ Labelled \subseteq Op
  <2>1. sub_operators \in Seq(Op) /\ num_sub_labels \in 0..Len(sub_operators)
    BY DEF CountTypes
  <2>2. Len(sub_operators) \in Nat
    BY <2>1, LenProperties
  <2>3. Labelled \subseteq Op
    BY OperatorAssumption
  <2> QED
    BY <2>1, <2>2, <2>3
<1>2. \A i \in 1..n : sub_operators[i] \in Op
  BY <1>1
<1>3. /\ s \in Seq(Op)
      /\ Len(s) = n
      /\ \A i \in 1..n : s[i] = sub_operators[i]
  <2>1. /\ s \in Seq(Op)
        /\ Len(s) = IF 1 <= n THEN n - 1 + 1 ELSE 0
        /\ \A i \in 1..(n - 1 + 1) : s[i] = sub_operators[1 + i - 1]
    <3> HIDE DEF n
    <3>1. 1 \in Int /\ n \in Int
      BY <1>1
    <3> QED
      BY <1>2, <3>1, SubSeqProperties
  <2> HIDE DEF s, n
  <2> QED
    BY <1>1, <2>1
<1>4. CASE via = Composite
  <2>1. LabelOf(via) = s
    BY <1>4 DEF LabelOf
  <2> HIDE DEF s
  <2>2. ASSUME NEW i \in DOMAIN s
        PROVE  s[i] \in Op /\ Pinned(s[i])
    <3>1. i \in 1..n /\ i \in DOMAIN sub_operators
      BY <1>1, <1>3, <2>2
    <3>2. InComposite(s[i]) /\ num_sub_labels > 0
      BY <1>1, <1>3, <3>1 DEF InComposite
    <3> QED
      BY <1>2, <1>3, <3>1, <3>2 DEF Pinned
  <2> QED
    BY <1>3, <2>1, <2>2
<1>5. CASE via # Composite /\ via \in Labelled
  BY <1>1, <1>5 DEF LabelOf, Pinned
<1>6. CASE via # Composite /\ via \notin Labelled
  BY <1>6 DEF LabelOf
<1> QED
  BY <1>4, <1>5, <1>6

\* A reader belongs to a context that a pinned operator uses.
LEMMA ReaderUses ==
  ASSUME CountTypes, NEW c \in Context, NEW via \in ReadersOf(c)
  PROVE  \E o \in Users(c) : Pinned(o)
<1>1. FirstOf(ctx, LabelOf(via)) = c /\ c # NULL
  BY FirstContextValue, ContextAssumption DEF ReadersOf
<1>2. LabelOf(via) \in Seq(Op)
  BY LabelType
<1>3. PICK i \in DOMAIN LabelOf(via) : ctx[LabelOf(via)[i]] = c
  BY <1>1, <1>2, FirstOfMember
<1>4. LabelOf(via)[i] \in Op /\ Pinned(LabelOf(via)[i])
  BY <1>3, LabelType
<1> QED
  BY <1>3, <1>4 DEF Users

\* What is counted is finite.
LEMMA CountsFinite ==
  ASSUME CountTypes, NEW c
  PROVE  /\ IsFiniteSet(Users(c)) /\ Cardinality(Users(c)) \in Nat
         /\ IsFiniteSet(ReadersOf(c)) /\ Cardinality(ReadersOf(c)) \in Nat
         /\ c \in Context => KeptReads(c) \in Nat
<1>1. IsFiniteSet(Users(c))
  BY FS_Subset, OperatorAssumption DEF Users
<1>2. IsFiniteSet(Labelled \cup {Composite})
  BY FS_Subset, FS_AddElement, OperatorAssumption
<1>3. ReadersOf(c) \in SUBSET (Labelled \cup {Composite})
  BY DEF ReadersOf, CountTypes
<1>4. IsFiniteSet(ReadersOf(c))
  BY <1>2, <1>3, FS_Subset
<1>5. c \in Context => KeptReads(c) \in Nat
  BY DEF KeptReads, CountTypes
<1> QED
  BY <1>1, <1>4, <1>5, FS_CardinalityType

\* A context whose last reference is a handle has no users and no readers but those of
\* the handle.
LEMMA LastHandle ==
  ASSUME CountInv, NEW c \in Context, Live(c), ref_count[c] = 1, handles[c] > 0
  PROVE  Users(c) = {} /\ leaked[c] = 0 /\ handles[c] = 1 /\ ReadersOf(c) = {}
<1>1. /\ ref_count[c] = handles[c] + Cardinality(Users(c)) + leaked[c]
      /\ handles[c] \in Nat /\ leaked[c] \in Nat
      /\ IsFiniteSet(Users(c)) /\ Cardinality(Users(c)) \in Nat
  BY CountsFinite DEF CountInv, Exact, KeptReads, CountTypes
<1>2. Cardinality(Users(c)) = 0 /\ leaked[c] = 0 /\ handles[c] = 1
  BY <1>1
<1>3. Users(c) = {}
  BY <1>1, <1>2, FS_EmptySet
<1> QED
  BY <1>2, <1>3, ReaderUses DEF CountInv

\* One whose last reference is that of a QFunction has no other user, and no readers when
\* the context of this QFunction may be replaced.
LEMMA LastUser ==
  ASSUME CountInv, NEW o \in Op, NEW c \in Context, ctx[o] = c, Live(c), ref_count[c] = 1, ~Pinned(o)
  PROVE  Users(c) = {o} /\ leaked[c] = 0 /\ handles[c] = 0 /\ ReadersOf(c) = {}
<1>1. /\ ref_count[c] = handles[c] + Cardinality(Users(c)) + leaked[c]
      /\ handles[c] \in Nat /\ leaked[c] \in Nat
      /\ IsFiniteSet(Users(c)) /\ Cardinality(Users(c)) \in Nat
  BY CountsFinite DEF CountInv, Exact, KeptReads, CountTypes
<1>2. o \in Users(c)
  BY DEF Users
<1>3. Cardinality(Users(c)) # 0
  BY <1>1, <1>2, FS_EmptySet
<1>4. Cardinality(Users(c)) = 1 /\ leaked[c] = 0 /\ handles[c] = 0
  BY <1>1, <1>3
<1>5. Users(c) = {o}
  BY <1>1, <1>2, <1>4, FS_Singleton
<1> QED
  BY <1>4, <1>5, ReaderUses DEF CountInv

(***************************************************************************)
(* The counts are kept, change by change.                                  *)
(***************************************************************************)
\* Users change with ctx only.
LEMMA UsersKept ==
  ASSUME UNCHANGED ctx, NEW c
  PROVE  Users(c)' = Users(c)
BY DEF Users

\* Readers change with labels, contexts and accesses only.
LEMMA ReadersKept ==
  ASSUME UNCHANGED <<ctx, sub_operators, num_sub_labels, reading>>, NEW c
  PROVE  ReadersOf(c)' = ReadersOf(c)
BY DEF ReadersOf, LabelOf, FirstContext

\* A call that touches none of what is counted.
LEMMA CountSame ==
  ASSUME CountInv,
         UNCHANGED <<ref_count, handles, leaked, num_readers, held, stranded, state, refused, ctx,
                     sub_operators, num_sub_labels, reading>>
  PROVE  CountInv'
<1>1. CountTypes'
  BY DEF CountInv, CountTypes
<1>2. \A c \in Context : Exact(c)' /\ Gone(c)'
  BY UsersKept, ReadersKept DEF CountInv, Exact, KeptReads, Gone, Live, Locked, Exists
<1> QED
  BY <1>1, <1>2 DEF CountInv

\* Write access is granted or given back, or kept by a call that fails.
LEMMA CountLock ==
  ASSUME CountInv, NEW c \in Context,
         \/ state' = [state EXCEPT ![c] = 0] /\ Locked(c) /\ stranded[c] = 0 /\ UNCHANGED stranded
         \/ /\ state' = [state EXCEPT ![c] = 1] /\ num_readers[c] = 0
            /\ stranded' = stranded \/ stranded' = [stranded EXCEPT ![c] = @ + 1],
         UNCHANGED <<ref_count, handles, leaked, num_readers, held, refused, ctx,
                     sub_operators, num_sub_labels, reading>>
  PROVE  CountInv'
<1>1. /\ state \in [Context -> {0, 1}] /\ stranded \in [Context -> Nat]
      /\ num_readers \in [Context -> Nat] /\ held \in [Context -> Nat]
  BY DEF CountInv, CountTypes
<1>2. CountTypes'
  <2>1. state' \in [Context -> {0, 1}] /\ stranded' \in [Context -> Nat]
    BY <1>1
  <2> QED
    BY <2>1 DEF CountInv, CountTypes
<1>3. ASSUME NEW d \in Context
      PROVE  Exact(d)' /\ Gone(d)'
  <2>1. Users(d)' = Users(d) /\ ReadersOf(d)' = ReadersOf(d)
    BY UsersKept, ReadersKept
  <2>2. Exact(d) /\ Gone(d) /\ Cardinality(ReadersOf(d)) \in Nat /\ KeptReads(d) \in Nat
    BY CountsFinite DEF CountInv
  <2>3. num_readers[d] = held[d] + Cardinality(ReadersOf(d)) + KeptReads(d)'
    <3>1. CASE d # c
      <4>1. state'[d] = state[d] /\ stranded'[d] = stranded[d]
        BY <1>1, <3>1
      <4> QED
        BY <2>2, <4>1 DEF Exact, KeptReads, Locked
    <3>2. CASE d = c
      <4>1. num_readers[c] = 0 /\ KeptReads(c)' = 0
        BY <1>1, <2>2, <3>2 DEF Exact, KeptReads, Locked
      <4>2. held[c] = 0 /\ Cardinality(ReadersOf(c)) = 0
        BY <1>1, <2>2, <3>2, <4>1 DEF Exact
      <4> QED
        BY <3>2, <4>1, <4>2
    <3> QED
      BY <3>1, <3>2
  <2>4. Locked(d)' => num_readers[d] = 0
    <3>1. CASE d # c
      BY <1>1, <2>2, <3>1 DEF Exact, Locked
    <3>2. CASE d = c
      BY <1>1, <2>2, <3>2 DEF Exact, Locked
    <3> QED
      BY <3>1, <3>2
  <2> QED
    BY <2>1, <2>2, <2>3, <2>4 DEF Exact, Gone, Live, Exists
<1> QED
  BY <1>2, <1>3 DEF CountInv

\* A read access through the handle begins or ends.
LEMMA CountHeld ==
  ASSUME CountInv, NEW c \in Context,
         \/ /\ ~Locked(c)
            /\ num_readers' = [num_readers EXCEPT ![c] = @ + 1]
            /\ held' = [held EXCEPT ![c] = @ + 1]
         \/ /\ held[c] > 0
            /\ num_readers' = [num_readers EXCEPT ![c] = @ - 1]
            /\ held' = [held EXCEPT ![c] = @ - 1],
         UNCHANGED <<ref_count, handles, leaked, stranded, state, refused, ctx,
                     sub_operators, num_sub_labels, reading>>
  PROVE  CountInv'
<1>1. /\ num_readers[c] \in Nat /\ held[c] \in Nat
      /\ num_readers[c] = held[c] + Cardinality(ReadersOf(c)) + KeptReads(c)
      /\ Cardinality(ReadersOf(c)) \in Nat /\ KeptReads(c) \in Nat
      /\ Locked(c) => num_readers[c] = 0
      /\ num_readers \in [Context -> Nat] /\ held \in [Context -> Nat]
  BY CountsFinite DEF CountInv, CountTypes, Exact, KeptReads
<1>2. CASE /\ ~Locked(c)
           /\ num_readers' = [num_readers EXCEPT ![c] = @ + 1]
           /\ held' = [held EXCEPT ![c] = @ + 1]
  <2>1. CountTypes'
    <3>1. num_readers' \in [Context -> Nat] /\ held' \in [Context -> Nat]
      BY <1>1, <1>2
    <3> QED
      BY <3>1 DEF CountInv, CountTypes
  <2>2. ASSUME NEW d \in Context
        PROVE  Exact(d)' /\ Gone(d)'
    <3>1. Users(d)' = Users(d) /\ ReadersOf(d)' = ReadersOf(d)
      BY UsersKept, ReadersKept
    <3>2. CASE d = c
      BY <1>1, <1>2, <3>1, <3>2 DEF CountInv, Exact, KeptReads, Gone, Live, Locked, Exists
    <3>3. CASE d # c
      BY <1>1, <1>2, <3>1, <3>3 DEF CountInv, Exact, KeptReads, Gone, Live, Locked, Exists
    <3> QED
      BY <3>2, <3>3
  <2> QED
    BY <2>1, <2>2 DEF CountInv
<1>3. CASE /\ held[c] > 0
           /\ num_readers' = [num_readers EXCEPT ![c] = @ - 1]
           /\ held' = [held EXCEPT ![c] = @ - 1]
  <2>1. CountTypes'
    <3>1. num_readers' \in [Context -> Nat] /\ held' \in [Context -> Nat]
      BY <1>1, <1>3
    <3> QED
      BY <3>1 DEF CountInv, CountTypes
  <2>2. ASSUME NEW d \in Context
        PROVE  Exact(d)' /\ Gone(d)'
    <3>1. Users(d)' = Users(d) /\ ReadersOf(d)' = ReadersOf(d)
      BY UsersKept, ReadersKept
    <3>2. CASE d = c
      BY <1>1, <1>3, <3>1, <3>2 DEF CountInv, Exact, KeptReads, Gone, Live, Locked, Exists
    <3>3. CASE d # c
      BY <1>1, <1>3, <3>1, <3>3 DEF CountInv, Exact, KeptReads, Gone, Live, Locked, Exists
    <3> QED
      BY <3>2, <3>3
  <2> QED
    BY <2>1, <2>2 DEF CountInv
<1> QED
  BY <1>2, <1>3

\* A refused call leaves its reference.
LEMMA CountLeak ==
  ASSUME CountInv, NEW c \in Context, Live(c),
         leaked' = [leaked EXCEPT ![c] = @ + 1],
         ref_count' = [ref_count EXCEPT ![c] = @ + 1],
         UNCHANGED <<handles, num_readers, held, stranded, state, refused, ctx,
                     sub_operators, num_sub_labels, reading>>
  PROVE  CountInv'
<1>1. /\ ref_count[c] = handles[c] + Cardinality(Users(c)) + leaked[c]
      /\ Cardinality(Users(c)) \in Nat /\ handles[c] \in Nat /\ leaked[c] \in Nat
      /\ ref_count[c] \in Nat
      /\ ref_count \in [Context -> Nat] /\ leaked \in [Context -> Nat]
  BY CountsFinite DEF CountInv, CountTypes, Exact, KeptReads
<1>2. CountTypes'
  <2>1. leaked' \in [Context -> Nat] /\ ref_count' \in [Context -> Nat]
    BY <1>1
  <2> QED
    BY <2>1 DEF CountInv, CountTypes
<1>3. ASSUME NEW d \in Context
      PROVE  Exact(d)' /\ Gone(d)'
  <2>1. Users(d)' = Users(d) /\ ReadersOf(d)' = ReadersOf(d)
    BY UsersKept, ReadersKept
  <2>2. CASE d = c
    BY <1>1, <2>1, <2>2 DEF CountInv, Exact, KeptReads, Gone, Live, Locked, Exists
  <2>3. CASE d # c
    BY <1>1, <2>1, <2>3 DEF CountInv, Exact, KeptReads, Gone, Live, Locked, Exists
  <2> QED
    BY <2>2, <2>3
<1> QED
  BY <1>2, <1>3 DEF CountInv

\* A context begins with its own handle.
LEMMA CountCreate ==
  ASSUME CountInv, NEW c \in Context, CeedQFunctionContextCreate(c),
         UNCHANGED <<leaked, ctx, sub_operators, num_sub_labels, reading>>
  PROVE  CountInv'
<1>1. /\ ~Exists(c)
      /\ ref_count' = [ref_count EXCEPT ![c] = 1]
      /\ handles' = [handles EXCEPT ![c] = 1]
      /\ UNCHANGED <<num_readers, held, state, refused, stranded>>
  BY DEF CeedQFunctionContextCreate, accessVars
<1>2. Users(c) = {} /\ leaked[c] = 0
  BY <1>1 DEF CountInv, Gone
<1>3. ref_count \in [Context -> Nat] /\ handles \in [Context -> Nat]
  BY DEF CountInv, CountTypes
<1>4. CountTypes'
  BY <1>1, <1>3 DEF CountInv, CountTypes
<1>5. ASSUME NEW d \in Context
      PROVE  Exact(d)' /\ Gone(d)'
  <2>1. Users(d)' = Users(d) /\ ReadersOf(d)' = ReadersOf(d)
    BY UsersKept, ReadersKept
  <2>2. CASE d = c
    <3>1. Cardinality(Users(c)) = 0
      BY <1>2, FS_EmptySet
    <3>2. ref_count'[c] = 1 /\ handles'[c] = 1
      BY <1>1, <1>3
    <3>3. ref_count'[c] = handles'[c] + Cardinality(Users(c)') + leaked'[c]
      BY <1>2, <2>1, <2>2, <3>1, <3>2
    <3>4. KeptReads(c)' = KeptReads(c) /\ Locked(c)' = Locked(c)
      BY <1>1 DEF KeptReads, Locked
    <3>5. Exact(c)'
      BY <1>1, <2>1, <2>2, <3>3, <3>4 DEF CountInv, Exact
    <3>6. Gone(c)'
      BY <1>2, <2>1, <2>2 DEF Gone
    <3> QED
      BY <2>2, <3>5, <3>6
  <2>3. CASE d # c
    BY <1>1, <1>3, <2>1, <2>3 DEF CountInv, Exact, KeptReads, Gone, Live, Locked, Exists
  <2> QED
    BY <2>2, <2>3
<1> QED
  BY <1>1, <1>4, <1>5 DEF CountInv

\* What GiveUp does to the counts: the context goes, is refused, or has other references.
GivenUp(c) ==
  \/ /\ ref_count[c] = 1
     /\ state' = [state EXCEPT ![c] = 0]
     /\ num_readers' = [num_readers EXCEPT ![c] = 0]
     /\ held' = [held EXCEPT ![c] = 0]
     /\ stranded' = [stranded EXCEPT ![c] = 0]
     /\ UNCHANGED refused
  \/ /\ ref_count[c] = 1 /\ ~Dropped(c)
     /\ refused' = refused \cup {c}
     /\ UNCHANGED accessVars
  \/ /\ ref_count[c] > 1
     /\ UNCHANGED <<refused, accessVars>>

\* GiveUp is one of the three.
LEMMA GiveUpEffect ==
  ASSUME CountTypes, NEW c \in Context, Live(c), GiveUp(c)
  PROVE  GivenUp(c)
<1>1. ref_count[c] \in Nat /\ ref_count[c] > 0
  BY DEF CountTypes, Live
<1>2. CASE ref_count[c] = 1 /\ Dropped(c)
  BY <1>2 DEF GiveUp, FreeContext, GivenUp
<1>3. CASE ref_count[c] = 1 /\ ~Dropped(c)
  BY <1>3 DEF GiveUp, GivenUp
<1>4. CASE ref_count[c] > 1
  BY <1>4 DEF GiveUp, GivenUp, Dropped
<1> QED
  BY <1>1, <1>2, <1>3, <1>4

\* A handle is given up.
LEMMA CountDestroy ==
  ASSUME CountInv, NEW c \in Context, CeedQFunctionContextDestroy(c),
         UNCHANGED <<leaked, ctx, sub_operators, num_sub_labels, reading>>
  PROVE  CountInv'
<1>1. /\ Live(c) /\ handles[c] > 0
      /\ ref_count' = [ref_count EXCEPT ![c] = @ - 1]
      /\ handles' = [handles EXCEPT ![c] = @ - 1]
  BY DEF CeedQFunctionContextDestroy, Reachable
<1>2. GivenUp(c)
  BY <1>1, GiveUpEffect DEF CeedQFunctionContextDestroy, CountInv
<1>3. /\ ref_count[c] = handles[c] + Cardinality(Users(c)) + leaked[c]
      /\ Cardinality(Users(c)) \in Nat /\ handles[c] \in Nat /\ leaked[c] \in Nat
      /\ ref_count[c] \in Nat /\ ref_count[c] > 0
      /\ ref_count \in [Context -> Nat] /\ handles \in [Context -> Nat]
      /\ state \in [Context -> {0, 1}] /\ refused \subseteq Context
      /\ num_readers \in [Context -> Nat] /\ held \in [Context -> Nat]
      /\ stranded \in [Context -> Nat]
  BY <1>1, CountsFinite DEF CountInv, CountTypes, Exact, KeptReads, Live
<1>4. CountTypes'
  <2>1. ref_count' \in [Context -> Nat] /\ handles' \in [Context -> Nat]
    BY <1>1, <1>3
  <2>2. /\ state' \in [Context -> {0, 1}] /\ refused' \subseteq Context
        /\ num_readers' \in [Context -> Nat] /\ held' \in [Context -> Nat]
        /\ stranded' \in [Context -> Nat]
    BY <1>2, <1>3 DEF GivenUp, accessVars
  <2> QED
    BY <2>1, <2>2 DEF CountInv, CountTypes
<1>5. ASSUME NEW d \in Context
      PROVE  Exact(d)' /\ Gone(d)'
  <2>1. Users(d)' = Users(d) /\ ReadersOf(d)' = ReadersOf(d)
    BY UsersKept, ReadersKept
  <2>2. CASE d # c
    <3>1. /\ ref_count'[d] = ref_count[d] /\ handles'[d] = handles[d]
          /\ state'[d] = state[d] /\ num_readers'[d] = num_readers[d] /\ held'[d] = held[d]
          /\ stranded'[d] = stranded[d]
          /\ d \in refused' <=> d \in refused
      BY <1>1, <1>2, <1>3, <2>2 DEF GivenUp, accessVars
    <3> QED
      BY <2>1, <3>1 DEF CountInv, Exact, KeptReads, Gone, Live, Locked, Exists
  <2>3. CASE d = c /\ ref_count[c] > 1
    <3>1. /\ ref_count'[c] = ref_count[c] - 1 /\ handles'[c] = handles[c] - 1
          /\ UNCHANGED <<state, num_readers, held, stranded, refused>>
      BY <1>1, <1>2, <1>3, <2>3 DEF GivenUp, accessVars
    <3> QED
      BY <1>3, <2>1, <2>3, <3>1 DEF CountInv, Exact, KeptReads, Gone, Live, Locked, Exists
  <2>4. CASE d = c /\ ref_count[c] = 1
    <3>1. Users(c) = {} /\ leaked[c] = 0 /\ ReadersOf(c) = {}
      BY <1>1, <2>4, LastHandle
    <3>2. ref_count'[c] = 0
      BY <1>1, <1>3, <2>4
    <3>3. num_readers'[c] = held'[c] + Cardinality(ReadersOf(c)) + KeptReads(c)'
      <4>1. CASE /\ num_readers' = [num_readers EXCEPT ![c] = 0]
                 /\ held' = [held EXCEPT ![c] = 0]
                 /\ stranded' = [stranded EXCEPT ![c] = 0]
        <5>1. Cardinality(ReadersOf(c)) = 0
          BY <3>1, FS_EmptySet
        <5> QED
          BY <1>3, <4>1, <5>1 DEF KeptReads
      <4>2. CASE UNCHANGED <<state, num_readers, held, stranded>>
        BY <4>2 DEF CountInv, Exact, KeptReads, Locked
      <4> QED
        BY <1>2, <4>1, <4>2 DEF GivenUp, accessVars
    <3>4. Locked(c)' => num_readers'[c] = 0
      <4>1. CASE num_readers' = [num_readers EXCEPT ![c] = 0]
        BY <1>3, <4>1
      <4>2. CASE UNCHANGED <<state, num_readers>>
        BY <4>2 DEF CountInv, Exact, KeptReads, Locked
      <4> QED
        BY <1>2, <4>1, <4>2 DEF GivenUp, accessVars
    <3> QED
      BY <2>1, <2>4, <3>1, <3>2, <3>3, <3>4 DEF Exact, KeptReads, Gone, Live
  <2> QED
    BY <1>3, <2>2, <2>3, <2>4
<1> QED
  BY <1>4, <1>5 DEF CountInv

\* What readers an operator has does not depend on contexts of operators that are not pinned.
LEMMA ReadersPinned ==
  ASSUME CountTypes, NEW o, ~Pinned(o),
         \A x \in Op \ {o} : ctx'[x] = ctx[x],
         UNCHANGED <<sub_operators, num_sub_labels, reading>>, NEW c
  PROVE  ReadersOf(c)' = ReadersOf(c)
<1>1. ASSUME NEW via
      PROVE  FirstContext(LabelOf(via))' = FirstContext(LabelOf(via))
  <2> DEFINE s == LabelOf(via)
  <2>1. s \in Seq(Op) /\ \A i \in DOMAIN s : s[i] \in Op /\ Pinned(s[i])
    BY LabelType
  <2>2. LabelOf(via)' = s
    BY DEF LabelOf
  <2> HIDE DEF s
  <2>3. \A i \in DOMAIN s : ctx'[s[i]] = ctx[s[i]]
    BY <2>1
  <2>4. FirstOf(ctx', s) = FirstOf(ctx, s)
    BY <2>1, <2>3, FirstOfSame
  <2>5. FirstContext(s) = FirstOf(ctx, s)
    BY FirstContextValue
  <2>6. FirstContext(LabelOf(via))' = FirstOf(ctx', s)
    BY <2>2 DEF FirstContext, FirstOf
  <2> QED
    BY <2>4, <2>5, <2>6 DEF s
<1>2. reading' = reading
  OBVIOUS
<1> QED
  BY <1>1, <1>2 DEF ReadersOf

\* The users of a context when the QFunction of o gets c instead.
LEMMA UsersMoved ==
  ASSUME CountTypes, NEW o \in Op, NEW c \in Context \cup {NULL}, ctx[o] # c,
         ctx' = [ctx EXCEPT ![o] = c], NEW d \in Context
  PROVE  /\ d = ctx[o] => /\ Users(d)' = Users(d) \ {o}
                          /\ Cardinality(Users(d)') = Cardinality(Users(d)) - 1
         /\ d = c => Cardinality(Users(d)') = Cardinality(Users(d)) + 1
         /\ d # ctx[o] /\ d # c => Users(d)' = Users(d)
<1>1. ctx \in [Op -> Context \cup {NULL}]
  BY DEF CountTypes
<1>2. d = ctx[o] => Users(d)' = Users(d) \ {o} /\ o \in Users(d)
  BY <1>1 DEF Users
<1>3. d = c => Users(d)' = Users(d) \cup {o} /\ o \notin Users(d)
  BY <1>1 DEF Users
<1>4. d # ctx[o] /\ d # c => Users(d)' = Users(d)
  BY <1>1 DEF Users
<1>5. IsFiniteSet(Users(d)) /\ Cardinality(Users(d)) \in Nat
  BY CountsFinite
<1>6. d = ctx[o] => Cardinality(Users(d) \ {o}) = Cardinality(Users(d)) - 1
  BY <1>2, <1>5, FS_RemoveElement
<1>7. d = c => Cardinality(Users(d) \cup {o}) = Cardinality(Users(d)) + 1
  BY <1>3, <1>5, FS_AddElement
<1> QED
  BY <1>2, <1>3, <1>4, <1>6, <1>7

\* A QFunction gets another context.
LEMMA CountSetContext ==
  ASSUME CountInv, NEW o \in Op, NEW c \in Context \cup {NULL}, CeedQFunctionSetContext(o, c)
  PROVE  CountInv'
<1> DEFINE old == ctx[o]
           attach == old = NULL \/ Dropped(old)
<1>1. /\ old # c /\ (old # NULL => Live(old)) /\ (c # NULL => Live(c))
      /\ ctx' = IF attach THEN [ctx EXCEPT ![o] = c] ELSE ctx
      /\ ref_count' = [x \in Context |->
           IF x = old THEN ref_count[x] - 1
           ELSE IF x = c /\ attach THEN ref_count[x] + 1 ELSE ref_count[x]]
      /\ UNCHANGED <<handles, leaked, sub_operators, num_sub_labels, reading>>
      /\ old = NULL => UNCHANGED <<refused, state, num_readers, held, stranded>>
      /\ old # NULL => GiveUp(old)
  BY DEF CeedQFunctionSetContext, Usable, Reachable, accessVars
<1>2. ~Pinned(o)
  BY DEF CeedQFunctionSetContext, Pinned
<1>3. CountTypes
  BY DEF CountInv
<1>4. /\ old \in Context \cup {NULL} /\ NULL \notin Context
      /\ ref_count \in [Context -> Nat] /\ ctx \in [Op -> Context \cup {NULL}]
      /\ state \in [Context -> {0, 1}] /\ refused \subseteq Context
      /\ num_readers \in [Context -> Nat] /\ held \in [Context -> Nat]
      /\ stranded \in [Context -> Nat]
  BY <1>3, ContextAssumption DEF CountTypes
<1>5. old # NULL => GivenUp(old)
  BY <1>1, <1>3, <1>4, GiveUpEffect
<1>6. CountTypes'
  <2>1. ref_count' \in [Context -> Nat]
    BY <1>1, <1>4 DEF Live
  <2>2. ctx' \in [Op -> Context \cup {NULL}]
    BY <1>1, <1>4
  <2>3. /\ state' \in [Context -> {0, 1}] /\ refused' \subseteq Context
        /\ num_readers' \in [Context -> Nat] /\ held' \in [Context -> Nat]
        /\ stranded' \in [Context -> Nat]
    <3>1. CASE old = NULL
      BY <1>1, <1>4, <3>1
    <3>2. CASE old # NULL
      BY <1>4, <1>5, <3>2 DEF GivenUp, accessVars
    <3> QED
      BY <3>1, <3>2
  <2> QED
    BY <1>1, <1>3, <2>1, <2>2, <2>3 DEF CountTypes
<1>7. ASSUME NEW d \in Context
      PROVE  ReadersOf(d)' = ReadersOf(d)
  <2>1. \A x \in Op \ {o} : ctx'[x] = ctx[x]
    BY <1>1, <1>4
  <2> QED
    BY <1>1, <1>2, <1>3, <2>1, ReadersPinned
<1>8. ASSUME NEW d \in Context, d # old
      PROVE  Exact(d)' /\ Gone(d)'
  <2>1. /\ state'[d] = state[d] /\ num_readers'[d] = num_readers[d] /\ held'[d] = held[d]
        /\ stranded'[d] = stranded[d]
        /\ d \in refused' <=> d \in refused
    <3>1. CASE old = NULL
      BY <1>1, <3>1
    <3>2. CASE old # NULL
      BY <1>4, <1>5, <1>8, <3>2 DEF GivenUp, accessVars
    <3> QED
      BY <3>1, <3>2
  <2>2. /\ handles'[d] = handles[d] /\ leaked'[d] = leaked[d]
        /\ handles[d] \in Nat /\ leaked[d] \in Nat /\ ref_count[d] \in Nat
        /\ Cardinality(Users(d)) \in Nat
        /\ Exact(d) /\ Gone(d)
    BY <1>1, <1>3, CountsFinite DEF CountInv, CountTypes
  <2>3. CASE d = c /\ attach
    <3>1. ref_count'[d] = ref_count[d] + 1 /\ Live(d)
      BY <1>1, <1>8, <2>3, <1>4
    <3>2. Cardinality(Users(d)') = Cardinality(Users(d)) + 1
      <4>1. ctx' = [ctx EXCEPT ![o] = c]
        BY <1>1, <2>3
      <4>2. ctx[o] # c
        BY <1>1
      <4> HIDE DEF old, attach
      <4> QED
        BY <1>3, <2>3, <4>1, <4>2, UsersMoved
    <3> QED
      BY <1>7, <2>1, <2>2, <3>1, <3>2 DEF Exact, KeptReads, Gone, Live, Locked, Exists
  <2>4. CASE d # c \/ ~attach
    <3>1. ref_count'[d] = ref_count[d]
      BY <1>1, <1>8, <2>4
    <3>2. Users(d)' = Users(d)
      <4>1. CASE attach
        <5>1. ctx' = [ctx EXCEPT ![o] = c] /\ ctx[o] # c /\ d # c /\ d # ctx[o]
          BY <1>1, <1>8, <2>4, <4>1
        <5> HIDE DEF old, attach
        <5> QED
          BY <1>3, <5>1, UsersMoved
      <4>2. CASE ~attach
        BY <1>1, <4>2, UsersKept
      <4> QED
        BY <4>1, <4>2
    <3> QED
      BY <1>7, <2>1, <2>2, <3>1, <3>2 DEF Exact, KeptReads, Gone, Live, Locked, Exists
  <2> QED
    BY <2>3, <2>4
<1>9. ASSUME NEW d \in Context, d = old
      PROVE  Exact(d)' /\ Gone(d)'
  <2>1. old # NULL /\ Live(d)
    BY <1>1, <1>4, <1>9
  <2>2. /\ handles'[d] = handles[d] /\ leaked'[d] = leaked[d]
        /\ handles[d] \in Nat /\ leaked[d] \in Nat /\ ref_count[d] \in Nat
        /\ Cardinality(Users(d)) \in Nat /\ ref_count[d] > 0
        /\ Exact(d) /\ ref_count'[d] = ref_count[d] - 1
    BY <1>1, <1>3, <1>9, <2>1, CountsFinite DEF CountInv, CountTypes, Live
  <2>3. GivenUp(d)
    BY <1>5, <1>9, <2>1
  <2>4. attach => /\ Users(d)' = Users(d) \ {o}
                  /\ Cardinality(Users(d)') = Cardinality(Users(d)) - 1
    <3>1. ctx[o] # c /\ d = ctx[o]
      BY <1>1, <1>9
    <3>2. attach => ctx' = [ctx EXCEPT ![o] = c]
      BY <1>1
    <3> HIDE DEF old, attach
    <3> QED
      BY <1>3, <3>1, <3>2, UsersMoved
  <2>5. CASE ref_count[d] > 1
    <3>1. attach /\ UNCHANGED <<refused, state, num_readers, held, stranded>>
      BY <1>9, <2>3, <2>5 DEF GivenUp, Dropped, accessVars
    <3> QED
      BY <1>7, <2>1, <2>2, <2>4, <2>5, <3>1 DEF Exact, KeptReads, Gone, Live, Locked, Exists
  <2>6. CASE ref_count[d] = 1
    <3>1. Users(d) = {o} /\ leaked[d] = 0 /\ handles[d] = 0 /\ ReadersOf(d) = {}
      BY <1>2, <1>9, <2>1, <2>6, LastUser
    <3>2. ~Live(d)'
      BY <2>2, <2>6 DEF Live
    <3>3. num_readers'[d] = held'[d] + Cardinality(ReadersOf(d)) + KeptReads(d)'
      <4>1. CASE /\ num_readers' = [num_readers EXCEPT ![d] = 0]
                 /\ held' = [held EXCEPT ![d] = 0]
                 /\ stranded' = [stranded EXCEPT ![d] = 0]
        <5>1. Cardinality(ReadersOf(d)) = 0
          BY <3>1, FS_EmptySet
        <5> QED
          BY <1>4, <4>1, <5>1 DEF KeptReads
      <4>2. CASE UNCHANGED <<state, num_readers, held, stranded>>
        BY <2>2, <4>2 DEF Exact, KeptReads, Locked
      <4> QED
        BY <2>3, <4>1, <4>2 DEF GivenUp, accessVars
    <3>4. Locked(d)' => num_readers'[d] = 0
      <4>1. CASE num_readers' = [num_readers EXCEPT ![d] = 0]
        BY <1>4, <4>1
      <4>2. CASE UNCHANGED <<state, num_readers>>
        BY <2>2, <4>2 DEF Exact, KeptReads, Locked
      <4> QED
        BY <2>3, <4>1, <4>2 DEF GivenUp, accessVars
    <3>5. Gone(d)'
      <4>1. CASE Dropped(d)
        <5>1. attach
          BY <1>9, <4>1
        <5>2. Users(d)' = {}
          BY <2>4, <3>1, <5>1
        <5> QED
          BY <2>2, <3>1, <5>2 DEF Gone
      <4>2. CASE ~Dropped(d)
        <5>1. d \in refused'
          BY <1>3, <1>9, <2>1, <2>3, <2>6, <4>2, <1>1 DEF GiveUp
        <5> QED
          BY <5>1 DEF Gone, Exists
      <4> QED
        BY <4>1, <4>2
    <3> QED
      BY <1>7, <3>2, <3>3, <3>4, <3>5 DEF Exact, KeptReads
  <2> QED
    BY <2>2, <2>5, <2>6
<1>10. \A d \in Context : Exact(d)' /\ Gone(d)'
  BY <1>8, <1>9
<1>11. (Composite \in reading => num_sub_labels > 0)'
  BY <1>1 DEF CountInv
<1> QED
  BY <1>6, <1>10, <1>11 DEF CountInv

\* A reader is found again as long as the labels of those that read stay.
LEMMA ReadersOfLabels ==
  ASSUME UNCHANGED <<ctx, reading>>, \A via \in reading : LabelOf(via)' = LabelOf(via), NEW c
  PROVE  ReadersOf(c)' = ReadersOf(c)
<1>1. ASSUME NEW via \in reading
      PROVE  FirstContext(LabelOf(via))' = FirstContext(LabelOf(via))
  <2> DEFINE s == LabelOf(via)
  <2>1. LabelOf(via)' = s /\ ctx' = ctx
    OBVIOUS
  <2> HIDE DEF s
  <2>2. FirstContext(LabelOf(via))' = FirstOf(ctx', s)
    BY <2>1 DEF FirstContext, FirstOf
  <2> QED
    BY <2>1, <2>2, FirstContextValue DEF s
<1>2. reading' = reading
  OBVIOUS
<1> QED
  BY <1>1, <1>2 DEF ReadersOf

\* The composite operator gets a sub-operator: its label stays as it is.
LEMMA CountAddSub ==
  ASSUME CountInv, CeedOperatorCompositeAddSub
  PROVE  CountInv'
<1> DEFINE e == Subs[Len(sub_operators) + 1]
           n == num_sub_labels
<1>1. /\ sub_operators' = Append(sub_operators, e) /\ Len(sub_operators) < Len(Subs)
      /\ UNCHANGED <<ref_count, handles, leaked, num_readers, held, stranded, state, refused, ctx,
                     num_sub_labels, reading>>
  BY DEF CeedOperatorCompositeAddSub, contextVars, lifeVars, accessVars
<1>2. /\ sub_operators \in Seq(Op) /\ num_sub_labels \in 0..Len(sub_operators)
      /\ Len(sub_operators) \in Nat
  BY LenProperties DEF CountInv, CountTypes
<1>3. e \in Op
  <2>1. Subs \in Seq(Op)
    BY OperatorAssumption
  <2>2. Len(Subs) \in Nat /\ Len(sub_operators) + 1 \in 1..Len(Subs)
    BY <1>1, <1>2, <2>1, LenProperties
  <2> QED
    BY <2>1, <2>2, ElementOfSeq
<1>4. /\ sub_operators' \in Seq(Op) /\ Len(sub_operators') = Len(sub_operators) + 1
      /\ \A i \in 1..Len(sub_operators) : sub_operators'[i] = sub_operators[i]
  <2> HIDE DEF e
  <2> QED
    BY <1>1, <1>2, <1>3, AppendProperties
<1>5. SubSeq(sub_operators', 1, n) = SubSeq(sub_operators, 1, n)
  <2>1. n \in Nat /\ 1 \in Int /\ n \in Int
    BY <1>2
  <2>2. \A i \in 1..n : sub_operators[i] \in Op /\ sub_operators'[i] = sub_operators[i]
    BY <1>2, <1>4
  <2> HIDE DEF n
  <2>3. /\ SubSeq(sub_operators, 1, n) \in Seq(Op)
        /\ Len(SubSeq(sub_operators, 1, n)) = IF 1 <= n THEN n - 1 + 1 ELSE 0
        /\ \A i \in 1..(n - 1 + 1) : SubSeq(sub_operators, 1, n)[i] = sub_operators[1 + i - 1]
    BY <2>1, <2>2, SubSeqProperties
  <2>4. /\ SubSeq(sub_operators', 1, n) \in Seq(Op)
        /\ Len(SubSeq(sub_operators', 1, n)) = IF 1 <= n THEN n - 1 + 1 ELSE 0
        /\ \A i \in 1..(n - 1 + 1) : SubSeq(sub_operators', 1, n)[i] = sub_operators'[1 + i - 1]
    BY <2>1, <2>2, SubSeqProperties
  <2>5. /\ Len(SubSeq(sub_operators', 1, n)) = n /\ Len(SubSeq(sub_operators, 1, n)) = n
        /\ \A i \in 1..n : SubSeq(sub_operators', 1, n)[i] = SubSeq(sub_operators, 1, n)[i]
    BY <2>1, <2>2, <2>3, <2>4
  <2> QED
    BY <2>3, <2>4, <2>5, SeqEqual
<1>6. \A via : LabelOf(via)' = LabelOf(via)
  BY <1>1, <1>5 DEF LabelOf
<1>7. CountTypes'
  <2>1. num_sub_labels' \in 0..Len(sub_operators')
    BY <1>1, <1>2, <1>4
  <2> QED
    BY <1>1, <1>4, <2>1 DEF CountInv, CountTypes
<1>8. \A d \in Context : Users(d)' = Users(d) /\ ReadersOf(d)' = ReadersOf(d)
  BY <1>1, <1>6, UsersKept, ReadersOfLabels
<1>9. \A d \in Context : Exact(d)' /\ Gone(d)'
  BY <1>1, <1>8 DEF CountInv, Exact, KeptReads, Gone, Live, Locked, Exists
<1> QED
  BY <1>1, <1>7, <1>9 DEF CountInv

\* The composite operator gets its label: nobody reads through it yet.
LEMMA CountLabel ==
  ASSUME CountInv, CeedOperatorGetContextFieldLabel
  PROVE  CountInv'
<1>1. /\ num_sub_labels = 0 /\ num_sub_labels' = Len(sub_operators)
      /\ DOMAIN sub_operators # {}
      /\ UNCHANGED <<ref_count, handles, leaked, num_readers, held, stranded, state, refused, ctx,
                     sub_operators, reading>>
  BY DEF CeedOperatorGetContextFieldLabel, contextVars, lifeVars, accessVars
<1>2. /\ sub_operators \in Seq(Op) /\ Len(sub_operators) \in Nat
      /\ DOMAIN sub_operators = 1..Len(sub_operators)
  BY LenProperties DEF CountInv, CountTypes
<1>3. Composite \notin reading
  BY <1>1 DEF CountInv
<1>4. \A via \in reading : LabelOf(via)' = LabelOf(via)
  BY <1>1, <1>3 DEF LabelOf
<1>5. CountTypes' /\ num_sub_labels' > 0
  <2>1. num_sub_labels' \in 0..Len(sub_operators') /\ num_sub_labels' > 0
    BY <1>1, <1>2
  <2> QED
    BY <1>1, <2>1 DEF CountInv, CountTypes
<1>6. \A d \in Context : Users(d)' = Users(d) /\ ReadersOf(d)' = ReadersOf(d)
  BY <1>1, <1>4, UsersKept, ReadersOfLabels
<1>7. \A d \in Context : Exact(d)' /\ Gone(d)'
  BY <1>1, <1>6 DEF CountInv, Exact, KeptReads, Gone, Live, Locked, Exists
<1> QED
  BY <1>5, <1>7 DEF CountInv

\* Where a call with a label leads to is where its reader is counted.
LEMMA TargetOfLabel ==
  ASSUME CountTypes, NEW via, Target(via) # NULL
  PROVE  /\ Target(via) = FirstContext(LabelOf(via))
         /\ Target(via) \in Context
         /\ via = Composite => num_sub_labels > 0
<1>1. CASE Covered(via) = <<>>
  <2>1. DOMAIN Covered(via) = {}
    BY <1>1
  <2>2. {i \in DOMAIN Covered(via) : ctx[Covered(via)[i]] # NULL} = {}
    BY <2>1
  <2>3. Target(via) = NULL
    BY <2>2 DEF Target, FirstContext
  <2> QED
    BY <2>3
<1>2. CASE Covered(via) # <<>>
  <2>1. Covered(via) = LabelOf(via) /\ LabelOf(via) # <<>>
    BY <1>2 DEF Covered
  <2>2. Target(via) = FirstContext(LabelOf(via))
    BY <2>1 DEF Target
  <2>3. LabelOf(via) \in Seq(Op) /\ \A i \in DOMAIN LabelOf(via) : LabelOf(via)[i] \in Op
    BY LabelType
  <2>4. PICK i \in DOMAIN LabelOf(via) : ctx[LabelOf(via)[i]] = Target(via)
    BY <2>2, <2>3, FirstOfMember, FirstContextValue
  <2>5. ctx \in [Op -> Context \cup {NULL}]
    BY DEF CountTypes
  <2>6. Target(via) \in Context
    BY <2>3, <2>4, <2>5
  <2>7. via = Composite => num_sub_labels > 0
    <3>1. CASE via = Composite /\ num_sub_labels = 0
      <4>1. SubSeq(sub_operators, 1, 0) = <<>>
        BY SubSeqEmpty
      <4> QED
        BY <2>1, <3>1, <4>1 DEF LabelOf
    <3> QED
      BY <3>1 DEF CountTypes
  <2> QED
    BY <2>2, <2>6, <2>7
<1> QED
  BY <1>1, <1>2

\* A read access through an operator begins.
LEMMA CountOpRead ==
  ASSUME CountInv, NEW via \in Labelled \cup {Composite}, CeedOperatorGetContextFieldRead(via)
  PROVE  CountInv'
<1> DEFINE t == Target(via)
<1>1. /\ via \notin reading /\ reading' = reading \cup {via}
      /\ t # NULL /\ ~Locked(t)
      /\ num_readers' = [num_readers EXCEPT ![t] = @ + 1]
      /\ UNCHANGED <<ref_count, handles, leaked, held, stranded, state, refused, ctx, sub_operators,
                     num_sub_labels>>
  BY DEF CeedOperatorGetContextFieldRead, Readable, lifeVars, buildVars
<1>2. CountTypes
  BY DEF CountInv
<1>3. t = FirstContext(LabelOf(via)) /\ t \in Context /\ (via = Composite => num_sub_labels > 0)
  BY <1>1, <1>2, TargetOfLabel
<1> HIDE DEF t
<1>4. \A x : FirstContext(LabelOf(x))' = FirstContext(LabelOf(x))
  BY <1>1 DEF FirstContext, LabelOf
<1>5. num_readers \in [Context -> Nat] /\ held \in [Context -> Nat]
  BY <1>2 DEF CountTypes
<1>6. CountTypes'
  BY <1>1, <1>2, <1>3, <1>5 DEF CountTypes
<1>7. ASSUME NEW d \in Context
      PROVE  Exact(d)' /\ Gone(d)'
  <2>1. Users(d)' = Users(d)
    BY <1>1, UsersKept
  <2>2. Exact(d) /\ Gone(d)
    BY DEF CountInv
  <2>3. CASE d = t
    <3>1. ReadersOf(d)' = ReadersOf(d) \cup {via} /\ via \notin ReadersOf(d)
      BY <1>1, <1>3, <1>4, <2>3 DEF ReadersOf
    <3>2. /\ Cardinality(ReadersOf(d)') = Cardinality(ReadersOf(d)) + 1
          /\ Cardinality(ReadersOf(d)) \in Nat /\ KeptReads(d) \in Nat
      BY <1>2, <3>1, CountsFinite, FS_AddElement
    <3>3. num_readers'[d] = num_readers[d] + 1 /\ held'[d] = held[d] /\ held[d] \in Nat
      BY <1>1, <1>5, <2>3
    <3> QED
      BY <1>1, <2>1, <2>2, <2>3, <3>2, <3>3 DEF Exact, KeptReads, Gone, Live, Locked, Exists
  <2>4. CASE d # t
    <3>1. ReadersOf(d)' = ReadersOf(d)
      BY <1>1, <1>3, <1>4, <2>4 DEF ReadersOf
    <3>2. num_readers'[d] = num_readers[d]
      BY <1>1, <1>5, <2>4
    <3> QED
      BY <1>1, <2>1, <2>2, <3>1, <3>2 DEF Exact, KeptReads, Gone, Live, Locked, Exists
  <2> QED
    BY <2>3, <2>4
<1>8. (Composite \in reading => num_sub_labels > 0)'
  BY <1>1, <1>3 DEF CountInv
<1> QED
  BY <1>6, <1>7, <1>8 DEF CountInv

\* One ends.
LEMMA CountOpRestore ==
  ASSUME CountInv, NEW via \in Labelled \cup {Composite}, CeedOperatorRestoreContextFieldRead(via)
  PROVE  CountInv'
<1> DEFINE t == Target(via)
<1>1. /\ via \in reading /\ reading' = reading \ {via}
      /\ t # NULL /\ num_readers[t] > 0
      /\ num_readers' = [num_readers EXCEPT ![t] = @ - 1]
      /\ UNCHANGED <<ref_count, handles, leaked, held, stranded, state, refused, ctx, sub_operators,
                     num_sub_labels>>
  BY DEF CeedOperatorRestoreContextFieldRead, lifeVars, buildVars
<1>2. CountTypes
  BY DEF CountInv
<1>3. t = FirstContext(LabelOf(via)) /\ t \in Context
  BY <1>1, <1>2, TargetOfLabel
<1> HIDE DEF t
<1>4. \A x : FirstContext(LabelOf(x))' = FirstContext(LabelOf(x))
  BY <1>1 DEF FirstContext, LabelOf
<1>5. num_readers \in [Context -> Nat] /\ held \in [Context -> Nat]
  BY <1>2 DEF CountTypes
<1>6. CountTypes'
  <2>1. num_readers' \in [Context -> Nat]
    BY <1>1, <1>3, <1>5
  <2> QED
    BY <1>1, <1>2, <2>1 DEF CountTypes
<1>7. ASSUME NEW d \in Context
      PROVE  Exact(d)' /\ Gone(d)'
  <2>1. Users(d)' = Users(d)
    BY <1>1, UsersKept
  <2>2. Exact(d) /\ Gone(d)
    BY DEF CountInv
  <2>3. CASE d = t
    <3>1. ReadersOf(d)' = ReadersOf(d) \ {via} /\ via \in ReadersOf(d)
      BY <1>1, <1>3, <1>4, <2>3 DEF ReadersOf
    <3>2. /\ Cardinality(ReadersOf(d)') = Cardinality(ReadersOf(d)) - 1
          /\ Cardinality(ReadersOf(d)) \in Nat /\ KeptReads(d) \in Nat
      BY <1>2, <3>1, CountsFinite, FS_RemoveElement
    <3>3. /\ num_readers'[d] = num_readers[d] - 1 /\ held'[d] = held[d] /\ held[d] \in Nat
          /\ num_readers[d] > 0
      BY <1>1, <1>5, <2>3
    <3> QED
      BY <1>1, <2>1, <2>2, <2>3, <3>2, <3>3 DEF Exact, KeptReads, Gone, Live, Locked, Exists
  <2>4. CASE d # t
    <3>1. ReadersOf(d)' = ReadersOf(d)
      BY <1>1, <1>3, <1>4, <2>4 DEF ReadersOf
    <3>2. num_readers'[d] = num_readers[d]
      BY <1>1, <1>5, <2>4
    <3> QED
      BY <1>1, <2>1, <2>2, <3>1, <3>2 DEF Exact, KeptReads, Gone, Live, Locked, Exists
  <2> QED
    BY <2>3, <2>4
<1>8. (Composite \in reading => num_sub_labels > 0)'
  BY <1>1 DEF CountInv
<1> QED
  BY <1>6, <1>7, <1>8 DEF CountInv

\* The last reference is given up, by the application or by a QFunction, and the user's
\* function fails: the context stays behind, without references.
LEMMA CountGiveUpFails ==
  ASSUME CountInv, NEW c \in Context, Live(c), GiveUpFails(c),
         ref_count' = [ref_count EXCEPT ![c] = @ - 1],
         \/ UNCHANGED handles
         \/ handles[c] > 0 /\ handles' = [handles EXCEPT ![c] = @ - 1],
         UNCHANGED <<leaked, ctx, sub_operators, num_sub_labels, reading>>
  PROVE  CountInv'
<1>1. /\ ref_count[c] = 1 /\ refused' = refused \cup {c}
      /\ ~Locked(c) /\ num_readers[c] = 0
      /\ state' = [state EXCEPT ![c] = 1] /\ stranded' = [stranded EXCEPT ![c] = @ + 1]
      /\ UNCHANGED <<num_readers, held>>
  BY DEF GiveUpFails, DestroyDataFails, Writable
<1>2. /\ ref_count \in [Context -> Nat] /\ handles \in [Context -> Nat]
      /\ state \in [Context -> {0, 1}] /\ stranded \in [Context -> Nat]
      /\ num_readers \in [Context -> Nat] /\ held \in [Context -> Nat]
      /\ refused \subseteq Context
  BY DEF CountInv, CountTypes
<1>3. CountTypes'
  <2>1. ref_count' \in [Context -> Nat] /\ handles' \in [Context -> Nat]
    BY <1>1, <1>2
  <2>2. state' \in [Context -> {0, 1}] /\ stranded' \in [Context -> Nat] /\ refused' \subseteq Context
    BY <1>1, <1>2
  <2> QED
    BY <1>1, <2>1, <2>2 DEF CountInv, CountTypes
<1>4. ASSUME NEW d \in Context
      PROVE  Exact(d)' /\ Gone(d)'
  <2>1. Users(d)' = Users(d) /\ ReadersOf(d)' = ReadersOf(d)
    BY UsersKept, ReadersKept
  <2>2. Exact(d) /\ Gone(d) /\ Cardinality(ReadersOf(d)) \in Nat /\ KeptReads(d) \in Nat
    BY CountsFinite DEF CountInv
  <2>3. CASE d # c
    <3>1. /\ ref_count'[d] = ref_count[d] /\ handles'[d] = handles[d]
          /\ state'[d] = state[d] /\ stranded'[d] = stranded[d]
          /\ d \in refused' <=> d \in refused
      BY <1>1, <1>2, <2>3
    <3> QED
      BY <1>1, <2>1, <2>2, <3>1 DEF Exact, KeptReads, Gone, Live, Locked, Exists
  <2>4. CASE d = c
    <3>1. ref_count'[c] = 0 /\ c \in refused' /\ KeptReads(c)' = 0
      BY <1>1, <1>2 DEF KeptReads, Locked
    <3>2. held[c] = 0 /\ Cardinality(ReadersOf(c)) = 0
      BY <1>1, <1>2, <2>2, <2>4 DEF Exact
    <3> QED
      BY <1>1, <2>1, <2>4, <3>1, <3>2 DEF Exact, Gone, Live, Exists
  <2> QED
    BY <2>3, <2>4
<1> QED
  BY <1>3, <1>4 DEF CountInv

\* A call on a context.
LEMMA CountContextCall ==
  ASSUME CountInv, NEW c \in Context, CallContext(c)
  PROVE  CountInv'
<1>1. UNCHANGED <<leaked, ctx, sub_operators, num_sub_labels, reading>>
  BY DEF CallContext, buildVars
<1>2. CASE CeedQFunctionContextGetData(c)
  <2>1. /\ state' = [state EXCEPT ![c] = 1] /\ num_readers[c] = 0
        /\ UNCHANGED <<ref_count, handles, num_readers, held, stranded, refused>>
    BY <1>2 DEF CeedQFunctionContextGetData, Writable, lifeVars
  <2> QED
    BY <1>1, <2>1, CountLock
<1>3. CASE CeedQFunctionContextRestoreData(c)
  <2>1. /\ state' = [state EXCEPT ![c] = 0] /\ Locked(c) /\ stranded[c] = 0
        /\ UNCHANGED <<ref_count, handles, num_readers, held, stranded, refused>>
    <3>1. stranded[c] \in Nat
      BY DEF CountInv, CountTypes
    <3> QED
      BY <1>3, <3>1 DEF CeedQFunctionContextRestoreData, Stuck, lifeVars
  <2> QED
    BY <1>1, <2>1, CountLock
<1>4. CASE CeedQFunctionContextGetDataRead(c)
  <2>1. /\ ~Locked(c)
        /\ num_readers' = [num_readers EXCEPT ![c] = @ + 1]
        /\ held' = [held EXCEPT ![c] = @ + 1]
        /\ UNCHANGED <<ref_count, handles, stranded, state, refused>>
    BY <1>4 DEF CeedQFunctionContextGetDataRead, Readable, lifeVars
  <2> QED
    BY <1>1, <2>1, CountHeld
<1>5. CASE CeedQFunctionContextRestoreDataRead(c)
  <2>1. /\ held[c] > 0
        /\ num_readers' = [num_readers EXCEPT ![c] = @ - 1]
        /\ held' = [held EXCEPT ![c] = @ - 1]
        /\ UNCHANGED <<ref_count, handles, stranded, state, refused>>
    BY <1>5 DEF CeedQFunctionContextRestoreDataRead, lifeVars
  <2> QED
    BY <1>1, <2>1, CountHeld
<1>6. CASE CeedQFunctionContextCreate(c)
  BY <1>1, <1>6, CountCreate
<1>7. CASE CeedQFunctionContextDestroy(c)
  BY <1>1, <1>7, CountDestroy
<1>8. ASSUME UNCHANGED <<lifeVars, accessVars>>
      PROVE  CountInv'
  BY <1>1, <1>8, CountSame DEF lifeVars, accessVars
<1>9. CASE CeedQFunctionContextSetDataDestroy(c)
  BY <1>8, <1>9 DEF CeedQFunctionContextSetDataDestroy
<1>10. CASE CeedQFunctionContextTakeData(c)
  BY <1>8, <1>10 DEF CeedQFunctionContextTakeData
<1>11. CASE SetDataMisplaced(c)
  BY <1>8, <1>11 DEF SetDataMisplaced
<1>12. ASSUME NEW v \in Value, StoreData(c, v)
       PROVE  CountInv'
  BY <1>8, <1>12 DEF StoreData
<1>13. ASSUME NEW v \in Value, CeedQFunctionContextSetField(c, v)
       PROVE  CountInv'
  BY <1>8, <1>13 DEF CeedQFunctionContextSetField
<1>14. ASSUME NEW v, NEW m, CeedQFunctionContextSetData(c, m, v)
       PROVE  CountInv'
  BY <1>8, <1>14 DEF CeedQFunctionContextSetData
<1>15. CASE SetDataFails(c)
  <2>1. /\ state' = [state EXCEPT ![c] = 1] /\ num_readers[c] = 0
        /\ stranded' = [stranded EXCEPT ![c] = @ + 1]
        /\ UNCHANGED <<ref_count, handles, num_readers, held, refused>>
    BY <1>15 DEF SetDataFails, DestroyDataFails, Writable, lifeVars
  <2> QED
    BY <1>1, <2>1, CountLock
<1>16. CASE DestroyFails(c)
  <2>1. /\ Live(c) /\ handles[c] > 0 /\ GiveUpFails(c)
        /\ ref_count' = [ref_count EXCEPT ![c] = @ - 1]
        /\ handles' = [handles EXCEPT ![c] = @ - 1]
    BY <1>16 DEF DestroyFails, Reachable
  <2> QED
    BY <1>1, <2>1, CountGiveUpFails
<1> QED
  BY <1>2, <1>3, <1>4, <1>5, <1>6, <1>7, <1>9, <1>10, <1>11, <1>12, <1>13, <1>14, <1>15, <1>16
     DEF CallContext, ContextCall, ContextCallFails

\* A call leaves a reference in the context that refused it.
LEMMA CountRefused ==
  ASSUME CountInv, NEW c \in Context, Live(c), LeakReference(c),
         UNCHANGED <<accessVars, ctx, sub_operators, num_sub_labels, reading>>
  PROVE  CountInv'
<1>1. /\ leaked' = [leaked EXCEPT ![c] = @ + 1]
      /\ ref_count' = [ref_count EXCEPT ![c] = @ + 1]
      /\ UNCHANGED <<handles, refused>>
  BY DEF LeakReference
<1> QED
  BY <1>1, CountLeak DEF accessVars

\* A QFunction fails: it keeps what it has got.
LEMMA CountFails ==
  ASSUME CountInv, NEW o \in Op, QFunctionFails(o), UNCHANGED <<reading, leaked>>
  PROVE  CountInv'
<1>1. /\ UNCHANGED <<ref_count, handles, leaked, held, refused, ctx, sub_operators, num_sub_labels, reading>>
      /\ RunQFunction(o)
  BY DEF QFunctionFails, lifeVars
<1>2. CASE ctx[o] = NULL
  BY <1>1, <1>2, CountSame DEF QFunctionFails
<1>3. CASE ctx[o] # NULL /\ o \in Writing
  <2> DEFINE c == ctx[o]
  <2>1. /\ state' = [state EXCEPT ![c] = 1] /\ num_readers[c] = 0 /\ UNCHANGED num_readers
        /\ stranded' = [stranded EXCEPT ![c] = @ + 1]
    BY <1>3 DEF QFunctionFails, RunQFunction, Runs, Writable
  <2>2. c \in Context
    BY <1>3 DEF CountInv, CountTypes
  <2> HIDE DEF c
  <2> QED
    BY <1>1, <2>1, <2>2, CountLock
<1>4. CASE ctx[o] # NULL /\ o \notin Writing
  <2> DEFINE c == ctx[o]
  <2>1. /\ num_readers' = [num_readers EXCEPT ![c] = @ + 1] /\ ~Locked(c) /\ UNCHANGED state
        /\ stranded' = [stranded EXCEPT ![c] = @ + 1]
    BY <1>4 DEF QFunctionFails, RunQFunction, Runs, Readable
  <2>2. c \in Context
    BY <1>4 DEF CountInv, CountTypes
  <2> HIDE DEF c
  <2>3. /\ num_readers \in [Context -> Nat] /\ held \in [Context -> Nat]
        /\ stranded \in [Context -> Nat]
    BY DEF CountInv, CountTypes
  <2>4. CountTypes'
    <3>1. num_readers' \in [Context -> Nat] /\ stranded' \in [Context -> Nat]
      BY <2>1, <2>2, <2>3
    <3> QED
      BY <1>1, <2>1, <3>1 DEF CountInv, CountTypes
  <2>5. ASSUME NEW d \in Context
        PROVE  Exact(d)' /\ Gone(d)'
    <3>1. Users(d)' = Users(d) /\ ReadersOf(d)' = ReadersOf(d)
      BY <1>1, UsersKept, ReadersKept
    <3>2. Exact(d) /\ Gone(d) /\ Cardinality(ReadersOf(d)) \in Nat
      BY CountsFinite DEF CountInv
    <3>3. CASE d = c
      <4>1. /\ num_readers'[c] = num_readers[c] + 1 /\ stranded'[c] = stranded[c] + 1
            /\ held[c] \in Nat /\ stranded[c] \in Nat
        BY <2>1, <2>2, <2>3
      <4> QED
        BY <1>1, <2>1, <3>1, <3>2, <3>3, <4>1 DEF Exact, KeptReads, Gone, Live, Locked, Exists
    <3>4. CASE d # c
      <4>1. num_readers'[d] = num_readers[d] /\ stranded'[d] = stranded[d]
        BY <2>1, <2>3, <3>4
      <4> QED
        BY <1>1, <2>1, <3>1, <3>2, <4>1 DEF Exact, KeptReads, Gone, Live, Locked, Exists
    <3> QED
      BY <3>3, <3>4
  <2> QED
    BY <1>1, <2>4, <2>5 DEF CountInv
<1> QED
  BY <1>2, <1>3, <1>4

\* The counts are exact to begin with.
LEMMA CountInit ==
  ASSUME Init
  PROVE  CountInv
<1>1. /\ ctx \in [Op -> Context \cup {NULL}]
      /\ sub_operators = <<>> /\ num_sub_labels = 0 /\ reading = {}
      /\ leaked = [c \in Context |-> 0]
  BY OperatorAssumption DEF Init
<1>2. ContextInit([c \in Context |-> Cardinality(Users(c))])
  BY DEF Init
<1>3. /\ handles = [c \in Context |-> IF c \in Kept THEN 1 ELSE 0]
      /\ ref_count = [c \in Context |-> handles[c] + Cardinality(Users(c))]
      /\ state = [c \in Context |-> 0] /\ num_readers = [c \in Context |-> 0]
      /\ held = [c \in Context |-> 0] /\ stranded = [c \in Context |-> 0] /\ refused = {}
  BY <1>2 DEF ContextInit
<1>4. \A c \in Context : IsFiniteSet(Users(c)) /\ Cardinality(Users(c)) \in Nat
  <2>1. \A c \in Context : Users(c) \subseteq Op
    BY DEF Users
  <2>2. IsFiniteSet(Op)
    BY OperatorAssumption
  <2> QED
    BY <2>1, <2>2, FS_Subset, FS_CardinalityType
<1>5. sub_operators \in Seq(Op) /\ num_sub_labels \in 0..Len(sub_operators)
  BY <1>1, EmptySeq
<1>6. CountTypes
  BY <1>1, <1>3, <1>4, <1>5 DEF CountTypes
<1>7. ASSUME NEW c \in Context
      PROVE  Exact(c) /\ Gone(c)
  <2>1. ReadersOf(c) = {} /\ Cardinality({}) = 0
    BY <1>1, FS_EmptySet DEF ReadersOf
  <2>2. Users(c) # {} => Cardinality(Users(c)) # 0
    BY <1>4, FS_EmptySet
  <2> QED
    BY <1>1, <1>3, <1>4, <2>1, <2>2 DEF Exact, KeptReads, Gone, Live, Locked, Exists
<1> QED
  BY <1>1, <1>6, <1>7 DEF CountInv

\* Every step keeps them exact.
LEMMA CountNext ==
  ASSUME CountInv, [Next]_vars
  PROVE  CountInv'
<1>1. CountTypes
  BY DEF CountInv
<1>2. ASSUME UNCHANGED <<lifeVars, accessVars, buildVars, reading, leaked>>
      PROVE  CountInv'
  BY <1>2, CountSame DEF lifeVars, accessVars, buildVars
<1>3. \A o \in Op : ctx[o] # NULL => ctx[o] \in Context
  BY <1>1 DEF CountTypes
<1>4. ASSUME NEW c \in Context, CallContext(c)
      PROVE  CountInv'
  BY <1>4, CountContextCall
<1>5. ASSUME NEW o \in Op, NEW c \in Kept \cup {NULL}, CeedQFunctionSetContext(o, c)
      PROVE  CountInv'
  <2>1. c \in Context \cup {NULL}
    BY ContextAssumption
  <2> QED
    BY <1>5, <2>1, CountSetContext
<1>6. ASSUME NEW o \in Op, CeedOperatorApply(o)
      PROVE  CountInv'
  BY <1>2, <1>6 DEF CeedOperatorApply
<1>7. ASSUME NEW o \in Op, ApplyRefused(o)
      PROVE  CountInv'
  <2>1. ctx[o] \in Context /\ Live(ctx[o])
    BY <1>3, <1>7 DEF ApplyRefused, Usable, Runs
  <2> QED
    BY <1>7, <2>1, CountRefused DEF ApplyRefused
<1>8. CASE CeedOperatorCompositeAddSub
  BY <1>8, CountAddSub
<1>9. CASE CeedOperatorGetContextFieldLabel
  BY <1>9, CountLabel
<1>10. ASSUME NEW via \in Labelled \cup {Composite}, CeedOperatorGetContextFieldRead(via)
       PROVE  CountInv'
  BY <1>10, CountOpRead
<1>11. ASSUME NEW via \in Labelled \cup {Composite}, GetContextFieldReadRefused(via)
       PROVE  CountInv'
  <2>1. Target(via) \in Context /\ Live(Target(via))
    BY <1>1, <1>11, TargetOfLabel DEF GetContextFieldReadRefused
  <2> QED
    BY <1>11, <2>1, CountRefused DEF GetContextFieldReadRefused, buildVars
<1>12. ASSUME NEW via \in Labelled \cup {Composite}, CeedOperatorRestoreContextFieldRead(via)
       PROVE  CountInv'
  BY <1>12, CountOpRestore
<1>13. ASSUME NEW via, NEW v, CeedOperatorSetContextField(via, v)
       PROVE  CountInv'
  BY <1>2, <1>13 DEF CeedOperatorSetContextField
<1>14. ASSUME NEW via, NEW v, SetContextFieldRefused(via, v)
       PROVE  CountInv'
  <2>1. PICK n \in 1..Len(Covered(via)) :
          ~Takes(Covered(via)[n], v) /\ LeakReference(ctx[Covered(via)[n]])
    BY <1>14 DEF SetContextFieldRefused
  <2> DEFINE o == Covered(via)[n]
  <2>2. n \in DOMAIN Covered(via) /\ o \in Op
    <3>1. Covered(via) = LabelOf(via)
      <4>1. Covered(via) # <<>>
        BY <2>1, EmptySeq
      <4> QED
        BY <4>1 DEF Covered
    <3>2. LabelOf(via) \in Seq(Op) /\ \A i \in DOMAIN LabelOf(via) : LabelOf(via)[i] \in Op
      BY <1>1, LabelType
    <3>3. DOMAIN LabelOf(via) = 1..Len(LabelOf(via))
      BY <3>2, LenProperties
    <3> QED
      BY <2>1, <3>1, <3>2, <3>3
  <2>3. Usable(o)
    BY <1>14, <2>2 DEF SetContextFieldRefused, CoveredOps
  <2>4. ctx[o] \in Context /\ Live(ctx[o])
    BY <1>3, <2>1, <2>2, <2>3 DEF Usable, Takes
  <2> QED
    BY <1>14, <2>1, <2>4, CountRefused DEF SetContextFieldRefused, buildVars
<1>15. ASSUME NEW o, CeedOperatorLinearAssembleQFunctionBuildOrUpdate(o)
       PROVE  CountInv'
  BY <1>2, <1>15 DEF CeedOperatorLinearAssembleQFunctionBuildOrUpdate
<1>16. ASSUME NEW o \in Assembler, AssembleRefused(o)
       PROVE  CountInv'
  <2>1. o \in Op
    BY OperatorAssumption
  <2>2. ctx[o] \in Context /\ Live(ctx[o])
    BY <1>3, <1>16, <2>1 DEF AssembleRefused, Usable, Runs
  <2> QED
    BY <1>16, <2>2, CountRefused DEF AssembleRefused, buildVars
<1>17. ASSUME NEW via, CeedOperatorAssemblyDataStrip(via)
       PROVE  CountInv'
  BY <1>2, <1>17 DEF CeedOperatorAssemblyDataStrip, contextVars
<1>18. ASSUME NEW via, NEW b, CeedOperatorSetQFunctionAssemblyReuse(via, b)
       PROVE  CountInv'
  BY <1>2, <1>18 DEF CeedOperatorSetQFunctionAssemblyReuse, contextVars
<1>19. ASSUME NEW via, NEW b, CeedOperatorSetQFunctionAssemblyDataUpdateNeeded(via, b)
       PROVE  CountInv'
  BY <1>2, <1>19 DEF CeedOperatorSetQFunctionAssemblyDataUpdateNeeded, contextVars
<1>20. ASSUME NEW o \in Op, NEW c, SetContextFails(o, c)
       PROVE  CountInv'
  <2>1. /\ ctx[o] \in Context /\ Live(ctx[o]) /\ GiveUpFails(ctx[o])
        /\ ref_count' = [ref_count EXCEPT ![ctx[o]] = @ - 1]
        /\ UNCHANGED <<handles, leaked, ctx, sub_operators, num_sub_labels, reading>>
    BY <1>3, <1>20 DEF SetContextFails, Usable, buildVars
  <2> QED
    BY <2>1, CountGiveUpFails
<1>21. ASSUME NEW o \in Op, ApplyFails(o)
       PROVE  CountInv'
  BY <1>21, CountFails DEF ApplyFails
<1>22. ASSUME NEW o \in Assembler, AssembleFails(o)
       PROVE  CountInv'
  <2>1. o \in Op
    BY OperatorAssumption
  <2> QED
    BY <1>22, <2>1, CountFails DEF AssembleFails
<1>23. CASE UNCHANGED vars
  BY <1>2, <1>23 DEF vars, contextVars, operatorVars
<1>24. CASE Next
  BY <1>4, <1>5, <1>6, <1>7, <1>8, <1>9, <1>10, <1>11, <1>12, <1>13, <1>14, <1>15, <1>16,
     <1>17, <1>18, <1>19, <1>20, <1>21, <1>22, <1>24 DEF Next
<1> QED
  BY <1>23, <1>24

\* The reference and reader counts of every context are exact, whatever is called, refused,
\* replaced or read through operators in between; the readers that failing QFunctions leave behind
\* are among them (CeedQFunctionSetContext, CeedOperatorContextGetGenericRead,
\* CeedQFunctionContextDestroy, CeedQFunctionApply_Ref).
THEOREM CountsExactCorrect == Spec => []CountsExact
<1>1. Init => CountInv
  BY CountInit
<1>2. CountInv /\ [Next]_vars => CountInv'
  BY CountNext
<1>3. CountInv => CountsExact
  BY DEF CountInv, Exact, KeptReads, CountsExact, ReadersOf
<1> QED
  BY <1>1, <1>2, <1>3, PTL DEF Spec

(***************************************************************************)
(* Data. Every block that is not free has contents, and what is known of   *)
(* one context says nothing of the blocks of another.                      *)
(***************************************************************************)
DataTypes ==
  /\ data \in [Context -> Block \cup {NULL}]
  /\ data_owned \in [Context -> Block \cup {NULL}]
  /\ data_borrowed \in [Context -> Block \cup {NULL}]
  /\ owner \in [Block -> {"free", "library", "caller"}]
  /\ data_destroy \in [Context -> BOOLEAN]
  /\ mem \in [Block -> Value \cup {NULL}]
  /\ spent \subseteq Block /\ misplaced \subseteq Context

Filled == \A b \in Block : mem[b] = NULL <=> owner[b] = "free"

\* The parts of DataAccounted.
Accounted(c) ==
  /\ data[c] = IF data_owned[c] # NULL THEN data_owned[c] ELSE data_borrowed[c]
  /\ data_owned[c] = NULL \/ data_borrowed[c] = NULL
  /\ data[c] # NULL => Exists(c)
  /\ data_owned[c] # NULL => owner[data_owned[c]] = "library"
  /\ data_borrowed[c] # NULL => owner[data_borrowed[c]] = "caller"
  /\ data[c] \in spent => c \in misplaced \/ Stuck(c)

Apart == \A c, d \in Context : data[c] = data[d] /\ data[c] # NULL => c = d

NoneLost == \A b \in Block : owner[b] = "library" => \E c \in Context : data_owned[c] = b

DataParts == DataTypes /\ Filled /\ (\A c \in Context : Accounted(c)) /\ Apart /\ NoneLost

DataInv == CountInv /\ DataParts

\* A context that exists goes on to, and an access that nobody has stays with nobody.
Stays(c) == (Exists(c) => Exists(c)') /\ (Stuck(c) => Stuck(c)')

\* DataAccounted in parts.
LEMMA PartsOfData == DataAccounted <=> (\A c \in Context : Accounted(c)) /\ Apart /\ NoneLost
BY DEF DataAccounted, Accounted, Apart, NoneLost

\* NULL is not a context, a block or a value.
LEMMA NullApart == NULL \notin Block /\ NULL \notin Context /\ NULL \notin Value
BY ContextAssumption

\* Contexts stay when no reference is dropped and no access given back.
LEMMA AllStay ==
  ASSUME \A c \in Context : Exists(c) => Exists(c)', UNCHANGED accessVars
  PROVE  \A c \in Context : Stays(c)
BY DEF Stays, Stuck, Locked, accessVars

\* Only contents change, if anything does.
LEMMA DataStored ==
  ASSUME DataParts, mem' \in [Block -> Value \cup {NULL}],
         \A b \in Block : mem'[b] = NULL <=> mem[b] = NULL,
         \A c \in Context : Stays(c),
         data_destroy' \in [Context -> BOOLEAN],
         UNCHANGED <<pointerVars, spent, misplaced>>
  PROVE  DataParts'
<1>1. UNCHANGED <<data, data_owned, data_borrowed, owner, spent, misplaced>>
  BY DEF pointerVars
<1>2. DataTypes' /\ Filled'
  BY <1>1 DEF DataParts, DataTypes, Filled
<1>3. \A c \in Context : Accounted(c)'
  BY <1>1 DEF DataParts, Accounted, Stays
<1>4. Apart' /\ NoneLost'
  BY <1>1 DEF DataParts, Apart, NoneLost
<1> QED
  BY <1>2, <1>3, <1>4 DEF DataParts

\* Nothing about the data changes.
LEMMA DataSame ==
  ASSUME DataParts, \A c \in Context : Stays(c),
         UNCHANGED <<pointerVars, destroyVars, mem>>
  PROVE  DataParts'
<1>1. mem' \in [Block -> Value \cup {NULL}] /\ data_destroy' \in [Context -> BOOLEAN]
  BY DEF DataParts, DataTypes, destroyVars
<1> QED
  BY <1>1, DataStored DEF destroyVars

\* What a context has is not what another one has.
LEMMA BlocksApart ==
  ASSUME DataParts, NEW c \in Context, NEW d \in Context, d # c
  PROVE  /\ data_owned[d] # NULL => data_owned[d] \notin {data_owned[c], data_borrowed[c], data[c]}
         /\ data_borrowed[d] # NULL => data_borrowed[d] \notin {data_owned[c], data_borrowed[c], data[c]}
         /\ data[d] # NULL => data[d] # data[c]
<1>1. data[d] # NULL => data[d] # data[c]
  BY DEF DataParts, Apart
<1>2. /\ data[c] = IF data_owned[c] # NULL THEN data_owned[c] ELSE data_borrowed[c]
      /\ data_owned[c] = NULL \/ data_borrowed[c] = NULL
      /\ data[d] = IF data_owned[d] # NULL THEN data_owned[d] ELSE data_borrowed[d]
      /\ data_owned[d] = NULL \/ data_borrowed[d] = NULL
  BY DEF DataParts, Accounted
<1> QED
  BY <1>1, <1>2

\* What is freed, and nothing else, is empty.
LEMMA Emptied ==
  ASSUME NEW f \in [Block -> Value \cup {NULL}], mem' = Contents(f),
         \A x \in Block : f[x] = NULL => owner'[x] = "free"
  PROVE  mem' \in [Block -> Value \cup {NULL}] /\ Filled'
<1>1. mem' = [x \in Block |-> IF owner'[x] = "free" THEN NULL ELSE f[x]]
  BY DEF Contents
<1>2. \A x \in Block : mem'[x] = NULL <=> owner'[x] = "free"
  BY <1>1
<1> QED
  BY <1>1, <1>2 DEF Filled

\* A context goes.
LEMMA DataFreed ==
  ASSUME DataParts, NEW c \in Context, FreeContext(c), DestroysData(c),
         \A d \in Context \ {c} : Stays(d)
  PROVE  DataParts'
<1>1. /\ data_destroy' = [data_destroy EXCEPT ![c] = FALSE]
      /\ data' = [data EXCEPT ![c] = NULL]
      /\ data_owned' = [data_owned EXCEPT ![c] = NULL]
      /\ data_borrowed' = [data_borrowed EXCEPT ![c] = NULL]
      /\ owner' = [x \in Block |->
           IF x \in {data_owned[c], data_borrowed[c]} THEN "free" ELSE owner[x]]
      /\ spent' = {x \in spent \cup Destroyed(c) : owner'[x] # "free"}
      /\ mem' = Contents(mem)
      /\ misplaced' = misplaced \ {c}
  BY DEF FreeContext
<1>2. /\ data \in [Context -> Block \cup {NULL}]
      /\ data_owned \in [Context -> Block \cup {NULL}]
      /\ data_borrowed \in [Context -> Block \cup {NULL}]
      /\ owner \in [Block -> {"free", "library", "caller"}]
      /\ data_destroy \in [Context -> BOOLEAN]
      /\ mem \in [Block -> Value \cup {NULL}]
      /\ spent \subseteq Block /\ misplaced \subseteq Context
  BY DEF DataParts, DataTypes
<1>3. /\ data' \in [Context -> Block \cup {NULL}]
      /\ data_owned' \in [Context -> Block \cup {NULL}]
      /\ data_borrowed' \in [Context -> Block \cup {NULL}]
      /\ owner' \in [Block -> {"free", "library", "caller"}]
      /\ misplaced' \subseteq Context
  BY <1>1, <1>2
<1>4. data_destroy' \in [Context -> BOOLEAN]
  BY <1>1, <1>2, Zenon
<1>5. mem' \in [Block -> Value \cup {NULL}] /\ Filled'
  <2>1. \A x \in Block : mem[x] = NULL => owner'[x] = "free"
    BY <1>1 DEF DataParts, Filled
  <2> QED
    BY <1>1, <1>2, <2>1, Emptied
<1>6. /\ \A d \in Context \ {c} : /\ data'[d] = data[d] /\ data_owned'[d] = data_owned[d]
                                   /\ data_borrowed'[d] = data_borrowed[d]
      /\ data'[c] = NULL /\ data_owned'[c] = NULL /\ data_borrowed'[c] = NULL
  BY <1>1, <1>2
<1>7. Destroyed(c) \subseteq {data[c]} \ {NULL}
  BY DEF Destroyed, DestroysData, Writable
<1>8. spent' \subseteq Block /\ spent' \subseteq spent \cup ({data[c]} \ {NULL})
  BY <1>1, <1>2, <1>7
<1>9. DataTypes'
  BY <1>3, <1>4, <1>5, <1>8 DEF DataTypes
<1>10. ASSUME NEW d \in Context
       PROVE  Accounted(d)'
  <2>1. CASE d = c
    BY <1>6, <1>8, <2>1, NullApart DEF Accounted
  <2>2. CASE d # c
    <3>1. Accounted(d) /\ (Exists(d) => Exists(d)') /\ (Stuck(d) => Stuck(d)')
      BY <2>2 DEF DataParts, Stays
    <3>2. /\ data_owned[d] # NULL => owner'[data_owned[d]] = owner[data_owned[d]]
          /\ data_borrowed[d] # NULL => owner'[data_borrowed[d]] = owner[data_borrowed[d]]
      BY <1>1, <1>2, <2>2, BlocksApart
    <3>3. data[d] \in spent' => data[d] \in spent
      BY <1>2, <1>8, <2>2, BlocksApart, NullApart
    <3>4. d \in misplaced => d \in misplaced'
      BY <1>1, <2>2
    <3> QED
      BY <1>6, <2>2, <3>1, <3>2, <3>3, <3>4 DEF Accounted
  <2> QED
    BY <2>1, <2>2
<1>11. Apart'
  BY <1>6 DEF DataParts, Apart
<1>12. NoneLost'
  <2>1. SUFFICES ASSUME NEW b \in Block, owner'[b] = "library"
                 PROVE  \E d \in Context : data_owned'[d] = b
    BY DEF NoneLost
  <2>2. owner[b] = "library" /\ b # data_owned[c]
    BY <1>1, <2>1
  <2>3. PICK d \in Context : data_owned[d] = b
    BY <2>2 DEF DataParts, NoneLost
  <2> QED
    BY <1>6, <2>2, <2>3
<1> QED
  BY <1>5, <1>9, <1>10, <1>11, <1>12 DEF DataParts

\* A reference is given up, and with the last one the context.
LEMMA DataGivenUp ==
  ASSUME CountInv, DataParts, NEW c \in Context, Live(c), GiveUp(c),
         ref_count'[c] = ref_count[c] - 1,
         \A d \in Context \ {c} : Live(d) => Live(d)'
  PROVE  DataParts'
<1>1. ref_count \in [Context -> Nat] /\ refused \subseteq Context
  BY DEF CountInv, CountTypes
<1>2. ref_count[c] \in Nat /\ ref_count[c] > 0
  BY <1>1 DEF Live
<1>3. CASE ref_count[c] = 1 /\ Dropped(c)
  <2>1. FreeContext(c) /\ DestroysData(c)
    BY <1>3 DEF GiveUp, Dropped
  <2>2. refused' = refused
    BY <2>1 DEF FreeContext
  <2>3. ASSUME NEW d \in Context \ {c}
        PROVE  Exists(d) => Exists(d)'
    BY <2>2 DEF Exists
  <2>4. /\ state \in [Context -> {0, 1}] /\ stranded \in [Context -> Nat]
        /\ state' = [state EXCEPT ![c] = 0] /\ stranded' = [stranded EXCEPT ![c] = 0]
    BY <2>1 DEF FreeContext, CountInv, CountTypes
  <2>5. ASSUME NEW d \in Context \ {c}
        PROVE  Stuck(d) => Stuck(d)'
    BY <2>4 DEF Stuck, Locked
  <2> QED
    BY <2>1, <2>3, <2>5, DataFreed DEF Stays
<1>4. CASE ~(ref_count[c] = 1 /\ Dropped(c))
  <2>1. /\ refused' = IF Dropped(c) THEN refused ELSE refused \cup {c}
        /\ UNCHANGED <<accessVars, pointerVars, destroyVars, mem>>
    BY <1>4 DEF GiveUp
  <2>2. ASSUME NEW d \in Context, Exists(d)
        PROVE  Exists(d)'
    <3>1. CASE d = c
      <4>1. CASE Dropped(c)
        <5>1. ref_count'[c] > 0
          BY <1>2, <1>4, <4>1
        <5> QED
          BY <3>1, <5>1 DEF Exists, Live
      <4>2. CASE ~Dropped(c)
        BY <2>1, <3>1, <4>2 DEF Exists
      <4> QED
        BY <4>1, <4>2
    <3>2. CASE d # c
      <4>1. d \in refused => d \in refused'
        BY <2>1
      <4> QED
        BY <2>2, <3>2, <4>1 DEF Exists
    <3> QED
      BY <3>1, <3>2
  <2>3. \A d \in Context : Stays(d)
    BY <2>1, <2>2, AllStay
  <2> QED
    BY <2>1, <2>3, DataSame
<1> QED
  BY <1>3, <1>4

\* A context gets new data in a block that is free.
LEMMA DataSet ==
  ASSUME DataParts, NEW c \in Context, NEW v \in Value, NEW m,
         CeedQFunctionContextSetData(c, m, v)
  PROVE  DataParts'
<1>1. PICK b \in Block :
        /\ owner[b] = "free"
        /\ NewData(c, m, b)
        /\ mem' = Contents([mem EXCEPT ![b] = v])
        /\ spent' = {x \in spent \cup Destroyed(c) : owner'[x] # "free"} \ {b}
  BY DEF CeedQFunctionContextSetData
<1> DEFINE lent == m = "CEED_USE_POINTER"
<1>2. /\ data' = [data EXCEPT ![c] = b]
      /\ data_owned' = [data_owned EXCEPT ![c] = IF lent THEN NULL ELSE b]
      /\ data_borrowed' = [data_borrowed EXCEPT ![c] = IF lent THEN b ELSE NULL]
      /\ owner' = [x \in Block |->
           IF x = b THEN IF lent THEN "caller" ELSE "library"
           ELSE IF x \in {data_owned[c], data_borrowed[c]} THEN "free" ELSE owner[x]]
  BY <1>1 DEF NewData
<1>3. /\ Live(c) /\ DestroysData(c) /\ misplaced' = misplaced \ {c}
      /\ UNCHANGED <<ref_count, refused, data_destroy, accessVars>>
  BY DEF CeedQFunctionContextSetData, Reachable, lifeVars
<1>4. /\ data \in [Context -> Block \cup {NULL}]
      /\ data_owned \in [Context -> Block \cup {NULL}]
      /\ data_borrowed \in [Context -> Block \cup {NULL}]
      /\ owner \in [Block -> {"free", "library", "caller"}]
      /\ data_destroy \in [Context -> BOOLEAN]
      /\ mem \in [Block -> Value \cup {NULL}]
      /\ spent \subseteq Block /\ misplaced \subseteq Context
  BY DEF DataParts, DataTypes
<1> HIDE DEF lent
<1>5. /\ data' \in [Context -> Block \cup {NULL}]
      /\ data_owned' \in [Context -> Block \cup {NULL}]
      /\ data_borrowed' \in [Context -> Block \cup {NULL}]
      /\ owner' \in [Block -> {"free", "library", "caller"}]
      /\ misplaced' \subseteq Context /\ data_destroy' \in [Context -> BOOLEAN]
  BY <1>2, <1>3, <1>4
<1>6. /\ \A d \in Context \ {c} : /\ data'[d] = data[d] /\ data_owned'[d] = data_owned[d]
                                   /\ data_borrowed'[d] = data_borrowed[d]
      /\ data'[c] = b
      /\ data_owned'[c] = IF lent THEN NULL ELSE b
      /\ data_borrowed'[c] = IF lent THEN b ELSE NULL
  BY <1>2, <1>4
<1>7. mem' \in [Block -> Value \cup {NULL}] /\ Filled'
  <2> DEFINE f == [mem EXCEPT ![b] = v]
  <2>1. f \in [Block -> Value \cup {NULL}] /\ f[b] = v /\ \A x \in Block \ {b} : f[x] = mem[x]
    BY <1>4
  <2>2. mem' = Contents(f)
    BY <1>1
  <2> HIDE DEF f
  <2>3. ASSUME NEW x \in Block, f[x] = NULL
        PROVE  owner'[x] = "free"
    <3>1. x # b
      BY <2>1, <2>3, NullApart
    <3>2. owner[x] = "free"
      BY <2>1, <2>3, <3>1 DEF DataParts, Filled
    <3> QED
      BY <1>2, <3>1, <3>2
  <2> QED
    BY <2>1, <2>2, <2>3, Emptied
<1>8. Destroyed(c) \subseteq {data[c]} \ {NULL}
  BY <1>3 DEF Destroyed, DestroysData, Writable
<1>9. spent' \subseteq Block /\ spent' \subseteq (spent \cup ({data[c]} \ {NULL})) \ {b}
  BY <1>1, <1>4, <1>8
<1>10. DataTypes'
  BY <1>5, <1>7, <1>9 DEF DataTypes
<1>11. ASSUME NEW d \in Context
       PROVE  data[d] # b /\ data_owned[d] # b /\ data_borrowed[d] # b
  BY <1>1, NullApart DEF DataParts, Accounted
<1>12. ASSUME NEW d \in Context
       PROVE  Accounted(d)'
  <2>1. CASE d = c
    <3>1. Exists(c)'
      BY <1>3 DEF Exists, Live
    <3>2. b # NULL /\ b \notin spent'
      BY <1>9, NullApart
    <3>3. owner'[b] = IF lent THEN "caller" ELSE "library"
      BY <1>2
    <3> QED
      BY <1>6, <2>1, <3>1, <3>2, <3>3 DEF Accounted
  <2>2. CASE d # c
    <3>1. Accounted(d) /\ (Exists(d) => Exists(d)') /\ (Stuck(d) => Stuck(d)')
      BY <1>3, <2>2 DEF DataParts, Exists, Live, Stuck, Locked, accessVars
    <3>2. /\ data_owned[d] # NULL => owner'[data_owned[d]] = owner[data_owned[d]]
          /\ data_borrowed[d] # NULL => owner'[data_borrowed[d]] = owner[data_borrowed[d]]
      BY <1>2, <1>4, <1>11, <2>2, BlocksApart
    <3>3. data[d] \in spent' => data[d] \in spent
      BY <1>4, <1>9, <2>2, BlocksApart, NullApart
    <3>4. d \in misplaced => d \in misplaced'
      BY <1>3, <2>2
    <3> QED
      BY <1>6, <2>2, <3>1, <3>2, <3>3, <3>4 DEF Accounted
  <2> QED
    BY <2>1, <2>2
<1>13. Apart'
  BY <1>6, <1>11 DEF DataParts, Apart
<1>14. NoneLost'
  <2>1. SUFFICES ASSUME NEW x \in Block, owner'[x] = "library"
                 PROVE  \E d \in Context : data_owned'[d] = x
    BY DEF NoneLost
  <2>2. CASE x = b
    BY <1>2, <1>6, <2>1, <2>2
  <2>3. CASE x # b
    <3>1. owner[x] = "library" /\ x # data_owned[c]
      BY <1>2, <2>1, <2>3
    <3>2. PICK d \in Context : data_owned[d] = x
      BY <3>1 DEF DataParts, NoneLost
    <3> QED
      BY <1>6, <3>1, <3>2
  <2> QED
    BY <2>2, <2>3
<1> QED
  BY <1>7, <1>10, <1>12, <1>13, <1>14 DEF DataParts

\* What was lent is taken back.
LEMMA DataTaken ==
  ASSUME DataParts, NEW c \in Context, CeedQFunctionContextTakeData(c)
  PROVE  DataParts'
<1>1. /\ data_borrowed[c] # NULL
      /\ data' = [data EXCEPT ![c] = NULL]
      /\ data_borrowed' = [data_borrowed EXCEPT ![c] = NULL]
      /\ owner' = [owner EXCEPT ![data[c]] = "free"]
      /\ mem' = Contents(mem)
      /\ spent' = spent \ {data[c]}
      /\ UNCHANGED <<ref_count, refused, data_owned, data_destroy, misplaced, accessVars>>
  BY DEF CeedQFunctionContextTakeData, lifeVars
<1>2. /\ data \in [Context -> Block \cup {NULL}]
      /\ data_owned \in [Context -> Block \cup {NULL}]
      /\ data_borrowed \in [Context -> Block \cup {NULL}]
      /\ owner \in [Block -> {"free", "library", "caller"}]
      /\ data_destroy \in [Context -> BOOLEAN]
      /\ mem \in [Block -> Value \cup {NULL}]
      /\ spent \subseteq Block /\ misplaced \subseteq Context
  BY DEF DataParts, DataTypes
<1>3. data[c] = data_borrowed[c] /\ data_owned[c] = NULL /\ data[c] \in Block /\ owner[data[c]] = "caller"
  BY <1>1, <1>2 DEF DataParts, Accounted
<1>4. /\ data' \in [Context -> Block \cup {NULL}]
      /\ data_owned' \in [Context -> Block \cup {NULL}]
      /\ data_borrowed' \in [Context -> Block \cup {NULL}]
      /\ owner' \in [Block -> {"free", "library", "caller"}]
      /\ data_destroy' \in [Context -> BOOLEAN]
      /\ spent' \subseteq Block /\ misplaced' \subseteq Context
  BY <1>1, <1>2
<1>5. /\ \A d \in Context \ {c} : data'[d] = data[d] /\ data_borrowed'[d] = data_borrowed[d]
      /\ data'[c] = NULL /\ data_borrowed'[c] = NULL
      /\ \A x \in Block \ {data[c]} : owner'[x] = owner[x]
      /\ owner'[data[c]] = "free"
  BY <1>1, <1>2, <1>3
<1>6. mem' \in [Block -> Value \cup {NULL}] /\ Filled'
  <2>1. \A x \in Block : mem[x] = NULL => owner'[x] = "free"
    BY <1>5 DEF DataParts, Filled
  <2> QED
    BY <1>1, <1>2, <2>1, Emptied
<1>7. DataTypes'
  BY <1>4, <1>6 DEF DataTypes
<1>8. ASSUME NEW d \in Context
      PROVE  Accounted(d)'
  <2>1. CASE d = c
    BY <1>1, <1>3, <1>4, <1>5, <2>1, NullApart DEF Accounted
  <2>2. CASE d # c
    <3>1. Accounted(d) /\ (Exists(d) => Exists(d)') /\ (Stuck(d) => Stuck(d)')
      BY <1>1, <2>2 DEF DataParts, Exists, Live, Stuck, Locked, accessVars
    <3>2. /\ data_owned[d] # NULL => owner'[data_owned[d]] = owner[data_owned[d]]
          /\ data_borrowed[d] # NULL => owner'[data_borrowed[d]] = owner[data_borrowed[d]]
      BY <1>2, <1>5, <2>2, BlocksApart
    <3> QED
      BY <1>1, <1>5, <2>2, <3>1, <3>2 DEF Accounted
  <2> QED
    BY <2>1, <2>2
<1>9. Apart'
  BY <1>5 DEF DataParts, Apart
<1>10. NoneLost'
  <2>1. SUFFICES ASSUME NEW b \in Block, owner'[b] = "library"
                 PROVE  \E d \in Context : data_owned'[d] = b
    BY DEF NoneLost
  <2>2. owner[b] = "library"
    BY <1>5, <2>1
  <2> QED
    BY <1>1, <2>2 DEF DataParts, NoneLost
<1> QED
  BY <1>6, <1>7, <1>8, <1>9, <1>10 DEF DataParts

\* The old data are destroyed and then the new ones refused.
LEMMA DataMisplaced ==
  ASSUME DataParts, NEW c \in Context, SetDataMisplaced(c)
  PROVE  DataParts'
<1>1. /\ spent' = spent \cup {data[c]} /\ misplaced' = misplaced \cup {c}
      /\ data[c] # NULL
      /\ UNCHANGED <<ref_count, refused, data, data_owned, data_borrowed, owner, data_destroy, mem,
                     accessVars>>
  BY DEF SetDataMisplaced, Writable, Destroyed, lifeVars, pointerVars
<1>2. DataTypes' /\ Filled'
  BY <1>1 DEF DataParts, DataTypes, Filled
<1>3. Apart' /\ NoneLost'
  BY <1>1 DEF DataParts, Apart, NoneLost
<1>4. ASSUME NEW d \in Context
      PROVE  Accounted(d)'
  BY <1>1 DEF DataParts, Accounted, Apart, Exists, Live, Stuck, Locked, accessVars
<1> QED
  BY <1>2, <1>3, <1>4 DEF DataParts

\* The user's function fails on the data of a context, whoever has called it.
LEMMA DataFails ==
  ASSUME CountInv, DataParts, NEW c \in Context, DestroyDataFails(c),
         \A d \in Context : Exists(d) => Exists(d)'
  PROVE  DataParts'
<1>1. /\ spent' = spent \cup {data[c]} /\ data[c] # NULL
      /\ state' = [state EXCEPT ![c] = 1] /\ stranded' = [stranded EXCEPT ![c] = @ + 1]
      /\ UNCHANGED <<data, data_owned, data_borrowed, owner, data_destroy, misplaced, mem>>
  BY DEF DestroyDataFails, Writable, Destroyed, pointerVars
<1>2. DataTypes' /\ Filled'
  BY <1>1 DEF DataParts, DataTypes, Filled
<1>3. Apart' /\ NoneLost'
  BY <1>1 DEF DataParts, Apart, NoneLost
<1>4. state \in [Context -> {0, 1}] /\ stranded \in [Context -> Nat]
  BY DEF CountInv, CountTypes
<1>5. Stuck(c)' /\ \A d \in Context : Stuck(d) => Stuck(d)'
  BY <1>1, <1>4 DEF Stuck, Locked
<1>6. ASSUME NEW d \in Context
      PROVE  Accounted(d)'
  BY <1>1, <1>5 DEF DataParts, Accounted, Apart
<1> QED
  BY <1>2, <1>3, <1>6 DEF DataParts

\* The blocks that contexts have are in use.
LEMMA DataInUse ==
  ASSUME DataParts, NEW c \in Context, data[c] \in Block
  PROVE  mem[data[c]] # NULL
BY NullApart DEF DataParts, Accounted, Filled

\* A value is stored in the data of a context.
LEMMA DataWritten ==
  ASSUME DataParts, NEW c \in Context, NEW v \in Value,
         mem' = [mem EXCEPT ![data[c]] = v],
         \A d \in Context : Stays(d),
         UNCHANGED <<pointerVars, destroyVars>>
  PROVE  DataParts'
<1>1. mem \in [Block -> Value \cup {NULL}] /\ data_destroy' \in [Context -> BOOLEAN]
  BY DEF DataParts, DataTypes, destroyVars
<1>2. mem' \in [Block -> Value \cup {NULL}]
  BY <1>1
<1>3. \A b \in Block : mem'[b] = NULL <=> mem[b] = NULL
  BY <1>1, DataInUse, NullApart
<1> QED
  BY <1>1, <1>2, <1>3, DataStored DEF destroyVars

\* It fails when the last reference is given up.
LEMMA DataGiveUpFails ==
  ASSUME CountInv, DataParts, NEW c \in Context, GiveUpFails(c),
         ref_count' = [ref_count EXCEPT ![c] = @ - 1]
  PROVE  DataParts'
<1>1. refused' = refused \cup {c} /\ DestroyDataFails(c)
  BY DEF GiveUpFails
<1>2. ref_count \in [Context -> Nat]
  BY DEF CountInv, CountTypes
<1>3. \A d \in Context : Exists(d) => Exists(d)'
  BY <1>1, <1>2 DEF Exists, Live
<1> QED
  BY <1>1, <1>3, DataFails

\* A call on a context, whichever.
LEMMA DataContextCall ==
  ASSUME CountInv, DataParts, NEW c \in Context, CallContext(c)
  PROVE  DataParts'
<1>1. ASSUME UNCHANGED lifeVars, UNCHANGED <<state, stranded>>
      PROVE  \A d \in Context : Stays(d)
  BY <1>1 DEF lifeVars, Stays, Exists, Live, Stuck, Locked
<1>2. ASSUME UNCHANGED <<lifeVars, pointerVars, destroyVars, mem>>,
             \A d \in Context : Stuck(d) => Stuck(d)'
      PROVE  DataParts'
  <2>1. \A d \in Context : Stays(d)
    BY <1>2 DEF lifeVars, Stays, Exists, Live
  <2> QED
    BY <1>2, <2>1, DataSame
<1>14. state \in [Context -> {0, 1}] /\ stranded \in [Context -> Nat]
  BY DEF CountInv, CountTypes
<1>3. CASE CeedQFunctionContextGetData(c)
  <2>1. state' = [state EXCEPT ![c] = 1] /\ UNCHANGED stranded
    BY <1>3 DEF CeedQFunctionContextGetData
  <2>2. \A d \in Context : Stuck(d) => Stuck(d)'
    BY <1>14, <2>1 DEF Stuck, Locked
  <2> QED
    BY <1>2, <1>3, <2>2 DEF CeedQFunctionContextGetData
<1>4. CASE CeedQFunctionContextRestoreData(c)
  <2>1. state' = [state EXCEPT ![c] = 0] /\ ~Stuck(c) /\ UNCHANGED stranded
    BY <1>4 DEF CeedQFunctionContextRestoreData
  <2>2. \A d \in Context : Stuck(d) => Stuck(d)'
    BY <1>14, <2>1 DEF Stuck, Locked
  <2> QED
    BY <1>2, <1>4, <2>2 DEF CeedQFunctionContextRestoreData
<1>5. CASE CeedQFunctionContextGetDataRead(c)
  <2>1. \A d \in Context : Stuck(d) => Stuck(d)'
    BY <1>5 DEF CeedQFunctionContextGetDataRead, Stuck, Locked
  <2> QED
    BY <1>2, <1>5, <2>1 DEF CeedQFunctionContextGetDataRead
<1>6. CASE CeedQFunctionContextRestoreDataRead(c)
  <2>1. \A d \in Context : Stuck(d) => Stuck(d)'
    BY <1>6 DEF CeedQFunctionContextRestoreDataRead, Stuck, Locked
  <2> QED
    BY <1>2, <1>6, <2>1 DEF CeedQFunctionContextRestoreDataRead
<1>7. CASE CeedQFunctionContextSetDataDestroy(c)
  <2>1. /\ data_destroy' = [data_destroy EXCEPT ![c] = TRUE]
        /\ UNCHANGED <<lifeVars, state, stranded, pointerVars, spent, misplaced, mem>>
    BY <1>7 DEF CeedQFunctionContextSetDataDestroy, accessVars
  <2>2. data_destroy \in [Context -> BOOLEAN] /\ mem \in [Block -> Value \cup {NULL}]
    BY DEF DataParts, DataTypes
  <2>3. data_destroy' \in [Context -> BOOLEAN]
    BY <2>1, <2>2, Zenon
  <2>4. \A d \in Context : Stays(d)
    BY <1>1, <2>1
  <2> QED
    BY <2>1, <2>2, <2>3, <2>4, DataStored
<1>8. CASE CeedQFunctionContextTakeData(c)
  BY <1>8, DataTaken
<1>9. CASE CeedQFunctionContextCreate(c)
  <2>1. /\ ref_count' = [ref_count EXCEPT ![c] = 1]
        /\ UNCHANGED <<refused, accessVars, pointerVars, destroyVars, mem>>
    BY <1>9 DEF CeedQFunctionContextCreate
  <2>2. ref_count \in [Context -> Nat]
    BY DEF CountInv, CountTypes
  <2>3. \A d \in Context : Exists(d) => Exists(d)'
    BY <2>1, <2>2 DEF Exists, Live
  <2>4. \A d \in Context : Stays(d)
    BY <2>1, <2>3, AllStay
  <2> QED
    BY <2>1, <2>4, DataSame
<1>10. CASE CeedQFunctionContextDestroy(c)
  <2>1. Live(c) /\ GiveUp(c) /\ ref_count' = [ref_count EXCEPT ![c] = @ - 1]
    BY <1>10 DEF CeedQFunctionContextDestroy, Reachable
  <2>2. ref_count \in [Context -> Nat]
    BY DEF CountInv, CountTypes
  <2>3. /\ ref_count'[c] = ref_count[c] - 1
        /\ \A d \in Context \ {c} : Live(d) => Live(d)'
    BY <2>1, <2>2 DEF Live
  <2> QED
    BY <2>1, <2>3, DataGivenUp
<1>11. CASE SetDataMisplaced(c)
  BY <1>11, DataMisplaced
<1>12. ASSUME NEW v \in Value, StoreData(c, v) \/ CeedQFunctionContextSetField(c, v)
       PROVE  DataParts'
  <2>1. /\ mem' = [mem EXCEPT ![data[c]] = v]
        /\ UNCHANGED <<lifeVars, state, stranded, pointerVars, destroyVars>>
    BY <1>12 DEF StoreData, CeedQFunctionContextSetField, accessVars
  <2>2. \A d \in Context : Stays(d)
    BY <1>1, <2>1
  <2> QED
    BY <2>1, <2>2, DataWritten
<1>13. ASSUME NEW v \in Value, NEW m, CeedQFunctionContextSetData(c, m, v)
       PROVE  DataParts'
  BY <1>13, DataSet
<1>15. CASE SetDataFails(c)
  <2>1. \A d \in Context : Exists(d) => Exists(d)'
    BY <1>15 DEF SetDataFails, lifeVars, Exists, Live
  <2> QED
    BY <1>15, <2>1, DataFails DEF SetDataFails
<1>16. CASE DestroyFails(c)
  <2>1. GiveUpFails(c) /\ ref_count' = [ref_count EXCEPT ![c] = @ - 1]
    BY <1>16 DEF DestroyFails
  <2> QED
    BY <2>1, DataGiveUpFails
<1> QED
  BY <1>3, <1>4, <1>5, <1>6, <1>7, <1>8, <1>9, <1>10, <1>11, <1>12, <1>13, <1>15, <1>16
     DEF CallContext, ContextCall, ContextCallFails

\* A QFunction gets another context, and its old one may go.
LEMMA DataSetContext ==
  ASSUME CountInv, DataParts, NEW o \in Op, NEW c \in Context \cup {NULL},
         CeedQFunctionSetContext(o, c)
  PROVE  DataParts'
<1> DEFINE old == ctx[o]
           attach == old = NULL \/ Dropped(old)
<1>1. /\ old # c /\ (old # NULL => Live(old))
      /\ ref_count' = [x \in Context |->
           IF x = old THEN ref_count[x] - 1
           ELSE IF x = c /\ attach THEN ref_count[x] + 1 ELSE ref_count[x]]
      /\ old = NULL => UNCHANGED <<refused, accessVars, pointerVars, destroyVars, mem>>
      /\ old # NULL => GiveUp(old)
  BY DEF CeedQFunctionSetContext, Usable
<1>2. ref_count \in [Context -> Nat] /\ old \in Context \cup {NULL} /\ NULL \notin Context
  BY NullApart DEF CountInv, CountTypes
<1>3. \A d \in Context \ {old} : Live(d) => Live(d)'
  BY <1>1, <1>2 DEF Live
<1>4. CASE old = NULL
  <2>1. \A d \in Context : Exists(d) => Exists(d)'
    BY <1>1, <1>2, <1>3, <1>4 DEF Exists
  <2>2. \A d \in Context : Stays(d)
    BY <1>1, <1>4, <2>1, AllStay
  <2> QED
    BY <1>1, <1>4, <2>2, DataSame
<1>5. CASE old # NULL
  <2>1. old \in Context /\ Live(old) /\ GiveUp(old) /\ ref_count'[old] = ref_count[old] - 1
    BY <1>1, <1>2, <1>5
  <2> HIDE DEF old
  <2> QED
    BY <1>3, <2>1, DataGivenUp
<1> QED
  BY <1>4, <1>5

\* Fields are stored through labels in the data of contexts.
LEMMA DataFields ==
  ASSUME CountInv, DataParts, NEW via, NEW n \in Nat, n <= Len(Covered(via)), NEW v \in Value,
         StoreField(via, n, v),
         \A d \in Context : Stays(d),
         UNCHANGED <<pointerVars, destroyVars>>
  PROVE  DataParts'
<1> DEFINE stored(b) ==
      \E i \in 1..n : ctx[Covered(via)[i]] # NULL /\ data[ctx[Covered(via)[i]]] = b
<1>1. mem' = [b \in Block |-> IF stored(b) THEN v ELSE mem[b]]
  BY DEF StoreField
<1>2. ASSUME NEW b \in Block, stored(b)
      PROVE  mem[b] # NULL
  <2>1. PICK i \in 1..n : ctx[Covered(via)[i]] # NULL /\ data[ctx[Covered(via)[i]]] = b
    BY <1>2
  <2>2. CountTypes
    BY DEF CountInv
  <2>3. Covered(via) = LabelOf(via) \/ Covered(via) = <<>>
    BY DEF Covered
  <2>4. /\ LabelOf(via) \in Seq(Op) /\ Len(LabelOf(via)) \in Nat
        /\ DOMAIN LabelOf(via) = 1..Len(LabelOf(via))
        /\ \A j \in DOMAIN LabelOf(via) : LabelOf(via)[j] \in Op
    BY <2>2, LabelType, LenProperties
  <2>5. Covered(via)[i] \in Op
    <3>1. CASE Covered(via) = LabelOf(via)
      BY <2>4, <3>1
    <3>2. CASE Covered(via) = <<>>
      <4>1. Len(Covered(via)) = 0
        BY <3>2, EmptySeq
      <4> QED
        BY <4>1
    <3> QED
      BY <2>3, <3>1, <3>2
  <2>6. ctx[Covered(via)[i]] \in Context
    BY <2>1, <2>2, <2>5 DEF CountTypes
  <2> QED
    BY <1>2, <2>1, <2>6, DataInUse
<1>3. mem \in [Block -> Value \cup {NULL}] /\ data_destroy' \in [Context -> BOOLEAN]
  BY DEF DataParts, DataTypes, destroyVars
<1> HIDE DEF stored
<1>4. mem' \in [Block -> Value \cup {NULL}]
  BY <1>1, <1>3
<1>5. \A b \in Block : mem'[b] = NULL <=> mem[b] = NULL
  BY <1>1, <1>2, NullApart
<1> QED
  BY <1>3, <1>4, <1>5, DataStored DEF destroyVars

\* A QFunction is run.
LEMMA DataRun ==
  ASSUME CountInv, DataParts, NEW o \in Op, RunQFunction(o),
         \A d \in Context : Stuck(d) => Stuck(d)',
         UNCHANGED <<lifeVars, pointerVars, destroyVars>>
  PROVE  DataParts'
<1>1. \A d \in Context : Stays(d)
  BY DEF lifeVars, Exists, Live, Stays
<1>2. CASE o \in Writing /\ ctx[o] # NULL
  <2>1. PICK v \in Value : mem' = [mem EXCEPT ![data[ctx[o]]] = v]
    BY <1>2 DEF RunQFunction
  <2>2. ctx[o] \in Context
    BY <1>2 DEF CountInv, CountTypes
  <2> QED
    BY <1>1, <2>1, <2>2, DataWritten
<1>3. CASE ~(o \in Writing /\ ctx[o] # NULL)
  BY <1>1, <1>3, DataSame DEF RunQFunction
<1> QED
  BY <1>2, <1>3

\* One that fails keeps more than what was kept.
LEMMA DataRunFails ==
  ASSUME CountInv, DataParts, NEW o \in Op, QFunctionFails(o)
  PROVE  DataParts'
<1>1. RunQFunction(o) /\ UNCHANGED <<lifeVars, pointerVars, destroyVars>>
  BY DEF QFunctionFails
<1>2. state \in [Context -> {0, 1}] /\ stranded \in [Context -> Nat]
  BY DEF CountInv, CountTypes
<1>3. \/ UNCHANGED <<state, stranded>>
      \/ /\ stranded' = [stranded EXCEPT ![ctx[o]] = @ + 1]
         /\ state' = [state EXCEPT ![ctx[o]] = 1] \/ UNCHANGED state
  BY DEF QFunctionFails
<1>4. \A d \in Context : Stuck(d) => Stuck(d)'
  BY <1>2, <1>3 DEF Stuck, Locked
<1> QED
  BY <1>1, <1>4, DataRun

\* A context that refuses stays.
LEMMA LeakKeeps ==
  ASSUME CountInv, NEW c, LeakReference(c), UNCHANGED accessVars
  PROVE  \A d \in Context : Stays(d)
<1>1. ref_count' = [ref_count EXCEPT ![c] = @ + 1] /\ refused' = refused
  BY DEF LeakReference
<1>2. ref_count \in [Context -> Nat]
  BY DEF CountInv, CountTypes
<1>3. \A d \in Context : Exists(d) => Exists(d)'
  BY <1>1, <1>2 DEF Exists, Live
<1> QED
  BY <1>3, AllStay

\* The data are accounted for to begin with.
LEMMA DataInit ==
  ASSUME Init
  PROVE  DataParts
<1>1. ContextInit([c \in Context |-> Cardinality(Users(c))])
  BY DEF Init
<1>2. /\ data \in [Context -> Block \cup {NULL}]
      /\ \A c \in Context : data[c] = NULL <=> ~Live(c)
      /\ \A c, d \in Context : data[c] = data[d] /\ data[c] # NULL => c = d
      /\ data_owned = data
      /\ data_borrowed = [c \in Context |-> NULL]
      /\ owner = [b \in Block |-> IF \E c \in Context : data[c] = b THEN "library" ELSE "free"]
      /\ mem \in [Block -> Value \cup {NULL}]
      /\ \A b \in Block : mem[b] = NULL <=> owner[b] = "free"
      /\ spent = {} /\ misplaced = {}
      /\ data_destroy = [c \in Context |-> c \in Destroying /\ Live(c)]
  BY <1>1 DEF ContextInit
<1>3. data_destroy \in [Context -> BOOLEAN]
  BY <1>2, Zenon
<1>4. DataTypes
  BY <1>2, <1>3 DEF DataTypes
<1>5. \A c \in Context : Accounted(c)
  BY <1>2 DEF Accounted, Exists
<1> QED
  BY <1>2, <1>4, <1>5 DEF DataParts, Filled, Apart, NoneLost

\* Every step accounts for the data.
LEMMA DataNext ==
  ASSUME CountInv, DataParts, [Next]_vars
  PROVE  DataParts'
<1>1. ASSUME UNCHANGED lifeVars, UNCHANGED <<state, stranded>>
      PROVE  \A d \in Context : Stays(d)
  BY <1>1 DEF lifeVars, Stays, Exists, Live, Stuck, Locked
<1>2. ASSUME UNCHANGED <<lifeVars, state, stranded, pointerVars, destroyVars, mem>>
      PROVE  DataParts'
  <2>1. \A d \in Context : Stays(d)
    BY <1>1, <1>2
  <2> QED
    BY <1>2, <2>1, DataSame
<1>3. ASSUME NEW c, LeakReference(c), UNCHANGED <<accessVars, pointerVars, destroyVars, mem>>
      PROVE  DataParts'
  BY <1>3, LeakKeeps, DataSame
<1>4. ASSUME NEW c \in Context, CallContext(c)
      PROVE  DataParts'
  BY <1>4, DataContextCall
<1>5. ASSUME NEW o \in Op, NEW c \in Kept \cup {NULL}, CeedQFunctionSetContext(o, c)
      PROVE  DataParts'
  <2>1. c \in Context \cup {NULL}
    BY ContextAssumption
  <2> QED
    BY <1>5, <2>1, DataSetContext
<1>6. ASSUME NEW o \in Op, CeedOperatorApply(o)
      PROVE  DataParts'
  <2>1. \A d \in Context : Stuck(d) => Stuck(d)'
    BY <1>6 DEF CeedOperatorApply, accessVars, Stuck, Locked
  <2> QED
    BY <1>6, <2>1, DataRun DEF CeedOperatorApply
<1>7. ASSUME NEW o \in Op, ApplyRefused(o)
      PROVE  DataParts'
  BY <1>3, <1>7 DEF ApplyRefused
<1>8. CASE CeedOperatorCompositeAddSub
  BY <1>2, <1>8 DEF CeedOperatorCompositeAddSub, contextVars, accessVars
<1>9. CASE CeedOperatorGetContextFieldLabel
  BY <1>2, <1>9 DEF CeedOperatorGetContextFieldLabel, contextVars, accessVars
<1>10. ASSUME NEW via, CeedOperatorGetContextFieldRead(via)
       PROVE  DataParts'
  BY <1>2, <1>10 DEF CeedOperatorGetContextFieldRead
<1>11. ASSUME NEW via, GetContextFieldReadRefused(via)
       PROVE  DataParts'
  BY <1>3, <1>11 DEF GetContextFieldReadRefused
<1>12. ASSUME NEW via, CeedOperatorRestoreContextFieldRead(via)
       PROVE  DataParts'
  BY <1>2, <1>12 DEF CeedOperatorRestoreContextFieldRead
<1>13. ASSUME NEW via
       PROVE  Len(Covered(via)) \in Nat
  <2>1. Covered(via) = LabelOf(via) \/ Covered(via) = <<>>
    BY DEF Covered
  <2>2. LabelOf(via) \in Seq(Op) /\ <<>> \in Seq(Op)
    BY LabelType, EmptySeq DEF CountInv
  <2> QED
    BY <2>1, <2>2, LenProperties
<1>14. ASSUME NEW via, NEW v \in Value, CeedOperatorSetContextField(via, v)
       PROVE  DataParts'
  <2>1. /\ StoreField(via, Len(Covered(via)), v)
        /\ UNCHANGED lifeVars /\ UNCHANGED <<state, stranded>>
        /\ UNCHANGED <<pointerVars, destroyVars>>
    BY <1>14 DEF CeedOperatorSetContextField, accessVars
  <2>2. Len(Covered(via)) <= Len(Covered(via))
    BY <1>13
  <2> QED
    BY <1>1, <1>13, <2>1, <2>2, DataFields
<1>15. ASSUME NEW via, NEW v \in Value, SetContextFieldRefused(via, v)
       PROVE  DataParts'
  <2>1. PICK n \in 1..Len(Covered(via)) :
          StoreField(via, n - 1, v) /\ LeakReference(ctx[Covered(via)[n]])
    BY <1>15 DEF SetContextFieldRefused
  <2>2. UNCHANGED <<accessVars, pointerVars, destroyVars>>
    BY <1>15 DEF SetContextFieldRefused
  <2>3. n - 1 \in Nat /\ n - 1 <= Len(Covered(via))
    BY <1>13, <2>1
  <2>4. \A d \in Context : Stays(d)
    BY <2>1, <2>2, LeakKeeps
  <2> QED
    BY <2>1, <2>2, <2>3, <2>4, DataFields
<1>16. ASSUME NEW o \in Assembler, CeedOperatorLinearAssembleQFunctionBuildOrUpdate(o)
       PROVE  DataParts'
  <2>1. o \in Op
    BY OperatorAssumption
  <2>2. \A d \in Context : Stuck(d) => Stuck(d)'
    BY <1>16 DEF CeedOperatorLinearAssembleQFunctionBuildOrUpdate, accessVars, Stuck, Locked
  <2> QED
    BY <1>16, <2>1, <2>2, DataRun DEF CeedOperatorLinearAssembleQFunctionBuildOrUpdate
<1>17. ASSUME NEW o, AssembleRefused(o)
       PROVE  DataParts'
  BY <1>3, <1>17 DEF AssembleRefused
<1>18. ASSUME NEW via, CeedOperatorAssemblyDataStrip(via)
       PROVE  DataParts'
  BY <1>2, <1>18 DEF CeedOperatorAssemblyDataStrip, contextVars, accessVars
<1>19. ASSUME NEW via, NEW b, CeedOperatorSetQFunctionAssemblyReuse(via, b)
       PROVE  DataParts'
  BY <1>2, <1>19 DEF CeedOperatorSetQFunctionAssemblyReuse, contextVars, accessVars
<1>20. ASSUME NEW via, NEW b, CeedOperatorSetQFunctionAssemblyDataUpdateNeeded(via, b)
       PROVE  DataParts'
  BY <1>2, <1>20 DEF CeedOperatorSetQFunctionAssemblyDataUpdateNeeded, contextVars, accessVars
<1>21. ASSUME NEW o \in Op, NEW c, SetContextFails(o, c)
       PROVE  DataParts'
  <2>1. /\ ctx[o] \in Context /\ GiveUpFails(ctx[o])
        /\ ref_count' = [ref_count EXCEPT ![ctx[o]] = @ - 1]
    BY <1>21 DEF SetContextFails, CountInv, CountTypes
  <2> QED
    BY <2>1, DataGiveUpFails
<1>22. ASSUME NEW o \in Op, ApplyFails(o)
       PROVE  DataParts'
  BY <1>22, DataRunFails DEF ApplyFails
<1>23. ASSUME NEW o \in Assembler, AssembleFails(o)
       PROVE  DataParts'
  <2>1. o \in Op
    BY OperatorAssumption
  <2> QED
    BY <1>23, <2>1, DataRunFails DEF AssembleFails
<1>24. CASE UNCHANGED vars
  BY <1>2, <1>24 DEF vars, contextVars, accessVars
<1>25. CASE Next
  BY <1>4, <1>5, <1>6, <1>7, <1>8, <1>9, <1>10, <1>11, <1>12, <1>14, <1>15, <1>16,
     <1>17, <1>18, <1>19, <1>20, <1>21, <1>22, <1>23, <1>25 DEF Next
<1> QED
  BY <1>24, <1>25

\* Counts and data together.
LEMMA DataInvariant == Spec => []DataInv
<1>1. Init => DataInv
  BY CountInit, DataInit DEF DataInv
<1>2. DataInv /\ [Next]_vars => DataInv'
  BY CountNext, DataNext DEF DataInv
<1> QED
  BY <1>1, <1>2, PTL DEF Spec

\* Data are owned or lent, and no block is freed twice or lost. The user's function has been
\* called with data that are still there in two cases only: it failed, and the access to them
\* stays locked; or the backend refused the new data, and the old ones are used as before and
\* given to the function again (CeedQFunctionContextSetData, CeedQFunctionContextDestroy).
THEOREM DataAccountedCorrect == Spec => []DataAccounted
<1>1. DataInv => DataAccounted
  BY PartsOfData DEF DataInv, DataParts
<1> QED
  BY <1>1, DataInvariant, PTL

(***************************************************************************)
(* Assembled QFunctions. With the types of what is assembled,              *)
(* AssembledFresh is inductive: a change that is not marked is noticed.    *)
(***************************************************************************)
AssemblyTypes ==
  /\ reuse_data \in [Assembler -> BOOLEAN]
  /\ needs_data_update \in [Assembler -> BOOLEAN]
  /\ assembled \in [Assembler -> Value \cup {"none", "locked", "no context"}]
  /\ foreign \subseteq Assembler

HaltedTypes == halted \subseteq {"apply", "assemble"} \X Op

FreshInv == DataInv /\ AssemblyTypes /\ AssembledFresh /\ HaltedTypes

\* Nothing is marked as up to date by a call.
Unvouched(covered) ==
  \A o \in Assembler : ~IsUpdateNeeded(o)' => ~IsUpdateNeeded(o) /\ o \notin covered

\* A QFunction never computes with a block that is free.
LEMMA SeenType ==
  ASSUME CountInv, DataParts, NEW o \in Op
  PROVE  Seen(o) \in Value \cup {"none", "no context"}
<1>1. CASE ctx[o] # NULL /\ data[ctx[o]] # NULL
  <2>1. ctx[o] \in Context
    BY <1>1 DEF CountInv, CountTypes
  <2>2. data[ctx[o]] \in Block /\ mem \in [Block -> Value \cup {NULL}]
    BY <1>1, <2>1 DEF DataParts, DataTypes
  <2>3. mem[data[ctx[o]]] \in Value
    BY <2>1, <2>2, DataInUse
  <2> QED
    BY <1>1, <2>3 DEF Seen
<1> QED
  BY <1>1 DEF Seen

\* What it computes with changes with the context, its data and their contents only.
LEMMA SeenSame ==
  ASSUME UNCHANGED <<ctx, data, mem>>, NEW o
  PROVE  Seen(o)' = Seen(o)
BY DEF Seen

\* What happens without an assembly is marked or noticed.
LEMMA FreshNoticed ==
  ASSUME AssembledFresh, NEW covered, Notice(covered), Unvouched(covered), UNCHANGED assembled
  PROVE  AssembledFresh'
<1>1. SUFFICES ASSUME NEW o \in Assembler, IsSetup(o)', ~IsUpdateNeeded(o)', o \notin foreign'
               PROVE  assembled'[o] = Seen(o)'
  BY DEF AssembledFresh
<1>2. IsSetup(o) /\ ~IsUpdateNeeded(o) /\ o \notin covered
  BY <1>1 DEF Unvouched, IsSetup
<1>3. o \notin foreign /\ o \notin Changed(covered)
  BY <1>1 DEF Notice
<1>4. Seen(o)' = Seen(o)
  BY <1>2, <1>3 DEF Changed
<1> QED
  BY <1>2, <1>3, <1>4 DEF AssembledFresh

\* Nothing about data or assembly changes.
LEMMA FreshSame ==
  ASSUME AssembledFresh, UNCHANGED <<ctx, data, mem, assemblyVars, foreign>>
  PROVE  AssembledFresh'
<1>1. UNCHANGED <<assembled, reuse_data, needs_data_update>>
  BY DEF assemblyVars
<1> QED
  BY <1>1, SeenSame DEF AssembledFresh, IsSetup, IsUpdateNeeded

\* Data may change, and nothing is marked: the changes are noticed.
LEMMA FreshUnmarked ==
  ASSUME AssembledFresh, NEW covered, Notice(covered), covered = {}, UNCHANGED assemblyVars
  PROVE  AssembledFresh'
<1>1. UNCHANGED assembled /\ Unvouched(covered)
  BY DEF assemblyVars, Unvouched, IsUpdateNeeded
<1> QED
  BY <1>1, FreshNoticed

\* The QFunction is assembled.
LEMMA FreshBuilt ==
  ASSUME AssemblyTypes, AssembledFresh, NEW o \in Assembler,
         CeedOperatorLinearAssembleQFunctionBuildOrUpdate(o)
  PROVE  AssembledFresh'
<1>1. /\ assembled' = [assembled EXCEPT ![o] = Seen(o)]
      /\ needs_data_update' = [needs_data_update EXCEPT ![o] = FALSE]
      /\ reuse_data' = reuse_data
      /\ foreign' = (foreign \ {o}) \cup Changed({o}) \cup (IF Seen(o)' # Seen(o) THEN {o} ELSE {})
  BY DEF CeedOperatorLinearAssembleQFunctionBuildOrUpdate
<1>2. SUFFICES ASSUME NEW p \in Assembler, IsSetup(p)', ~IsUpdateNeeded(p)', p \notin foreign'
               PROVE  assembled'[p] = Seen(p)'
  BY DEF AssembledFresh
<1>3. CASE p = o
  <2>1. Seen(o)' = Seen(o)
    BY <1>1, <1>2, <1>3
  <2>2. assembled'[o] = Seen(o)
    BY <1>1 DEF AssemblyTypes
  <2> QED
    BY <1>3, <2>1, <2>2
<1>4. CASE p # o
  <2>1. assembled'[p] = assembled[p] /\ needs_data_update'[p] = needs_data_update[p]
    BY <1>1, <1>4 DEF AssemblyTypes
  <2>2. IsSetup(p) /\ ~IsUpdateNeeded(p)
    BY <1>1, <1>2, <2>1 DEF IsSetup, IsUpdateNeeded
  <2>3. p \notin foreign /\ p \notin Changed({o})
    BY <1>1, <1>2, <1>4
  <2>4. Seen(p)' = Seen(p)
    BY <1>4, <2>2, <2>3 DEF Changed
  <2> QED
    BY <2>1, <2>2, <2>3, <2>4 DEF AssembledFresh
<1> QED
  BY <1>3, <1>4

\* It is refused: what was to be brought up to date still has to be.
LEMMA FreshRefused ==
  ASSUME AssemblyTypes, AssembledFresh, NEW o \in Assembler, AssembleRefused(o)
  PROVE  AssembledFresh'
<1>1. /\ assembled' = [assembled EXCEPT ![o] = IF IsSetup(o) THEN "locked" ELSE @]
      /\ UNCHANGED <<reuse_data, needs_data_update, foreign>> /\ Computes(o)
      /\ UNCHANGED <<ctx, data, mem>>
  BY DEF AssembleRefused, buildVars, pointerVars
<1>2. SUFFICES ASSUME NEW p \in Assembler, IsSetup(p)', ~IsUpdateNeeded(p)', p \notin foreign'
               PROVE  assembled'[p] = Seen(p)'
  BY DEF AssembledFresh
<1>3. ~IsUpdateNeeded(p) /\ p \notin foreign /\ Seen(p)' = Seen(p)
  BY <1>1, <1>2, SeenSame DEF IsUpdateNeeded
<1>4. assembled'[p] = assembled[p]
  <2>1. CASE p = o
    <3>1. ~IsSetup(o)
      BY <1>1, <1>3, <2>1 DEF Computes
    <3> QED
      BY <1>1, <2>1, <3>1
  <2>2. CASE p # o
    BY <1>1, <2>2 DEF AssemblyTypes
  <2> QED
    BY <2>1, <2>2
<1> QED
  BY <1>2, <1>3, <1>4 DEF AssembledFresh, IsSetup

\* The QFunction fails: the same, and what it has changed is noticed.
LEMMA FreshFailed ==
  ASSUME AssemblyTypes, AssembledFresh, NEW o \in Assembler, AssembleFails(o)
  PROVE  AssembledFresh'
<1>1. /\ assembled' = [assembled EXCEPT ![o] = IF IsSetup(o) THEN "locked" ELSE @]
      /\ UNCHANGED <<reuse_data, needs_data_update>> /\ Computes(o)
      /\ foreign' = foreign \cup Changed({})
  BY DEF AssembleFails, Notice
<1>2. SUFFICES ASSUME NEW p \in Assembler, IsSetup(p)', ~IsUpdateNeeded(p)', p \notin foreign'
               PROVE  assembled'[p] = Seen(p)'
  BY DEF AssembledFresh
<1>3. ~IsUpdateNeeded(p) /\ p \notin foreign /\ p \notin Changed({})
  BY <1>1, <1>2 DEF IsUpdateNeeded
<1>4. assembled'[p] = assembled[p]
  <2>1. CASE p = o
    <3>1. ~IsSetup(o)
      BY <1>1, <1>3, <2>1 DEF Computes
    <3> QED
      BY <1>1, <2>1, <3>1
  <2>2. CASE p # o
    BY <1>1, <2>2 DEF AssemblyTypes
  <2> QED
    BY <2>1, <2>2
<1>5. IsSetup(p)
  BY <1>2, <1>4 DEF IsSetup
<1>6. Seen(p)' = Seen(p)
  BY <1>3, <1>5 DEF Changed
<1> QED
  BY <1>3, <1>4, <1>5, <1>6 DEF AssembledFresh

\* The application switches reuse, vouches for the data or throws them away.
LEMMA FreshSwitched ==
  ASSUME AssembledFresh, NEW via, NEW b \in BOOLEAN,
         \/ CeedOperatorSetQFunctionAssemblyReuse(via, b)
         \/ CeedOperatorSetQFunctionAssemblyDataUpdateNeeded(via, b)
         \/ CeedOperatorAssemblyDataStrip(via)
  PROVE  AssembledFresh'
<1>1. UNCHANGED <<ctx, data, mem>>
  BY DEF CeedOperatorSetQFunctionAssemblyReuse, CeedOperatorSetQFunctionAssemblyDataUpdateNeeded,
         CeedOperatorAssemblyDataStrip, contextVars, buildVars, pointerVars
<1>2. SUFFICES ASSUME NEW o \in Assembler, IsSetup(o)', ~IsUpdateNeeded(o)', o \notin foreign'
               PROVE  assembled'[o] = Seen(o)'
  BY DEF AssembledFresh
<1>3. Seen(o)' = Seen(o)
  BY <1>1, SeenSame
<1>4. CASE CeedOperatorSetQFunctionAssemblyReuse(via, b)
  <2>1. /\ reuse_data' = SetIn(reuse_data, Parts(via), b)
        /\ needs_data_update' = SetIn(needs_data_update, Parts(via), TRUE)
        /\ UNCHANGED <<assembled, foreign>>
    BY <1>4 DEF CeedOperatorSetQFunctionAssemblyReuse
  <2>2. o \notin Parts(via)
    BY <1>2, <2>1 DEF IsUpdateNeeded, SetIn
  <2>3. ~IsUpdateNeeded(o)
    BY <1>2, <2>1, <2>2 DEF IsUpdateNeeded, SetIn
  <2> QED
    BY <1>2, <1>3, <2>1, <2>3 DEF AssembledFresh, IsSetup
<1>5. CASE CeedOperatorSetQFunctionAssemblyDataUpdateNeeded(via, b)
  <2>1. /\ needs_data_update' = SetIn(needs_data_update, Parts(via), b)
        /\ foreign' = IF b THEN foreign
             ELSE foreign \cup {p \in Assembler \cap Parts(via) : IsSetup(p) /\ needs_data_update[p]}
        /\ UNCHANGED <<assembled, reuse_data>>
    BY <1>5 DEF CeedOperatorSetQFunctionAssemblyDataUpdateNeeded
  <2>2. IsSetup(o) /\ o \notin foreign
    BY <1>2, <2>1 DEF IsSetup
  <2>3. ~IsUpdateNeeded(o)
    <3>1. CASE o \notin Parts(via)
      BY <1>2, <2>1, <3>1 DEF IsUpdateNeeded, SetIn
    <3>2. CASE o \in Parts(via)
      <4>1. ~b
        BY <1>2, <2>1, <3>2 DEF IsUpdateNeeded, SetIn
      <4>2. ~needs_data_update[o]
        BY <1>2, <2>1, <2>2, <3>2, <4>1
      <4> QED
        BY <1>2, <2>1, <4>2 DEF IsUpdateNeeded
    <3> QED
      BY <3>1, <3>2
  <2> QED
    BY <1>3, <2>1, <2>2, <2>3 DEF AssembledFresh
<1>6. CASE CeedOperatorAssemblyDataStrip(via)
  <2>1. /\ reuse_data' = SetIn(reuse_data, Parts(via), FALSE)
        /\ needs_data_update' = SetIn(needs_data_update, Parts(via), FALSE)
        /\ assembled' = SetIn(assembled, Parts(via), "none")
        /\ foreign' = foreign \ Parts(via)
    BY <1>6 DEF CeedOperatorAssemblyDataStrip
  <2>2. o \notin Parts(via)
    BY <1>2, <2>1 DEF IsSetup, SetIn
  <2>3. IsSetup(o) /\ ~IsUpdateNeeded(o) /\ o \notin foreign /\ assembled'[o] = assembled[o]
    BY <1>2, <2>1, <2>2 DEF IsSetup, IsUpdateNeeded, SetIn
  <2> QED
    BY <1>3, <2>3 DEF AssembledFresh
<1> QED
  BY <1>4, <1>5, <1>6

(***************************************************************************)
(* Types of what is assembled.                                             *)
(***************************************************************************)
\* SetIn keeps flags flags.
LEMMA SwitchType ==
  ASSUME NEW f \in [Assembler -> BOOLEAN], NEW ops, NEW b \in BOOLEAN
  PROVE  SetIn(f, ops, b) \in [Assembler -> BOOLEAN]
<1>1. \A o \in Assembler : (IF o \in ops THEN b ELSE f[o]) \in BOOLEAN
  BY Zenon
<1> QED
  BY <1>1, Zenon DEF SetIn

\* Only operators that are assembled are noticed.
LEMMA NoticeType ==
  ASSUME AssemblyTypes, NEW covered, Notice(covered)
  PROVE  foreign' \subseteq Assembler
BY DEF AssemblyTypes, Notice, Changed

\* Nothing is assembled or marked.
LEMMA AssemblyKept ==
  ASSUME AssemblyTypes, UNCHANGED assemblyVars, foreign' \subseteq Assembler
  PROVE  AssemblyTypes'
BY DEF AssemblyTypes, assemblyVars

\* The QFunction is assembled.
LEMMA AssemblyBuilt ==
  ASSUME CountInv, DataParts, AssemblyTypes, NEW o \in Assembler,
         CeedOperatorLinearAssembleQFunctionBuildOrUpdate(o)
  PROVE  AssemblyTypes'
<1>1. /\ assembled' = [assembled EXCEPT ![o] = Seen(o)]
      /\ needs_data_update' = [needs_data_update EXCEPT ![o] = FALSE]
      /\ reuse_data' = reuse_data
      /\ foreign' = (foreign \ {o}) \cup Changed({o}) \cup (IF Seen(o)' # Seen(o) THEN {o} ELSE {})
  BY DEF CeedOperatorLinearAssembleQFunctionBuildOrUpdate
<1>2. Seen(o) \in Value \cup {"none", "no context"}
  BY SeenType, OperatorAssumption
<1>3. assembled' \in [Assembler -> Value \cup {"none", "locked", "no context"}]
  BY <1>1, <1>2 DEF AssemblyTypes
<1>4. needs_data_update' \in [Assembler -> BOOLEAN]
  BY <1>1, Zenon DEF AssemblyTypes
<1>5. foreign' \subseteq Assembler
  BY <1>1 DEF AssemblyTypes, Changed
<1> QED
  BY <1>1, <1>3, <1>4, <1>5 DEF AssemblyTypes

\* Assembly is refused, or fails.
LEMMA AssemblyRefused ==
  ASSUME AssemblyTypes, NEW o \in Assembler, AssembleRefused(o) \/ AssembleFails(o)
  PROVE  AssemblyTypes'
<1>1. /\ assembled' = [assembled EXCEPT ![o] = IF IsSetup(o) THEN "locked" ELSE @]
      /\ UNCHANGED <<reuse_data, needs_data_update>>
      /\ UNCHANGED foreign \/ Notice({})
  BY DEF AssembleRefused, AssembleFails
<1>3. foreign' \subseteq Assembler
  BY <1>1, NoticeType DEF AssemblyTypes
<1>2. assembled' \in [Assembler -> Value \cup {"none", "locked", "no context"}]
  BY <1>1 DEF AssemblyTypes
<1> QED
  BY <1>1, <1>2, <1>3 DEF AssemblyTypes

\* Reuse is switched, marks are set, data thrown away.
LEMMA AssemblySwitched ==
  ASSUME AssemblyTypes, NEW via, NEW b \in BOOLEAN,
         \/ CeedOperatorSetQFunctionAssemblyReuse(via, b)
         \/ CeedOperatorSetQFunctionAssemblyDataUpdateNeeded(via, b)
         \/ CeedOperatorAssemblyDataStrip(via)
  PROVE  AssemblyTypes'
<1>1. /\ reuse_data \in [Assembler -> BOOLEAN] /\ needs_data_update \in [Assembler -> BOOLEAN]
      /\ assembled \in [Assembler -> Value \cup {"none", "locked", "no context"}]
      /\ foreign \subseteq Assembler
  BY DEF AssemblyTypes
<1>2. /\ SetIn(reuse_data, Parts(via), b) \in [Assembler -> BOOLEAN]
      /\ SetIn(reuse_data, Parts(via), FALSE) \in [Assembler -> BOOLEAN]
      /\ SetIn(needs_data_update, Parts(via), b) \in [Assembler -> BOOLEAN]
      /\ SetIn(needs_data_update, Parts(via), TRUE) \in [Assembler -> BOOLEAN]
      /\ SetIn(needs_data_update, Parts(via), FALSE) \in [Assembler -> BOOLEAN]
  BY <1>1, SwitchType, Zenon
<1>3. CASE CeedOperatorSetQFunctionAssemblyReuse(via, b)
  BY <1>1, <1>2, <1>3 DEF CeedOperatorSetQFunctionAssemblyReuse, AssemblyTypes
<1>4. CASE CeedOperatorSetQFunctionAssemblyDataUpdateNeeded(via, b)
  <2>1. foreign' \subseteq Assembler
    BY <1>1, <1>4 DEF CeedOperatorSetQFunctionAssemblyDataUpdateNeeded
  <2> QED
    BY <1>1, <1>2, <1>4, <2>1 DEF CeedOperatorSetQFunctionAssemblyDataUpdateNeeded, AssemblyTypes
<1>5. CASE CeedOperatorAssemblyDataStrip(via)
  <2>1. SetIn(assembled, Parts(via), "none") \in [Assembler -> Value \cup {"none", "locked", "no context"}]
    BY <1>1 DEF SetIn
  <2>2. foreign' \subseteq Assembler
    BY <1>1, <1>5 DEF CeedOperatorAssemblyDataStrip
  <2> QED
    BY <1>2, <1>5, <2>1, <2>2 DEF CeedOperatorAssemblyDataStrip, AssemblyTypes
<1> QED
  BY <1>3, <1>4, <1>5

\* A call by which nothing is assembled, marked or switched.
LEMMA FreshApart ==
  ASSUME AssemblyTypes, AssembledFresh, UNCHANGED assemblyVars,
         \/ Notice({})
         \/ UNCHANGED <<ctx, data, mem, foreign>>
  PROVE  AssemblyTypes' /\ AssembledFresh'
<1>1. CASE Notice({})
  BY <1>1, NoticeType, AssemblyKept, FreshUnmarked
<1>2. CASE UNCHANGED <<ctx, data, mem, foreign>>
  <2>1. foreign' \subseteq Assembler
    BY <1>2 DEF AssemblyTypes
  <2> QED
    BY <1>2, <2>1, AssemblyKept, FreshSame
<1> QED
  BY <1>1, <1>2

\* Every step keeps reused data current.
LEMMA FreshNext ==
  ASSUME CountInv, DataParts, AssemblyTypes, AssembledFresh, [Next]_vars
  PROVE  AssemblyTypes' /\ AssembledFresh'
<1>1. ASSUME NEW c, CallContext(c)
      PROVE  AssemblyTypes' /\ AssembledFresh'
  BY <1>1, FreshApart DEF CallContext
<1>2. ASSUME NEW o, NEW c, CeedQFunctionSetContext(o, c)
      PROVE  AssemblyTypes' /\ AssembledFresh'
  BY <1>2, FreshApart DEF CeedQFunctionSetContext
<1>3. ASSUME NEW o, CeedOperatorApply(o)
      PROVE  AssemblyTypes' /\ AssembledFresh'
  BY <1>3, FreshApart DEF CeedOperatorApply
<1>4. ASSUME NEW o, ApplyRefused(o)
      PROVE  AssemblyTypes' /\ AssembledFresh'
  BY <1>4, FreshApart DEF ApplyRefused, pointerVars
<1>5. CASE CeedOperatorCompositeAddSub
  BY <1>5, FreshApart DEF CeedOperatorCompositeAddSub, contextVars, pointerVars
<1>6. CASE CeedOperatorGetContextFieldLabel
  BY <1>6, FreshApart DEF CeedOperatorGetContextFieldLabel, contextVars, pointerVars
<1>7. ASSUME NEW via, CeedOperatorGetContextFieldRead(via)
      PROVE  AssemblyTypes' /\ AssembledFresh'
  BY <1>7, FreshApart DEF CeedOperatorGetContextFieldRead, buildVars, pointerVars
<1>8. ASSUME NEW via, GetContextFieldReadRefused(via)
      PROVE  AssemblyTypes' /\ AssembledFresh'
  BY <1>8, FreshApart DEF GetContextFieldReadRefused, buildVars, pointerVars
<1>9. ASSUME NEW via, CeedOperatorRestoreContextFieldRead(via)
      PROVE  AssemblyTypes' /\ AssembledFresh'
  BY <1>9, FreshApart DEF CeedOperatorRestoreContextFieldRead, buildVars, pointerVars
<1>10. ASSUME NEW via, NEW v, CeedOperatorSetContextField(via, v)
       PROVE  AssemblyTypes' /\ AssembledFresh'
  <2>1. /\ needs_data_update' = SetIn(needs_data_update, CoveredOps(via), TRUE)
        /\ UNCHANGED <<reuse_data, assembled>>
        /\ Notice(CoveredOps(via))
    BY <1>10 DEF CeedOperatorSetContextField, MarkUpdateNeeded
  <2>2. Unvouched(CoveredOps(via))
    BY <2>1 DEF Unvouched, IsUpdateNeeded, SetIn
  <2>3. needs_data_update' \in [Assembler -> BOOLEAN]
    BY <2>1, SwitchType, Zenon DEF AssemblyTypes
  <2>4. AssemblyTypes'
    BY <2>1, <2>3, NoticeType DEF AssemblyTypes
  <2> QED
    BY <2>1, <2>2, <2>4, FreshNoticed
<1>11. ASSUME NEW via, NEW v, SetContextFieldRefused(via, v)
       PROVE  AssemblyTypes' /\ AssembledFresh'
  BY <1>11, FreshApart DEF SetContextFieldRefused
<1>12. ASSUME NEW o \in Assembler, CeedOperatorLinearAssembleQFunctionBuildOrUpdate(o)
       PROVE  AssemblyTypes' /\ AssembledFresh'
  BY <1>12, AssemblyBuilt, FreshBuilt
<1>13. ASSUME NEW o \in Assembler, AssembleRefused(o)
       PROVE  AssemblyTypes' /\ AssembledFresh'
  BY <1>13, AssemblyRefused, FreshRefused
<1>14. ASSUME NEW via, NEW b \in BOOLEAN,
              \/ CeedOperatorSetQFunctionAssemblyReuse(via, b)
              \/ CeedOperatorSetQFunctionAssemblyDataUpdateNeeded(via, b)
              \/ CeedOperatorAssemblyDataStrip(via)
       PROVE  AssemblyTypes' /\ AssembledFresh'
  BY <1>14, AssemblySwitched, FreshSwitched
<1>15. ASSUME NEW o, NEW c, SetContextFails(o, c)
       PROVE  AssemblyTypes' /\ AssembledFresh'
  <2>1. UNCHANGED <<ctx, data, mem, foreign>> /\ UNCHANGED assemblyVars
    BY <1>15 DEF SetContextFails, GiveUpFails, DestroyDataFails, buildVars, pointerVars
  <2> QED
    BY <2>1, FreshApart
<1>16. ASSUME NEW o, ApplyFails(o)
       PROVE  AssemblyTypes' /\ AssembledFresh'
  BY <1>16, FreshApart DEF ApplyFails
<1>17. ASSUME NEW o \in Assembler, AssembleFails(o)
       PROVE  AssemblyTypes' /\ AssembledFresh'
  BY <1>17, AssemblyRefused, FreshFailed
<1>18. CASE UNCHANGED vars
  BY <1>18, FreshApart DEF vars, contextVars, operatorVars, buildVars, pointerVars
<1>19. CASE Next
  BY <1>1, <1>2, <1>3, <1>4, <1>5, <1>6, <1>7, <1>8, <1>9, <1>10, <1>11, <1>12, <1>13,
     <1>14, <1>15, <1>16, <1>17, <1>19 DEF Next
<1> QED
  BY <1>18, <1>19

\* Every step halts operators only.
LEMMA HaltedNext ==
  ASSUME HaltedTypes, [Next]_vars
  PROVE  HaltedTypes'
<1>1. ASSUME UNCHANGED halted
      PROVE  HaltedTypes'
  BY <1>1 DEF HaltedTypes
<1>2. ASSUME NEW o \in Op, ApplyRefused(o) \/ QFunctionFails(o)
      PROVE  HaltedTypes'
  BY <1>2 DEF ApplyRefused, QFunctionFails, HaltedTypes
<1>3. ASSUME NEW o \in Op, ApplyFails(o)
      PROVE  HaltedTypes'
  BY <1>2, <1>3 DEF ApplyFails
<1>4. ASSUME NEW o \in Assembler, AssembleFails(o)
      PROVE  HaltedTypes'
  BY <1>2, <1>4, OperatorAssumption DEF AssembleFails
<1>5. ASSUME NEW c \in Context, CallContext(c)
      PROVE  HaltedTypes'
  BY <1>1, <1>5 DEF CallContext, buildVars
<1>6. ASSUME NEW o \in Op, NEW c, CeedQFunctionSetContext(o, c)
      PROVE  HaltedTypes'
  BY <1>1, <1>6 DEF CeedQFunctionSetContext, buildVars
<1>7. ASSUME NEW o \in Op, NEW c, SetContextFails(o, c)
      PROVE  HaltedTypes'
  BY <1>1, <1>7 DEF SetContextFails, buildVars
<1>8. ASSUME NEW o \in Op, CeedOperatorApply(o)
      PROVE  HaltedTypes'
  BY <1>1, <1>8 DEF CeedOperatorApply, buildVars
<1>9. ASSUME NEW o \in Op, ApplyRefused(o)
      PROVE  HaltedTypes'
  BY <1>2, <1>9
<1>10. ASSUME CeedOperatorCompositeAddSub \/ CeedOperatorGetContextFieldLabel
       PROVE  HaltedTypes'
  BY <1>1, <1>10 DEF CeedOperatorCompositeAddSub, CeedOperatorGetContextFieldLabel
<1>11. ASSUME NEW via \in Labelled \cup {Composite}, CeedOperatorGetContextFieldRead(via)
       PROVE  HaltedTypes'
  BY <1>1, <1>11 DEF CeedOperatorGetContextFieldRead, buildVars
<1>12. ASSUME NEW via \in Labelled \cup {Composite}, GetContextFieldReadRefused(via)
       PROVE  HaltedTypes'
  BY <1>1, <1>12 DEF GetContextFieldReadRefused, buildVars
<1>13. ASSUME NEW via \in Labelled \cup {Composite}, CeedOperatorRestoreContextFieldRead(via)
       PROVE  HaltedTypes'
  BY <1>1, <1>13 DEF CeedOperatorRestoreContextFieldRead, buildVars
<1>14. ASSUME NEW via \in Labelled \cup {Composite}, NEW v \in Value,
              CeedOperatorSetContextField(via, v)
       PROVE  HaltedTypes'
  BY <1>1, <1>14 DEF CeedOperatorSetContextField, buildVars
<1>15. ASSUME NEW via \in Labelled \cup {Composite}, NEW v \in Value,
              SetContextFieldRefused(via, v)
       PROVE  HaltedTypes'
  BY <1>1, <1>15 DEF SetContextFieldRefused, buildVars
<1>16. ASSUME NEW o \in Assembler, CeedOperatorLinearAssembleQFunctionBuildOrUpdate(o)
       PROVE  HaltedTypes'
  BY <1>1, <1>16 DEF CeedOperatorLinearAssembleQFunctionBuildOrUpdate, buildVars
<1>17. ASSUME NEW o \in Assembler, AssembleRefused(o)
       PROVE  HaltedTypes'
  BY <1>1, <1>17 DEF AssembleRefused, buildVars
<1>18. ASSUME NEW via, CeedOperatorAssemblyDataStrip(via)
       PROVE  HaltedTypes'
  BY <1>1, <1>18 DEF CeedOperatorAssemblyDataStrip, buildVars
<1>19. ASSUME NEW via, NEW b \in BOOLEAN, CeedOperatorSetQFunctionAssemblyReuse(via, b)
       PROVE  HaltedTypes'
  BY <1>1, <1>19 DEF CeedOperatorSetQFunctionAssemblyReuse, buildVars
<1>20. ASSUME NEW via, NEW b \in BOOLEAN, CeedOperatorSetQFunctionAssemblyDataUpdateNeeded(via, b)
       PROVE  HaltedTypes'
  BY <1>1, <1>20 DEF CeedOperatorSetQFunctionAssemblyDataUpdateNeeded, buildVars
<1>21. CASE UNCHANGED vars
  BY <1>1, <1>21 DEF vars, operatorVars, buildVars
<1>22. CASE Next
  BY <1>3, <1>4, <1>5, <1>6, <1>7, <1>8, <1>9, <1>10, <1>11, <1>12, <1>13, <1>14, <1>15,
     <1>16, <1>17, <1>18, <1>19, <1>20, <1>22 DEF Next
<1> QED
  BY <1>21, <1>22

\* Everything above together.
LEMMA FreshInvariant == Spec => []FreshInv
<1>1. Init => FreshInv
  <2>1. Init => /\ foreign = {} /\ assembled = [o \in Assembler |-> "none"]
                /\ reuse_data = [o \in Assembler |-> FALSE]
                /\ needs_data_update = [o \in Assembler |-> FALSE] /\ halted = {}
    BY DEF Init
  <2>2. Init => AssemblyTypes /\ AssembledFresh /\ HaltedTypes
    BY <2>1 DEF AssemblyTypes, AssembledFresh, IsSetup, HaltedTypes
  <2> QED
    BY <2>2, CountInit, DataInit DEF FreshInv, DataInv
<1>2. FreshInv /\ [Next]_vars => FreshInv'
  BY CountNext, DataNext, FreshNext, HaltedNext DEF FreshInv, DataInv
<1> QED
  BY <1>1, <1>2, PTL DEF Spec

\* Assembled QFunction data that are reused are current, as long as the context changes by
\* sets through an operator that covers this one, whatever assembly is refused in between
\* (CeedOperatorContextSetGeneric, CeedOperatorLinearAssembleQFunctionBuildOrUpdate_Core).
THEOREM AssembledFreshCorrect == Spec => []AssembledFresh
<1>1. FreshInv => AssembledFresh
  BY DEF FreshInv
<1> QED
  BY <1>1, FreshInvariant, PTL

\* Every variable of contexts, operators and their assembly data keeps its type.
THEOREM OperatorContextsTypeCorrect == Spec => []OperatorContextsTypeOK
<1>1. FreshInv => OperatorContextsTypeOK
  <2>1. SUFFICES ASSUME FreshInv PROVE OperatorContextsTypeOK
    OBVIOUS
  <2>2. CountTypes /\ DataTypes /\ AssemblyTypes
    BY <2>1 DEF FreshInv, DataInv, CountInv, DataParts
  <2>3. num_sub_labels \in Nat
    BY <2>2 DEF CountTypes
  <2>4. DataTypeOK
    BY <2>2 DEF DataTypeOK, CountTypes, DataTypes
  <2>5. HaltedTypes
    BY <2>1 DEF FreshInv
  <2> QED
    BY <2>2, <2>3, <2>4, <2>5, Zenon
       DEF OperatorContextsTypeOK, CountTypes, AssemblyTypes, HaltedTypes
<1> QED
  BY <1>1, FreshInvariant, PTL

\* A set through the composite operator reaches the context of every sub-operator
\* (CeedOperatorContextSetGeneric).
THEOREM SetReachesEverySubCorrect == Spec => SetReachesEverySub
<1>1. ASSUME DataInv, NEW v \in Value, CeedOperatorSetContextField(Composite, v),
             NEW i \in DOMAIN sub_operators, ctx[sub_operators[i]] # NULL
      PROVE  Seen(sub_operators[i])' = v
  <2> DEFINE s == Covered(Composite)
             o == sub_operators[i]
  <2>1. /\ s # <<>> /\ StoreField(Composite, Len(s), v)
        /\ \A p \in CoveredOps(Composite) : Takes(p, v)
        /\ UNCHANGED <<ctx, data, sub_operators>>
    BY <1>1 DEF CeedOperatorSetContextField, buildVars, pointerVars
  <2>2. /\ sub_operators \in Seq(Op) /\ Len(sub_operators) \in Nat
        /\ DOMAIN sub_operators = 1..Len(sub_operators)
        /\ ctx \in [Op -> Context \cup {NULL}]
        /\ data \in [Context -> Block \cup {NULL}]
    BY <1>1, LenProperties DEF DataInv, CountInv, CountTypes, DataParts, DataTypes
  <2>3. s = SubSeq(sub_operators, 1, Len(sub_operators))
    BY <2>1 DEF Covered, LabelOf
  <2>4. Len(s) = Len(sub_operators) /\ i \in 1..Len(s) /\ s[i] = o /\ i \in DOMAIN s
    <3>1. \A j \in 1..Len(sub_operators) : sub_operators[j] \in Op
      BY <2>2, ElementOfSeq
    <3> DEFINE n == Len(sub_operators)
    <3>2. 1 \in Int /\ n \in Int /\ n \in Nat /\ i \in 1..n
      BY <1>1, <2>2
    <3> HIDE DEF s, n
    <3>3. /\ s \in Seq(Op)
          /\ Len(s) = IF 1 <= n THEN n - 1 + 1 ELSE 0
          /\ \A j \in 1..(n - 1 + 1) : s[j] = sub_operators[1 + j - 1]
      BY <2>3, <3>1, <3>2, SubSeqProperties DEF n
    <3>4. Len(s) = n /\ s[i] = sub_operators[i]
      BY <3>2, <3>3
    <3>5. DOMAIN s = 1..Len(s)
      BY <3>3, LenProperties
    <3> QED
      BY <3>2, <3>4, <3>5 DEF n
  <2>5. Takes(o, v)
    BY <2>1, <2>4 DEF CoveredOps
  <2>6. o \in Op /\ ctx[o] \in Context
    BY <1>1, <2>2, ElementOfSeq
  <2>7. data[ctx[o]] # NULL /\ data[ctx[o]] \in Block
    BY <1>1, <2>2, <2>5, <2>6 DEF Takes, SetsField, Readable, Writable
  <2>8. mem'[data[ctx[o]]] = v
    BY <1>1, <2>1, <2>4, <2>7 DEF StoreField
  <2> QED
    BY <1>1, <2>1, <2>7, <2>8 DEF Seen
<1>2. DataInv /\ [Next]_vars =>
        [\A v \in Value :
           (\E i \in DOMAIN sub_operators : ctx[sub_operators[i]] # NULL /\ Seen(sub_operators[i])' # v)
             => ~CeedOperatorSetContextField(Composite, v)]_vars
  BY <1>1
<1> QED
  BY <1>2, DataInvariant, PTL DEF Spec, SetReachesEverySub
===============================================================================
