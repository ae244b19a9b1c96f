----------------------- MODULE CeedOperatorInputsProofs -----------------------
(***************************************************************************)
(* The input cache of the CPU operators is right for any number of fields, *)
(* vectors, arrays and values. Of the ref backend's vectors the argument   *)
(* uses that they keep the promise of ArrayAccess, and nothing else.       *)
(***************************************************************************)
EXTENDS CeedOperatorInputs, CeedVectorPromiseProofs

\* An apply restricts as any reader of the vector, or changes nothing of it but the error.
LEMMA InputsStep ==
  ASSUME [InputsNext]_inputVars
  PROVE  \/ [Next]_vars
         \/ /\ UNCHANGED <<refVars, lockVars, implVars, copyVars, writer>>
            /\ err' \in {"success", "backend", "access"}
<1>1. ASSUME NEW f \in Field, CeedOperatorSetupInputs(f)
      PROVE  \/ Next
             \/ /\ UNCHANGED <<refVars, lockVars, implVars, copyVars, writer>>
                /\ err' \in {"success", "backend", "access"}
  <2>1. Source[f] \in Live
    BY <1>1 DEF CeedOperatorSetupInputs
  <2>2. CASE SkipRestriction(f)
    BY <2>2 DEF SkipRestriction
  <2>3. CASE RestrictionRefused(f)
    BY <2>3 DEF RestrictionRefused, Reject
  <2>4. CASE Restrict(f)
    <3>1. CallOnOne(Source[f])
      BY <2>4 DEF Restrict, CallOnOne
    <3> QED
      BY <2>1, <3>1 DEF Next
  <2> QED
    BY <1>1, <2>2, <2>3, <2>4 DEF CeedOperatorSetupInputs
<1>2. CASE UNCHANGED inputVars
  BY <1>2 DEF inputVars
<1> QED
  BY <1>1, <1>2 DEF InputsNext

LEMMA InputsTypeStep ==
  ASSUME TypeInv, [InputsNext]_inputVars
  PROVE  TypeInv'
<1>1. CASE [Next]_vars
  BY <1>1, TypeInvStep
<1>2. CASE /\ UNCHANGED <<refVars, lockVars, implVars, copyVars, writer>>
           /\ err' \in {"success", "backend", "access"}
  BY <1>2 DEF TypeInv, TypeOK, WriterHolds, CopiesFollowAccess, Even,
     refVars, lockVars, implVars, copyVars, Memcheck
<1> QED
  BY <1>1, <1>2, InputsStep

LEMMA CacheTypeStep ==
  ASSUME TypeInv, CacheTypeOK, [InputsNext]_inputVars
  PROVE  CacheTypeOK'
<1>1. ASSUME NEW f \in Field, Restrict(f)
      PROVE  CacheTypeOK'
  <2>1. Source[f] \in Vec \ Empty
    BY FieldAssumption
  <2>2. ReadContents(Source[f]) \in Contents \cup {NULL}
    <3>1. Content(Source[f]) \in Contents
      BY <1>1, <2>1, ContentType DEF Restrict, TypeInv
    <3> QED
      BY <2>1, <3>1 DEF ReadContents, ReadCopy, TypeInv, TypeOK
  <2>3. state[Source[f]] \in Nat
    BY <2>1 DEF TypeInv, TypeOK
  <2> QED
    BY <1>1, <2>2, <2>3 DEF CacheTypeOK, Restrict, Recorded
<1>2. CASE UNCHANGED cacheVars
  BY <1>2 DEF CacheTypeOK, cacheVars
<1> QED
  BY <1>1, <1>2 DEF InputsNext, inputVars, CeedOperatorSetupInputs, SkipRestriction, RestrictionRefused

\* What an operator records and keeps has its type, on both backends and after every failure.
THEOREM CacheTypeOKCorrect == InputsSpec => []CacheTypeOK
<1>1. InputsInit => TypeInv /\ CacheTypeOK
  BY TypeInvInit DEF InputsInit, CacheTypeOK
<1>2. TypeInv /\ CacheTypeOK /\ [InputsNext]_inputVars => TypeInv' /\ CacheTypeOK'
  BY InputsTypeStep, CacheTypeStep
<1> QED
  BY <1>1, <1>2, PTL DEF InputsSpec

(***************************************************************************)
(* The vectors under the operator keep their promise.                      *)
(***************************************************************************)
LEMMA InputsRefInvStep ==
  ASSUME Ref, RefInv, [InputsNext]_inputVars
  PROVE  RefInv' /\ Steps
<1>1. CASE [Next]_vars
  BY <1>1, RefInvStep
<1>2. CASE UNCHANGED <<refVars, lockVars, implVars, copyVars, writer>>
  <2>1. UNCHANGED <<lockVars, array, mem>> /\ UNCHANGED pointerVars
    BY <1>2 DEF implVars, pointerVars
  <2>2. TypeInv'
    BY InputsTypeStep DEF RefInv
  <2>3. Steps
    BY <2>1, QuietSteps
  <2>4. PointerInv'
    BY <2>1, PointersSame DEF RefInv
  <2>5. LockedHasArray'
    BY <2>2, <2>3, LockedStep DEF RefInv, TypeInv
  <2> QED
    BY <2>2, <2>3, <2>4, <2>5 DEF RefInv
<1> QED
  BY <1>1, <1>2, InputsStep

\* The state never goes back, and contents under an even state that stays are the same or gone.
LEMMA StateVouches ==
  ASSUME TypeOK, TypeOK', NEW v \in Vec, Promise!CellStep(v)
  PROVE  /\ state[v] <= state'[v]
         /\ Even(v) /\ state'[v] = state[v] => Visible'[v] \in {Visible[v], NULL}
<1>1. state[v] \in Nat /\ state'[v] \in Nat
  BY DEF TypeOK
<1>2. \/ state'[v] \div 2 > state[v] \div 2
      \/ /\ state'[v] \div 2 = state[v] \div 2
         /\ ~Even(v) => ~Even(v)'
         /\ Even(v) /\ Even(v)' => Visible'[v] \in {Visible[v], NULL}
  <2>1. CASE Promise!Same(v) \/ Promise!BeginRead(v) \/ Promise!EndRead(v) \/ Promise!Store(v)
    BY <2>1 DEF Promise!Same, Promise!BeginRead, Promise!EndRead, Promise!Store, Even
  <2>2. CASE Promise!BeginWrite(v)
    <3>1. state'[v] \div 2 >= state[v] \div 2 /\ state[v] % 2 = 0 /\ state'[v] % 2 # 0
      BY <2>2 DEF Promise!BeginWrite, Promise!Exclusive, Even
    <3> QED
      BY <1>1, <3>1 DEF Even
  <2>3. CASE Promise!EndWrite(v) \/ Promise!Replace(v)
    BY <2>3 DEF Promise!EndWrite, Promise!Replace
  <2>4. CASE Promise!Discard(v)
    BY <2>4 DEF Promise!Discard, Promise!Exclusive, Even
  <2> QED
    BY <2>1, <2>2, <2>3, <2>4 DEF Promise!CellStep
<1>3. state[v] <= state'[v]
  BY <1>1, <1>2 DEF Even
<1>4. Even(v) /\ state'[v] = state[v] => Visible'[v] \in {Visible[v], NULL}
  BY <1>1, <1>2 DEF Even
<1> QED
  BY <1>3, <1>4

(***************************************************************************)
(* The cache.                                                              *)
(***************************************************************************)
\* A vector with a length whose state is still 0 never had contents, so that the 0 an operator
\* starts from vouches for nothing.
NothingAtFirst == \A v \in Vec \ Empty : state[v] = 0 => Visible[v] = NULL

\* A recorded state is one at which the vector was read, and no later than the vector's.
RecordedBefore ==
  \A f \in Field : input_states[f] % 2 = 0 /\ input_states[f] <= state[Source[f]]

CacheInv == RefInv /\ CacheTypeOK /\ NothingAtFirst /\ RecordedBefore /\ CacheFresh

LEMMA NothingAtFirstStep ==
  ASSUME TypeOK, TypeOK', NothingAtFirst, Steps
  PROVE  NothingAtFirst'
<1> SUFFICES ASSUME NEW v \in Vec \ Empty, state'[v] = 0
             PROVE  Visible'[v] = NULL
  BY DEF NothingAtFirst
<1>1. state[v] \in Nat
  BY DEF TypeOK
<1>2. Promise!CellStep(v)
  BY DEF Steps
<1>3. state[v] = 0
  BY <1>1, <1>2, StateVouches
<1>4. Even(v)
  BY <1>3 DEF Even
<1>5. Visible[v] = NULL
  BY <1>3 DEF NothingAtFirst
<1> QED
  BY <1>2, <1>3, <1>4, <1>5, StateVouches

\* Callers work on the vectors: a record that still holds vouches for what is still there.
LEMMA CallersKeepCache ==
  ASSUME CacheInv, TypeOK', Steps, UNCHANGED cacheVars
  PROVE  RecordedBefore' /\ CacheFresh'
<1> SUFFICES ASSUME NEW f \in Field
             PROVE  /\ input_states[f] % 2 = 0 /\ input_states[f] <= state'[Source[f]]
                    /\ input_states[f] = state'[Source[f]] /\ Visible'[Source[f]] # NULL
                         => e_vec[f] = Visible'[Source[f]]
  BY DEF RecordedBefore, CacheFresh, cacheVars
<1> DEFINE v == Source[f]
<1>1. v \in Vec /\ TypeOK /\ Promise!CellStep(v)
  BY FieldAssumption DEF Steps, CacheInv, RefInv, TypeInv
<1>2. state[v] \in Nat /\ state'[v] \in Nat /\ input_states[f] \in Nat
  BY <1>1 DEF CacheInv, CacheTypeOK, TypeOK
<1>3. state[v] <= state'[v] /\ (Even(v) /\ state'[v] = state[v] => Visible'[v] \in {Visible[v], NULL})
  BY <1>1, StateVouches
<1>4. input_states[f] % 2 = 0 /\ input_states[f] <= state[v]
  BY DEF CacheInv, RecordedBefore
<1>5. input_states[f] = state'[v] => state'[v] = state[v] /\ Even(v)
  BY <1>2, <1>3, <1>4 DEF Even
<1>6. input_states[f] = state[v] /\ Visible[v] # NULL => e_vec[f] = Visible[v]
  BY DEF CacheInv, CacheFresh
<1>7. input_states[f] <= state'[v]
  BY <1>2, <1>3, <1>4
<1> QED
  BY <1>3, <1>4, <1>5, <1>6, <1>7

\* What an apply restricts is what the vector shows, and the read always succeeds.
LEMMA RestrictReads ==
  ASSUME Ref, CacheInv, NEW f \in Field, Restrict(f)
  PROVE  /\ Even(Source[f]) /\ UNCHANGED <<lockVars, implVars>>
         /\ e_vec' = [e_vec EXCEPT ![f] = Visible[Source[f]]]
         /\ input_states' = [input_states EXCEPT ![f] = state[Source[f]]]
<1>1. Source[f] \in Vec \ Empty
  BY FieldAssumption
<1>2. Even(Source[f]) /\ HasValidArray(Source[f]) /\ ReadWhole(Source[f])
  BY DEF Restrict
<1>3. err' = "success" /\ UNCHANGED <<lockVars, implVars>>
  BY <1>2 DEF ReadWhole, Memcheck, Ref
<1>4. Visible[Source[f]] = Content(Source[f])
  BY <1>1, <1>2 DEF Visible, HasValidArray, Content
<1> QED
  BY <1>2, <1>3, <1>4 DEF Restrict, Recorded, ReadContents, Memcheck, Ref

LEMMA RestrictKeepsCache ==
  ASSUME Ref, CacheInv, NEW f \in Field, Restrict(f)
  PROVE  RecordedBefore' /\ CacheFresh'
<1>1. /\ Even(Source[f]) /\ UNCHANGED <<lockVars, implVars>>
      /\ e_vec' = [e_vec EXCEPT ![f] = Visible[Source[f]]]
      /\ input_states' = [input_states EXCEPT ![f] = state[Source[f]]]
  BY RestrictReads
<1>2. state' = state /\ Visible' = Visible
  BY <1>1, QuietSteps DEF lockVars, implVars
<1>3. \A g \in Field \ {f} : e_vec'[g] = e_vec[g] /\ input_states'[g] = input_states[g]
  BY <1>1 DEF CacheInv, CacheTypeOK
<1>4. e_vec'[f] = Visible[Source[f]] /\ input_states'[f] = state[Source[f]]
  BY <1>1 DEF CacheInv, CacheTypeOK
<1>5. state[Source[f]] \in Nat
  BY FieldAssumption DEF CacheInv, RefInv, TypeInv, TypeOK
<1>6. ASSUME NEW g \in Field
      PROVE  /\ input_states'[g] % 2 = 0 /\ input_states'[g] <= state'[Source[g]]
             /\ input_states'[g] = state'[Source[g]] /\ Visible'[Source[g]] # NULL
                  => e_vec'[g] = Visible'[Source[g]]
  <2>1. CASE g = f
    BY <1>1, <1>2, <1>4, <1>5, <2>1 DEF Even
  <2>2. CASE g # f
    BY <1>2, <1>3, <2>2 DEF CacheInv, RecordedBefore, CacheFresh
  <2> QED
    BY <2>1, <2>2
<1> QED
  BY <1>6 DEF RecordedBefore, CacheFresh

LEMMA CacheInvStep ==
  ASSUME Ref, CacheInv, [InputsNext]_inputVars
  PROVE  CacheInv'
<1>1. RefInv' /\ Steps
  BY InputsRefInvStep DEF CacheInv
<1>2. TypeOK /\ TypeOK'
  BY <1>1 DEF CacheInv, RefInv, TypeInv
<1>3. CacheTypeOK'
  BY CacheTypeStep DEF CacheInv, RefInv
<1>4. NothingAtFirst'
  BY <1>1, <1>2, NothingAtFirstStep DEF CacheInv
<1>5. ASSUME NEW f \in Field, Restrict(f)
      PROVE  RecordedBefore' /\ CacheFresh'
  BY <1>5, RestrictKeepsCache
<1>6. ASSUME UNCHANGED cacheVars
      PROVE  RecordedBefore' /\ CacheFresh'
  BY <1>1, <1>2, <1>6, CallersKeepCache
<1>7. UNCHANGED cacheVars \/ \E f \in Field : Restrict(f)
  BY DEF InputsNext, inputVars, CeedOperatorSetupInputs, SkipRestriction, RestrictionRefused
<1>8. RecordedBefore' /\ CacheFresh'
  BY <1>5, <1>6, <1>7
<1> QED
  BY <1>1, <1>3, <1>4, <1>8 DEF CacheInv

LEMMA CacheInvInit == InputsInit => CacheInv
<1> SUFFICES ASSUME InputsInit
             PROVE  CacheInv
  OBVIOUS
<1>1. RefInv /\ CacheTypeOK
  BY RefInvInit DEF InputsInit, CacheTypeOK
<1>2. \A v \in Vec \ Empty : Visible[v] = NULL
  BY DEF InputsInit, Init, Visible
<1>3. RecordedBefore
  BY FieldAssumption DEF InputsInit, Init, RecordedBefore
<1>4. CacheFresh
  BY <1>2, FieldAssumption DEF CacheFresh
<1> QED
  BY <1>1, <1>2, <1>3, <1>4 DEF CacheInv, NothingAtFirst

\* Over ref vectors a record that still equals the vector's state vouches for the E-vector,
\* whatever callers did to the vector in between and whichever applies failed.
THEOREM CacheFreshCorrect == ASSUME Backend = "ref" PROVE InputsSpec => []CacheFresh
<1>1. CacheInv /\ [InputsNext]_inputVars => CacheInv'
  BY CacheInvStep DEF Ref
<1> QED
  BY <1>1, CacheInvInit, PTL DEF InputsSpec, CacheInv

LEMMA ApplyIsCurrent ==
  ASSUME Ref, CacheInv, NEW f \in Field, CeedOperatorSetupInputs(f), err' = "success",
         Visible[Source[f]] # NULL
  PROVE  e_vec'[f] = Visible[Source[f]]
<1>1. CASE SkipRestriction(f)
  BY <1>1 DEF SkipRestriction, cacheVars, CacheInv, CacheFresh
<1>2. CASE RestrictionRefused(f)
  BY <1>2 DEF RestrictionRefused, Reject
<1>3. CASE Restrict(f)
  BY <1>3, RestrictReads DEF CacheInv, CacheTypeOK
<1> QED
  BY <1>1, <1>2, <1>3 DEF CeedOperatorSetupInputs

\* An apply that succeeds over ref vectors works on the contents they have at that moment.
THEOREM AppliesCurrentInputsCorrect == ASSUME Backend = "ref" PROVE InputsSpec => AppliesCurrentInputs
<1>1. CacheInv /\ [InputsNext]_inputVars
        => /\ CacheInv'
           /\ [\A f \in Field :
                 CeedOperatorSetupInputs(f) /\ err' = "success" /\ Visible[Source[f]] # NULL
                   => e_vec'[f] = Visible[Source[f]]]_inputVars
  BY CacheInvStep, ApplyIsCurrent DEF Ref
<1> QED
  BY <1>1, CacheInvInit, PTL DEF InputsSpec, AppliesCurrentInputs

\* The operators are users of the vectors like any other: with applies among the calls the ref
\* backend keeps the promise of ArrayAccess as well.
THEOREM PromiseKeptUnderAppliesCorrect == ASSUME Backend = "ref" PROVE InputsSpec => KeepsPromise
<1>1. RefInv /\ [InputsNext]_inputVars => RefInv' /\ [Promise!CellNext]_Promise!cellVars
  BY InputsRefInvStep DEF Ref, Steps, Promise!CellNext
<1>2. InputsInit => RefInv /\ Promise!CellInit
  BY RefInvInit, PromiseInit DEF InputsInit
<1> QED
  BY <1>1, <1>2, PTL DEF InputsSpec, KeepsPromise, Promise!CellSpec
===============================================================================
