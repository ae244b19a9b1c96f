-------------------------- MODULE CeedRegistryProofs --------------------------
(***************************************************************************)
(* Theorems about CeedRegistry, for any number of threads and backends and *)
(* any size of the table.                                                  *)
(***************************************************************************)
EXTENDS CeedRegistry, FiniteSetTheorems, TLAPS

(***************************************************************************)
(* Types. The entry a thread writes lies in the table because it found     *)
(* room when it entered its critical section, and nobody else has been in  *)
(* there since: types are not inductive without the sections.              *)
(***************************************************************************)
\* Who is in a section, and what he does there.
Sections ==
  /\ \A t \in Thread : holder["CeedRegisterImpl"] = t <=> pc[t] = "store"
  /\ \A t \in Thread : pc[t] = "builtins" => holder["CeedRegisterAll"] = t
  /\ \A t \in Thread :
       holder["CeedRegisterAll"] = t => pc[t] \in {"builtins", "RegisterImpl", "store"}
  /\ \A t \in Thread : pc[t] \in {"RegisterImpl", "store"} => entering[t] \in Backend
  /\ \A t \in Thread :
       pc[t] \in {"RegisterAll", "search", "init"} \/ holder["CeedRegisterAll"] = t =>
         resource[t] \in Resource

\* The count has been raised for the entry, or it can be.
SlotFits ==
  \A t \in Thread : pc[t] = "store" =>
    IF "num_backends" \in unstored[t] THEN num_backends < TableSize ELSE num_backends > 0

\* A match has an entry, and nobody calls a backend without one.
Found ==
  /\ \A t \in Thread : match[t].index = 0 => match[t].len = 0
  /\ \A t \in Thread : pc[t] = "init" => match[t].len # 0

RegistryInv == RegistryTypeOK /\ Sections /\ SlotFits /\ Found

\* The length of a match is a number.
LEMMA MatchLengthType ==
  ASSUME NEW b \in Backend \cup {NULL}, NEW r
  PROVE  MatchLength(b, r) \in Nat
<1>1. CASE b = NULL
  BY <1>1 DEF MatchLength
<1>2. CASE b # NULL
  <2> DEFINE S == {n \in 1..Len(Prefix[b]) : n <= Len(r) /\ SubSeq(Prefix[b], 1, n) = SubSeq(r, 1, n)}
  <2>1. Len(Prefix[b]) \in Nat
    BY <1>2, RegistryAssumption
  <2>2. IsFiniteSet(1..Len(Prefix[b]))
    BY <2>1, FS_Interval
  <2>3. IsFiniteSet(S)
    BY <2>2, FS_Subset
  <2>4. Cardinality(S) \in Nat
    BY <2>3, FS_CardinalityType
  <2> QED
    BY <1>2, <2>4 DEF MatchLength
<1> QED
  BY <1>1, <1>2

\* What is written into an entry has the right types.
LEMMA EntryType ==
  ASSUME NEW b \in Backend
  PROVE  Entry(b) \in TableEntry
BY RegistryAssumption DEF Entry, PriorityOf, TableEntry

LEMMA NothingType == Zero \in TableEntry /\ NoMatch \in Match
BY RegistryAssumption DEF Zero, TableEntry, NoMatch, Match

\* Where it is written, and up to where the table is whole.
LEMMA SlotType ==
  ASSUME RegistryInv
  PROVE  /\ \A t \in Thread : pc[t] = "store" => Slot(t) \in 1..TableSize
         /\ Settled \in 0..TableSize
<1>1. TableSize \in Nat /\ NULL \notin Thread
  BY RegistryAssumption
<1>2. \A t \in Thread : pc[t] = "store" => Slot(t) \in 1..TableSize
  BY <1>1 DEF RegistryInv, RegistryTypeOK, SlotFits, Slot
<1>3. InsideImpl => \E t \in Thread : holder["CeedRegisterImpl"] = t /\ pc[t] = "store"
  BY DEF RegistryInv, RegistryTypeOK, Sections, InsideImpl, Section
<1> QED
  BY <1>1, <1>2, <1>3 DEF Settled, InsideImpl, RegistryInv, RegistryTypeOK

\* The two ways out of CeedRegisterImpl, and of the calls that may return.
LeftImpl(t) ==
  /\ entering' = [entering EXCEPT ![t] = NULL]
  /\ ierr' \in [Thread -> BOOLEAN]
  /\ \/ /\ holder["CeedRegisterAll"] = t
        /\ pc' = [pc EXCEPT ![t] = "builtins"]
        /\ result' = result
     \/ /\ holder["CeedRegisterAll"] # t
        /\ pc' = [pc EXCEPT ![t] = "idle"]
        /\ result' = [result EXCEPT ![t] = NULL]

LeftAll(t) ==
  /\ holder' = [holder EXCEPT !["CeedRegisterAll"] = NULL]
  /\ \/ /\ pc' = [pc EXCEPT ![t] = "idle"]
        /\ result' = [result EXCEPT ![t] = "error"]
        /\ UNCHANGED searchVars
     \/ BeginSearch(t)

SearchEnded(t) ==
  \/ /\ pc' = [pc EXCEPT ![t] = "idle"]
     /\ result' = [result EXCEPT ![t] = "none"]
  \/ /\ match[t].len # 0
     /\ pc' = [pc EXCEPT ![t] = "init"]
     /\ result' = result

LEMMA LeaveImplCases ==
  ASSUME RegistryTypeOK, NEW t \in Thread, NEW full \in BOOLEAN, LeaveImpl(t, full)
  PROVE  LeftImpl(t)
<1>1. CASE holder["CeedRegisterAll"] = t
  <2>1. (full /\ entering[t] \in Weak) \in BOOLEAN
    OBVIOUS
  <2>2. ierr' = [ierr EXCEPT ![t] = full /\ entering[t] \in Weak]
    BY <1>1 DEF LeaveImpl
  <2>3. ierr' \in [Thread -> BOOLEAN]
    BY <2>1, <2>2, Zenon DEF RegistryTypeOK
  <2> QED
    BY <1>1, <2>3 DEF LeaveImpl, LeftImpl, Goto
<1>2. CASE holder["CeedRegisterAll"] # t
  BY <1>2 DEF LeaveImpl, LeftImpl, Goto, Return, RegistryTypeOK
<1> QED
  BY <1>1, <1>2

LEMMA LeaveAllCases ==
  ASSUME NEW t \in Thread, LeaveRegisterAll(t)
  PROVE  LeftAll(t)
BY DEF LeaveRegisterAll, LeftAll, Return, Goto

LEMMA EndSearchCases ==
  ASSUME NEW t \in Thread, EndSearch(t)
  PROVE  SearchEnded(t)
BY DEF EndSearch, SearchEnded, Return, Goto

\* Where the threads are after a registration and after a search.
LEMMA LeftImplPlaces ==
  ASSUME RegistryTypeOK, NEW t \in Thread, LeftImpl(t)
  PROVE  /\ \A u \in Thread : pc'[u] \in {"RegisterImpl", "store"} =>
              pc[u] = pc'[u] /\ entering'[u] = entering[u]
         /\ \A u \in Thread : pc'[u] \notin {"search", "init"} \/ pc'[u] = pc[u]
<1>1. entering \in [Thread -> Backend \cup {NULL}] /\ Thread = DOMAIN pc /\ pc = [u \in Thread |-> pc[u]]
  BY DEF RegistryTypeOK
<1>2. entering' = [entering EXCEPT ![t] = NULL]
  BY DEF LeftImpl
<1>3. pc' = [pc EXCEPT ![t] = "builtins"] \/ pc' = [pc EXCEPT ![t] = "idle"]
  BY DEF LeftImpl
<1>4. pc'[t] \in {"builtins", "idle"} /\ \A u \in Thread \ {t} : pc'[u] = pc[u]
  BY <1>1, <1>3
<1>5. \A u \in Thread \ {t} : entering'[u] = entering[u]
  BY <1>1, <1>2
<1> QED
  BY <1>4, <1>5

LEMMA SearchEndedPlaces ==
  ASSUME RegistryTypeOK, NEW t \in Thread, SearchEnded(t)
  PROVE  \A u \in Thread : pc'[u] = pc[u] \/ (u = t /\ pc'[u] \in {"idle", "init"})
<1>1. Thread = DOMAIN pc /\ pc = [u \in Thread |-> pc[u]]
  BY DEF RegistryTypeOK
<1>2. pc' = [pc EXCEPT ![t] = "init"] \/ pc' = [pc EXCEPT ![t] = "idle"]
  BY DEF SearchEnded
<1> QED
  BY <1>1, <1>2

(***************************************************************************)
(* The invariant is kept, action by action.                                *)
(***************************************************************************)
LEMMA InvInit ==
  ASSUME RegistryInit
  PROVE  RegistryInv
<1>0. Len(Builtin) \in Nat
  BY RegistryAssumption
<1>1. RegistryTypeOK
  <2>1. /\ backends \in [1..TableSize -> TableEntry]
        /\ match \in [Thread -> Match]
    BY NothingType DEF RegistryInit
  <2>2. /\ holder \in [Section -> Thread \cup {NULL}]
        /\ resource \in [Thread -> Resource \cup {NULL}]
        /\ entering \in [Thread -> Backend \cup {NULL}]
        /\ result \in [Thread -> Backend \cup {NULL, "error", "none"}]
    BY RegistryAssumption DEF RegistryInit
  <2>3. /\ num_backends \in 0..TableSize
        /\ builtin \in [Thread -> 0..Len(Builtin)]
        /\ calls \in [Thread -> 0..MaxCalls]
        /\ settled \in [Thread -> 0..TableSize]
    BY <1>0, RegistryAssumption DEF RegistryInit
  <2>4. /\ unstored \in [Thread -> SUBSET Stores]
        /\ ierr \in [Thread -> BOOLEAN]
        /\ register_all_called \in BOOLEAN
    BY DEF RegistryInit
  <2>5. pc \in [Thread -> {"idle", "RegisterAll", "builtins", "RegisterImpl", "store",
                          "search", "init", "crashed"}]
    BY DEF RegistryInit
  <2> QED
    BY <2>1, <2>2, <2>3, <2>4, <2>5 DEF RegistryTypeOK
<1>2. Sections /\ SlotFits
  BY RegistryAssumption DEF RegistryInit, Sections, SlotFits, Section
<1>3. Found
  BY DEF RegistryInit, Found, NoMatch
<1> QED
  BY <1>1, <1>2, <1>3 DEF RegistryInv

LEMMA InvCallInit ==
  ASSUME RegistryInv, NEW t \in Thread, NEW r \in Resource, CallInit(t, r)
  PROVE  RegistryInv'
<1> USE DEF RegistryInv
<1>1. RegistryTypeOK'
  BY RegistryAssumption DEF RegistryTypeOK, CallInit, Call, At, Goto, tableVars, lockVars, registerVars
<1>2. Sections'
  BY DEF RegistryTypeOK, Sections, CallInit, Call, At, Goto, tableVars, lockVars, registerVars
<1>3. SlotFits'
  BY DEF RegistryTypeOK, SlotFits, CallInit, Call, At, Goto, tableVars, lockVars, registerVars
<1>4. Found'
  BY DEF RegistryTypeOK, Found, CallInit, Call, At, Goto, tableVars, lockVars, registerVars
<1> QED
  BY <1>1, <1>2, <1>3, <1>4

LEMMA InvCallRegister ==
  ASSUME RegistryInv, NEW t \in Thread, NEW b \in Own, CallRegister(t, b)
  PROVE  RegistryInv'
<1> USE DEF RegistryInv
<1>1. RegistryTypeOK'
  BY RegistryAssumption, SMTT(30) DEF RegistryTypeOK, CallRegister, Call, At, Goto, tableVars, lockVars, searchVars, Own
<1>2. Sections'
  BY DEF RegistryTypeOK, Sections, CallRegister, Call, At, Goto, tableVars, lockVars, searchVars, Own
<1>3. SlotFits'
  BY DEF RegistryTypeOK, SlotFits, CallRegister, Call, At, Goto, tableVars, lockVars, searchVars
<1>4. Found'
  BY DEF RegistryTypeOK, Found, CallRegister, Call, At, Goto, tableVars, lockVars, searchVars
<1> QED
  BY <1>1, <1>2, <1>3, <1>4

LEMMA InvSkipRegisterAll ==
  ASSUME RegistryInv, NEW t \in Thread, SkipRegisterAll(t)
  PROVE  RegistryInv'
<1> USE DEF RegistryInv
<1>1. RegistryTypeOK'
  BY SlotType, NothingType, RegistryAssumption DEF RegistryTypeOK, Sections, SkipRegisterAll, Running, At, Goto, tableVars, lockVars, registerVars, searchVars, BeginSearch, Return
<1>2. Sections'
  BY SlotType, NothingType, RegistryAssumption DEF RegistryTypeOK, Sections, SkipRegisterAll, Running, At, Goto, tableVars, lockVars, registerVars, searchVars, BeginSearch, Return
<1>3. SlotFits'
  BY SlotType, NothingType, RegistryAssumption DEF RegistryTypeOK, Sections, SlotFits, SkipRegisterAll, Running, At, Goto, tableVars, lockVars, registerVars, searchVars, BeginSearch, Return
<1>4. Found'
  BY SlotType, NothingType, RegistryAssumption DEF RegistryTypeOK, Sections, Found, SkipRegisterAll, Running, At, Goto, tableVars, lockVars, registerVars, searchVars, BeginSearch, Return, NoMatch
<1> QED
  BY <1>1, <1>2, <1>3, <1>4

LEMMA InvEnterRegisterAll ==
  ASSUME RegistryInv, NEW t \in Thread, EnterRegisterAll(t)
  PROVE  RegistryInv'
<1> USE DEF RegistryInv
<1>1. RegistryTypeOK'
  BY RegistryAssumption DEF RegistryTypeOK, Sections, EnterRegisterAll, Running, At, Goto, tableVars, lockVars, registerVars, searchVars, Section
<1>2. Sections'
  BY RegistryAssumption DEF RegistryTypeOK, Sections, EnterRegisterAll, Running, At, Goto, tableVars, lockVars, registerVars, searchVars, Section
<1>3. SlotFits'
  BY RegistryAssumption DEF RegistryTypeOK, Sections, SlotFits, EnterRegisterAll, Running, At, Goto, tableVars, lockVars, registerVars, searchVars, Section
<1>4. Found'
  BY RegistryAssumption DEF RegistryTypeOK, Sections, Found, EnterRegisterAll, Running, At, Goto, tableVars, lockVars, registerVars, searchVars, Section
<1> QED
  BY <1>1, <1>2, <1>3, <1>4

LEMMA InvRegisterBuiltin ==
  ASSUME RegistryInv, NEW t \in Thread, RegisterBuiltin(t)
  PROVE  RegistryInv'
<1> USE DEF RegistryInv
<1>1. RegistryTypeOK'
  BY RegistryAssumption, SMTT(30) DEF RegistryTypeOK, Sections, RegisterBuiltin, Running, At, Goto, tableVars, lockVars, registerVars, searchVars
<1>2. Sections'
  BY RegistryAssumption, SMTT(30) DEF RegistryTypeOK, Sections, RegisterBuiltin, Running, At, Goto, tableVars, lockVars, registerVars, searchVars
<1>3. SlotFits'
  BY RegistryAssumption DEF RegistryTypeOK, Sections, SlotFits, RegisterBuiltin, Running, At, Goto, tableVars, lockVars, registerVars, searchVars
<1>4. Found'
  BY RegistryAssumption, SMTT(30) DEF RegistryTypeOK, Sections, Found, RegisterBuiltin, Running, At, Goto, tableVars, lockVars, registerVars, searchVars
<1> QED
  BY <1>1, <1>2, <1>3, <1>4

LEMMA InvLeaveRegisterAll ==
  ASSUME RegistryInv, NEW t \in Thread, LeaveRegisterAll(t)
  PROVE  RegistryInv'
<1> USE DEF RegistryInv
<1>1. /\ pc[t] = "builtins"
      /\ register_all_called' = TRUE
      /\ UNCHANGED <<backends, num_backends, entering, unstored, builtin, ierr, calls>>
  BY DEF LeaveRegisterAll, At, tableVars, registerVars
<1>2. LeftAll(t)
  BY LeaveAllCases
<1>3. Settled \in 0..TableSize
  BY SlotType
<1>4. holder' = [holder EXCEPT !["CeedRegisterAll"] = NULL]
  BY <1>2 DEF LeftAll
<1>5. NULL \notin Thread
  BY RegistryAssumption
<1>6. CASE /\ pc' = [pc EXCEPT ![t] = "idle"]
           /\ result' = [result EXCEPT ![t] = "error"]
           /\ UNCHANGED searchVars
  <2>1. RegistryTypeOK'
    BY <1>1, <1>4, <1>5, <1>6 DEF RegistryTypeOK, Section, searchVars
  <2>2. Sections'
    BY <1>1, <1>4, <1>5, <1>6 DEF RegistryTypeOK, Sections, Section, searchVars
  <2>3. SlotFits'
    BY <1>1, <1>4, <1>5, <1>6 DEF RegistryTypeOK, SlotFits, Section, searchVars
  <2>4. Found'
    BY <1>1, <1>4, <1>5, <1>6 DEF RegistryTypeOK, Found, Section, searchVars
  <2> QED
    BY <2>1, <2>2, <2>3, <2>4
<1>7. CASE BeginSearch(t)
  <2>0. /\ pc' = [pc EXCEPT ![t] = "search"]
        /\ match' = [match EXCEPT ![t] = NoMatch]
        /\ settled' = [settled EXCEPT ![t] = Settled]
        /\ UNCHANGED <<resource, result>>
    BY <1>7 DEF BeginSearch, Goto
  <2>1. RegistryTypeOK'
    BY <1>1, <1>3, <1>4, <1>5, <2>0, NothingType DEF RegistryTypeOK, Section, NoMatch
  <2>2. Sections'
    BY <1>1, <1>3, <1>4, <1>5, <2>0, NothingType DEF RegistryTypeOK, Sections, Section, NoMatch
  <2>3. SlotFits'
    BY <1>1, <1>3, <1>4, <1>5, <2>0, NothingType DEF RegistryTypeOK, SlotFits, Section, NoMatch
  <2>4. Found'
    BY <1>1, <1>3, <1>4, <1>5, <2>0, NothingType DEF RegistryTypeOK, Found, Section, NoMatch
  <2> QED
    BY <2>1, <2>2, <2>3, <2>4
<1> QED
  BY <1>2, <1>6, <1>7 DEF LeftAll

LEMMA InvEnterRegisterImpl ==
  ASSUME RegistryInv, NEW t \in Thread, EnterRegisterImpl(t)
  PROVE  RegistryInv'
<1> USE DEF RegistryInv
<1>1. RegistryTypeOK'
  BY RegistryAssumption DEF RegistryTypeOK, Sections, EnterRegisterImpl, Running, At, Goto, tableVars, lockVars, registerVars, searchVars, Section, Stores
<1>2. Sections'
  BY RegistryAssumption DEF RegistryTypeOK, Sections, EnterRegisterImpl, Running, At, Goto, tableVars, lockVars, registerVars, searchVars, Section, Stores
<1>3. SlotFits'
  BY RegistryAssumption DEF RegistryTypeOK, Sections, SlotFits, EnterRegisterImpl, Running, At, Goto, tableVars, lockVars, registerVars, searchVars, Section, Stores
<1>4. Found'
  BY RegistryAssumption DEF RegistryTypeOK, Sections, Found, EnterRegisterImpl, Running, At, Goto, tableVars, lockVars, registerVars, searchVars, Section, Stores
<1> QED
  BY <1>1, <1>2, <1>3, <1>4

LEMMA InvTooManyBackends ==
  ASSUME RegistryInv, NEW t \in Thread, TooManyBackends(t)
  PROVE  RegistryInv'
<1> USE DEF RegistryInv
<1>0. LeftImpl(t)
  BY LeaveImplCases DEF TooManyBackends
<1>1. RegistryTypeOK'
  BY <1>0
  DEF RegistryTypeOK, Sections, TooManyBackends, Running, At, Goto, LeftImpl, tableVars, lockVars, registerVars, searchVars
<1>2. Sections'
  BY <1>0
  DEF RegistryTypeOK, Sections, TooManyBackends, Running, At, Goto, LeftImpl, tableVars, lockVars, registerVars, searchVars
<1>3. SlotFits'
  BY <1>0, RegistryAssumption
  DEF RegistryTypeOK, Sections, SlotFits, TooManyBackends, Running, At, Goto, LeftImpl, tableVars, lockVars, registerVars, searchVars
<1>4. Found'
  BY <1>0, RegistryAssumption
  DEF RegistryTypeOK, Sections, Found, TooManyBackends, Running, At, Goto, LeftImpl, tableVars, lockVars, registerVars, searchVars
<1> QED
  BY <1>1, <1>2, <1>3, <1>4

LEMMA InvLeaveRegisterImpl ==
  ASSUME RegistryInv, NEW t \in Thread, LeaveRegisterImpl(t)
  PROVE  RegistryInv'
<1> USE DEF RegistryInv
<1>1. /\ pc[t] = "store" /\ unstored[t] = {}
      /\ holder' = [holder EXCEPT !["CeedRegisterImpl"] = NULL]
      /\ UNCHANGED <<backends, num_backends, register_all_called, unstored, builtin, resource,
                     match, settled, calls>>
  BY DEF LeaveRegisterImpl, At, tableVars, searchVars
<1>2. LeftImpl(t)
  BY LeaveImplCases DEF LeaveRegisterImpl
<1>5. NULL \notin Thread
  BY RegistryAssumption
<1>6. CASE /\ holder["CeedRegisterAll"] = t
           /\ pc' = [pc EXCEPT ![t] = "builtins"]
           /\ result' = result
  <2>1. RegistryTypeOK'
    BY <1>1, <1>2, <1>5, <1>6 DEF RegistryTypeOK, LeftImpl, Section
  <2>2. Sections'
    BY <1>1, <1>2, <1>5, <1>6 DEF RegistryTypeOK, Sections, LeftImpl, Section
  <2>3. SlotFits'
    BY <1>1, <1>2, <1>5, <1>6 DEF RegistryTypeOK, SlotFits, LeftImpl, Section
  <2>4. Found'
    BY <1>1, <1>2, <1>5, <1>6 DEF RegistryTypeOK, Found, LeftImpl, Section
  <2> QED
    BY <2>1, <2>2, <2>3, <2>4
<1>7. CASE /\ holder["CeedRegisterAll"] # t
           /\ pc' = [pc EXCEPT ![t] = "idle"]
           /\ result' = [result EXCEPT ![t] = NULL]
  <2>1. RegistryTypeOK'
    BY <1>1, <1>2, <1>5, <1>7 DEF RegistryTypeOK, LeftImpl, Section
  <2>2. Sections'
    BY <1>1, <1>2, <1>5, <1>7 DEF RegistryTypeOK, Sections, LeftImpl, Section
  <2>3. SlotFits'
    BY <1>1, <1>2, <1>5, <1>7 DEF RegistryTypeOK, SlotFits, LeftImpl, Section
  <2>4. Found'
    BY <1>1, <1>2, <1>5, <1>7 DEF RegistryTypeOK, Found, LeftImpl, Section
  <2> QED
    BY <2>1, <2>2, <2>3, <2>4
<1> QED
  BY <1>2, <1>6, <1>7 DEF LeftImpl

LEMMA InvEndSearch ==
  ASSUME RegistryInv, NEW t \in Thread, EndSearch(t)
  PROVE  RegistryInv'
<1> USE DEF RegistryInv
<1>0. SearchEnded(t)
  BY EndSearchCases
<1>1. RegistryTypeOK'
  BY <1>0
  DEF RegistryTypeOK, Sections, EndSearch, Running, At, Goto, SearchEnded, tableVars, lockVars, registerVars, searchVars
<1>2. Sections'
  BY <1>0
  DEF RegistryTypeOK, Sections, EndSearch, Running, At, Goto, SearchEnded, tableVars, lockVars, registerVars, searchVars
<1>3. SlotFits'
  BY <1>0, RegistryAssumption
  DEF RegistryTypeOK, Sections, SlotFits, EndSearch, Running, At, Goto, SearchEnded, tableVars, lockVars, registerVars, searchVars
<1>4. Found'
  BY <1>0, RegistryAssumption
  DEF RegistryTypeOK, Sections, Found, EndSearch, Running, At, Goto, SearchEnded, tableVars, lockVars, registerVars, searchVars
<1> QED
  BY <1>1, <1>2, <1>3, <1>4

LEMMA InvCallBackendInit ==
  ASSUME RegistryInv, NEW t \in Thread, CallBackendInit(t)
  PROVE  RegistryInv'
<1> USE DEF RegistryInv
<1>0. match[t].index \in 1..TableSize
  BY RegistryAssumption DEF RegistryTypeOK, Found, Match, CallBackendInit, At
<1>. DEFINE b == backends[match[t].index].init
<1>a. b \in Backend \cup {NULL}
  BY <1>0 DEF RegistryTypeOK, TableEntry
<1>1. RegistryTypeOK'
  <2>1. CASE b = NULL
    BY <2>1 DEF RegistryTypeOK, CallBackendInit, Running, At, Goto, tableVars, lockVars, registerVars, searchVars
  <2>2. CASE b # NULL
    BY <1>a, <2>2 DEF RegistryTypeOK, CallBackendInit, Running, At, Goto, tableVars, lockVars, registerVars, searchVars, Return
  <2> QED
    BY <2>1, <2>2
<1>2. Sections'
  BY RegistryAssumption, SMTT(30) DEF RegistryTypeOK, Sections, CallBackendInit, Running, At, Goto, tableVars, lockVars, registerVars, searchVars, Return
<1>3. SlotFits'
  BY RegistryAssumption DEF RegistryTypeOK, Sections, SlotFits, CallBackendInit, Running, At, Goto, tableVars, lockVars, registerVars, searchVars, Return
<1>4. Found'
  BY RegistryAssumption DEF RegistryTypeOK, Sections, Found, CallBackendInit, Running, At, Goto, tableVars, lockVars, registerVars, searchVars, Return
<1> QED
  BY <1>1, <1>2, <1>3, <1>4

\* One store changes one field of the entry, or the count.
LEMMA StoreCases ==
  ASSUME RegistryInv, NEW t \in Thread, Store(t)
  PROVE  \E f \in unstored[t] :
           /\ unstored' = [unstored EXCEPT ![t] = @ \ {f}]
           /\ \/ /\ f = "num_backends"
                 /\ num_backends' = num_backends + 1
                 /\ backends' = backends
              \/ /\ f \in {"prefix", "init", "priority"}
                 /\ num_backends' = num_backends
                 /\ backends' = [backends EXCEPT ![Slot(t)] =
                                   [backends[Slot(t)] EXCEPT ![f] = Entry(entering[t])[f]]]
<1>1. unstored[t] \subseteq Stores
  BY DEF RegistryInv, RegistryTypeOK
<1>2. PICK f \in unstored[t] :
         /\ unstored' = [unstored EXCEPT ![t] = @ \ {f}]
         /\ IF f = "num_backends"
            THEN num_backends' = num_backends + 1 /\ UNCHANGED backends
            ELSE /\ backends' = [backends EXCEPT ![Slot(t)][f] = Entry(entering[t])[f]]
                 /\ UNCHANGED num_backends
  BY DEF Store
<1>3. f \in {"prefix", "init", "priority", "num_backends"}
  BY <1>1, <1>2 DEF Stores
<1>4. CASE f = "num_backends"
  BY <1>2, <1>4
<1>5. CASE f # "num_backends"
  <2>1. backends' = [backends EXCEPT ![Slot(t)] =
                       [backends[Slot(t)] EXCEPT ![f] = Entry(entering[t])[f]]]
    BY <1>2, <1>5
  <2> QED
    BY <1>2, <1>3, <1>5, <2>1
<1> QED
  BY <1>4, <1>5

\* A field stored into an entry makes an entry.
Stored(e, f, v) == [e EXCEPT ![f] = v]

LEMMA StoredType ==
  ASSUME NEW e \in TableEntry, NEW b \in Backend, NEW f \in {"prefix", "init", "priority"}
  PROVE  /\ Stored(e, f, Entry(b)[f]) \in TableEntry
         /\ Stored(e, f, Entry(b)[f])[f] = Entry(b)[f]
         /\ \A g \in {"prefix", "init", "priority"} \ {f} : Stored(e, f, Entry(b)[f])[g] = e[g]
<1>1. Entry(b) \in TableEntry
  BY EntryType
<1>2. CASE f = "prefix"
  BY <1>1, <1>2 DEF TableEntry, Stored
<1>3. CASE f = "init"
  BY <1>1, <1>3 DEF TableEntry, Stored
<1>4. CASE f = "priority"
  BY <1>1, <1>4 DEF TableEntry, Stored
<1> QED
  BY <1>2, <1>3, <1>4

LEMMA InvStore ==
  ASSUME RegistryInv, NEW t \in Thread, Store(t)
  PROVE  RegistryInv'
<1> USE DEF RegistryInv
<1>1. /\ pc[t] = "store"
      /\ UNCHANGED <<register_all_called, holder, entering, builtin, ierr, resource, match,
                     settled, pc, result, calls>>
  BY DEF Store, At, lockVars, searchVars
<1>2. PICK f \in unstored[t] :
         /\ unstored' = [unstored EXCEPT ![t] = @ \ {f}]
         /\ \/ /\ f = "num_backends"
               /\ num_backends' = num_backends + 1
               /\ backends' = backends
            \/ /\ f \in {"prefix", "init", "priority"}
               /\ num_backends' = num_backends
               /\ backends' = [backends EXCEPT ![Slot(t)] =
                                 [backends[Slot(t)] EXCEPT ![f] = Entry(entering[t])[f]]]
  BY StoreCases
<1>3. Slot(t) \in 1..TableSize
  BY <1>1, SlotType
<1>4. entering[t] \in Backend
  BY <1>1 DEF Sections
<1>5. backends' \in [1..TableSize -> TableEntry]
  <2>1. backends \in [1..TableSize -> TableEntry]
    BY DEF RegistryTypeOK
  <2>2. CASE f = "num_backends"
    BY <1>2, <2>1, <2>2
  <2>3. CASE f \in {"prefix", "init", "priority"}
    <3>1. Stored(backends[Slot(t)], f, Entry(entering[t])[f]) \in TableEntry
      BY <1>3, <1>4, <2>1, <2>3, StoredType
    <3> QED
      BY <1>2, <2>1, <2>3, <3>1 DEF Stored
  <2> QED
    BY <1>2, <2>2, <2>3
<1>6. num_backends' \in 0..TableSize
  BY <1>1, <1>2, RegistryAssumption DEF RegistryTypeOK, SlotFits
<1>7. RegistryTypeOK'
  BY <1>1, <1>2, <1>5, <1>6 DEF RegistryTypeOK
<1>8. Sections' /\ Found'
  BY <1>1 DEF Sections, Found
<1>9. SlotFits'
  <2>1. SUFFICES ASSUME NEW u \in Thread, pc[u] = "store"
                 PROVE  IF "num_backends" \in unstored'[u] THEN num_backends' < TableSize
                        ELSE num_backends' > 0
    BY <1>1 DEF SlotFits
  <2>2. u = t
    BY <1>1, <2>1 DEF Sections
  <2> QED
    BY <1>1, <1>2, <2>2, RegistryAssumption DEF RegistryTypeOK, SlotFits
<1> QED
  BY <1>7, <1>8, <1>9

LEMMA InvCompare ==
  ASSUME RegistryInv, NEW t \in Thread, Compare(t)
  PROVE  RegistryInv'
<1> USE DEF RegistryInv
<1> DEFINE m == match[t]
           e == backends[m.next]
           n == MatchLength(e.prefix, resource[t])
           better == [index |-> m.next, len |-> n, priority |-> e.priority, next |-> m.next + 1]
           same == [m EXCEPT !.next = @ + 1]
<1>1. /\ pc[t] = "search" /\ m.next <= num_backends
      /\ match' = [match EXCEPT ![t] =
           IF n > m.len \/ (n = m.len /\ m.priority > e.priority) THEN better ELSE same]
      /\ UNCHANGED <<backends, num_backends, register_all_called, holder, entering, unstored,
                     builtin, ierr, resource, settled, pc, result, calls>>
  BY DEF Compare, At, tableVars, lockVars, registerVars
<1>2. m \in Match
  BY DEF RegistryTypeOK
<1>3. m.next \in 1..TableSize
  BY <1>1, <1>2, RegistryAssumption DEF RegistryTypeOK, Match
<1>4. e \in TableEntry
  BY <1>3 DEF RegistryTypeOK
<1>5. n \in Nat
  BY <1>4, MatchLengthType DEF TableEntry
<1>6. better \in Match /\ better.index # 0
  BY <1>3, <1>4, <1>5, RegistryAssumption, SMTT(30) DEF Match, TableEntry
<1>7. same \in Match /\ same.index = m.index /\ same.len = m.len
  <2>1. m.next + 1 \in 1..(TableSize + 1)
    BY <1>3, RegistryAssumption
  <2> HIDE DEF m
  <2> QED
    BY <1>2, <2>1 DEF Match
<1> HIDE DEF better, same
<1>8. match' \in [Thread -> Match]
  BY <1>1, <1>6, <1>7 DEF RegistryTypeOK
<1>9. RegistryTypeOK'
  BY <1>1, <1>8 DEF RegistryTypeOK
<1>10. Sections' /\ SlotFits'
  BY <1>1 DEF Sections, SlotFits
<1>11. Found'
  BY <1>1, <1>6, <1>7 DEF Found, RegistryTypeOK
<1> QED
  BY <1>9, <1>10, <1>11

LEMMA InvNext ==
  ASSUME RegistryInv, [RegistryNext]_registryVars
  PROVE  RegistryInv'
<1>1. ASSUME NEW t \in Thread, NEW r \in Resource, CallInit(t, r)
      PROVE  RegistryInv'
  BY <1>1, InvCallInit
<1>2. ASSUME NEW t \in Thread, NEW b \in Own, CallRegister(t, b)
      PROVE  RegistryInv'
  BY <1>2, InvCallRegister
<1>3. ASSUME NEW t \in Thread, Step(t)
      PROVE  RegistryInv'
  BY <1>3, InvSkipRegisterAll, InvEnterRegisterAll, InvRegisterBuiltin, InvLeaveRegisterAll,
     InvEnterRegisterImpl, InvTooManyBackends, InvStore, InvLeaveRegisterImpl, InvCompare,
     InvEndSearch, InvCallBackendInit
     DEF Step
<1>4. CASE UNCHANGED registryVars
  BY <1>4 DEF RegistryInv, RegistryTypeOK, Sections, SlotFits, Found, registryVars, tableVars,
     lockVars, registerVars, searchVars
<1> QED
  BY <1>1, <1>2, <1>3, <1>4 DEF RegistryNext, Over

\* Every variable keeps its type: no entry is written behind the table, however many
\* threads register at once (ceed.c:128-137).
THEOREM RegistryTypeCorrect == RegistrySpec => []RegistryTypeOK
<1>1. RegistryInit => RegistryInv
  BY InvInit
<1>2. RegistryInv /\ [RegistryNext]_registryVars => RegistryInv'
  BY InvNext
<1>3. RegistryInv => RegistryTypeOK
  BY DEF RegistryInv
<1> QED
  BY <1>1, <1>2, <1>3, PTL DEF RegistrySpec

(***************************************************************************)
(* Entries. A thread in the section has its entry to itself, and what it   *)
(* has stored of it is right; when it leaves, the entry is whole.          *)
(***************************************************************************)
Fields == {"prefix", "init", "priority"}

\* Of the entry that is being written the stored fields are right and the name is not
\* there before it is stored; the entries behind are untouched.
EntryInWork ==
  /\ \A t \in Thread : pc[t] = "store" =>
       /\ \A f \in Fields \ unstored[t] : backends[Slot(t)][f] = Entry(entering[t])[f]
       /\ "prefix" \in unstored[t] => backends[Slot(t)].prefix = NULL
       /\ "priority" \in unstored[t] => backends[Slot(t)].priority = 0
  /\ ~InsideImpl => \A i \in (num_backends + 1)..TableSize : backends[i] = Zero

WholeInv == RegistryInv /\ EntriesWhole /\ EntryInWork

\* Where Settled stands.
LEMMA SettledValue ==
  ASSUME RegistryInv
  PROVE  /\ \A t \in Thread : pc[t] = "store" => Settled = Slot(t) - 1
         /\ ~InsideImpl => Settled = num_backends
         /\ InsideImpl <=> \E t \in Thread : pc[t] = "store"
BY RegistryAssumption DEF RegistryInv, RegistryTypeOK, Sections, Settled, InsideImpl, Section

\* Steps that leave the table, and those who write it, alone.
LEMMA WholeSame ==
  ASSUME WholeInv, RegistryInv',
         UNCHANGED <<backends, num_backends, unstored>>,
         holder'["CeedRegisterImpl"] = holder["CeedRegisterImpl"],
         \A t \in Thread : pc'[t] = "store" => pc[t] = "store" /\ entering'[t] = entering[t]
  PROVE  EntriesWhole' /\ EntryInWork'
<1>1. Settled' = Settled /\ (InsideImpl' <=> InsideImpl)
  BY DEF Settled, InsideImpl, Slot
<1>2. \A t \in Thread : Slot(t)' = Slot(t)
  BY DEF Slot
<1> QED
  BY <1>1, <1>2 DEF WholeInv, EntriesWhole, EntryInWork, Entry, PriorityOf, Zero

LEMMA WholeEnter ==
  ASSUME WholeInv, NEW t \in Thread, EnterRegisterImpl(t)
  PROVE  EntriesWhole' /\ EntryInWork'
<1>1. /\ ~InsideImpl
      /\ num_backends < TableSize
      /\ holder' = [holder EXCEPT !["CeedRegisterImpl"] = t]
      /\ pc' = [pc EXCEPT ![t] = "store"]
      /\ unstored' = [unstored EXCEPT ![t] = Stores]
      /\ UNCHANGED <<backends, num_backends, entering>>
  BY DEF EnterRegisterImpl, At, Goto, InsideImpl, tableVars
<1>2. /\ pc'[t] = "store" /\ unstored'[t] = Stores
      /\ holder'["CeedRegisterImpl"] = t
      /\ t # NULL
      /\ num_backends \in Nat
  BY <1>1, RegistryAssumption DEF WholeInv, RegistryInv, RegistryTypeOK, Section
<1>3. \A u \in Thread : pc'[u] = "store" => u = t
  BY <1>1, SettledValue DEF WholeInv, RegistryInv, RegistryTypeOK
<1>4. Slot(t)' = num_backends + 1
  BY <1>1, <1>2 DEF Slot, Stores
<1>5. InsideImpl'
  BY <1>2 DEF InsideImpl
<1>6. Settled' = num_backends /\ Settled = num_backends
  <2>1. Settled' = Slot(t)' - 1
    BY <1>2, <1>5 DEF Settled, Slot
  <2> QED
    BY <1>1, <1>2, <1>4, <2>1, SettledValue DEF WholeInv
<1>7. EntriesWhole'
  BY <1>1, <1>6 DEF WholeInv, EntriesWhole, Entry, PriorityOf, Zero
<1>8. num_backends + 1 \in 1..TableSize
  BY <1>1, <1>2, RegistryAssumption
<1>9. backends[num_backends + 1] = Zero
  BY <1>1, <1>8 DEF WholeInv, EntryInWork
<1>10. Fields \ Stores = {}
  BY DEF Fields, Stores
<1>11. backends'[Slot(t)'].prefix = NULL /\ backends'[Slot(t)'].priority = 0
  BY <1>1, <1>4, <1>9 DEF Zero
<1>12. ASSUME NEW u \in Thread, pc'[u] = "store"
       PROVE  /\ Fields \ unstored'[u] = {}
              /\ backends'[Slot(u)'].prefix = NULL
              /\ backends'[Slot(u)'].priority = 0
  BY <1>2, <1>3, <1>10, <1>11, <1>12 DEF Slot
<1>13. (\A u \in Thread : pc[u] = "store" =>
          /\ \A f \in Fields \ unstored[u] : backends[Slot(u)][f] = Entry(entering[u])[f]
          /\ "prefix" \in unstored[u] => backends[Slot(u)].prefix = NULL
          /\ "priority" \in unstored[u] => backends[Slot(u)].priority = 0)'
  BY <1>12 DEF Slot, Entry, PriorityOf, Fields
<1> QED
  BY <1>5, <1>7, <1>13 DEF EntryInWork

\* A store leaves the place of the entry where it is.
LEMMA WholeStore ==
  ASSUME WholeInv, NEW t \in Thread, Store(t)
  PROVE  EntriesWhole' /\ EntryInWork'
<1>1. /\ pc[t] = "store"
      /\ UNCHANGED <<holder, pc, entering>>
  BY DEF Store, At, lockVars
<1>2. PICK f \in unstored[t] :
         /\ unstored' = [unstored EXCEPT ![t] = @ \ {f}]
         /\ \/ /\ f = "num_backends"
               /\ num_backends' = num_backends + 1
               /\ backends' = backends
            \/ /\ f \in {"prefix", "init", "priority"}
               /\ num_backends' = num_backends
               /\ backends' = [backends EXCEPT ![Slot(t)] =
                                 [backends[Slot(t)] EXCEPT ![f] = Entry(entering[t])[f]]]
  BY StoreCases DEF WholeInv
<1>3. /\ Slot(t) \in 1..TableSize
      /\ entering[t] \in Backend
      /\ backends \in [1..TableSize -> TableEntry]
      /\ backends[Slot(t)] \in TableEntry
  BY <1>1, SlotType DEF WholeInv, RegistryInv, RegistryTypeOK, Sections
<1>4. unstored'[t] = unstored[t] \ {f}
  BY <1>2 DEF WholeInv, RegistryInv, RegistryTypeOK
<1>5. Slot(t)' = Slot(t)
  <2>1. num_backends \in Nat
    BY RegistryAssumption DEF WholeInv, RegistryInv, RegistryTypeOK
  <2>2. CASE f = "num_backends"
    BY <1>2, <1>4, <2>1, <2>2 DEF Slot
  <2>3. CASE f \in {"prefix", "init", "priority"}
    BY <1>2, <1>4, <2>1, <2>3 DEF Slot
  <2> QED
    BY <1>2, <2>2, <2>3
<1>6. holder["CeedRegisterImpl"] = t /\ t # NULL
  BY <1>1, RegistryAssumption DEF WholeInv, RegistryInv, Sections
<1>7. InsideImpl' /\ Settled' = Slot(t) - 1 /\ Settled = Slot(t) - 1
  BY <1>1, <1>5, <1>6 DEF Settled, InsideImpl
<1>8. \A i \in 1..TableSize : i # Slot(t) => backends'[i] = backends[i]
  BY <1>2, <1>3
<1>9. EntriesWhole'
  <2>1. /\ \A i \in 1..(Slot(t) - 1) : \E b \in Backend : backends[i] = Entry(b)
        /\ \A i \in (Slot(t) - 1 + 2)..TableSize : backends[i] = Zero
    BY <1>7 DEF WholeInv, EntriesWhole
  <2>2. /\ \A i \in 1..(Slot(t) - 1) : \E b \in Backend : backends'[i] = Entry(b)
        /\ \A i \in (Slot(t) - 1 + 2)..TableSize : backends'[i] = Zero
    <3>1. /\ \A i \in 1..(Slot(t) - 1) : i \in 1..TableSize /\ i # Slot(t)
          /\ \A i \in (Slot(t) - 1 + 2)..TableSize : i \in 1..TableSize /\ i # Slot(t)
      BY <1>3, RegistryAssumption
    <3> QED
      BY <1>8, <2>1, <3>1
  <2> QED
    BY <1>7, <2>2 DEF EntriesWhole, Entry, PriorityOf, Zero
<1>10. /\ \A g \in Fields \ unstored'[t] : backends'[Slot(t)][g] = Entry(entering[t])[g]
       /\ "prefix" \in unstored'[t] => backends'[Slot(t)].prefix = NULL
       /\ "priority" \in unstored'[t] => backends'[Slot(t)].priority = 0
  <2>1. /\ \A g \in Fields \ unstored[t] : backends[Slot(t)][g] = Entry(entering[t])[g]
        /\ "prefix" \in unstored[t] => backends[Slot(t)].prefix = NULL
        /\ "priority" \in unstored[t] => backends[Slot(t)].priority = 0
    BY <1>1 DEF WholeInv, EntryInWork
  <2>2. CASE f = "num_backends"
    BY <1>2, <1>4, <2>1, <2>2 DEF Fields
  <2>3. CASE f \in {"prefix", "init", "priority"}
    <3>1. backends'[Slot(t)] = Stored(backends[Slot(t)], f, Entry(entering[t])[f])
      BY <1>2, <1>3, <2>3 DEF Stored
    <3>2. /\ backends'[Slot(t)][f] = Entry(entering[t])[f]
          /\ \A g \in {"prefix", "init", "priority"} \ {f} :
               backends'[Slot(t)][g] = backends[Slot(t)][g]
      BY <1>3, <2>3, <3>1, StoredType
    <3>3. /\ "prefix" \in unstored'[t] => backends'[Slot(t)]["prefix"] = backends[Slot(t)]["prefix"]
          /\ "priority" \in unstored'[t] => backends'[Slot(t)]["priority"] = backends[Slot(t)]["priority"]
      BY <1>4, <3>2
    <3> QED
      BY <1>4, <2>1, <3>2, <3>3 DEF Fields
  <2> QED
    BY <1>2, <2>2, <2>3
<1>11. \A u \in Thread : pc'[u] = "store" => u = t
  BY <1>1, <1>6 DEF WholeInv, RegistryInv, Sections
<1>12. Entry(entering[t])' = Entry(entering[t])
  BY <1>1 DEF Entry, PriorityOf
<1> QED
  BY <1>1, <1>5, <1>7, <1>9, <1>10, <1>11, <1>12 DEF EntryInWork, Entry, PriorityOf

\* When every store has been made the entry is that of the backend.
LEMMA EntryComplete ==
  ASSUME WholeInv, NEW t \in Thread, pc[t] = "store", unstored[t] = {}
  PROVE  backends[Slot(t)] = Entry(entering[t])
<1>1. Slot(t) \in 1..TableSize /\ entering[t] \in Backend
  BY SlotType DEF WholeInv, RegistryInv, Sections
<1>2. backends[Slot(t)] \in TableEntry
  BY <1>1 DEF WholeInv, RegistryInv, RegistryTypeOK
<1>3. Entry(entering[t]) \in TableEntry
  BY <1>1, EntryType
<1>4. \A f \in {"prefix", "init", "priority"} : backends[Slot(t)][f] = Entry(entering[t])[f]
  BY DEF WholeInv, EntryInWork, Fields
<1> DEFINE e == backends[Slot(t)]
           b == Entry(entering[t])
<1>5. e.prefix = b.prefix /\ e.init = b.init /\ e.priority = b.priority
  BY <1>4
<1> HIDE DEF e, b
<1>6. e \in TableEntry /\ b \in TableEntry
  BY <1>2, <1>3 DEF e, b
<1>7. e = b
  BY <1>5, <1>6 DEF TableEntry
<1> QED
  BY <1>7 DEF e, b

LEMMA WholeLeave ==
  ASSUME WholeInv, NEW t \in Thread, LeaveRegisterImpl(t)
  PROVE  EntriesWhole' /\ EntryInWork'
<1>1. /\ pc[t] = "store" /\ unstored[t] = {}
      /\ holder' = [holder EXCEPT !["CeedRegisterImpl"] = NULL]
      /\ UNCHANGED <<backends, num_backends>>
  BY DEF LeaveRegisterImpl, At, tableVars
<1>2. LeftImpl(t)
  BY LeaveImplCases DEF LeaveRegisterImpl, WholeInv, RegistryInv
<1>3. Slot(t) = num_backends /\ num_backends \in 1..TableSize
  BY <1>1, SlotType DEF Slot, WholeInv
<1>4. backends[num_backends] = Entry(entering[t]) /\ entering[t] \in Backend
  BY <1>1, <1>3, EntryComplete DEF WholeInv, RegistryInv, Sections
<1>5. ~InsideImpl' /\ Settled' = num_backends
  BY <1>1 DEF Settled, InsideImpl, WholeInv, RegistryInv, RegistryTypeOK, Section
<1>6. Settled = num_backends - 1
  BY <1>1, <1>3, SettledValue DEF WholeInv
<1>7. /\ \A i \in 1..(num_backends - 1) : \E b \in Backend : backends[i] = Entry(b)
      /\ \A i \in (num_backends + 1)..TableSize : backends[i] = Zero
  BY <1>3, <1>6 DEF WholeInv, EntriesWhole
<1>8. \A i \in 1..num_backends : \E b \in Backend : backends[i] = Entry(b)
  <2>1. \A i \in 1..num_backends : i \in 1..(num_backends - 1) \/ i = num_backends
    BY <1>3
  <2> QED
    BY <1>4, <1>7, <2>1
<1>9. \A i \in (num_backends + 2)..TableSize : backends[i] = Zero
  BY <1>3, <1>7, RegistryAssumption
<1>10. EntriesWhole'
  BY <1>1, <1>5, <1>8, <1>9 DEF EntriesWhole, Entry, PriorityOf, Zero
<1>11. \A u \in Thread : pc'[u] # "store"
  <2>1. pc'[t] # "store" /\ \A u \in Thread : u # t => pc'[u] = pc[u]
    BY <1>2 DEF LeftImpl, WholeInv, RegistryInv, RegistryTypeOK
  <2>2. \A u \in Thread : u # t => pc[u] # "store"
    BY <1>1 DEF WholeInv, RegistryInv, Sections
  <2> QED
    BY <2>1, <2>2
<1> QED
  BY <1>1, <1>5, <1>7, <1>10, <1>11 DEF EntryInWork, Zero

LEMMA WholeInit ==
  ASSUME RegistryInit
  PROVE  WholeInv
<1>1. RegistryInv
  BY InvInit
<1>2. ~InsideImpl /\ num_backends = 0 /\ Settled = 0
  BY DEF RegistryInit, InsideImpl, Settled, Section
<1>3. \A i \in 1..TableSize : backends[i] = Zero
  BY DEF RegistryInit
<1>4. \A t \in Thread : pc[t] # "store"
  BY DEF RegistryInit
<1> QED
  BY <1>1, <1>2, <1>3, <1>4, RegistryAssumption DEF WholeInv, EntriesWhole, EntryInWork

LEMMA WholeNext ==
  ASSUME WholeInv, [RegistryNext]_registryVars
  PROVE  WholeInv'
<1>1. RegistryInv'
  BY InvNext DEF WholeInv
<1> SUFFICES EntriesWhole' /\ EntryInWork'
  BY <1>1 DEF WholeInv
<1> USE DEF WholeInv, RegistryInv, RegistryTypeOK
<1>2. ASSUME NEW t \in Thread, NEW r \in Resource, CallInit(t, r)
      PROVE  EntriesWhole' /\ EntryInWork'
  BY <1>1, <1>2, WholeSame
  DEF CallInit, Call, At, Goto, tableVars, lockVars, registerVars
<1>3. ASSUME NEW t \in Thread, NEW b \in Own, CallRegister(t, b)
      PROVE  EntriesWhole' /\ EntryInWork'
  BY <1>1, <1>3, WholeSame
  DEF CallRegister, Call, At, Goto, tableVars, lockVars, searchVars
<1>4. ASSUME NEW t \in Thread, Step(t)
      PROVE  EntriesWhole' /\ EntryInWork'
  <2>1. CASE SkipRegisterAll(t)
    BY <1>1, <2>1, WholeSame
    DEF SkipRegisterAll, At, Goto, BeginSearch, tableVars, lockVars, registerVars
  <2>2. CASE EnterRegisterAll(t)
    BY <1>1, <2>2, WholeSame DEF EnterRegisterAll, At, Goto, tableVars, Section
  <2>3. CASE RegisterBuiltin(t)
    BY <1>1, <2>3, WholeSame DEF RegisterBuiltin, At, Goto, tableVars, lockVars
  <2>4. CASE LeaveRegisterAll(t)
    <3>1. /\ pc[t] = "builtins"
          /\ UNCHANGED <<backends, num_backends, entering, unstored>>
      BY <2>4 DEF LeaveRegisterAll, At, tableVars, registerVars
    <3>2. LeftAll(t)
      BY <2>4, LeaveAllCases
    <3>3. holder'["CeedRegisterImpl"] = holder["CeedRegisterImpl"]
      BY <3>2 DEF LeftAll
    <3>4. \A u \in Thread : pc'[u] = "store" => pc[u] = "store"
      BY <3>1, <3>2 DEF LeftAll, BeginSearch, Goto
    <3> QED
      BY <1>1, <3>1, <3>3, <3>4, WholeSame
  <2>5. CASE EnterRegisterImpl(t)
    BY <2>5, WholeEnter
  <2>6. CASE TooManyBackends(t)
    <3>1. /\ pc[t] = "RegisterImpl"
          /\ UNCHANGED <<backends, num_backends, holder, unstored>>
      BY <2>6 DEF TooManyBackends, At, tableVars, lockVars
    <3>2. LeftImpl(t)
      BY <2>6, LeaveImplCases DEF TooManyBackends
    <3>3. \A u \in Thread : pc'[u] = "store" => pc[u] = "store" /\ entering'[u] = entering[u]
      BY <3>1, <3>2 DEF LeftImpl
    <3> QED
      BY <1>1, <3>1, <3>3, WholeSame
  <2>7. CASE Store(t)
    BY <2>7, WholeStore
  <2>8. CASE LeaveRegisterImpl(t)
    BY <2>8, WholeLeave
  <2>9. CASE Compare(t)
    BY <1>1, <2>9, WholeSame DEF Compare, tableVars, lockVars, registerVars
  <2>10. CASE EndSearch(t)
    <3>1. UNCHANGED <<backends, num_backends, holder, unstored, entering>>
      BY <2>10 DEF EndSearch, tableVars, lockVars, registerVars
    <3>2. \A u \in Thread : pc'[u] = "store" => pc[u] = "store"
      BY <2>10, EndSearchCases DEF SearchEnded
    <3> QED
      BY <1>1, <3>1, <3>2, WholeSame
  <2>11. CASE CallBackendInit(t)
    <3>1. UNCHANGED <<backends, num_backends, holder, unstored, entering>>
      BY <2>11 DEF CallBackendInit, tableVars, lockVars, registerVars
    <3>2. \A u \in Thread : pc'[u] = "store" => pc[u] = "store"
      BY <2>11 DEF CallBackendInit, Return, Goto
    <3> QED
      BY <1>1, <3>1, <3>2, WholeSame
  <2> QED
    BY <1>4, <2>1, <2>2, <2>3, <2>4, <2>5, <2>6, <2>7, <2>8, <2>9, <2>10, <2>11 DEF Step
<1>5. CASE UNCHANGED registryVars
  BY <1>1, <1>5, WholeSame DEF registryVars, tableVars, lockVars, registerVars
<1> QED
  BY <1>2, <1>3, <1>4, <1>5 DEF RegistryNext, Over

\* No two registrations get into one entry, however many threads register at once and
\* however large the table is (ceed.c:127-137).
THEOREM EntriesWholeCorrect == RegistrySpec => []EntriesWhole
<1>1. RegistryInit => WholeInv
  BY WholeInit
<1>2. WholeInv /\ [RegistryNext]_registryVars => WholeInv'
  BY WholeNext
<1>3. WholeInv => EntriesWhole
  BY DEF WholeInv
<1> QED
  BY <1>1, <1>2, <1>3, PTL DEF RegistrySpec

(***************************************************************************)
(* The built-in backends. One thread goes through them, once; the entry it *)
(* is writing is the only place where one may be before its turn is over.  *)
(***************************************************************************)
Registrar == holder["CeedRegisterAll"]

\* How many built-in backends have been registered, or have found the table full.
Attempted ==
  IF register_all_called THEN Len(Builtin)
  ELSE IF Registrar = NULL THEN 0
  ELSE IF pc[Registrar] = "builtins" THEN builtin[Registrar] ELSE builtin[Registrar] - 1

\* Who registers what.
Callers ==
  /\ \A t \in Thread : pc[t] \in {"search", "init"} => register_all_called
  /\ \A t \in Thread : Registrar = t => ~register_all_called
  /\ \A t \in Thread : pc[t] \in {"RegisterImpl", "store"} =>
       IF Registrar = t
       THEN builtin[t] \in 1..Len(Builtin) /\ entering[t] = Builtin[builtin[t]]
       ELSE entering[t] \in Own
  /\ \A t \in Thread : Registrar = t /\ ierr[t] => num_backends = TableSize

Absent ==
  \A k \in (Attempted + 1)..Len(Builtin) : \A i \in 1..TableSize :
    backends[i].prefix = Builtin[k] =>
      \E t \in Thread : Registrar = t /\ pc[t] = "store" /\ i = Slot(t) /\ k = builtin[t]

Unique ==
  \A k \in 1..Len(Builtin) : \A i, j \in 1..TableSize :
    backends[i].prefix = Builtin[k] /\ backends[j].prefix = Builtin[k] => i = j

Present ==
  \A k \in 1..Attempted :
    num_backends = TableSize \/ \E i \in 1..num_backends : backends[i].prefix = Builtin[k]

BuiltinInv == WholeInv /\ Callers /\ Absent /\ Unique /\ Present

\* The built-in backends are not the application's own, and differ from each other.
LEMMA BuiltinNames ==
  /\ Len(Builtin) \in Nat
  /\ \A k \in 1..Len(Builtin) : Builtin[k] \in Backend /\ Builtin[k] # NULL /\ Builtin[k] \notin Own
  /\ \A k, l \in 1..Len(Builtin) : Builtin[k] = Builtin[l] => k = l
<1>1. Len(Builtin) \in Nat /\ DOMAIN Builtin = 1..Len(Builtin)
  BY RegistryAssumption
<1>2. \A k \in 1..Len(Builtin) : Builtin[k] \in Backend
  BY RegistryAssumption
<1> QED
  BY <1>1, <1>2, RegistryAssumption DEF Own

\* While a thread registers the built-in backends the count stands at its own.
LEMMA AttemptedValue ==
  ASSUME RegistryInv, Callers
  PROVE  /\ Attempted \in 0..Len(Builtin)
         /\ \A t \in Thread : Registrar = t =>
              Attempted = IF pc[t] = "builtins" THEN builtin[t] ELSE builtin[t] - 1
<1>1. Len(Builtin) \in Nat /\ NULL \notin Thread
  BY RegistryAssumption
<1>2. Registrar \in Thread \cup {NULL}
  BY DEF RegistryInv, RegistryTypeOK, Registrar, Section
<1>3. \A t \in Thread : Registrar = t =>
        /\ ~register_all_called
        /\ pc[t] \in {"builtins", "RegisterImpl", "store"}
        /\ builtin[t] \in 0..Len(Builtin)
        /\ pc[t] # "builtins" => builtin[t] \in 1..Len(Builtin)
  BY DEF RegistryInv, RegistryTypeOK, Sections, Callers, Registrar
<1> QED
  BY <1>1, <1>2, <1>3 DEF Attempted

LEMMA CallersNext ==
  ASSUME RegistryInv, Callers, RegistryInv', [RegistryNext]_registryVars
  PROVE  Callers'
<1> USE DEF RegistryInv, RegistryTypeOK, Callers, Registrar
<1>0. NULL \notin Thread /\ Len(Builtin) \in Nat /\ TableSize \in Nat
  BY RegistryAssumption
<1>1. ASSUME NEW t \in Thread, NEW r \in Resource, CallInit(t, r)
      PROVE  Callers'
  BY <1>1 DEF CallInit, Call, At, Goto, tableVars, lockVars, registerVars
<1>2. ASSUME NEW t \in Thread, NEW b \in Own, CallRegister(t, b)
      PROVE  Callers'
  <2>1. holder["CeedRegisterAll"] # t
    BY <1>2 DEF CallRegister, Call, At, Sections
  <2> QED
    BY <1>2, <2>1 DEF CallRegister, Call, At, Goto, tableVars, lockVars, searchVars
<1>3. ASSUME NEW t \in Thread, Step(t)
      PROVE  Callers'
  <2>1. CASE SkipRegisterAll(t)
    BY <2>1 DEF SkipRegisterAll, At, Goto, BeginSearch, tableVars, lockVars, registerVars
  <2>2. CASE EnterRegisterAll(t)
    <3>1. /\ pc[t] = "RegisterAll" /\ ~register_all_called
          /\ holder["CeedRegisterAll"] = NULL
          /\ holder' = [holder EXCEPT !["CeedRegisterAll"] = t]
          /\ ierr' = [ierr EXCEPT ![t] = FALSE]
          /\ pc' = [pc EXCEPT ![t] = "builtins"]
          /\ builtin' = [builtin EXCEPT ![t] = 0]
          /\ UNCHANGED <<num_backends, register_all_called, entering>>
      BY <2>2 DEF EnterRegisterAll, At, Goto, tableVars
    <3>2. ~ierr'[t]
      BY <3>1
    <3> QED
      BY <1>0, <3>1, <3>2 DEF Section
  <2>3. CASE RegisterBuiltin(t)
    <3>1. holder["CeedRegisterAll"] = t
      BY <2>3 DEF RegisterBuiltin, At, Sections
    <3>2. builtin[t] + 1 \in 1..Len(Builtin)
      BY <1>0, <2>3 DEF RegisterBuiltin
    <3> QED
      BY <2>3, <3>1, <3>2 DEF RegisterBuiltin, At, Goto, tableVars, lockVars
  <2>4. CASE LeaveRegisterAll(t)
    <3>1. /\ pc[t] = "builtins" /\ holder["CeedRegisterAll"] = t
          /\ register_all_called' = TRUE
          /\ UNCHANGED <<num_backends, entering, builtin, ierr>>
      BY <2>4 DEF LeaveRegisterAll, At, Sections, tableVars, registerVars
    <3>2. LeftAll(t)
      BY <2>4, LeaveAllCases
    <3>3. \A u \in Thread : holder'["CeedRegisterAll"] # u
      BY <1>0, <3>2 DEF LeftAll, Section
    <3>4. \A u \in Thread : pc'[u] \in {"RegisterImpl", "store"} =>
            pc[u] \in {"RegisterImpl", "store"} /\ u # t
      BY <3>1, <3>2, SMTT(30) DEF LeftAll, BeginSearch, Goto
    <3>5. \A u \in Thread : pc'[u] \in {"RegisterImpl", "store"} => entering'[u] \in Own
      BY <3>1, <3>4
    <3> QED
      BY <3>1, <3>3, <3>5
  <2>5. CASE EnterRegisterImpl(t)
    BY <2>5 DEF EnterRegisterImpl, At, Goto, tableVars, Section
  <2>6. CASE TooManyBackends(t)
    <3>1. /\ pc[t] = "RegisterImpl" /\ num_backends = TableSize
          /\ UNCHANGED <<num_backends, register_all_called, holder, builtin>>
      BY <2>6 DEF TooManyBackends, At, tableVars, lockVars
    <3>2. LeftImpl(t)
      BY <2>6, LeaveImplCases DEF TooManyBackends
    <3>3. \A u \in Thread : pc'[u] \in {"RegisterImpl", "store"} =>
            pc[u] = pc'[u] /\ entering'[u] = entering[u]
      BY <3>2, LeftImplPlaces
    <3>4. \A u \in Thread : pc'[u] \notin {"search", "init"} \/ pc'[u] = pc[u]
      BY <3>2, LeftImplPlaces
    <3> QED
      BY <3>1, <3>3, <3>4
  <2>7. CASE Store(t)
    <3>1. /\ pc[t] = "store"
          /\ UNCHANGED <<register_all_called, holder, entering, builtin, ierr, pc>>
      BY <2>7 DEF Store, At, lockVars
    <3>2. num_backends' = num_backends \/ num_backends < TableSize
      <4>1. num_backends' = num_backends \/ "num_backends" \in unstored[t]
        BY <2>7 DEF Store
      <4> QED
        BY <3>1, <4>1 DEF SlotFits
    <3>3. ASSUME NEW u \in Thread, holder'["CeedRegisterAll"] = u, ierr'[u]
          PROVE  num_backends' = TableSize
      BY <1>0, <3>1, <3>2, <3>3
    <3> QED
      BY <3>1, <3>3
  <2>8. CASE LeaveRegisterImpl(t)
    <3>1. /\ pc[t] = "store"
          /\ holder' = [holder EXCEPT !["CeedRegisterImpl"] = NULL]
          /\ UNCHANGED <<num_backends, register_all_called, builtin>>
      BY <2>8 DEF LeaveRegisterImpl, At, tableVars
    <3>2. LeftImpl(t)
      BY <2>8, LeaveImplCases DEF LeaveRegisterImpl
    <3>3. \A u \in Thread : pc'[u] \in {"RegisterImpl", "store"} =>
            pc[u] = pc'[u] /\ entering'[u] = entering[u]
      BY <3>2, LeftImplPlaces
    <3>4. \A u \in Thread : pc'[u] \notin {"search", "init"} \/ pc'[u] = pc[u]
      BY <3>2, LeftImplPlaces
    <3>5. holder'["CeedRegisterAll"] = holder["CeedRegisterAll"]
      BY <3>1
    <3>6. ASSUME NEW u \in Thread, holder'["CeedRegisterAll"] = u, ierr'[u]
          PROVE  num_backends' = TableSize
      <4>1. CASE u = t
        <5>1. ierr' = [ierr EXCEPT ![t] = FALSE /\ entering[t] \in Weak]
          BY <2>8, <3>5, <3>6, <4>1 DEF LeaveRegisterImpl, LeaveImpl
        <5>2. ierr \in [Thread -> BOOLEAN]
          OBVIOUS
        <5>3. ~ierr'[t]
          BY <5>1, <5>2, Zenon
        <5> QED
          BY <3>6, <4>1, <5>3
      <4>2. CASE u # t
        <5>1. ierr'[u] = ierr[u]
          BY <2>8, <4>2 DEF LeaveRegisterImpl, LeaveImpl
        <5> QED
          BY <3>1, <3>5, <3>6, <5>1
      <4> QED
        BY <4>1, <4>2
    <3> QED
      BY <3>1, <3>3, <3>4, <3>5, <3>6
  <2>9. CASE Compare(t)
    BY <2>9 DEF Compare, tableVars, lockVars, registerVars
  <2>10. CASE EndSearch(t)
    <3>1. /\ pc[t] = "search"
          /\ UNCHANGED <<num_backends, register_all_called, holder, entering, builtin, ierr>>
      BY <2>10 DEF EndSearch, At, tableVars, lockVars, registerVars
    <3>2. \A u \in Thread : pc'[u] = pc[u] \/ (u = t /\ pc'[u] \in {"idle", "init"})
      <4>1. SearchEnded(t)
        BY <2>10, EndSearchCases
      <4> QED
        BY <4>1, SearchEndedPlaces
    <3> QED
      BY <3>1, <3>2
  <2>11. CASE CallBackendInit(t)
    <3>1. /\ pc[t] = "init"
          /\ UNCHANGED <<num_backends, register_all_called, holder, entering, builtin, ierr>>
      BY <2>11 DEF CallBackendInit, At, tableVars, lockVars, registerVars
    <3>2. \A u \in Thread : pc'[u] = pc[u] \/ (u = t /\ pc'[u] \in {"idle", "crashed"})
      BY <2>11 DEF CallBackendInit, Return, Goto
    <3> QED
      BY <3>1, <3>2
  <2> QED
    BY <1>3, <2>1, <2>2, <2>3, <2>4, <2>5, <2>6, <2>7, <2>8, <2>9, <2>10, <2>11 DEF Step
<1>4. CASE UNCHANGED registryVars
  BY <1>4 DEF registryVars, tableVars, lockVars, registerVars, searchVars
<1> QED
  BY <1>1, <1>2, <1>3, <1>4 DEF RegistryNext, Over

\* Steps that leave the table and the entry of the registrar alone.
LEMMA TableSame ==
  ASSUME BuiltinInv,
         UNCHANGED <<backends, num_backends>>, Attempted' = Attempted,
         \A t \in Thread : Registrar = t /\ pc[t] = "store" =>
           /\ Registrar' = t /\ pc'[t] = "store"
           /\ builtin'[t] = builtin[t] /\ unstored'[t] = unstored[t]
  PROVE  Absent' /\ Unique' /\ Present'
<1>1. Unique' /\ Present'
  BY DEF BuiltinInv, Unique, Present
<1>2. \A t \in Thread : Registrar = t /\ pc[t] = "store" => Slot(t)' = Slot(t)
  BY DEF Slot
<1>3. Absent'
  BY <1>2 DEF BuiltinInv, Absent, Slot
<1> QED
  BY <1>1, <1>3

\* The turn of the built-in backend the registrar was at is over.
LEMMA TableAdvance ==
  ASSUME BuiltinInv, NEW t \in Thread, Registrar = t, pc[t] \in {"RegisterImpl", "store"},
         UNCHANGED <<backends, num_backends>>, Attempted' = builtin[t],
         \/ num_backends = TableSize
         \/ /\ pc[t] = "store" /\ unstored[t] = {}
  PROVE  Absent' /\ Unique' /\ Present'
<1>1. /\ builtin[t] \in 1..Len(Builtin) /\ entering[t] = Builtin[builtin[t]]
      /\ Attempted = builtin[t] - 1
  BY AttemptedValue DEF BuiltinInv, WholeInv, Callers
<1>2. Unique'
  BY DEF BuiltinInv, Unique
<1>3. Len(Builtin) \in Nat
  BY BuiltinNames
<1>4. Absent'
  <2>1. SUFFICES ASSUME NEW k \in (builtin[t] + 1)..Len(Builtin), NEW i \in 1..TableSize,
                        backends[i].prefix = Builtin[k]
                 PROVE  FALSE
    BY DEF Absent
  <2>2. k \in (Attempted + 1)..Len(Builtin)
    BY <1>1, <1>3
  <2>3. k = builtin[t]
    BY <2>1, <2>2 DEF BuiltinInv, Absent
  <2> QED
    BY <1>1, <1>3, <2>3
<1>5. Present'
  <2>1. CASE num_backends = TableSize
    BY <2>1 DEF Present
  <2>2. CASE pc[t] = "store" /\ unstored[t] = {}
    <3>1. Slot(t) = num_backends /\ num_backends \in 1..TableSize
      BY <2>2, SlotType DEF Slot, BuiltinInv, WholeInv
    <3>2. backends[num_backends].prefix = Builtin[builtin[t]]
      <4>1. backends[Slot(t)] = Entry(entering[t])
        BY <2>2, EntryComplete DEF BuiltinInv
      <4> QED
        BY <1>1, <3>1, <4>1 DEF Entry
    <3>3. \A k \in 1..builtin[t] : k \in 1..Attempted \/ k = builtin[t]
      BY <1>1
    <3>4. num_backends \in 1..num_backends
      BY <3>1, RegistryAssumption
    <3> QED
      BY <3>2, <3>3, <3>4 DEF BuiltinInv, Present
  <2> QED
    BY <2>1, <2>2
<1> QED
  BY <1>2, <1>4, <1>5

\* A store: only the name of the entry and the count matter.
LEMMA TableStore ==
  ASSUME BuiltinInv, NEW t \in Thread, Store(t)
  PROVE  Absent' /\ Unique' /\ Present'
<1>1. /\ pc[t] = "store"
      /\ UNCHANGED <<register_all_called, holder, entering, builtin, pc>>
  BY DEF Store, At, lockVars
<1>2. PICK f \in unstored[t] :
         /\ unstored' = [unstored EXCEPT ![t] = @ \ {f}]
         /\ \/ /\ f = "num_backends"
               /\ num_backends' = num_backends + 1
               /\ backends' = backends
            \/ /\ f \in {"prefix", "init", "priority"}
               /\ num_backends' = num_backends
               /\ backends' = [backends EXCEPT ![Slot(t)] =
                                 [backends[Slot(t)] EXCEPT ![f] = Entry(entering[t])[f]]]
  BY StoreCases DEF BuiltinInv, WholeInv
<1>3. /\ Slot(t) \in 1..TableSize
      /\ entering[t] \in Backend
      /\ backends \in [1..TableSize -> TableEntry]
      /\ backends[Slot(t)] \in TableEntry
      /\ num_backends \in 0..TableSize
  BY <1>1, SlotType DEF BuiltinInv, WholeInv, RegistryInv, RegistryTypeOK, Sections
<1>4. Attempted' = Attempted /\ Registrar' = Registrar
  BY <1>1 DEF Attempted, Registrar
<1>5. TableSize \in Nat /\ Len(Builtin) \in Nat
  BY RegistryAssumption
<1>6. \A u \in Thread : Registrar = u /\ pc[u] = "store" => Slot(u)' = Slot(u)
  <2>1. ASSUME NEW u \in Thread, pc[u] = "store" PROVE u = t
    BY <1>1, <2>1 DEF BuiltinInv, WholeInv, RegistryInv, Sections
  <2>2. CASE f = "num_backends"
    BY <1>2, <1>3, <1>5, <2>1, <2>2 DEF Slot, BuiltinInv, WholeInv, RegistryInv, RegistryTypeOK
  <2>3. CASE f \in {"prefix", "init", "priority"}
    BY <1>2, <2>1, <2>3 DEF Slot, BuiltinInv, WholeInv, RegistryInv, RegistryTypeOK
  <2> QED
    BY <1>2, <2>2, <2>3
<1>7. CASE f # "prefix"
  <2>1. \A i \in 1..TableSize : backends'[i].prefix = backends[i].prefix
    <3>1. CASE f = "num_backends"
      BY <1>2, <3>1
    <3>2. CASE f \in {"init", "priority"}
      <4>1. \A i \in 1..TableSize : i # Slot(t) => backends'[i] = backends[i]
        BY <1>2, <1>3, <3>2
      <4>2. backends'[Slot(t)] = Stored(backends[Slot(t)], f, Entry(entering[t])[f])
        BY <1>2, <1>3, <3>2 DEF Stored
      <4>3. backends'[Slot(t)]["prefix"] = backends[Slot(t)]["prefix"]
        BY <1>3, <3>2, <4>2, StoredType
      <4> QED
        BY <4>1, <4>3
    <3> QED
      BY <1>2, <1>7, <3>1, <3>2
  <2>2. \/ num_backends' = num_backends
        \/ num_backends < TableSize /\ num_backends' = num_backends + 1
    <3>1. "num_backends" \in unstored[t] => num_backends < TableSize
      BY <1>1 DEF BuiltinInv, WholeInv, RegistryInv, SlotFits
    <3> QED
      BY <1>2, <3>1
  <2>3. Unique'
    BY <2>1 DEF BuiltinInv, Unique
  <2>4. Present'
    <3>1. ASSUME NEW k \in 1..Attempted
          PROVE  num_backends' = TableSize
                 \/ \E i \in 1..num_backends' : backends'[i].prefix = Builtin[k]
      <4>1. CASE num_backends = TableSize
        BY <1>3, <1>5, <2>2, <4>1
      <4>2. CASE num_backends # TableSize
        <5>1. PICK i \in 1..num_backends : backends[i].prefix = Builtin[k]
          BY <4>2 DEF BuiltinInv, Present
        <5>2. i \in 1..num_backends' /\ i \in 1..TableSize
          BY <1>3, <1>5, <2>2
        <5> QED
          BY <2>1, <5>1, <5>2
      <4> QED
        BY <4>1, <4>2
    <3> QED
      BY <1>4, <3>1 DEF Present
  <2>5. Absent'
    BY <1>1, <1>4, <1>6, <2>1 DEF BuiltinInv, Absent, Slot
  <2> QED
    BY <2>3, <2>4, <2>5
<1>8. CASE f = "prefix"
  <2>1. num_backends' = num_backends
    BY <1>2, <1>8
  <2>2. \A i \in 1..TableSize : i # Slot(t) => backends'[i] = backends[i]
    BY <1>2, <1>3, <1>8
  <2>3. backends'[Slot(t)].prefix = entering[t] /\ backends[Slot(t)].prefix = NULL
    <3>1. backends'[Slot(t)] = Stored(backends[Slot(t)], f, Entry(entering[t])[f])
      BY <1>2, <1>3, <1>8 DEF Stored
    <3>2. backends'[Slot(t)]["prefix"] = Entry(entering[t])["prefix"]
      BY <1>3, <1>8, <3>1, StoredType
    <3> QED
      BY <1>1, <1>2, <1>8, <3>2 DEF Entry, BuiltinInv, WholeInv, EntryInWork
  <2>4. \A k \in 1..Len(Builtin) : entering[t] = Builtin[k] =>
          /\ Registrar = t /\ k = builtin[t]
          /\ Attempted = k - 1
    <3>1. SUFFICES ASSUME NEW k \in 1..Len(Builtin), entering[t] = Builtin[k]
                   PROVE  Registrar = t /\ k = builtin[t] /\ Attempted = k - 1
      OBVIOUS
    <3>2. Registrar = t /\ builtin[t] \in 1..Len(Builtin) /\ entering[t] = Builtin[builtin[t]]
      BY <1>1, <3>1, BuiltinNames DEF BuiltinInv, Callers
    <3>3. k = builtin[t]
      BY <3>1, <3>2, BuiltinNames
    <3> QED
      BY <1>1, <3>2, <3>3, AttemptedValue DEF BuiltinInv, WholeInv
  <2>5. \A k \in 1..Len(Builtin) : \A i \in 1..TableSize :
          backends'[i].prefix = Builtin[k] /\ i # Slot(t) => backends[i].prefix = Builtin[k]
    BY <2>2
  <2>6. Absent'
    <3>1. ASSUME NEW k \in (Attempted + 1)..Len(Builtin), NEW i \in 1..TableSize,
                 backends'[i].prefix = Builtin[k]
          PROVE  \E u \in Thread : Registrar = u /\ pc[u] = "store" /\ i = Slot(u) /\ k = builtin[u]
      <4>1. k \in 1..Len(Builtin)
        BY <1>5, AttemptedValue DEF BuiltinInv, WholeInv
      <4>2. CASE i = Slot(t)
        BY <1>1, <2>3, <2>4, <3>1, <4>1, <4>2
      <4>3. CASE i # Slot(t)
        BY <2>2, <3>1, <4>3 DEF BuiltinInv, Absent
      <4> QED
        BY <4>2, <4>3
    <3> QED
      BY <1>1, <1>4, <1>6, <3>1 DEF Absent, Slot
  <2>7. Unique'
    <3>1. ASSUME NEW k \in 1..Len(Builtin), NEW j \in 1..TableSize,
                 backends'[j].prefix = Builtin[k], entering[t] = Builtin[k]
          PROVE  j = Slot(t)
      <4>1. Registrar = t /\ k = builtin[t] /\ Attempted = k - 1
        BY <2>4, <3>1
      <4>2. k \in (Attempted + 1)..Len(Builtin)
        BY <1>5, <4>1
      <4>3. CASE j # Slot(t)
        <5>1. backends[j].prefix = Builtin[k]
          BY <2>2, <3>1, <4>3
        <5>2. PICK u \in Thread : Registrar = u /\ j = Slot(u)
          BY <4>2, <5>1 DEF BuiltinInv, Absent
        <5> QED
          BY <4>1, <5>2
      <4> QED
        BY <4>3
    <3>2. ASSUME NEW k \in 1..Len(Builtin), NEW i \in 1..TableSize, NEW j \in 1..TableSize,
                 backends'[i].prefix = Builtin[k], backends'[j].prefix = Builtin[k]
          PROVE  i = j
      <4>1. CASE entering[t] = Builtin[k]
        BY <3>1, <3>2, <4>1
      <4>2. CASE entering[t] # Builtin[k]
        BY <2>2, <2>3, <3>2, <4>2 DEF BuiltinInv, Unique
      <4> QED
        BY <4>1, <4>2
    <3> QED
      BY <3>2 DEF Unique
  <2>8. Present'
    <3>1. ASSUME NEW k \in 1..Attempted
          PROVE  num_backends = TableSize
                 \/ \E i \in 1..num_backends : backends'[i].prefix = Builtin[k]
      <4>1. k \in 1..Len(Builtin)
        BY <1>5, AttemptedValue DEF BuiltinInv, WholeInv
      <4>2. CASE num_backends = TableSize
        BY <4>2
      <4>3. CASE num_backends # TableSize
        <5>1. PICK i \in 1..num_backends : backends[i].prefix = Builtin[k]
          BY <4>3 DEF BuiltinInv, Present
        <5>2. i # Slot(t)
          BY <2>3, <4>1, <5>1, BuiltinNames
        <5>3. i \in 1..TableSize
          BY <1>3, <1>5
        <5> QED
          BY <2>2, <5>1, <5>2, <5>3
      <4> QED
        BY <4>2, <4>3
    <3> QED
      BY <1>4, <2>1, <3>1 DEF Present
  <2> QED
    BY <2>6, <2>7, <2>8
<1> QED
  BY <1>7, <1>8

LEMMA BuiltinInit ==
  ASSUME RegistryInit
  PROVE  BuiltinInv
<1>1. WholeInv
  BY WholeInit
<1>2. Callers
  BY RegistryAssumption DEF RegistryInit, Callers, Registrar, Section
<1>3. Attempted = 0
  BY DEF RegistryInit, Attempted, Registrar, Section
<1>4. \A i \in 1..TableSize : backends[i].prefix = NULL
  BY DEF RegistryInit, Zero
<1>5. Absent /\ Unique /\ Present
  BY <1>3, <1>4, BuiltinNames DEF Absent, Unique, Present
<1> QED
  BY <1>1, <1>2, <1>5 DEF BuiltinInv

LEMMA BuiltinNext ==
  ASSUME BuiltinInv, [RegistryNext]_registryVars
  PROVE  BuiltinInv'
<1>1. WholeInv' /\ RegistryInv'
  BY WholeNext, InvNext DEF BuiltinInv, WholeInv
<1>2. Callers'
  BY <1>1, CallersNext DEF BuiltinInv, WholeInv
<1> SUFFICES Absent' /\ Unique' /\ Present'
  BY <1>1, <1>2 DEF BuiltinInv
<1> USE DEF BuiltinInv, WholeInv, RegistryInv, RegistryTypeOK
<1>0. NULL \notin Thread /\ Len(Builtin) \in Nat
  BY RegistryAssumption
<1>3. ASSUME NEW t \in Thread, NEW r \in Resource, CallInit(t, r)
      PROVE  Absent' /\ Unique' /\ Present'
  <2>1. /\ pc[t] = "idle" /\ pc' = [pc EXCEPT ![t] = "RegisterAll"]
        /\ UNCHANGED <<backends, num_backends, register_all_called, holder, builtin, unstored>>
    BY <1>3 DEF CallInit, Call, At, Goto, tableVars, lockVars, registerVars
  <2>2. Attempted' = Attempted
    BY <1>0, <2>1 DEF Attempted, Registrar, Sections, Section
  <2> QED
    BY <2>1, <2>2, TableSame DEF Registrar
<1>4. ASSUME NEW t \in Thread, NEW b \in Own, CallRegister(t, b)
      PROVE  Absent' /\ Unique' /\ Present'
  <2>1. /\ pc[t] = "idle" /\ pc' = [pc EXCEPT ![t] = "RegisterImpl"]
        /\ UNCHANGED <<backends, num_backends, register_all_called, holder, builtin, unstored>>
    BY <1>4 DEF CallRegister, Call, At, Goto, tableVars, lockVars, searchVars
  <2>2. Attempted' = Attempted
    BY <1>0, <2>1 DEF Attempted, Registrar, Sections, Section
  <2> QED
    BY <2>1, <2>2, TableSame DEF Registrar
<1>5. ASSUME NEW t \in Thread, Step(t)
      PROVE  Absent' /\ Unique' /\ Present'
  <2>1. CASE SkipRegisterAll(t)
    <3>1. /\ pc[t] = "RegisterAll" /\ pc' = [pc EXCEPT ![t] = "search"]
          /\ UNCHANGED <<backends, num_backends, register_all_called, holder, builtin, unstored>>
      BY <2>1 DEF SkipRegisterAll, At, Goto, BeginSearch, tableVars, lockVars, registerVars
    <3>2. Attempted' = Attempted
      BY <1>0, <3>1 DEF Attempted, Registrar, Sections, Section
    <3> QED
      BY <3>1, <3>2, TableSame DEF Registrar
  <2>2. CASE EnterRegisterAll(t)
    <3>1. /\ ~register_all_called /\ holder["CeedRegisterAll"] = NULL
          /\ holder'["CeedRegisterAll"] = t
          /\ pc'[t] = "builtins" /\ builtin'[t] = 0
          /\ UNCHANGED <<backends, num_backends, register_all_called>>
      BY <2>2 DEF EnterRegisterAll, At, Goto, tableVars, Section
    <3>2. Attempted' = Attempted
      BY <1>0, <3>1 DEF Attempted, Registrar
    <3> QED
      BY <1>0, <3>1, <3>2, TableSame DEF Registrar
  <2>3. CASE RegisterBuiltin(t)
    <3>1. /\ pc[t] = "builtins" /\ holder["CeedRegisterAll"] = t
          /\ pc' = [pc EXCEPT ![t] = "RegisterImpl"]
          /\ builtin' = [builtin EXCEPT ![t] = @ + 1]
          /\ UNCHANGED <<backends, num_backends, register_all_called, holder, unstored>>
      BY <2>3 DEF RegisterBuiltin, At, Goto, Sections, tableVars, lockVars
    <3>2. builtin[t] + 1 - 1 = builtin[t] /\ builtin'[t] = builtin[t] + 1
      BY <1>0, <3>1
    <3>3. Attempted' = Attempted
      BY <1>0, <3>1, <3>2 DEF Attempted, Registrar
    <3> QED
      BY <3>1, <3>3, TableSame DEF Registrar
  <2>4. CASE LeaveRegisterAll(t)
    <3>1. /\ pc[t] = "builtins" /\ Registrar = t
          /\ builtin[t] = Len(Builtin) \/ ierr[t]
          /\ register_all_called' = TRUE
          /\ UNCHANGED <<backends, num_backends>>
      BY <2>4 DEF LeaveRegisterAll, At, Sections, Registrar, tableVars
    <3>2. Attempted = builtin[t] /\ Attempted' = Len(Builtin) /\ Attempted \in 0..Len(Builtin)
      BY <3>1, AttemptedValue DEF Attempted
    <3>3. Unique'
      BY <3>1 DEF Unique
    <3>4. Absent'
      BY <1>0, <3>2 DEF Absent
    <3>5. Present'
      <4>1. CASE builtin[t] = Len(Builtin)
        BY <3>1, <3>2, <4>1 DEF Present
      <4>2. CASE ierr[t]
        BY <3>1, <4>2 DEF Present, Callers
      <4> QED
        BY <3>1, <4>1, <4>2
    <3> QED
      BY <3>3, <3>4, <3>5
  <2>5. CASE EnterRegisterImpl(t)
    <3>1. /\ pc[t] = "RegisterImpl" /\ pc' = [pc EXCEPT ![t] = "store"]
          /\ holder["CeedRegisterImpl"] = NULL
          /\ holder'["CeedRegisterAll"] = holder["CeedRegisterAll"]
          /\ UNCHANGED <<backends, num_backends, register_all_called, builtin>>
      BY <2>5 DEF EnterRegisterImpl, At, Goto, tableVars, Section
    <3>2. Attempted' = Attempted
      BY <1>0, <3>1 DEF Attempted, Registrar, Section
    <3>3. \A u \in Thread : pc[u] # "store"
      BY <1>0, <3>1 DEF Sections
    <3> QED
      BY <3>1, <3>2, <3>3, TableSame
  <2>6. CASE TooManyBackends(t)
    <3>1. /\ pc[t] = "RegisterImpl" /\ num_backends = TableSize
          /\ UNCHANGED <<backends, num_backends, register_all_called, holder, builtin, unstored>>
      BY <2>6 DEF TooManyBackends, At, tableVars, lockVars
    <3>2. LeftImpl(t)
      BY <2>6, LeaveImplCases DEF TooManyBackends
    <3>3. CASE Registrar = t
      <4>1. pc'[t] = "builtins"
        BY <3>2, <3>3 DEF LeftImpl, Registrar
      <4>2. ~register_all_called
        BY <3>3 DEF Callers
      <4>3. Attempted' = builtin[t]
        BY <1>0, <3>1, <3>3, <4>1, <4>2 DEF Attempted, Registrar
      <4> QED
        BY <3>1, <3>3, <4>3, TableAdvance
    <3>4. CASE Registrar # t
      <4>1. \A u \in Thread : u # t => pc'[u] = pc[u]
        BY <3>2 DEF LeftImpl
      <4>2. Registrar' = Registrar /\ Registrar \in Thread \cup {NULL}
        BY <3>1 DEF Registrar, Section
      <4>3. Attempted' = Attempted
        BY <3>1, <3>4, <4>1, <4>2 DEF Attempted
      <4> QED
        BY <3>1, <3>4, <4>1, <4>2, <4>3, TableSame
    <3> QED
      BY <3>3, <3>4
  <2>7. CASE Store(t)
    BY <2>7, TableStore
  <2>8. CASE LeaveRegisterImpl(t)
    <3>1. /\ pc[t] = "store" /\ unstored[t] = {}
          /\ holder'["CeedRegisterAll"] = holder["CeedRegisterAll"]
          /\ UNCHANGED <<backends, num_backends, register_all_called, builtin, unstored>>
      BY <2>8 DEF LeaveRegisterImpl, At, tableVars
    <3>2. LeftImpl(t)
      BY <2>8, LeaveImplCases DEF LeaveRegisterImpl
    <3>3. CASE Registrar = t
      <4>1. pc'[t] = "builtins"
        BY <3>2, <3>3 DEF LeftImpl, Registrar
      <4>2. ~register_all_called
        BY <3>3 DEF Callers
      <4>3. Attempted' = builtin[t]
        BY <1>0, <3>1, <3>3, <4>1, <4>2 DEF Attempted, Registrar
      <4> QED
        BY <3>1, <3>3, <4>3, TableAdvance
    <3>4. CASE Registrar # t
      <4>1. \A u \in Thread : u # t => pc'[u] = pc[u]
        BY <3>2 DEF LeftImpl
      <4>2. Registrar' = Registrar /\ Registrar \in Thread \cup {NULL}
        BY <3>1 DEF Registrar, Section
      <4>3. Attempted' = Attempted
        BY <3>1, <3>4, <4>1, <4>2 DEF Attempted
      <4> QED
        BY <3>1, <3>4, <4>1, <4>2, <4>3, TableSame
    <3> QED
      BY <3>3, <3>4
  <2>9. CASE Compare(t)
    BY <2>9, TableSame
    DEF Compare, Attempted, Registrar, tableVars, lockVars, registerVars
  <2>10. CASE EndSearch(t)
    <3>1. /\ pc[t] = "search"
          /\ UNCHANGED <<backends, num_backends, register_all_called, holder, builtin, unstored>>
      BY <2>10 DEF EndSearch, At, tableVars, lockVars, registerVars
    <3>2. \A u \in Thread : u # t => pc'[u] = pc[u]
      BY <2>10 DEF EndSearch, Return, Goto
    <3>3. Registrar' = Registrar /\ Registrar \in (Thread \ {t}) \cup {NULL}
      BY <3>1 DEF Registrar, Section, Sections
    <3>4. Attempted' = Attempted
      BY <3>1, <3>2, <3>3 DEF Attempted
    <3> QED
      BY <1>0, <3>1, <3>2, <3>3, <3>4, TableSame
  <2>11. CASE CallBackendInit(t)
    <3>1. /\ pc[t] = "init"
          /\ UNCHANGED <<backends, num_backends, register_all_called, holder, builtin, unstored>>
      BY <2>11 DEF CallBackendInit, At, tableVars, lockVars, registerVars
    <3>2. \A u \in Thread : u # t => pc'[u] = pc[u]
      BY <2>11 DEF CallBackendInit, Return, Goto
    <3>3. Registrar' = Registrar /\ Registrar \in (Thread \ {t}) \cup {NULL}
      BY <3>1 DEF Registrar, Section, Sections
    <3>4. Attempted' = Attempted
      BY <3>1, <3>2, <3>3 DEF Attempted
    <3> QED
      BY <1>0, <3>1, <3>2, <3>3, <3>4, TableSame
  <2> QED
    BY <1>5, <2>1, <2>2, <2>3, <2>4, <2>5, <2>6, <2>7, <2>8, <2>9, <2>10, <2>11 DEF Step
<1>6. CASE UNCHANGED registryVars
  BY <1>6, TableSame DEF Attempted, Registrar, registryVars, tableVars, lockVars, registerVars
<1> QED
  BY <1>3, <1>4, <1>5, <1>6 DEF RegistryNext, Over

LEMMA BuiltinSafe ==
  ASSUME BuiltinInv
  PROVE  BuiltinsBeforeSearch
<1>1. \A t \in Thread : pc[t] \in {"search", "init"} => register_all_called
  BY DEF BuiltinInv, Callers
<1>2. ASSUME register_all_called, NEW b \in Backend \ Own
      PROVE  LET copies == {i \in 1..num_backends : backends[i].prefix = b}
             IN IF copies = {} THEN num_backends = TableSize ELSE Cardinality(copies) = 1
  <2> DEFINE copies == {i \in 1..num_backends : backends[i].prefix = b}
  <2>1. PICK k \in 1..Len(Builtin) : Builtin[k] = b
    BY RegistryAssumption DEF Own
  <2>2. Attempted = Len(Builtin)
    BY <1>2 DEF Attempted
  <2>3. num_backends \in 0..TableSize /\ TableSize \in Nat
    BY RegistryAssumption DEF BuiltinInv, WholeInv, RegistryInv, RegistryTypeOK
  <2>4. CASE copies = {}
    BY <2>1, <2>2, <2>4 DEF BuiltinInv, Present
  <2>5. CASE copies # {}
    <3>1. PICK i \in 1..num_backends : backends[i].prefix = b
      BY <2>5
    <3>2. \A j \in copies : j = i
      BY <2>1, <2>3, <3>1 DEF BuiltinInv, Unique
    <3>3. copies = {i}
      BY <3>1, <3>2
    <3>4. Cardinality({i}) = 1
      BY FS_Singleton
    <3> QED
      BY <2>5, <3>3, <3>4
  <2> QED
    BY <2>4, <2>5
<1> QED
  BY <1>1, <1>2 DEF BuiltinsBeforeSearch

\* Whichever thread comes first, and however many there are, a search finds every built-in
\* backend in the table, once, or a table in which there was no room (ceed-register.c:30-44).
THEOREM BuiltinsBeforeSearchCorrect == RegistrySpec => []BuiltinsBeforeSearch
<1>1. RegistryInit => BuiltinInv
  BY BuiltinInit
<1>2. BuiltinInv /\ [RegistryNext]_registryVars => BuiltinInv'
  BY BuiltinNext
<1>3. BuiltinInv => BuiltinsBeforeSearch
  BY BuiltinSafe
<1> QED
  BY <1>1, <1>2, <1>3, PTL DEF RegistrySpec

(***************************************************************************)
(* The search. Entries whose registration is over do not change any more,  *)
(* and of those behind them a name or a priority, once there, stays: what a search has   *)
(* compared is still true when it ends.                                    *)
(***************************************************************************)
\* What every step leaves of the table.
Grown ==
  /\ Settled' \in Settled..TableSize
  /\ \A i \in 1..Settled : backends'[i] = backends[i]
  /\ \A i \in 1..TableSize :
       /\ backends[i].prefix # NULL => backends'[i].prefix = backends[i].prefix
       /\ backends[i].priority # 0 => backends'[i].priority = backends[i].priority

\* By the priority that was read of it, the match is the best of the settled entries looked at, the
\* first of equal ones.
Compared(t) ==
  /\ match[t].index < match[t].next
  /\ match[t].len # 0 => MatchLength(backends[match[t].index].prefix, resource[t]) = match[t].len
  /\ match[t].index \in 1..settled[t] =>
       match[t].priority = backends[match[t].index].priority
  /\ match[t].index > settled[t] =>
       match[t].priority \in {0, backends[match[t].index].priority}
  /\ \A i \in 1..settled[t] : i < match[t].next =>
       \/ MatchLength(backends[i].prefix, resource[t]) < match[t].len
       \/ /\ MatchLength(backends[i].prefix, resource[t]) = match[t].len
          /\ match[t].len # 0 => Preferred(match[t].priority, match[t].index, i)

SearchOK(t) ==
  /\ pc[t] \in {"search", "init", "crashed"} => settled[t] <= Settled /\ Compared(t)
  /\ pc[t] \in {"init", "crashed"} =>
       /\ match[t].len # 0 /\ match[t].len = Len(resource[t])
       /\ match[t].next > settled[t]
  /\ pc[t] = "idle" /\ result[t] = "none" =>
       /\ settled[t] <= Settled
       /\ \A i \in 1..settled[t] : ~Answers(i, resource[t])

SearchInv == WholeInv /\ \A t \in Thread : SearchOK(t)

\* How many numbers an interval from 1 holds.
LEMMA IntervalSize ==
  ASSUME NEW n \in Nat
  PROVE  IsFiniteSet(1..n) /\ Cardinality(1..n) = n
<1>1. n \in Int /\ 1 \in Int
  OBVIOUS
<1>2. IsFiniteSet(1..n) /\ Cardinality(1..n) = IF 1 > n THEN 0 ELSE n - 1 + 1
  BY <1>1, FS_Interval
<1> QED
  BY <1>2, SMT

\* A match is no longer than the resource.
LEMMA MatchLengthBound ==
  ASSUME NEW b \in Backend \cup {NULL}, NEW r, Len(r) \in Nat
  PROVE  MatchLength(b, r) <= Len(r)
<1>1. CASE b = NULL
  BY <1>1 DEF MatchLength
<1>2. CASE b # NULL
  <2> DEFINE S == {n \in 1..Len(Prefix[b]) : n <= Len(r) /\ SubSeq(Prefix[b], 1, n) = SubSeq(r, 1, n)}
  <2>1. Len(Prefix[b]) \in Nat
    BY <1>2, RegistryAssumption
  <2>2. S \subseteq 1..Len(r)
    BY <2>1
  <2>3. IsFiniteSet(1..Len(r)) /\ Cardinality(1..Len(r)) = Len(r)
    BY IntervalSize
  <2>4. Cardinality(S) <= Len(r)
    BY <2>2, <2>3, FS_Subset
  <2> QED
    BY <1>2, <2>4 DEF MatchLength
<1> QED
  BY <1>1, <1>2

LEMMA GrownNext ==
  ASSUME WholeInv, [RegistryNext]_registryVars
  PROVE  Grown
<1>1. WholeInv' /\ RegistryInv'
  BY WholeNext, InvNext DEF WholeInv
<1>2. Settled \in 0..TableSize /\ TableSize \in Nat
  BY SlotType, RegistryAssumption DEF WholeInv
<1>3. ASSUME backends' = backends, Settled' = Settled
      PROVE  Grown
  BY <1>2, <1>3 DEF Grown
<1>4. ASSUME NEW t \in Thread, EnterRegisterImpl(t)
      PROVE  Grown
  <2>1. /\ ~InsideImpl
        /\ holder'["CeedRegisterImpl"] = t /\ t # NULL
        /\ unstored'[t] = Stores
        /\ UNCHANGED <<backends, num_backends>>
    BY <1>4, RegistryAssumption DEF EnterRegisterImpl, InsideImpl, tableVars, WholeInv, RegistryInv,
       RegistryTypeOK, Section
  <2>2. Settled = num_backends /\ num_backends \in Nat
    BY <2>1, RegistryAssumption DEF Settled, WholeInv, RegistryInv, RegistryTypeOK
  <2>3. Settled' = num_backends
    BY <2>1, <2>2 DEF Settled, InsideImpl, Slot, Stores
  <2> QED
    BY <1>3, <2>1, <2>2, <2>3
<1>5. ASSUME NEW t \in Thread, Store(t)
      PROVE  Grown
  <2>1. /\ pc[t] = "store"
        /\ UNCHANGED <<holder, pc, entering>>
    BY <1>5 DEF Store, At, lockVars
  <2>2. PICK f \in unstored[t] :
           /\ unstored' = [unstored EXCEPT ![t] = @ \ {f}]
           /\ \/ /\ f = "num_backends"
                 /\ num_backends' = num_backends + 1
                 /\ backends' = backends
              \/ /\ f \in {"prefix", "init", "priority"}
                 /\ num_backends' = num_backends
                 /\ backends' = [backends EXCEPT ![Slot(t)] =
                                   [backends[Slot(t)] EXCEPT ![f] = Entry(entering[t])[f]]]
    BY <1>5, StoreCases DEF WholeInv
  <2>3. /\ Slot(t) \in 1..TableSize
        /\ entering[t] \in Backend
        /\ backends \in [1..TableSize -> TableEntry]
        /\ backends[Slot(t)] \in TableEntry
        /\ num_backends \in Nat
    BY <2>1, SlotType, RegistryAssumption DEF WholeInv, RegistryInv, RegistryTypeOK, Sections
  <2>4. unstored'[t] = unstored[t] \ {f}
    BY <2>2 DEF WholeInv, RegistryInv, RegistryTypeOK
  <2>5. Slot(t)' = Slot(t)
    <3>1. CASE f = "num_backends"
      BY <2>2, <2>3, <2>4, <3>1 DEF Slot
    <3>2. CASE f \in {"prefix", "init", "priority"}
      BY <2>2, <2>3, <2>4, <3>2 DEF Slot
    <3> QED
      BY <2>2, <3>1, <3>2
  <2>6. holder["CeedRegisterImpl"] = t /\ t # NULL
    BY <2>1, RegistryAssumption DEF WholeInv, RegistryInv, Sections
  <2>7. Settled' = Slot(t) - 1 /\ Settled = Slot(t) - 1
    BY <2>1, <2>5, <2>6 DEF Settled, InsideImpl
  <2>8. CASE f = "num_backends"
    BY <1>3, <2>2, <2>7, <2>8
  <2>9. CASE f \in {"prefix", "init", "priority"}
    <3>1. \A i \in 1..TableSize : i # Slot(t) => backends'[i] = backends[i]
      BY <2>2, <2>3, <2>9
    <3>2. backends'[Slot(t)] = Stored(backends[Slot(t)], f, Entry(entering[t])[f])
      BY <2>2, <2>3, <2>9 DEF Stored
    <3>3. backends[Slot(t)].prefix # NULL => backends'[Slot(t)].prefix = backends[Slot(t)].prefix
      <4>1. CASE f = "prefix"
        BY <2>1, <2>2, <4>1 DEF WholeInv, EntryInWork
      <4>2. CASE f # "prefix"
        <5>1. backends'[Slot(t)]["prefix"] = backends[Slot(t)]["prefix"]
          BY <2>3, <2>9, <3>2, <4>2, StoredType
        <5> QED
          BY <5>1
      <4> QED
        BY <4>1, <4>2
    <3>4. backends[Slot(t)].priority # 0 => backends'[Slot(t)].priority = backends[Slot(t)].priority
      <4>1. CASE f = "priority"
        BY <2>1, <2>2, <4>1 DEF WholeInv, EntryInWork
      <4>2. CASE f # "priority"
        <5>1. backends'[Slot(t)]["priority"] = backends[Slot(t)]["priority"]
          BY <2>3, <2>9, <3>2, <4>2, StoredType
        <5> QED
          BY <5>1
      <4> QED
        BY <4>1, <4>2
    <3>5. \A i \in 1..Settled : i \in 1..TableSize /\ i # Slot(t)
      BY <1>2, <2>3, <2>7
    <3> QED
      BY <1>2, <2>7, <3>1, <3>3, <3>4, <3>5 DEF Grown
  <2> QED
    BY <2>2, <2>8, <2>9
<1>6. ASSUME NEW t \in Thread, LeaveRegisterImpl(t)
      PROVE  Grown
  <2>1. /\ pc[t] = "store" /\ unstored[t] = {}
        /\ holder' = [holder EXCEPT !["CeedRegisterImpl"] = NULL]
        /\ UNCHANGED <<backends, num_backends>>
    BY <1>6 DEF LeaveRegisterImpl, At, tableVars
  <2>2. Settled' = num_backends
    BY <2>1 DEF Settled, InsideImpl, WholeInv, RegistryInv, RegistryTypeOK, Section
  <2>3. Slot(t) = num_backends /\ Settled = Slot(t) - 1 /\ Slot(t) \in 1..TableSize
    BY <2>1, SlotType, SettledValue DEF Slot, WholeInv
  <2> QED
    BY <1>2, <2>1, <2>2, <2>3 DEF Grown
<1>7. ASSUME UNCHANGED <<backends, num_backends, unstored>>,
             holder'["CeedRegisterImpl"] = holder["CeedRegisterImpl"]
      PROVE  Grown
  <2>1. Settled' = Settled
    BY <1>7 DEF Settled, InsideImpl, Slot
  <2> QED
    BY <1>3, <1>7, <2>1
<1>8. ASSUME NEW t \in Thread, LeaveRegisterAll(t)
      PROVE  Grown
  <2>1. LeftAll(t)
    BY <1>8, LeaveAllCases
  <2>2. holder'["CeedRegisterImpl"] = holder["CeedRegisterImpl"]
    BY <2>1 DEF LeftAll
  <2> QED
    BY <1>7, <1>8, <2>2 DEF LeaveRegisterAll, tableVars, registerVars
<1>9. ASSUME NEW t \in Thread, Step(t)
      PROVE  Grown
  <2>1. CASE SkipRegisterAll(t) \/ RegisterBuiltin(t) \/ TooManyBackends(t) \/ Compare(t)
             \/ EndSearch(t) \/ CallBackendInit(t)
    BY <1>7, <2>1 DEF SkipRegisterAll, RegisterBuiltin, TooManyBackends, Compare, EndSearch,
       CallBackendInit, tableVars, lockVars, registerVars
  <2>2. CASE EnterRegisterAll(t)
    BY <1>7, <2>2 DEF EnterRegisterAll, tableVars
  <2> QED
    BY <1>4, <1>5, <1>6, <1>8, <1>9, <2>1, <2>2 DEF Step
<1>10. CASE UNCHANGED registryVars
  BY <1>7, <1>10 DEF registryVars, tableVars, lockVars, registerVars
<1>11. ASSUME NEW t \in Thread, NEW r \in Resource, CallInit(t, r)
       PROVE  Grown
  BY <1>7, <1>11 DEF CallInit, tableVars, lockVars, registerVars
<1>12. ASSUME NEW t \in Thread, NEW b \in Own, CallRegister(t, b)
       PROVE  Grown
  BY <1>7, <1>12 DEF CallRegister, tableVars, lockVars
<1> QED
  BY <1>9, <1>10, <1>11, <1>12 DEF RegistryNext, Over

\* What a thread has compared stays true while others go on.
LEMMA SearchKept ==
  ASSUME WholeInv, Grown, NEW t \in Thread, SearchOK(t),
         pc'[t] = pc[t], match'[t] = match[t], resource'[t] = resource[t],
         settled'[t] = settled[t], result'[t] = result[t]
  PROVE  SearchOK(t)'
<1>1. /\ Settled \in 0..TableSize /\ TableSize \in Nat /\ settled[t] \in 0..TableSize
      /\ Settled' \in Settled..TableSize
      /\ match[t].index \in 0..TableSize
      /\ match[t].index = 0 => match[t].len = 0
  BY SlotType, RegistryAssumption
  DEF WholeInv, RegistryInv, RegistryTypeOK, Match, Found, Grown
<1>2. ASSUME settled[t] <= Settled
      PROVE  \A i \in 1..settled[t] : backends'[i] = backends[i]
  BY <1>1, <1>2 DEF Grown
<1>3. ASSUME settled[t] <= Settled
      PROVE  settled'[t] <= Settled'
  BY <1>1, <1>3
<1>4. ASSUME settled[t] <= Settled, Compared(t)
      PROVE  Compared(t)'
  <2>1. \A i \in 1..settled[t] : backends'[i] = backends[i]
    BY <1>2, <1>4
  <2>2. match[t].len # 0 =>
          MatchLength(backends'[match[t].index].prefix, resource[t]) = match[t].len
    <3>1. SUFFICES ASSUME match[t].len # 0
                   PROVE  MatchLength(backends'[match[t].index].prefix, resource[t]) = match[t].len
      OBVIOUS
    <3>2. match[t].index \in 1..TableSize
      BY <1>1, <3>1
    <3>3. backends[match[t].index].prefix # NULL
      BY <1>4, <3>1 DEF Compared, MatchLength
    <3>4. backends'[match[t].index].prefix = backends[match[t].index].prefix
      BY <3>2, <3>3 DEF Grown
    <3> QED
      BY <1>4, <3>1, <3>4 DEF Compared
  <2>3. /\ match'[t].index < match'[t].next
        /\ match'[t].len # 0 =>
             MatchLength(backends'[match'[t].index].prefix, resource'[t]) = match'[t].len
        /\ match'[t].index \in 1..settled'[t] =>
             match'[t].priority = backends'[match'[t].index].priority
    BY <1>4, <2>1, <2>2 DEF Compared
  <2>5. match'[t].index > settled'[t] =>
          match'[t].priority \in {0, backends'[match'[t].index].priority}
    <3>1. SUFFICES ASSUME match[t].index > settled[t]
                   PROVE  match[t].priority \in {0, backends'[match[t].index].priority}
      OBVIOUS
    <3>2. match[t].index \in 1..TableSize /\ match[t].priority \in {0, backends[match[t].index].priority}
      BY <1>1, <1>4, <3>1 DEF Compared
    <3> QED
      BY <3>2 DEF Grown
  <2>4. \A i \in 1..settled'[t] : i < match'[t].next =>
          \/ MatchLength(backends'[i].prefix, resource'[t]) < match'[t].len
          \/ /\ MatchLength(backends'[i].prefix, resource'[t]) = match'[t].len
             /\ match'[t].len # 0 =>
                  \/ match'[t].priority < backends'[i].priority
                  \/ /\ match'[t].priority = backends'[i].priority
                     /\ match'[t].index <= i
    BY <1>4, <2>1 DEF Compared, Preferred
  <2> QED
    BY <2>3, <2>4, <2>5 DEF Compared, Preferred
<1>5. ASSUME settled[t] <= Settled, \A i \in 1..settled[t] : ~Answers(i, resource[t])
      PROVE  \A i \in 1..settled'[t] : ~Answers(i, resource[t])'
  BY <1>2, <1>5 DEF Answers, MatchLength
<1> QED
  BY <1>3, <1>4, <1>5 DEF SearchOK, Answers, MatchLength

\* A thread whose search is neither going on nor over has nothing to keep.
LEMMA SearchIdle ==
  ASSUME NEW t \in Thread, pc'[t] \notin {"search", "init", "crashed"},
         pc'[t] = "idle" => result'[t] # "none"
  PROVE  SearchOK(t)'
BY DEF SearchOK

LEMMA SearchBegins ==
  ASSUME WholeInv, Grown, NEW t \in Thread, pc'[t] = "search", match'[t] = NoMatch,
         settled'[t] = Settled
  PROVE  SearchOK(t)'
<1>1. /\ match'[t].index = 0 /\ match'[t].len = 0 /\ match'[t].next = 1
      /\ settled'[t] \in 0..TableSize /\ settled'[t] <= Settled' /\ TableSize \in Nat
  BY SlotType, RegistryAssumption DEF Grown, NoMatch, WholeInv
<1>2. Compared(t)'
  BY <1>1 DEF Compared
<1> QED
  BY <1>1, <1>2 DEF SearchOK

LEMMA SearchCompares ==
  ASSUME WholeInv, Grown, NEW t \in Thread, SearchOK(t), Compare(t)
  PROVE  SearchOK(t)'
<1> DEFINE m == match[t]
           e == backends[m.next]
           n == MatchLength(e.prefix, resource[t])
           better == [index |-> m.next, len |-> n, priority |-> e.priority, next |-> m.next + 1]
           same == [m EXCEPT !.next = @ + 1]
<1>1. /\ pc[t] = "search" /\ m.next <= num_backends
      /\ match' = [match EXCEPT ![t] =
           IF n > m.len \/ (n = m.len /\ m.priority > e.priority) THEN better ELSE same]
      /\ UNCHANGED <<backends, num_backends, unstored, holder, resource, settled, pc, result>>
  BY DEF Compare, At, tableVars, lockVars, registerVars
<1>2. m \in Match /\ m \in [index: 0..TableSize, len: Nat, priority: 0..MaxPriority, next: 1..(TableSize + 1)]
  BY DEF WholeInv, RegistryInv, RegistryTypeOK, Match
<1>3. /\ m.next \in 1..TableSize /\ m.index \in 0..TableSize /\ m.len \in Nat
      /\ m.priority \in Nat /\ TableSize \in Nat
      /\ settled[t] \in 0..TableSize
      /\ m.index = 0 => m.len = 0
  <2>1. TableSize \in Nat /\ MaxPriority \in Nat
    BY RegistryAssumption
  <2>2. num_backends \in 0..TableSize /\ settled[t] \in 0..TableSize
    BY DEF WholeInv, RegistryInv, RegistryTypeOK
  <2>3. m.index = 0 => m.len = 0
    BY DEF WholeInv, RegistryInv, Found
  <2> HIDE DEF m
  <2>4. /\ m.next \in 1..(TableSize + 1) /\ m.index \in 0..TableSize /\ m.len \in Nat
        /\ m.priority \in 0..MaxPriority
    BY <1>2
  <2> QED
    BY <1>1, <2>1, <2>2, <2>3, <2>4
<1>4. e \in TableEntry /\ e.priority \in Nat
  BY <1>3, RegistryAssumption, SMTT(30) DEF WholeInv, RegistryInv, RegistryTypeOK, TableEntry
<1>5. n \in Nat
  BY <1>4, MatchLengthType DEF TableEntry
<1>6. settled[t] <= Settled /\ Compared(t) /\ settled[t] <= Settled'
  <2>1. Settled \in 0..TableSize
    BY SlotType DEF WholeInv
  <2> QED
    BY <1>1, <1>3, <2>1 DEF SearchOK, Grown
<1>7. \A i \in 1..settled[t] : MatchLength(backends[i].prefix, resource[t]) \in Nat /\ backends[i].priority \in Nat
  <2>1. \A i \in 1..settled[t] : backends[i] \in TableEntry
    BY <1>3 DEF WholeInv, RegistryInv, RegistryTypeOK
  <2> QED
    BY <2>1, MatchLengthType, RegistryAssumption DEF TableEntry
<1>8. CASE n > m.len \/ (n = m.len /\ m.priority > e.priority)
  <2>1. match'[t] = better
    BY <1>1, <1>8 DEF WholeInv, RegistryInv, RegistryTypeOK
  <2>2. /\ match'[t].index = m.next /\ match'[t].len = n
        /\ match'[t].priority = e.priority /\ match'[t].next = m.next + 1
    BY <2>1
  <2> HIDE DEF better, same
  <2>3. ASSUME NEW i \in 1..settled[t], i < m.next + 1
        PROVE  \/ MatchLength(backends[i].prefix, resource[t]) < n
               \/ /\ MatchLength(backends[i].prefix, resource[t]) = n
                  /\ n # 0 => Preferred(e.priority, m.next, i)
    <3>1. CASE i = m.next
      BY <1>3, <1>4, <3>1 DEF Preferred
    <3>2. CASE i # m.next
      <4>1. i < m.next
        BY <1>3, <2>3, <3>2
      <4>2. MatchLength(backends[i].prefix, resource[t]) <= m.len
        BY <1>3, <1>6, <1>7, <4>1 DEF Compared
      <4>3. CASE n > m.len
        BY <1>3, <1>5, <1>7, <4>2, <4>3
      <4>4. CASE n = m.len /\ m.priority > e.priority
        <5>1. CASE MatchLength(backends[i].prefix, resource[t]) < n
          BY <5>1
        <5>2. CASE ~(MatchLength(backends[i].prefix, resource[t]) < n)
          <6>1. MatchLength(backends[i].prefix, resource[t]) = n
            BY <1>3, <1>5, <1>7, <4>2, <4>4, <5>2
          <6>2. ASSUME n # 0
                PROVE  Preferred(e.priority, m.next, i)
            <7>1. Preferred(m.priority, m.index, i)
              BY <1>3, <1>6, <1>7, <4>1, <4>4, <6>1, <6>2 DEF Compared
            <7> QED
              BY <1>3, <1>4, <1>7, <4>4, <7>1 DEF Preferred
          <6> QED
            BY <6>1, <6>2
        <5> QED
          BY <5>1, <5>2
      <4> QED
        BY <1>8, <4>3, <4>4
    <3> QED
      BY <3>1, <3>2
  <2>4. Compared(t)'
    <3>1. match'[t].index < match'[t].next
      BY <1>3, <2>2
    <3>2. MatchLength(backends'[match'[t].index].prefix, resource'[t]) = match'[t].len
      BY <1>1, <2>2
    <3>3. match'[t].priority = backends'[match'[t].index].priority
      BY <1>1, <2>2
    <3>4. \A i \in 1..settled'[t] : i < match'[t].next =>
            \/ MatchLength(backends'[i].prefix, resource'[t]) < match'[t].len
            \/ /\ MatchLength(backends'[i].prefix, resource'[t]) = match'[t].len
               /\ match'[t].len # 0 =>
                    \/ match'[t].priority < backends'[i].priority
                    \/ /\ match'[t].priority = backends'[i].priority
                       /\ match'[t].index <= i
      BY <1>1, <2>2, <2>3 DEF Preferred
    <3>5. match'[t].index > settled'[t] =>
            match'[t].priority \in {0, backends'[match'[t].index].priority}
      BY <1>1, <1>6, <2>2 DEF Compared
    <3> QED
      BY <3>1, <3>2, <3>3, <3>4, <3>5 DEF Compared, Preferred
  <2> QED
    BY <1>1, <1>6, <2>4 DEF SearchOK
<1>9. CASE ~(n > m.len \/ (n = m.len /\ m.priority > e.priority))
  <2>1. match'[t] = same
    BY <1>1, <1>9 DEF WholeInv, RegistryInv, RegistryTypeOK
  <2>2. /\ match'[t].index = m.index /\ match'[t].len = m.len
        /\ match'[t].priority = m.priority /\ match'[t].next = m.next + 1
    <3> HIDE DEF m
    <3> QED
      BY <1>2, <2>1
  <2> HIDE DEF better, same
  <2>3. ASSUME NEW i \in 1..settled[t], i < m.next + 1
        PROVE  \/ MatchLength(backends[i].prefix, resource[t]) < m.len
               \/ /\ MatchLength(backends[i].prefix, resource[t]) = m.len
                  /\ m.len # 0 => Preferred(m.priority, m.index, i)
    <3>1. CASE i = m.next
      <4>1. n <= m.len
        BY <1>3, <1>5, <1>9
      <4>2. CASE n < m.len
        BY <3>1, <4>2
      <4>3. CASE n = m.len
        <5>1. m.priority <= e.priority
          BY <1>3, <1>4, <1>9, <4>3
        <5>2. Preferred(m.priority, m.index, i)
          BY <1>3, <1>4, <1>6, <1>7, <3>1, <5>1 DEF Compared, Preferred
        <5> QED
          BY <3>1, <4>3, <5>2
      <4> QED
        BY <1>3, <1>5, <4>1, <4>2, <4>3
    <3>2. CASE i # m.next
      <4>1. i < m.next
        BY <1>3, <2>3, <3>2
      <4> QED
        BY <1>6, <4>1 DEF Compared
    <3> QED
      BY <3>1, <3>2
  <2>4. Compared(t)'
    <3>1. match'[t].index < match'[t].next
      BY <1>3, <1>6, <2>2 DEF Compared
    <3>2. match'[t].len # 0 =>
            MatchLength(backends'[match'[t].index].prefix, resource'[t]) = match'[t].len
      BY <1>1, <1>6, <2>2 DEF Compared
    <3>3. match'[t].index \in 1..settled'[t] =>
            match'[t].priority = backends'[match'[t].index].priority
      BY <1>1, <1>6, <2>2 DEF Compared
    <3>4. \A i \in 1..settled'[t] : i < match'[t].next =>
            \/ MatchLength(backends'[i].prefix, resource'[t]) < match'[t].len
            \/ /\ MatchLength(backends'[i].prefix, resource'[t]) = match'[t].len
               /\ match'[t].len # 0 =>
                    \/ match'[t].priority < backends'[i].priority
                    \/ /\ match'[t].priority = backends'[i].priority
                       /\ match'[t].index <= i
      BY <1>1, <2>2, <2>3 DEF Preferred
    <3>5. match'[t].index > settled'[t] =>
            match'[t].priority \in {0, backends'[match'[t].index].priority}
      BY <1>1, <1>6, <2>2 DEF Compared
    <3> QED
      BY <3>1, <3>2, <3>3, <3>4, <3>5 DEF Compared, Preferred
  <2> QED
    BY <1>1, <1>6, <2>4 DEF SearchOK
<1> QED
  BY <1>8, <1>9

\* The search has been through the settled entries: the match is the best of them, or none
\* of them answers.
LEMMA SearchEnds ==
  ASSUME WholeInv, Grown, NEW t \in Thread, SearchOK(t), EndSearch(t)
  PROVE  SearchOK(t)'
<1>1. /\ pc[t] = "search" /\ match[t].next > settled[t]
      /\ UNCHANGED <<backends, num_backends, unstored, holder, resource, match, settled>>
  BY DEF EndSearch, At, tableVars, lockVars, registerVars, searchVars
<1>2. pc \in [Thread -> {"idle", "RegisterAll", "builtins", "RegisterImpl", "store",
                         "search", "init", "crashed"}]
  BY DEF WholeInv, RegistryInv, RegistryTypeOK
<1>3. settled[t] <= Settled /\ Compared(t)
  BY <1>1 DEF SearchOK
<1>4. /\ Settled' = Settled /\ Settled \in 0..TableSize /\ TableSize \in Nat
      /\ settled[t] \in 0..TableSize
      /\ match[t].len \in Nat /\ match[t].next \in Nat /\ match[t].index \in 0..TableSize
      /\ match[t].index = 0 => match[t].len = 0
      /\ resource[t] \in Resource /\ Len(resource[t]) \in Nat \ {0}
  <2>1. Settled' = Settled
    BY <1>1 DEF Settled, InsideImpl, Slot
  <2>2. Settled \in 0..TableSize /\ TableSize \in Nat /\ settled[t] \in 0..TableSize
    BY SlotType, RegistryAssumption DEF WholeInv, RegistryInv, RegistryTypeOK
  <2>3. match[t].len \in Nat /\ match[t].next \in 1..(TableSize + 1) /\ match[t].index \in 0..TableSize
    BY DEF WholeInv, RegistryInv, RegistryTypeOK, Match
  <2>4. match[t].index = 0 => match[t].len = 0
    BY DEF WholeInv, RegistryInv, Found
  <2>5. resource[t] \in Resource
    BY <1>1 DEF WholeInv, RegistryInv, Sections
  <2>6. Len(resource[t]) \in Nat \ {0}
    BY <2>5, RegistryAssumption
  <2> QED
    BY <2>1, <2>2, <2>3, <2>4, <2>5, <2>6
<1>5. settled'[t] <= Settled' /\ Compared(t)'
  BY <1>1, <1>3, <1>4 DEF Compared, Preferred
<1>6. \A i \in 1..TableSize : MatchLength(backends[i].prefix, resource[t]) \in 0..Len(resource[t])
  <2>1. \A i \in 1..TableSize : backends[i].prefix \in Backend \cup {NULL}
    BY DEF WholeInv, RegistryInv, RegistryTypeOK, TableEntry
  <2>2. ASSUME NEW i \in 1..TableSize
        PROVE  MatchLength(backends[i].prefix, resource[t]) \in 0..Len(resource[t])
    <3>1. MatchLength(backends[i].prefix, resource[t]) \in Nat
      BY <2>1, MatchLengthType
    <3>2. Len(resource[t]) \in Nat
      BY <1>4
    <3>3. MatchLength(backends[i].prefix, resource[t]) <= Len(resource[t])
      BY <2>1, <3>2, MatchLengthBound
    <3> QED
      BY <3>1, <3>2, <3>3
  <2> QED
    BY <2>2
<1>7. CASE match[t].len = 0 \/ match[t].len # Len(resource[t])
  <2>1. pc'[t] = "idle"
    BY <1>2, <1>7 DEF EndSearch, Return, Goto
  <2>2. ASSUME NEW i \in 1..settled[t], Answers(i, resource[t])
        PROVE  FALSE
    <3>1. i \in 1..TableSize /\ i < match[t].next
      BY <1>1, <1>4
    <3>2. MatchLength(backends[i].prefix, resource[t]) <= match[t].len
      <4>1. \/ MatchLength(backends[i].prefix, resource[t]) < match[t].len
            \/ MatchLength(backends[i].prefix, resource[t]) = match[t].len
        BY <1>3, <3>1 DEF Compared
      <4> QED
        BY <1>4, <1>6, <3>1, <4>1
    <3>3. Len(resource[t]) <= match[t].len
      BY <2>2, <3>2 DEF Answers
    <3>4. match[t].len # 0 /\ match[t].index \in 1..TableSize
      BY <1>4, <3>3
    <3>5. match[t].len <= Len(resource[t])
      BY <1>3, <1>4, <1>6, <3>4, SMTT(30) DEF Compared
    <3> QED
      BY <1>4, <1>7, <3>3, <3>4, <3>5
  <2>3. \A i \in 1..settled'[t] : ~Answers(i, resource[t])'
    BY <1>1, <2>2 DEF Answers
  <2> QED
    BY <1>5, <2>1, <2>3 DEF SearchOK, Answers
<1>8. CASE ~(match[t].len = 0 \/ match[t].len # Len(resource[t]))
  <2>1. pc'[t] = "init"
    BY <1>2, <1>8 DEF EndSearch, Goto
  <2> QED
    BY <1>1, <1>5, <1>8, <2>1 DEF SearchOK
<1> QED
  BY <1>7, <1>8

LEMMA SearchInit ==
  ASSUME RegistryInit
  PROVE  SearchInv
<1>1. \A t \in Thread : pc[t] = "idle" /\ result[t] = NULL
  BY DEF RegistryInit
<1>2. NULL # "none"
  BY RegistryAssumption
<1> QED
  BY <1>1, <1>2, WholeInit DEF SearchInv, SearchOK

\* What one thread does leaves the searches of the others alone.
OthersStay(t) ==
  \A u \in Thread \ {t} :
    /\ pc'[u] = pc[u] /\ match'[u] = match[u] /\ resource'[u] = resource[u]
    /\ settled'[u] = settled[u] /\ result'[u] = result[u]

LEMMA SearchOthers ==
  ASSUME SearchInv, Grown, NEW t \in Thread, OthersStay(t), SearchOK(t)'
  PROVE  \A u \in Thread : SearchOK(u)'
<1>1. ASSUME NEW u \in Thread, u # t
      PROVE  SearchOK(u)'
  BY <1>1, SearchKept DEF SearchInv, OthersStay
<1>2. ASSUME NEW u \in Thread, u = t
      PROVE  SearchOK(u)'
  BY <1>2, Zenon DEF SearchOK, Compared, Preferred, Answers, Settled, InsideImpl, Slot
<1> QED
  BY <1>1, <1>2

LEMMA SearchStep ==
  ASSUME SearchInv, Grown, NEW t \in Thread, Step(t)
  PROVE  OthersStay(t) /\ SearchOK(t)'
<1> USE DEF SearchInv, WholeInv, RegistryInv, RegistryTypeOK
<1>0. NULL # "none" /\ \A b \in Backend : b # "none"
  BY RegistryAssumption
<1>1. CASE SkipRegisterAll(t)
  <2>1. /\ pc' = [pc EXCEPT ![t] = "search"]
        /\ match' = [match EXCEPT ![t] = NoMatch]
        /\ settled' = [settled EXCEPT ![t] = Settled]
        /\ UNCHANGED <<resource, result>>
    BY <1>1 DEF SkipRegisterAll, BeginSearch, Goto
  <2>2. OthersStay(t)
    BY <2>1 DEF OthersStay
  <2>3. pc'[t] = "search" /\ match'[t] = NoMatch /\ settled'[t] = Settled
    BY <2>1
  <2> QED
    BY <2>2, <2>3, SearchBegins
<1>2. CASE LeaveRegisterAll(t)
  <2>1. LeftAll(t)
    BY <1>2, LeaveAllCases
  <2>2. CASE BeginSearch(t)
    <3>1. /\ pc' = [pc EXCEPT ![t] = "search"]
          /\ match' = [match EXCEPT ![t] = NoMatch]
          /\ settled' = [settled EXCEPT ![t] = Settled]
          /\ UNCHANGED <<resource, result>>
      BY <2>2 DEF BeginSearch, Goto
    <3>2. OthersStay(t)
      BY <3>1 DEF OthersStay
    <3>3. pc'[t] = "search" /\ match'[t] = NoMatch /\ settled'[t] = Settled
      BY <3>1
    <3> QED
      BY <3>2, <3>3, SearchBegins
  <2>3. CASE /\ pc' = [pc EXCEPT ![t] = "idle"]
             /\ result' = [result EXCEPT ![t] = "error"]
             /\ UNCHANGED searchVars
    <3>1. OthersStay(t)
      BY <2>3 DEF OthersStay, searchVars
    <3>2. pc'[t] = "idle" /\ result'[t] = "error"
      BY <2>3
    <3> QED
      BY <3>1, <3>2, SearchIdle
  <2> QED
    BY <2>1, <2>2, <2>3 DEF LeftAll
<1>3. CASE EnterRegisterAll(t)
  <2>1. pc' = [pc EXCEPT ![t] = "builtins"] /\ UNCHANGED <<resource, match, settled, result>>
    BY <1>3 DEF EnterRegisterAll, Goto, searchVars
  <2>2. OthersStay(t) /\ pc'[t] = "builtins"
    BY <2>1 DEF OthersStay
  <2> QED
    BY <2>2, SearchIdle
<1>4. CASE RegisterBuiltin(t)
  <2>1. pc' = [pc EXCEPT ![t] = "RegisterImpl"] /\ UNCHANGED <<resource, match, settled, result>>
    BY <1>4 DEF RegisterBuiltin, Goto, searchVars
  <2>2. OthersStay(t) /\ pc'[t] = "RegisterImpl"
    BY <2>1 DEF OthersStay
  <2> QED
    BY <2>2, SearchIdle
<1>5. CASE EnterRegisterImpl(t)
  <2>1. pc' = [pc EXCEPT ![t] = "store"] /\ UNCHANGED <<resource, match, settled, result>>
    BY <1>5 DEF EnterRegisterImpl, Goto, searchVars
  <2>2. OthersStay(t) /\ pc'[t] = "store"
    BY <2>1 DEF OthersStay
  <2> QED
    BY <2>2, SearchIdle
<1>6. CASE TooManyBackends(t) \/ LeaveRegisterImpl(t)
  <2>1. LeftImpl(t) /\ UNCHANGED <<resource, match, settled>>
    BY <1>6, LeaveImplCases DEF TooManyBackends, LeaveRegisterImpl, searchVars
  <2>2. OthersStay(t)
    BY <2>1 DEF OthersStay, LeftImpl
  <2>3. pc'[t] = "builtins" \/ (pc'[t] = "idle" /\ result'[t] = NULL)
    BY <2>1 DEF LeftImpl
  <2> QED
    BY <1>0, <2>2, <2>3, SearchIdle
<1>7. CASE Store(t)
  <2>1. pc[t] = "store" /\ UNCHANGED <<resource, match, settled, result, pc>>
    BY <1>7 DEF Store, At, searchVars
  <2> QED
    BY <2>1, SearchIdle DEF OthersStay
<1>8. CASE Compare(t)
  <2>1. OthersStay(t)
    BY <1>8 DEF Compare, OthersStay
  <2> QED
    BY <1>8, <2>1, SearchCompares
<1>9. CASE EndSearch(t)
  <2>1. UNCHANGED <<resource, match, settled>>
    BY <1>9 DEF EndSearch, searchVars
  <2>2. SearchEnded(t)
    BY <1>9, EndSearchCases
  <2>3. OthersStay(t)
    BY <2>1, <2>2 DEF OthersStay, SearchEnded
  <2> QED
    BY <1>9, <2>3, SearchEnds
<1>10. CASE CallBackendInit(t)
  <2> DEFINE b == backends[match[t].index].init
  <2>1. /\ pc[t] = "init"
        /\ UNCHANGED <<backends, num_backends, holder, unstored, resource, match, settled>>
        /\ IF b = NULL THEN pc' = [pc EXCEPT ![t] = "crashed"] /\ result' = result
           ELSE /\ pc' = [pc EXCEPT ![t] = "idle"]
                /\ result' = [result EXCEPT ![t] = IF b \in Weak THEN "error" ELSE b]
    BY <1>10 DEF CallBackendInit, At, Goto, Return, tableVars, lockVars, registerVars, searchVars
  <2>2. OthersStay(t)
    BY <2>1 DEF OthersStay
  <2>3. b \in Backend \cup {NULL}
    <3>1. match[t].index # 0 /\ match[t].index \in 0..TableSize /\ TableSize \in Nat
      BY <2>1, RegistryAssumption DEF Found, Match
    <3>2. match[t].index \in 1..TableSize
      BY <3>1
    <3> QED
      BY <3>2 DEF TableEntry
  <2> HIDE DEF b
  <2>4. CASE b = NULL
    <3>1. pc'[t] = "crashed" /\ result' = result
      BY <2>1, <2>4
    <3>2. Settled' = Settled
      BY <2>1 DEF Settled, InsideImpl, Slot
    <3>3. Compared(t) /\ settled[t] <= Settled
      BY <2>1 DEF SearchOK
    <3>4. Compared(t)'
      BY <2>1, <3>3 DEF Compared, Preferred
    <3> QED
      BY <2>1, <2>2, <3>1, <3>2, <3>3, <3>4 DEF SearchOK
  <2>5. CASE b # NULL
    <3>1. pc'[t] = "idle" /\ result'[t] = IF b \in Weak THEN "error" ELSE b
      BY <2>1, <2>5
    <3> QED
      BY <1>0, <2>2, <2>3, <2>5, <3>1, SearchIdle
  <2> QED
    BY <2>4, <2>5
<1> QED
  BY <1>1, <1>2, <1>3, <1>4, <1>5, <1>6, <1>7, <1>8, <1>9, <1>10 DEF Step

LEMMA SearchNext ==
  ASSUME SearchInv, [RegistryNext]_registryVars
  PROVE  SearchInv'
<1>1. WholeInv' /\ Grown
  BY WholeNext, GrownNext DEF SearchInv
<1> SUFFICES \A t \in Thread : SearchOK(t)'
  BY <1>1 DEF SearchInv
<1>2. NULL # "none"
  BY RegistryAssumption
<1>3. ASSUME NEW t \in Thread, NEW r \in Resource, CallInit(t, r)
      PROVE  \A u \in Thread : SearchOK(u)'
  <2>1. OthersStay(t) /\ pc'[t] = "RegisterAll"
    BY <1>3 DEF CallInit, Call, Goto, OthersStay, SearchInv, WholeInv, RegistryInv, RegistryTypeOK
  <2> QED
    BY <1>1, <2>1, SearchIdle, SearchOthers
<1>4. ASSUME NEW t \in Thread, NEW b \in Own, CallRegister(t, b)
      PROVE  \A u \in Thread : SearchOK(u)'
  <2>1. OthersStay(t) /\ pc'[t] = "RegisterImpl"
    BY <1>4 DEF CallRegister, Call, Goto, searchVars, OthersStay, SearchInv, WholeInv, RegistryInv,
       RegistryTypeOK
  <2> QED
    BY <1>1, <2>1, SearchIdle, SearchOthers
<1>5. ASSUME NEW t \in Thread, Step(t)
      PROVE  \A u \in Thread : SearchOK(u)'
  BY <1>1, <1>5, SearchStep, SearchOthers
<1>6. CASE UNCHANGED registryVars
  BY <1>1, <1>6, SearchKept DEF SearchInv, registryVars, searchVars
<1> QED
  BY <1>3, <1>4, <1>5, <1>6 DEF RegistryNext, Over

LEMMA SearchSafe ==
  ASSUME SearchInv
  PROVE  BestMatch
<1>1. SUFFICES ASSUME NEW t \in Thread
      PROVE  LET r == resource[t]
                 m == match[t].index
                 read == match[t].priority
                 there == {i \in 1..settled[t] : Answers(i, r)}
             IN /\ pc[t] \in {"init", "crashed"} =>
                     /\ Answers(m, r)
                     /\ \A i \in there : Preferred(read, m, i)
                     /\ read = backends[m].priority \/ (m > settled[t] /\ read = 0)
                     /\ m <= settled[t] => backends[m].init # NULL
                /\ pc[t] = "idle" /\ result[t] = "none" => there = {}
  BY DEF BestMatch
<1> DEFINE r == resource[t]
           m == match[t].index
<1>2. SearchOK(t)
  BY DEF SearchInv
<1>3. /\ TableSize \in Nat /\ Settled \in 0..TableSize /\ settled[t] \in 0..TableSize
      /\ m \in 0..TableSize
      /\ m = 0 => match[t].len = 0
      /\ match[t].next \in Nat /\ match[t].len \in Nat
  <2>1. Settled \in 0..TableSize /\ TableSize \in Nat /\ settled[t] \in 0..TableSize
    BY SlotType, RegistryAssumption DEF SearchInv, WholeInv, RegistryInv, RegistryTypeOK
  <2>2. match[t].len \in Nat /\ match[t].next \in 1..(TableSize + 1) /\ m \in 0..TableSize
    BY DEF SearchInv, WholeInv, RegistryInv, RegistryTypeOK, Match
  <2>3. m = 0 => match[t].len = 0
    BY DEF SearchInv, WholeInv, RegistryInv, Found
  <2> QED
    BY <2>1, <2>2, <2>3
<1>4. ASSUME pc[t] \in {"init", "crashed"}
      PROVE  /\ Answers(m, r)
             /\ \A i \in {i \in 1..settled[t] : Answers(i, r)} : Preferred(match[t].priority, m, i)
             /\ match[t].priority = backends[m].priority \/ (m > settled[t] /\ match[t].priority = 0)
             /\ m <= settled[t] => backends[m].init # NULL
  <2>1. /\ settled[t] <= Settled /\ Compared(t)
        /\ match[t].len # 0 /\ match[t].len = Len(r) /\ match[t].next > settled[t]
    BY <1>2, <1>4 DEF SearchOK
  <2>2. Answers(m, r)
    BY <2>1 DEF Compared, Answers
  <2>3. ASSUME m <= settled[t]
        PROVE  m \in 1..settled[t] /\ m \in 1..Settled
    BY <1>3, <2>1, <2>3
  <2>4. ASSUME m <= settled[t]
        PROVE  backends[m].init # NULL
    <3>1. PICK b \in Backend : backends[m] = Entry(b)
      BY <2>3, <2>4 DEF SearchInv, WholeInv, EntriesWhole
    <3> QED
      BY <3>1, RegistryAssumption DEF Entry
  <2>5. ASSUME NEW i \in 1..settled[t], Answers(i, r)
        PROVE  Preferred(match[t].priority, m, i)
    <3>1. i < match[t].next
      BY <1>3, <2>1
    <3>2. MatchLength(backends[i].prefix, r) = match[t].len
      BY <2>1, <2>5 DEF Answers
    <3>3. ~(MatchLength(backends[i].prefix, r) < match[t].len)
      BY <1>3, <3>2
    <3> QED
      BY <2>1, <3>1, <3>3 DEF Compared
  <2>6. match[t].priority = backends[m].priority \/ (m > settled[t] /\ match[t].priority = 0)
    <3>1. CASE m <= settled[t]
      BY <2>1, <2>3, <3>1 DEF Compared
    <3>2. CASE m > settled[t]
      BY <2>1, <3>2 DEF Compared
    <3> QED
      BY <1>3, <3>1, <3>2
  <2> QED
    BY <2>2, <2>4, <2>5, <2>6
<1>5. ASSUME pc[t] = "idle", result[t] = "none"
      PROVE  {i \in 1..settled[t] : Answers(i, r)} = {}
  BY <1>2, <1>5 DEF SearchOK
<1> QED
  BY <1>4, <1>5

\* By the priority it reads, CeedInit chooses no worse than the best of the backends that were
\* there when it began (ceed.c:1213-1224), whatever other threads register meanwhile; and what it
\* reads is the priority of what it chooses, except that of an entry that came meanwhile it may
\* read 0. Such an entry can be taken before a better one: that is not excluded.
THEOREM BestMatchCorrect == RegistrySpec => []BestMatch
<1>1. RegistryInit => SearchInv
  BY SearchInit
<1>2. SearchInv /\ [RegistryNext]_registryVars => SearchInv'
  BY SearchNext
<1>3. SearchInv => BestMatch
  BY SearchSafe
<1> QED
  BY <1>1, <1>2, <1>3, PTL DEF RegistrySpec

(***************************************************************************)
(* Waiting, and the length of a call: what CallsReturn rests on besides    *)
(* the fairness.                                                           *)
(***************************************************************************)
\* Who waits at the entry of a section.
Waiting(t) ==
  \/ pc[t] = "RegisterAll" /\ holder["CeedRegisterAll"] # NULL
  \/ pc[t] = "RegisterImpl" /\ holder["CeedRegisterImpl"] # NULL

\* He waits for another thread, which is inside or about to enter and does not wait itself.
NoneWaitsInVain ==
  \A t \in Thread : Waiting(t) =>
    \E u \in Thread \ {t} : pc[u] \in {"builtins", "RegisterImpl", "store"} /\ ~Waiting(u)

LEMMA WaitsAreShort ==
  ASSUME RegistryInv
  PROVE  NoneWaitsInVain
<1> SUFFICES ASSUME NEW t \in Thread, Waiting(t)
             PROVE  \E u \in Thread \ {t} : pc[u] \in {"builtins", "RegisterImpl", "store"} /\ ~Waiting(u)
  BY DEF NoneWaitsInVain
<1>1. CASE holder["CeedRegisterImpl"] # NULL
  <2>1. PICK u \in Thread : holder["CeedRegisterImpl"] = u
    BY <1>1 DEF RegistryInv, RegistryTypeOK, Section
  <2>2. pc[u] = "store"
    BY <2>1 DEF RegistryInv, Sections
  <2>3. u # t /\ ~Waiting(u)
    BY <2>2 DEF Waiting
  <2> QED
    BY <2>2, <2>3
<1>2. CASE holder["CeedRegisterImpl"] = NULL
  <2>1. pc[t] = "RegisterAll" /\ holder["CeedRegisterAll"] # NULL
    BY <1>2 DEF Waiting
  <2>2. PICK u \in Thread : holder["CeedRegisterAll"] = u
    BY <2>1 DEF RegistryInv, RegistryTypeOK, Section
  <2>3. pc[u] \in {"builtins", "RegisterImpl", "store"}
    BY <2>2 DEF RegistryInv, Sections
  <2>4. u # t /\ ~Waiting(u)
    BY <1>2, <2>1, <2>3 DEF Waiting
  <2> QED
    BY <2>3, <2>4
<1> QED
  BY <1>1, <1>2

\* No thread waits for itself and no two for each other, although CeedRegisterAll enters the other
\* section inside its own: whoever waits, the one in front of him can go on (ceed-register.c:33-44).
THEOREM NoneWaitsInVainCorrect == RegistrySpec => []NoneWaitsInVain
<1>1. RegistryInit => RegistryInv
  BY InvInit
<1>2. RegistryInv /\ [RegistryNext]_registryVars => RegistryInv'
  BY InvNext
<1>3. RegistryInv => NoneWaitsInVain
  BY WaitsAreShort
<1> QED
  BY <1>1, <1>2, <1>3, PTL DEF RegistrySpec

\* How many steps a thread has before it, at most. Each built-in backend takes seven: its turn, the
\* way into the section, four stores and the way out; the search looks at each entry once.
StepsInAll(left) == TableSize + 3 + 7 * left
StepsLeft(p, base, stores, next) ==
  CASE p = "RegisterAll"  -> StepsInAll(Len(Builtin)) + 1
    [] p = "builtins"     -> base
    [] p = "RegisterImpl" -> base + 6
    [] p = "store"        -> base + 1 + stores
    [] p = "search"       -> TableSize + 3 - next
    [] p = "init"         -> 1
    [] OTHER              -> 0

\* Where a thread is back when its registration is over.
Base(t) == IF holder["CeedRegisterAll"] = t THEN StepsInAll(Len(Builtin) - builtin[t]) ELSE 0
Steps(t) == StepsLeft(pc[t], Base(t), Cardinality(unstored[t]), match[t].next)

LEMMA StoresCounted ==
  /\ Cardinality(Stores) = 4
  /\ \A S \in SUBSET Stores : IsFiniteSet(S) /\ Cardinality(S) \in 0..4
  /\ \A S \in SUBSET Stores : \A f \in S : Cardinality(S \ {f}) = Cardinality(S) - 1
<1>1. IsFiniteSet({}) /\ Cardinality({}) = 0
  BY FS_EmptySet
<1>2. IsFiniteSet({"prefix"}) /\ Cardinality({"prefix"}) = 1
  BY <1>1, FS_Singleton
<1>3. IsFiniteSet({"prefix", "init"}) /\ Cardinality({"prefix", "init"}) = 2
  <2>1. {"prefix", "init"} = {"prefix"} \cup {"init"} /\ "init" \notin {"prefix"}
    OBVIOUS
  <2> QED
    BY <1>2, <2>1, FS_AddElement
<1>4. IsFiniteSet({"prefix", "init", "priority"}) /\ Cardinality({"prefix", "init", "priority"}) = 3
  <2>1. /\ {"prefix", "init", "priority"} = {"prefix", "init"} \cup {"priority"}
        /\ "priority" \notin {"prefix", "init"}
    OBVIOUS
  <2> QED
    BY <1>3, <2>1, FS_AddElement
<1>5. IsFiniteSet(Stores) /\ Cardinality(Stores) = 4
  <2>1. /\ Stores = {"prefix", "init", "priority"} \cup {"num_backends"}
        /\ "num_backends" \notin {"prefix", "init", "priority"}
    BY DEF Stores
  <2> QED
    BY <1>4, <2>1, FS_AddElement
<1>6. ASSUME NEW S \in SUBSET Stores
      PROVE  IsFiniteSet(S) /\ Cardinality(S) \in 0..4
  <2>1. IsFiniteSet(S) /\ Cardinality(S) <= Cardinality(Stores)
    BY <1>5, FS_Subset
  <2>2. Cardinality(S) \in Nat
    BY <2>1, FS_CardinalityType
  <2> QED
    BY <1>5, <2>1, <2>2
<1>7. ASSUME NEW S \in SUBSET Stores, NEW f \in S
      PROVE  Cardinality(S \ {f}) = Cardinality(S) - 1
  BY <1>6, FS_RemoveElement
<1> QED
  BY <1>5, <1>6, <1>7

\* What the number is at each place.
StepsKnown ==
  \A t \in Thread :
    /\ Base(t) \in Nat /\ Cardinality(unstored[t]) \in Nat /\ match[t].next \in 1..(TableSize + 1)
    /\ pc[t] = "RegisterAll" => Steps(t) = StepsInAll(Len(Builtin)) + 1
    /\ pc[t] = "builtins" => Steps(t) = StepsInAll(Len(Builtin) - builtin[t])
    /\ pc[t] = "RegisterImpl" => Steps(t) = Base(t) + 6
    /\ pc[t] = "store" => Steps(t) = Base(t) + 1 + Cardinality(unstored[t])
    /\ pc[t] = "search" => Steps(t) = TableSize + 3 - match[t].next
    /\ pc[t] = "init" => Steps(t) = 1
    /\ pc[t] \in {"idle", "crashed"} => Steps(t) = 0

LEMMA StepsAt == RegistryInv => StepsKnown
<1> SUFFICES ASSUME RegistryInv, NEW t \in Thread
             PROVE  StepsKnown!(t)
  BY DEF StepsKnown
<1>1. TableSize \in Nat /\ Len(Builtin) \in Nat
  BY RegistryAssumption
<1>2. builtin[t] \in 0..Len(Builtin)
  BY DEF RegistryInv, RegistryTypeOK
<1>3. Base(t) \in Nat
  BY <1>1, <1>2 DEF Base, StepsInAll
<1>4. Cardinality(unstored[t]) \in Nat
  <2>1. unstored[t] \in SUBSET Stores
    BY DEF RegistryInv, RegistryTypeOK
  <2>2. Cardinality(unstored[t]) \in 0..4
    BY <2>1, StoresCounted
  <2> QED
    BY <2>2
<1>5. match[t].next \in 1..(TableSize + 1)
  BY DEF RegistryInv, RegistryTypeOK, Match
<1>6. pc[t] = "builtins" => holder["CeedRegisterAll"] = t
  BY DEF RegistryInv, Sections
<1> QED
  BY <1>1, <1>3, <1>4, <1>5, <1>6 DEF Steps, StepsLeft, Base

LEMMA StepsAtNext == RegistryInv' => StepsKnown'
BY StepsAt, PTL

\* A step of one thread leaves the others where they are.
Aside(u) ==
  /\ pc'[u] = pc[u] /\ builtin'[u] = builtin[u] /\ unstored'[u] = unstored[u] /\ match'[u] = match[u]
  /\ holder'["CeedRegisterAll"] = u <=> holder["CeedRegisterAll"] = u

LEMMA AsideKeepsSteps ==
  ASSUME NEW u \in Thread, Aside(u)
  PROVE  Steps(u)' = Steps(u)
BY DEF Aside, Steps, Base

\* What the steps of t change of the sections and of the threads' own variables.
LEMMA OthersAside ==
  ASSUME RegistryInv, NEW t \in Thread, NEW u \in Thread \ {t},
         \/ \E r \in Resource : CallInit(t, r)
         \/ \E b \in Own : CallRegister(t, b)
         \/ Step(t)
  PROVE  Aside(u)
<1> USE DEF RegistryInv, RegistryTypeOK, At, Goto, Return, tableVars, lockVars, registerVars, searchVars
<1>1. ASSUME NEW r \in Resource, CallInit(t, r)
      PROVE  Aside(u)
  BY <1>1 DEF CallInit, Call, Aside
<1>2. ASSUME NEW b \in Own, CallRegister(t, b)
      PROVE  Aside(u)
  BY <1>2 DEF CallRegister, Call, Aside
<1>3. CASE SkipRegisterAll(t)
  BY <1>3 DEF SkipRegisterAll, BeginSearch, Aside
<1>4. CASE EnterRegisterAll(t)
  BY <1>4, RegistryAssumption DEF EnterRegisterAll, Aside, Section
<1>5. CASE RegisterBuiltin(t)
  BY <1>5 DEF RegisterBuiltin, Aside
<1>6. CASE LeaveRegisterAll(t)
  <2>1. holder["CeedRegisterAll"] = t /\ holder' = [holder EXCEPT !["CeedRegisterAll"] = NULL]
    BY <1>6 DEF LeaveRegisterAll, Sections
  <2>2. holder'["CeedRegisterAll"] = u <=> holder["CeedRegisterAll"] = u
    BY <2>1, RegistryAssumption DEF Section
  <2>3. /\ pc'[u] = pc[u] /\ match'[u] = match[u]
        /\ builtin'[u] = builtin[u] /\ unstored'[u] = unstored[u]
    BY <1>6 DEF LeaveRegisterAll, BeginSearch
  <2> QED
    BY <2>2, <2>3 DEF Aside
<1>7. CASE EnterRegisterImpl(t)
  BY <1>7 DEF EnterRegisterImpl, Aside, Section
<1>8. CASE TooManyBackends(t)
  BY <1>8 DEF TooManyBackends, LeaveImpl, Aside
<1>9. CASE Store(t)
  BY <1>9 DEF Store, Aside
<1>10. CASE LeaveRegisterImpl(t)
  BY <1>10 DEF LeaveRegisterImpl, LeaveImpl, Aside, Section
<1>11. CASE Compare(t)
  BY <1>11 DEF Compare, Aside
<1>12. CASE EndSearch(t)
  BY <1>12 DEF EndSearch, Aside
<1>13. CASE CallBackendInit(t)
  BY <1>13 DEF CallBackendInit, Aside
<1> QED
  BY <1>1, <1>2, <1>3, <1>4, <1>5, <1>6, <1>7, <1>8, <1>9, <1>10, <1>11, <1>12, <1>13 DEF Step

LEMMA StepsFall ==
  ASSUME RegistryInv, RegistryInv', NEW t \in Thread, Step(t)
  PROVE  Steps(t)' < Steps(t)
<1> USE DEF At, Goto, Return
<1>0. TableSize \in Nat \ {0} /\ Len(Builtin) \in Nat
  BY RegistryAssumption
<1>1. pc \in [Thread -> {"idle", "RegisterAll", "builtins", "RegisterImpl", "store", "search", "init", "crashed"}]
  BY DEF RegistryInv, RegistryTypeOK
<1>2. StepsKnown!(t) /\ StepsKnown!(t)'
  BY StepsAt, StepsAtNext DEF StepsKnown
<1>3. builtin \in [Thread -> 0..Len(Builtin)] /\ holder \in [Section -> Thread \cup {NULL}]
  BY DEF RegistryInv, RegistryTypeOK
\* A search begins with less to do than there was in CeedRegisterAll.
<1>4. ASSUME BeginSearch(t), pc[t] \in {"RegisterAll", "builtins"}
      PROVE  Steps(t)' < Steps(t)
  <2>1. pc'[t] = "search" /\ match'[t].next = 1
    BY <1>1, <1>4 DEF BeginSearch, NoMatch, RegistryInv, RegistryTypeOK
  <2>2. Steps(t)' = TableSize + 3 - 1
    BY <1>2, <2>1
  <2>3. /\ pc[t] = "RegisterAll" => Steps(t) = StepsInAll(Len(Builtin)) + 1
        /\ pc[t] = "builtins" => Steps(t) = StepsInAll(Len(Builtin) - builtin[t])
    BY <1>2
  <2>4. builtin[t] \in 0..Len(Builtin)
    BY <1>3
  <2>5. Steps(t) \in Int /\ Steps(t) >= TableSize + 3
    BY <1>0, <1>4, <2>3, <2>4 DEF StepsInAll
  <2> QED
    BY <1>0, <2>2, <2>5
<1>5. CASE SkipRegisterAll(t)
  BY <1>4, <1>5 DEF SkipRegisterAll
<1>6. CASE EnterRegisterAll(t)
  <2>1. pc[t] = "RegisterAll" /\ pc'[t] = "builtins" /\ builtin'[t] = 0
    BY <1>1, <1>3, <1>6 DEF EnterRegisterAll
  <2> QED
    BY <1>0, <1>2, <2>1 DEF StepsInAll
<1>7. CASE RegisterBuiltin(t)
  <2>1. pc[t] = "builtins" /\ pc'[t] = "RegisterImpl" /\ builtin'[t] = builtin[t] + 1 /\ holder' = holder
    BY <1>1, <1>3, <1>7 DEF RegisterBuiltin, lockVars
  <2>2. holder["CeedRegisterAll"] = t
    BY <2>1 DEF RegistryInv, Sections
  <2>3. Base(t)' = StepsInAll(Len(Builtin) - (builtin[t] + 1))
    BY <2>1, <2>2 DEF Base
  <2>4. Steps(t)' = Base(t)' + 6 /\ Steps(t) = StepsInAll(Len(Builtin) - builtin[t])
    BY <1>2, <2>1
  <2>5. builtin[t] \in Nat
    BY <1>0, <1>3
  <2> QED
    BY <1>0, <2>3, <2>4, <2>5 DEF StepsInAll
<1>8. CASE LeaveRegisterAll(t)
  <2>1. CASE pc'[t] = "idle"
    <3>1. Steps(t)' = 0 /\ Steps(t) >= TableSize + 3
      BY <1>0, <1>2, <1>3, <1>8, <2>1 DEF LeaveRegisterAll, StepsInAll
    <3> QED
      BY <1>0, <1>2, <1>3, <1>8, <3>1 DEF LeaveRegisterAll, StepsInAll
  <2> QED
    BY <1>1, <1>4, <1>8, <2>1 DEF LeaveRegisterAll
\* A registration that is over leaves the thread where it came from.
<1>9. ASSUME NEW full, LeaveImpl(t, full), UNCHANGED builtin,
             holder'["CeedRegisterAll"] = holder["CeedRegisterAll"]
      PROVE  Steps(t)' = Base(t)
  <2>1. Base(t)' = Base(t)
    BY <1>9 DEF Base
  <2>2. CASE holder["CeedRegisterAll"] = t
    <3>1. pc'[t] = "builtins" /\ Base(t) = StepsInAll(Len(Builtin) - builtin'[t])
      BY <1>1, <1>9, <2>2 DEF LeaveImpl, Base
    <3> QED
      BY <1>2, <3>1
  <2>3. CASE holder["CeedRegisterAll"] # t
    <3>1. pc'[t] = "idle" /\ Base(t) = 0
      BY <1>1, <1>9, <2>3 DEF LeaveImpl, Base
    <3> QED
      BY <1>2, <3>1
  <2> QED
    BY <2>2, <2>3
<1>10. CASE EnterRegisterImpl(t)
  <2>1. pc[t] = "RegisterImpl" /\ pc'[t] = "store" /\ unstored'[t] = Stores
    BY <1>1, <1>10 DEF EnterRegisterImpl, RegistryInv, RegistryTypeOK
  <2>2. Base(t)' = Base(t)
    BY <1>3, <1>10 DEF EnterRegisterImpl, Base, Section
  <2>3. Cardinality(unstored'[t]) = 4
    BY <2>1, StoresCounted
  <2>4. Steps(t) = Base(t) + 6 /\ Steps(t)' = Base(t) + 5
    BY <1>2, <2>1, <2>2, <2>3
  <2> QED
    BY <1>2, <2>4
<1>11. CASE TooManyBackends(t)
  <2>1. pc[t] = "RegisterImpl" /\ LeaveImpl(t, TRUE) /\ UNCHANGED builtin /\ holder' = holder
    BY <1>11 DEF TooManyBackends, lockVars
  <2>2. Steps(t)' = Base(t)
    BY <1>9, <2>1
  <2> QED
    BY <1>2, <2>1, <2>2
<1>12. CASE Store(t)
  <2>1. pc[t] = "store" /\ pc' = pc /\ builtin' = builtin /\ holder' = holder
    BY <1>12 DEF Store, lockVars
  <2>2. PICK f \in unstored[t] : unstored' = [unstored EXCEPT ![t] = @ \ {f}]
    BY <1>12 DEF Store
  <2>3. unstored'[t] = unstored[t] \ {f} /\ unstored[t] \in SUBSET Stores
    BY <2>2 DEF RegistryInv, RegistryTypeOK
  <2>4. Cardinality(unstored'[t]) = Cardinality(unstored[t]) - 1
    BY <2>3, StoresCounted
  <2>5. Base(t)' = Base(t)
    BY <2>1 DEF Base
  <2>6. Steps(t) = Base(t) + 1 + Cardinality(unstored[t]) /\ Steps(t)' = Base(t) + Cardinality(unstored[t])
    BY <1>2, <2>1, <2>4, <2>5
  <2> QED
    BY <1>2, <2>6
<1>13. CASE LeaveRegisterImpl(t)
  <2>1. pc[t] = "store" /\ LeaveImpl(t, FALSE) /\ UNCHANGED builtin
    BY <1>13 DEF LeaveRegisterImpl
  <2>2. holder'["CeedRegisterAll"] = holder["CeedRegisterAll"]
    BY <1>3, <1>13 DEF LeaveRegisterImpl, Section
  <2>3. Steps(t)' = Base(t)
    BY <1>9, <2>1, <2>2
  <2> QED
    BY <1>2, <2>1, <2>3
<1>14. CASE Compare(t)
  <2>1. pc[t] = "search" /\ pc'[t] = "search" /\ match'[t].next = match[t].next + 1
    BY <1>14 DEF Compare, RegistryInv, RegistryTypeOK, Match
  <2>2. /\ Steps(t) = TableSize + 3 - match[t].next /\ match[t].next \in 1..(TableSize + 1)
        /\ Steps(t)' = TableSize + 3 - match'[t].next
    BY <1>2, <2>1
  <2> QED
    BY <1>0, <2>1, <2>2
<1>15. CASE EndSearch(t)
  <2>1. pc[t] = "search" /\ pc'[t] \in {"idle", "init"}
    BY <1>1, <1>15 DEF EndSearch
  <2>2. Steps(t) = TableSize + 3 - match[t].next /\ match[t].next \in 1..(TableSize + 1)
    BY <1>2, <2>1
  <2>3. Steps(t)' \in {0, 1}
    BY <1>2, <2>1
  <2> QED
    BY <1>0, <2>2, <2>3
<1>16. CASE CallBackendInit(t)
  <2>1. pc[t] = "init" /\ pc'[t] \in {"idle", "crashed"}
    BY <1>1, <1>16 DEF CallBackendInit
  <2> QED
    BY <1>2, <2>1
<1> QED
  BY <1>5, <1>6, <1>7, <1>8, <1>10, <1>11, <1>12, <1>13, <1>14, <1>15, <1>16 DEF Step

\* A thread is never more than StepsInAll(Len(Builtin)) + 6 steps of its own from the end of its
\* call (six of them a registration that finds the table empty), and what other threads do meanwhile
\* adds none: no loop of CeedInit or of the registrations starts again.
StepsBounded == \A t \in Thread : Steps(t) \in 0..(StepsInAll(Len(Builtin)) + 6)
StepsGoDown ==
  [][\A t \in Thread :
       IF Step(t) THEN Steps(t)' < Steps(t) ELSE pc[t] = "idle" \/ Steps(t)' = Steps(t)]_registryVars

LEMMA StepsDown ==
  ASSUME RegistryInv, RegistryInv', RegistryNext, NEW t \in Thread
  PROVE  IF Step(t) THEN Steps(t)' < Steps(t) ELSE pc[t] = "idle" \/ Steps(t)' = Steps(t)
<1>1. CASE Step(t)
  BY <1>1, StepsFall
<1>2. CASE ~Step(t)
  <2>1. ASSUME NEW u \in Thread,
               \/ \E r \in Resource : CallInit(u, r)
               \/ \E b \in Own : CallRegister(u, b)
               \/ Step(u)
        PROVE  pc[t] = "idle" \/ Steps(t)' = Steps(t)
    <3>1. CASE u = t
      BY <1>2, <2>1, <3>1 DEF CallInit, CallRegister, Call, At
    <3>2. CASE u # t
      BY <2>1, <3>2, OthersAside, AsideKeepsSteps
    <3> QED
      BY <3>1, <3>2
  <2>2. ASSUME Over
        PROVE  pc[t] = "idle" \/ Steps(t)' = Steps(t)
    <3>1. Aside(t)
      BY <2>2 DEF Over, registryVars, lockVars, registerVars, searchVars, Aside
    <3> QED
      BY <3>1, AsideKeepsSteps
  <2> QED
    BY <1>2, <2>1, <2>2 DEF RegistryNext
<1> QED
  BY <1>1, <1>2

\* The bound, at every moment of a call.
THEOREM StepsBoundedCorrect == RegistrySpec => []StepsBounded
<1>1. RegistryInit => RegistryInv
  BY InvInit
<1>2. RegistryInv /\ [RegistryNext]_registryVars => RegistryInv'
  BY InvNext
<1>3. RegistryInv => StepsBounded
  <2> SUFFICES ASSUME RegistryInv, NEW t \in Thread
               PROVE  Steps(t) \in 0..(StepsInAll(Len(Builtin)) + 6)
    BY DEF StepsBounded
  <2>1. TableSize \in Nat \ {0} /\ Len(Builtin) \in Nat
    BY RegistryAssumption
  <2>2. StepsKnown!(t)
    BY StepsAt DEF StepsKnown
  <2>3. builtin[t] \in 0..Len(Builtin)
    BY DEF RegistryInv, RegistryTypeOK
  <2>4. Cardinality(unstored[t]) \in 0..4
    <3>1. unstored[t] \in SUBSET Stores
      BY DEF RegistryInv, RegistryTypeOK
    <3> QED
      BY <3>1, StoresCounted
  <2>5. Base(t) \in 0..StepsInAll(Len(Builtin))
    BY <2>1, <2>3 DEF Base, StepsInAll
  <2>6. CASE pc[t] \in {"idle", "crashed", "init", "RegisterAll"}
    <3>1. Steps(t) \in {0, 1, StepsInAll(Len(Builtin)) + 1}
      BY <2>2, <2>6
    <3> QED
      BY <2>1, <3>1 DEF StepsInAll
  <2>7. CASE pc[t] = "search"
    <3>1. Steps(t) = TableSize + 3 - match[t].next /\ match[t].next \in 1..(TableSize + 1)
      BY <2>2, <2>7
    <3>2. StepsInAll(Len(Builtin)) \in Nat /\ StepsInAll(Len(Builtin)) >= TableSize + 3
      BY <2>1 DEF StepsInAll
    <3>3. Steps(t) \in 0..(TableSize + 3)
      BY <2>1, <3>1
    <3> QED
      BY <2>1, <3>2, <3>3
  <2>8. CASE pc[t] = "builtins"
    <3>1. Steps(t) = StepsInAll(Len(Builtin) - builtin[t])
      BY <2>2, <2>8
    <3> QED
      BY <2>1, <2>3, <3>1 DEF StepsInAll
  <2>9. CASE pc[t] \in {"RegisterImpl", "store"}
    <3>1. Steps(t) \in {Base(t) + 6, Base(t) + 1 + Cardinality(unstored[t])}
      BY <2>2, <2>9
    <3>2. StepsInAll(Len(Builtin)) \in Nat
      BY <2>1 DEF StepsInAll
    <3> QED
      BY <2>4, <2>5, <3>1, <3>2
  <2>10. pc[t] \in {"idle", "crashed", "init", "search", "RegisterAll", "builtins", "RegisterImpl", "store"}
    BY DEF RegistryInv, RegistryTypeOK
  <2> QED
    BY <2>6, <2>7, <2>8, <2>9, <2>10
<1> QED
  BY <1>1, <1>2, <1>3, PTL DEF RegistrySpec

\* Every step of a thread inside a call brings it nearer to the end, and no other thread's step
\* puts it back.
THEOREM StepsGoDownCorrect == RegistrySpec => StepsGoDown
<1>1. RegistryInit => RegistryInv
  BY InvInit
<1>2. RegistryInv /\ [RegistryNext]_registryVars => RegistryInv'
  BY InvNext
<1>3. RegistryInv /\ RegistryInv' /\ [RegistryNext]_registryVars
        => [\A t \in Thread :
              IF Step(t) THEN Steps(t)' < Steps(t) ELSE pc[t] = "idle" \/ Steps(t)' = Steps(t)]_registryVars
  BY StepsDown
<1> QED
  BY <1>1, <1>2, <1>3, PTL DEF RegistrySpec, StepsGoDown
===============================================================================
