----------------------------- MODULE CeedRegistry -----------------------------
(***************************************************************************)
(* The table of backends (interface/ceed.c, interface/ceed-register.c) and *)
(* the choice CeedInit makes in it, called by several threads.             *)
(*                                                                         *)
(* A registration writes its entry inside the critical section             *)
(* CeedRegisterImpl; the built-in backends are registered once, inside     *)
(* the critical section CeedRegisterAll, which takes the other one for     *)
(* each of them. The search of CeedInit is in no section: it reads the     *)
(* table while another thread may be writing its next entry, a data race   *)
(* whose stores become visible in any order. The error handler is          *)
(* "return" (CEED_ERROR_HANDLER): under the default one the process ends   *)
(* at the first error.                                                     *)
(***************************************************************************)
EXTENDS Naturals, Sequences, FiniteSets

CONSTANTS
  Thread,
  Backend,     \* everything that may be registered
  Builtin,     \* the order of backends/ceed-backend-list.h
  Weak,        \* the built-in ones that are not compiled: registered to fail politely
  Prefix,      \* Prefix[b]: the components of the name b responds to
  Priority,    \* Priority[b]: lower is preferred
  Resource,    \* what CeedInit is asked for, up to its options
  TableSize,   \* 32 entries in the code
  MaxPriority, \* CEED_MAX_BACKEND_PRIORITY
  MaxCalls,    \* bound: calls of a thread
  NULL

ASSUME RegistryAssumption ==
  /\ Builtin \in Seq(Backend)
  /\ \A i, j \in DOMAIN Builtin : Builtin[i] = Builtin[j] => i = j
  /\ \A b \in Backend : Len(Prefix[b]) \in Nat
  /\ Weak \subseteq Backend
  /\ Priority \in [Backend -> 0..MaxPriority]
  /\ TableSize \in Nat \ {0}
  /\ MaxPriority \in Nat
  /\ MaxCalls \in Nat
  /\ \A r \in Resource : Len(r) \in Nat \ {0}
  /\ NULL \notin Thread \cup Backend
  /\ {"error", "none"} \cap (Backend \cup {NULL}) = {}

VARIABLES
  backends,            \* the table, zero to begin with
  num_backends,
  register_all_called,
  holder,              \* the thread in each critical section
  pc,                  \* where each thread is
  resource,            \* what its CeedInit looks for
  entering,            \* the backend it registers
  unstored,            \* the stores of its registration nobody else sees yet
  builtin,             \* how many built-in backends it has been through
  ierr,                \* its RegisterAll met an error
  match,               \* the best match of its search, and the entry it looks at next
  result,              \* what its last call returned
  calls,
  settled              \* history: the registrations that were over when its search began

tableVars == <<backends, num_backends>>
lockVars == <<register_all_called, holder>>
registerVars == <<entering, unstored, builtin, ierr>>
searchVars == <<resource, match, settled>>
registryVars ==
  <<tableVars, lockVars, registerVars, searchVars, pc, result, calls>>

Section == {"CeedRegisterAll", "CeedRegisterImpl"}
Stores == {"prefix", "init", "priority", "num_backends"}
Zero == [prefix |-> NULL, init |-> NULL, priority |-> 0]

\* What applications bring along.
Own == Backend \ {Builtin[i] : i \in DOMAIN Builtin}

\* CeedRegister_Weak registers every name of an absent backend with the worst priority.
PriorityOf(b) == IF b \in Weak THEN MaxPriority ELSE Priority[b]
Entry(b) == [prefix |-> b, init |-> b, priority |-> PriorityOf(b)]

\* How many components of the resource the name agrees with.
MatchLength(b, r) ==
  IF b = NULL THEN 0
  ELSE Cardinality({n \in 1..Len(Prefix[b]) :
                      n <= Len(r) /\ SubSeq(Prefix[b], 1, n) = SubSeq(r, 1, n)})

NoMatch == [index |-> 0, len |-> 0, priority |-> MaxPriority, next |-> 1]
InsideImpl == holder["CeedRegisterImpl"] # NULL

\* The entry the thread inside CeedRegisterImpl writes.
Slot(t) == IF "num_backends" \in unstored[t] THEN num_backends + 1 ELSE num_backends

\* Entries whose registration is over.
Settled ==
  IF InsideImpl THEN Slot(holder["CeedRegisterImpl"]) - 1 ELSE num_backends

Running == \A t \in Thread : pc[t] # "crashed"
At(t, p) == Running /\ pc[t] = p
Goto(t, p) == pc' = [pc EXCEPT ![t] = p]
Return(t, r) == Goto(t, "idle") /\ result' = [result EXCEPT ![t] = r]

TableEntry ==
  [prefix: Backend \cup {NULL}, init: Backend \cup {NULL}, priority: 0..MaxPriority]
Match == [index: 0..TableSize, len: Nat, priority: 0..MaxPriority, next: 1..(TableSize + 1)]

RegistryTypeOK ==
  /\ backends \in [1..TableSize -> TableEntry]
  /\ num_backends \in 0..TableSize
  /\ register_all_called \in BOOLEAN
  /\ holder \in [Section -> Thread \cup {NULL}]
  /\ pc \in [Thread -> {"idle", "RegisterAll", "builtins", "RegisterImpl", "store",
                        "search", "init", "crashed"}]
  /\ resource \in [Thread -> Resource \cup {NULL}]
  /\ entering \in [Thread -> Backend \cup {NULL}]
  /\ unstored \in [Thread -> SUBSET Stores]
  /\ builtin \in [Thread -> 0..Len(Builtin)]
  /\ ierr \in [Thread -> BOOLEAN]
  /\ match \in [Thread -> Match]
  /\ result \in [Thread -> Backend \cup {NULL, "error", "none"}]
  /\ calls \in [Thread -> 0..MaxCalls]
  /\ settled \in [Thread -> 0..TableSize]

RegistryInit ==
  /\ backends = [i \in 1..TableSize |-> Zero]
  /\ num_backends = 0
  /\ register_all_called = FALSE
  /\ holder = [s \in Section |-> NULL]
  /\ pc = [t \in Thread |-> "idle"]
  /\ resource = [t \in Thread |-> NULL]
  /\ entering = [t \in Thread |-> NULL]
  /\ unstored = [t \in Thread |-> {}]
  /\ builtin = [t \in Thread |-> 0]
  /\ ierr = [t \in Thread |-> FALSE]
  /\ match = [t \in Thread |-> NoMatch]
  /\ result = [t \in Thread |-> NULL]
  /\ calls = [t \in Thread |-> 0]
  /\ settled = [t \in Thread |-> 0]

(***************************************************************************)
(* The calls of the application.                                           *)
(***************************************************************************)
Call(t) ==
  /\ At(t, "idle") /\ calls[t] < MaxCalls
  /\ calls' = [calls EXCEPT ![t] = @ + 1]
  /\ result' = [result EXCEPT ![t] = NULL]

CallInit(t, r) ==
  /\ Call(t)
  /\ resource' = [resource EXCEPT ![t] = r]
  /\ Goto(t, "RegisterAll")
  /\ UNCHANGED <<tableVars, lockVars, registerVars, match, settled>>

CallRegister(t, b) ==
  /\ Call(t)
  /\ entering' = [entering EXCEPT ![t] = b]
  /\ Goto(t, "RegisterImpl")
  /\ UNCHANGED <<tableVars, lockVars, searchVars, unstored, builtin, ierr>>

(***************************************************************************)
(* CeedRegisterAll.                                                        *)
(***************************************************************************)
BeginSearch(t) ==
  /\ Goto(t, "search")
  /\ match' = [match EXCEPT ![t] = NoMatch]
  /\ settled' = [settled EXCEPT ![t] = Settled]
  /\ UNCHANGED <<resource, result>>

\* Somebody has done it: the section is entered and left.
SkipRegisterAll(t) ==
  /\ At(t, "RegisterAll") /\ holder["CeedRegisterAll"] = NULL
  /\ register_all_called
  /\ BeginSearch(t)
  /\ UNCHANGED <<tableVars, lockVars, registerVars, calls>>

\* Mutant: the flag is looked at before the section.
EnterRegisterAllUnlocked(t) ==
  /\ At(t, "RegisterAll")
  /\ ~register_all_called
  /\ holder' = [holder EXCEPT !["CeedRegisterAll"] = t]
  /\ builtin' = [builtin EXCEPT ![t] = 0]
  /\ ierr' = [ierr EXCEPT ![t] = FALSE]
  /\ Goto(t, "builtins")
  /\ UNCHANGED <<tableVars, register_all_called, entering, unstored, searchVars, result, calls>>

EnterRegisterAll(t) ==
  /\ At(t, "RegisterAll") /\ holder["CeedRegisterAll"] = NULL
  /\ ~register_all_called
  /\ holder' = [holder EXCEPT !["CeedRegisterAll"] = t]
  /\ builtin' = [builtin EXCEPT ![t] = 0]
  /\ ierr' = [ierr EXCEPT ![t] = FALSE]
  /\ Goto(t, "builtins")
  /\ UNCHANGED <<tableVars, register_all_called, entering, unstored, searchVars, result, calls>>

RegisterBuiltin(t) ==
  /\ At(t, "builtins") /\ builtin[t] < Len(Builtin) /\ ~ierr[t]
  /\ builtin' = [builtin EXCEPT ![t] = @ + 1]
  /\ entering' = [entering EXCEPT ![t] = Builtin[builtin[t] + 1]]
  /\ Goto(t, "RegisterImpl")
  /\ UNCHANGED <<tableVars, lockVars, unstored, ierr, searchVars, result, calls>>

\* The flag is set whether the backends fitted or not.
LeaveRegisterAll(t) ==
  /\ At(t, "builtins") /\ (builtin[t] = Len(Builtin) \/ ierr[t])
  /\ register_all_called' = TRUE
  /\ holder' = [holder EXCEPT !["CeedRegisterAll"] = NULL]
  /\ IF ierr[t] THEN Return(t, "error") /\ UNCHANGED searchVars ELSE BeginSearch(t)
  /\ UNCHANGED <<tableVars, registerVars, calls>>

(***************************************************************************)
(* CeedRegisterImpl. Its caller is CeedRegisterAll when the thread is in   *)
(* that section, and the application's CeedRegister otherwise.             *)
(***************************************************************************)
\* CeedRegister drops the error; only CeedRegister_Weak hands it on.
LeaveImpl(t, full) ==
  /\ entering' = [entering EXCEPT ![t] = NULL]
  /\ IF holder["CeedRegisterAll"] = t
     THEN /\ Goto(t, "builtins")
          /\ ierr' = [ierr EXCEPT ![t] = full /\ entering[t] \in Weak]
          /\ UNCHANGED result
     ELSE Return(t, NULL) /\ UNCHANGED ierr

\* Mutant: no critical section around the table.
EnterRegisterImplUnlocked(t) ==
  /\ At(t, "RegisterImpl") /\ num_backends < TableSize
  /\ holder' = [holder EXCEPT !["CeedRegisterImpl"] = t]
  /\ unstored' = [unstored EXCEPT ![t] = Stores]
  /\ Goto(t, "store")
  /\ UNCHANGED <<tableVars, register_all_called, entering, builtin, ierr, searchVars, result, calls>>

\* Mutant: the table is as long as it needs to be.
EnterRegisterImplUnbounded(t) ==
  /\ At(t, "RegisterImpl") /\ holder["CeedRegisterImpl"] = NULL
  /\ holder' = [holder EXCEPT !["CeedRegisterImpl"] = t]
  /\ unstored' = [unstored EXCEPT ![t] = Stores]
  /\ Goto(t, "store")
  /\ UNCHANGED <<tableVars, register_all_called, entering, builtin, ierr, searchVars, result, calls>>

EnterRegisterImpl(t) ==
  /\ At(t, "RegisterImpl") /\ holder["CeedRegisterImpl"] = NULL /\ num_backends < TableSize
  /\ holder' = [holder EXCEPT !["CeedRegisterImpl"] = t]
  /\ unstored' = [unstored EXCEPT ![t] = Stores]
  /\ Goto(t, "store")
  /\ UNCHANGED <<tableVars, register_all_called, entering, builtin, ierr, searchVars, result, calls>>

TooManyBackends(t) ==
  /\ At(t, "RegisterImpl") /\ holder["CeedRegisterImpl"] = NULL /\ num_backends = TableSize
  /\ LeaveImpl(t, TRUE)
  /\ UNCHANGED <<tableVars, lockVars, unstored, builtin, searchVars, calls>>

\* One of the stores of the section reaches the threads outside it.
Store(t) ==
  /\ At(t, "store")
  /\ \E f \in unstored[t] :
       /\ unstored' = [unstored EXCEPT ![t] = @ \ {f}]
       /\ IF f = "num_backends"
          THEN num_backends' = num_backends + 1 /\ UNCHANGED backends
          ELSE /\ backends' = [backends EXCEPT ![Slot(t)][f] = Entry(entering[t])[f]]
               /\ UNCHANGED num_backends
  /\ UNCHANGED <<lockVars, entering, builtin, ierr, searchVars, pc, result, calls>>

LeaveRegisterImpl(t) ==
  /\ At(t, "store") /\ unstored[t] = {}
  /\ holder' = [holder EXCEPT !["CeedRegisterImpl"] = NULL]
  /\ LeaveImpl(t, FALSE)
  /\ UNCHANGED <<tableVars, register_all_called, unstored, builtin, searchVars, calls>>

(***************************************************************************)
(* The rest of CeedInit.                                                   *)
(***************************************************************************)
\* Mutant: of two equal matches the later one is taken.
CompareTakingTheLast(t) ==
  LET m == match[t]
      e == backends[m.next]
      n == MatchLength(e.prefix, resource[t])
  IN /\ At(t, "search") /\ m.next <= num_backends
     /\ match' = [match EXCEPT ![t] =
          IF n > m.len \/ (n = m.len /\ m.priority >= e.priority)
          THEN [index |-> m.next, len |-> n, priority |-> e.priority, next |-> m.next + 1]
          ELSE [m EXCEPT !.next = @ + 1]]
     /\ UNCHANGED <<tableVars, lockVars, registerVars, resource, settled, pc, result, calls>>

\* Mutant: an entry that is no better is not stepped over.
CompareStuck(t) ==
  LET m == match[t]
      e == backends[m.next]
      n == MatchLength(e.prefix, resource[t])
  IN /\ At(t, "search") /\ m.next <= num_backends
     /\ match' = [match EXCEPT ![t] =
          IF n > m.len \/ (n = m.len /\ m.priority > e.priority)
          THEN [index |-> m.next, len |-> n, priority |-> e.priority, next |-> m.next + 1]
          ELSE m]
     /\ UNCHANGED <<tableVars, lockVars, registerVars, resource, settled, pc, result, calls>>

\* One turn of the loop: a longer match wins, and of equal ones the lower priority.
Compare(t) ==
  LET m == match[t]
      e == backends[m.next]
      n == MatchLength(e.prefix, resource[t])
  IN /\ At(t, "search") /\ m.next <= num_backends
     /\ match' = [match EXCEPT ![t] =
          IF n > m.len \/ (n = m.len /\ m.priority > e.priority)
          THEN [index |-> m.next, len |-> n, priority |-> e.priority, next |-> m.next + 1]
          ELSE [m EXCEPT !.next = @ + 1]]
     /\ UNCHANGED <<tableVars, lockVars, registerVars, resource, settled, pc, result, calls>>

\* The bound of the loop may have been loaded once and for all, before or after a
\* registration that runs at the same time. Only a name the whole resource agrees with
\* will do.
EndSearch(t) ==
  /\ At(t, "search") /\ match[t].next > settled[t]
  /\ IF match[t].len = 0 \/ match[t].len # Len(resource[t])
     THEN Return(t, "none")
     ELSE Goto(t, "init") /\ UNCHANGED result
  /\ UNCHANGED <<tableVars, lockVars, registerVars, searchVars, calls>>

\* The call through backends[match_index].init, which may not have been stored yet.
CallBackendInit(t) ==
  LET b == backends[match[t].index].init
  IN /\ At(t, "init")
     /\ IF b = NULL THEN Goto(t, "crashed") /\ UNCHANGED result
        ELSE Return(t, IF b \in Weak THEN "error" ELSE b)
     /\ UNCHANGED <<tableVars, lockVars, registerVars, searchVars, calls>>

Step(t) ==
  \/ SkipRegisterAll(t) \/ EnterRegisterAll(t) \/ RegisterBuiltin(t) \/ LeaveRegisterAll(t)
  \/ EnterRegisterImpl(t) \/ TooManyBackends(t) \/ Store(t) \/ LeaveRegisterImpl(t)
  \/ Compare(t) \/ EndSearch(t) \/ CallBackendInit(t)

\* The application has made its calls, or the process is gone.
Over ==
  /\ Running => \A t \in Thread : pc[t] = "idle" /\ calls[t] = MaxCalls
  /\ UNCHANGED registryVars

RegistryNext ==
  \/ \E t \in Thread :
       \/ \E r \in Resource : CallInit(t, r)
       \/ \E b \in Own : CallRegister(t, b)
       \/ Step(t)
  \/ Over

\* Every thread is scheduled, and a critical section that is free long enough is entered.
RegistrySpec ==
  RegistryInit /\ [][RegistryNext]_registryVars /\ \A t \in Thread : WF_registryVars(Step(t))

(***************************************************************************)
(* Properties.                                                             *)
(***************************************************************************)
\* The name of the entry agrees with the whole resource.
Answers(i, r) == MatchLength(backends[i].prefix, r) = Len(r)

\* An entry of priority p, at m, is preferred to entry i.
Preferred(p, m, i) ==
  \/ p < backends[i].priority
  \/ p = backends[i].priority /\ m <= i

\* No two registrations get into one entry (ceed.c:127-137): what lies behind a
\* registration that is over is the name, the function and the priority of one backend,
\* and behind the entries in use there is nothing.
EntriesWhole ==
  /\ \A i \in 1..Settled : \E b \in Backend : backends[i] = Entry(b)
  /\ \A i \in (Settled + 2)..TableSize : backends[i] = Zero

\* Whichever thread comes first, a search finds every built-in backend in the table, once,
\* or a table in which there was no room (ceed-register.c:33-41).
BuiltinsBeforeSearch ==
  /\ \A t \in Thread : pc[t] \in {"search", "init"} => register_all_called
  /\ register_all_called =>
       \A b \in Backend \ Own :
         LET copies == {i \in 1..num_backends : backends[i].prefix = b}
         IN IF copies = {} THEN num_backends = TableSize ELSE Cardinality(copies) = 1

\* "Lower values are preferred in case the resource requested by CeedInit() has non-unique
\* best prefix match" (ceed.c:493). By the priority CeedInit has read of it, the backend it
\* chooses is no worse than any that was there when it began, and the first of equal ones.
\* That is its own priority, unless it came while CeedInit searched: the name of such an
\* entry can be read before the priority, 0 is read for it, and it is taken before a better
\* one. Its function can be missing likewise, never that of a backend that was there. And
\* "none" is found only when none that was there answers to the resource.
BestMatch ==
  \A t \in Thread :
    LET r == resource[t]
        m == match[t].index
        read == match[t].priority
        there == {i \in 1..settled[t] : Answers(i, r)}
    IN /\ pc[t] \in {"init", "crashed"} =>
            /\ Answers(m, r)
            /\ \A i \in there : Preferred(read, m, i)
            /\ read = backends[m].priority \/ (m > settled[t] /\ read = 0)
            /\ m <= settled[t] => backends[m].init # NULL
       /\ pc[t] = "idle" /\ result[t] = "none" => there = {}

\* No thread waits for ever in the sections, one of which is entered inside the other:
\* every call returns, or the process has ended.
CallsReturn == \A t \in Thread : pc[t] # "idle" ~> pc[t] = "idle" \/ ~Running
===============================================================================
