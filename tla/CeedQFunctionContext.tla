-------------------------- MODULE CeedQFunctionContext --------------------------
(***************************************************************************)
(* CeedQFunctionContext (interface/ceed-qfunctioncontext.c) over the ref   *)
(* backend: the data a QFunction is called with, who may look at them and  *)
(* who frees them. The interface keeps the access protocol of CeedVector,  *)
(* without its versions: of the field state only the parity is ever read.  *)
(* What is new is the user's function that destroys what the data refer    *)
(* to; it is called through the access protocol, so it can be refused, and *)
(* it can fail, which leaves the access to nobody.                         *)
(*                                                                         *)
(* The operators here are the calls on one context; CeedOperatorContexts   *)
(* has the specification, in which operators use the contexts too.         *)
(***************************************************************************)
EXTENDS Naturals, FiniteSets

CONSTANTS
  Context,
  Block,      \* memory for the data of a context
  Value,      \* values of the one field of the data
  NULL,
  Kept,       \* the contexts to which the application keeps a handle
  Destroying, \* those with a function to destroy their data, to begin with
  MaxReaders  \* bound: read accesses the application holds to one

VARIABLES
  ref_count,
  state,         \* its parity: 1 while write access is granted
  num_readers,
  data_destroy,  \* whether data_destroy_function is set
  data,          \* impl->data: the valid data
  data_owned,
  data_borrowed,
  mem,           \* contents of a block, NULL while it is free
  owner,         \* history: who has to free a block
  spent,         \* history: blocks the user's function has been called with
  handles,       \* history: references the application holds
  held,          \* history: read accesses it got through its handle
  stranded,      \* history: accesses kept by calls that failed, the write access or reads
  refused,       \* history: contexts whose destruction was refused
  misplaced      \* history: contexts whose last SetData was refused by the backend

lifeVars == <<ref_count, handles, refused>>
accessVars == <<state, num_readers, held, stranded>>
pointerVars == <<data, data_owned, data_borrowed, owner>>
destroyVars == <<data_destroy, spent, misplaced>>
contextVars == <<lifeVars, accessVars, pointerVars, destroyVars, mem>>

ASSUME ContextAssumption ==
  /\ NULL \notin Context \cup Block \cup Value
  /\ Kept \subseteq Context /\ Destroying \subseteq Context
  /\ MaxReaders \in Nat

DataTypeOK ==
  /\ ref_count \in [Context -> Nat]
  /\ state \in [Context -> {0, 1}]
  /\ num_readers \in [Context -> Nat]
  /\ data_destroy \in [Context -> BOOLEAN]
  /\ data \in [Context -> Block \cup {NULL}]
  /\ data_owned \in [Context -> Block \cup {NULL}]
  /\ data_borrowed \in [Context -> Block \cup {NULL}]
  /\ mem \in [Block -> Value \cup {NULL}]
  /\ owner \in [Block -> {"free", "library", "caller"}]
  /\ spent \subseteq Block
  /\ handles \in [Context -> Nat]
  /\ held \in [Context -> Nat]
  /\ stranded \in [Context -> Nat]
  /\ refused \subseteq Context
  /\ misplaced \subseteq Context

Live(c) == ref_count[c] > 0
Exists(c) == Live(c) \/ c \in refused

\* The application calls on what it has a handle to.
Reachable(c) == Live(c) /\ handles[c] > 0

Locked(c) == state[c] = 1

\* The application gives back what it got: it has no pointer from a call that failed.
Stuck(c) == Locked(c) /\ stranded[c] > 0

\* Contexts as they are when operators get to use them: used[c] QFunctions refer to c, its
\* data have been copied in, and the user has set the function for some of them.
ContextInit(used) ==
  /\ handles = [c \in Context |-> IF c \in Kept THEN 1 ELSE 0]
  /\ ref_count = [c \in Context |-> handles[c] + used[c]]
  /\ state = [c \in Context |-> 0]
  /\ num_readers = [c \in Context |-> 0]
  /\ held = [c \in Context |-> 0]
  /\ stranded = [c \in Context |-> 0]
  /\ data_destroy = [c \in Context |-> c \in Destroying /\ Live(c)]
  /\ data \in [Context -> Block \cup {NULL}]
  /\ \A c \in Context : data[c] = NULL <=> ~Live(c)
  /\ \A c, d \in Context : data[c] = data[d] /\ data[c] # NULL => c = d
  /\ data_owned = data
  /\ data_borrowed = [c \in Context |-> NULL]
  /\ owner = [b \in Block |-> IF \E c \in Context : data[c] = b THEN "library" ELSE "free"]
  /\ mem \in [Block -> Value \cup {NULL}]
  /\ \A b \in Block : mem[b] = NULL <=> owner[b] = "free"
  /\ spent = {} /\ refused = {} /\ misplaced = {}

(***************************************************************************)
(* Access.                                                                 *)
(***************************************************************************)
Writable(c) == ~Locked(c) /\ num_readers[c] = 0 /\ data[c] # NULL
Readable(c) == ~Locked(c) /\ data[c] # NULL

\* Those that calls have kept are not the application's.
MayRead(c) == num_readers[c] < MaxReaders + stranded[c]

CeedQFunctionContextGetData(c) ==
  /\ Reachable(c) /\ Writable(c)
  /\ state' = [state EXCEPT ![c] = 1]
  /\ UNCHANGED <<lifeVars, num_readers, held, stranded, pointerVars, destroyVars, mem>>

\* The caller stores through the pointer it got.
StoreData(c, v) ==
  /\ Reachable(c) /\ Locked(c) /\ ~Stuck(c)
  /\ mem' = [mem EXCEPT ![data[c]] = v]
  /\ UNCHANGED <<lifeVars, accessVars, pointerVars, destroyVars>>

CeedQFunctionContextRestoreData(c) ==
  /\ Reachable(c) /\ Locked(c) /\ ~Stuck(c)
  /\ state' = [state EXCEPT ![c] = 0]
  /\ UNCHANGED <<lifeVars, num_readers, held, stranded, pointerVars, destroyVars, mem>>

CeedQFunctionContextGetDataRead(c) ==
  /\ Reachable(c) /\ Readable(c) /\ MayRead(c)
  /\ num_readers' = [num_readers EXCEPT ![c] = @ + 1]
  /\ held' = [held EXCEPT ![c] = @ + 1]
  /\ UNCHANGED <<lifeVars, state, stranded, pointerVars, destroyVars, mem>>

\* Mutant: the count of readers is not looked at.
RestoreDataReadUnchecked(c) ==
  /\ Reachable(c)
  /\ num_readers' = [num_readers EXCEPT ![c] = @ - 1]
  /\ held' = [held EXCEPT ![c] = @ - 1]
  /\ UNCHANGED <<lifeVars, state, stranded, pointerVars, destroyVars, mem>>

CeedQFunctionContextRestoreDataRead(c) ==
  /\ Reachable(c) /\ held[c] > 0
  /\ num_readers' = [num_readers EXCEPT ![c] = @ - 1]
  /\ held' = [held EXCEPT ![c] = @ - 1]
  /\ UNCHANGED <<lifeVars, state, stranded, pointerVars, destroyVars, mem>>

\* CeedQFunctionContextSetGeneric compares under read access, and asks for write access
\* only when the value is another one.
SetsField(c, v) == IF Readable(c) /\ mem[data[c]] = v THEN TRUE ELSE Writable(c)

CeedQFunctionContextSetField(c, v) ==
  /\ Reachable(c) /\ SetsField(c, v)
  /\ mem' = [mem EXCEPT ![data[c]] = v]
  /\ UNCHANGED <<lifeVars, accessVars, pointerVars, destroyVars>>

(***************************************************************************)
(* Data.                                                                   *)
(***************************************************************************)
\* CeedQFunctionContextDestroyData: the user's function gets the data by GetData.
DestroysData(c) == data_destroy[c] => Writable(c)
Destroyed(c) == IF data_destroy[c] THEN {data[c]} ELSE {}

\* The function returns an error: the data are still there, and nobody has the access to them
\* that it was given.
DestroyDataFails(c) ==
  /\ data_destroy[c] /\ Writable(c)
  /\ state' = [state EXCEPT ![c] = 1]
  /\ stranded' = [stranded EXCEPT ![c] = @ + 1]
  /\ spent' = spent \cup Destroyed(c)
  /\ UNCHANGED <<num_readers, held, pointerVars, data_destroy, misplaced, mem>>

CeedQFunctionContextSetDataDestroy(c) ==
  /\ Reachable(c) /\ ~data_destroy[c]
  /\ data_destroy' = [data_destroy EXCEPT ![c] = TRUE]
  /\ UNCHANGED <<lifeVars, accessVars, pointerVars, spent, misplaced, mem>>

\* The block b gets the new data: the library's copy, or memory of the caller that is
\* handed over or lent. What was owned is freed, what was lent goes back to the caller,
\* who is done with it.
NewData(c, copy_mode, b) ==
  /\ data' = [data EXCEPT ![c] = b]
  /\ data_owned' = [data_owned EXCEPT ![c] = IF copy_mode = "CEED_USE_POINTER" THEN NULL ELSE b]
  /\ data_borrowed' = [data_borrowed EXCEPT ![c] = IF copy_mode = "CEED_USE_POINTER" THEN b ELSE NULL]
  /\ owner' = [x \in Block |->
       IF x = b THEN IF copy_mode = "CEED_USE_POINTER" THEN "caller" ELSE "library"
       ELSE IF x \in {data_owned[c], data_borrowed[c]} THEN "free" ELSE owner[x]]

\* What is freed loses its contents.
Contents(f) == [x \in Block |-> IF owner'[x] = "free" THEN NULL ELSE f[x]]

\* Mutant: the function gets the data that have just been set.
SetDataThenDestroy(c, copy_mode, v) ==
  /\ Reachable(c) /\ ~Locked(c) /\ DestroysData(c)
  /\ \E b \in Block :
       /\ owner[b] = "free"
       /\ NewData(c, copy_mode, b)
       /\ mem' = Contents([mem EXCEPT ![b] = v])
       /\ spent' = IF data_destroy[c] THEN spent \cup {b} ELSE spent \ {b}
  /\ misplaced' = misplaced \ {c}
  /\ UNCHANGED <<lifeVars, accessVars, data_destroy>>

CeedQFunctionContextSetData(c, copy_mode, v) ==
  /\ Reachable(c) /\ ~Locked(c) /\ DestroysData(c)
  /\ \E b \in Block :
       /\ owner[b] = "free"
       /\ NewData(c, copy_mode, b)
       /\ mem' = Contents([mem EXCEPT ![b] = v])
       /\ spent' = {x \in spent \cup Destroyed(c) : owner'[x] # "free"} \ {b}
  /\ misplaced' = misplaced \ {c}
  /\ UNCHANGED <<lifeVars, accessVars, data_destroy>>

SetDataFails(c) == Reachable(c) /\ DestroyDataFails(c) /\ UNCHANGED lifeVars

\* The backend takes host memory only, and says so when the old data have been destroyed.
SetDataMisplaced(c) ==
  /\ Reachable(c) /\ data_destroy[c] /\ Writable(c)
  /\ spent' = spent \cup Destroyed(c)
  /\ misplaced' = misplaced \cup {c}
  /\ UNCHANGED <<lifeVars, accessVars, pointerVars, data_destroy, mem>>

\* Only what was lent can be taken back, readers or not.
CeedQFunctionContextTakeData(c) ==
  /\ Reachable(c) /\ Readable(c) /\ data_borrowed[c] # NULL
  /\ data' = [data EXCEPT ![c] = NULL]
  /\ data_borrowed' = [data_borrowed EXCEPT ![c] = NULL]
  /\ owner' = [owner EXCEPT ![data[c]] = "free"]
  /\ mem' = Contents(mem)
  /\ spent' = spent \ {data[c]}
  /\ UNCHANGED <<lifeVars, accessVars, data_owned, data_destroy, misplaced>>

(***************************************************************************)
(* Life.                                                                   *)
(***************************************************************************)
CeedQFunctionContextCreate(c) ==
  /\ c \in Kept /\ ~Exists(c)
  /\ ref_count' = [ref_count EXCEPT ![c] = 1]
  /\ handles' = [handles EXCEPT ![c] = 1]
  /\ UNCHANGED <<refused, accessVars, pointerVars, destroyVars, mem>>

\* The end of CeedQFunctionContextDestroy; a read access that is left has no data any more.
FreeContext(c) ==
  /\ state' = [state EXCEPT ![c] = 0]
  /\ num_readers' = [num_readers EXCEPT ![c] = 0]
  /\ held' = [held EXCEPT ![c] = 0]
  /\ stranded' = [stranded EXCEPT ![c] = 0]
  /\ data_destroy' = [data_destroy EXCEPT ![c] = FALSE]
  /\ data' = [data EXCEPT ![c] = NULL]
  /\ data_owned' = [data_owned EXCEPT ![c] = NULL]
  /\ data_borrowed' = [data_borrowed EXCEPT ![c] = NULL]
  /\ owner' = [x \in Block |->
       IF x \in {data_owned[c], data_borrowed[c]} THEN "free" ELSE owner[x]]
  /\ spent' = {x \in spent \cup Destroyed(c) : owner'[x] # "free"}
  /\ mem' = Contents(mem)
  /\ misplaced' = misplaced \ {c}
  /\ UNCHANGED refused

\* What dropping a reference does to the context: nothing while there are others; at the
\* last one it goes, or it stays behind because its data cannot be destroyed.
Dropped(c) == ref_count[c] > 1 \/ (~Locked(c) /\ DestroysData(c))

GiveUp(c) ==
  IF ref_count[c] = 1 /\ Dropped(c) THEN FreeContext(c)
  ELSE /\ refused' = IF Dropped(c) THEN refused ELSE refused \cup {c}
       /\ UNCHANGED <<accessVars, pointerVars, destroyVars, mem>>

\* Refused, the reference is gone all the same.
CeedQFunctionContextDestroy(c) ==
  /\ Reachable(c)
  /\ handles' = [handles EXCEPT ![c] = @ - 1]
  /\ ref_count' = [ref_count EXCEPT ![c] = @ - 1]
  /\ GiveUp(c)

\* The last reference is gone, and the data are not.
GiveUpFails(c) == ref_count[c] = 1 /\ DestroyDataFails(c) /\ refused' = refused \cup {c}

DestroyFails(c) ==
  /\ Reachable(c)
  /\ handles' = [handles EXCEPT ![c] = @ - 1]
  /\ ref_count' = [ref_count EXCEPT ![c] = @ - 1]
  /\ GiveUpFails(c)

ContextCall(c) ==
  \/ CeedQFunctionContextGetData(c) \/ CeedQFunctionContextRestoreData(c)
  \/ CeedQFunctionContextGetDataRead(c) \/ CeedQFunctionContextRestoreDataRead(c)
  \/ CeedQFunctionContextSetDataDestroy(c) \/ CeedQFunctionContextTakeData(c)
  \/ CeedQFunctionContextCreate(c) \/ CeedQFunctionContextDestroy(c)
  \/ SetDataMisplaced(c)
  \/ \E v \in Value :
       \/ StoreData(c, v) \/ CeedQFunctionContextSetField(c, v)
       \/ \E m \in {"CEED_COPY_VALUES", "CEED_OWN_POINTER", "CEED_USE_POINTER"} :
            CeedQFunctionContextSetData(c, m, v)

\* The calls in which the user's function fails.
ContextCallFails(c) == SetDataFails(c) \/ DestroyFails(c)

(***************************************************************************)
(* Properties.                                                             *)
(***************************************************************************)
\* Valid data are owned or lent, never both; an owned block is freed by one context and by
\* nobody else, and none is lost (ceed-qfunctioncontext.c:655, :1002,
\* ceed-ref-qfunctioncontext.c:46). Data that the user's function has been called with are
\* gone, but for two cases: the function failed, and the access to them stays locked; or the
\* backend refused the new ones, and the old ones are used as before, and given to the
\* function again by the next SetData or Destroy.
DataAccounted ==
  /\ \A c \in Context :
       /\ data[c] = IF data_owned[c] # NULL THEN data_owned[c] ELSE data_borrowed[c]
       /\ data_owned[c] = NULL \/ data_borrowed[c] = NULL
       /\ data[c] # NULL => Exists(c)
       /\ data_owned[c] # NULL => owner[data_owned[c]] = "library"
       /\ data_borrowed[c] # NULL => owner[data_borrowed[c]] = "caller"
       /\ data[c] \in spent => c \in misplaced \/ Stuck(c)
  /\ \A c, d \in Context : data[c] = data[d] /\ data[c] # NULL => c = d
  /\ \A b \in Block : owner[b] = "library" => \E c \in Context : data_owned[c] = b
===============================================================================
