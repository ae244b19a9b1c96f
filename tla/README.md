# TLA+ models of libCEED

This directory keeps formal models of libCEED beside its C code: what its objects promise to the
code that uses them, how the interface (`interface/`) and the CPU backends (`backends/ref`,
`backends/memcheck`) implement it, TLC runs that check small instances, and theorems that TLAPS
proves for every instance.

## The system

libCEED is a library without threads of its own. An application creates a `Ceed` context for a backend and from it
vectors, element restrictions, bases, QFunctions with their contexts, and operators that combine
them; applying an operator gathers input vectors into E-vectors, evaluates bases and the QFunction,
and scatters into an output. There are no messages. Objects are not
meant to be shared between threads; the one thing threads have in common is the table of backends,
which every `CeedInit` fills and searches, and which the code guards with two OpenMP critical
sections (`CHANGELOG.md:71`). What makes the code hard is

- objects that share others through reference counts kept by hand, with weak pointers beside them;
- accesses (get ... restore) that callers hold across any number of other calls, guarded by a
  state counter (odd: write access granted) and a count of readers;
- arrays that belong to the library, to the caller, or change hands;
- caches trusted because a counter has not moved (operator inputs, assembled QFunctions);
- calls made of several steps that return at the first error, with the earlier steps done;
- two implementations of many calls: a default in the interface and one of the backend;
- labels and assembled data that refer to contexts which others set, replace or destroy;
- a table written inside critical sections and read outside them.

| component | state | operations | what can go wrong | status |
|---|---|---|---|---|
| `CeedVector` interface, `ref` and `memcheck` backends | `ref_count`, `state`, `num_readers`; arrays valid, owned, borrowed; memcheck's copies | create, reference, destroy; set, take; get and restore; sync; arithmetic | accesses that overlap, stranded locks, double free, stale copies, content changed under an unchanged state | modelled |
| CPU operator input cache | `input_states`, E-vectors | `CeedOperatorSetupInputs` | a stale E-vector used as current | modelled for passive inputs |
| `Ceed`: delegates, references, JiT lists | `ref_count`, `delegate`, `obj_delegates`, `op_fallback_ceed`, `parent`, reader counts | init, reference, destroy; get delegate, parent, fallback; create objects through delegates; get, restore, add to lists | context freed while in use or never, references leaked by a failing call, a dangling parent | modelled, without the choice of the backend |
| work vector pool of a `Ceed` | arrays `vecs` and `is_in_use`, `num_vecs`, `max_vecs` | get, restore, clear, destroy | a vector lent twice, lost, or destroyed in use; a count of the context that is off by one | modelled |
| backend registry | the table of prefixes and priorities, its count, the flag of `CeedRegisterAll`, two critical sections | register, register all, the search of init | an entry of two backends, a search that misses a built-in one or picks a worse one, a deadlock of the sections | modelled, but for the call that lists the table |
| `CeedQFunctionContext` | data, `state`, `num_readers`, the user's destroy function | set, take, get, restore, set a field, destroy | like the vector, and a destroy function called twice, never, or on data that are in use | modelled over `ref` with one field |
| `CeedOperator` and its contexts | QFunction's context, sub-operators, labels | attach, label, set and read fields, apply | a label that no longer fits, references left by refused calls, a set that stops halfway | modelled; fields, sizes and readiness are planned |
| QFunction assembly | `reuse_data`, `needs_data_update`, the assembled vector | build or update, reuse, mark, strip | reuse of outdated data | modelled for the assembled QFunction; fallback operators are planned |
| `CeedQFunction`, `CeedOperator`: building | fields, sizes, flags | set field, compose, check ready | half-set fields, changes after the check | planned |
| `CeedElemRestriction` | offsets, layouts, access count | create, apply, get offsets | wrong scatter in the last, padded block | planned |
| device vectors (CUDA, HIP, SYCL) | host and device arrays, which are valid | as `CeedVector` | data read in the memory that is out of date | planned |
| bases, tensor contractions, SIMD kernels | matrices | evaluation | rounding | not modelled: floating point |
| code generation, JiT, GPU kernels | text | compilation | | not modelled: outside the library's control flow |
| bindings, examples, benchmarks, gallery | | | | not modelled: forwarding and client code |

## The modules

| module | what it is |
|---|---|
| `ArrayAccess` | the abstract promise: a cell of contents, one writer or some readers, a version |
| `CeedVector` | the vector's interface over `Backend = "ref"` or `"memcheck"` |
| `CeedOperatorInputs` | EXTENDS it with the input cache of the CPU operators |
| `WorkPool` | the abstract promise of a pool of work vectors |
| `CeedWorkVectors` | the pool's arrays in one context, and the counts around them |
| `CeedContext` | contexts, delegates and objects, with the pools as sets |
| `CeedRegistry` | the table of backends, filled and searched by several threads |
| `CeedQFunctionContext` | the calls on one QFunction context, over `ref` |
| `CeedOperatorContexts` | EXTENDS it with operators that use the contexts, composite ones, and the assembled QFunction |
| `MCCeedVector`, `MCCeedOperatorInputs`, `MCCeedWorkVectors`, `MCCeedContext`, `MCCeedRegistry`, `MCCeedOperatorContexts` | the symmetry, view and constants of TLC's instances |
| `CeedVectorProofs` | theorems about the types, pointers, arrays and counts of `CeedVector` |
| `CeedVectorPromiseProofs` | EXTENDS it: `CeedVector` implements `ArrayAccess`, and its action properties |
| `CeedOperatorInputsProofs` | EXTENDS that: the cache is fresh, from `ArrayAccess`'s promise |
| `CeedWorkVectorsProofs`, `CeedContextProofs` | theorems about the pool and the contexts; both implement `WorkPool` |
| `CeedRegistryProofs`, `CeedOperatorContextsProofs` | theorems about `CeedRegistry` and `CeedOperatorContexts` |

### ArrayAccess and CeedVector

A call is one step: nothing can run inside it. What interleaves are accesses, so every Get and every
Restore is an action, callers keep what they got for as long as they like, and between the two every
other public call may be made, in any order and on any live vector, also the calls that are bound to
be refused. `err` is the code the last call returned. A call that fails half-way (`AXPY`,
`PointwiseMult`, `Copy`, `CopyStrided`, `Destroy`) is a disjunct of its own that leaves done what the
code has done.

State variables carry the names of the fields they model: `ref_count`, `state`, `num_readers`,
`array`, `owned`, `borrowed` of the backend's `impl`, and for memcheck the contents of
`array_writable_copy` and `array_read_only_copy` (`array` is then `array_allocated`, memcheck's own
buffer). `mem` gives each array's contents, `owner` who has to free it. `handles`, `refused`,
`leaked` and `writer` are history: the handles and pointers callers hold, the vectors whose destruction was
refused, and the references that nobody holds. `CeedVectorReferenceCopy` has two actions, for a variable that
is empty and for one with a handle in it (`CeedVectorReferenceCopyOver`). The latter destroys the old handle after
the new reference is counted; when that is refused the reference stays counted and has no handle: `leaked`.
`HandlesCounted` says that a refusal is the only way to such a reference.

An array whose vector neither keeps nor frees it is `lost` (`owner`): that happens only with a vector of length 0
given an array with `CEED_OWN_POINTER`, see *Findings*. `ArraysAccounted` does not claim that nothing is lost
unless every vector has a length (`Empty = {}`); otherwise `NoneLost` is violated.

Abstractions: an array's contents are one element of `Value`, so arithmetic stores *some* value and
writing a part of an array replaces the whole; the host is the only memory type (the two backends
refuse any other); a caller gives `SetArray` only arrays of its own that no other vector has. `Copy`
and `CopyStrided` are called with two different vectors, as their documentation asks.
`CeedVectorNorm` and `CeedVectorViewRange` stand for every call that only reads.

`CeedVector!KeepsPromise` is the refinement: under `locked = ~Even`, `readers = num_readers`,
`version = state \div 2` and `value` = contents of the valid array, every step of the vector is a step of
each cell of `ArrayAccess`. memcheck does not keep the promise, see *Findings*.

### CeedOperatorInputs

`CeedOperatorSetupInputs_Ref` (and its copies in `blocked` and `opt`) restricts a passive input into
an E-vector only when the vector's state differs from `input_states`. The module adds this cache to
the vector's calls and asks whether an unchanged state is enough to trust an E-vector. Vectors of
operator fields are kept alive by the operator's reference (`SourcesStay`).

### WorkPool and CeedWorkVectors

A vector in the pool holds a pointer to its context that is not counted, or the context could never
go; while it is lent it counts. `CeedWorkVectors` follows the arrays entry by entry: the growth by
doubling with its uninitialised cells, the first fit, the clearing loop as a recursive function over
its rounds, and `DestroyEntry`, the two raises and one drop around each `CeedVectorDestroy`. Callers
may copy references to a vector they got (`outside`), and keep them when they restore it or when it
is cleared out of the pool; it is then an object like any other. `reentered` records a destructor that
ran inside a call. The pool implements `WorkPool` with `size` and `lent` read off the arrays.

Abstractions: an array's contents do not matter here, so accesses to a work vector are always
returned before it is (`CeedVector` has them); lengths asked for are positive. Callers drop their own
references to a pool vector before its context goes (`OutsideDropped`): otherwise the vector
survives, the context's count ends at 1, and `CeedObjectDestroy_Private` refuses with
`CEED_ERROR_UNSUPPORTED` when everything else has been freed.

### CeedContext

The contexts a backend sets up for itself form a tree that does not change; `CeedInit` makes all of
it in one step, with the counts left when the backend's init has handed every delegate over. `phase`
and `ref_count` are per context, `home` is an object's `obj.ceed`, `pool` and `in_use` the work vectors,
`readers` the `num_*_readers` of a list. The objects have no state but their count (`held`). A call on a
context that does not implement it walks down (`Hop`), and its references are returned only when the
call succeeds; `leaked` counts what is left by those that fail. `Release` is `CeedDestroy`, whoever calls it:
one reference less, or a refusal that has dropped the reference all the same, or the end of the
context and of every delegate that only it had (`Cascade`). `handles`, `refused`, `leaked` and `held` are history.

Abstractions: the error handler returns; a pool is a set and any idle vector that is long enough may
be taken; the lists have readers but no entries; streams, backend data and views are left out. A
call that walks up to the root is made only while the parents live (`ChainLive`): the pointer to the
parent is not counted, and with the parent gone the code reads freed memory. After a refused
`CeedDestroy` the caller still has its pointer and may use it, but does not destroy it again: the
count is 0 already. `CeedSetObjectDelegate`'s second call copies over memory that `realloc` did not clear
(`interface/ceed.c:652`); the model takes it for cleared.

### CeedRegistry

A thread makes calls of `CeedInit` and `CeedRegister`, one step after the other: `pc` says where it is.
`CeedInit` enters the section `CeedRegisterAll`; the first one to do so registers every built-in
backend, which enters the section `CeedRegisterImpl` each time (`EnterRegisterImpl`, `Store`,
`LeaveRegisterImpl`); then the search compares entry by entry (`Compare`, `EndSearch`), and the init
function of the best match is called. `backends` and `num_backends` are the table, `register_all_called`
the flag, `holder` the thread in each section.

The search is in no section. It may read while another thread writes the next entry, a data race, so
the four stores of a registration (name, function, priority, count) become visible one at a time in
any order (`unstored`), and the bound of the search may be an old or a new count. Whoever enters the
section afterwards sees all of them. `settled` is history: how many registrations were over when a
search began; what comes later may be found or missed, and if it is found its function may not have been
stored (`crashed`), nor its priority: the search then reads 0, the best there is, and may take the late entry
before one that is preferred to it, against `interface/ceed.c:493`. `BestMatch` says what is left to rely on: by
the priorities read, none of the entries that were there is better than the chosen one, and only that of a
late entry may have been misread.

Abstractions: a name is a sequence of components, as the search compares up to a slash or the end; the
options behind the name are left out; what a backend's init does is one step that succeeds unless the
backend is a weak one, registered only to say that it was not compiled. The error handler returns.
`CeedRegister` drops the error of a full table although `interface/ceed.c:498` promises a code; it
is modelled as it is. `CeedRegistryGetList` and the table of gallery QFunctions are not modelled.

### CeedQFunctionContext and CeedOperatorContexts

`CeedQFunctionContext` holds the calls on a context as operators: the access protocol of the vector, with
the parity of `state` only, since nobody compares versions; the data with their three copy modes, as blocks
(`mem` their contents, `owner` who has to free them); and the user's destroy function, which is called
through `GetData`, can therefore be refused, and may fail: its error is returned with the write access still
held, so the data stay with a locked context (`DestroyDataFails`, called by `SetData`, by `Destroy` and
through a QFunction that gets another context). `spent` is history: the blocks that function has been called
with; `stranded` counts the accesses that failing calls have kept, which the application cannot give back,
for it has no pointer (`Stuck`). Data that the function has had are in use in two cases, both stated in
`DataAccounted`: it failed and they are locked; or it succeeded and the backend refused the new data
(`misplaced`), and then the next `SetData` or `Destroy` gives them to the function a second time. Two more
things follow from the code and are part of the model: with a destroy function and no data (they were taken,
or none were set yet) neither `SetData` nor `Destroy` can ever succeed; and `SetData` and `Destroy` without
a destroy function free owned data under their readers. A context whose destruction was refused stays behind
with count 0 (`refused`).

`CeedOperatorContexts` is the specification. Single operators (`Op`) have a QFunction each, with or without
a context, one context possibly shared (`Attached`). Through the label of a single or of the composite
operator fields are set and read; `Covered` is what a call with a label leads to, nothing once the composite
operator has got a sub-operator that the label does not know. A call that a context refuses keeps its
reference to it (`leaked`). The assembled QFunction is the value it was computed from:
`CeedOperatorLinearAssembleQFunctionBuildOrUpdate` computes it again unless it is reused and not marked, a
set through a label marks, and a refusal in the middle leaves the vector cleared and locked. A user's
QFunction may fail (`QFunctionFails`): it returns before the context's data are given back, so the context
keeps a reader or, if the QFunction may write, the lock (`stranded`; the reference taken for the access is
given back as soon as the data have been got). The operator's own vectors keep their accesses as well, so
that its later calls do not get as far as the context again (`halted`); an apply that is refused does the
same to later applies. `foreign` is history: operators whose context changed by a way the code does not
watch (a call on the context itself, a user's QFunction that writes, whether it then fails or not, another
context, a set refused halfway), where the application has to mark by hand. `CeedQFunctionSetContext` does
not look at whether the QFunction is in use.

Abstractions: every context has the same one field, of one value; the application keeps at most one
handle per context and holds one read access through each; labels of single operators
are there from the beginning, for operators whose context is then not replaced (a label points into the
context, and following it afterwards is undefined); sub-operators are added in a given order. Apply and
assembly of an operator are one step, which gives back the accesses it takes unless it is refused or fails. A
composite operator is built and labelled here but not applied; block assembly, fallback operators
and the destruction of operators are left out, and so is the memcheck variant of the context.

## The runs

| run | shows | bounds |
|---|---|---|
| `vec_lifetime` | references and ownership until the end of a vector's life, with a vector of length 0; copies over used handles | 2 vectors, 2 references, 2 arrays, `state` to 4, 1 reader, 1 reference left behind |
| `vec_memcheck` | the same invariants over memcheck, and that its copies follow the accesses | 2 vectors, 2 arrays, `state` to 4, 2 readers |
| `inputs_ref` | mutual exclusion, versions, ownership and error behaviour of the ref backend (refinement of `ArrayAccess`), and that inputs of an apply are current | 1 field, 2 vectors, 1 array, 2 values, `state` to 4, 2 readers |
| `pool` | the pool's arrays and counts, and that they implement `WorkPool`; also that some call is always possible | 4 vectors of 2 lengths, 2 handles, 1 reference of the caller's per vector |
| `ctx` | who keeps a context alive, through delegation, lending, clearing, refusals and failures | the 4 contexts of `cuda-gen`, 2 objects, 2 lengths, 2 pointers to contexts, 2 references per object, 1 reader, 1 failing call |
| `registry` | what the table and the searches in it can be relied on for, whatever threads do at the same time; and that every call returns | 2 threads of 3 calls, 3 backends (one weak, one brought along), a table of 3, 3 resources |
| `opctx` | who holds and frees a context and its data, that counts are exact, that reused assembled data are current, that a set reaches every sub-operator | 2 contexts, 3 blocks, 2 values, 2 operators of which 1 is assembled and 1 labelled, 1 composite, 1 context with a handle and 1 with a destroy function to begin with, 1 reader each, 1 call that is refused or fails and leaves something behind |
| `vec_leak`, `vec_destroy`, `vec_strand`, `inputs_memcheck`, `ctx_delegate` | findings, below | |

`MaxState`, `MaxReaders` and `MaxRef` bound the counters. Two vectors suffice for the calls on two
vectors and for aliasing in the call on three; two values tell old contents from new; a state of 4
lets each vector be written and read twice. Vectors, arrays and values are
interchangeable, hence the symmetry; `View` leaves out `err`, which no call reads (action properties
see it on every step all the same). The runs do not check for deadlock: with every counter at its
bound and locks stranded nothing need be possible, and an application may stop at any time.

Four vectors make the pool's arrays grow twice beyond one entry and leave cells unused, and let the
clearing loop meet every pattern of three idle and used entries. In `ctx` the chain gen, shared, ref is the
longest the backends build; two pointers are one to destroy and one to see dangling; two objects let
one context be kept by one while the other's goes, and one vector be lent while another is idle.
`MaxLeaked` allows one call that fails on the way: what it leaks is enough to unsettle every later destruction.
One list with one reader is enough for a refusal, and for the restore after it that frees the root.

In `registry` a table of 3 holds all the backends there are, so that a second registration of the same one
finds it full; two threads meet at every point of a registration, and three calls let one register, init,
and init again in a table that has grown. A resource that two backends answer to has a tie between them. In
`opctx` two contexts are shared or not, a third block is needed to replace data while both are in use, and
one reader is one too many wherever exclusive access is needed. `MaxLeaked` bounds references and accesses
left behind together: one refused or failing call, of any kind and at any time, shows what it does to every
count and to every later call. The operators start with a context each: one the application has a handle to
(`Kept`), which it may attach to the other operator too or give a destroy function, and one with a destroy
function (`Destroying`).

Fairness is assumed in `registry` only: weak fairness of each thread's steps. Threads are scheduled by
the system, a call has finitely many steps, and a critical section that is free is entered in the end, which is
what OpenMP promises. `CallsReturn` needs no more. The other modules are sequential: nothing in the
library runs on its own there, and whether a caller restores what it got is up to the caller, so
no fairness is justified and no liveness stated.

## Findings

- `vec_leak`: `CeedVectorSetArray` calls the backend only for a vector with a length
  (`interface/ceed-vector.c:362`). An array given to a vector of length 0 with `CEED_OWN_POINTER` is not kept, and
  nobody frees it, although `include/ceed/types.h:201` says that the implementation takes ownership and will free it.
- `vec_destroy`: `CeedVectorDestroy` (`interface/ceed-vector.c:1223`) drops the reference before it
  checks the accesses. Refused with the nonterminal `CEED_ERROR_ACCESS`, it has modified the object,
  which `include/ceed/types.h:160` excludes; repeating it after the restore frees the backend part
  and fails in `CeedObjectDestroy_Private`.
- `vec_strand`: `CeedVectorAXPY` (`interface/ceed-vector.c:856`) keeps y locked when x refuses to be
  read, against the same line of `types.h`; `AXPBY`, `PointwiseMult`, `Copy` and `CopyStrided` do the
  like.
- `inputs_memcheck`: `CeedVectorScale` (`interface/ceed-vector.c:749`) and four more return the backend's
  implementation without advancing `state`. With memcheck, which implements them, an operator applied
  after a Scale skips the restriction and uses the old contents.
- `ctx_delegate`: `CeedGetObjectDelegate` (`interface/ceed.c:613`) looks at the first entry in each round, so a
  second object delegate is never used, against `interface/ceed.c:630`. No backend of the repository
  registers one; the run gives the context two, as the documentation offers.

Met while modelling and not stated as properties (see the hazards): `CeedDestroy` does not look at the readers of
the Rust source roots; calls that fail in a delegate leak references; a refused `CeedDestroy` has
dropped the reference, so that the restore which follows frees the context. A set or a read refused by a context
leaves a reference to it for ever (`interface/ceed-operator.c`), and the ref backend's context refuses device
memory only after the user's function has destroyed the old data. A composite label is made once, and is refused
for ever when a sub-operator is added afterwards; a field or a context that comes after the label is
passed over without a word. An assembly refused in the middle leaves the assembled vector locked, so that every later
update fails. A user's function that fails (a destroy function, a QFunction) leaves its context locked or with a
reader for ever, and a destroy function may get the same data twice after the backend refused new ones. A late entry
of the table of backends may be preferred for a priority that is not there yet.

## Proofs

Every property that a passing run checks is also proved for all values of the constants, but for the liveness
property `CallsReturn`: invariants, action properties and the three refinements. Each proof has the same
shape: an inductive invariant, first checked by TLC; one lemma for each action, or for each kind of change
several actions make; and a last step that puts them together.

### Vectors

`CeedVectorProofs` proves, for any sets of vectors, arrays and values, for any bounds and for both backends:

- `TypeCorrect` (`[]TypeOK`) and `CopiesCorrect` (`[]CopiesFollowAccess`). Types alone are not inductive:
  `RestoreArray` stores memcheck's writable copy, which has a value only because the copy exists while the
  state is odd; a caller writes through its pointer only while the vector is locked; and a handle is dropped
  only while it is counted. `TypeInv` is the conjunction of the four.
- `PointersCorrect` (`[]PointersAgree`) and `ArraysCorrect` (`[]ArraysAccounted`), which need each other and
  that a vector of length 0 never has an array. Each call is one of six changes of the pointers
  (`PointersSame`, `PointersCopied`, `PointersHandedOver`, `PointersDropped`, `ArrayLost`), one lemma for
  each. What is proved is ownership without sharing and double freeing, and without loss if every vector has a
  length.
- `ReferencesCorrect` (`[]HandlesCounted`), from `ReferencesChange`: only creation, the two copies and the destruction
  touch the counts. It says nothing of a vector once its destruction was refused, and a refused copy counts a
  reference without a handle.

The assumptions are `VecAssumption` (arrays, allocations, values and NULL are different things) and
`BoundAssumption`; TLC evaluates them on every run.

`CeedVectorPromiseProofs` goes on from there.

- `KeepsPromiseCorrect`, for `Backend = "ref"`: `CeedVector` implements `ArrayAccess`. The mapping takes of a
  vector its contents (`Visible`), its state and its readers; a step of the code is, for every vector, a step
  of the cell or none. The invariant is `RefInv`: the types, the pointers (no vector's array is another's, so
  that a write through one pointer changes one cell; `ArraysApart`), and that a vector with write access
  granted has an array (`LockedHasArrayCorrect`). memcheck does not keep the promise: its arithmetic computes
  on the array while a caller writes to a copy that the restore puts over the result, and `inputs_memcheck`
  shows the cache outdated. That is why this theorem and those on the cache's contents name the backend; it is
  the value of a constant, which the runs of `ref` have.
- `NonterminalErrorKeepsContentsCorrect`, `StrandsOnlyOnContentionCorrect`, `ReadersKeepTheirCopyCorrect` and
  `TakenArrayHasContentsCorrect`, in both backends: the action properties, one lemma for each call. The first
  two are the counterparts of the findings: what a call that fails leaves behind is accesses and references,
  never changed contents.
- `ExcludedCorrect`, in both backends: no readers while write access is granted. It is no guard of a single
  call: the state's parity and the count of readers are moved by different calls, some of which go on after a
  refusal.

### The cache of the operators

`CeedOperatorInputsProofs` uses of the vectors nothing but that each step is a step of `ArrayAccess`
(`StateVouches`: while the state stays and is even, the contents are the same or gone). `CacheFreshCorrect`
then needs that a recorded state is even and not in the future (`RecordedBefore`) and that the state an
operator starts from, 0, vouches for nothing, since a vector with a length and state 0 never had contents
(`NothingAtFirst`). `AppliesCurrentInputsCorrect` follows for every apply, and
`PromiseKeptUnderAppliesCorrect` says that the applies are legal users of the vectors. `FieldAssumption`
(every input has a vector with a length) is the only assumption added.

### Work vectors and contexts

`CeedWorkVectorsProofs` proves all four invariants of the pool and the refinement `KeepsPoolPromise`, for any
set of vectors, which may be infinite, and any lengths. `IInv` says that the arrays have no hole, hold each
vector once and mark those that are lent (`ArraysOK`), that the counts of the vectors and of the context are
exact (`CountsOK`), and that the destructor has not been entered again. The first two are stated for the
values of the arrays and counts in the middle of a loop, with the set of vectors still to come, and are the
invariants of the loops of `CeedClearWorkVectors` and `CeedWorkVectorsDestroy`: each loop is a function of the
round, and the statement for all rounds is an induction by well-foundedness of the natural numbers over the
set of rounds at which it fails. The context's count never reaches 0 within the loop because of the reference
taken before it.

`CeedContextProofs` proves the four invariants, the two action properties and `KeepsPoolPromise` of the
contexts, for any topology that `TopologyAssumption` allows, any objects and any bounds. The counts alone are
not inductive:

- a destruction goes down a tree of delegates, so each context's share of its delegators' references must be
  known to be there (`NothingDangles`) and the contexts of a backend must have been made together
  (`TreesWhole`);
- a work vector outside every pool, or lent, is there by somebody's reference (`PoolsOwned`), so a context
  that is freed has no vector out (`FreedWithoutLentVectorsCorrect`);
- references that failing calls have leaked count as held (`OnlyLiveOwed`), and only a root's lists are read
  (`RootsRead`).

The set of contexts a destruction takes along is characterised once (`CascadeWhole`: two rounds of `Cascade`
reach everything, for a chain of contexts ends before it comes to a context again) and used by every call that
can drop a last reference.

### The registry

`CeedRegistryProofs` proves all four invariants of the registry for any number of threads, any list of
backends and any size of the table, from `RegistryAssumption` (the built-in backends differ, names and
resources have a length). Each invariant is a layer over the one before:

- `RegistryTypeCorrect`: that an entry lies in the table is inductive only with `Sections` (who is in a
  section, and that nobody else is) and `SlotFits` (the room seen on entering is still there).
- `EntriesWholeCorrect`, with `EntryInWork`: of the entry being written, the fields already stored are the
  backend's and the name is absent until it is stored; so leaving the section makes it whole.
- `BuiltinsBeforeSearchCorrect`, with `Attempted`, the number of built-in backends whose turn is over: those
  before it are there or the table is full (`Present`), those after it are nowhere but in the entry in work
  (`Absent`), none is there twice (`Unique`).
- `BestMatchCorrect` (of a late entry the priority may be misread, see above), from `Grown` (no step changes
  an entry whose registration is over, nor a name once stored) and `Compared` (the match is the best of what
  has been looked at), kept by the steps of other threads (`SearchKept`) and by a comparison
  (`SearchCompares`).

Three more theorems are what can be proved of `CallsReturn`, the liveness property TLC checks.
`NoneWaitsInVainCorrect`: a thread that waits for a section waits for another thread which itself waits for
nothing, although `CeedRegisterAll` enters one section inside the other. `StepsGoDownCorrect`: each own step
of a thread decreases the number `Steps`, and no step of another thread changes it. `StepsBoundedCorrect`:
that number is bounded by the sizes of the table and of the list of backends. What they leave to TLC is that
the scheduling of the threads is fair.

### Operators and their contexts

`CeedOperatorContextsProofs` proves all four invariants and the action property of the operators' contexts,
for any sets of contexts, blocks, values and operators, from `ContextAssumption` and `OperatorAssumption`:

- `CountsExactCorrect`, from `CountInv`: the counts alone are not inductive, for a context that is created
  in the place of one that is gone must have no users (`Gone`), and one that is freed must have no readers
  but those that failing calls have kept (`KeptReads`). The latter holds because a reader through an
  operator belongs to a context used by an operator that cannot get another one (`Pinned`, `ReaderUses`):
  its label is out. A last reference therefore has nobody beside it (`LastHandle`, `LastUser`). One lemma
  for each kind of change.
- `DataAccountedCorrect`, from `DataInv`: with it that a block is empty exactly when it is free (`Filled`),
  and that the blocks of two contexts are different whatever role they have (`BlocksApart`). Freeing a context
  needs the counts, since an object that others still refer to must not lose its data. That data which the user's
  function has had stay only with a locked or a `misplaced` context is a conjunct of its own: whoever unlocks a
  context is a holder of the access, and after a failure there is none (`Stuck`).
- `AssembledFreshCorrect`, from `FreshInv`: once the types are known it is inductive, every change being
  either marked or noticed (`FreshNoticed`).
- `OperatorContextsTypeCorrect` comes last: that a QFunction never computes with the contents of a free block
  (`SeenType`) rests on all of the above.
- `SetReachesEverySubCorrect`: a label that fits has an entry for every sub-operator, and none of the data is
  missing, or the set would have been refused.

Model-checked only: `CallsReturn`, because no installed prover treats fairness, and the five runs that show a
disagreement with the documentation. No theorem says anything about the bounds on counters in the guards
(`MaxState` and the like) except that they are natural numbers: the results hold for all of them.

## Plan

1. `DeviceVector`: one vector in two memories (`cuda-ref`, `hip-ref`), implementing `CeedVector`'s promise.
2. `CeedOperator`: building, checking and destroying operators over reference-counted parts, then the
fallback operator.
3. Element restrictions as functions, checked against reference definitions.

## Not modelled

The models cover the part of the code that keeps state across calls: reference counts, accesses,
ownership, caches, tables. That is a small share of the repository's lines, about one in fifty. Most of the
rest has no state of that kind: kernels and bases that compute in floating point, which TLC cannot tell
right from wrong; source text generated for and compiled on devices; tables of tuning parameters; Fortran, Python,
Julia and Rust bindings that forward to the C interface; the gallery, examples and benchmarks. Of
the interface itself, `interface/ceed-basis.c`, `interface/ceed-elemrestriction.c`, the numerics of
`interface/ceed-preconditioning.c` and the building of operators are missing, the last two planned
above. Where the listed components are only partly modelled the note in `PROJECT.json` says what is left out.
