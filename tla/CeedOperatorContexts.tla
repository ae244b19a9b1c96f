-------------------------- MODULE CeedOperatorContexts --------------------------
(***************************************************************************)
(* Operators and the contexts of their QFunctions: fields set and read     *)
(* through labels (interface/ceed-operator.c), on single operators and on  *)
(* a composite one, and the assembled QFunction that is kept until it is   *)
(* marked as out of date (interface/ceed-preconditioning.c), while the     *)
(* application calls the contexts themselves.                              *)
(*                                                                         *)
(* One field is registered in every context. A context is attached to a    *)
(* QFunction before labels of the operator are handed out: labels point    *)
(* into the context and are not taken back.                                *)
(***************************************************************************)
EXTENDS CeedQFunctionContext, Sequences

LOCAL INSTANCE Functions

CONSTANTS
  Op,        \* single operators, each with a QFunction of its own
  Assembler, \* those that the application assembles
  Attached,  \* the ways in which contexts are attached to begin with
  Labelled,  \* the single operators the application has a label of
  Writing,   \* those whose QFunction writes into the context (is_context_writable)
  Composite, \* the composite operator
  Subs,      \* the order in which the application adds its sub-operators
  MaxLeaked  \* bound: references and accesses to contexts that failing calls leave behind

ASSUME OperatorAssumption ==
  /\ Assembler \subseteq Op /\ Writing \subseteq Op /\ Labelled \subseteq Op
  /\ IsFiniteSet(Op)
  /\ Attached \subseteq [Op -> Context \cup {NULL}]
  /\ Composite \notin Op
  /\ Subs \in Seq(Op)
  /\ MaxLeaked \in Nat
  /\ {"none", "locked", "no context"} \cap Value = {}

VARIABLES
  ctx,               \* ctx[o]: qf->ctx
  sub_operators,     \* of the composite operator
  num_sub_labels,    \* of its label, 0 while there is none
  halted,            \* what an operator does not get through any more, because a call that
                     \* failed has kept access to its own vectors
  reading,           \* history: operators through which a read access is held
  leaked,            \* history: references to a context left by refused calls
  reuse_data,        \* of those that the application assembles, as the next one
  needs_data_update,
  assembled,         \* the values the assembled QFunction was computed from
  foreign            \* history: those whose context changed in another way than by a set
                     \* through an operator that covers them, since the last assembly

buildVars == <<ctx, sub_operators, num_sub_labels, halted>>
assemblyVars == <<reuse_data, needs_data_update, assembled>>
operatorVars == <<buildVars, reading, leaked, assemblyVars, foreign>>
vars == <<contextVars, operatorVars>>

OperatorContextsTypeOK ==
  /\ DataTypeOK
  /\ ctx \in [Op -> Context \cup {NULL}]
  /\ sub_operators \in Seq(Op)
  /\ num_sub_labels \in Nat
  /\ halted \subseteq {"apply", "assemble"} \X Op
  /\ reading \subseteq Labelled \cup {Composite}
  /\ leaked \in [Context -> Nat]
  /\ reuse_data \in [Assembler -> BOOLEAN]
  /\ needs_data_update \in [Assembler -> BOOLEAN]
  /\ assembled \in [Assembler -> Value \cup {"none", "locked", "no context"}]
  /\ foreign \subseteq Assembler

Users(c) == {o \in Op : ctx[o] = c}

Init ==
  /\ ctx \in Attached
  /\ ContextInit([c \in Context |-> Cardinality(Users(c))])
  /\ reading = {} /\ foreign = {} /\ halted = {}
  /\ sub_operators = <<>>
  /\ num_sub_labels = 0
  /\ leaked = [c \in Context |-> 0]
  /\ reuse_data = [o \in Assembler |-> FALSE]
  /\ needs_data_update = [o \in Assembler |-> FALSE]
  /\ assembled = [o \in Assembler |-> "none"]

\* What the QFunction of o computes with.
Seen(o) ==
  IF ctx[o] = NULL THEN "no context"
  ELSE IF data[ctx[o]] = NULL THEN "none" ELSE mem[data[ctx[o]]]

\* The history of changes behind the back of an operator.
IsSetup(o) == assembled[o] # "none"
Changed(covered) == {o \in Assembler \ covered : IsSetup(o) /\ Seen(o)' # Seen(o)}
Notice(covered) == foreign' = foreign \cup Changed(covered)

\* A context whose destruction was refused is not used through operators either.
Usable(o) == ctx[o] # NULL => Live(ctx[o])

MayLeak == FoldFunction(+, 0, leaked) + FoldFunction(+, 0, stranded) < MaxLeaked

\* A call refused by a context does not give back its reference to it.
LeakReference(c) ==
  /\ MayLeak
  /\ leaked' = [leaked EXCEPT ![c] = @ + 1]
  /\ ref_count' = [ref_count EXCEPT ![c] = @ + 1]
  /\ UNCHANGED <<handles, refused>>

(***************************************************************************)
(* Building.                                                               *)
(***************************************************************************)
InComposite(o) == \E i \in DOMAIN sub_operators : sub_operators[i] = o

\* The old context is given up first; when that is refused the QFunction keeps its pointer.
\* Nothing marks what has been assembled as out of date.
CeedQFunctionSetContext(o, c) ==
  /\ Usable(o) /\ (c # NULL => Reachable(c)) /\ ctx[o] # c
  /\ o \notin Labelled /\ ~(InComposite(o) /\ num_sub_labels > 0)
  /\ LET attach == ctx[o] = NULL \/ Dropped(ctx[o])
     IN /\ ctx' = IF attach THEN [ctx EXCEPT ![o] = c] ELSE ctx
        /\ ref_count' = [x \in Context |->
             IF x = ctx[o] THEN ref_count[x] - 1
             ELSE IF x = c /\ attach THEN ref_count[x] + 1 ELSE ref_count[x]]
  /\ IF ctx[o] = NULL
     THEN UNCHANGED <<refused, accessVars, pointerVars, destroyVars, mem>>
     ELSE GiveUp(ctx[o])
  /\ UNCHANGED <<handles, sub_operators, num_sub_labels, halted, reading, leaked, assemblyVars>>
  /\ Notice({})

\* The user's function fails on the data of the old context.
SetContextFails(o, c) ==
  /\ Usable(o) /\ (c # NULL => Reachable(c)) /\ ctx[o] # c /\ ctx[o] # NULL
  /\ o \notin Labelled /\ ~(InComposite(o) /\ num_sub_labels > 0)
  /\ MayLeak
  /\ ref_count' = [ref_count EXCEPT ![ctx[o]] = @ - 1]
  /\ GiveUpFails(ctx[o])
  /\ UNCHANGED <<handles, buildVars, reading, leaked, assemblyVars, foreign>>

CeedOperatorCompositeAddSub ==
  /\ Len(sub_operators) < Len(Subs)
  /\ sub_operators' = Append(sub_operators, Subs[Len(sub_operators) + 1])
  /\ UNCHANGED <<contextVars, ctx, num_sub_labels, halted, reading, leaked, assemblyVars, foreign>>

\* The label of a composite operator is made once, for the sub-operators of that time;
\* without a context among them there is none. That of a single operator stays as it is.
CeedOperatorGetContextFieldLabel ==
  /\ num_sub_labels = 0
  /\ \E i \in DOMAIN sub_operators : ctx[sub_operators[i]] # NULL
  /\ num_sub_labels' = Len(sub_operators)
  /\ UNCHANGED <<contextVars, ctx, sub_operators, halted, reading, leaked, assemblyVars, foreign>>

(***************************************************************************)
(* Fields through labels.                                                  *)
(***************************************************************************)
\* The operators the label of via was made for.
LabelOf(via) ==
  IF via = Composite
  THEN SubSeq(sub_operators, 1, num_sub_labels)
  ELSE IF via \in Labelled THEN <<via>> ELSE <<>>

\* Mutant: a label made for fewer sub-operators will do.
CoveredByAnyLabel(via) == LabelOf(via)

\* Those a call with the label leads to; none when the composite operator has changed since.
Covered(via) ==
  IF via = Composite /\ num_sub_labels # Len(sub_operators) THEN <<>> ELSE LabelOf(via)

CoveredOps(via) == {Covered(via)[i] : i \in DOMAIN Covered(via)}

\* The first n of them have been set to v.
StoreField(via, n, v) ==
  mem' = [b \in Block |->
    IF \E i \in 1..n : ctx[Covered(via)[i]] # NULL /\ data[ctx[Covered(via)[i]]] = b
    THEN v ELSE mem[b]]

Takes(o, v) == ctx[o] # NULL => SetsField(ctx[o], v)

\* f with the value x for the operators in ops.
SetIn(f, ops, x) == [o \in Assembler |-> IF o \in ops THEN x ELSE f[o]]

\* CeedOperatorSetQFunctionAssemblyDataUpdateNeeded(op, true).
MarkUpdateNeeded(via) ==
  needs_data_update' = SetIn(needs_data_update, CoveredOps(via), TRUE)

\* CeedOperatorContextSetGeneric.
CeedOperatorSetContextField(via, v) ==
  /\ Covered(via) # <<>>
  /\ \A o \in CoveredOps(via) : Usable(o) /\ Takes(o, v)
  /\ StoreField(via, Len(Covered(via)), v)
  /\ MarkUpdateNeeded(via)
  /\ UNCHANGED <<lifeVars, accessVars, pointerVars, destroyVars, buildVars, reading, leaked,
                 reuse_data, assembled>>
  /\ Notice(CoveredOps(via))

\* One context refuses: those before it have been set, and nothing is marked.
SetContextFieldRefused(via, v) ==
  /\ \A o \in CoveredOps(via) : Usable(o)
  /\ \E n \in 1..Len(Covered(via)) :
       /\ ~Takes(Covered(via)[n], v)
       /\ \A i \in 1..(n - 1) : Takes(Covered(via)[i], v)
       /\ StoreField(via, n - 1, v)
       /\ LeakReference(ctx[Covered(via)[n]])
  /\ UNCHANGED <<accessVars, pointerVars, destroyVars, buildVars, reading, assemblyVars>>
  /\ Notice({})

\* The context of the first operator that has one, in a sequence of operators.
FirstContext(s) ==
  LET found == {i \in DOMAIN s : ctx[s[i]] # NULL}
  IN IF found = {} THEN NULL ELSE ctx[s[CHOOSE i \in found : \A j \in found : i <= j]]

\* Where a read through via goes to.
Target(via) == FirstContext(Covered(via))

CeedOperatorGetContextFieldRead(via) ==
  /\ via \notin reading
  /\ Target(via) # NULL /\ Live(Target(via)) /\ Readable(Target(via)) /\ MayRead(Target(via))
  /\ num_readers' = [num_readers EXCEPT ![Target(via)] = @ + 1]
  /\ reading' = reading \cup {via}
  /\ UNCHANGED <<lifeVars, state, held, stranded, pointerVars, destroyVars, mem, buildVars, leaked,
                 assemblyVars, foreign>>

GetContextFieldReadRefused(via) ==
  /\ Target(via) # NULL /\ Live(Target(via)) /\ ~Readable(Target(via))
  /\ LeakReference(Target(via))
  /\ UNCHANGED <<accessVars, pointerVars, destroyVars, mem, buildVars, reading, assemblyVars, foreign>>

\* Mutant: a composite operator gives back to its last sub-operator.
RestoreToTheLast(via) ==
  LET s == Covered(via)
      c == ctx[s[Len(s)]]
  IN /\ via \in reading /\ s # <<>> /\ c # NULL /\ num_readers[c] > 0
     /\ num_readers' = [num_readers EXCEPT ![c] = @ - 1]
     /\ reading' = reading \ {via}
     /\ UNCHANGED <<lifeVars, state, held, stranded, pointerVars, destroyVars, mem, buildVars, leaked,
                    assemblyVars, foreign>>

\* A composite operator that has grown finds nothing to give back any more.
CeedOperatorRestoreContextFieldRead(via) ==
  /\ via \in reading
  /\ Target(via) # NULL /\ Live(Target(via)) /\ num_readers[Target(via)] > 0
  /\ num_readers' = [num_readers EXCEPT ![Target(via)] = @ - 1]
  /\ reading' = reading \ {via}
  /\ UNCHANGED <<lifeVars, state, held, stranded, pointerVars, destroyVars, mem, buildVars, leaked,
                 assemblyVars, foreign>>

(***************************************************************************)
(* Applying and assembling: the QFunction gets the data of its context for *)
(* writing or for reading, and gives them back when it has succeeded. A    *)
(* call that fails keeps access to vectors of the operator, too, so that   *)
(* later ones do not get as far as the context.                            *)
(***************************************************************************)
Runs(o) ==
  ctx[o] # NULL =>
    Live(ctx[o]) /\ IF o \in Writing THEN Writable(ctx[o]) ELSE Readable(ctx[o])

\* The function of the user may leave other values behind.
RunQFunction(o) ==
  /\ Runs(o)
  /\ IF o \in Writing /\ ctx[o] # NULL
     THEN \E v \in Value : mem' = [mem EXCEPT ![data[ctx[o]]] = v]
     ELSE UNCHANGED mem

\* It returns an error: neither the access to its context nor those to its inputs and outputs
\* are given back. (The reference to the context went when the data had been got.)
QFunctionFails(o) ==
  /\ MayLeak
  /\ RunQFunction(o)
  /\ IF ctx[o] = NULL THEN UNCHANGED <<state, num_readers, stranded>>
     ELSE /\ stranded' = [stranded EXCEPT ![ctx[o]] = @ + 1]
          /\ IF o \in Writing
             THEN state' = [state EXCEPT ![ctx[o]] = 1] /\ UNCHANGED num_readers
             ELSE num_readers' = [num_readers EXCEPT ![ctx[o]] = @ + 1] /\ UNCHANGED state
  /\ halted' = halted \cup ({"apply", "assemble"} \X {o})
  /\ UNCHANGED <<held, lifeVars, pointerVars, destroyVars, ctx, sub_operators, num_sub_labels>>

Halted(call, o) == <<call, o>> \in halted

CeedOperatorApply(o) ==
  /\ ~Halted("apply", o)
  /\ RunQFunction(o)
  /\ UNCHANGED <<lifeVars, accessVars, pointerVars, destroyVars, buildVars, reading, leaked, assemblyVars>>
  /\ Notice({})

\* CeedQFunctionGetContextData keeps its reference, and the apply the write access to the
\* E-vectors of the outputs.
ApplyRefused(o) ==
  /\ ~Halted("apply", o)
  /\ Usable(o) /\ ~Runs(o)
  /\ LeakReference(ctx[o])
  /\ halted' = halted \cup {<<"apply", o>>}
  /\ UNCHANGED <<accessVars, pointerVars, destroyVars, mem, ctx, sub_operators, num_sub_labels,
                 reading, assemblyVars, foreign>>

ApplyFails(o) ==
  /\ ~Halted("apply", o)
  /\ QFunctionFails(o)
  /\ UNCHANGED <<reading, leaked, assemblyVars>>
  /\ Notice({})

IsUpdateNeeded(o) == ~reuse_data[o] \/ needs_data_update[o]

\* The QFunction is run: to build what there is not, or to bring up to date what may be old.
Computes(o) ==
  (~IsSetup(o) \/ IsUpdateNeeded(o)) /\ ~Halted("assemble", o) /\ assembled[o] # "locked"

CeedOperatorLinearAssembleQFunctionBuildOrUpdate(o) ==
  /\ Computes(o)
  /\ RunQFunction(o)
  /\ assembled' = [assembled EXCEPT ![o] = Seen(o)]
  /\ needs_data_update' = [needs_data_update EXCEPT ![o] = FALSE]
  /\ UNCHANGED <<lifeVars, accessVars, pointerVars, destroyVars, buildVars, reading, leaked, reuse_data>>
  /\ foreign' = (foreign \ {o}) \cup Changed({o}) \cup (IF Seen(o)' # Seen(o) THEN {o} ELSE {})

\* Mutant: the mark is taken away before the QFunction is run.
RefusedUnmarked(o) ==
  /\ Computes(o)
  /\ Usable(o) /\ ~Runs(o)
  /\ LeakReference(ctx[o])
  /\ needs_data_update' = [needs_data_update EXCEPT ![o] = FALSE]
  /\ UNCHANGED <<accessVars, pointerVars, destroyVars, mem, buildVars, reading, reuse_data, assembled, foreign>>

\* The context refuses in the middle: the assembled vector has been cleared, and the write
\* access to it is not given back, so that later updates fail too. A vector that was being
\* built is lost.
AssembleRefused(o) ==
  /\ Computes(o)
  /\ Usable(o) /\ ~Runs(o)
  /\ LeakReference(ctx[o])
  /\ assembled' = [assembled EXCEPT ![o] = IF IsSetup(o) THEN "locked" ELSE @]
  /\ UNCHANGED <<accessVars, pointerVars, destroyVars, mem, buildVars, reading, reuse_data,
                 needs_data_update, foreign>>

\* The QFunction fails in the middle, with the same left to the assembled vector.
AssembleFails(o) ==
  /\ Computes(o)
  /\ QFunctionFails(o)
  /\ assembled' = [assembled EXCEPT ![o] = IF IsSetup(o) THEN "locked" ELSE @]
  /\ UNCHANGED <<reading, leaked, reuse_data, needs_data_update>>
  /\ Notice({})

\* A composite operator hands these three on to its sub-operators.
Parts(via) == IF via = Composite THEN {o \in Op : InComposite(o)} ELSE {via}

CeedOperatorSetQFunctionAssemblyReuse(via, reuse) ==
  /\ reuse_data' = SetIn(reuse_data, Parts(via), reuse)
  /\ needs_data_update' = SetIn(needs_data_update, Parts(via), TRUE)
  /\ UNCHANGED <<contextVars, buildVars, reading, leaked, assembled, foreign>>

\* The application marks, or vouches for, what has been assembled.
CeedOperatorSetQFunctionAssemblyDataUpdateNeeded(via, needed) ==
  /\ needs_data_update' = SetIn(needs_data_update, Parts(via), needed)
  /\ foreign' = IF needed THEN foreign
                ELSE foreign \cup {o \in Assembler \cap Parts(via) : IsSetup(o) /\ needs_data_update[o]}
  /\ UNCHANGED <<contextVars, buildVars, reading, leaked, reuse_data, assembled>>

CeedOperatorAssemblyDataStrip(via) ==
  /\ reuse_data' = SetIn(reuse_data, Parts(via), FALSE)
  /\ needs_data_update' = SetIn(needs_data_update, Parts(via), FALSE)
  /\ assembled' = SetIn(assembled, Parts(via), "none")
  /\ foreign' = foreign \ Parts(via)
  /\ UNCHANGED <<contextVars, buildVars, reading, leaked>>

\* The contexts are called directly.
CallContext(c) ==
  /\ ContextCall(c) \/ (ContextCallFails(c) /\ MayLeak)
  /\ UNCHANGED <<buildVars, reading, leaked, assemblyVars>>
  /\ Notice({})

Next ==
  \/ \E c \in Context : CallContext(c)
  \/ \E o \in Op :
       \/ \E c \in Kept \cup {NULL} : CeedQFunctionSetContext(o, c) \/ SetContextFails(o, c)
       \/ CeedOperatorApply(o) \/ ApplyRefused(o) \/ ApplyFails(o)
  \/ CeedOperatorCompositeAddSub \/ CeedOperatorGetContextFieldLabel
  \/ \E via \in Labelled \cup {Composite} :
       \/ CeedOperatorGetContextFieldRead(via) \/ GetContextFieldReadRefused(via)
       \/ CeedOperatorRestoreContextFieldRead(via)
       \/ \E v \in Value : CeedOperatorSetContextField(via, v) \/ SetContextFieldRefused(via, v)
  \/ \E o \in Assembler :
       \/ CeedOperatorLinearAssembleQFunctionBuildOrUpdate(o)
       \/ AssembleRefused(o) \/ AssembleFails(o)
  \/ \E via \in Assembler \cup {Composite} :
       \/ CeedOperatorAssemblyDataStrip(via)
       \/ \E b \in BOOLEAN :
            \/ CeedOperatorSetQFunctionAssemblyReuse(via, b)
            \/ CeedOperatorSetQFunctionAssemblyDataUpdateNeeded(via, b)

Spec == Init /\ [][Next]_vars

(***************************************************************************)
(* Properties.                                                             *)
(***************************************************************************)
\* The counts are exact: a reference for every handle, every QFunction and every refused
\* call, a reader for every access that the application holds through the context, through an
\* operator or through the composite operator, or that a QFunction kept when it failed, and no
\* reader beside a writer.
CountsExact ==
  \A c \in Context :
    /\ Live(c) => ref_count[c] = handles[c] + Cardinality(Users(c)) + leaked[c]
    /\ num_readers[c] = held[c] + Cardinality({via \in reading : FirstContext(LabelOf(via)) = c})
                       + (IF Locked(c) THEN 0 ELSE stranded[c])
    /\ Locked(c) => num_readers[c] = 0

\* When the QFunction data are reused (interface/ceed-operator.c:1545-1549), they are
\* current as long as the context is changed by sets through an operator that covers this
\* one, whichever, however often, and whatever assembly is refused in between. (What a set
\* that is refused halfway has changed is not marked: a change in another way.)
AssembledFresh ==
  \A o \in Assembler :
    IsSetup(o) /\ ~IsUpdateNeeded(o) /\ o \notin foreign => assembled[o] = Seen(o)

\* "For composite operators, the values are set in all sub-operator CeedQFunctionContext that
\* have a matching field_name" (interface/ceed-operator.c:2107): no step that leaves another
\* value in one of them is a set that succeeds.
SetReachesEverySub ==
  [][\A v \in Value :
       (\E i \in DOMAIN sub_operators : ctx[sub_operators[i]] # NULL /\ Seen(sub_operators[i])' # v)
         => ~CeedOperatorSetContextField(Composite, v)]_vars
===============================================================================
