-------------------------- MODULE CeedOperatorInputs --------------------------
(***************************************************************************)
(* The passive inputs of CPU operators on top of CeedVector.               *)
(*                                                                         *)
(* CeedOperatorSetupInputs_Ref (backends/ref/ceed-ref-operator.c, and the  *)
(* same code in the blocked and opt backends) keeps, for each input field, *)
(* the restriction of the field's vector in an E-vector together with the  *)
(* state the vector had then, and skips the restriction when the state is  *)
(* the same. It is the one place where the library itself relies on the    *)
(* state counter, while callers work on the vector between the applies.    *)
(***************************************************************************)
EXTENDS CeedVector

CONSTANTS
  Field,  \* passive input fields of the operators in use
  Source  \* Source[f]: the vector of the field

ASSUME FieldAssumption == Source \in [Field -> Vec \ Empty]

VARIABLES
  input_states, \* impl->input_states: state of the vector when it was restricted
  e_vec         \* impl->e_vecs_full: the restricted contents, NULL before the first time

cacheVars == <<input_states, e_vec>>
inputVars == <<vars, cacheVars>>

CacheTypeOK ==
  /\ input_states \in [Field -> Nat]
  /\ e_vec \in [Field -> Contents \cup {NULL}]

\* Mutant: no state is recorded yet, said with a value that is no state.
InputsInitUnrecorded ==
  /\ Init
  /\ input_states = [f \in Field |-> -1]
  /\ e_vec = [f \in Field |-> NULL]

InputsInit ==
  /\ Init
  /\ input_states = [f \in Field |-> 0]
  /\ e_vec = [f \in Field |-> NULL]

Recorded(f) == input_states' = [input_states EXCEPT ![f] = state[Source[f]]]

\* Mutant: restrict once and for all.
SkipRestrictionOnceRead(f) ==
  /\ state[Source[f]] = input_states[f] \/ e_vec[f] # NULL
  /\ err' = IF e_vec[f] = NULL THEN "backend" ELSE "success"
  /\ UNCHANGED <<refVars, lockVars, implVars, copyVars, writer, cacheVars>>

\* The vector has not moved: the E-vector of an earlier apply is used, if there was one.
SkipRestriction(f) ==
  /\ state[Source[f]] = input_states[f]
  /\ err' = IF e_vec[f] = NULL THEN "backend" ELSE "success"
  /\ UNCHANGED <<refVars, lockVars, implVars, copyVars, writer, cacheVars>>

\* Mutant: the state is recorded although the restriction failed.
RestrictionRefusedRecorded(f) ==
  /\ state[Source[f]] # input_states[f]
  /\ ~(Even(Source[f]) /\ HasValidArray(Source[f]))
  /\ Reject(IF Even(Source[f]) THEN "backend" ELSE "access")
  /\ Recorded(f)
  /\ UNCHANGED e_vec

\* CeedElemRestrictionApply reads the vector like any other reader.
RestrictionRefused(f) ==
  /\ state[Source[f]] # input_states[f]
  /\ ~(Even(Source[f]) /\ HasValidArray(Source[f]))
  /\ Reject(IF Even(Source[f]) THEN "backend" ELSE "access")
  /\ UNCHANGED cacheVars

ReadContents(v) == IF Memcheck THEN ReadCopy(v) ELSE Content(v)

Restrict(f) ==
  /\ state[Source[f]] # input_states[f]
  /\ Even(Source[f]) /\ HasValidArray(Source[f])
  /\ ReadWhole(Source[f])
  /\ e_vec' = [e_vec EXCEPT ![f] = ReadContents(Source[f])]
  /\ IF err' = "success" THEN Recorded(f) ELSE UNCHANGED input_states

CeedOperatorSetupInputs(f) ==
  /\ Source[f] \in Live
  /\ SkipRestriction(f) \/ RestrictionRefused(f) \/ Restrict(f)

\* One of the handles to the vector of a field is the operator's, which keeps it.
SourcesStay == \A f \in Field : Source[f] \in Live => Source[f] \in Live'

InputsNext ==
  \/ \E f \in Field : CeedOperatorSetupInputs(f)
  \/ Next /\ SourcesStay /\ UNCHANGED cacheVars

InputsSpec == InputsInit /\ [][InputsNext]_inputVars

(***************************************************************************)
(* Properties.                                                             *)
(***************************************************************************)
\* A recorded state that is still the vector's vouches for the E-vector.
CacheFresh ==
  \A f \in Field :
    input_states[f] = state[Source[f]] /\ Visible[Source[f]] # NULL => e_vec[f] = Visible[Source[f]]

\* An apply that succeeds works on the contents its passive vectors have at that moment
\* ("Skip restriction if input is unchanged", backends/ref/ceed-ref-operator.c:237).
AppliesCurrentInputs ==
  [][\A f \in Field :
       CeedOperatorSetupInputs(f) /\ err' = "success" /\ Visible[Source[f]] # NULL
         => e_vec'[f] = Visible[Source[f]]]_inputVars
===============================================================================
