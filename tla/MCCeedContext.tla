----------------------------- MODULE MCCeedContext -----------------------------
\* CeedContext on small instances: the four contexts of the gen backends, and a backend
\* that registers delegates for two kinds of objects.
EXTENDS CeedContext, TLC

CONSTANTS gen, shared, ref, fallback

Contexts == {gen, shared, ref, fallback}
Alone == [c \in Contexts |-> NULL]

\* backends/cuda-gen/ceed-cuda-gen.c:31-45, cuda-shared/ceed-cuda-shared.c:34-40.
GenDelegate == [Alone EXCEPT ![gen] = shared, ![shared] = ref]
GenFallback == [Alone EXCEPT ![gen] = fallback]
NoObjDelegates == [c \in Contexts |-> <<>>]

\* What each has create functions for: the ref backends stand behind the others with
\* vectors, and nobody implements a tensor contraction on a device.
Kinds == {"Vector", "Basis", "Operator", "TensorContract"}
Kernels == gen :> {"Operator"} @@ shared :> {"Basis"} @@ ref :> {"Vector"} @@ fallback :> {"Vector"}

\* The uses of CeedSetObjectDelegate that its documentation names.
FlatDelegate == [Alone EXCEPT ![gen] = ref]
TwoObjDelegates ==
  [NoObjDelegates EXCEPT ![gen] = <<[name |-> "Vector", ceed |-> ref],
                                    [name |-> "Basis", ceed |-> shared]>>]
FlatKernels == [Kernels EXCEPT ![ref] = @ \cup {"Basis"}, ![shared] = @ \cup {"Vector"}]

Symmetry == Permutations(Object)

\* No call reads err, the code of the call before it.
View == <<ceedVars, readers, objVars, callerVars>>
===============================================================================
