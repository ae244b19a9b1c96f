------------------------- MODULE MCCeedOperatorContexts -------------------------
\* CeedOperatorContexts on a small instance: two operators with a context each; the
\* application has a handle to that of the first one and may attach it to the second, too.
EXTENDS CeedOperatorContexts, TLC

CONSTANTS c1, c2, o1, o2

Ways == {(o1 :> c1 @@ o2 :> c2)}

Order == <<o2, o1>>

Symmetry == Permutations(Block) \cup Permutations(Value)
===============================================================================
