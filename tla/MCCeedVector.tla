----------------------------- MODULE MCCeedVector -----------------------------
\* CeedVector on small instances; the vectors, arrays and values are interchangeable.
EXTENDS CeedVector, TLC

Symmetry == Permutations(Vec \ Empty) \cup Permutations(Array) \cup Permutations(Value)

\* No call reads err, the code of the call before it.
View == <<refVars, lockVars, implVars, copyVars, writer>>
===============================================================================
