------------------------- MODULE MCCeedOperatorInputs -------------------------
\* One operator with one passive input, and callers that work on its vector and on others. The run
\* also checks the properties of the vectors under the ref backend: operators only read them.
EXTENDS CeedOperatorInputs, TLC

CONSTANTS f1, v1

MCSource == f1 :> v1

Symmetry == Permutations(Array) \cup Permutations(Value)
View == <<refVars, lockVars, implVars, copyVars, writer, cacheVars>>
===============================================================================
