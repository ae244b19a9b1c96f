-------------------------- MODULE MCCeedWorkVectors ---------------------------
\* CeedWorkVectors on small instances; the vectors are interchangeable.
EXTENDS CeedWorkVectors

Symmetry == Permutations(Vec)
===============================================================================
