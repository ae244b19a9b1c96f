------------------------------- MODULE WorkPool -------------------------------
(***************************************************************************)
(* What the pool of work vectors of a Ceed context promises, with nothing  *)
(* said of how it is stored: a vector is lent to one caller at a time, is  *)
(* at least as long as was asked for, and stays in the pool until it has   *)
(* been given back; a new one is made only when no idle one will do.       *)
(***************************************************************************)
EXTENDS Naturals

CONSTANTS Vec, Length

VARIABLES
  size, \* the pool: size[v] is the length of the vector v in it
  lent  \* the vectors of the pool that a caller has

poolVars == <<size, lent>>

Idle == DOMAIN size \ lent
LongEnough(n) == {v \in Idle : size[v] >= n}

PoolInit == size = <<>> /\ lent = {}

LendIdle(n) ==
  /\ \E v \in LongEnough(n) : lent' = lent \cup {v}
  /\ UNCHANGED size

LendNew(n) ==
  /\ LongEnough(n) = {}
  /\ \E v \in Vec \ DOMAIN size :
       /\ size' = [w \in DOMAIN size \cup {v} |-> IF w = v THEN n ELSE size[w]]
       /\ lent' = lent \cup {v}

GiveBack ==
  /\ \E v \in lent : lent' = lent \ {v}
  /\ UNCHANGED size

\* Idle vectors shorter than n leave the pool.
ClearBelow(n) ==
  /\ size' = [v \in lent \cup LongEnough(n) |-> size[v]]
  /\ UNCHANGED lent

\* The pool goes with its context, when every vector is back.
Close == lent = {} /\ size' = <<>> /\ UNCHANGED lent

PoolNext ==
  \/ \E n \in Length : LendIdle(n) \/ LendNew(n) \/ ClearBelow(n)
  \/ GiveBack
  \/ Close

PoolSpec == PoolInit /\ [][PoolNext]_poolVars
===============================================================================
