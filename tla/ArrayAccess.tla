------------------------------ MODULE ArrayAccess ------------------------------
(***************************************************************************)
(* What a CeedVector promises the code that uses it, with nothing said of  *)
(* where the values are stored: a cell of contents that one writer or any  *)
(* number of readers hold at a time, and a version by which a user can     *)
(* tell, without reading the contents, whether they may have changed.      *)
(***************************************************************************)
EXTENDS Naturals

CONSTANTS Cell, Contents, Invalid

VARIABLES
  locked,  \* locked[c]: write access is granted
  readers, \* readers[c]: number of read accesses granted
  version, \* version[c]: changes whenever the contents may have changed
  value    \* value[c]: the contents, or Invalid when there are none

cellVars == <<locked, readers, version, value>>

CellTypeOK ==
  /\ locked \in [Cell -> BOOLEAN]
  /\ readers \in [Cell -> Nat]
  /\ version \in [Cell -> Nat]
  /\ value \in [Cell -> Contents \cup {Invalid}]

CellInit ==
  /\ locked = [c \in Cell |-> FALSE]
  /\ readers = [c \in Cell |-> 0]
  /\ version = [c \in Cell |-> 0]
  /\ value \in [Cell -> Contents \cup {Invalid}]

Same(c) ==
  /\ locked'[c] = locked[c] /\ readers'[c] = readers[c]
  /\ version'[c] = version[c] /\ value'[c] = value[c]

BeginRead(c) ==
  /\ ~locked[c] /\ value[c] # Invalid
  /\ readers'[c] = readers[c] + 1
  /\ locked'[c] = locked[c] /\ version'[c] = version[c] /\ value'[c] = value[c]

EndRead(c) ==
  /\ readers[c] > 0
  /\ readers'[c] = readers[c] - 1
  /\ locked'[c] = locked[c] /\ version'[c] = version[c] /\ value'[c] = value[c]

Exclusive(c) == ~locked[c] /\ readers[c] = 0 /\ readers'[c] = 0

\* Only a cell with no contents may get some before the writer stores any.
BeginWrite(c) ==
  /\ Exclusive(c)
  /\ locked'[c]
  /\ version'[c] >= version[c]
  /\ value'[c] # Invalid
  /\ value[c] # Invalid => value'[c] = value[c]

Store(c) ==
  /\ locked[c] /\ locked'[c]
  /\ value'[c] # Invalid
  /\ readers'[c] = readers[c] /\ version'[c] = version[c]

EndWrite(c) ==
  /\ locked[c] /\ ~locked'[c]
  /\ value'[c] # Invalid
  /\ readers'[c] = readers[c]
  /\ version'[c] > version[c]

Replace(c) ==
  /\ Exclusive(c) /\ ~locked'[c]
  /\ version'[c] > version[c]

Discard(c) ==
  /\ Exclusive(c) /\ ~locked'[c]
  /\ value'[c] = Invalid
  /\ version'[c] = version[c]

CellStep(c) ==
  \/ Same(c)
  \/ BeginRead(c) \/ EndRead(c)
  \/ BeginWrite(c) \/ Store(c) \/ EndWrite(c)
  \/ Replace(c) \/ Discard(c)

\* A call on two or three vectors is one step of each of them.
CellNext == \A c \in Cell : CellStep(c)

CellSpec == CellInit /\ [][CellNext]_cellVars
===============================================================================
