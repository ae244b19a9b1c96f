---------------------------- MODULE MCCeedRegistry ----------------------------
\* CeedRegistry on a small instance: two built-in backends of which one is not compiled,
\* and one of a worse priority that applications bring along, as often as they like.
EXTENDS CeedRegistry

CONSTANTS ref, weak, own

Backends == {ref, weak, own}
BuiltinOrder == <<ref, weak>>
Names ==
  [b \in Backends |->
     CASE b = ref -> <<"/cpu", "/self", "/ref">>
       [] b = weak -> <<"/gpu", "/cuda">>
       [] b = own -> <<"/cpu", "/self", "/own">>]
Priorities == [b \in Backends |-> IF b = own THEN 3 ELSE 2]

\* One that two backends answer to, one that only the absent backend does, and a typo.
Resources == {<<"/cpu", "/self">>, <<"/gpu">>, <<"/cpu", "/fpga">>}
===============================================================================
