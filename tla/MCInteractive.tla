--------------------------- MODULE MCInteractive ----------------------------
(***************************************************************************)
(* Finite instances of Interactive.                                        *)
(***************************************************************************)
EXTENDS Interactive

CONSTANT m1

\* Every node serves m1.
AllServeM1 == [n \in Nodes |-> m1]
=============================================================================
