----------------------------- MODULE MCNetwork -----------------------------
(* Model-checking instance of Network: model values for the connection    *)
(* slots and the NULL smartlist, and a symmetry on the slots.             *)
EXTENDS Network, TLC

CONSTANTS c1, c2, c3

MCConns1 == {c1}
MCConns2 == {c1, c2}
MCConns3 == {c1, c2, c3}
MCSymmetry == Permutations(Conns)

=============================================================================
