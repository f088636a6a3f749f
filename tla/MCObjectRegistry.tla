-------------------------- MODULE MCObjectRegistry --------------------------
(* A registry of three objects, for TLC. *)
EXTENDS ObjectRegistry, TLC

CONSTANTS p1, p2, p3

\* Two contents of one type within the tolerance of each other, one of another
\* type, and one of unknown type without a save string.
MCPrints == {[kind |-> 1, at |-> 0, text |-> 1],
             [kind |-> 1, at |-> 1, text |-> 2],
             [kind |-> 0, at |-> 3, text |-> 0]}

MCSymmetry == Permutations({p1, p2, p3})
=============================================================================
