------------------------- MODULE MCLibraryActivation -------------------------
EXTENDS LibraryActivation

CONSTANTS a0, a1, a2, a3

\* A chain of two updates, and a rival of the second built on the base.
Chain == {[revision |-> 1, base |-> a0, target |-> a1],
          [revision |-> 2, base |-> a1, target |-> a2],
          [revision |-> 2, base |-> a0, target |-> a3]}
=============================================================================
