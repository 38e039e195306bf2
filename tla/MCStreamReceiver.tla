--------------------------- MODULE MCStreamReceiver ---------------------------
EXTENDS StreamReceiver, TLC

CONSTANTS s, t, u, A, B, D

\* Session s carries two media whose first chunks have one size; t and u carry
\* a media of one symbol.
Sent  == ({s} \X {A, B}) \cup ({t, u} \X {D})
Count == [m \in {A, B, D} |-> IF m = B THEN 2 ELSE 1]
Size  == [m \in {A, B, D} |-> CASE m = A -> [c \in 0..0 |-> 2]
                               [] m = B -> [c \in 0..1 |-> 2 - c]
                               [] m = D -> [c \in 0..0 |-> 1]]
\* A chunk of two symbols has a repair droplet.
Sending == [m \in {A, B, D} |-> [c \in DOMAIN Size[m] |-> IF Size[m][c] = 2 THEN 0..2 ELSE {0}]]
Symmetry == Permutations({t, u})
=============================================================================
