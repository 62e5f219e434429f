--------------------------- MODULE MCVoidObjects ----------------------------
EXTENDS VoidObjects, TLC
CONSTANTS s1, s2, r1, r2, r3, u1, u2, c1, c2
\* Two servers, the second with one of the readers and one uploader only.
MCAt == [c \in Clients |-> IF c \in {r2, u2} THEN s2 ELSE s1]
MCCasts == {{r1, r3, u1}, {r1, r2, u2}, {r1, u1, u2}, {c1, c2}, {r1, c1}, {r2, u1, c1}}
=============================================================================
