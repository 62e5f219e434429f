--------------------------- MODULE MCMassWorkers ----------------------------
EXTENDS MassWorkers, TLC
CONSTANTS w1, w2, i1, i2
\* Only the first worker has what the first id needs, every host what the second
\* needs, and each host has one place.
MCNeeds   == [i \in Ids |-> IF i = i1 THEN "qwen" ELSE "slice"]
MCOffers  == [h \in Hosts |-> IF h = w1 THEN {"slice", "qwen"} ELSE {"slice"}]
MCLimit   == [h \in Hosts |-> 1]
=============================================================================
