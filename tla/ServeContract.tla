---------------------------- MODULE ServeContract ----------------------------
(***************************************************************************)
(* What a forward program promises its source and its consumer             *)
(* (_black_hole_flux/src/programs/forward_only): the n-th output served is *)
(* computed from the n-th input alone, and the source is asked for inputs  *)
(* in batches of at most `limit`, never before the batch before is served. *)
(***************************************************************************)
EXTENDS Naturals, Sequences

VARIABLES
  limit,      \* inputs in flight, chosen by the program
  generated,  \* inputs taken from the source
  served      \* for each output served, the inputs it was computed from

vars == <<limit, generated, served>>

Init == limit \in Nat \ {0} /\ generated = 0 /\ served = <<>>

Generate == /\ Len(served) % limit = 0 /\ generated < Len(served) + limit
            /\ generated' = generated + 1 /\ UNCHANGED <<limit, served>>

Serve == /\ generated % limit = 0 /\ Len(served) < generated
         /\ served' = Append(served, {Len(served) + 1}) /\ UNCHANGED <<limit, generated>>

Next == Generate \/ Serve

Spec == Init /\ [][Next]_vars
=============================================================================
