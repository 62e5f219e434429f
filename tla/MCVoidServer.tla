---------------------------- MODULE MCVoidServer ----------------------------
(* A Void server: its progressive transfers, and the calls that reach it   *)
(* (or Mass).  What transfers do is not in the way of files, so each       *)
(* behaviour is about one of the two, and the other stays as it started.   *)
EXTENDS MCVoidTransfer, RemoteCalls
VARIABLE scene

MCInit ==
  /\ Init /\ CallsInit
  /\ \/ scene = "transfers" /\ via = "quic"
     \/ scene = "calls"
MCNext ==
  \/ scene = "transfers" /\ Next /\ UNCHANGED <<callVars, scene>>
  \/ scene = "calls" /\ CallsNext /\ UNCHANGED <<vars, scene>>
MCSpec == MCInit /\ [][MCNext]_<<vars, callVars, scene>>

MCSymmetry == Permutations(Callers)
=============================================================================
