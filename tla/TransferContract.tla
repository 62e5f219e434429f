-------------------------- MODULE TransferContract --------------------------
(***************************************************************************)
(* What Void promises of a progressive transfer                            *)
(* (_black_hole_type/src/lib.rs, "Progressive artifact transfer protocol", *)
(* and the requests of VoidIn): a declaration first, then its parts in any *)
(* order and each at most once, then either exactly the declared bytes     *)
(* become authoritative for good or nothing does.                          *)
(***************************************************************************)
EXTENDS Integers, Sequences, FiniteSetsExt

CONSTANTS Transfers, Declarations, Payloads, MaxParts

VARIABLE artifact   \* per transfer: its state, declaration and parts

Unstarted == [state |-> "Missing",
              begin |-> [expected_chunks |-> 0, expected_len |-> 0,
                         expected_hash |-> <<>>, deadline |-> 0],
              parts |-> <<>>]

\* The first n parts put end to end.
Assembled(parts, n) ==
  LET join[k \in 0..n] == IF k = 0 THEN <<>> ELSE join[k - 1] \o parts[k - 1]
  IN  join[n]

Init == artifact = [t \in Transfers |-> Unstarted]

Declare(t, d) ==
  /\ artifact[t].state = "Missing"
  /\ d.expected_chunks <= MaxParts
  /\ artifact' = [artifact EXCEPT ![t] = [state |-> "InProgress", begin |-> d, parts |-> <<>>]]

Stage(t, i, p) ==
  /\ artifact[t].state = "InProgress"
  /\ i < artifact[t].begin.expected_chunks /\ i \notin DOMAIN artifact[t].parts
  /\ artifact' = [artifact EXCEPT ![t].parts =
                    [k \in DOMAIN @ \cup {i} |-> IF k = i THEN p ELSE @[k]]]

Publish(t) ==
  /\ artifact[t].state = "InProgress"
  /\ LET n == artifact[t].begin.expected_chunks IN
       /\ DOMAIN artifact[t].parts = 0..(n - 1)
       /\ Assembled(artifact[t].parts, n) = artifact[t].begin.expected_hash
  /\ artifact' = [artifact EXCEPT ![t].state = "Committed"]

Discard(t) ==
  /\ artifact[t].state = "InProgress"
  /\ artifact' = [artifact EXCEPT ![t].state = "Aborted", ![t].parts = <<>>]

Next == \E t \in Transfers :
          \/ \E d \in Declarations : Declare(t, d)
          \/ \E i \in 0..(MaxParts - 1), p \in Payloads : Stage(t, i, p)
          \/ Publish(t)
          \/ Discard(t)

Spec == Init /\ [][Next]_artifact
=============================================================================
