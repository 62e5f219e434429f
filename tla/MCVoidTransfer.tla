--------------------------- MODULE MCVoidTransfer ---------------------------
(* Instances of VoidTransfer for TLC. *)
EXTENDS VoidTransfer

CONSTANTS t1, t2, u1

Begin(n, artifact, lease) ==
  [expected_chunks |-> n, expected_len |-> Len(artifact),
   expected_hash |-> artifact, deadline |-> lease]

\* The payloads cut two artifacts of two bytes into parts in several ways: a
\* chunk may be empty, and the same bytes may arrive under the wrong index.
MCPayloads == {<<>>, <<"a">>, <<"b">>, <<"a", "b">>}
OnePayload == {<<"a">>, <<"b">>}
TwoChunks  == {Begin(2, <<"a", "b">>, 2)}
Mixed      == {Begin(2, <<"a", "b">>, 2), Begin(0, <<>>, 1), Begin(1, <<"b">>, 2)}
=============================================================================
