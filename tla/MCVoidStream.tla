---------------------------- MODULE MCVoidStream ----------------------------
EXTENDS VoidStream, TLC
CONSTANTS r1, r2
MCBegin == [expected_chunks |-> 2, expected_len |-> 2, expected_hash |-> <<1, 2>>, deadline |-> 1]
MCPayloads == {<<1>>, <<2>>}
=============================================================================
