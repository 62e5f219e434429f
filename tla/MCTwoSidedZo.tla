---------------------------- MODULE MCTwoSidedZo ----------------------------
(* An instance of TwoSidedZo for TLC. *)
EXTENDS TwoSidedZo

CONSTANTS cell, boundary, fusion, cellIn, boundaryIn, left, right

\* A cell feeds a warp boundary and, directly, one port of a fusion; the boundary
\* feeds the other.  The two paths have different lengths and meet again.
SkewedOwner ==
  (cellIn :> cell) @@ (boundaryIn :> boundary) @@ (left :> fusion) @@ (right :> fusion)
SkewedTargets == (cell :> {boundaryIn, left}) @@ (boundary :> {right}) @@ (fusion :> {})
=============================================================================
