-------------------------- MODULE PipelineContract --------------------------
(***************************************************************************)
(* What one training step of a pipeline computes, whatever the schedule    *)
(* (_black_hole_flux/src/programs/pipeline_backward): every micro-batch of *)
(* every replica passes forward through the chain of stages and its        *)
(* gradient back, and a stage updates its weights once, when it has seen   *)
(* all of them.  A new batch begins when every stage has updated.          *)
(***************************************************************************)
EXTENDS Naturals

CONSTANTS Stages, Replicas, MicroBatches

VARIABLES
  forwarded,   \* per stage, the micro-batches it has computed
  reversed,    \* per stage, those whose gradient it has computed
  version      \* per stage, the updates of its weights

vars == <<forwarded, reversed, version>>

Batch == Replicas \X MicroBatches
First == CHOOSE s \in Stages : \A t \in Stages : s <= t

Init == /\ forwarded = [s \in Stages |-> {}]
        /\ reversed = [s \in Stages |-> {}]
        /\ version = [s \in Stages |-> 0]

\* A stage computes on what the stage before it has computed.
Forward(s, x) ==
  /\ x \notin forwarded[s]
  /\ s # First => x \in forwarded[s - 1]
  /\ forwarded' = [forwarded EXCEPT ![s] = @ \cup {x}]
  /\ UNCHANGED <<reversed, version>>

\* Its gradient needs its own graph and the gradient of the stage after it.
Backward(s, x) ==
  /\ x \in forwarded[s] \ reversed[s]
  /\ s + 1 \in Stages => x \in reversed[s + 1]
  /\ reversed' = [reversed EXCEPT ![s] = @ \cup {x}]
  /\ UNCHANGED <<forwarded, version>>

Update(s) ==
  /\ reversed[s] = Batch /\ \A t \in Stages : version[s] <= version[t]
  /\ version' = [version EXCEPT ![s] = @ + 1]
  /\ UNCHANGED <<forwarded, reversed>>

NextBatch ==
  /\ \A s, t \in Stages : reversed[s] = Batch /\ version[s] = version[t]
  /\ forwarded' = [s \in Stages |-> {}] /\ reversed' = [s \in Stages |-> {}]
  /\ UNCHANGED version

Next == \/ \E s \in Stages : Update(s) \/ \E x \in Batch : Forward(s, x) \/ Backward(s, x)
        \/ NextBatch

Spec == Init /\ [][Next]_vars
=============================================================================
