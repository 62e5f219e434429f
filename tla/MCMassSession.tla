---------------------------- MODULE MCMassSession ---------------------------
(* Instances of MassSession for TLC. *)
EXTENDS MassSession, TLC

CONSTANTS m1, m2, r1, r2, r3

Schedule(period, train, phase, warmup) ==
  [period_steps |-> period, train_steps |-> train, phase_steps |-> phase, warmup_steps |-> warmup]

Unscheduled == {NoOscillation}
\* No schedule, and one that flips after every step.
Alternate == {NoOscillation, Schedule(2, 1, 0, 0)}
\* Windows of every length in cycles of up to three steps, shifted and delayed.
Windows ==
  Alternate \cup
  ({Schedule(p, t, f, w) : p \in 1..3, t \in 0..3, f \in {0, 1, 4}, w \in {0, 2}} \cap FrozenOscillation)

\* What is explored: every interleaving of starts, requests and shutdowns over
\* WideSteps optimize steps with the schedules of Alternate, and one instance
\* that takes one request at a time over MaxSteps of them with any schedule.
WideSteps == 2
Wide ==
  \A m \in Models : session[m].oscillation \in Alternate /\ Len(trained[m]) <= WideSteps
Narrow ==
  /\ \A m \in Models : starts[m] <= IF m = m1 THEN 1 ELSE 0
  /\ Cardinality({r \in Requests : request[r] # Free}) <= 1
\* A fusion changes nothing but fused: what may follow it is explored without.
Studied == fused = {} /\ (Wide \/ Narrow)

MCSymmetry == Permutations(Requests)
=============================================================================
