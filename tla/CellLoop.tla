------------------------------ MODULE CellLoop ------------------------------
(***************************************************************************)
(* The vertices of a Sun under two-sided zeroth-order training             *)
(* (_black_hole_flux/src/nodes): cells with one input port, fusions with   *)
(* two, and model-free vertices (Fusion, the warp boundary), each an       *)
(* endless loop over mailboxes in Void:                                    *)
(*                                                                         *)
(*   perturb up, GradSteps times (receive, infer, transmit), perturb down, *)
(*   GradSteps times (receive, infer, transmit), await losses, optimize.   *)
(*                                                                         *)
(* A mailbox is a Void object: written once, found by its id, still there  *)
(* after it was read.  A vertex knows no neighbour: every envelope it      *)
(* reads names the mailbox to read next and the one to write.              *)
(*                                                                         *)
(* A call to Mass may take effect although its reply is lost.  A cell then *)
(* makes the same call again (jungle_zoo's Backoff); a fusion has no       *)
(* Backoff and is over.  The session of an instance is that of             *)
(* MassSession, as its only client sees it.                                *)
(*                                                                         *)
(* An emission is modelled by its provenance: the root input and, for each *)
(* model it passed, the side the weights were on and the updates they had. *)
(***************************************************************************)
EXTENDS Naturals, FiniteSets, TLC

CONSTANTS
  Nodes,       \* vertices
  Ports,       \* input ports
  Owner,       \* port_vertices
  ModelFree,   \* vertices without a Mass instance
  GradSteps,   \* gradient accumulation steps
  NoMailbox,
  MaxLost,     \* bound: Mass replies lost
  MaxFaults    \* bound: uploads that fail

ASSUME NodesAssumption == IsFiniteSet(Nodes)
ASSUME OwnerAssumption ==
  Owner \in [Ports -> Nodes] /\ \A n \in Nodes : \E p \in Ports : Owner[p] = n
ASSUME ModelFreeAssumption == ModelFree \subseteq Nodes
ASSUME GradStepsAssumption == GradSteps \in Nat \ {0}
ASSUME BoundsAssumption == {MaxLost, MaxFaults} \subseteq Nat

VARIABLES
  box,       \* the mailboxes written so far, by id
  node,      \* CellState, FusionState or BoundaryState, and where the loop is
  session,   \* the MassSession of the vertex and the updates it has made
  lost,      \* Mass replies lost so far
  faults     \* uploads failed so far

cellVars == <<box, node, session, lost, faults>>

Passes == {1, 2}

Mailbox(kind, owner, epoch, step) == [kind |-> kind, owner |-> owner, epoch |-> epoch, step |-> step]

PortsOf(n) == {p \in Ports : Owner[p] = n}

----------------------------------------------------------------------------
(* Transmission                                                            *)

Propagation(emission, recv, send) ==
  [kind |-> "propagation", emission |-> emission, losses |-> 0, recv |-> recv, send |-> send]

Potentiation(losses, recv) ==
  [kind |-> "potentiation", emission |-> {}, losses |-> losses, recv |-> recv, send |-> NoMailbox]

\* upload_to_void_with.
Upload(id, envelope) ==
  box' = [x \in {id} \cup DOMAIN box |-> IF x = id THEN envelope ELSE box[x]]

----------------------------------------------------------------------------
(* The loop                                                                *)

\* BeginGradientAccumulation, before either pass.
BeginPass(n, pass) ==
  [node[n] EXCEPT !.pass = pass, !.micro = 0,
                  !.at = IF n \in ModelFree THEN "receive" ELSE "perturb"]

\* InitRecvId / InitFusion from the seed, and the entry of the first pass.
NewNode(n) ==
  [at |-> IF n \in ModelFree THEN "receive" ELSE "perturb", pass |-> 1, micro |-> 0,
   recv |-> [p \in PortsOf(n) |-> Mailbox("p1", p, 0, 1)], send |-> NoMailbox,
   emission |-> {}, losses |-> 0]

CellInit ==
  /\ box = [id \in {} |-> {}]
  /\ node = [n \in Nodes |-> NewNode(n)]
  /\ session = [n \in Nodes |-> [state |-> "Idle", updates |-> 0]]
  /\ lost = 0 /\ faults = 0

Becomes(n, s) == node' = [node EXCEPT ![n] = s]

\* Cells, which have one port, retry their calls to Mass.
HasBackoff(n) == Cardinality(PortsOf(n)) = 1

\* One call to Mass: the session must be in one of the expected states, else Mass
\* refuses it and changes nothing, now and at each retry.  If the reply is lost
\* the loop stays where it is, or ends.
Calls(n, expected, s, next) ==
  /\ session[n].state \in expected
  /\ session' = [session EXCEPT ![n] = s]
  /\ \/ Becomes(n, next) /\ UNCHANGED lost
     \/ /\ lost < MaxLost /\ lost' = lost + 1
        /\ Becomes(n, IF HasBackoff(n) THEN node[n] ELSE [node[n] EXCEPT !.at = "stopped"])
  /\ UNCHANGED <<box, faults>>

\* PerturbUp before the first pass, PerturbDown before the second.
Perturb(n) ==
  /\ node[n].at = "perturb"
  /\ LET up == node[n].pass = 1 IN
     Calls(n, {IF up THEN "Idle" ELSE "AwaitingPerturbDown"},
           [session[n] EXCEPT !.state = IF up THEN "PostPerturbUp" ELSE "PostPerturbDown"],
           [node[n] EXCEPT !.at = "receive"])

\* wait_for_transmission on every port; a fusion waits for both.
Arrived(n) == \A p \in PortsOf(n) : node[n].recv[p] \in DOMAIN box
Envelope(n, p) == box[node[n].recv[p]]

AllOf(n, kind) == \A p \in PortsOf(n) : Envelope(n, p).kind = kind

\* WaitForPropagation, WaitForFusionPropagation.
Receive(n) ==
  /\ node[n].at = "receive" /\ Arrived(n)
  /\ IF AllOf(n, "propagation") /\ Cardinality({Envelope(n, p).send : p \in PortsOf(n)}) = 1
     THEN Becomes(n, [node[n] EXCEPT
            !.at = "infer",
            !.recv = [p \in PortsOf(n) |-> Envelope(n, p).recv],
            !.send = Envelope(n, CHOOSE p \in PortsOf(n) : TRUE).send,
            !.emission = UNION {Envelope(n, p).emission : p \in PortsOf(n)}])
     ELSE Becomes(n, [node[n] EXCEPT !.at = "failed"])
  /\ UNCHANGED <<box, session, lost, faults>>

Side(state) == IF state \in {"PostPerturbUp", "AwaitingPerturbDown"} THEN "up" ELSE "down"

\* MassInfer on the weights as they are; Mass refuses no state.  A model-free
\* vertex only transforms.
Infer(n) ==
  /\ node[n].at = "infer"
  /\ LET s == session[n]
         out == node[n].emission \cup {<<n, Side(s.state), s.updates>>}
     IN  IF n \in ModelFree
         THEN Becomes(n, [node[n] EXCEPT !.at = "transmit"]) /\ UNCHANGED <<box, session, lost, faults>>
         ELSE Calls(n, {s.state},
                    [s EXCEPT !.state = IF Side(s.state) = "up" THEN "AwaitingPerturbDown" ELSE "AwaitingOptimize"],
                    [node[n] EXCEPT !.at = "transmit", !.emission = out])

\* AdvanceGradientStep and HasPendingGradientStep: another microstep, the second
\* pass, or the losses.
AdvanceGradientStep(n) ==
  IF node[n].micro + 1 < GradSteps THEN [node[n] EXCEPT !.micro = @ + 1, !.at = "receive"]
  ELSE IF node[n].pass = 1 THEN BeginPass(n, 2) ELSE [node[n] EXCEPT !.at = "await"]

\* Transmit.  There is no retry around it: if it fails the loop is over, and the
\* object may have been stored nonetheless.
Transmit(n) ==
  /\ node[n].at = "transmit"
  /\ \/ /\ Upload(node[n].send, Propagation(node[n].emission, NoMailbox, NoMailbox))
        /\ Becomes(n, AdvanceGradientStep(n))
        /\ UNCHANGED faults
     \/ /\ faults < MaxFaults /\ faults' = faults + 1
        /\ \/ Upload(node[n].send, Propagation(node[n].emission, NoMailbox, NoMailbox))
           \/ UNCHANGED box
        /\ Becomes(n, [node[n] EXCEPT !.at = "stopped"])
  /\ UNCHANGED <<session, lost>>

\* WaitForPotentiation, WaitForFusionPotentiation: the losses of every port agree.
AwaitLosses(n) ==
  /\ node[n].at = "await" /\ Arrived(n)
  /\ IF AllOf(n, "potentiation") /\ Cardinality({Envelope(n, p).losses : p \in PortsOf(n)}) = 1
     THEN LET informed == [node[n] EXCEPT
                !.recv = [p \in PortsOf(n) |-> Envelope(n, p).recv],
                !.losses = Envelope(n, CHOOSE p \in PortsOf(n) : TRUE).losses]
          IN  Becomes(n, IF n \in ModelFree
                         THEN [informed EXCEPT !.at = "receive", !.pass = 1, !.micro = 0]
                         ELSE [informed EXCEPT !.at = "optimize"])
     ELSE Becomes(n, [node[n] EXCEPT !.at = "failed"])
  /\ UNCHANGED <<box, session, lost, faults>>

\* Mutant of Optimize: Mass forgets that it waits for losses once.
OptimizeAnyState(n) ==
  /\ node[n].at = "optimize"
  /\ Calls(n, {"AwaitingOptimize", "Idle"}, [state |-> "Idle", updates |-> session[n].updates + 1],
           BeginPass(n, 1))

\* Optimize, then the next iteration.
Optimize(n) ==
  /\ node[n].at = "optimize"
  /\ Calls(n, {"AwaitingOptimize"}, [state |-> "Idle", updates |-> session[n].updates + 1],
           BeginPass(n, 1))

CellNext(n) == Perturb(n) \/ Receive(n) \/ Infer(n) \/ Transmit(n) \/ AwaitLosses(n) \/ Optimize(n)
=============================================================================
