-------------------------- MODULE TwoSidedZoProofs --------------------------
(***************************************************************************)
(* What TwoSidedZo promises, for every finalized graph, any number of      *)
(* gradient steps and any bounds: the losses of a step compare the two     *)
(* sides of every model, and reach the weights they were measured on.      *)
(*                                                                         *)
(* A mailbox's id says what is in it (Fits): the propagation of a pass and *)
(* a step to a port, an output of a vertex, or the losses of a step.  Each *)
(* vertex is in one epoch, reads the mailboxes of that epoch in order      *)
(* (Reads), and its weights are on the side of the pass it is in and were  *)
(* updated once per epoch before (Weights).  What a vertex emits then      *)
(* carries the marks of all that is upstream of it, and all vertices of a  *)
(* finalized graph are upstream of the sink.                               *)
(***************************************************************************)
EXTENDS TwoSidedZo, FiniteSetTheorems, TLAPS

----------------------------------------------------------------------------
(* Finalized graphs                                                        *)

Closed(S) == \A n \in S : Predecessors(n) \subseteq S

\* The vertices an output of n has passed.
Upstream(n) == {m \in Nodes : \A S \in SUBSET Nodes : n \in S /\ Closed(S) => m \in S}

Above(n) == UNION {Upstream(m) : m \in Predecessors(n)}

Producers(p) == {m \in Nodes : p \in Targets[m]}

Fed(p) == UNION {Upstream(m) : m \in Producers(p)}

LEMMA UpstreamClosed ==
  ASSUME NEW n \in Nodes
  PROVE  Upstream(n) \subseteq Nodes /\ n \in Upstream(n) /\ Closed(Upstream(n))
  BY DEF Upstream, Closed, Predecessors

LEMMA UpstreamWithin ==
  ASSUME NEW n \in Nodes, NEW S \in SUBSET Nodes, n \in S, Closed(S)
  PROVE  Upstream(n) \subseteq S
  BY DEF Upstream

\* An output has passed its vertex and what the inputs passed.
LEMMA UpstreamStep ==
  ASSUME NEW n \in Nodes
  PROVE  Upstream(n) = {n} \cup Above(n)
<1>1. \A m \in Predecessors(n) : m \in Nodes /\ Upstream(m) \subseteq Upstream(n)
  <2>1. TAKE m \in Predecessors(n)
  <2>2. m \in Nodes /\ m \in Upstream(n)
    BY UpstreamClosed DEF Closed, Predecessors
  <2>3. QED
    BY <2>2, UpstreamClosed, UpstreamWithin
<1>2. {n} \cup Above(n) \subseteq Upstream(n)
  BY <1>1, UpstreamClosed DEF Above
<1>3. Closed({n} \cup Above(n))
  <2>1. SUFFICES ASSUME NEW x \in {n} \cup Above(n), NEW m \in Predecessors(x)
                 PROVE  m \in {n} \cup Above(n)
    BY DEF Closed
  <2>2. CASE x = n
    BY <2>2, <1>1, UpstreamClosed DEF Above
  <2>3. CASE x \in Above(n)
    <3>1. PICK y \in Predecessors(n) : x \in Upstream(y)
      BY <2>3 DEF Above
    <3>2. m \in Upstream(y)
      BY <3>1, <1>1, UpstreamClosed DEF Closed
    <3>3. QED
      BY <3>2 DEF Above
  <2>4. QED
    BY <2>2, <2>3
<1>4. {n} \cup Above(n) \in SUBSET Nodes
  BY <1>2, UpstreamClosed
<1>5. QED
  BY <1>2, <1>3, <1>4, UpstreamWithin

LEMMA OneSink == Sink \in Nodes /\ Sinks = {Sink}
<1>1. IsFiniteSet(Sinks)
  BY FS_Subset, NodesAssumption DEF Sinks
<1>2. PICK x : Sinks = {x}
  BY <1>1, FS_Singleton, FinalizedAssumption DEF Finalized
<1>3. Sink \in Sinks
  BY <1>2 DEF Sink
<1>4. QED
  BY <1>2, <1>3 DEF Sinks

LEMMA OneProducer ==
  ASSUME NEW p \in Ports, NEW m \in Nodes, p \in Targets[m]
  PROVE  Producers(p) = {m} /\ Fed(p) = Upstream(m)
<1>1. IsFiniteSet(Producers(p)) /\ m \in Producers(p)
  BY FS_Subset, NodesAssumption DEF Producers
<1>2. Cardinality(Producers(p)) <= 1
  BY FinalizedAssumption DEF Finalized, Producers
<1>3. Cardinality(Producers(p)) = 1
  BY <1>1, <1>2, FS_CardinalityType, FS_EmptySet
<1>4. Producers(p) = {m}
  BY <1>1, <1>3, FS_Singleton
<1>5. QED
  BY <1>4 DEF Fed

LEMMA RootsAreFedNothing ==
  ASSUME NEW p \in Ports, Owner[p] \in Roots
  PROVE  Fed(p) = {}
<1>1. Producers(p) = {}
  BY OwnerAssumption DEF Roots, Predecessors, Producers
<1>2. QED
  BY <1>1 DEF Fed

LEMMA PortsFeedAbove ==
  ASSUME NEW n \in Nodes
  PROVE  UNION {Fed(p) : p \in PortsOf(n)} = Above(n)
<1>1. ASSUME NEW x, NEW p \in PortsOf(n), x \in Fed(p)
      PROVE  x \in Above(n)
  BY <1>1 DEF Fed, Above, Producers, Predecessors, PortsOf
<1>2. ASSUME NEW x \in Above(n)
      PROVE  \E p \in PortsOf(n) : x \in Fed(p)
  <2>1. PICK m \in Predecessors(n) : x \in Upstream(m)
    BY DEF Above
  <2>2. PICK p \in Targets[m] : Owner[p] = n
    BY DEF Predecessors
  <2>3. m \in Nodes /\ p \in Ports
    BY <2>2, TargetsAssumption DEF Predecessors
  <2>4. QED
    BY <2>1, <2>2, <2>3 DEF Fed, Producers, PortsOf
<1>3. QED
  BY <1>1, <1>2

\* From each vertex a way leads to the sink: otherwise the vertices without one
\* include a least set that successors do not leave, and there each vertex has a
\* predecessor, a cycle.
LEMMA SinkSeesAll == Upstream(Sink) = Nodes
<1> DEFINE Lost == Nodes \ Upstream(Sink)
<1>1. SUFFICES ASSUME Lost # {} PROVE FALSE
  BY OneSink, UpstreamClosed
<1>2. \A d \in Lost : \E t \in Lost : d \in Predecessors(t)
  <2>1. TAKE d \in Lost
  <2>2. d # Sink /\ d \in Nodes
    BY OneSink, UpstreamClosed
  <2>3. PICK p \in Targets[d] : TRUE
    BY <2>2, OneSink DEF Sinks
  <2>4. p \in Ports
    BY <2>2, <2>3, TargetsAssumption
  <2>5. Owner[p] \in Nodes /\ d \in Predecessors(Owner[p])
    BY <2>2, <2>3, <2>4, OwnerAssumption DEF Predecessors
  <2>6. Owner[p] \notin Upstream(Sink)
    BY <2>2, <2>5, OneSink, UpstreamClosed DEF Closed
  <2>7. QED
    BY <2>5, <2>6
<1> DEFINE next == [d \in Lost |-> CHOOSE t \in Lost : d \in Predecessors(t)]
           Kept == {T \in SUBSET Nodes : T # {} /\ T \subseteq Lost /\ \A d \in T : next[d] \in T}
<1>3. \A d \in Lost : next[d] \in Lost /\ d \in Predecessors(next[d])
  BY <1>2
<1>4. Lost \in Kept
  BY <1>1, <1>3
<1>5. IsWellFoundedOn(StrictSubsetOrdering(Nodes), SUBSET Nodes)
  BY FS_StrictSubsetOrderingWellFounded, FS_FiniteSubsetsOfFinite, NodesAssumption
<1>6. PICK T \in Kept : \A U \in Kept : <<U, T>> \notin StrictSubsetOrdering(Nodes)
  <2>1. Kept \subseteq SUBSET Nodes /\ Kept # {}
    BY <1>4
  <2> HIDE DEF Kept
  <2>2. QED
    BY <1>5, <2>1, WFMin
<1> DEFINE U == {next[d] : d \in T}
<1>7. U \in Kept /\ U \subseteq T
  <2>1. T # {} /\ T \subseteq Lost /\ \A d \in T : next[d] \in T
    BY <1>6
  <2> HIDE DEF next
  <2>2. U \subseteq T /\ U # {}
    BY <2>1
  <2>3. \A d \in U : next[d] \in U
    BY <2>1, <2>2
  <2>4. QED
    BY <2>1, <2>2, <2>3
<1>8. U = T
  <2>1. <<U, T>> \notin StrictSubsetOrdering(Nodes) /\ U \in SUBSET Nodes /\ T \in SUBSET Nodes
    BY <1>6, <1>7
  <2> HIDE DEF U, Kept
  <2>2. QED
    BY <2>1, <1>7 DEF StrictSubsetOrdering
<1>9. PICK n \in T : Predecessors(n) \cap T = {}
  BY <1>6, FinalizedAssumption DEF Finalized
<1>10. PICK d \in T : n = next[d]
  BY <1>8, <1>9
<1>11. d \in Predecessors(n)
  <2>1. d \in Lost
    BY <1>6, <1>10
  <2> HIDE DEF next, Lost
  <2>2. QED
    BY <2>1, <1>3, <1>10
<1>12. QED
  BY <1>9, <1>11

----------------------------------------------------------------------------
(* The inductive invariant                                                 *)

In  == <<"p1", "p2">>
Out == <<"out1", "out2">>
Sides == <<"up", "down">>
Steps == 1..GradSteps

\* The provenance of an emission that passed the vertices of S.
Marks(S, pass, step, ep) ==
  {<<"generated", pass, step>>} \cup {<<m, Sides[pass], ep>> : m \in S \ ModelFree}

Value(pass, step, ep, n) == Marks(Upstream(n), pass, step, ep)

\* NextInputId, of any epoch.
Following(pass, step, ep, p) ==
  IF step < GradSteps THEN Mailbox(In[pass], p, ep, step + 1)
  ELSE IF pass = 1 THEN Mailbox("p2", p, ep, 1) ELSE Mailbox("po", p, ep, 1)

Input(pass, step, ep, p) ==
  Propagation(Marks(Fed(p), pass, step, ep), Following(pass, step, ep, p),
              Mailbox(Out[pass], Owner[p], ep, step))

InputFits(id, e, last) ==
  \E pass \in Passes, step \in Steps, ep \in 0..last, p \in Ports :
    id = Mailbox(In[pass], p, ep, step) /\ e = Input(pass, step, ep, p)

OutputFits(id, e, last) ==
  \E pass \in Passes, step \in Steps, ep \in 0..last, n \in Nodes :
    /\ id = Mailbox(Out[pass], n, ep, step)
    /\ e = Propagation(Value(pass, step, ep, n), NoMailbox, NoMailbox)

LossesFit(id, e, last) ==
  \E ep \in 0..last, p \in Ports :
    id = Mailbox("po", p, ep, 1) /\ e = Potentiation(ep, Mailbox("p1", p, ep + 1, 1))

\* What may be in a mailbox, up to an epoch.
Fits(id, e, last) == InputFits(id, e, last) \/ OutputFits(id, e, last) \/ LossesFit(id, e, last)

Mail == \A id \in DOMAIN box : Fits(id, box[id], epoch)

Uploads == \A s \in todo : Fits(s.to, s.envelope, epoch)

Live == {"perturb", "receive", "infer", "transmit", "await", "optimize"}

\* The mailboxes the vertex n, in state s and epoch k, reads and writes next.
Reads(n, s, k, last) ==
  /\ s.pass \in Passes /\ s.micro \in 0..(GradSteps - 1)
  /\ s.at \in {"perturb", "receive"} =>
       s.recv = [p \in PortsOf(n) |-> Mailbox(In[s.pass], p, k, s.micro + 1)]
  /\ s.at = "perturb" => s.micro = 0 /\ n \notin ModelFree
  /\ s.at \in {"perturb", "receive"} /\ s.pass = 2 => k <= last
  /\ s.at \in {"infer", "transmit"} =>
       /\ k <= last
       /\ s.recv = [p \in PortsOf(n) |-> Following(s.pass, s.micro + 1, k, p)]
       /\ s.send = Mailbox(Out[s.pass], n, k, s.micro + 1)
  /\ s.at = "infer" => s.emission = Marks(Above(n), s.pass, s.micro + 1, k)
  /\ s.at = "transmit" => s.emission = Value(s.pass, s.micro + 1, k, n)
  /\ s.at = "await" =>
       k <= last /\ s.pass = 2 /\ s.recv = [p \in PortsOf(n) |-> Mailbox("po", p, k, 1)]
  /\ s.at = "optimize" =>
       /\ k <= last /\ s.pass = 2 /\ n \notin ModelFree /\ s.losses = k
       /\ s.recv = [p \in PortsOf(n) |-> Mailbox("p1", p, k + 1, 1)]

\* The session of a vertex in state s and epoch k; ahead of the vertex where the
\* reply to a call was lost.
Weights(s, m, k) ==
  \/ /\ m.updates = k
     /\ \/ s.pass = 1 /\ s.at = "perturb" /\ m.state \in {"Idle", "PostPerturbUp"}
        \/ s.pass = 1 /\ s.at \in {"receive", "infer", "transmit"}
           /\ m.state \in {"PostPerturbUp", "AwaitingPerturbDown"}
        \/ s.pass = 2 /\ s.at = "perturb"
           /\ m.state \in {"PostPerturbUp", "AwaitingPerturbDown", "PostPerturbDown"}
        \/ s.pass = 2 /\ s.at # "perturb" /\ m.state \in {"PostPerturbDown", "AwaitingOptimize"}
  \/ s.at = "optimize" /\ m.state = "Idle" /\ m.updates = k + 1

Along(n, s, m, k, last) == Reads(n, s, k, last) /\ (n \notin ModelFree => Weights(s, m, k))

Whole(s) ==
  s = [at |-> s.at, pass |-> s.pass, micro |-> s.micro, recv |-> s.recv, send |-> s.send,
       emission |-> s.emission, losses |-> s.losses]

\* The vertices.
Loops ==
  /\ DOMAIN node = Nodes
  /\ \A n \in Nodes :
       /\ Whole(node[n])
       /\ node[n].at \in Live =>
            \E k \in 0..(epoch + 1) : Along(n, node[n], session[n], k, epoch)

States == {"Idle", "PostPerturbUp", "AwaitingPerturbDown", "PostPerturbDown", "AwaitingOptimize"}

Sessions == session \in [Nodes -> [state : States, updates : 0..(epoch + 1)]]

Counters ==
  /\ epoch \in Nat /\ taken \in Nodes
  /\ completed \in [Passes -> [Nodes -> Nat]]

\* The outputs and pairs of the epoch so far, and the output under way.
Paired ==
  /\ phase = "forwarding" => HasTask(taken) /\ Output(taken) \in DOMAIN box
  /\ outputs = [i \in 1..completed[1][Sink] |-> Value(1, i, epoch, Sink)]
  /\ pairs = [i \in 1..completed[2][Sink] |-> <<Value(1, i, epoch, Sink), Value(2, i, epoch, Sink)>>]

IInv == Mail /\ Uploads /\ Loops /\ Sessions /\ Counters /\ Paired

----------------------------------------------------------------------------
(* Mailboxes                                                               *)

LEMMA Kinds ==
  /\ In[1] = "p1" /\ In[2] = "p2" /\ Out[1] = "out1" /\ Out[2] = "out2"
  /\ Sides[1] = "up" /\ Sides[2] = "down"
  /\ <<"p1", "p2">> = In /\ <<"out1", "out2">> = Out
  /\ Passes = {1, 2}
  BY DEF In, Out, Sides, Passes

LEMMA MailboxesDiffer ==
  ASSUME NEW a, NEW b, NEW c, NEW d, NEW w, NEW x, NEW y, NEW z,
         Mailbox(a, b, c, d) = Mailbox(w, x, y, z)
  PROVE  a = w /\ b = x /\ c = y /\ d = z
<1>1. Mailbox(a, b, c, d).kind = Mailbox(w, x, y, z).kind
      /\ Mailbox(a, b, c, d).owner = Mailbox(w, x, y, z).owner
      /\ Mailbox(a, b, c, d).epoch = Mailbox(w, x, y, z).epoch
      /\ Mailbox(a, b, c, d).step = Mailbox(w, x, y, z).step
  OBVIOUS
<1>2. QED
  BY <1>1 DEF Mailbox

LEMMA ReadInput ==
  ASSUME NEW last, NEW pass \in Passes, NEW step, NEW ep, NEW p, NEW e,
         Fits(Mailbox(In[pass], p, ep, step), e, last)
  PROVE  /\ step \in Steps /\ ep \in 0..last /\ p \in Ports
         /\ e = Input(pass, step, ep, p)
<1> DEFINE id == Mailbox(In[pass], p, ep, step)
<1>1. In[pass] \in {"p1", "p2"}
  BY Kinds
<1>2. ~OutputFits(id, e, last) /\ ~LossesFit(id, e, last)
  BY <1>1, MailboxesDiffer, Kinds DEF OutputFits, LossesFit
<1>3. InputFits(id, e, last)
  BY <1>2 DEF Fits
<1>4. PICK pass2 \in Passes, step2 \in Steps, ep2 \in 0..last, p2 \in Ports :
        id = Mailbox(In[pass2], p2, ep2, step2) /\ e = Input(pass2, step2, ep2, p2)
  BY <1>3 DEF InputFits
<1>5. In[pass] = In[pass2] /\ p = p2 /\ ep = ep2 /\ step = step2
  BY <1>4, MailboxesDiffer
<1>6. pass = pass2
  BY <1>5, Kinds
<1>7. QED
  BY <1>4, <1>5, <1>6

LEMMA ReadOutput ==
  ASSUME NEW last, NEW pass \in Passes, NEW step, NEW ep, NEW n, NEW e,
         Fits(Mailbox(Out[pass], n, ep, step), e, last)
  PROVE  e = Propagation(Value(pass, step, ep, n), NoMailbox, NoMailbox)
<1> DEFINE id == Mailbox(Out[pass], n, ep, step)
<1>1. Out[pass] \in {"out1", "out2"}
  BY Kinds
<1>2. ~InputFits(id, e, last) /\ ~LossesFit(id, e, last)
  BY <1>1, MailboxesDiffer, Kinds DEF InputFits, LossesFit
<1>3. OutputFits(id, e, last)
  BY <1>2 DEF Fits
<1>4. PICK pass2 \in Passes, step2 \in Steps, ep2 \in 0..last, n2 \in Nodes :
        /\ id = Mailbox(Out[pass2], n2, ep2, step2)
        /\ e = Propagation(Value(pass2, step2, ep2, n2), NoMailbox, NoMailbox)
  BY <1>3 DEF OutputFits
<1>5. Out[pass] = Out[pass2] /\ n = n2 /\ ep = ep2 /\ step = step2
  BY <1>4, MailboxesDiffer
<1>6. pass = pass2
  BY <1>5, Kinds
<1>7. QED
  BY <1>4, <1>5, <1>6

LEMMA ReadLosses ==
  ASSUME NEW last, NEW p, NEW ep, NEW e, Fits(Mailbox("po", p, ep, 1), e, last)
  PROVE  e = Potentiation(ep, Mailbox("p1", p, ep + 1, 1))
<1> DEFINE id == Mailbox("po", p, ep, 1)
<1>1. ~InputFits(id, e, last) /\ ~OutputFits(id, e, last)
  BY MailboxesDiffer, Kinds DEF InputFits, OutputFits
<1>2. LossesFit(id, e, last)
  BY <1>1 DEF Fits
<1>3. QED
  BY <1>2, MailboxesDiffer DEF LossesFit

\* What fits a mailbox fits it for ever.
LEMMA FitsLater ==
  ASSUME NEW last \in Nat, NEW id, NEW e, Fits(id, e, last)
  PROVE  Fits(id, e, last + 1)
<1>1. \A ep \in 0..last : ep \in 0..(last + 1)
  OBVIOUS
<1>2. CASE InputFits(id, e, last)
  BY <1>1, <1>2 DEF Fits, InputFits
<1>3. CASE OutputFits(id, e, last)
  BY <1>1, <1>3 DEF Fits, OutputFits
<1>4. CASE LossesFit(id, e, last)
  BY <1>1, <1>4 DEF Fits, LossesFit
<1>5. QED
  BY <1>2, <1>3, <1>4 DEF Fits

LEMMA Uploaded ==
  ASSUME Mail, NEW id, NEW e, Fits(id, e, epoch), Upload(id, e), UNCHANGED epoch
  PROVE  Mail' /\ \A x \in DOMAIN box : x \in DOMAIN box'
<1>1. box' = [x \in {id} \cup DOMAIN box |-> IF x = id THEN e ELSE box[x]]
  BY DEF Upload
<1>2. QED
  BY <1>1 DEF Mail

----------------------------------------------------------------------------
(* A vertex                                                                *)

LEMMA WholeAt ==
  ASSUME NEW s, Whole(s), NEW a
  PROVE  /\ [s EXCEPT !.at = a] = [at |-> a, pass |-> s.pass, micro |-> s.micro, recv |-> s.recv,
                send |-> s.send, emission |-> s.emission, losses |-> s.losses]
         /\ Whole([s EXCEPT !.at = a])
<1>1. [s EXCEPT !.at = a] = [at |-> a, pass |-> s.pass, micro |-> s.micro, recv |-> s.recv,
                send |-> s.send, emission |-> s.emission, losses |-> s.losses]
  BY DEF Whole
<1>2. QED
  BY <1>1 DEF Whole

LEMMA ByFields ==
  ASSUME NEW u, NEW a, NEW b, NEW c, NEW d, NEW e, NEW f, NEW g,
         u = [x \in {"at", "pass", "micro", "recv", "send", "emission", "losses"} |-> u[x]],
         u.at = a, u.pass = b, u.micro = c, u.recv = d, u.send = e, u.emission = f, u.losses = g
  PROVE  u = [at |-> a, pass |-> b, micro |-> c, recv |-> d, send |-> e, emission |-> f, losses |-> g]
  OBVIOUS

\* One vertex moves, and only its session.
LEMMA OneMoves ==
  ASSUME Loops, NEW n \in Nodes, NEW s, Becomes(n, s), Whole(s),
         s.at \in Live => \E k \in 0..(epoch + 1) : Along(n, s, session'[n], k, epoch),
         \A m \in Nodes : m # n => session'[m] = session[m],
         UNCHANGED epoch
  PROVE  Loops'
<1>1. DOMAIN node = Nodes /\ node' = [node EXCEPT ![n] = s]
  BY DEF Loops, Becomes
<1>2. DOMAIN node' = Nodes
  BY <1>1
<1>3. SUFFICES ASSUME NEW m \in Nodes
               PROVE  /\ Whole(node'[m])
                      /\ node'[m].at \in Live =>
                           \E k \in 0..(epoch + 1) : Along(m, node'[m], session'[m], k, epoch)
  BY <1>2 DEF Loops
<1>4. CASE m = n
  BY <1>1, <1>4
<1>5. CASE m # n
  BY <1>1, <1>5 DEF Loops
<1>6. QED
  BY <1>4, <1>5

LEMMA Halts ==
  ASSUME Loops, NEW n \in Nodes, NEW a, a \notin Live, Becomes(n, [node[n] EXCEPT !.at = a]),
         \A m \in Nodes : m # n => session'[m] = session[m],
         UNCHANGED epoch
  PROVE  Loops'
<1>1. Whole(node[n])
  BY DEF Loops
<1> DEFINE s == [node[n] EXCEPT !.at = a]
<1>2. Whole(s) /\ s.at = a
  <2>1. Whole(s)
    BY <1>1, WholeAt
  <2>2. s = [at |-> a, pass |-> node[n].pass, micro |-> node[n].micro, recv |-> node[n].recv,
             send |-> node[n].send, emission |-> node[n].emission, losses |-> node[n].losses]
    BY <1>1, WholeAt
  <2>3. s.at = a
    BY <2>2
  <2>4. QED
    BY <2>1, <2>3
<1> HIDE DEF s
<1>3. Becomes(n, s)
  BY DEF s
<1>4. QED
  BY <1>2, <1>3, OneMoves

\* A call to Mass.
LEMMA CallsKeep ==
  ASSUME Loops, Mail, NEW n \in Nodes, NEW expected, NEW m, NEW next, Calls(n, expected, m, next),
         Whole(next), UNCHANGED epoch,
         next.at \in Live => \E k \in 0..(epoch + 1) : Along(n, next, m, k, epoch),
         node[n].at \in Live => \E k \in 0..(epoch + 1) : Along(n, node[n], m, k, epoch),
         n \in DOMAIN session
  PROVE  Loops' /\ Mail'
<1>1. session'[n] = m /\ \A x \in Nodes : x # n => session'[x] = session[x]
  BY DEF Calls
<1>2. Mail'
  BY DEF Calls, Mail
<1>3. CASE Becomes(n, next)
  BY <1>1, <1>2, <1>3, OneMoves
<1>4. CASE Becomes(n, node[n])
  <2>1. Whole(node[n])
    BY DEF Loops
  <2>2. QED
    BY <1>1, <1>2, <1>4, <2>1, OneMoves
<1>5. CASE Becomes(n, [node[n] EXCEPT !.at = "stopped"])
  BY <1>1, <1>2, <1>5, Halts DEF Live
<1>6. QED
  BY <1>2, <1>3, <1>4, <1>5 DEF Calls

\* The vertex's record, taken apart.
LEMMA AtNode ==
  ASSUME Loops, NEW n \in Nodes, node[n].at \in Live
  PROVE  Whole(node[n]) /\ \E k \in 0..(epoch + 1) : Along(n, node[n], session[n], k, epoch)
  BY DEF Loops

LEMMA PerturbKeeps ==
  ASSUME IInv, NEW n \in Nodes, Perturb(n), UNCHANGED epoch
  PROVE  Loops' /\ Mail'
<1>1. PICK k \in 0..(epoch + 1) : Along(n, node[n], session[n], k, epoch)
  BY AtNode DEF IInv, Perturb, Live
<1>2. Whole(node[n]) /\ node[n].at = "perturb"
  BY AtNode DEF IInv, Perturb, Live
<1> DEFINE up == node[n].pass = 1
           m == [session[n] EXCEPT !.state = IF up THEN "PostPerturbUp" ELSE "PostPerturbDown"]
           next == [node[n] EXCEPT !.at = "receive"]
           expected == {IF up THEN "Idle" ELSE "AwaitingPerturbDown"}
<1>3. Calls(n, expected, m, next)
  BY DEF Perturb
<1>4. m.updates = session[n].updates /\ m.state = IF up THEN "PostPerturbUp" ELSE "PostPerturbDown"
  BY DEF IInv, Sessions
<1>5. session[n].state \in expected
  BY <1>3 DEF Calls
<1>6. next = [at |-> "receive", pass |-> node[n].pass, micro |-> node[n].micro, recv |-> node[n].recv,
              send |-> node[n].send, emission |-> node[n].emission, losses |-> node[n].losses]
      /\ Whole(next)
  BY <1>2, WholeAt
<1> HIDE DEF next, m
<1>7. n \notin ModelFree /\ node[n].pass \in {1, 2}
  BY <1>1, <1>2 DEF Along, Reads, Passes
<1>8. Weights(node[n], session[n], k) /\ session[n].updates = k
  BY <1>1, <1>2, <1>7 DEF Along, Weights
<1>9. Weights(next, m, k)
  BY <1>4, <1>6, <1>7, <1>8 DEF Weights
<1>10. Weights(node[n], m, k)
  BY <1>2, <1>4, <1>7, <1>8 DEF Weights
<1>11. Reads(n, next, k, epoch)
  BY <1>1, <1>2, <1>6 DEF Along, Reads
<1>12. Along(n, next, m, k, epoch) /\ Along(n, node[n], m, k, epoch)
  BY <1>1, <1>9, <1>10, <1>11 DEF Along
<1>13. n \in DOMAIN session
  BY DEF IInv, Sessions
<1>14. QED
  BY <1>3, <1>6, <1>12, <1>13, CallsKeep DEF IInv

LEMMA MarksSum ==
  ASSUME NEW n \in Nodes, NEW pass, NEW step, NEW ep
  PROVE  /\ Value(pass, step, ep, n) = Marks(Above(n), pass, step, ep)
                \cup (IF n \in ModelFree THEN {} ELSE {<<n, Sides[pass], ep>>})
         /\ PortsOf(n) # {}
         /\ UNION {Marks(Fed(p), pass, step, ep) : p \in PortsOf(n)} = Marks(Above(n), pass, step, ep)
<1>1. Value(pass, step, ep, n) = Marks(Above(n), pass, step, ep)
                \cup (IF n \in ModelFree THEN {} ELSE {<<n, Sides[pass], ep>>})
  BY UpstreamStep DEF Value, Marks
<1>2. PortsOf(n) # {}
  BY OwnerAssumption DEF PortsOf
<1>3. ASSUME NEW x
      PROVE  (\E p \in PortsOf(n) : x \in Marks(Fed(p), pass, step, ep)) <=> x \in Marks(Above(n), pass, step, ep)
  <2>1. \A v : (\E p \in PortsOf(n) : v \in Fed(p)) <=> v \in Above(n)
    BY PortsFeedAbove
  <2>2. QED
    BY <2>1, <1>2 DEF Marks
<1>4. QED
  BY <1>1, <1>2, <1>3

LEMMA ReceiveKeeps ==
  ASSUME IInv, NEW n \in Nodes, Receive(n), UNCHANGED epoch
  PROVE  Loops' /\ Mail'
<1>1. PICK k \in 0..(epoch + 1) : Along(n, node[n], session[n], k, epoch)
  BY AtNode DEF IInv, Receive, Live
<1>2. Whole(node[n]) /\ node[n].at = "receive"
  BY AtNode DEF IInv, Receive, Live
<1>3. Mail' /\ UNCHANGED session
  BY DEF IInv, Mail, Receive
<1> DEFINE pass == node[n].pass
           step == node[n].micro + 1
           next == [node[n] EXCEPT
            !.at = "infer",
            !.recv = [p \in PortsOf(n) |-> Envelope(n, p).recv],
            !.send = Envelope(n, CHOOSE p \in PortsOf(n) : TRUE).send,
            !.emission = UNION {Envelope(n, p).emission : p \in PortsOf(n)}]
<1>4. pass \in Passes /\ node[n].recv = [p \in PortsOf(n) |-> Mailbox(In[pass], p, k, step)]
  BY <1>1, <1>2 DEF Along, Reads
<1>5. \A p \in PortsOf(n) : /\ Envelope(n, p) = Input(pass, step, k, p)
                            /\ k \in 0..epoch /\ step \in Steps /\ Owner[p] = n
  <2>1. TAKE p \in PortsOf(n)
  <2>2. node[n].recv[p] = Mailbox(In[pass], p, k, step) /\ node[n].recv[p] \in DOMAIN box
    BY <1>4 DEF Receive, Arrived
  <2>3. Fits(Mailbox(In[pass], p, k, step), Envelope(n, p), epoch)
    BY <2>2 DEF IInv, Mail, Envelope
  <2>4. Owner[p] = n
    BY DEF PortsOf
  <2>5. PICK a, b, e, last : a = pass /\ b = step /\ e = Envelope(n, p) /\ last = epoch
    BY <1>4
  <2>6. Fits(Mailbox(In[a], p, k, b), e, last)
    BY <2>3, <2>5
  <2>7. b \in Steps /\ k \in 0..last /\ e = Input(a, b, k, p)
    <3>1. a \in Passes
      BY <1>4, <2>5
    <3>2. \A x \in Passes : \A l, st, ep, q, v : Fits(Mailbox(In[x], q, ep, st), v, l) =>
            st \in Steps /\ ep \in 0..l /\ q \in Ports /\ v = Input(x, st, ep, q)
      BY ReadInput
    <3>3. \A l, st, ep, q, v : Fits(Mailbox(In[a], q, ep, st), v, l) =>
            st \in Steps /\ ep \in 0..l /\ q \in Ports /\ v = Input(a, st, ep, q)
      BY <3>1, <3>2, Zenon
    <3>4. Fits(Mailbox(In[a], p, k, b), e, last) =>
            b \in Steps /\ k \in 0..last /\ p \in Ports /\ e = Input(a, b, k, p)
      BY <3>3
    <3>5. QED
      BY <2>6, <3>4, Zenon
  <2>8. QED
    BY <2>4, <2>5, <2>7
<1>6. CASE Becomes(n, [node[n] EXCEPT !.at = "failed"])
  BY <1>3, <1>6, Halts DEF IInv, Live
<1>7. CASE Becomes(n, next)
  <2>1. PICK q \in PortsOf(n) : q = CHOOSE p \in PortsOf(n) : TRUE
    BY MarksSum
  <2>2. Envelope(n, q).send = Mailbox(Out[pass], n, k, step)
    BY <1>5 DEF Input, Propagation
  <2>3. [p \in PortsOf(n) |-> Envelope(n, p).recv] = [p \in PortsOf(n) |-> Following(pass, step, k, p)]
    BY <1>5 DEF Input, Propagation
  <2>4. UNION {Envelope(n, p).emission : p \in PortsOf(n)} = Marks(Above(n), pass, step, k)
    <3>1. \A p \in PortsOf(n) : Envelope(n, p).emission = Marks(Fed(p), pass, step, k)
      BY <1>5 DEF Input, Propagation
    <3>2. UNION {Envelope(n, p).emission : p \in PortsOf(n)}
            = UNION {Marks(Fed(p), pass, step, k) : p \in PortsOf(n)}
      BY <3>1
    <3>3. QED
      BY <3>2, MarksSum
  <2>5. next = [at |-> "infer", pass |-> pass, micro |-> node[n].micro,
                recv |-> [p \in PortsOf(n) |-> Following(pass, step, k, p)],
                send |-> Mailbox(Out[pass], n, k, step),
                emission |-> Marks(Above(n), pass, step, k), losses |-> node[n].losses]
    <3>1. PICK r : r = node[n]
      OBVIOUS
    <3>2. PICK R, S, E : /\ R = [p \in PortsOf(n) |-> Envelope(n, p).recv]
                         /\ S = Envelope(n, CHOOSE p \in PortsOf(n) : TRUE).send
                         /\ E = UNION {Envelope(n, p).emission : p \in PortsOf(n)}
      OBVIOUS
    <3>3. next = [r EXCEPT !.at = "infer", !.recv = R, !.send = S, !.emission = E]
      BY <3>1, <3>2
    <3>4. PICK u : u = [r EXCEPT !.at = "infer", !.recv = R, !.send = S, !.emission = E]
      OBVIOUS
    <3>5. Whole(r)
      BY <1>2, <3>1
    <3>6. u = [x \in {"at", "pass", "micro", "recv", "send", "emission", "losses"} |-> u[x]]
      BY <3>4, <3>5 DEF Whole
    <3>7. /\ u.at = "infer" /\ u.pass = r.pass /\ u.micro = r.micro /\ u.recv = R
           /\ u.send = S /\ u.emission = E /\ u.losses = r.losses
      BY <3>4, <3>5 DEF Whole
    <3>8. u = [at |-> "infer", pass |-> r.pass, micro |-> r.micro, recv |-> R, send |-> S,
                emission |-> E, losses |-> r.losses]
      BY <3>6, <3>7, ByFields
    <3>9. R = [p \in PortsOf(n) |-> Following(pass, step, k, p)]
      BY <3>2, <2>3
    <3>10. S = Mailbox(Out[pass], n, k, step)
      BY <3>2, <2>1, <2>2
    <3>11. E = Marks(Above(n), pass, step, k)
      BY <3>2, <2>4
    <3> HIDE DEF next
    <3>12. QED
      BY <3>1, <3>3, <3>4, <3>9, <3>10, <3>11, <3>8
  <2> HIDE DEF next
  <2>6. k <= epoch
    BY <1>5, <2>1
  <2>7. Reads(n, next, k, epoch)
    BY <1>1, <2>5, <2>6 DEF Reads, Along
  <2>8. n \notin ModelFree => Weights(next, session[n], k)
    BY <1>1, <1>2, <2>5 DEF Along, Weights
  <2>9. Whole(next)
    BY <2>5 DEF Whole
  <2>10. Along(n, next, session'[n], k, epoch)
    BY <1>3, <2>7, <2>8 DEF Along
  <2>11. QED
    BY <1>3, <1>7, <2>9, <2>10, OneMoves DEF IInv
<1>8. QED
  BY <1>3, <1>6, <1>7 DEF Receive

LEMMA InferKeeps ==
  ASSUME IInv, NEW n \in Nodes, Infer(n), UNCHANGED epoch
  PROVE  Loops' /\ Mail'
<1>1. PICK k \in 0..(epoch + 1) : Along(n, node[n], session[n], k, epoch)
  BY AtNode DEF IInv, Infer, Live
<1>2. Whole(node[n]) /\ node[n].at = "infer"
  BY AtNode DEF IInv, Infer, Live
<1>3. PICK r, s : r = node[n] /\ s = session[n]
  OBVIOUS
<1>4. Whole(r) /\ r.at = "infer" /\ Reads(n, r, k, epoch) /\ (n \notin ModelFree => Weights(r, s, k))
  BY <1>1, <1>2, <1>3 DEF Along
<1>5. /\ r.pass \in Passes /\ k <= epoch
      /\ r.emission = Marks(Above(n), r.pass, r.micro + 1, k)
  BY <1>4 DEF Reads
<1>6. CASE n \in ModelFree
  <2>1. Becomes(n, [r EXCEPT !.at = "transmit"]) /\ UNCHANGED <<box, session>>
    BY <1>3, <1>6 DEF Infer
  <2>2. PICK u : u = [r EXCEPT !.at = "transmit"]
    OBVIOUS
  <2>3. Whole(u) /\ u = [at |-> "transmit", pass |-> r.pass, micro |-> r.micro, recv |-> r.recv,
             send |-> r.send, emission |-> r.emission, losses |-> r.losses]
    BY <2>2, <1>4, WholeAt
  <2>4. u.emission = Value(r.pass, r.micro + 1, k, n)
    <3>1. u.emission = r.emission
      BY <2>3
    <3>2. Value(r.pass, r.micro + 1, k, n) = Marks(Above(n), r.pass, r.micro + 1, k) \cup {}
      BY <1>6, MarksSum
    <3>3. QED
      BY <1>5, <3>1, <3>2
  <2>5. Along(n, u, session'[n], k, epoch)
    BY <1>4, <1>6, <2>3, <2>4 DEF Along, Reads
  <2>6. Becomes(n, u)
    BY <2>1, <2>2
  <2>7. Mail'
    BY <2>1 DEF IInv, Mail
  <2>8. QED
    BY <2>1, <2>3, <2>5, <2>6, <2>7, OneMoves DEF IInv
<1>7. CASE n \notin ModelFree
  <2>1. PICK out, m : /\ out = r.emission \cup {<<n, Side(s.state), s.updates>>}
                      /\ m = [s EXCEPT !.state = IF Side(s.state) = "up" THEN "AwaitingPerturbDown"
                                                                        ELSE "AwaitingOptimize"]
    OBVIOUS
  <2>2. PICK u : u = [r EXCEPT !.at = "transmit", !.emission = out]
    OBVIOUS
  <2>3. Calls(n, {s.state}, m, u)
    BY <1>3, <1>7, <2>1, <2>2 DEF Infer
  <2>4. u = [x \in {"at", "pass", "micro", "recv", "send", "emission", "losses"} |-> u[x]]
    BY <2>2, <1>4 DEF Whole
  <2>5. /\ u.at = "transmit" /\ u.pass = r.pass /\ u.micro = r.micro /\ u.recv = r.recv
        /\ u.send = r.send /\ u.emission = out /\ u.losses = r.losses
    BY <2>2, <1>4 DEF Whole
  <2>6. Whole(u)
    BY <2>4, ByFields DEF Whole
  <2>7. s.state \in States /\ m.updates = s.updates
        /\ m.state = IF Side(s.state) = "up" THEN "AwaitingPerturbDown" ELSE "AwaitingOptimize"
    BY <1>3, <2>1 DEF IInv, Sessions
  <2>8. s.updates = k /\ Side(s.state) = Sides[r.pass]
    BY <1>4, <1>5, <1>7, Kinds DEF Weights, Side
  <2>9. out = Value(r.pass, r.micro + 1, k, n)
    BY <1>5, <1>7, <2>1, <2>8, MarksSum
  <2>10. Reads(n, u, k, epoch)
    BY <1>4, <2>5, <2>9 DEF Reads
  <2>11. Weights(r, m, k) /\ Weights(u, m, k)
    BY <1>4, <1>5, <1>7, <2>5, <2>7, <2>8, Kinds DEF Weights, Side
  <2>12. Along(n, u, m, k, epoch) /\ Along(n, node[n], m, k, epoch)
    BY <1>3, <1>4, <2>10, <2>11 DEF Along
  <2>13. n \in DOMAIN session
    BY DEF IInv, Sessions
  <2>14. QED
    BY <2>3, <2>6, <2>12, <2>13, CallsKeep DEF IInv
<1>8. QED
  BY <1>6, <1>7

\* The vertex after its output: where its next mailbox is.
LEMMA Advances ==
  ASSUME IInv, NEW n \in Nodes, node[n].at = "transmit", NEW k \in 0..(epoch + 1),
         Along(n, node[n], session[n], k, epoch), Whole(node[n])
  PROVE  Whole(AdvanceGradientStep(n)) /\ Along(n, AdvanceGradientStep(n), session[n], k, epoch)
<1>1. PICK r, s : r = node[n] /\ s = session[n]
  OBVIOUS
<1>2. Whole(r) /\ r.at = "transmit" /\ Reads(n, r, k, epoch) /\ (n \notin ModelFree => Weights(r, s, k))
  BY <1>1 DEF Along
<1>3. /\ r.pass \in {1, 2} /\ k <= epoch /\ r.micro \in 0..(GradSteps - 1)
      /\ r.recv = [p \in PortsOf(n) |-> Following(r.pass, r.micro + 1, k, p)]
  BY <1>2, Kinds DEF Reads
<1>4. CASE r.micro + 1 < GradSteps
  <2>1. PICK u : u = [r EXCEPT !.micro = @ + 1, !.at = "receive"]
    OBVIOUS
  <2>2. u = [x \in {"at", "pass", "micro", "recv", "send", "emission", "losses"} |-> u[x]]
    BY <2>1, <1>2 DEF Whole
  <2>3. /\ u.at = "receive" /\ u.pass = r.pass /\ u.micro = r.micro + 1 /\ u.recv = r.recv
    BY <2>1, <1>2 DEF Whole
  <2>4. Whole(u)
    BY <2>2, ByFields DEF Whole
  <2>5. r.recv = [p \in PortsOf(n) |-> Mailbox(In[r.pass], p, k, r.micro + 1 + 1)]
    BY <1>3, <1>4 DEF Following
  <2>6. r.micro + 1 \in 0..(GradSteps - 1)
    BY <1>3, <1>4, GradStepsAssumption
  <2>7. Reads(n, u, k, epoch)
    BY <1>3, <2>3, <2>5, <2>6, Kinds DEF Reads
  <2>8. n \notin ModelFree => Weights(u, s, k)
    BY <1>2, <1>3, <2>3 DEF Weights
  <2>9. AdvanceGradientStep(n) = u
    BY <1>1, <1>4, <2>1 DEF AdvanceGradientStep
  <2>10. QED
    BY <1>1, <2>4, <2>7, <2>8, <2>9 DEF Along
<1>5. CASE ~(r.micro + 1 < GradSteps) /\ r.pass = 1
  <2>1. PICK u, a : /\ a = IF n \in ModelFree THEN "receive" ELSE "perturb"
                    /\ u = [r EXCEPT !.pass = 2, !.micro = 0, !.at = a]
    OBVIOUS
  <2>2. u = [x \in {"at", "pass", "micro", "recv", "send", "emission", "losses"} |-> u[x]]
    BY <2>1, <1>2 DEF Whole
  <2>3. /\ u.at = a /\ u.pass = 2 /\ u.micro = 0 /\ u.recv = r.recv
    BY <2>1, <1>2 DEF Whole
  <2>4. Whole(u)
    BY <2>2, ByFields DEF Whole
  <2>5. r.recv = [p \in PortsOf(n) |-> Mailbox(In[2], p, k, 0 + 1)]
    BY <1>3, <1>5, Kinds DEF Following
  <2>6. Reads(n, u, k, epoch)
    BY <1>3, <2>1, <2>3, <2>5, Kinds, GradStepsAssumption DEF Reads
  <2>7. n \notin ModelFree => Weights(u, s, k)
    BY <1>2, <1>5, <2>1, <2>3 DEF Weights
  <2>8. AdvanceGradientStep(n) = u
    BY <1>1, <1>5, <2>1 DEF AdvanceGradientStep, BeginPass
  <2>9. QED
    BY <1>1, <2>4, <2>6, <2>7, <2>8 DEF Along
<1>6. CASE ~(r.micro + 1 < GradSteps) /\ r.pass = 2
  <2>1. PICK u : u = [r EXCEPT !.at = "await"]
    OBVIOUS
  <2>2. Whole(u) /\ u = [at |-> "await", pass |-> r.pass, micro |-> r.micro, recv |-> r.recv,
             send |-> r.send, emission |-> r.emission, losses |-> r.losses]
    BY <2>1, <1>2, WholeAt
  <2>3. r.recv = [p \in PortsOf(n) |-> Mailbox("po", p, k, 1)]
    BY <1>3, <1>6 DEF Following
  <2>4. Reads(n, u, k, epoch)
    BY <1>3, <1>6, <2>2, <2>3, Kinds DEF Reads
  <2>5. n \notin ModelFree => Weights(u, s, k)
    BY <1>2, <1>6, <2>2 DEF Weights
  <2>6. AdvanceGradientStep(n) = u
    BY <1>1, <1>6, <2>1 DEF AdvanceGradientStep
  <2>7. QED
    BY <1>1, <2>2, <2>4, <2>5, <2>6 DEF Along
<1>7. QED
  BY <1>3, <1>4, <1>5, <1>6

LEMMA TransmitKeeps ==
  ASSUME IInv, NEW n \in Nodes, Transmit(n), UNCHANGED epoch
  PROVE  Loops' /\ Mail' /\ DOMAIN box \subseteq DOMAIN box'
<1>1. PICK k \in 0..(epoch + 1) : Along(n, node[n], session[n], k, epoch)
  BY AtNode DEF IInv, Transmit, Live
<1>2. Whole(node[n]) /\ node[n].at = "transmit"
  BY AtNode DEF IInv, Transmit, Live
<1>3. PICK id, e : id = node[n].send /\ e = Propagation(node[n].emission, NoMailbox, NoMailbox)
  OBVIOUS
<1>4. Fits(id, e, epoch)
  <2>1. PICK pass, step : pass = node[n].pass /\ step = node[n].micro + 1
    OBVIOUS
  <2>2. pass \in Passes /\ step \in Steps /\ k \in 0..epoch
    BY <1>1, <1>2, <2>1, GradStepsAssumption DEF Along, Reads, Steps, IInv, Counters
  <2>3. id = Mailbox(Out[pass], n, k, step)
        /\ e = Propagation(Value(pass, step, k, n), NoMailbox, NoMailbox)
    BY <1>1, <1>2, <1>3, <2>1 DEF Along, Reads
  <2>4. QED
    BY <2>2, <2>3 DEF Fits, OutputFits
<1>5. UNCHANGED session /\ (Upload(id, e) \/ UNCHANGED box)
  BY <1>3 DEF Transmit
<1>6. Mail' /\ DOMAIN box \subseteq DOMAIN box'
  <2>1. CASE Upload(id, e)
    BY <1>4, <2>1, Uploaded DEF IInv
  <2>2. CASE UNCHANGED box
    BY <2>2 DEF IInv, Mail
  <2>3. QED
    BY <1>5, <2>1, <2>2
<1>7. CASE Becomes(n, [node[n] EXCEPT !.at = "stopped"])
  BY <1>5, <1>6, <1>7, Halts DEF IInv, Live
<1>8. CASE Becomes(n, AdvanceGradientStep(n))
  <2>1. PICK u : u = AdvanceGradientStep(n)
    OBVIOUS
  <2>2. Whole(u) /\ Along(n, u, session'[n], k, epoch)
    BY <1>1, <1>2, <1>5, <2>1, Advances
  <2>3. Becomes(n, u)
    BY <1>8, <2>1
  <2>4. Loops'
    BY <1>5, <2>2, <2>3, OneMoves DEF IInv
  <2>5. QED
    BY <1>6, <2>4
<1>9. QED
  BY <1>7, <1>8 DEF Transmit

LEMMA AwaitKeeps ==
  ASSUME IInv, NEW n \in Nodes, AwaitLosses(n), UNCHANGED epoch
  PROVE  Loops' /\ Mail'
<1>1. PICK k \in 0..(epoch + 1) : Along(n, node[n], session[n], k, epoch)
  BY AtNode DEF IInv, AwaitLosses, Live
<1>2. Whole(node[n]) /\ node[n].at = "await"
  BY AtNode DEF IInv, AwaitLosses, Live
<1>3. Mail' /\ UNCHANGED session
  BY DEF IInv, Mail, AwaitLosses
<1>4. PICK r, s : r = node[n] /\ s = session[n]
  OBVIOUS
<1>5. /\ Whole(r) /\ r.at = "await" /\ k <= epoch /\ r.pass = 2
      /\ r.recv = [p \in PortsOf(n) |-> Mailbox("po", p, k, 1)]
      /\ n \notin ModelFree => Weights(r, s, k)
  BY <1>1, <1>2, <1>4 DEF Along, Reads
<1>6. \A p \in PortsOf(n) : Envelope(n, p) = Potentiation(k, Mailbox("p1", p, k + 1, 1))
  <2>1. TAKE p \in PortsOf(n)
  <2>2. node[n].recv[p] = Mailbox("po", p, k, 1) /\ node[n].recv[p] \in DOMAIN box
    BY <1>4, <1>5 DEF AwaitLosses, Arrived
  <2>3. Fits(Mailbox("po", p, k, 1), Envelope(n, p), epoch)
    BY <2>2 DEF IInv, Mail, Envelope
  <2>4. QED
    BY <2>3, ReadLosses
<1>7. PICK R, L : /\ R = [p \in PortsOf(n) |-> Envelope(n, p).recv]
                  /\ L = Envelope(n, CHOOSE p \in PortsOf(n) : TRUE).losses
  OBVIOUS
<1>8. R = [p \in PortsOf(n) |-> Mailbox("p1", p, k + 1, 1)] /\ L = k
  <2>1. (CHOOSE p \in PortsOf(n) : TRUE) \in PortsOf(n)
    BY MarksSum
  <2>2. QED
    BY <1>6, <1>7, <2>1 DEF Potentiation
<1>9. k + 1 \in 0..(epoch + 1)
  BY <1>5 DEF IInv, Counters
<1>10. CASE Becomes(n, [node[n] EXCEPT !.at = "failed"])
  BY <1>3, <1>10, Halts DEF IInv, Live
<1>11. CASE n \in ModelFree
            /\ Becomes(n, [[r EXCEPT !.recv = R, !.losses = L]
                             EXCEPT !.at = "receive", !.pass = 1, !.micro = 0])
  <2>1. PICK v, u : /\ v = [r EXCEPT !.recv = R, !.losses = L]
                    /\ u = [v EXCEPT !.at = "receive", !.pass = 1, !.micro = 0]
    OBVIOUS
  <2>2. v = [x \in {"at", "pass", "micro", "recv", "send", "emission", "losses"} |-> v[x]]
        /\ v.recv = R
    BY <2>1, <1>5 DEF Whole
  <2>3. u = [x \in {"at", "pass", "micro", "recv", "send", "emission", "losses"} |-> u[x]]
    BY <2>1, <2>2
  <2>4. u.at = "receive" /\ u.pass = 1 /\ u.micro = 0 /\ u.recv = R
    BY <2>1, <2>2
  <2>5. Whole(u)
    BY <2>3, ByFields DEF Whole
  <2>6. Reads(n, u, k + 1, epoch)
    BY <1>8, <1>11, <2>4, Kinds, GradStepsAssumption DEF Reads
  <2>7. Becomes(n, u)
    BY <1>11, <2>1
  <2>8. Along(n, u, session'[n], k + 1, epoch)
    BY <1>11, <2>6 DEF Along
  <2>9. QED
    BY <1>3, <1>9, <2>5, <2>7, <2>8, OneMoves DEF IInv
<1>12. CASE n \notin ModelFree
            /\ Becomes(n, [[r EXCEPT !.recv = R, !.losses = L] EXCEPT !.at = "optimize"])
  <2>1. PICK v, u : /\ v = [r EXCEPT !.recv = R, !.losses = L]
                    /\ u = [v EXCEPT !.at = "optimize"]
    OBVIOUS
  <2>2. v = [x \in {"at", "pass", "micro", "recv", "send", "emission", "losses"} |-> v[x]]
    BY <2>1, <1>5 DEF Whole
  <2>3. v.recv = R /\ v.losses = L /\ v.pass = r.pass /\ v.micro = r.micro
    BY <2>1, <1>5 DEF Whole
  <2>4. u = [x \in {"at", "pass", "micro", "recv", "send", "emission", "losses"} |-> u[x]]
    BY <2>1, <2>2
  <2>5. u.at = "optimize" /\ u.pass = 2 /\ u.micro = r.micro /\ u.recv = R /\ u.losses = L
    BY <2>1, <2>2, <2>3, <1>5
  <2>6. Whole(u)
    BY <2>4, ByFields DEF Whole
  <2>7. Reads(n, u, k, epoch)
    BY <1>1, <1>4, <1>5, <1>8, <1>12, <2>5, Kinds DEF Along, Reads
  <2>8. Weights(u, s, k)
    BY <1>5, <1>12, <2>5 DEF Weights
  <2>9. Becomes(n, u)
    BY <1>12, <2>1
  <2>10. Along(n, u, session'[n], k, epoch)
    BY <1>3, <1>4, <2>7, <2>8 DEF Along
  <2>11. QED
    BY <1>3, <2>6, <2>9, <2>10, OneMoves DEF IInv
<1>13. QED
  BY <1>3, <1>4, <1>7, <1>10, <1>11, <1>12 DEF AwaitLosses

LEMMA OptimizeKeeps ==
  ASSUME IInv, NEW n \in Nodes, Optimize(n), UNCHANGED epoch
  PROVE  Loops' /\ Mail'
<1>1. PICK k \in 0..(epoch + 1) : Along(n, node[n], session[n], k, epoch)
  BY AtNode DEF IInv, Optimize, Live
<1>2. Whole(node[n]) /\ node[n].at = "optimize"
  BY AtNode DEF IInv, Optimize, Live
<1>3. PICK r, s : r = node[n] /\ s = session[n]
  OBVIOUS
<1>4. /\ Whole(r) /\ r.at = "optimize" /\ k <= epoch /\ r.pass = 2 /\ n \notin ModelFree
      /\ r.recv = [p \in PortsOf(n) |-> Mailbox("p1", p, k + 1, 1)]
      /\ Reads(n, r, k, epoch) /\ Weights(r, s, k)
  BY <1>1, <1>2, <1>3 DEF Along, Reads
<1>5. PICK m, u : /\ m = [state |-> "Idle", updates |-> s.updates + 1]
                  /\ u = [r EXCEPT !.pass = 1, !.micro = 0, !.at = "perturb"]
  OBVIOUS
<1>6. u = BeginPass(n, 1)
  BY <1>3, <1>4, <1>5 DEF BeginPass
<1>7. Calls(n, {"AwaitingOptimize"}, m, u)
  BY <1>3, <1>5, <1>6 DEF Optimize
<1>8. s.state = "AwaitingOptimize"
  BY <1>3, <1>7 DEF Calls
<1>9. m.state = "Idle" /\ m.updates = k + 1
  BY <1>4, <1>5, <1>8 DEF Weights
<1>10. u = [x \in {"at", "pass", "micro", "recv", "send", "emission", "losses"} |-> u[x]]
  BY <1>5, <1>4 DEF Whole
<1>11. u.at = "perturb" /\ u.pass = 1 /\ u.micro = 0 /\ u.recv = r.recv
  BY <1>5, <1>4 DEF Whole
<1>12. Whole(u)
  BY <1>10, ByFields DEF Whole
<1>13. Reads(n, u, k + 1, epoch)
  BY <1>4, <1>11, Kinds, GradStepsAssumption DEF Reads
<1>14. Weights(u, m, k + 1) /\ Weights(r, m, k)
  BY <1>4, <1>9, <1>11 DEF Weights
<1>15. Along(n, u, m, k + 1, epoch) /\ Along(n, node[n], m, k, epoch)
  BY <1>3, <1>4, <1>13, <1>14 DEF Along
<1>16. k + 1 \in 0..(epoch + 1) /\ n \in DOMAIN session
  BY <1>4 DEF IInv, Counters, Sessions
<1>17. QED
  BY <1>7, <1>12, <1>15, <1>16, CallsKeep DEF IInv

\* No session is ahead of the training steps by more than one update.
LEMMA CallsCount ==
  ASSUME Sessions, NEW n \in Nodes, NEW expected, NEW m, NEW next, Calls(n, expected, m, next),
         m \in [state : States, updates : 0..(epoch + 1)], UNCHANGED epoch
  PROVE  Sessions'
  BY DEF Calls, Sessions

LEMMA VertexCounts ==
  ASSUME IInv, NEW n \in Nodes, CellNext(n), UNCHANGED epoch
  PROVE  Sessions'
<1>1. session[n] \in [state : States, updates : 0..(epoch + 1)]
  BY DEF IInv, Sessions
<1>2. \A w \in States : [session[n] EXCEPT !.state = w] \in [state : States, updates : 0..(epoch + 1)]
  BY <1>1
<1>3. CASE Perturb(n)
  <2>1. PICK w, expected, next : w \in States /\
          Calls(n, expected, [session[n] EXCEPT !.state = w], next)
    <3>1. PICK w, expected, next :
            /\ w = IF node[n].pass = 1 THEN "PostPerturbUp" ELSE "PostPerturbDown"
            /\ expected = {IF node[n].pass = 1 THEN "Idle" ELSE "AwaitingPerturbDown"}
            /\ next = [node[n] EXCEPT !.at = "receive"]
      OBVIOUS
    <3>2. w \in States
      BY <3>1 DEF States
    <3>3. Calls(n, expected, [session[n] EXCEPT !.state = w], next)
      BY <1>3, <3>1 DEF Perturb
    <3>4. QED
      BY <3>2, <3>3
  <2>2. PICK m : m = [session[n] EXCEPT !.state = w]
    OBVIOUS
  <2>3. Calls(n, expected, m, next) /\ m \in [state : States, updates : 0..(epoch + 1)]
    BY <1>2, <2>1, <2>2
  <2>4. QED
    BY <2>3, CallsCount DEF IInv
<1>4. CASE Infer(n)
  <2>1. CASE n \in ModelFree
    BY <1>4, <2>1 DEF Infer, IInv, Sessions
  <2>2. CASE n \notin ModelFree
    <3>1. PICK w, expected, next : w \in States /\
            Calls(n, expected, [session[n] EXCEPT !.state = w], next)
      <4>1. PICK w, expected, next :
              /\ w = IF Side(session[n].state) = "up" THEN "AwaitingPerturbDown" ELSE "AwaitingOptimize"
              /\ expected = {session[n].state}
              /\ next = [node[n] EXCEPT !.at = "transmit",
                   !.emission = node[n].emission \cup {<<n, Side(session[n].state), session[n].updates>>}]
        OBVIOUS
      <4>2. w \in States
        BY <4>1 DEF States
      <4>3. Calls(n, expected, [session[n] EXCEPT !.state = w], next)
        BY <1>4, <2>2, <4>1 DEF Infer
      <4>4. QED
        BY <4>2, <4>3
    <3>2. PICK m : m = [session[n] EXCEPT !.state = w]
      OBVIOUS
    <3>3. Calls(n, expected, m, next) /\ m \in [state : States, updates : 0..(epoch + 1)]
      BY <1>2, <3>1, <3>2
    <3>4. QED
      BY <3>3, CallsCount DEF IInv
  <2>3. QED
    BY <2>1, <2>2
<1>5. CASE Optimize(n)
  <2>1. PICK k \in 0..(epoch + 1) : Along(n, node[n], session[n], k, epoch)
    BY <1>5, AtNode DEF IInv, Optimize, Live
  <2>2. node[n].at = "optimize" /\ session[n].state = "AwaitingOptimize"
    BY <1>5 DEF Optimize, Calls
  <2>3. session[n].updates = k /\ k <= epoch
    BY <2>1, <2>2 DEF Along, Reads, Weights
  <2>4. [state |-> "Idle", updates |-> session[n].updates + 1]
          \in [state : States, updates : 0..(epoch + 1)]
    <3>1. PICK u, later : u = session[n].updates + 1 /\ later = 0..(epoch + 1)
      OBVIOUS
    <3>2. u \in later
      BY <2>3, <3>1 DEF IInv, Counters
    <3>3. [state |-> "Idle", updates |-> u] \in [state : States, updates : later]
      BY <3>2 DEF States
    <3>4. QED
      BY <3>1, <3>3
  <2>5. QED
    BY <1>5, <2>4, CallsCount DEF Optimize, IInv
<1>6. CASE Receive(n) \/ Transmit(n) \/ AwaitLosses(n)
  BY <1>6 DEF Receive, Transmit, AwaitLosses, IInv, Sessions
<1>7. QED
  BY <1>3, <1>4, <1>5, <1>6 DEF CellNext

----------------------------------------------------------------------------
(* The program                                                             *)

LEMMA TaskIsOne ==
  ASSUME Counters, NEW n \in Nodes, HasTask(n)
  PROVE  /\ Task(n).pass \in Passes /\ Task(n).step \in Steps
         /\ Task(n).step = completed[Task(n).pass][n] + 1
<1>1. completed[1][n] \in Nat /\ completed[2][n] \in Nat
  BY Kinds DEF Counters
<1>2. completed[1][n] < GradSteps \/ completed[2][n] < GradSteps
  BY Kinds DEF HasTask
<1>3. CASE completed[1][n] < GradSteps
  <2>1. Task(n) = [pass |-> 1, step |-> completed[1][n] + 1]
    BY <1>3 DEF Task
  <2>2. QED
    BY <1>1, <1>3, <2>1, Kinds, GradStepsAssumption DEF Steps
<1>4. CASE ~(completed[1][n] < GradSteps)
  <2>1. Task(n) = [pass |-> 2, step |-> completed[2][n] + 1]
    BY <1>4 DEF Task
  <2>2. QED
    BY <1>1, <1>2, <1>4, <2>1, Kinds, GradStepsAssumption DEF Steps
<1>5. QED
  BY <1>3, <1>4

\* What the program sends to a port is the port's input of that task, if the
\* emission is marked by all that feeds the port.
LEMMA SendFits ==
  ASSUME epoch \in Nat, NEW t, t.pass \in Passes, t.step \in Steps, NEW p \in Ports,
         NEW emission, emission = Marks(Fed(p), t.pass, t.step, epoch)
  PROVE  Fits(Send(t, p, emission).to, Send(t, p, emission).envelope, epoch)
<1>1. InputId(t, p) = Mailbox(In[t.pass], p, epoch, t.step)
      /\ OutputId(t, Owner[p]) = Mailbox(Out[t.pass], Owner[p], epoch, t.step)
  BY Kinds DEF InputId, OutputId
<1>2. NextInputId(t, p) = Following(t.pass, t.step, epoch, p)
  BY Kinds DEF NextInputId, Following
<1>3. Send(t, p, emission).to = InputId(t, p)
      /\ Send(t, p, emission).envelope = Propagation(emission, NextInputId(t, p), OutputId(t, Owner[p]))
  BY DEF Send
<1>4. Propagation(emission, NextInputId(t, p), OutputId(t, Owner[p])) = Input(t.pass, t.step, epoch, p)
  BY <1>1, <1>2 DEF Input
<1>5. epoch \in 0..epoch
  OBVIOUS
<1>6. InputFits(Send(t, p, emission).to, Send(t, p, emission).envelope, epoch)
  BY <1>1, <1>3, <1>4, <1>5 DEF InputFits
<1>7. QED
  BY <1>6 DEF Fits

\* The output of the vertex's task, once it is there.
LEMMA OutputIsValue ==
  ASSUME IInv, NEW n \in Nodes, HasTask(n), Output(n) \in DOMAIN box
  PROVE  box[Output(n)].emission = Value(Task(n).pass, Task(n).step, epoch, n)
<1>1. PICK a, b, e, last : a = Task(n).pass /\ b = Task(n).step /\ e = box[Output(n)] /\ last = epoch
  OBVIOUS
<1>2. a \in Passes
  BY <1>1, TaskIsOne DEF IInv
<1>3. Output(n) = Mailbox(Out[a], n, epoch, b)
  BY <1>1, Kinds DEF Output, OutputId
<1>4. Fits(Mailbox(Out[a], n, epoch, b), e, last)
  BY <1>1, <1>3 DEF IInv, Mail
<1>5. e = Propagation(Value(a, b, epoch, n), NoMailbox, NoMailbox)
  BY <1>2, <1>4, ReadOutput
<1>6. QED
  BY <1>1, <1>5 DEF Propagation

LEMMA SunStands ==
  ASSUME IInv, UNCHANGED <<cellVars, epoch>>
  PROVE  Mail' /\ Loops' /\ Sessions'
  BY DEF IInv, Mail, Loops, Sessions, cellVars

LEMMA BeginStepKeeps ==
  ASSUME IInv, BeginStep
  PROVE  IInv'
<1>1. Mail' /\ Loops' /\ Sessions'
  BY SunStands DEF BeginStep
<1>2. Uploads'
  BY DEF IInv, BeginStep, Uploads
<1>3. Counters'
  BY DEF IInv, BeginStep, Counters, Zero
<1>4. completed'[1][Sink] = 0 /\ completed'[2][Sink] = 0
  BY OneSink, Kinds DEF BeginStep, Zero
<1>5. Paired'
  BY <1>4 DEF BeginStep, Paired
<1>6. QED
  BY <1>1, <1>2, <1>3, <1>5 DEF IInv

LEMMA SeedRootsKeeps ==
  ASSUME IInv, SeedRoots
  PROVE  IInv'
<1>1. Mail' /\ Loops' /\ Sessions'
  BY SunStands DEF SeedRoots
<1>2. Uploads'
  <2>1. SUFFICES ASSUME NEW s \in todo' PROVE Fits(s.to, s.envelope, epoch)
    BY DEF SeedRoots, Uploads
  <2>2. PICK p \in Ports : Owner[p] \in Unseeded
                           /\ s = Send(Task(Owner[p]), p, RootInput(Task(Owner[p])))
    BY DEF SeedRoots
  <2>3. PICK n, t : n = Owner[p] /\ t = Task(n)
    OBVIOUS
  <2>4. n \in Nodes /\ n \in Roots /\ HasTask(n)
    BY <2>2, <2>3 DEF Unseeded, Roots
  <2>5. t.pass \in Passes /\ t.step \in Steps
    BY <2>3, <2>4, TaskIsOne DEF IInv
  <2>6. RootInput(t) = Marks(Fed(p), t.pass, t.step, epoch)
    BY <2>3, <2>4, RootsAreFedNothing DEF RootInput, Marks
  <2>7. Fits(Send(t, p, RootInput(t)).to, Send(t, p, RootInput(t)).envelope, epoch)
    BY <2>5, <2>6, SendFits DEF IInv, Counters
  <2>8. QED
    BY <2>2, <2>3, <2>7
<1>3. Counters' /\ Paired'
  BY DEF IInv, SeedRoots, Counters, Paired
<1>4. QED
  BY <1>1, <1>2, <1>3 DEF IInv

LEMMA RootsSeededKeeps ==
  ASSUME IInv, RootsSeeded
  PROVE  IInv'
<1>1. Mail' /\ Loops' /\ Sessions'
  BY SunStands DEF RootsSeeded
<1>2. Uploads' /\ Counters' /\ Paired'
  BY DEF IInv, RootsSeeded, Counters, Paired, Uploads
<1>3. QED
  BY <1>1, <1>2 DEF IInv

LEMMA TakeOutputKeeps ==
  ASSUME IInv, TakeOutput
  PROVE  IInv'
<1>1. CASE Fails /\ UNCHANGED cellVars
  <2>1. Mail' /\ Loops' /\ Sessions'
    BY <1>1, SunStands DEF Fails
  <2>2. Uploads' /\ Counters' /\ Paired'
    BY <1>1 DEF IInv, Fails, Counters, Paired, Uploads
  <2>3. QED
    BY <2>1, <2>2 DEF IInv
<1>2. ASSUME NEW n \in Nodes, Ready(n), Output(n) \in DOMAIN box,
             taken' = n, phase' = "forwarding",
             todo' = {Send(Task(n), p, box[Output(n)].emission) : p \in Targets[n]},
             UNCHANGED <<epoch, completed, seeded, completions, outputs, pairs, shown>>,
             UNCHANGED cellVars
      PROVE  IInv'
  <2>1. Mail' /\ Loops' /\ Sessions'
    BY <1>2, SunStands
  <2>2. HasTask(n)
    BY <1>2 DEF Ready
  <2>3. Uploads'
    <3>1. SUFFICES ASSUME NEW s \in todo' PROVE Fits(s.to, s.envelope, epoch)
      BY <1>2 DEF Uploads
    <3>2. PICK p \in Targets[n] : s = Send(Task(n), p, box[Output(n)].emission)
      BY <1>2
    <3>3. PICK t, e : t = Task(n) /\ e = box[Output(n)].emission
      OBVIOUS
    <3>4. p \in Ports /\ Fed(p) = Upstream(n)
      BY <3>2, TargetsAssumption, OneProducer
    <3>5. t.pass \in Passes /\ t.step \in Steps
      BY <2>2, <3>3, TaskIsOne DEF IInv
    <3>6. e = Marks(Fed(p), t.pass, t.step, epoch)
      BY <1>2, <2>2, <3>3, <3>4, OutputIsValue DEF Value
    <3>7. Fits(Send(t, p, e).to, Send(t, p, e).envelope, epoch)
      BY <3>4, <3>5, <3>6, SendFits DEF IInv, Counters
    <3>8. QED
      BY <3>2, <3>3, <3>7
  <2>4. Counters'
    BY <1>2 DEF IInv, Counters
  <2>5. Paired'
    <3>1. box' = box
      BY <1>2 DEF cellVars
    <3>2. (HasTask(taken))' /\ (Output(taken))' = Output(n)
      BY <1>2, <2>2 DEF HasTask, Output, OutputId, Task
    <3>3. QED
      BY <1>2, <3>1, <3>2 DEF IInv, Paired
  <2>6. QED
    BY <2>1, <2>3, <2>4, <2>5 DEF IInv
<1>3. QED
  BY <1>1, <1>2 DEF TakeOutput

LEMMA AppendFun ==
  ASSUME NEW n \in Nat, NEW T, NEW g \in [1..(n + 1) -> T], NEW f, f = [i \in 1..n |-> g[i]]
  PROVE  Append(f, g[n + 1]) = g
<1>1. f \in [1..n -> T] /\ g[n + 1] \in T
  OBVIOUS
<1>2. f \in Seq(T) /\ Len(f) = n
  BY <1>1
<1>3. Append(f, g[n + 1]) = [i \in 1..(n + 1) |-> IF i <= n THEN f[i] ELSE g[n + 1]]
  BY <1>1, <1>2
<1>4. \A i \in 1..(n + 1) : (IF i <= n THEN f[i] ELSE g[n + 1]) = g[i]
  BY <1>1
<1>5. QED
  BY <1>3, <1>4

LEMMA OutputForwardedKeeps ==
  ASSUME IInv, OutputForwarded
  PROVE  IInv'
<1>1. CASE Fails /\ UNCHANGED cellVars
  <2>1. Mail' /\ Loops' /\ Sessions'
    BY <1>1, SunStands DEF Fails
  <2>2. Uploads' /\ Counters' /\ Paired'
    BY <1>1 DEF IInv, Fails, Counters, Paired, Uploads
  <2>3. QED
    BY <2>1, <2>2 DEF IInv
<1>2. CASE ~Fails
  <2>1. PICK n, t, e : n = taken /\ t = Task(n) /\ e = box[Output(n)].emission
    OBVIOUS
  <2>2. n \in Nodes /\ HasTask(n) /\ Output(n) \in DOMAIN box
    BY <2>1 DEF IInv, Counters, Paired, OutputForwarded
  <2>3. /\ ~(n = Sink /\ t.pass = 2 /\ t.step \notin DOMAIN outputs)
        /\ completed' = [completed EXCEPT ![t.pass][n] = @ + 1]
        /\ outputs' = IF n = Sink /\ t.pass = 1 THEN Append(outputs, e) ELSE outputs
        /\ pairs' = IF n = Sink THEN NewPairs(t, e) ELSE pairs
        /\ phase' = IF completions + 1 < Cardinality(Nodes) * GradSteps * 2 THEN "seed" ELSE "collect"
        /\ UNCHANGED <<todo, taken, epoch, seeded>>
        /\ UNCHANGED cellVars
    BY <1>2, <2>1 DEF OutputForwarded
  <2>4. t.pass \in {1, 2} /\ t.step = completed[t.pass][n] + 1
    BY <2>1, <2>2, TaskIsOne, Kinds DEF IInv
  <2>5. e = Value(t.pass, t.step, epoch, n)
    BY <2>1, <2>2, OutputIsValue
  <2>6. Mail' /\ Loops' /\ Sessions'
    BY <2>3, SunStands
  <2>7. Uploads'
    BY <2>3 DEF IInv, Uploads
  <2>8. /\ completed' \in [Passes -> [Nodes -> Nat]]
        /\ completed'[t.pass][n] = completed[t.pass][n] + 1
        /\ \A q \in {1, 2}, m \in Nodes : q # t.pass \/ m # n => completed'[q][m] = completed[q][m]
    BY <2>2, <2>3, <2>4, Kinds DEF IInv, Counters
  <2>9. Counters'
    BY <2>3, <2>8 DEF IInv, Counters
  <2>10. phase' # "forwarding"
    BY <2>3
  <2>11. PICK i, j : i = completed[1][Sink] /\ j = completed[2][Sink] /\ i \in Nat /\ j \in Nat
    BY OneSink, Kinds DEF IInv, Counters
  <2>12. /\ outputs = [x \in 1..i |-> Value(1, x, epoch, Sink)]
         /\ pairs = [x \in 1..j |-> <<Value(1, x, epoch, Sink), Value(2, x, epoch, Sink)>>]
    BY <2>11 DEF IInv, Paired
  <2>13. CASE n # Sink
    <3>1. completed'[1][Sink] = completed[1][Sink] /\ completed'[2][Sink] = completed[2][Sink]
      BY <2>8, <2>13, OneSink
    <3>2. Paired'
      BY <2>3, <2>10, <2>13, <3>1 DEF IInv, Paired
    <3>3. QED
      BY <2>6, <2>7, <2>9, <3>2 DEF IInv
  <2>14. CASE n = Sink /\ t.pass = 1
    <3>1. completed'[1][Sink] = i + 1 /\ completed'[2][Sink] = j /\ t.step = i + 1
      BY <2>4, <2>8, <2>11, <2>14, OneSink
    <3>2. PICK g : g = [x \in 1..(i + 1) |-> Value(1, x, epoch, Sink)]
      OBVIOUS
    <3>3. g[i + 1] = e
      BY <2>5, <2>11, <2>14, <3>1, <3>2
    <3>4. Append(outputs, g[i + 1]) = g
      <4>1. g \in [1..(i + 1) -> {g[x] : x \in 1..(i + 1)}] /\ outputs = [x \in 1..i |-> g[x]]
        BY <2>11, <2>12, <3>2
      <4>2. QED
        BY <2>11, <4>1, AppendFun
    <3>5. outputs' = g
      BY <2>3, <2>14, <3>3, <3>4
    <3>6. pairs' = pairs
      BY <2>3, <2>14 DEF NewPairs
    <3>7. Paired'
      BY <2>3, <2>10, <2>12, <3>1, <3>2, <3>5, <3>6 DEF Paired
    <3>8. QED
      BY <2>6, <2>7, <2>9, <3>7 DEF IInv
  <2>15. CASE n = Sink /\ t.pass = 2
    <3>1. completed'[1][Sink] = i /\ completed'[2][Sink] = j + 1 /\ t.step = j + 1
      BY <2>4, <2>8, <2>11, <2>15, OneSink
    <3>2. PICK g : g = [x \in 1..(j + 1) |-> <<Value(1, x, epoch, Sink), Value(2, x, epoch, Sink)>>]
      OBVIOUS
    <3>3. outputs[t.step] = Value(1, t.step, epoch, Sink)
      BY <2>3, <2>12, <2>15
    <3>4. g[j + 1] = <<outputs[t.step], e>>
      BY <2>5, <2>11, <2>15, <3>1, <3>2, <3>3
    <3>5. Append(pairs, g[j + 1]) = g
      <4>1. g \in [1..(j + 1) -> {g[x] : x \in 1..(j + 1)}]
        BY <3>2
      <4>2. \A x \in 1..j : x \in 1..(j + 1)
        BY <2>11
      <4>3. pairs = [x \in 1..j |-> g[x]]
        BY <2>12, <3>2, <4>2
      <4>4. QED
        BY <2>11, <4>1, <4>3, AppendFun
    <3>6. pairs' = g
      BY <2>3, <2>15, <3>4, <3>5 DEF NewPairs
    <3>7. outputs' = outputs
      BY <2>3, <2>15
    <3>8. Paired'
      BY <2>3, <2>10, <2>12, <3>1, <3>2, <3>6, <3>7 DEF Paired
    <3>9. QED
      BY <2>6, <2>7, <2>9, <3>8 DEF IInv
  <2>16. QED
    BY <2>4, <2>13, <2>14, <2>15
<1>3. QED
  BY <1>1, <1>2 DEF OutputForwarded

LEMMA CollectPairsKeeps ==
  ASSUME IInv, CollectPairs
  PROVE  IInv'
<1>1. Mail' /\ Loops' /\ Sessions'
  BY SunStands DEF CollectPairs, Fails
<1>2. Uploads'
  <2>1. CASE Fails
    BY <2>1 DEF IInv, Fails, Uploads
  <2>2. CASE ~Fails
    <3>1. UNCHANGED epoch
          /\ todo' = {[to |-> Mailbox("po", p, epoch, 1),
                       envelope |-> Potentiation(epoch, Mailbox("p1", p, epoch + 1, 1))] : p \in Ports}
      BY <2>2 DEF CollectPairs
    <3>2. SUFFICES ASSUME NEW s \in todo' PROVE Fits(s.to, s.envelope, epoch)
      BY <3>1 DEF Uploads
    <3>3. PICK p \in Ports : s = [to |-> Mailbox("po", p, epoch, 1),
                       envelope |-> Potentiation(epoch, Mailbox("p1", p, epoch + 1, 1))]
      BY <3>1
    <3>4. epoch \in 0..epoch
      BY DEF IInv, Counters
    <3>5. QED
      BY <3>3, <3>4 DEF Fits, LossesFit
  <2>3. QED
    BY <2>1, <2>2
<1>3. Counters' /\ Paired'
  BY DEF IInv, CollectPairs, Fails, Counters, Paired
<1>4. QED
  BY <1>1, <1>2, <1>3 DEF IInv

LEMMA LossesBroadcastKeeps ==
  ASSUME IInv, LossesBroadcast
  PROVE  IInv'
<1>1. epoch \in Nat /\ epoch' = epoch + 1 /\ todo' = {} /\ UNCHANGED cellVars
  BY DEF IInv, Counters, LossesBroadcast
<1>2. Mail'
  BY <1>1, FitsLater DEF IInv, Mail, cellVars
<1>3. Uploads'
  BY <1>1 DEF Uploads
<1>4. \A k \in 0..(epoch + 1) : k \in 0..(epoch' + 1)
  BY <1>1
<1>5. Loops'
  <2>1. node' = node /\ session' = session /\ DOMAIN node = Nodes
    BY <1>1 DEF IInv, Loops, cellVars
  <2>2. SUFFICES ASSUME NEW n \in Nodes, node[n].at \in Live
                 PROVE  \E k \in 0..(epoch' + 1) : Along(n, node[n], session[n], k, epoch')
    BY <2>1 DEF IInv, Loops
  <2>3. PICK k \in 0..(epoch + 1) : Along(n, node[n], session[n], k, epoch)
    BY <2>2, AtNode DEF IInv
  <2>4. PICK r : r = node[n]
    OBVIOUS
  <2>5. Reads(n, r, k, epoch)
    BY <2>3, <2>4 DEF Along
  <2>6. k <= epoch => k <= epoch'
    BY <1>1
  <2>7. Reads(n, r, k, epoch')
    BY <2>5, <2>6 DEF Reads
  <2>8. QED
    BY <1>4, <2>3, <2>4, <2>7 DEF Along
<1>6. Sessions'
  BY <1>1, <1>4 DEF IInv, Sessions, cellVars
<1>7. Counters'
  BY <1>1 DEF IInv, Counters, LossesBroadcast, Zero
<1>8. completed'[1][Sink] = 0 /\ completed'[2][Sink] = 0
  BY OneSink, Kinds DEF LossesBroadcast, Zero
<1>9. Paired'
  BY <1>8 DEF LossesBroadcast, Paired
<1>10. QED
  BY <1>2, <1>3, <1>5, <1>6, <1>7, <1>9 DEF IInv

\* One upload of the program, whether the effect goes on or not.
LEMMA SendKeeps ==
  ASSUME IInv, NEW s \in todo, Upload(s.to, s.envelope) \/ UNCHANGED box,
         todo' \subseteq todo, phase' \in {phase, "stopped"},
         UNCHANGED <<taken, epoch, completed, seeded, completions, outputs, pairs, shown>>,
         UNCHANGED <<node, session>>
  PROVE  IInv'
<1>1. PICK id, e : id = s.to /\ e = s.envelope
  OBVIOUS
<1>2. Fits(id, e, epoch)
  BY <1>1 DEF IInv, Uploads
<1>3. Mail' /\ \A x \in DOMAIN box : x \in DOMAIN box'
  <2>1. CASE Upload(id, e)
    BY <1>2, <2>1, Uploaded DEF IInv
  <2>2. CASE UNCHANGED box
    BY <2>2 DEF IInv, Mail
  <2>3. QED
    BY <1>1, <2>1, <2>2
<1>4. Uploads' /\ Loops' /\ Sessions' /\ Counters'
  BY DEF IInv, Uploads, Loops, Sessions, Counters
<1>5. Paired'
  <2>1. (HasTask(taken))' = HasTask(taken) /\ (Output(taken))' = Output(taken)
    BY DEF HasTask, Output, OutputId, Task
  <2>2. phase' = "forwarding" => phase = "forwarding"
    OBVIOUS
  <2>3. QED
    BY <1>3, <2>1, <2>2 DEF IInv, Paired
<1>6. QED
  BY <1>3, <1>4, <1>5 DEF IInv

LEMMA VertexKeeps ==
  ASSUME IInv, NEW n \in Nodes, Vertex(n)
  PROVE  IInv'
<1>1. CellNext(n) /\ UNCHANGED sunVars /\ UNCHANGED epoch
  BY DEF Vertex, sunVars
<1>2. Sessions'
  BY <1>1, VertexCounts
<1>3. Loops' /\ Mail'
  BY <1>1, PerturbKeeps, ReceiveKeeps, InferKeeps, TransmitKeeps, AwaitKeeps, OptimizeKeeps
     DEF CellNext
<1>4. \A x \in DOMAIN box : x \in DOMAIN box'
  <2>1. CASE Transmit(n)
    BY <1>1, <2>1, TransmitKeeps
  <2>2. CASE ~Transmit(n)
    BY <1>1, <2>2 DEF CellNext, Perturb, Receive, Infer, AwaitLosses, Optimize, Calls
  <2>3. QED
    BY <2>1, <2>2
<1>5. Uploads' /\ Counters'
  BY <1>1 DEF IInv, Uploads, Counters, sunVars
<1>6. Paired'
  <2>1. (HasTask(taken))' = HasTask(taken) /\ (Output(taken))' = Output(taken)
    BY <1>1 DEF HasTask, Output, OutputId, Task, sunVars
  <2>2. QED
    BY <1>1, <1>4, <2>1 DEF IInv, Paired, sunVars
<1>7. QED
  BY <1>2, <1>3, <1>5, <1>6 DEF IInv

LEMMA Initially ==
  ASSUME Init
  PROVE  IInv
<1>1. Mail /\ Uploads
  BY DEF Init, CellInit, SunInit, Mail, Uploads
<1>2. epoch = 0 /\ session = [n \in Nodes |-> [state |-> "Idle", updates |-> 0]]
      /\ node = [n \in Nodes |-> NewNode(n)]
  BY DEF Init, CellInit, SunInit
<1>3. Loops
  <2>1. SUFFICES ASSUME NEW n \in Nodes
                 PROVE  Whole(NewNode(n)) /\ Along(n, NewNode(n), session[n], 0, 0)
    BY <1>2 DEF Loops
  <2>2. PICK u, a : /\ u = NewNode(n) /\ a = IF n \in ModelFree THEN "receive" ELSE "perturb"
    OBVIOUS
  <2>3. u = [at |-> a, pass |-> 1, micro |-> 0,
             recv |-> [p \in PortsOf(n) |-> Mailbox("p1", p, 0, 1)], send |-> NoMailbox,
             emission |-> {}, losses |-> 0]
    BY <2>2 DEF NewNode
  <2>4. Whole(u)
    BY <2>3 DEF Whole
  <2>5. /\ u.at = a /\ u.pass = 1 /\ u.micro = 0
        /\ u.recv = [p \in PortsOf(n) |-> Mailbox("p1", p, 0, 1)]
    BY <2>3
  <2>6. Reads(n, u, 0, 0)
    BY <2>2, <2>5, Kinds, GradStepsAssumption DEF Reads
  <2>7. n \notin ModelFree => Weights(u, session[n], 0)
    BY <1>2, <2>2, <2>5 DEF Weights
  <2>8. QED
    BY <2>2, <2>4, <2>6, <2>7 DEF Along
<1>4. Sessions
  BY <1>2 DEF Sessions, States
<1>5. Counters
  BY OneSink DEF Init, SunInit, Counters, Zero
<1>6. completed[1][Sink] = 0 /\ completed[2][Sink] = 0
  BY OneSink, Kinds DEF Init, SunInit, Zero
<1>7. Paired
  BY <1>6 DEF Init, SunInit, Paired
<1>8. QED
  BY <1>1, <1>3, <1>4, <1>5, <1>7 DEF IInv

LEMMA Inductive == Spec => []IInv
<1>1. Init => IInv
  BY Initially
<1>2. ASSUME IInv, [Next]_vars
      PROVE  IInv'
  <2>1. CASE BeginStep
    BY <1>2, <2>1, BeginStepKeeps
  <2>2. CASE SeedRoots
    BY <1>2, <2>2, SeedRootsKeeps
  <2>3. CASE RootsSeeded
    BY <1>2, <2>3, RootsSeededKeeps
  <2>4. CASE TakeOutput
    BY <1>2, <2>4, TakeOutputKeeps
  <2>5. CASE OutputForwarded
    BY <1>2, <2>5, OutputForwardedKeeps
  <2>6. CASE CollectPairs
    BY <1>2, <2>6, CollectPairsKeeps
  <2>7. CASE LossesBroadcast
    BY <1>2, <2>7, LossesBroadcastKeeps
  <2>8. CASE SendsOne
    BY <1>2, <2>8, SendKeeps DEF SendsOne
  <2>9. CASE SendFails
    BY <1>2, <2>9, SendKeeps DEF SendFails
  <2>10. CASE \E n \in Nodes : Vertex(n)
    BY <1>2, <2>10, VertexKeeps
  <2>11. CASE UNCHANGED vars
    BY <1>2, <2>11 DEF vars, cellVars, sunVars, IInv, Mail, Uploads, Loops, Sessions, Counters,
       Paired, HasTask, Output, OutputId, Task
  <2>12. QED
    BY <1>2, <2>1, <2>2, <2>3, <2>4, <2>5, <2>6, <2>7, <2>8, <2>9, <2>10, <2>11 DEF Next, SunNext
<1>3. QED
  BY <1>1, <1>2, PTL DEF Spec

\* For any finalized graph, any gradient steps, lost replies and failed uploads, the
\* policy compares the up and the down output of the same gradient step, both
\* computed by every model once, on that side of this step's weights
\* (ProcessReadyPipelineNode, CellLoop).
THEOREM PairsAreComparable == Spec => []PairsCompareSides
<1>1. IInv => PairsCompareSides
  <2>1. SUFFICES ASSUME IInv, NEW i \in DOMAIN pairs
                 PROVE  pairs[i] = <<Measured(1, i, epoch), Measured(2, i, epoch)>>
    BY DEF PairsCompareSides
  <2>2. pairs[i] = <<Value(1, i, epoch, Sink), Value(2, i, epoch, Sink)>>
    BY <2>1 DEF IInv, Paired
  <2>3. \A pass \in Passes : Measured(pass, i, epoch) = Value(pass, i, epoch, Sink)
    BY SinkSeesAll DEF Measured, Value, Marks, Sides
  <2>4. QED
    BY <2>2, <2>3, Kinds
<1>2. QED
  BY <1>1, Inductive, PTL

\* A vertex applies the losses of a step to the weights they were measured on, also
\* when its calls to Mass are repeated (WaitForPotentiation, Optimize).
THEOREM LossesReachTheirWeights == Spec => []LossesFitWeights
<1>1. IInv => LossesFitWeights
  <2>1. ASSUME IInv, NEW n \in Nodes, node[n].at = "optimize", session[n].state = "AwaitingOptimize"
        PROVE  node[n].losses = session[n].updates
    <3>1. PICK k \in 0..(epoch + 1) : Along(n, node[n], session[n], k, epoch)
      BY <2>1, AtNode DEF IInv, Live
    <3>2. QED
      BY <2>1, <3>1 DEF Along, Reads, Weights
  <2>2. ASSUME IInv, NEW n \in Nodes
        PROVE  session[n].updates <= epoch + 1
    BY <2>2 DEF IInv, Sessions, Counters
  <2>3. QED
    BY <2>1, <2>2 DEF LossesFitWeights
<1>2. QED
  BY <1>1, Inductive, PTL
=============================================================================
