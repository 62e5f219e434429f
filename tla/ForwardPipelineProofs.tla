------------------------ MODULE ForwardPipelineProofs ------------------------
(***************************************************************************)
(* Theorems about ForwardPipeline, for every value of its constants: each  *)
(* driver serves as ServeContract promises.                                *)
(*                                                                         *)
(* The argument: every mailbox holds what was meant for it (an input's     *)
(* emission, past the vertices upstream), hence the sink's outputs come in *)
(* the order of the inputs, and have passed every vertex because there is  *)
(* one sink only.  That a window is over when its last output is served is *)
(* a count: of the completions, or of the vertices a pass has pending.     *)
(***************************************************************************)
EXTENDS ForwardPipeline, FiniteSetTheorems, SequenceTheorems, WellFoundedInduction, TLAPS

-----------------------------------------------------------------------------
(* Topologies                                                              *)

\* What registering keeps of a graph in which no port is claimed twice.
Registered(t) ==
  /\ IsFiniteSet(Vertices(t)) /\ DOMAIN t.declared_edges = Vertices(t)
  /\ \A v \in Vertices(t) : IsFiniteSet(DOMAIN t.declared_edges[v]) /\ v \in PortsOf(t, v)
  /\ \A p \in PortIds(t) : t.port_vertices[p] \in Vertices(t)
  /\ \A v \in Vertices(t) : PortsOf(t, v) = {p \in PortIds(t) : t.port_vertices[p] = v}

Compiled(t) == Resolves(t) /\ Registered(t)

Predecessors(t, v) == {e[1] : e \in Incoming(t, v)}
Closed(t, S)       == \A v \in S : Predecessors(t, v) \subseteq S

\* The vertices an output of v has passed, and what a port is fed has.
Upstream(t, v) ==
  {u \in Vertices(t) : \A S \in SUBSET Vertices(t) : v \in S /\ Closed(t, S) => u \in S}
FedBy(t, p) == UNION {Upstream(t, e[1]) : e \in Producers(t, p)}

\* A nonempty set of numbers has a least.
LEMMA LeastNumber ==
  ASSUME NEW S, S \subseteq Nat, S # {}
  PROVE  \E m \in S : \A k \in S : m <= k
<1> DEFINE R == {ss \in Nat \X Nat : ss[1] < ss[2]}
<1>1. IsWellFoundedOn(R, Nat)
  BY NatLessThanWellFounded DEF OpToRel
<1> HIDE DEF R
<1>2. PICK m \in S : \A k \in S : <<k, m>> \notin R
  BY <1>1, WFMin
<1> USE DEF R
<1>3. \A k \in S : m <= k
  <2>1. TAKE k \in S
  <2>2. k \in Nat /\ m \in Nat
    OBVIOUS
  <2>3. ~(k < m)
    BY <1>2, <2>2
  <2>4. QED
    BY <2>2, <2>3
<1>4. QED
  BY <1>3

\* Kahn's queue, as a set per round.
Rounds(t, after, n) ==
  after = [i \in 0..n |-> IF i = 0 THEN Roots(t)
             ELSE {v \in Vertices(t) : \A e \in Incoming(t, v) : e[1] \in after[i - 1]}]

LEMMA RoundsExist ==
  ASSUME NEW t, NEW n \in Nat
  PROVE  \E after : Rounds(t, after, n)
<1> DEFINE Bad == {m \in Nat : ~\E after : Rounds(t, after, m)}
<1>1. ASSUME Bad # {} PROVE FALSE
  <2>1. PICK m \in Bad : \A k \in Bad : m <= k
    BY <1>1, LeastNumber
  <2>2. m # 0
    <3> DEFINE f == [i \in 0..0 |-> Roots(t)]
    <3>1. Rounds(t, f, 0)
      BY DEF Rounds
    <3>2. QED
      BY <3>1
  <2>3. m \in Nat /\ m - 1 \in Nat /\ m - 1 \notin Bad
    BY <2>1, <2>2
  <2>4. PICK f : Rounds(t, f, m - 1)
    BY <2>3
  <2> DEFINE g == [i \in 0..m |-> IF i = m THEN {v \in Vertices(t) : \A e \in Incoming(t, v) : e[1] \in f[m - 1]}
                                  ELSE f[i]]
  <2>5. \A i \in 0..m : g[i] = IF i = 0 THEN Roots(t)
           ELSE {v \in Vertices(t) : \A e \in Incoming(t, v) : e[1] \in g[i - 1]}
    <3>1. TAKE i \in 0..m
    <3>2. \A j \in 0..(m - 1) : g[j] = f[j]
      BY <2>3
    <3>3. CASE i = m
      <4>1. g[i] = {v \in Vertices(t) : \A e \in Incoming(t, v) : e[1] \in f[m - 1]}
        BY <3>3
      <4>2. g[m - 1] = f[m - 1]
        BY <2>3, <3>2
      <4> HIDE DEF g
      <4>3. QED
        BY <2>2, <3>3, <4>1, <4>2
    <3>4. CASE i # m
      <4>1. i \in 0..(m - 1) /\ (i # 0 => i - 1 \in 0..(m - 1))
        BY <2>3, <3>4
      <4>2. g[i] = f[i] /\ (i # 0 => g[i - 1] = f[i - 1])
        BY <3>2, <4>1
      <4> HIDE DEF g
      <4>3. f[i] = IF i = 0 THEN Roots(t)
                   ELSE {v \in Vertices(t) : \A e \in Incoming(t, v) : e[1] \in f[i - 1]}
        BY <2>4, <4>1 DEF Rounds
      <4>4. QED
        BY <4>2, <4>3
    <3>5. QED
      BY <3>3, <3>4
  <2>6. g = [i \in 0..m |-> g[i]]
    OBVIOUS
  <2> HIDE DEF g
  <2>7. Rounds(t, g, m)
    BY <2>5, <2>6 DEF Rounds
  <2>8. QED
    BY <2>1, <2>7
<1>2. QED
  BY <1>1

\* When all are visited, some round has them all.
LEMMA AllVisited ==
  ASSUME NEW t, IsFiniteSet(Vertices(t)), Visited(t) = Vertices(t)
  PROVE  \E n \in Nat : \E after : Rounds(t, after, n) /\ after[n] = Vertices(t)
<1>1. PICK n : n = Cardinality(Vertices(t))
  OBVIOUS
<1>2. n \in Nat
  BY <1>1, FS_CardinalityType
<1> DEFINE after == CHOOSE f : Rounds(t, f, n)
<1>3. Rounds(t, after, n)
  BY <1>2, RoundsExist
<1>4. Visited(t) = after[n]
  BY <1>1 DEF Visited, Rounds
<1>5. QED
  BY <1>2, <1>3, <1>4

\* Of any vertices, one has no edge into them.
LEMMA SomeVertexLeadsOut ==
  ASSUME NEW t, Compiled(t), NEW S, S \subseteq Vertices(t), S # {}
  PROVE  \E v \in S : \A e \in Outgoing(t, v) : TargetOf(t, e) \notin S
<1>1. PICK n \in Nat : \E after : Rounds(t, after, n) /\ after[n] = Vertices(t)
  BY AllVisited DEF Compiled, Registered, Resolves
<1>2. PICK after : Rounds(t, after, n) /\ after[n] = Vertices(t)
  BY <1>1
<1>3. PICK m \in {i \in 0..n : S \subseteq after[i]} : \A k \in {i \in 0..n : S \subseteq after[i]} : m <= k
  <2>1. n \in {i \in 0..n : S \subseteq after[i]}
    BY <1>2
  <2>2. {i \in 0..n : S \subseteq after[i]} \subseteq Nat
    OBVIOUS
  <2>3. QED
    BY <2>1, <2>2, LeastNumber
<1>4. \A v \in S : \A e \in Outgoing(t, v) : e[1] = v /\ e \in Edges(t)
  BY DEF Outgoing, Edges
<1>5. CASE m = 0
  <2>1. S \subseteq Roots(t)
    BY <1>2, <1>3, <1>5 DEF Rounds
  <2>2. \A v \in S : \A e \in Outgoing(t, v) : TargetOf(t, e) \notin S
    BY <1>4, <2>1 DEF Roots, Incoming
  <2>3. QED
    BY <2>2
<1>6. CASE m # 0
  <2>1. m - 1 \in 0..n
    BY <1>3, <1>6
  <2>2. PICK v \in S : v \notin after[m - 1]
    BY <1>3, <2>1
  <2>3. after[m] = {u \in Vertices(t) : \A e \in Incoming(t, u) : e[1] \in after[m - 1]}
    BY <1>2, <1>3, <1>6 DEF Rounds
  <2>4. \A e \in Outgoing(t, v) : TargetOf(t, e) \notin S
    BY <1>3, <1>4, <2>2, <2>3 DEF Incoming
  <2>5. QED
    BY <2>4
<1>7. QED
  BY <1>5, <1>6

LEMMA UpstreamClosed ==
  ASSUME NEW t, NEW v \in Vertices(t)
  PROVE  /\ v \in Upstream(t, v) /\ Upstream(t, v) \subseteq Vertices(t)
         /\ Closed(t, Upstream(t, v))
<1>1. \A u \in Vertices(t) : Predecessors(t, u) \subseteq Vertices(t)
  BY DEF Predecessors, Incoming, Edges, Outgoing
<1>2. v \in Upstream(t, v) /\ Upstream(t, v) \subseteq Vertices(t)
  BY DEF Upstream
<1>3. Closed(t, Upstream(t, v))
  BY <1>1 DEF Upstream, Closed
<1>4. QED
  BY <1>2, <1>3

\* The outputs of the one sink have passed all vertices.
LEMMA SinkSeesAll ==
  ASSUME NEW t, Compiled(t)
  PROVE  /\ Sink(t) \in Vertices(t) /\ Sinks(t) = {Sink(t)}
         /\ Upstream(t, Sink(t)) = Vertices(t)
<1>1. Sinks(t) = {Sink(t)}
  <2>1. IsFiniteSet(Sinks(t)) /\ Cardinality(Sinks(t)) = 1
    <3>1. Sinks(t) \in SUBSET Vertices(t)
      BY DEF Sinks
    <3>2. QED
      BY <3>1, FS_Subset DEF Compiled, Resolves, Registered
  <2>2. PICK s : Sinks(t) = {s}
    BY <2>1, FS_Singleton
  <2>3. QED
    BY <2>2 DEF Sink
<1>2. Sink(t) \in Vertices(t)
  BY <1>1 DEF Sinks
<1> DEFINE S == Vertices(t) \ Upstream(t, Sink(t))
<1>3. ASSUME S # {} PROVE FALSE
  <2>1. PICK v \in S : \A e \in Outgoing(t, v) : TargetOf(t, e) \notin S
    BY <1>3, SomeVertexLeadsOut
  <2>2. v # Sink(t)
    BY <1>2, UpstreamClosed
  <2>3. PICK e \in Outgoing(t, v) : TRUE
    BY <1>1, <2>2 DEF Sinks
  <2>4. e \in Edges(t) /\ e[1] = v
    BY DEF Edges, Outgoing
  <2>5. TargetOf(t, e) \in Vertices(t)
    BY <2>4 DEF Compiled, Resolves, Registered, EdgesFit, TargetOf
  <2>6. TargetOf(t, e) \in Upstream(t, Sink(t))
    BY <2>1, <2>3, <2>5
  <2>7. v \in Predecessors(t, TargetOf(t, e))
    BY <2>4 DEF Predecessors, Incoming
  <2>8. QED
    BY <1>2, <2>6, <2>7, UpstreamClosed DEF Closed
<1>4. QED
  BY <1>1, <1>2, <1>3, UpstreamClosed

\* The edges of a compiled graph lead to ports of its vertices, one to a port.
LEMMA EdgesLead ==
  ASSUME NEW t, Compiled(t), NEW e \in Edges(t)
  PROVE  /\ PortOf(t, e) \in PortIds(t) /\ TargetOf(t, e) \in Vertices(t) /\ e[1] \in Vertices(t)
         /\ PortOf(t, e) \in PortsOf(t, TargetOf(t, e))
<1>1. PortOf(t, e) \in PortIds(t)
  BY DEF Compiled, Resolves, EdgesFit
<1>2. e[1] \in Vertices(t)
  BY DEF Edges, Outgoing
<1>3. TargetOf(t, e) \in Vertices(t)
  BY <1>1 DEF Compiled, Registered, TargetOf
<1>4. PortOf(t, e) \in PortsOf(t, TargetOf(t, e))
  BY <1>1, <1>3 DEF Compiled, Registered, TargetOf
<1>5. QED
  BY <1>1, <1>2, <1>3, <1>4

LEMMA EdgesAreFinite ==
  ASSUME NEW t, Registered(t)
  PROVE  /\ IsFiniteSet(Edges(t))
         /\ \A v \in Vertices(t) : IsFiniteSet(Outgoing(t, v))
<1>1. \A v \in Vertices(t) : IsFiniteSet(Outgoing(t, v))
  <2>1. TAKE v \in Vertices(t)
  <2>2. Outgoing(t, v) = {v} \X DOMAIN t.declared_edges[v]
    BY DEF Outgoing
  <2>3. IsFiniteSet({v}) /\ IsFiniteSet(DOMAIN t.declared_edges[v])
    BY FS_Singleton DEF Registered
  <2>4. QED
    BY <2>2, <2>3, FS_Product
<1> DEFINE S == {Outgoing(t, v) : v \in Vertices(t)}
           f == [v \in Vertices(t) |-> Outgoing(t, v)]
<1>2. f \in Surjection(Vertices(t), S)
  BY DEF Surjection
<1>3. IsFiniteSet(S)
  BY <1>2, FS_Surjection DEF Registered
<1>4. \A T \in S : IsFiniteSet(T)
  BY <1>1
<1>5. IsFiniteSet(UNION S)
  BY <1>3, <1>4, FS_UNION
<1>6. QED
  BY <1>1, <1>5 DEF Edges

LEMMA OneProducer ==
  ASSUME NEW t, Compiled(t), NEW e \in Edges(t)
  PROVE  Producers(t, PortOf(t, e)) = {e}
<1> DEFINE p == PortOf(t, e)
           v == TargetOf(t, e)
<1>1. v \in Vertices(t) /\ p \in PortsOf(t, v)
  BY EdgesLead
<1>2. \E counts \in {{0}, {1}} : counts = {Cardinality(Producers(t, q)) : q \in PortsOf(t, v)}
  BY <1>1 DEF Compiled, Resolves, PortsFed
<1>3. Cardinality(Producers(t, p)) \in {0, 1}
  BY <1>1, <1>2
<1>4. e \in Producers(t, p) /\ Producers(t, p) \in SUBSET Edges(t)
  BY DEF Producers
<1>5. IsFiniteSet(Producers(t, p))
  BY <1>4, EdgesAreFinite, FS_Subset DEF Compiled
<1> HIDE DEF p
<1>6. Cardinality(Producers(t, p)) = 1
  BY <1>3, <1>4, <1>5, FS_EmptySet
<1>7. PICK x : Producers(t, p) = {x}
  BY <1>5, <1>6, FS_Singleton
<1>8. Producers(t, p) = {e}
  BY <1>4, <1>7
<1>9. QED
  BY <1>8 DEF p

LEMMA FedByOne ==
  ASSUME NEW t, Compiled(t), NEW e \in Edges(t)
  PROVE  FedBy(t, PortOf(t, e)) = Upstream(t, e[1])
BY OneProducer DEF FedBy

LEMMA RootsUnfed ==
  ASSUME NEW t, Compiled(t), NEW v \in Roots(t), NEW p \in PortsOf(t, v)
  PROVE  FedBy(t, p) = {}
<1>1. v \in Vertices(t) /\ Incoming(t, v) = {}
  BY DEF Roots
<1>2. t.port_vertices[p] = v
  BY <1>1 DEF Compiled, Registered
<1>3. Producers(t, p) \subseteq Incoming(t, v)
  BY <1>2 DEF Producers, Incoming, TargetOf
<1>4. QED
  BY <1>1, <1>3 DEF FedBy

\* What arrives at the ports of v, and v itself.
LEMMA UpstreamGrows ==
  ASSUME NEW t, Compiled(t), NEW v \in Vertices(t)
  PROVE  Upstream(t, v) = {v} \cup UNION {FedBy(t, p) : p \in PortsOf(t, v)}
<1> DEFINE S == {v} \cup UNION {FedBy(t, p) : p \in PortsOf(t, v)}
<1>1. \A u \in Predecessors(t, v) : u \in Vertices(t) /\ Upstream(t, u) \subseteq S
  <2>1. TAKE u \in Predecessors(t, v)
  <2>2. PICK e \in Incoming(t, v) : e[1] = u
    BY DEF Predecessors
  <2>3. e \in Edges(t) /\ TargetOf(t, e) = v
    BY <2>2 DEF Incoming
  <2>4. PortOf(t, e) \in PortsOf(t, v) /\ u \in Vertices(t)
    BY <2>2, <2>3, EdgesLead
  <2>5. FedBy(t, PortOf(t, e)) = Upstream(t, u)
    BY <2>2, <2>3, FedByOne
  <2>6. QED
    BY <2>4, <2>5
<1>2. \A p \in PortsOf(t, v) : \A e \in Producers(t, p) : e[1] \in Predecessors(t, v) /\ e[1] \in Vertices(t)
  <2>1. TAKE p \in PortsOf(t, v)
  <2>2. TAKE e \in Producers(t, p)
  <2>3. t.port_vertices[p] = v
    BY DEF Compiled, Registered
  <2>4. e \in Edges(t) /\ TargetOf(t, e) = v
    BY <2>3 DEF Producers, TargetOf
  <2>5. QED
    BY <2>4, EdgesLead DEF Predecessors, Incoming
<1>3. S \subseteq Vertices(t)
  <2>1. \A p \in PortsOf(t, v) : FedBy(t, p) \subseteq Vertices(t)
    BY DEF FedBy, Upstream
  <2>2. QED
    BY <2>1
<1>4. Closed(t, S)
  <2>1. SUFFICES ASSUME NEW u \in S PROVE Predecessors(t, u) \subseteq S
    BY DEF Closed
  <2>2. CASE u = v
    <3>1. \A x \in Predecessors(t, v) : x \in Upstream(t, x)
      BY <1>1, UpstreamClosed
    <3> HIDE DEF S
    <3>2. QED
      BY <2>2, <1>1, <3>1
  <2>3. CASE u # v
    <3>1. PICK p \in PortsOf(t, v) : u \in FedBy(t, p)
      BY <2>3
    <3>2. PICK e \in Producers(t, p) : u \in Upstream(t, e[1])
      BY <3>1 DEF FedBy
    <3>3. Predecessors(t, u) \subseteq Upstream(t, e[1])
      BY <1>2, <3>2, UpstreamClosed DEF Closed
    <3>4. Upstream(t, e[1]) \subseteq S
      BY <1>1, <1>2, <3>2
    <3>5. QED
      BY <3>3, <3>4
  <2>4. QED
    BY <2>2, <2>3
<1>5. Upstream(t, v) \subseteq S
  BY <1>3, <1>4 DEF Upstream
<1>6. S \subseteq Upstream(t, v)
  <2>1. ASSUME NEW p \in PortsOf(t, v), NEW e \in Producers(t, p), NEW x \in Upstream(t, e[1])
        PROVE  x \in Upstream(t, v)
    <3>1. e[1] \in Predecessors(t, v) /\ e[1] \in Vertices(t)
      BY <1>2
    <3>2. ASSUME NEW T \in SUBSET Vertices(t), v \in T, Closed(t, T)
          PROVE  x \in T
      <4>1. e[1] \in T
        BY <3>1, <3>2 DEF Closed
      <4>2. QED
        BY <3>2, <4>1 DEF Upstream
    <3>3. QED
      BY <3>2 DEF Upstream
  <2>2. \A p \in PortsOf(t, v) : FedBy(t, p) \subseteq Upstream(t, v)
    BY <2>1 DEF FedBy
  <2>3. QED
    BY <2>2, UpstreamClosed
<1>7. QED
  BY <1>5, <1>6

\* What a descriptor of a graph is known to be.
Descriptor(d) ==
  /\ d.ports \in Seq(Range(d.ports)) /\ d.ports # <<>>
  /\ d.edges \in Seq(Range(d.edges))

\* A new vertex with ports nobody has claimed: the topology gains both.
Gains(t, d, s) ==
  /\ t.duplicate_ports = {} /\ Registered(s)
  /\ d.ports[1] \in Range(d.ports) /\ d.ports[1] \notin Vertices(t)
  /\ Range(d.ports) \cap PortIds(t) = {}
  /\ Vertices(s) = Vertices(t) \cup {d.ports[1]}
  /\ PortIds(s) = PortIds(t) \cup Range(d.ports)
  /\ PortsOf(s, d.ports[1]) = Range(d.ports)
  /\ \A v \in Vertices(t) : PortsOf(s, v) = PortsOf(t, v)

LEMMA RegisterGains ==
  ASSUME NEW t, t.duplicate_ports = {} => Registered(t), NEW d, Descriptor(d),
         NEW s, s = Register(t, d), s.duplicate_ports = {}
  PROVE  Gains(t, d, s)
<1> DEFINE vertex == d.ports[1]
<1>0. /\ s.vertex_ports = OrElse(t.vertex_ports, [v \in {vertex} |-> d.ports])
      /\ s.port_vertices = OrElse(t.port_vertices, [p \in Range(d.ports) |-> vertex])
      /\ s.declared_edges = OrElse(t.declared_edges, [v \in {vertex} |-> d.edges])
      /\ t.duplicate_ports \subseteq s.duplicate_ports
      /\ {p \in Range(d.ports) : p \in DOMAIN t.port_vertices} \subseteq s.duplicate_ports
  BY DEF Register
<1>1. t.duplicate_ports = {} /\ Registered(t)
  BY <1>0
<1>2. Range(d.ports) \cap PortIds(t) = {}
  BY <1>0 DEF PortIds
<1>3. vertex \in Range(d.ports)
  <2>1. 1 \in DOMAIN d.ports
    BY DEF Descriptor
  <2>2. QED
    BY <2>1 DEF Range
<1>4. vertex \notin Vertices(t)
  BY <1>1, <1>2, <1>3 DEF Registered
<1>5. Vertices(s) = Vertices(t) \cup {vertex} /\ DOMAIN s.declared_edges = Vertices(t) \cup {vertex}
  BY <1>0, <1>1 DEF Vertices, OrElse, Registered
<1>6. PortIds(s) = PortIds(t) \cup Range(d.ports)
  BY <1>0 DEF PortIds, OrElse
<1>7. /\ s.vertex_ports[vertex] = d.ports /\ s.declared_edges[vertex] = d.edges
      /\ \A v \in Vertices(t) : s.vertex_ports[v] = t.vertex_ports[v]
                               /\ s.declared_edges[v] = t.declared_edges[v]
  BY <1>0, <1>1, <1>4 DEF Vertices, OrElse, Registered
<1>8. /\ \A p \in PortIds(t) : s.port_vertices[p] = t.port_vertices[p]
      /\ \A p \in Range(d.ports) : s.port_vertices[p] = vertex
  BY <1>0, <1>2 DEF PortIds, OrElse
<1>9. PortsOf(s, vertex) = Range(d.ports) /\ \A v \in Vertices(t) : PortsOf(s, v) = PortsOf(t, v)
  BY <1>7 DEF PortsOf
<1>10. IsFiniteSet(Vertices(s))
  <2>1. PICK V : V = Vertices(t)
    OBVIOUS
  <2>2. IsFiniteSet(V)
    BY <1>1, <2>1 DEF Registered
  <2>3. IsFiniteSet(V \cup {vertex})
    BY <2>2, FS_AddElement
  <2>4. QED
    BY <1>5, <2>1, <2>3
<1>11. \A v \in Vertices(s) : IsFiniteSet(DOMAIN s.declared_edges[v]) /\ v \in PortsOf(s, v)
  <2>1. IsFiniteSet(DOMAIN d.edges)
    <3>1. Len(d.edges) \in Nat /\ DOMAIN d.edges = 1..Len(d.edges)
      BY DEF Descriptor
    <3>2. QED
      BY <3>1, FS_Interval
  <2>2. QED
    BY <1>1, <1>3, <1>5, <1>7, <1>9, <2>1 DEF Registered
<1>12. \A p \in PortIds(s) : s.port_vertices[p] \in Vertices(s)
  BY <1>1, <1>5, <1>6, <1>8 DEF Registered
<1>13. \A v \in Vertices(s) : PortsOf(s, v) = {p \in PortIds(s) : s.port_vertices[p] = v}
  <2>1. TAKE v \in Vertices(s)
  <2>2. CASE v = vertex
    BY <1>1, <1>2, <1>4, <1>6, <1>8, <1>9, <2>2 DEF Registered
  <2>3. CASE v \in Vertices(t)
    BY <1>1, <1>4, <1>6, <1>8, <1>9, <2>3 DEF Registered
  <2>4. QED
    BY <1>5, <2>2, <2>3
<1>14. Registered(s)
  BY <1>5, <1>10, <1>11, <1>12, <1>13 DEF Registered
<1>15. QED
  BY <1>1, <1>2, <1>3, <1>4, <1>5, <1>6, <1>9, <1>14 DEF Gains

LEMMA NothingRegistered ==
  /\ Registered(NoTopology) /\ PortIds(NoTopology) = {} /\ Vertices(NoTopology) = {}
<1>1. DOMAIN NoTopology.vertex_ports = {} /\ DOMAIN NoTopology.port_vertices = {}
      /\ DOMAIN NoTopology.declared_edges = {}
  BY DEF NoTopology
<1>2. QED
  BY <1>1, FS_EmptySet DEF Registered, Vertices, PortIds

-----------------------------------------------------------------------------
(* The frontier of a pass                                                  *)

\* The edges to v still to come, from vertices still to come.
Ahead(t, f, v) == {e \in Incoming(t, v) : e[1] \in DOMAIN f.pending}

FrontierFits(t, f) ==
  /\ DOMAIN f.pending \subseteq Vertices(t)
  /\ \A v \in DOMAIN f.pending : f.pending[v] = Cardinality(Ahead(t, f, v))
  /\ \A v \in Vertices(t) \ DOMAIN f.pending : Ahead(t, f, v) = {}

LEMMA FrontierBegins ==
  ASSUME NEW t, Compiled(t)
  PROVE  FrontierFits(t, Frontier(t)) /\ DOMAIN Frontier(t).pending # {}
<1>1. DOMAIN Frontier(t).pending = Vertices(t)
      /\ \A v \in Vertices(t) : Frontier(t).pending[v] = Cardinality(Incoming(t, v))
  BY DEF Frontier
<1>2. \A v \in Vertices(t) : Ahead(t, Frontier(t), v) = Incoming(t, v)
  <2>1. \A v \in Vertices(t) : \A e \in Incoming(t, v) : e[1] \in Vertices(t)
    BY EdgesLead DEF Incoming
  <2>2. QED
    BY <1>1, <2>1 DEF Ahead
<1>3. Vertices(t) # {}
  BY DEF Compiled, Resolves
<1>4. QED
  BY <1>1, <1>2, <1>3 DEF FrontierFits

\* Only the sink can be the last.
LEMMA FrontierAdvances ==
  ASSUME NEW t, Compiled(t), NEW f, FrontierFits(t, f), NEW v, CanAdvance(f, t, v),
         NEW g, g = AdvanceFrontier(f, t, v)
  PROVE  FrontierFits(t, g) /\ (DOMAIN g.pending = {} => v = Sink(t))
<1>1. v \in DOMAIN f.pending /\ v \in Vertices(t) /\ f.pending[v] = 0
  BY DEF CanAdvance, FrontierFits
<1>2. /\ DOMAIN g.pending = DOMAIN f.pending \ {v}
      /\ \A w \in DOMAIN g.pending : g.pending[w] = f.pending[w] - Resolved(t, v, w)
  BY DEF AdvanceFrontier
<1>3. \A w \in Vertices(t) : Incoming(t, w) \in SUBSET Edges(t) /\ IsFiniteSet(Ahead(t, f, w))
  <2>1. TAKE w \in Vertices(t)
  <2>2. Incoming(t, w) \in SUBSET Edges(t) /\ Ahead(t, f, w) \in SUBSET Edges(t)
    BY DEF Incoming, Ahead
  <2>3. QED
    BY <2>2, EdgesAreFinite, FS_Subset DEF Compiled
<1>4. Ahead(t, f, v) = {}
  <2>1. Cardinality(Ahead(t, f, v)) = 0
    BY <1>1 DEF FrontierFits
  <2>2. QED
    BY <1>1, <1>3, <2>1, FS_EmptySet
<1>5. \A w \in Vertices(t) : Ahead(t, g, w) = Ahead(t, f, w) \ Outgoing(t, v)
  <2>1. TAKE w \in Vertices(t)
  <2>2. \A e \in Incoming(t, w) : e \in Outgoing(t, v) <=> e[1] = v
    BY <1>3 DEF Outgoing, Edges
  <2>3. QED
    BY <1>2, <2>2 DEF Ahead
<1>6. \A w \in Vertices(t) : Ahead(t, f, w) \cap Outgoing(t, v) = {e \in Outgoing(t, v) : TargetOf(t, e) = w}
  <2>1. TAKE w \in Vertices(t)
  <2>2. \A e \in Outgoing(t, v) : e \in Edges(t) /\ e[1] = v
    BY <1>1 DEF Outgoing, Edges
  <2>3. QED
    BY <1>1, <2>2 DEF Ahead, Incoming
<1>7. \A w \in DOMAIN g.pending : g.pending[w] = Cardinality(Ahead(t, g, w))
  <2>1. TAKE w \in DOMAIN g.pending
  <2>2. w \in DOMAIN f.pending /\ w \in Vertices(t)
    BY <1>2 DEF FrontierFits
  <2>3. g.pending[w] = Cardinality(Ahead(t, f, w)) - Cardinality(Ahead(t, f, w) \cap Outgoing(t, v))
    BY <1>2, <1>6, <2>2 DEF FrontierFits, Resolved
  <2>4. Cardinality(Ahead(t, f, w) \ Outgoing(t, v))
          = Cardinality(Ahead(t, f, w)) - Cardinality(Ahead(t, f, w) \cap Outgoing(t, v))
    BY <1>3, <2>2, FS_Difference
  <2>5. QED
    BY <1>5, <2>2, <2>3, <2>4
<1>8. \A w \in Vertices(t) \ DOMAIN g.pending : Ahead(t, g, w) = {}
  BY <1>2, <1>4, <1>5 DEF FrontierFits
<1>9. FrontierFits(t, g)
  BY <1>2, <1>7, <1>8 DEF FrontierFits
<1>10. ASSUME DOMAIN g.pending = {} PROVE v = Sink(t)
  <2>1. DOMAIN f.pending = {v}
    BY <1>1, <1>2, <1>10
  <2>2. ASSUME NEW e \in Outgoing(t, v) PROVE FALSE
    <3>1. e \in Edges(t) /\ e[1] = v
      BY <1>1 DEF Edges, Outgoing
    <3>2. PICK w : w = TargetOf(t, e)
      OBVIOUS
    <3>3. w \in Vertices(t)
      BY <3>1, <3>2, EdgesLead
    <3>4. e \in Ahead(t, f, w)
      BY <1>1, <3>1, <3>2 DEF Ahead, Incoming
    <3>5. QED
      BY <1>4, <2>1, <3>3, <3>4 DEF FrontierFits
  <2>3. v \in Sinks(t)
    BY <1>1, <2>2 DEF Sinks
  <2>4. QED
    BY <2>3, SinkSeesAll
<1>11. QED
  BY <1>9, <1>10

-----------------------------------------------------------------------------
(* The completions of a window                                             *)

\* The pairs of vertex and input done.
Done(t, L, c) == {d \in Vertices(t) \X (1..L) : d[2] <= c[d[1]]}

LEMMA NoneDone ==
  ASSUME NEW t, NEW L \in Nat, NEW c, c = [v \in Vertices(t) |-> 0]
  PROVE  Cardinality(Done(t, L, c)) = 0
<1>1. Done(t, L, c) = {}
  BY DEF Done
<1>2. QED
  BY <1>1, FS_EmptySet

LEMMA DoneIsFinite ==
  ASSUME NEW t, IsFiniteSet(Vertices(t)), NEW L \in Nat, NEW c
  PROVE  /\ IsFiniteSet(Done(t, L, c)) /\ Done(t, L, c) \in SUBSET (Vertices(t) \X (1..L))
         /\ IsFiniteSet(Vertices(t) \X (1..L)) /\ Cardinality(Vertices(t) \X (1..L)) = Cardinality(Vertices(t)) * L
<1>1. IsFiniteSet(1..L) /\ Cardinality(1..L) = L
  BY FS_Interval
<1>2. IsFiniteSet(Vertices(t) \X (1..L)) /\ Cardinality(Vertices(t) \X (1..L)) = Cardinality(Vertices(t)) * L
  BY <1>1, FS_Product
<1>3. Done(t, L, c) \in SUBSET (Vertices(t) \X (1..L))
  BY DEF Done
<1>4. QED
  BY <1>2, <1>3, FS_Subset

LEMMA OneMoreDone ==
  ASSUME NEW t, IsFiniteSet(Vertices(t)), NEW L \in Nat, NEW c \in [Vertices(t) -> 0..L],
         NEW v \in Vertices(t), c[v] < L, NEW d \in [Vertices(t) -> 0..L],
         d[v] = c[v] + 1, \A u \in Vertices(t) : u # v => d[u] = c[u]
  PROVE  Cardinality(Done(t, L, d)) = Cardinality(Done(t, L, c)) + 1
<1>1. c[v] \in 0..L /\ c[v] + 1 \in 1..L
  OBVIOUS
<1>2. d[v] = c[v] + 1 /\ \A u \in Vertices(t) : u # v => d[u] = c[u]
  OBVIOUS
<1>3. Done(t, L, d) = Done(t, L, c) \cup {<<v, c[v] + 1>>} /\ <<v, c[v] + 1>> \notin Done(t, L, c)
  <2>1. <<v, c[v] + 1>> \notin Done(t, L, c)
    BY <1>1 DEF Done
  <2>2. ASSUME NEW u \in Vertices(t), NEW i \in 1..L
        PROVE  <<u, i>> \in Done(t, L, d) <=> <<u, i>> \in Done(t, L, c) \/ <<u, i>> = <<v, c[v] + 1>>
    <3>1. CASE u = v
      BY <1>1, <1>2, <3>1 DEF Done
    <3>2. CASE u # v
      BY <1>2, <3>2 DEF Done
    <3>3. QED
      BY <3>1, <3>2
  <2>3. <<v, c[v] + 1>> \in Vertices(t) \X (1..L)
    BY <1>1
  <2>4. \A x \in Vertices(t) \X (1..L) : \E u \in Vertices(t) : \E i \in 1..L : x = <<u, i>>
    OBVIOUS
  <2>5. Done(t, L, d) \subseteq Vertices(t) \X (1..L) /\ Done(t, L, c) \subseteq Vertices(t) \X (1..L)
    BY DEF Done
  <2>6. \A x \in Vertices(t) \X (1..L) : x \in Done(t, L, d) <=> x \in Done(t, L, c) \/ x = <<v, c[v] + 1>>
    <3>1. TAKE x \in Vertices(t) \X (1..L)
    <3>2. PICK u \in Vertices(t) : \E i \in 1..L : x = <<u, i>>
      BY <2>4
    <3>3. PICK i \in 1..L : x = <<u, i>>
      BY <3>2
    <3>4. <<u, i>> \in Done(t, L, d) <=> <<u, i>> \in Done(t, L, c) \/ <<u, i>> = <<v, c[v] + 1>>
      BY <2>2
    <3>5. QED
      BY <3>3, <3>4
  <2>7. Done(t, L, d) = Done(t, L, c) \cup {<<v, c[v] + 1>>}
    <3> DEFINE P == Vertices(t) \X (1..L)
               C == Done(t, L, c)
               D == Done(t, L, d)
               x == <<v, c[v] + 1>>
    <3>1. C \subseteq P /\ D \subseteq P /\ x \in P /\ \A y \in P : y \in D <=> y \in C \/ y = x
      BY <2>3, <2>5, <2>6
    <3> HIDE DEF P, C, D, x
    <3>2. D = C \cup {x}
      BY <3>1
    <3>3. QED
      BY <3>2 DEF C, D, x
  <2>8. QED
    BY <2>1, <2>7
<1>4. IsFiniteSet(Done(t, L, c))
  BY DoneIsFinite
<1>5. Cardinality(Done(t, L, d)) = Cardinality(Done(t, L, c)) + 1
  <2>1. PICK C, x : C = Done(t, L, c) /\ x = <<v, c[v] + 1>>
    OBVIOUS
  <2>2. IsFiniteSet(C) /\ x \notin C /\ Done(t, L, d) = C \cup {x}
    BY <1>3, <1>4, <2>1
  <2>3. Cardinality(C \cup {x}) = Cardinality(C) + 1
    BY <2>2, FS_AddElement
  <2>4. QED
    BY <2>1, <2>2, <2>3
<1>6. QED
  BY <1>2, <1>5

LEMMA AllDone ==
  ASSUME NEW t, IsFiniteSet(Vertices(t)), NEW L \in Nat \ {0}, NEW c \in [Vertices(t) -> 0..L],
         ~(Cardinality(Done(t, L, c)) < Cardinality(Vertices(t)) * L), NEW v \in Vertices(t)
  PROVE  c[v] = L
<1> DEFINE D == Done(t, L, c)
           P == Vertices(t) \X (1..L)
<1>0. /\ IsFiniteSet(D) /\ D \in SUBSET P /\ IsFiniteSet(P)
      /\ Cardinality(P) = Cardinality(Vertices(t)) * L
      /\ ~(Cardinality(D) < Cardinality(P))
  BY DoneIsFinite
<1> HIDE DEF D, P
<1>1. Cardinality(D) = Cardinality(P)
  <2>1. Cardinality(D) \in Nat /\ Cardinality(P) \in Nat
    BY <1>0, FS_CardinalityType
  <2>2. Cardinality(D) <= Cardinality(P)
    BY <1>0, FS_Subset
  <2>3. QED
    BY <1>0, <2>1, <2>2
<1>2. D = P
  BY <1>0, <1>1, FS_Subset
<1> USE DEF D, P
<1>3. <<v, L>> \in Done(t, L, c)
  BY <1>2
<1>4. QED
  BY <1>3 DEF Done

-----------------------------------------------------------------------------
(* The mailboxes and the vertices, with L inputs to a window               *)

\* The emission of the i-th input of window w that passed the vertices of S.
Emission(L, w, i, S) == [inputs |-> {(w - 1) * L + i}, through |-> S]

After(L, p, w, i) == IF i < L THEN Mailbox("in", p, w, i + 1) ELSE Mailbox("in", p, w + 1, 1)

InputOf(t, L, p, w, i) ==
  [emission |-> Emission(L, w, i, FedBy(t, p)), recv |-> After(L, p, w, i),
   send |-> Mailbox("out", t.port_vertices[p], w, i)]
OutputOf(t, L, v, w, i) ==
  [emission |-> Emission(L, w, i, Upstream(t, v)), recv |-> NoMailbox, send |-> NoMailbox]

\* What may be put into a mailbox, up to window n.
InputFits(t, L, n, id, d) ==
  \E w \in 1..n : \E i \in 1..L : \E p \in PortIds(t) :
    id = Mailbox("in", p, w, i) /\ d = InputOf(t, L, p, w, i)
OutputFits(t, L, n, id, d) ==
  \E w \in 1..n : \E i \in 1..L : \E v \in Vertices(t) :
    id = Mailbox("out", v, w, i) /\ d = OutputOf(t, L, v, w, i)
Fits(t, L, n, id, d) == InputFits(t, L, n, id, d) \/ OutputFits(t, L, n, id, d)

Mail(t, L, n, b)    == \A id \in DOMAIN b : Fits(t, L, n, id, b[id])
Uploads(t, L, n, u) == \A s \in u : Fits(t, L, n, s.to, s.delivery)

\* The vertex v waits for the i-th input of a window, or has it and answers.
Waiting(t, L, n, v, c) ==
  \E w \in 1..(n + 1) : \E i \in 1..L :
    c.recv = [p \in PortsOf(t, v) |-> Mailbox("in", p, w, i)]
Working(t, L, n, v, c) ==
  \E w \in 1..n : \E i \in 1..L :
    /\ c.recv = [p \in PortsOf(t, v) |-> After(L, p, w, i)]
    /\ c.send = Mailbox("out", v, w, i) /\ c.emission = Emission(L, w, i, Upstream(t, v))

Whole(c) == c = [at |-> c.at, recv |-> c.recv, send |-> c.send, emission |-> c.emission]

Loop(t, L, n, v, c) ==
  /\ Whole(c)
  /\ c.at \in {"starting", "waiting"} => Waiting(t, L, n, v, c)
  /\ c.at = "working" => Working(t, L, n, v, c)
Loops(t, L, n, cs) == DOMAIN cs = Vertices(t) /\ \A v \in Vertices(t) : Loop(t, L, n, v, cs[v])

LEMMA FitsLater ==
  ASSUME NEW t, NEW L, NEW n \in Nat, NEW id, NEW d, Fits(t, L, n, id, d)
  PROVE  Fits(t, L, n + 1, id, d)
<1>1. 1..n \subseteq 1..(n + 1)
  OBVIOUS
<1>2. InputFits(t, L, n, id, d) => InputFits(t, L, n + 1, id, d)
  BY <1>1 DEF InputFits
<1>3. OutputFits(t, L, n, id, d) => OutputFits(t, L, n + 1, id, d)
  BY <1>1 DEF OutputFits
<1>4. QED
  BY <1>2, <1>3 DEF Fits

LEMMA LoopLater ==
  ASSUME NEW t, NEW L, NEW n \in Nat, NEW v, NEW c, Loop(t, L, n, v, c)
  PROVE  Loop(t, L, n + 1, v, c)
<1>1. 1..n \subseteq 1..(n + 1) /\ 1..(n + 1) \subseteq 1..(n + 1 + 1)
  OBVIOUS
<1>2. Waiting(t, L, n, v, c) => Waiting(t, L, n + 1, v, c)
  BY <1>1 DEF Waiting
<1>3. Working(t, L, n, v, c) => Working(t, L, n + 1, v, c)
  BY <1>1 DEF Working
<1>4. QED
  BY <1>2, <1>3 DEF Loop

\* Void keeps what was put first.
LEMMA MailGrows ==
  ASSUME NEW t, NEW L, NEW n, NEW b, Mail(t, L, n, b), NEW id, NEW d, Fits(t, L, n, id, d),
         NEW f, DOMAIN f = {id}, f[id] = d
  PROVE  Mail(t, L, n, OrElse(b, f))
BY DEF Mail, OrElse

\* What is in a mailbox is what was meant for it.
LEMMA InputFound ==
  ASSUME NEW t, NEW L, NEW n, NEW b, Mail(t, L, n, b), NEW p, NEW w, NEW i,
         Mailbox("in", p, w, i) \in DOMAIN b
  PROVE  /\ w \in 1..n /\ i \in 1..L /\ p \in PortIds(t)
         /\ b[Mailbox("in", p, w, i)] = InputOf(t, L, p, w, i)
<1>1. Fits(t, L, n, Mailbox("in", p, w, i), b[Mailbox("in", p, w, i)])
  BY DEF Mail
<1>2. ~OutputFits(t, L, n, Mailbox("in", p, w, i), b[Mailbox("in", p, w, i)])
  BY DEF OutputFits, Mailbox
<1>3. PICK x \in 1..n, j \in 1..L, q \in PortIds(t) :
        Mailbox("in", p, w, i) = Mailbox("in", q, x, j)
        /\ b[Mailbox("in", p, w, i)] = InputOf(t, L, q, x, j)
  BY <1>1, <1>2 DEF Fits, InputFits
<1>4. x = w /\ j = i /\ q = p
  BY <1>3 DEF Mailbox
<1>5. QED
  BY <1>3, <1>4

LEMMA OutputFound ==
  ASSUME NEW t, NEW L, NEW n, NEW b, Mail(t, L, n, b), NEW v, NEW w, NEW i,
         Mailbox("out", v, w, i) \in DOMAIN b
  PROVE  /\ w \in 1..n /\ i \in 1..L /\ v \in Vertices(t)
         /\ b[Mailbox("out", v, w, i)] = OutputOf(t, L, v, w, i)
<1>1. Fits(t, L, n, Mailbox("out", v, w, i), b[Mailbox("out", v, w, i)])
  BY DEF Mail
<1>2. ~InputFits(t, L, n, Mailbox("out", v, w, i), b[Mailbox("out", v, w, i)])
  BY DEF InputFits, Mailbox
<1>3. PICK x \in 1..n, j \in 1..L, u \in Vertices(t) :
        Mailbox("out", v, w, i) = Mailbox("out", u, x, j)
        /\ b[Mailbox("out", v, w, i)] = OutputOf(t, L, u, x, j)
  BY <1>1, <1>2 DEF Fits, OutputFits
<1>4. x = w /\ j = i /\ u = v
  BY <1>3 DEF Mailbox
<1>5. QED
  BY <1>3, <1>4

\* The mailbox after the i-th input's.
LEMMA AfterWaits ==
  ASSUME NEW t, NEW L \in Nat, NEW n \in Nat, NEW v, NEW w \in 1..n, NEW i \in 1..L, NEW c,
         c.recv = [p \in PortsOf(t, v) |-> After(L, p, w, i)]
  PROVE  Waiting(t, L, n, v, c)
<1>1. CASE i < L
  <2>1. i + 1 \in 1..L /\ w \in 1..(n + 1)
    BY <1>1
  <2>2. c.recv = [p \in PortsOf(t, v) |-> Mailbox("in", p, w, i + 1)]
    BY <1>1 DEF After
  <2>3. QED
    BY <2>1, <2>2 DEF Waiting
<1>2. CASE ~(i < L)
  <2>1. 1 \in 1..L /\ w + 1 \in 1..(n + 1)
    OBVIOUS
  <2>2. c.recv = [p \in PortsOf(t, v) |-> Mailbox("in", p, w + 1, 1)]
    BY <1>2 DEF After
  <2>3. QED
    BY <2>1, <2>2 DEF Waiting
<1>3. QED
  BY <1>1, <1>2

\* Receive: the vertex has what its ports were sent for one input.
\* What a fused vertex works on: a message of each of its ports, c's, the mailbox to answer into one of them's.
Merged(b, c, v, q) ==
  [at |-> "working", recv |-> [p \in DOMAIN c.recv |-> b[c.recv[p]].recv],
   send |-> b[c.recv[q]].send,
   emission |-> [inputs  |-> UNION {b[c.recv[p]].emission.inputs : p \in DOMAIN c.recv},
                 through |-> {v} \cup UNION {b[c.recv[p]].emission.through : p \in DOMAIN c.recv}]]

LEMMA ReceivedFits ==
  ASSUME NEW t, Compiled(t), NEW L \in Nat, NEW n \in Nat, NEW b, Mail(t, L, n, b),
         NEW v \in Vertices(t), NEW c, Waiting(t, L, n, v, c),
         \A p \in DOMAIN c.recv : c.recv[p] \in DOMAIN b,
         NEW q \in DOMAIN c.recv
  PROVE  Loop(t, L, n, v, Merged(b, c, v, q))
<1> DEFINE r == Merged(b, c, v, q)
<1>1. PICK w \in 1..(n + 1), i \in 1..L : c.recv = [p \in PortsOf(t, v) |-> Mailbox("in", p, w, i)]
  BY DEF Waiting
<1>2. DOMAIN c.recv = PortsOf(t, v) /\ \A p \in PortsOf(t, v) : c.recv[p] = Mailbox("in", p, w, i)
  BY <1>1
<1>3. \A p \in PortsOf(t, v) : w \in 1..n /\ b[c.recv[p]] = InputOf(t, L, p, w, i)
  BY <1>2, InputFound
<1>4. \A p \in PortsOf(t, v) : t.port_vertices[p] = v
  BY DEF Compiled, Registered
<1>5. \A p \in PortsOf(t, v) :
        /\ b[c.recv[p]].recv = After(L, p, w, i) /\ b[c.recv[p]].send = Mailbox("out", v, w, i)
        /\ b[c.recv[p]].emission.inputs = {(w - 1) * L + i}
        /\ b[c.recv[p]].emission.through = FedBy(t, p)
  <2>1. TAKE p \in PortsOf(t, v)
  <2>2. PICK d : d = b[c.recv[p]]
    OBVIOUS
  <2>3. d = [emission |-> Emission(L, w, i, FedBy(t, p)), recv |-> After(L, p, w, i),
             send |-> Mailbox("out", v, w, i)]
    BY <1>3, <1>4, <2>2 DEF InputOf
  <2>4. d.emission.inputs = {(w - 1) * L + i} /\ d.emission.through = FedBy(t, p)
    BY <2>3 DEF Emission
  <2>5. QED
    BY <2>2, <2>3, <2>4
<1>6. r.recv = [p \in PortsOf(t, v) |-> After(L, p, w, i)]
  <2>1. r.recv = [p \in PortsOf(t, v) |-> b[c.recv[p]].recv]
    BY <1>2 DEF Merged
  <2>2. QED
    BY <1>5, <2>1
<1>7. r.send = Mailbox("out", v, w, i) /\ w \in 1..n
  BY <1>2, <1>3, <1>5 DEF Merged
<1>8. r.emission = Emission(L, w, i, Upstream(t, v))
  <2>1. UNION {b[c.recv[p]].emission.inputs : p \in DOMAIN c.recv} = {(w - 1) * L + i}
    <3>1. q \in PortsOf(t, v)
      BY <1>2
    <3>2. {b[c.recv[p]].emission.inputs : p \in DOMAIN c.recv} = {{(w - 1) * L + i}}
      BY <1>2, <1>5, <3>1
    <3>3. QED
      BY <3>2
  <2>2. UNION {b[c.recv[p]].emission.through : p \in DOMAIN c.recv} = UNION {FedBy(t, p) : p \in PortsOf(t, v)}
    BY <1>2, <1>5
  <2>3. r.emission = [inputs |-> {(w - 1) * L + i}, through |-> {v} \cup UNION {FedBy(t, p) : p \in PortsOf(t, v)}]
    BY <2>1, <2>2 DEF Merged
  <2>4. QED
    BY <2>3, UpstreamGrows DEF Emission
<1>9. Working(t, L, n, v, r)
  BY <1>6, <1>7, <1>8 DEF Working
<1>10. r.at = "working" /\ Whole(r)
  BY DEF Whole, Merged
<1>11. QED
  BY <1>9, <1>10 DEF Loop

\* Respond: the answer is the output of the vertex, and it waits for the next input.
LEMMA AnswerFits ==
  ASSUME NEW t, NEW L \in Nat, NEW n \in Nat, NEW v \in Vertices(t), NEW c,
         Loop(t, L, n, v, c), c.at = "working"
  PROVE  /\ Fits(t, L, n, c.send, [emission |-> c.emission, recv |-> NoMailbox, send |-> NoMailbox])
         /\ Loop(t, L, n, v, [c EXCEPT !.at = "waiting"])
<1>1. PICK w \in 1..n, i \in 1..L :
        /\ c.recv = [p \in PortsOf(t, v) |-> After(L, p, w, i)]
        /\ c.send = Mailbox("out", v, w, i) /\ c.emission = Emission(L, w, i, Upstream(t, v))
  BY DEF Loop, Working
<1>2. Fits(t, L, n, c.send, [emission |-> c.emission, recv |-> NoMailbox, send |-> NoMailbox])
  BY <1>1 DEF Fits, OutputFits, OutputOf
<1>3. PICK d : d = [c EXCEPT !.at = "waiting"]
  OBVIOUS
<1>4. d = [at |-> "waiting", recv |-> c.recv, send |-> c.send, emission |-> c.emission]
  BY <1>3 DEF Loop, Whole
<1>5. Waiting(t, L, n, v, d)
  BY <1>1, <1>4, AfterWaits
<1>6. Whole(d)
  BY <1>4 DEF Whole
<1>7. QED
  BY <1>2, <1>3, <1>4, <1>5, <1>6 DEF Loop

LEMMA StartFits ==
  ASSUME NEW t, NEW L, NEW n, NEW v, NEW c, Loop(t, L, n, v, c), c.at = "starting"
  PROVE  Loop(t, L, n, v, [c EXCEPT !.at = "waiting"])
<1>1. PICK d : d = [c EXCEPT !.at = "waiting"]
  OBVIOUS
<1>2. d = [at |-> "waiting", recv |-> c.recv, send |-> c.send, emission |-> c.emission]
  BY <1>1 DEF Loop, Whole
<1>3. Waiting(t, L, n, v, d)
  BY <1>2 DEF Loop, Waiting
<1>4. QED
  BY <1>1, <1>2, <1>3 DEF Loop, Whole

LEMMA DeathFits ==
  ASSUME NEW t, NEW L, NEW n, NEW v, NEW c, Loop(t, L, n, v, c)
  PROVE  Loop(t, L, n, v, [c EXCEPT !.at = "dead"])
<1>1. PICK d : d = [c EXCEPT !.at = "dead"]
  OBVIOUS
<1>2. d = [at |-> "dead", recv |-> c.recv, send |-> c.send, emission |-> c.emission]
  BY <1>1 DEF Loop, Whole
<1>3. QED
  BY <1>1, <1>2 DEF Loop, Whole

-----------------------------------------------------------------------------
(* Outcomes, in the order of the inputs                                    *)

Outcome(t, k) == [inputs |-> {k}, through |-> Vertices(t)]

\* The outcomes of the m inputs after the b-th.
Row(t, b, m) == [k \in 1..m |-> Outcome(t, b + k)]

Outcomes(t) == {Outcome(t, k) : k \in Nat}

LEMMA RowLength ==
  ASSUME NEW t, NEW b \in Nat, NEW m \in Nat
  PROVE  Len(Row(t, b, m)) = m /\ Row(t, b, m) \in Seq(Outcomes(t))
<1>1. \A k \in 1..m : b + k \in Nat
  OBVIOUS
<1>2. Row(t, b, m) \in [1..m -> Outcomes(t)]
  BY <1>1 DEF Row, Outcomes
<1>3. Row(t, b, m) \in Seq(Outcomes(t))
  BY <1>2, SeqDef
<1>4. QED
  BY <1>2, <1>3

LEMMA RowEmpty ==
  ASSUME NEW t, NEW b PROVE Row(t, b, 0) = <<>>
BY DEF Row

LEMMA RowAppend ==
  ASSUME NEW t, NEW b \in Nat, NEW m \in Nat, NEW k, k = b + m + 1
  PROVE  Append(Row(t, b, m), Outcome(t, k)) = Row(t, b, m + 1)
<1> DEFINE s == Row(t, b, m)
           a == Append(s, Outcome(t, k))
<1>1. s \in Seq(Outcomes(t)) /\ Len(s) = m /\ Outcome(t, k) \in Outcomes(t)
  <2>1. k \in Nat
    OBVIOUS
  <2>2. s \in Seq(Outcomes(t)) /\ Len(s) = m
    BY RowLength
  <2>3. QED
    BY <2>1, <2>2 DEF Outcomes
<1>2. \A j \in 1..m : s[j] = Outcome(t, b + j)
  BY DEF Row
<1> HIDE DEF s
<1>3. DOMAIN a = 1..(m + 1) /\ a[m + 1] = Outcome(t, k) /\ \A j \in 1..m : a[j] = s[j]
  BY <1>1, AppendProperties, LenProperties
<1>4. a = [j \in 1..(m + 1) |-> a[j]]
  BY <1>1, <1>3
<1>5. \A j \in 1..(m + 1) : a[j] = Outcome(t, b + j)
  BY <1>2, <1>3
<1> HIDE DEF a
<1>6. a = Row(t, b, m + 1)
  BY <1>4, <1>5 DEF Row
<1>7. QED
  BY <1>6 DEF a, s

LEMMA RowTail ==
  ASSUME NEW t, NEW b \in Nat, NEW m \in Nat \ {0}
  PROVE  /\ Head(Row(t, b, m)) = Outcome(t, b + 1)
         /\ Tail(Row(t, b, m)) = Row(t, b + 1, m - 1)
<1> DEFINE s == Row(t, b, m)
<1>1. s \in Seq(Outcomes(t)) /\ Len(s) = m
  <2>1. m \in Nat
    OBVIOUS
  <2>2. QED
    BY <2>1, RowLength
<1>2. \A j \in 1..m : s[j] = Outcome(t, b + j)
  BY DEF Row
<1> HIDE DEF s
<1>3. s # <<>>
  BY <1>1
<1>4. Head(s) = Outcome(t, b + 1)
  BY <1>1, <1>2, <1>3
<1>5. /\ Tail(s) \in Seq(Outcomes(t)) /\ Len(Tail(s)) = m - 1
      /\ \A j \in 1..(m - 1) : Tail(s)[j] = s[j + 1]
  BY <1>1, <1>3, HeadTailProperties
<1>6. Tail(s) = [j \in 1..(m - 1) |-> Tail(s)[j]]
  BY <1>5, LenProperties
<1>7. \A j \in 1..(m - 1) : Tail(s)[j] = Outcome(t, (b + 1) + j)
  <2>1. TAKE j \in 1..(m - 1)
  <2>2. j + 1 \in 1..m /\ b + (j + 1) = (b + 1) + j
    OBVIOUS
  <2>3. QED
    BY <1>2, <1>5, <2>2
<1>8. Tail(s) = Row(t, b + 1, m - 1)
  BY <1>6, <1>7 DEF Row
<1>9. QED
  BY <1>4, <1>8 DEF s

LEMMA WindowsAddUp ==
  ASSUME NEW L \in Nat \ {0}, NEW w \in Nat
  PROVE  /\ w * L \in Nat /\ (w + 1) * L = w * L + L
         /\ w > 0 => (w - 1) * L \in Nat /\ (w - 1) * L + L = w * L
<1>1. w * L \in Nat /\ (w + 1) * L = w * L + L
  OBVIOUS
<1>2. ASSUME w > 0 PROVE (w - 1) * L \in Nat /\ (w - 1) * L + L = w * L
  <2>1. w - 1 \in Nat /\ w = (w - 1) + 1
    BY <1>2
  <2>2. PICK x \in Nat : x = w - 1
    BY <2>1
  <2>3. x * L \in Nat /\ (x + 1) * L = x * L + L
    OBVIOUS
  <2>4. QED
    BY <2>1, <2>2, <2>3
<1>3. QED
  BY <1>1, <1>2

\* At the end of a window the remainder is none.
LEMMA WindowsDivide ==
  ASSUME NEW L \in Nat \ {0}, NEW w \in Nat
  PROVE  (w * L) % L = 0
<1>1. PICK x : x = w * L
  OBVIOUS
<1>2. x \in Nat
  BY <1>1, WindowsAddUp
<1>3. PICK q, r : q = x \div L /\ r = x % L
  OBVIOUS
<1>4. q \in Nat /\ r \in 0..(L - 1) /\ x = q * L + r
  BY <1>2, <1>3
<1>5. \A y, z \in Nat : y < z => y * L + L <= z * L
  <2>1. TAKE y, z \in Nat
  <2>2. HAVE y < z
  <2>3. PICK d \in Nat : z = y + 1 + d
    <3>1. z - y - 1 \in Nat /\ z = y + 1 + (z - y - 1)
      BY <2>2
    <3>2. QED
      BY <3>1
  <2>4. z * L = y * L + L + d * L
    BY <2>3
  <2>5. d * L \in Nat /\ y * L \in Nat
    BY WindowsAddUp
  <2>6. QED
    BY <2>4, <2>5
<1>6. q * L \in Nat /\ w * L \in Nat
  BY <1>4, WindowsAddUp
<1>7. ~(q < w)
  <2>1. q < w => q * L + L <= w * L
    BY <1>4, <1>5
  <2>2. QED
    BY <1>1, <1>4, <1>6, <2>1
<1>8. ~(w < q)
  <2>1. w < q => w * L + L <= q * L
    BY <1>4, <1>5
  <2>2. QED
    BY <1>1, <1>4, <1>6, <2>1
<1>9. q = w
  BY <1>4, <1>7, <1>8
<1>10. QED
  BY <1>1, <1>3, <1>4, <1>6, <1>9

-----------------------------------------------------------------------------
(* The inductive invariant                                                 *)

\* A graph is being registered; no window was begun.
Deploying ==
  /\ deployed \in 0..Len(graph)
  /\ window = 0 /\ generated = 0 /\ served = <<>> /\ outputs = <<>> /\ box = <<>> /\ todo = {}
  /\ \A v \in DOMAIN cell : cell[v].at \in {"starting", "waiting", "dead"} /\ Whole(cell[v])
  /\ topology.duplicate_ports = {} =>
       /\ Registered(topology)
       /\ inputs = [p \in PortIds(topology) |-> Mailbox("in", p, 1, 1)]
       /\ DOMAIN cell = Vertices(topology)
       /\ \A v \in Vertices(topology) :
            cell[v].recv = [p \in PortsOf(topology, v) |-> Mailbox("in", p, 1, 1)]

\* Inputs taken in the windows before this one.
Base == (window - 1) * Limit

At(w) == inputs = [p \in PortIds(topology) |-> Mailbox("in", p, w, 1)]

\* Outputs are those of the inputs, in their order.
Served == Len(served) \in Nat /\ served = Row(topology, 0, Len(served))
Queued == Len(outputs) \in Nat /\ outputs = Row(topology, Len(served), Len(outputs))

\* Between windows, and while the inputs of one are taken.
BetweenWindows ==
  generated = window * Limit /\ Len(served) = window * Limit /\ outputs = <<>> /\ At(window + 1)

Collecting ==
  /\ window > 0 /\ Len(collected) \in 0..Limit
  /\ collected = [i \in 1..Len(collected) |-> Input(Base + i)]
  /\ generated = Base + Len(collected) /\ Len(served) = Base
  /\ outputs = <<>> /\ At(window)

\* A window: what is complete, and what of it the sink has made.
Windowed ==
  /\ completed \in [Vertices(topology) -> 0..Limit]
  /\ Cardinality(Done(topology, Limit, completed)) = completions
  /\ Queued /\ Len(served) + Len(outputs) = Base + completed[Sink(topology)]

Unfinished == Pending(completions, frontier)

Passing ==
  /\ completed = [v \in Vertices(topology) |-> 0]
  /\ FrontierFits(topology, frontier)
  /\ Len(served) = Base
  /\ ~Unfinished => outputs = Row(topology, Base, 1)

Progress ==
  /\ window > 0 /\ generated = Base + Limit
  /\ collected = [i \in 1..Limit |-> Input(Base + i)]
  /\ IF program = "pass" THEN Passing ELSE Windowed

\* Where the driver is with it.
Stage ==
  /\ phase # "drain" => Unfinished
  /\ phase = "drain" => outputs # <<>> /\ (program = "policy" \/ ~Unfinished)
  /\ At(IF Unfinished THEN window ELSE window + 1)
  /\ phase = "forwarding" =>
       taken \in Vertices(topology) /\ HasTask(taken) /\ OutputId(taken, Task(taken)) \in DOMAIN box

Drivers == {"begin", "collect", "seed", "seeding", "wait", "forwarding", "drain"}

Serving ==
  /\ Compiled(topology)
  /\ Mail(topology, Limit, window, box) /\ Uploads(topology, Limit, window, todo)
  /\ Loops(topology, Limit, window, cell)
  /\ Served
  /\ phase \notin {"seeding", "forwarding"} => todo = {}
  /\ phase = "begin" => BetweenWindows
  /\ phase = "collect" => Collecting
  /\ phase \notin {"begin", "collect"} => Progress /\ Stage

IInv ==
  /\ program \in {"window", "policy", "pass"} /\ graph \in Graphs
  /\ window \in Nat /\ generated \in Nat
  /\ phase = "deploy" => Deploying
  /\ phase \in Drivers => Serving

USE DEF vars, graphVars, windowVars, driverVars, Ok

LEMMA LimitIsPositive ==
  ASSUME IInv PROVE Limit \in Nat \ {0}
<1>1. MaxInFlight \in Nat
  BY BoundsAssumption
<1>2. QED
  BY <1>1 DEF Limit

LEMMA InitHolds ==
  ASSUME Init PROVE IInv
<1>1. program \in {"window", "policy", "pass"}
  BY ProgramsAssumption DEF Init
<1>2. Len(graph) \in Nat
  <2>1. graph \in Seq(Range(graph))
    BY GraphsAssumption DEF Init
  <2>2. QED
    BY <2>1
<1>3. topology = NoTopology /\ inputs = <<>> /\ cell = <<>>
  BY DEF Init
<1>4. inputs = [p \in PortIds(topology) |-> Mailbox("in", p, 1, 1)]
  BY <1>3, NothingRegistered
<1>5. DOMAIN cell = {} /\ Vertices(topology) = {}
  BY <1>3, NothingRegistered
<1>6. Deploying
  BY <1>2, <1>3, <1>4, <1>5, NothingRegistered DEF Init, Deploying
<1>7. QED
  BY <1>1, <1>6 DEF Init, IInv, Drivers

\* A vertex registered with ports of its own waits at the first mailboxes.
LEMMA SpawnKeeps ==
  ASSUME IInv, Spawn PROVE IInv'
<1> DEFINE d == graph[deployed + 1]
           first == [p \in Range(d.ports) |-> Mailbox("in", p, 1, 1)]
           new == [at |-> "starting", recv |-> first, send |-> NoMailbox, emission |-> None]
<1>1. phase = "deploy" /\ phase' = "deploy" /\ Deploying /\ deployed < Len(graph)
  BY DEF Spawn, IInv
<1>2. graph \in Graphs /\ graph \in Seq(Range(graph)) /\ deployed \in Nat /\ Len(graph) \in Nat
  <2>1. graph \in Graphs /\ graph \in Seq(Range(graph))
    BY GraphsAssumption DEF IInv
  <2>2. Len(graph) \in Nat
    BY <2>1
  <2>3. QED
    BY <1>1, <2>1, <2>2 DEF Deploying
<1>3. deployed + 1 \in DOMAIN graph /\ deployed' \in 0..Len(graph')
  BY <1>1, <1>2 DEF Spawn
<1>4. Descriptor(d)
  BY <1>2, <1>3, GraphsAssumption DEF Descriptor
<1>5. /\ topology' = Register(topology, d)
      /\ inputs' = OrElse(first, inputs)
      /\ cell' = OrElse(cell, [v \in {d.ports[1]} |-> new])
  BY DEF Spawn
<1>6. PICK t, s : t = topology /\ s = topology'
  OBVIOUS
<1>7. \A v \in DOMAIN cell' : cell'[v].at \in {"starting", "waiting", "dead"} /\ Whole(cell'[v])
  <2>1. TAKE v \in DOMAIN cell'
  <2>2. CASE v \in DOMAIN cell
    <3>1. cell'[v] = cell[v]
      BY <1>5, <2>2 DEF OrElse
    <3>2. QED
      BY <1>1, <2>2, <3>1 DEF Deploying
  <2>3. CASE v \notin DOMAIN cell
    <3>1. v = d.ports[1]
      BY <1>5, <2>3 DEF OrElse
    <3>2. cell'[v] = new
      BY <1>5, <2>3, <3>1 DEF OrElse
    <3>3. QED
      BY <3>2 DEF Whole
  <2>4. QED
    BY <2>2, <2>3
<1>8. ASSUME s.duplicate_ports = {}
      PROVE  /\ Registered(s)
             /\ inputs' = [p \in PortIds(s) |-> Mailbox("in", p, 1, 1)]
             /\ DOMAIN cell' = Vertices(s)
             /\ \A v \in Vertices(s) : cell'[v].recv = [p \in PortsOf(s, v) |-> Mailbox("in", p, 1, 1)]
  <2>1. t.duplicate_ports = {} => Registered(t)
    BY <1>1, <1>6 DEF Deploying
  <2>2. Gains(t, d, s)
    BY <1>4, <1>5, <1>6, <1>8, <2>1, RegisterGains
  <2>3. /\ inputs = [p \in PortIds(t) |-> Mailbox("in", p, 1, 1)]
        /\ DOMAIN cell = Vertices(t)
        /\ \A v \in Vertices(t) : cell[v].recv = [p \in PortsOf(t, v) |-> Mailbox("in", p, 1, 1)]
    BY <1>1, <1>6, <2>2 DEF Deploying, Gains
  <2>4. inputs' = [p \in PortIds(s) |-> Mailbox("in", p, 1, 1)]
    <3>1. DOMAIN inputs' = PortIds(s)
      BY <1>5, <2>2, <2>3 DEF OrElse, Gains
    <3>2. \A p \in PortIds(s) : inputs'[p] = Mailbox("in", p, 1, 1)
      BY <1>5, <2>2, <2>3 DEF OrElse, Gains
    <3>3. inputs' = [p \in PortIds(s) |-> inputs'[p]]
      BY <1>5, <3>1 DEF OrElse
    <3>4. QED
      BY <3>2, <3>3
  <2>5. DOMAIN cell' = Vertices(s)
    BY <1>5, <2>2, <2>3 DEF OrElse, Gains
  <2>6. ASSUME NEW v \in Vertices(s)
        PROVE  cell'[v].recv = [p \in PortsOf(s, v) |-> Mailbox("in", p, 1, 1)]
    <3>1. CASE v \in Vertices(t)
      <4>1. cell'[v] = cell[v] /\ PortsOf(s, v) = PortsOf(t, v)
        BY <1>5, <2>2, <2>3, <3>1 DEF OrElse, Gains
      <4>2. QED
        BY <2>3, <3>1, <4>1
    <3>2. CASE v \notin Vertices(t)
      <4>1. v = d.ports[1] /\ PortsOf(s, v) = Range(d.ports)
        BY <2>2, <3>2 DEF Gains
      <4>2. cell'[v] = new
        BY <1>5, <2>3, <3>2, <4>1 DEF OrElse
      <4>3. QED
        BY <4>1, <4>2
    <3>3. QED
      BY <3>1, <3>2
  <2>7. QED
    BY <2>2, <2>4, <2>5, <2>6 DEF Gains
<1>9. Deploying'
  <2>1. window' = 0 /\ generated' = 0 /\ served' = <<>> /\ outputs' = <<>> /\ box' = <<>> /\ todo' = {}
    BY <1>1 DEF Spawn, Deploying
  <2>2. QED
    BY <1>3, <1>6, <1>7, <1>8, <2>1 DEF Deploying
<1>10. QED
  BY <1>1, <1>9 DEF IInv, Spawn, Drivers

LEMMA FinalizeKeeps ==
  ASSUME IInv, Finalize PROVE IInv'
<1>1. phase = "deploy" /\ Deploying
  BY DEF Finalize, IInv
<1>2. PICK t, L : t = topology /\ L = Limit
  OBVIOUS
<1>3. topology' = t /\ Limit' = L /\ L \in Nat \ {0}
  BY <1>2, LimitIsPositive DEF Finalize, Limit
<1>4. CASE ~Resolves(topology)
  BY <1>1, <1>4 DEF Finalize, IInv, Drivers
<1>5. CASE Resolves(topology)
  <2>1. phase' = "begin" /\ UNCHANGED <<program, graph, topology, window, inputs, generated, outputs, served, todo, box, cell>>
    BY <1>5 DEF Finalize
  <2>2. topology.duplicate_ports = {} /\ Compiled(t)
    BY <1>1, <1>2, <1>5 DEF Resolves, Deploying, Compiled
  <2>3. Mail(t, L, 0, box)
    BY <1>1 DEF Deploying, Mail
  <2>4. Loops(t, L, 0, cell)
    <3>1. ASSUME NEW v \in Vertices(t) PROVE Loop(t, L, 0, v, cell[v])
      <4>1. cell[v].recv = [p \in PortsOf(t, v) |-> Mailbox("in", p, 1, 1)]
        BY <1>1, <1>2, <2>2 DEF Deploying
      <4>2. 1 \in 1..(0 + 1) /\ 1 \in 1..L
        BY <1>3
      <4>3. Waiting(t, L, 0, v, cell[v])
        BY <4>1, <4>2 DEF Waiting
      <4>4. cell[v].at \in {"starting", "waiting", "dead"} /\ Whole(cell[v])
        BY <1>1, <1>2, <2>2 DEF Deploying
      <4>5. QED
        BY <4>3, <4>4 DEF Loop
    <3>2. QED
      BY <1>1, <1>2, <2>2, <3>1 DEF Deploying, Loops
  <2>5. Len(served) = 0 /\ served = Row(t, 0, 0)
    BY <1>1, RowEmpty DEF Deploying
  <2>6. window = 0 /\ generated = 0 /\ outputs = <<>> /\ todo = {} /\ 0 * L = 0
        /\ inputs = [p \in PortIds(t) |-> Mailbox("in", p, 1, 1)]
    BY <1>1, <1>2, <1>3, <2>2 DEF Deploying
  <2>7. BetweenWindows'
    <3>1. window' = 0 /\ window' + 1 = 1
      BY <2>1, <2>6
    <3>2. inputs' = [p \in PortIds(t) |-> Mailbox("in", p, window' + 1, 1)]
      BY <2>1, <2>6, <3>1
    <3>3. generated' = window' * L /\ Len(served') = window' * L /\ outputs' = <<>>
      BY <2>1, <2>5, <2>6, <3>1
    <3>4. QED
      BY <1>3, <3>2, <3>3 DEF BetweenWindows, At
  <2>8. Served'
    <3>1. Len(served') = 0 /\ served' = Row(t, 0, 0)
      BY <2>1, <2>5
    <3>2. QED
      BY <1>3, <3>1 DEF Served
  <2>9. (Mail(topology, Limit, window, box) /\ Uploads(topology, Limit, window, todo)
         /\ Loops(topology, Limit, window, cell))'
    BY <1>3, <2>1, <2>3, <2>4, <2>6 DEF Uploads
  <2>10. Serving'
    BY <1>3, <2>1, <2>2, <2>6, <2>7, <2>8, <2>9 DEF Serving
  <2>11. QED
    BY <2>1, <2>10 DEF IInv
<1>6. QED
  BY <1>4, <1>5

\* A step that leaves the mailboxes and the vertices where they are.
Standing ==
  UNCHANGED <<graphVars, box, cell>>

LEMMA StandingKeeps ==
  ASSUME IInv, phase \in Drivers, Standing, window' = window, Served', Uploads(topology, Limit, window, todo)',
         (phase \notin {"seeding", "forwarding"} => todo = {})',
         (phase = "begin" => BetweenWindows)', (phase = "collect" => Collecting)',
         (phase \notin {"begin", "collect"} => Progress /\ Stage)', phase' # "deploy", generated' \in Nat
  PROVE  IInv'
<1>1. Serving
  BY DEF IInv
<1>2. topology' = topology /\ Limit' = Limit
  BY DEF Standing, Limit
<1>3. Serving'
  BY <1>1, <1>2 DEF Serving, Standing
<1>4. QED
  BY <1>3 DEF IInv, Standing

LEMMA BeginKeeps ==
  ASSUME IInv, Begin PROVE IInv'
<1>1. phase = "begin" /\ phase' = "collect" /\ window' = window + 1 /\ collected' = <<>> /\ outputs' = <<>>
      /\ Standing /\ UNCHANGED <<inputs, generated, served, todo>>
  BY DEF Begin, Standing
<1>2. Serving /\ BetweenWindows /\ todo = {}
  BY <1>1 DEF IInv, Serving, Drivers
<1>3. PICK t, L, n : t = topology /\ L = Limit /\ n = window
  OBVIOUS
<1>4. topology' = t /\ Limit' = L /\ L \in Nat \ {0} /\ n \in Nat /\ window' = n + 1
  BY <1>1, <1>3, LimitIsPositive DEF Standing, Limit, IInv
<1>5. (n + 1) - 1 = n /\ n * L \in Nat /\ Len(<<>>) = 0
  BY <1>4, WindowsAddUp
<1>6. Base' = n * L
  BY <1>4, <1>5 DEF Base
<1>7. Collecting'
  <2>1. <<>> = [i \in 1..0 |-> Input(n * L + i)]
    OBVIOUS
  <2>2. generated' = n * L /\ Len(served') = n * L /\ inputs' = [p \in PortIds(t) |-> Mailbox("in", p, n + 1, 1)]
    BY <1>1, <1>2, <1>3 DEF BetweenWindows, At
  <2>3. 0 \in 0..L /\ n + 1 > 0 /\ n * L + 0 = n * L
    BY <1>4, <1>5
  <2>4. QED
    BY <1>1, <1>4, <1>5, <1>6, <2>1, <2>2, <2>3 DEF Collecting, At
<1>8. Mail(t, L, n + 1, box) /\ Loops(t, L, n + 1, cell)
  <2>1. Mail(t, L, n, box) /\ Loops(t, L, n, cell)
    BY <1>2, <1>3 DEF Serving
  <2>2. QED
    BY <1>4, <2>1, FitsLater, LoopLater DEF Mail, Loops
<1>9. Served' /\ Compiled(t)
  BY <1>1, <1>2, <1>3, <1>4 DEF Serving, Served
<1>10. (Mail(topology, Limit, window, box) /\ Uploads(topology, Limit, window, todo)
        /\ Loops(topology, Limit, window, cell))'
  BY <1>1, <1>2, <1>4, <1>8 DEF Uploads, Standing
<1>11. Serving'
  BY <1>1, <1>2, <1>4, <1>7, <1>9, <1>10 DEF Serving
<1>12. QED
  BY <1>1, <1>4, <1>11 DEF IInv, Standing

LEMMA CollectKeeps ==
  ASSUME IInv, Collect PROVE IInv'
<1>1. phase = "collect" /\ phase' = "collect" /\ Len(collected) < Limit /\ generated' = generated + 1
      /\ collected' = Append(collected, Input(generated + 1))
      /\ Standing /\ UNCHANGED <<window, inputs, outputs, served, todo>>
  BY DEF Collect, Standing
<1>2. Serving /\ Collecting /\ todo = {}
  BY <1>1 DEF IInv, Serving, Drivers
<1>3. PICK t, L, b, m : t = topology /\ L = Limit /\ b = Base /\ m = Len(collected)
  OBVIOUS
<1>4. topology' = t /\ Limit' = L /\ Base' = b /\ L \in Nat \ {0} /\ m \in 0..L /\ m < L
  BY <1>1, <1>2, <1>3, LimitIsPositive DEF Standing, Limit, Base, Collecting
<1>5. b \in Nat /\ window \in Nat
  BY <1>2, <1>3, <1>4, WindowsAddUp DEF Collecting, Base, IInv
<1>6. collected = [i \in 1..m |-> Input(b + i)] /\ generated = b + m
  BY <1>2, <1>3 DEF Collecting
<1>7. collected' = [i \in 1..(m + 1) |-> Input(b + i)] /\ Len(collected') = m + 1
  <2>1. collected \in Seq({Input(k) : k \in Nat})
    <3>1. \A i \in 1..m : b + i \in Nat
      BY <1>4, <1>5
    <3>2. collected \in [1..m -> {Input(k) : k \in Nat}]
      BY <1>6, <3>1
    <3>3. QED
      BY <1>4, <3>2, SeqDef
  <2> DEFINE S == {Input(k) : k \in Nat}
             x == Input(generated + 1)
  <2>2. x \in S /\ x = Input(b + (m + 1))
    BY <1>4, <1>5, <1>6
  <2> HIDE DEF S, x
  <2>3. /\ Append(collected, x) \in Seq(S) /\ Len(Append(collected, x)) = m + 1
        /\ \A i \in 1..m : Append(collected, x)[i] = collected[i]
        /\ Append(collected, x)[m + 1] = x
    BY <1>3, <2>1, <2>2, AppendProperties DEF S
  <2>4. PICK a : a = Append(collected, x)
    OBVIOUS
  <2>5. a = [i \in 1..(m + 1) |-> a[i]]
    BY <2>3, <2>4, LenProperties
  <2>6. \A i \in 1..(m + 1) : a[i] = Input(b + i)
    BY <1>4, <1>6, <2>2, <2>3, <2>4
  <2>7. a = [i \in 1..(m + 1) |-> Input(b + i)]
    BY <2>5, <2>6
  <2>8. QED
    BY <1>1, <2>3, <2>4, <2>7 DEF x
<1>8. Collecting'
  <2>1. m + 1 \in 0..L /\ generated' = b + (m + 1) /\ Len(served') = b /\ outputs' = <<>>
    BY <1>1, <1>2, <1>3, <1>4, <1>5, <1>6 DEF Collecting
  <2>2. At(window)' /\ window' > 0
    BY <1>1, <1>2, <1>3, <1>4 DEF Collecting, At
  <2>3. QED
    BY <1>4, <1>7, <2>1, <2>2 DEF Collecting
<1>9. Served' /\ Uploads(topology, Limit, window, todo)'
  BY <1>1, <1>2, <1>3, <1>4 DEF Serving, Served, Uploads
<1>10. generated' \in Nat
  BY <1>1 DEF IInv
<1>11. QED
  BY <1>1, <1>2, <1>8, <1>9, <1>10, StandingKeeps DEF Drivers

LEMMA WindowLength ==
  ASSUME NEW L \in Nat, NEW b \in Nat, NEW s, s = [i \in 1..L |-> Input(b + i)]
  PROVE  Len(s) = L
<1>1. PICK S : S = {s[i] : i \in 1..L}
  OBVIOUS
<1>2. s \in Seq(S) /\ DOMAIN s = 1..L
  <2>1. s \in [1..L -> S]
    BY <1>1
  <2>2. QED
    BY <2>1
<1>3. QED
  BY <1>2

LEMMA SomeWork ==
  ASSUME NEW t, Compiled(t), NEW L \in Nat \ {0}
  PROVE  0 < Cardinality(Vertices(t)) * L
<1>1. IsFiniteSet(Vertices(t)) /\ Vertices(t) # {}
  BY DEF Compiled, Registered, Resolves
<1>2. PICK n : n = Cardinality(Vertices(t))
  OBVIOUS
<1>3. n \in Nat /\ n # 0
  BY <1>1, <1>2, FS_CardinalityType, FS_EmptySet
<1>4. PICK m \in Nat : n = m + 1
  <2>1. n - 1 \in Nat /\ n = (n - 1) + 1
    BY <1>3
  <2>2. QED
    BY <2>1
<1>5. m * L \in Nat /\ n * L = m * L + L
  BY <1>4, WindowsAddUp
<1>6. QED
  BY <1>2, <1>5

LEMMA BaseIsNatural ==
  ASSUME IInv, window > 0
  PROVE  Base \in Nat /\ Base + Limit = window * Limit /\ (generated = Base + Limit => generated \in Nat)
BY LimitIsPositive, WindowsAddUp DEF IInv, Base

LEMMA PrepareKeeps ==
  ASSUME IInv, Prepare PROVE IInv'
<1>1. /\ phase = "collect" /\ Len(collected) = Limit
      /\ completed' = [v \in Vertices(topology) |-> 0] /\ completions' = 0
      /\ frontier' = Frontier(topology) /\ phase' \in {"seed", "failed"}
      /\ Standing /\ UNCHANGED <<window, collected, inputs, generated, outputs, served, todo>>
  BY DEF Prepare, Standing
<1>2. Serving /\ Collecting /\ todo = {} /\ Served /\ Compiled(topology)
  BY <1>1 DEF IInv, Serving, Drivers
<1>3. PICK t, L, b : t = topology /\ L = Limit /\ b = Base
  OBVIOUS
<1>4. topology' = t /\ Limit' = L /\ Base' = b /\ L \in Nat \ {0} /\ program' = program
  BY <1>1, <1>3, LimitIsPositive DEF Standing, Limit, Base
<1>5. b \in Nat /\ window \in Nat /\ generated \in Nat
  BY <1>2, <1>3, BaseIsNatural DEF Collecting, IInv
<1>6. /\ collected = [i \in 1..L |-> Input(b + i)] /\ generated = b + L /\ Len(served) = b
      /\ outputs = <<>> /\ inputs = [p \in PortIds(t) |-> Mailbox("in", p, window, 1)] /\ window > 0
  BY <1>1, <1>2, <1>3 DEF Collecting, At
<1>7. completed' = [v \in Vertices(t) |-> 0] /\ frontier' = Frontier(t)
  BY <1>1, <1>3
<1>8. FrontierFits(t, frontier') /\ DOMAIN frontier'.pending # {}
  BY <1>2, <1>3, <1>7, FrontierBegins
<1>9. Unfinished'
  <2>1. 0 < Cardinality(Vertices(t)) * L /\ Len(collected') = L
    BY <1>1, <1>2, <1>3, <1>4, SomeWork
  <2>2. QED
    BY <1>1, <1>4, <1>8, <2>1 DEF Unfinished, Pending
<1>10. CASE phase' = "failed"
  BY <1>1, <1>5, <1>10 DEF IInv, Drivers, Standing
<1>11. CASE phase' = "seed"
  <2>1. CASE program = "pass"
    <3>1. Passing'
      BY <1>1, <1>4, <1>6, <1>7, <1>8, <1>9 DEF Passing
    <3>2. QED
      <4>1. Progress'
        BY <1>1, <1>4, <1>6, <2>1, <3>1 DEF Progress
      <4>2. Stage'
        BY <1>1, <1>4, <1>6, <1>9, <1>11 DEF Stage, At
      <4>3. Served' /\ Uploads(topology, Limit, window, todo)'
        BY <1>1, <1>2, <1>3, <1>4 DEF Served, Uploads
      <4>4. QED
        BY <1>1, <1>2, <1>5, <1>11, <4>1, <4>2, <4>3, StandingKeeps DEF Drivers
  <2>2. CASE program # "pass"
    <3>1. completed' \in [Vertices(t) -> 0..L]
      BY <1>4, <1>7
    <3>2. Cardinality(Done(t, L, completed')) = 0
      BY <1>4, <1>7, NoneDone
    <3>3. Len(outputs') = 0 /\ outputs' = Row(t, b, 0)
      BY <1>1, <1>6, RowEmpty
    <3>4. completed'[Sink(t)] = 0
      BY <1>2, <1>3, <1>7, SinkSeesAll
    <3>5. Windowed'
      <4>1. Queued'
        BY <1>1, <1>4, <1>6, <3>3 DEF Queued
      <4>2. Len(served') + Len(outputs') = b + completed'[Sink(t)]
        BY <1>1, <1>5, <1>6, <3>3, <3>4
      <4>3. QED
        BY <1>1, <1>4, <3>1, <3>2, <4>1, <4>2 DEF Windowed
    <3>6. Progress'
      BY <1>1, <1>4, <1>6, <2>2, <3>5 DEF Progress
    <3>7. Stage'
      BY <1>1, <1>4, <1>6, <1>9, <1>11 DEF Stage, At
    <3>8. Served' /\ Uploads(topology, Limit, window, todo)'
      BY <1>1, <1>2, <1>3, <1>4 DEF Served, Uploads
    <3>9. QED
      BY <1>1, <1>2, <1>5, <1>11, <3>6, <3>7, <3>8, StandingKeeps DEF Drivers
  <2>3. QED
    BY <2>1, <2>2
<1>12. QED
  BY <1>1, <1>10, <1>11

\* The input a vertex is at is one of the window's.
LEMMA TaskInWindow ==
  ASSUME IInv, Progress, NEW v \in Vertices(topology), HasTask(v)
  PROVE  /\ Task(v) \in 1..Limit /\ completed[v] \in 0..(Limit - 1) /\ Task(v) = completed[v] + 1
         /\ Len(collected) = Limit
<1>1. Limit \in Nat \ {0} /\ Base \in Nat
  BY LimitIsPositive, BaseIsNatural DEF Progress
<1>2. Len(collected) = Limit
  BY <1>1, WindowLength DEF Progress
<1>3. completed[v] \in 0..Limit
  BY <1>1 DEF Progress, Passing, Windowed
<1>4. QED
  BY <1>1, <1>2, <1>3 DEF HasTask, Task

\* What is sent to a port fits it, when it passed what the port is fed.
LEMMA SendFits ==
  ASSUME IInv, Progress, Compiled(topology), At(window),
         NEW p \in PortIds(topology), NEW i \in 1..Limit, NEW emission,
         emission = Emission(Limit, window, i, FedBy(topology, p)), NEW s, s = Send(p, i, emission)
  PROVE  Fits(topology, Limit, window, s.to, s.delivery)
<1>1. Limit \in Nat \ {0} /\ Base \in Nat /\ window \in Nat /\ window > 0
  BY LimitIsPositive, BaseIsNatural DEF Progress, IInv
<1>2. Len(collected) = Limit
  BY <1>1, WindowLength DEF Progress
<1>3. InputId(p, i) = Mailbox("in", p, window, i)
  BY DEF InputId, At
<1>4. AfterId(p, i) = After(Limit, p, window, i)
  <2>1. CASE i < Limit
    <3>1. i + 1 # 1
      BY <1>1
    <3>2. QED
      BY <1>2, <2>1, <3>1 DEF AfterId, After, InputId
  <2>2. CASE ~(i < Limit)
    BY <1>2, <2>2 DEF AfterId, After
  <2>3. QED
    BY <2>1, <2>2
<1>5. s.to = Mailbox("in", p, window, i) /\ s.delivery = InputOf(topology, Limit, p, window, i)
  BY <1>3, <1>4 DEF Send, InputOf, OutputId
<1>6. window \in 1..window
  BY <1>1
<1>7. QED
  BY <1>5, <1>6 DEF Fits, InputFits

\* Steps that only move uploads leave the progress of the window alone.
Sending ==
  UNCHANGED <<graphVars, window, collected, completed, completions, frontier, inputs, generated, outputs, served>>

LEMMA SendingProgresses ==
  ASSUME Sending
  PROVE  /\ Limit' = Limit /\ topology' = topology /\ window' = window /\ generated' = generated
         /\ Unfinished' = Unfinished
         /\ Progress => Progress'
         /\ Served => Served'
         /\ \A w : At(w) => At(w)'
<1>1. /\ program' = program /\ topology' = topology /\ window' = window /\ collected' = collected
      /\ completed' = completed /\ completions' = completions /\ frontier' = frontier /\ inputs' = inputs
      /\ generated' = generated /\ outputs' = outputs /\ served' = served
  BY DEF Sending
<1>2. Limit' = Limit /\ Base' = Base
  BY <1>1 DEF Limit, Base
<1>3. Unfinished' = Unfinished
  BY <1>1 DEF Unfinished, Pending
<1>4. Windowed => Windowed'
  BY <1>1, <1>2 DEF Windowed, Queued
<1>5. Passing => Passing'
  BY <1>1, <1>2, <1>3 DEF Passing
<1>6. Progress => Progress'
  BY <1>1, <1>2, <1>4, <1>5 DEF Progress
<1>7. Served => Served'
  BY <1>1 DEF Served
<1>8. \A w : At(w) => At(w)'
  BY <1>1 DEF At
<1>9. QED
  BY <1>1, <1>2, <1>3, <1>6, <1>7, <1>8

LEMMA SeedRootsKeeps ==
  ASSUME IInv, SeedRoots PROVE IInv'
<1>1. /\ phase = "seed" /\ phase' = "seeding" /\ Sending /\ Standing
      /\ todo' = UNION {{Send(p, Task(v), collected[Task(v)]) : p \in PortsOf(topology, v)} : v \in Unseeded}
  BY DEF SeedRoots, Sending, Standing
<1>2. Serving /\ Progress /\ Stage /\ Served /\ Compiled(topology) /\ Unfinished /\ At(window)
  BY <1>1 DEF IInv, Serving, Drivers, Stage
<1>3. ASSUME NEW v \in Unseeded, NEW p \in PortsOf(topology, v), NEW s, s = Send(p, Task(v), collected[Task(v)])
      PROVE  Fits(topology, Limit, window, s.to, s.delivery)
  <2>1. v \in Roots(topology) /\ v \in Vertices(topology) /\ HasTask(v)
    BY DEF Unseeded, Roots
  <2>2. Task(v) \in 1..Limit
    BY <1>2, <2>1, TaskInWindow
  <2>3. collected[Task(v)] = Input(Base + Task(v))
    BY <1>2, <2>2 DEF Progress
  <2>4. FedBy(topology, p) = {}
    BY <1>2, <2>1, RootsUnfed
  <2>5. collected[Task(v)] = Emission(Limit, window, Task(v), FedBy(topology, p))
    BY <2>3, <2>4 DEF Input, Emission, Base
  <2>6. p \in PortIds(topology)
    BY <1>2, <2>1 DEF Compiled, Registered
  <2>7. QED
    BY <1>2, <1>3, <2>2, <2>5, <2>6, SendFits
<1>4. Uploads(topology, Limit, window, todo')
  BY <1>1, <1>3 DEF Uploads
<1>5. Uploads(topology, Limit, window, todo)'
  BY <1>1, <1>4, SendingProgresses
<1>6. Stage'
  <2>1. At(window)'
    BY <1>1, <1>2, SendingProgresses DEF At
  <2>2. QED
    BY <1>1, <1>2, <2>1, SendingProgresses DEF Stage
<1>7. Progress' /\ Served' /\ window' = window /\ generated' \in Nat
  BY <1>1, <1>2, SendingProgresses DEF IInv
<1>8. QED
  BY <1>1, <1>5, <1>6, <1>7, StandingKeeps DEF Drivers

LEMMA RootsSeededKeeps ==
  ASSUME IInv, RootsSeeded PROVE IInv'
<1>1. phase = "seeding" /\ phase' = "wait" /\ todo = {} /\ todo' = {} /\ Sending /\ Standing
  BY DEF RootsSeeded, Sending, Standing
<1>2. Serving /\ Progress /\ Stage /\ Served /\ Unfinished /\ At(window)
  BY <1>1 DEF IInv, Serving, Drivers, Stage
<1>3. Uploads(topology, Limit, window, todo)'
  BY <1>1 DEF Uploads
<1>4. Stage'
  <2>1. At(window)'
    BY <1>1, <1>2, SendingProgresses DEF At
  <2>2. QED
    BY <1>1, <1>2, <2>1, SendingProgresses DEF Stage
<1>5. Progress' /\ Served' /\ window' = window /\ generated' \in Nat
  BY <1>1, <1>2, SendingProgresses DEF IInv
<1>6. QED
  BY <1>1, <1>3, <1>4, <1>5, StandingKeeps DEF Drivers

\* The output of a vertex that has one for its input.
LEMMA OutputTaken ==
  ASSUME IInv, Serving, Progress, NEW v \in Vertices(topology), HasTask(v), OutputId(v, Task(v)) \in DOMAIN box
  PROVE  box[OutputId(v, Task(v))].emission = Emission(Limit, window, Task(v), Upstream(topology, v))
<1>1. Mail(topology, Limit, window, box)
  BY DEF Serving
<1>2. box[OutputId(v, Task(v))] = OutputOf(topology, Limit, v, window, Task(v))
  BY <1>1, OutputFound DEF OutputId
<1>3. QED
  BY <1>2 DEF OutputOf

LEMMA TakeOutputKeeps ==
  ASSUME IInv, TakeOutput PROVE IInv'
<1>1. phase = "wait" /\ Sending /\ Standing
  BY DEF TakeOutput, Sending, Standing
<1>2. Serving /\ Progress /\ Stage /\ Served /\ Compiled(topology) /\ Unfinished /\ At(window) /\ todo = {}
  BY <1>1 DEF IInv, Serving, Drivers, Stage
<1>3. Progress' /\ Served' /\ window' = window /\ generated' \in Nat /\ At(window)'
  BY <1>1, <1>2, SendingProgresses DEF IInv, At
<1>4. CASE phase' = "failed"
  BY <1>1, <1>3, <1>4 DEF IInv, Drivers, Standing
<1>5. ASSUME NEW v \in Vertices(topology), Ready(v), OutputId(v, Task(v)) \in DOMAIN box, taken' = v,
             todo' = {Send(PortOf(topology, e), Task(v), box[OutputId(v, Task(v))].emission) : e \in Outgoing(topology, v)},
             phase' = "forwarding"
      PROVE  IInv'
  <2>1. HasTask(v)
    <3>1. CASE program = "pass"
      <4>1. completed[v] = 0
        BY <1>2, <3>1 DEF Progress, Passing
      <4>2. Len(collected) = Limit
        <5>1. Limit \in Nat /\ Base \in Nat
          BY <1>2, LimitIsPositive, BaseIsNatural DEF Progress
        <5>2. QED
          BY <1>2, <5>1, WindowLength DEF Progress
      <4>3. QED
        BY <4>1, <4>2, LimitIsPositive DEF HasTask
    <3>2. CASE program # "pass"
      BY <1>5, <3>2 DEF Ready
    <3>3. QED
      BY <3>1, <3>2
  <2>2. Task(v) \in 1..Limit
    BY <1>2, <2>1, TaskInWindow
  <2>3. box[OutputId(v, Task(v))].emission = Emission(Limit, window, Task(v), Upstream(topology, v))
    BY <1>2, <1>5, <2>1, OutputTaken
  <2>4. ASSUME NEW e \in Outgoing(topology, v), NEW s,
               s = Send(PortOf(topology, e), Task(v), box[OutputId(v, Task(v))].emission)
        PROVE  Fits(topology, Limit, window, s.to, s.delivery)
    <3>1. e \in Edges(topology) /\ e[1] = v
      BY DEF Edges, Outgoing
    <3>2. PortOf(topology, e) \in PortIds(topology)
      BY <1>2, <3>1, EdgesLead
    <3>3. FedBy(topology, PortOf(topology, e)) = Upstream(topology, v)
      BY <1>2, <3>1, FedByOne
    <3>4. QED
      BY <1>2, <2>2, <2>3, <2>4, <3>2, <3>3, SendFits
  <2>5. Uploads(topology, Limit, window, todo')
    BY <1>5, <2>4 DEF Uploads
  <2>6. Uploads(topology, Limit, window, todo)'
    BY <1>1, <2>5, SendingProgresses
  <2>7. Stage'
    <3>1. HasTask(v)' /\ (OutputId(v, Task(v)) \in DOMAIN box)' /\ v \in Vertices(topology')
      BY <1>1, <1>5, <2>1 DEF Sending, Standing, HasTask, OutputId, Task
    <3>2. Unfinished'
      BY <1>1, <1>2, SendingProgresses
    <3>3. taken' \in Vertices(topology') /\ (HasTask(taken) /\ OutputId(taken, Task(taken)) \in DOMAIN box)'
      BY <1>5, <3>1 DEF HasTask, OutputId, Task
    <3>4. QED
      BY <1>3, <1>5, <3>2, <3>3 DEF Stage
  <2>8. QED
    BY <1>1, <1>3, <1>5, <2>6, <2>7, StandingKeeps DEF Drivers
<1>6. QED
  BY <1>4, <1>5 DEF TakeOutput

LEMMA SendsOneKeeps ==
  ASSUME IInv, SendsOne PROVE IInv'
<1>1. PICK s \in todo :
        /\ phase \in {"seeding", "forwarding"} /\ todo' = todo \ {s}
        /\ Uploaded(s.to, s.delivery) \/ box' = box
        /\ phase' = phase \/ phase' = "stopped"
        /\ UNCHANGED <<graphVars, windowVars, inputs, generated, outputs, served, taken, cell>>
  BY DEF SendsOne, UploadFails
<1>2. Sending /\ UNCHANGED <<topology, program, graph, taken, cell>>
  BY <1>1 DEF Sending
<1>3. Serving /\ Progress /\ Stage /\ Served /\ Compiled(topology) /\ Unfinished /\ At(window)
  BY <1>1 DEF IInv, Serving, Drivers, Stage
<1>4. Mail(topology, Limit, window, box') /\ DOMAIN box \subseteq DOMAIN box'
  <2>1. Mail(topology, Limit, window, box) /\ Fits(topology, Limit, window, s.to, s.delivery)
    BY <1>1, <1>3 DEF Serving, Uploads
  <2>2. CASE box' = box
    BY <2>1, <2>2
  <2>3. CASE Uploaded(s.to, s.delivery)
    <3>1. PICK f : f = [m \in {s.to} |-> s.delivery] /\ box' = OrElse(box, f)
      BY <2>3 DEF Uploaded
    <3>2. DOMAIN f = {s.to} /\ f[s.to] = s.delivery
      BY <3>1
    <3>3. Mail(topology, Limit, window, OrElse(box, f))
      BY <2>1, <3>2, MailGrows
    <3>4. DOMAIN box \subseteq DOMAIN box'
      BY <3>1 DEF OrElse
    <3>5. QED
      BY <3>1, <3>3, <3>4
  <2>4. QED
    BY <1>1, <2>2, <2>3
<1>5. Uploads(topology, Limit, window, todo') /\ Loops(topology, Limit, window, cell)
  BY <1>1, <1>3 DEF Serving, Uploads
<1>6. CASE phase' = "stopped"
  BY <1>2, <1>6 DEF IInv, Sending, Drivers
<1>7. CASE phase' = phase
  <2>1. Stage'
    <3>1. At(window)'
      BY <1>2, <1>3, SendingProgresses DEF At
    <3>2. HasTask(taken)' <=> HasTask(taken)
      BY <1>2 DEF Sending, HasTask
    <3>3. OutputId(taken, Task(taken))' = OutputId(taken, Task(taken))
      BY <1>2 DEF Sending, OutputId, Task
    <3>4. (phase = "forwarding" => taken \in Vertices(topology) /\ HasTask(taken)
                                   /\ OutputId(taken, Task(taken)) \in DOMAIN box)'
      BY <1>2, <1>3, <1>4, <1>7, <3>2, <3>3 DEF Stage
    <3>5. QED
      BY <1>1, <1>2, <1>3, <1>7, <3>1, <3>4, SendingProgresses DEF Stage
  <2>2. Limit' = Limit /\ topology' = topology /\ window' = window /\ Progress' /\ Served'
    BY <1>2, <1>3, SendingProgresses
  <2>3. Serving'
    BY <1>1, <1>2, <1>3, <1>4, <1>5, <1>7, <2>1, <2>2 DEF Serving
  <2>4. QED
    BY <1>1, <1>2, <1>7, <2>3 DEF IInv, Sending
<1>8. QED
  BY <1>1, <1>6, <1>7

LEMMA WindowSettled ==
  ASSUME NEW t, Compiled(t), NEW L \in Nat \ {0}, NEW c \in [Vertices(t) -> 0..L],
         ~(Cardinality(Done(t, L, c)) < Cardinality(Vertices(t)) * L)
  PROVE  c[Sink(t)] = L
BY SinkSeesAll, AllDone DEF Compiled, Registered

LEMMA RowOfOne ==
  ASSUME NEW t, NEW b PROVE Row(t, b, 1) = <<Outcome(t, b + 1)>>
<1> DEFINE r == Row(t, b, 1)
<1>1. r = [k \in 1..1 |-> r[k]] /\ r[1] = Outcome(t, b + 1)
  BY DEF Row
<1> HIDE DEF r
<1>2. r = <<Outcome(t, b + 1)>>
  BY <1>1
<1>3. QED
  BY <1>2 DEF r

\* Steps that complete a vertex or serve an output stay in the window.
Within == UNCHANGED <<program, topology, window, collected, generated>>

\* The driver goes on with the window, or is done with it.
LEMMA GoesOn ==
  ASSUME IInv, Serving, Progress, phase \in Drivers, Standing, Within, todo' = {}, Served',
         IF program = "pass" THEN Passing' ELSE Windowed',
         At(IF Unfinished THEN window ELSE window + 1)',
         phase' = Continue(Unfinished', outputs'),
         Unfinished' \/ outputs' # <<>> \/ Len(served') = window * Limit
  PROVE  IInv'
<1>1. Limit' = Limit /\ Base' = Base
  BY DEF Within, Limit, Base
<1>2. Progress'
  BY <1>1 DEF Progress, Within
<1>3. window > 0 /\ window \in Nat /\ Limit \in Nat \ {0} /\ generated' = window * Limit /\ generated' \in Nat
  BY LimitIsPositive, BaseIsNatural DEF Progress, IInv, Within
<1>4. CASE phase' = "begin"
  <2>1. outputs' = <<>> /\ ~Unfinished'
    BY <1>4 DEF Continue
  <2>2. At(window + 1)'
    BY <2>1 DEF At
  <2>3. BetweenWindows'
    BY <1>1, <1>3, <1>4, <2>1, <2>2 DEF BetweenWindows, Within
  <2>4. QED
    BY <1>3, <1>4, <2>3, StandingKeeps DEF Uploads, Within
<1>5. CASE phase' # "begin"
  <2>1. phase' \in {"drain", "wait", "seed"}
    BY <1>5 DEF Continue
  <2>2. /\ phase' # "drain" => Unfinished'
        /\ phase' = "drain" => outputs' # <<>> /\ (program' = "policy" \/ ~Unfinished')
    BY <1>5 DEF Continue, Within
  <2>3. Stage'
    BY <2>1, <2>2 DEF Stage
  <2>4. QED
    BY <1>2, <1>3, <2>1, <2>3, StandingKeeps DEF Uploads, Within
<1>6. QED
  BY <1>4, <1>5

LEMMA OutputForwardedKeeps ==
  ASSUME IInv, OutputForwarded PROVE IInv'
<1>1. /\ phase = "forwarding" /\ todo = {} /\ todo' = {} /\ Standing
      /\ UNCHANGED <<generated, served, taken, window, collected>>
  BY DEF OutputForwarded, Standing
<1>2. Serving /\ Progress /\ Stage /\ Served /\ Compiled(topology) /\ Unfinished /\ At(window)
  BY <1>1 DEF IInv, Serving, Drivers, Stage
<1>3. PICK t, L, b, v, i, n : t = topology /\ L = Limit /\ b = Base /\ v = taken /\ i = Task(taken) /\ n = window
  OBVIOUS
<1> DEFINE emission == box[OutputId(taken, Task(taken))].emission
<1>4. v \in Vertices(t) /\ HasTask(v) /\ OutputId(v, Task(v)) \in DOMAIN box
  BY <1>1, <1>2, <1>3 DEF Stage
<1>5. /\ i \in 1..L /\ completed[v] \in 0..(L - 1) /\ i = completed[v] + 1 /\ Len(collected) = L
  BY <1>2, <1>3, <1>4, TaskInWindow
<1>6. emission = Emission(L, n, i, Upstream(t, v))
  BY <1>2, <1>3, <1>4, OutputTaken
<1>7. /\ topology' = t /\ Limit' = L /\ Base' = b /\ program' = program /\ window' = n /\ Within
      /\ L \in Nat \ {0} /\ b \in Nat /\ n \in Nat /\ n > 0 /\ b + L = n * L
  BY <1>1, <1>2, <1>3, LimitIsPositive, BaseIsNatural DEF Standing, Within, Limit, Base, IInv, Progress
<1>8. v = Sink(t) => emission = Outcome(t, b + i)
  <2>1. v = Sink(t) => Upstream(t, v) = Vertices(t)
    BY <1>2, <1>3, SinkSeesAll
  <2>2. b = (n - 1) * L
    BY <1>3 DEF Base
  <2> HIDE DEF emission
  <2>3. QED
    BY <1>6, <2>1, <2>2 DEF Emission, Outcome
<1>9. Served' /\ generated' \in Nat
  BY <1>1, <1>2, <1>3, <1>7 DEF Served, IInv
<1>10. CASE program = "pass" /\ ~CanAdvance(frontier, topology, taken)
  <2>1. phase' = "failed"
    BY <1>10 DEF OutputForwarded
  <2>2. QED
    BY <1>1, <1>7, <1>9, <2>1 DEF IInv, Drivers, Standing
<1>11. CASE ~(program = "pass" /\ ~CanAdvance(frontier, topology, taken))
  <2>1. /\ completed' = IF program = "pass" THEN completed ELSE [completed EXCEPT ![taken] = @ + 1]
        /\ completions' = completions + 1
        /\ frontier' = IF program = "pass" THEN AdvanceFrontier(frontier, topology, taken) ELSE frontier
        /\ outputs' = NewOutputs(taken, emission)
        /\ inputs' = NextInputs(Pending(completions', frontier'))
        /\ phase' = Continue(Pending(completions', frontier'), outputs')
    BY <1>11 DEF OutputForwarded
  <2>2. Unfinished' = Pending(completions', frontier')
    BY <1>1, <1>3, <1>7 DEF Unfinished, Pending
  <2>3. At(IF Unfinished THEN window ELSE window + 1)'
    <3>1. inputs' = IF Unfinished' THEN inputs ELSE [p \in PortIds(topology) |-> Mailbox("in", p, window + 1, 1)]
      BY <2>1, <2>2 DEF NextInputs
    <3>2. CASE Unfinished'
      BY <1>1, <1>2, <1>3, <1>7, <3>1, <3>2 DEF At
    <3>3. CASE ~Unfinished'
      BY <1>1, <1>3, <1>7, <3>1, <3>3 DEF At
    <3>4. QED
      BY <3>2, <3>3
  <2>4. phase' = Continue(Unfinished', outputs')
    BY <2>1, <2>2
  <2>5. CASE program = "pass"
    <3>1. L = 1 /\ i = 1
      BY <1>3, <1>5, <2>5 DEF Limit
    <3>2. FrontierFits(t, frontier) /\ CanAdvance(frontier, t, v) /\ frontier' = AdvanceFrontier(frontier, t, v)
          /\ completed = [u \in Vertices(t) |-> 0] /\ Len(served) = b
      BY <1>2, <1>3, <1>11, <2>1, <2>5 DEF Progress, Passing
    <3>3. PICK g : g = frontier'
      OBVIOUS
    <3>4. FrontierFits(t, g) /\ (DOMAIN g.pending = {} => v = Sink(t))
      BY <1>2, <1>3, <3>2, <3>3, FrontierAdvances
    <3>5. outputs' = <<emission>>
      BY <2>1, <2>5 DEF NewOutputs
    <3>6. ~Unfinished' => outputs' = Row(t, b, 1)
      <4>1. ~Unfinished' => v = Sink(t)
        BY <2>2, <2>5, <3>3, <3>4 DEF Pending
      <4>2. QED
        BY <1>8, <3>1, <3>5, <4>1, RowOfOne
    <3>7. Passing'
      BY <1>1, <1>7, <2>1, <2>5, <3>2, <3>3, <3>4, <3>6 DEF Passing
    <3>8. outputs' # <<>>
      BY <3>5
    <3>9. QED
      BY <1>1, <1>2, <1>7, <1>9, <2>3, <2>4, <2>5, <3>7, <3>8, GoesOn DEF Drivers
  <2>6. CASE program # "pass"
    <3>1. /\ completed \in [Vertices(t) -> 0..L] /\ Cardinality(Done(t, L, completed)) = completions
          /\ Len(outputs) \in Nat /\ outputs = Row(t, Len(served), Len(outputs))
          /\ Len(served) + Len(outputs) = b + completed[Sink(t)] /\ Len(served) \in Nat
      BY <1>2, <1>3, <2>6 DEF Progress, Windowed, Queued, Served
    <3>2. completed' = [completed EXCEPT ![v] = @ + 1] /\ completed[v] < L
      BY <1>3, <1>5, <1>7, <2>1, <2>6
    <3>3. PICK c, d : c = completed /\ d = completed'
      OBVIOUS
    <3>4. d \in [Vertices(t) -> 0..L] /\ Cardinality(Done(t, L, d)) = Cardinality(Done(t, L, c)) + 1
      <4>1. IsFiniteSet(Vertices(t)) /\ L \in Nat
        BY <1>2, <1>3, <1>7 DEF Compiled, Registered
      <4>2. c \in [Vertices(t) -> 0..L] /\ c[v] < L /\ c[v] + 1 \in 0..L /\ d = [c EXCEPT ![v] = c[v] + 1]
        BY <1>5, <1>7, <3>1, <3>2, <3>3
      <4>3. d \in [Vertices(t) -> 0..L] /\ d[v] = c[v] + 1 /\ \A u \in Vertices(t) : u # v => d[u] = c[u]
        BY <1>4, <4>2
      <4>4. QED
        BY ZenonT(60), <1>4, <4>1, <4>2, <4>3, OneMoreDone
    <3>5. PICK m, k : m = Len(served) /\ k = Len(outputs)
      OBVIOUS
    <3>6. Sink(t) \in Vertices(t)
      BY <1>2, <1>3, SinkSeesAll
    <3>7. Len(outputs') \in Nat /\ outputs' = Row(t, m, Len(outputs')) /\ m + Len(outputs') = b + d[Sink(t)]
      <4>1. CASE v = Sink(t)
        <5>1. outputs' = Append(outputs, emission)
          BY <1>3, <2>1, <2>6, <4>1 DEF NewOutputs
        <5>2. emission = Outcome(t, m + k + 1)
          <6>1. b + i = m + k + 1
            <7>1. PICK y \in Nat : y = completed[v] /\ i = y + 1
              BY <1>5
            <7>2. m + k = b + y /\ m \in Nat /\ k \in Nat /\ b \in Nat
              BY <1>7, <3>1, <3>5, <4>1, <7>1
            <7>3. QED
              BY <7>1, <7>2
          <6>2. QED
            BY <1>8, <4>1, <6>1
        <5> HIDE DEF emission
        <5>3. outputs' = Row(t, m, k + 1)
          BY SMTT(40), <3>1, <3>5, <5>1, <5>2, RowAppend
        <5>4. k + 1 \in Nat /\ m \in Nat
          BY <3>1, <3>5
        <5>5. Len(outputs') = k + 1
          BY <5>3, <5>4, RowLength
        <5>6. d[Sink(t)] = c[Sink(t)] + 1
          BY <3>1, <3>2, <3>3, <3>6, <4>1
        <5>7. PICK x \in Nat : x = c[Sink(t)]
          <6>1. c[Sink(t)] \in 0..L
            BY <3>1, <3>3, <3>6
          <6>2. QED
            BY <1>7, <6>1
        <5>8. m + k = b + x
          BY <3>1, <3>3, <3>5, <5>7
        <5>9. k \in Nat /\ m \in Nat /\ b \in Nat
          BY <1>7, <3>1, <3>5
        <5>10. m + (k + 1) = b + (x + 1)
          BY <5>8, <5>9
        <5>11. QED
          BY <5>3, <5>4, <5>5, <5>6, <5>7, <5>10
      <4>2. CASE v # Sink(t)
        <5>1. outputs' = outputs
          BY <1>3, <2>1, <2>6, <4>2 DEF NewOutputs
        <5>2. d[Sink(t)] = c[Sink(t)]
          BY <3>1, <3>2, <3>3, <3>6, <4>2
        <5>3. QED
          BY <3>1, <3>3, <3>5, <5>1, <5>2
      <4>3. QED
        BY <4>1, <4>2
    <3>8. Windowed'
      <4>1. completions' = Cardinality(Done(t, L, d))
        BY <2>1, <3>1, <3>3, <3>4
      <4>2. Queued'
        BY <1>1, <1>7, <3>5, <3>7 DEF Queued
      <4>3. Len(served') + Len(outputs') = b + d[Sink(t)]
        BY <1>1, <3>5, <3>7
      <4>4. QED
        BY <1>7, <3>3, <3>4, <4>1, <4>2, <4>3 DEF Windowed
    <3>9. Unfinished' \/ outputs' # <<>> \/ Len(served') = window * Limit
      <4>1. ASSUME ~Unfinished', outputs' = <<>> PROVE Len(served') = n * L
        <5>1. ~(Cardinality(Done(t, L, d)) < Cardinality(Vertices(t)) * L)
          BY <1>3, <1>5, <2>1, <2>2, <2>6, <3>1, <3>3, <3>4, <4>1 DEF Pending
        <5>2. d[Sink(t)] = L
          BY <1>2, <1>3, <1>7, <3>4, <5>1, WindowSettled
        <5>3. Len(outputs') = 0
          BY <4>1
        <5>4. QED
          BY <1>1, <1>7, <3>1, <3>5, <3>7, <5>2, <5>3
      <4>2. QED
        BY <1>3, <4>1
    <3>10. QED
      BY <1>1, <1>2, <1>7, <1>9, <2>3, <2>4, <2>6, <3>8, <3>9, GoesOn DEF Drivers
  <2>7. QED
    BY <2>5, <2>6
<1>12. QED
  BY <1>10, <1>11

\* The output served next is that of the next input.
LEMMA DrainServes ==
  ASSUME IInv, Drain
  PROVE  /\ Head(outputs) = Outcome(topology, Len(served) + 1)
         /\ Len(served) < generated /\ generated = window * Limit /\ Len(served) \in Nat
         /\ served = Row(topology, 0, Len(served))
         /\ served' = Row(topology, 0, Len(served) + 1) /\ Len(served') = Len(served) + 1
         /\ IF program = "pass" THEN outputs = Row(topology, Len(served), 1) /\ Len(served) = Base
            ELSE outputs = Row(topology, Len(served), Len(outputs)) /\ Len(outputs) \in Nat \ {0}
<1>1. phase = "drain" /\ served' = Append(served, Head(outputs))
  BY DEF Drain
<1>2. Serving /\ Progress /\ Stage /\ Served /\ Compiled(topology)
  BY <1>1 DEF IInv, Serving, Drivers
<1>3. PICK t, L, b, n : t = topology /\ L = Limit /\ b = Base /\ n = Len(served)
  OBVIOUS
<1>4. L \in Nat \ {0} /\ b \in Nat /\ b + L = window * L /\ generated = b + L /\ n \in Nat
      /\ served = Row(t, 0, n) /\ outputs # <<>>
  BY <1>1, <1>2, <1>3, LimitIsPositive, BaseIsNatural DEF Progress, Served, Stage
<1>5. /\ Head(outputs) = Outcome(t, n + 1) /\ n < b + L
      /\ IF program = "pass" THEN outputs = Row(t, n, 1) /\ n = b
         ELSE outputs = Row(t, n, Len(outputs)) /\ Len(outputs) \in Nat \ {0}
  <2>1. CASE program = "pass"
    <3>1. n = b /\ outputs = Row(t, b, 1)
      BY <1>1, <1>2, <1>3, <2>1 DEF Progress, Passing, Stage
    <3>2. Head(outputs) = Outcome(t, n + 1)
      BY <1>4, <3>1, RowTail
    <3>3. QED
      BY <1>4, <2>1, <3>1, <3>2
  <2>2. CASE program # "pass"
    <3>1. /\ Len(outputs) \in Nat /\ outputs = Row(t, n, Len(outputs))
          /\ n + Len(outputs) = b + completed[Sink(t)] /\ completed \in [Vertices(t) -> 0..L]
      BY <1>2, <1>3, <2>2 DEF Progress, Windowed, Queued
    <3>2. completed[Sink(t)] \in 0..L
      BY <1>2, <1>3, <3>1, SinkSeesAll
    <3>3. PICK m \in Nat : m = Len(outputs)
      BY <3>1
    <3>4. m # 0
      BY <1>4, <3>1, <3>3, RowEmpty
    <3>5. Head(Row(t, n, m)) = Outcome(t, n + 1)
      BY <1>4, <3>3, <3>4, RowTail
    <3>6. n + m = b + completed[Sink(t)]
      BY <3>1, <3>3
    <3>7. n < b + L
      BY <1>4, <3>2, <3>3, <3>4, <3>6
    <3>8. QED
      BY <2>2, <3>1, <3>3, <3>4, <3>5, <3>7
  <2>3. QED
    BY <2>1, <2>2
<1>6. served' = Row(t, 0, n + 1) /\ Len(served') = n + 1
  <2>1. 0 \in Nat /\ n + 1 = 0 + n + 1 /\ n + 1 \in Nat
    BY <1>4
  <2>2. Append(Row(t, 0, n), Outcome(t, n + 1)) = Row(t, 0, n + 1)
    BY <1>4, <2>1, RowAppend
  <2>3. Len(Row(t, 0, n + 1)) = n + 1
    BY <2>1, RowLength
  <2>4. QED
    BY <1>1, <1>4, <1>5, <2>2, <2>3
<1>7. QED
  BY <1>3, <1>4, <1>5, <1>6

LEMMA DrainKeeps ==
  ASSUME IInv, Drain PROVE IInv'
<1>1. /\ phase = "drain" /\ outputs' = Tail(outputs) /\ phase' = Continue(Pending(completions, frontier), outputs')
      /\ UNCHANGED <<program, topology, window, collected, generated, completed, completions, frontier, inputs, todo, box, cell>>
      /\ Standing /\ Within
  BY DEF Drain, Standing, Within
<1>2. Serving /\ Progress /\ Stage /\ Compiled(topology) /\ todo = {}
  BY <1>1 DEF IInv, Serving, Drivers
<1>3. PICK t, L, b, n : t = topology /\ L = Limit /\ b = Base /\ n = Len(served)
  OBVIOUS
<1>4. topology' = t /\ Limit' = L /\ Base' = b /\ L \in Nat \ {0} /\ b \in Nat /\ b + L = window * L
      /\ Unfinished' = Unfinished
  BY <1>1, <1>2, <1>3, LimitIsPositive, BaseIsNatural DEF Limit, Base, Unfinished, Pending, Progress
<1>5. /\ n \in Nat /\ served' = Row(t, 0, n + 1) /\ Len(served') = n + 1
      /\ IF program = "pass" THEN outputs = Row(t, n, 1) /\ n = b
         ELSE outputs = Row(t, n, Len(outputs)) /\ Len(outputs) \in Nat \ {0}
  BY <1>3, DrainServes
<1>6. Served'
  <2>1. n + 1 \in Nat
    BY <1>5
  <2>2. QED
    BY <1>4, <1>5, <2>1 DEF Served
<1>7. phase' = Continue(Unfinished', outputs') /\ At(IF Unfinished THEN window ELSE window + 1)'
  <2>1. phase' = Continue(Unfinished', outputs')
    BY <1>1, <1>4 DEF Unfinished
  <2>2. CASE Unfinished
    BY <1>1, <1>2, <1>4, <2>1, <2>2 DEF Stage, At
  <2>3. CASE ~Unfinished
    BY <1>1, <1>2, <1>4, <2>1, <2>3 DEF Stage, At
  <2>4. QED
    BY <2>1, <2>2, <2>3
<1>8. CASE program = "pass"
  <2>1. ~Unfinished /\ L = 1
    BY <1>1, <1>2, <1>3, <1>8 DEF Stage, Limit
  <2>2. outputs' = Row(t, n + 1, 0)
    <3>1. 1 \in Nat \ {0} /\ 1 - 1 = 0 /\ n \in Nat
      BY <1>5
    <3>2. Tail(Row(t, n, 1)) = Row(t, n + 1, 1 - 1)
      BY <3>1, RowTail
    <3>3. outputs = Row(t, n, 1)
      BY <1>5, <1>8
    <3>4. QED
      BY <1>1, <3>1, <3>2, <3>3
  <2>3. Len(served') = window * Limit
    BY <1>3, <1>4, <1>5, <1>8, <2>1
  <2>4. outputs' = <<>>
    BY <2>2, RowEmpty
  <2>5. phase' = "begin"
    BY <1>4, <1>7, <2>1, <2>4 DEF Continue
  <2>6. At(window + 1)'
    BY <1>4, <1>7, <2>1 DEF At
  <2>7. BetweenWindows'
    BY <1>1, <1>2, <1>3, <1>4, <2>3, <2>4, <2>6 DEF BetweenWindows, Progress
  <2>8. generated' \in Nat
    BY <1>1 DEF IInv
  <2>9. QED
    BY <1>1, <1>2, <1>6, <2>5, <2>7, <2>8, StandingKeeps DEF Uploads, Drivers
<1>9. CASE program # "pass"
  <2>1. PICK m \in Nat \ {0} : m = Len(outputs)
    BY <1>5, <1>9
  <2>2. outputs' = Row(t, n + 1, m - 1) /\ m - 1 \in Nat /\ n + 1 \in Nat
    <3>1. m - 1 \in Nat /\ n + 1 \in Nat /\ n \in Nat
      BY <1>5, <2>1
    <3>2. Tail(Row(t, n, m)) = Row(t, n + 1, m - 1)
      BY <2>1, <3>1, RowTail
    <3>3. outputs = Row(t, n, m)
      BY <1>5, <1>9, <2>1
    <3>4. QED
      BY <1>1, <3>1, <3>2, <3>3
  <2>3. Len(outputs') = m - 1
    BY <2>2, RowLength
  <2>4. /\ completed \in [Vertices(t) -> 0..L] /\ Cardinality(Done(t, L, completed)) = completions
        /\ n + m = b + completed[Sink(t)]
    BY <1>2, <1>3, <1>9, <2>1 DEF Progress, Windowed
  <2>5. (n + 1) + (m - 1) = b + completed[Sink(t)]
    BY <1>5, <2>1, <2>4
  <2>6. Windowed'
    <3>1. Queued'
      BY <1>4, <1>5, <2>2, <2>3 DEF Queued
    <3>2. Len(served') + Len(outputs') = b + completed'[Sink(t)]
      BY <1>1, <1>5, <2>3, <2>5
    <3>3. QED
      BY <1>1, <1>4, <2>4, <3>1, <3>2 DEF Windowed
  <2>7. Unfinished' \/ outputs' # <<>> \/ Len(served') = window * Limit
    <3>1. ASSUME ~Unfinished, outputs' = <<>> PROVE Len(served') = window * Limit
      <4>1. ~(Cardinality(Done(t, L, completed)) < Cardinality(Vertices(t)) * L)
        <5>1. Len(collected) = L
          BY <1>2, <1>3, <1>4, WindowLength DEF Progress
        <5>2. QED
          BY <1>3, <1>9, <2>4, <3>1, <5>1 DEF Unfinished, Pending
      <4>2. completed[Sink(t)] = L
        BY <1>2, <1>3, <1>4, <2>4, <4>1, WindowSettled
      <4>3. m - 1 = 0
        BY <2>3, <3>1
      <4>4. n + 1 = b + L
        <5>1. (n + 1) + 0 = b + L
          BY <2>5, <4>2, <4>3
        <5>2. n \in Nat
          BY <1>5
        <5>3. QED
          BY <5>1, <5>2
      <4>5. QED
        BY <1>3, <1>4, <1>5, <4>4
    <3>2. QED
      BY <1>4, <3>1
  <2>8. QED
    BY <1>1, <1>2, <1>6, <1>7, <1>9, <2>6, <2>7, GoesOn DEF Drivers
<1>10. QED
  BY <1>8, <1>9

\* A step of the vertex v, which becomes c.
LEMMA VertexKeeps ==
  ASSUME IInv, UNCHANGED driverVars, NEW v \in DOMAIN cell, NEW c, cell' = [cell EXCEPT ![v] = c],
         phase = "deploy" =>
           box' = box /\ Whole(c) /\ c.at \in {"starting", "waiting", "dead"} /\ c.recv = cell[v].recv,
         phase \in Drivers =>
           /\ Loop(topology, Limit, window, v, c)
           /\ Mail(topology, Limit, window, box') /\ DOMAIN box \subseteq DOMAIN box'
  PROVE  IInv'
<1>1. /\ Sending /\ UNCHANGED <<program, graph, topology, window, generated, phase, todo, taken, deployed, served, outputs, inputs>>
  BY DEF Sending
<1>2. DOMAIN cell' = DOMAIN cell /\ cell'[v] = c /\ \A u \in DOMAIN cell : u # v => cell'[u] = cell[u]
  OBVIOUS
<1>3. CASE phase = "deploy"
  <2>1. Deploying
    BY <1>3 DEF IInv
  <2>2. \A u \in DOMAIN cell : /\ cell'[u].at \in {"starting", "waiting", "dead"} /\ Whole(cell'[u])
                               /\ cell'[u].recv = cell[u].recv
    BY <1>2, <1>3, <2>1 DEF Deploying
  <2>3. Deploying'
    BY <1>1, <1>2, <1>3, <2>1, <2>2 DEF Deploying
  <2>4. QED
    BY <1>1, <1>3, <2>3 DEF IInv, Drivers
<1>4. CASE phase \in Drivers
  <2>1. Serving
    BY <1>4 DEF IInv
  <2>2. topology' = topology /\ Limit' = Limit /\ window' = window /\ (Progress => Progress') /\ Served'
        /\ Unfinished' = Unfinished
    BY <1>1, <2>1, SendingProgresses DEF Serving
  <2>3. Loops(topology, Limit, window, cell')
    BY <1>2, <1>4, <2>1 DEF Serving, Loops
  <2>4. Stage => Stage'
    <3>1. \A w : At(w) <=> At(w)'
      BY <1>1 DEF At
    <3>2. HasTask(taken)' <=> HasTask(taken)
      BY <1>1 DEF Sending, HasTask
    <3>3. OutputId(taken, Task(taken))' = OutputId(taken, Task(taken))
      BY <1>1 DEF Sending, OutputId, Task
    <3>4. ASSUME Stage, phase = "forwarding"
          PROVE  (taken \in Vertices(topology) /\ HasTask(taken) /\ OutputId(taken, Task(taken)) \in DOMAIN box)'
      BY <1>1, <1>4, <3>2, <3>3, <3>4 DEF Stage
    <3>5. Stage => At(IF Unfinished THEN window ELSE window + 1)'
      BY <1>1, <2>2, <3>1 DEF Stage, At
    <3>6. QED
      BY <1>1, <2>2, <3>4, <3>5 DEF Stage
  <2>5. BetweenWindows => BetweenWindows'
    BY <1>1, <2>2 DEF BetweenWindows, At
  <2>6. Collecting => Collecting'
    <3>1. collected' = collected /\ Base' = Base
      BY <1>1, <2>2 DEF Sending, Base
    <3>2. QED
      BY <1>1, <2>2, <3>1 DEF Collecting, At
  <2>7. Serving'
    BY <1>1, <1>4, <2>1, <2>2, <2>3, <2>4, <2>5, <2>6 DEF Serving
  <2>8. QED
    BY <1>1, <1>4, <2>7 DEF IInv, Drivers
<1>5. CASE phase # "deploy" /\ phase \notin Drivers
  BY <1>1, <1>5 DEF IInv
<1>6. QED
  BY <1>3, <1>4, <1>5

LEMMA StartKeeps ==
  ASSUME IInv, NEW v \in DOMAIN cell, Start(v) PROVE IInv'
<1> DEFINE c == [cell[v] EXCEPT !.at = "waiting"]
<1>1. cell[v].at = "starting" /\ cell' = [cell EXCEPT ![v] = c] /\ box' = box /\ UNCHANGED driverVars
  BY DEF Start
<1>2. ASSUME phase = "deploy"
      PROVE  Whole(c) /\ c.at \in {"starting", "waiting", "dead"} /\ c.recv = cell[v].recv
  <2>1. Whole(cell[v])
    BY <1>2 DEF IInv, Deploying
  <2>2. c = [at |-> "waiting", recv |-> cell[v].recv, send |-> cell[v].send, emission |-> cell[v].emission]
    BY <2>1 DEF Whole
  <2>3. QED
    BY <2>2 DEF Whole
<1>3. ASSUME phase \in Drivers
      PROVE  Loop(topology, Limit, window, v, c) /\ Mail(topology, Limit, window, box')
  <2>1. Serving
    BY <1>3 DEF IInv
  <2>2. Loop(topology, Limit, window, v, cell[v])
    BY <2>1 DEF Serving, Loops
  <2>3. QED
    BY <1>1, <2>1, <2>2, StartFits DEF Serving
<1> HIDE DEF c
<1>4. QED
  BY <1>1, <1>2, <1>3, VertexKeeps

LEMMA DeathKeeps ==
  ASSUME IInv, NEW v \in DOMAIN cell, CellDies(v) PROVE IInv'
<1> DEFINE c == [cell[v] EXCEPT !.at = "dead"]
<1>1. cell' = [cell EXCEPT ![v] = c] /\ box' = box /\ UNCHANGED driverVars
  BY DEF CellDies
<1>2. ASSUME phase = "deploy"
      PROVE  Whole(c) /\ c.at \in {"starting", "waiting", "dead"} /\ c.recv = cell[v].recv
  <2>1. Whole(cell[v])
    BY <1>2 DEF IInv, Deploying
  <2>2. c = [at |-> "dead", recv |-> cell[v].recv, send |-> cell[v].send, emission |-> cell[v].emission]
    BY <2>1 DEF Whole
  <2>3. QED
    BY <2>2 DEF Whole
<1>3. ASSUME phase \in Drivers
      PROVE  Loop(topology, Limit, window, v, c) /\ Mail(topology, Limit, window, box')
  <2>1. Serving
    BY <1>3 DEF IInv
  <2>2. Loop(topology, Limit, window, v, cell[v])
    BY <2>1 DEF Serving, Loops
  <2>3. QED
    BY <1>1, <2>1, <2>2, DeathFits DEF Serving
<1> HIDE DEF c
<1>4. QED
  BY <1>1, <1>2, <1>3, VertexKeeps

LEMMA ReceiveKeeps ==
  ASSUME IInv, NEW v \in DOMAIN cell, Receive(v) PROVE IInv'
<1>1. /\ cell[v].at = "waiting" /\ \A p \in DOMAIN cell[v].recv : cell[v].recv[p] \in DOMAIN box
      /\ box' = box /\ UNCHANGED driverVars
  BY DEF Receive
<1> DEFINE ports == DOMAIN cell[v].recv
           envelope == [p \in ports |-> box[cell[v].recv[p]]]
<1>2. PICK q \in ports :
        cell' = [cell EXCEPT ![v] =
          [at |-> "working", recv |-> [p \in ports |-> envelope[p].recv], send |-> envelope[q].send,
           emission |-> [inputs  |-> UNION {envelope[p].emission.inputs : p \in ports},
                         through |-> {v} \cup UNION {envelope[p].emission.through : p \in ports}]]]
  BY Zenon DEF Receive
<1> DEFINE c == [at |-> "working", recv |-> [p \in ports |-> box[cell[v].recv[p]].recv],
                 send |-> box[cell[v].recv[q]].send,
                 emission |-> [inputs  |-> UNION {box[cell[v].recv[p]].emission.inputs : p \in ports},
                               through |-> {v} \cup UNION {box[cell[v].recv[p]].emission.through : p \in ports}]]
<1>3. cell' = [cell EXCEPT ![v] = c]
  <2>1. \A p \in ports : envelope[p] = box[cell[v].recv[p]]
    OBVIOUS
  <2> HIDE DEF ports, envelope
  <2>2. /\ [p \in ports |-> envelope[p].recv] = [p \in ports |-> box[cell[v].recv[p]].recv]
        /\ envelope[q].send = box[cell[v].recv[q]].send
    BY <1>2, <2>1
  <2>3. {envelope[p].emission.inputs : p \in ports} = {box[cell[v].recv[p]].emission.inputs : p \in ports}
    BY <2>1
  <2>4. {envelope[p].emission.through : p \in ports} = {box[cell[v].recv[p]].emission.through : p \in ports}
    BY <2>1
  <2>5. QED
    BY <1>2, <2>2, <2>3, <2>4
<1> HIDE DEF envelope
<1>4. phase # "deploy"
  <2>1. phase = "deploy" => DOMAIN box = {}
    BY DEF IInv, Deploying
  <2>2. QED
    BY <1>1, <2>1
<1>5. ASSUME phase \in Drivers
      PROVE  Loop(topology, Limit, window, v, c) /\ Mail(topology, Limit, window, box')
  <2>1. Serving /\ window \in Nat /\ Limit \in Nat
    BY <1>5, LimitIsPositive DEF IInv
  <2>2. v \in Vertices(topology) /\ Loop(topology, Limit, window, v, cell[v])
    BY <2>1 DEF Serving, Loops
  <2>3. Waiting(topology, Limit, window, v, cell[v])
    BY <1>1, <2>2 DEF Loop
  <2>4. Compiled(topology) /\ Mail(topology, Limit, window, box)
    BY <2>1 DEF Serving
  <2>5. Loop(topology, Limit, window, v, c)
    <3>1. PICK w, r : w = cell[v] /\ r = c
      OBVIOUS
    <3>2. Waiting(topology, Limit, window, v, w) /\ q \in DOMAIN w.recv
          /\ \A p \in DOMAIN w.recv : w.recv[p] \in DOMAIN box
      BY <1>1, <2>3, <3>1
    <3>3. r = Merged(box, w, v, q)
      BY <3>1 DEF Merged
    <3> HIDE DEF c
    <3>4. Loop(topology, Limit, window, v, r)
      BY <2>1, <2>2, <2>4, <3>2, <3>3, ReceivedFits
    <3>5. QED
      BY <3>1, <3>4
  <2>6. QED
    BY <1>1, <2>4, <2>5
<1> HIDE DEF c
<1>6. QED
  BY <1>1, <1>3, <1>4, <1>5, VertexKeeps

LEMMA RespondKeeps ==
  ASSUME IInv, NEW v \in DOMAIN cell, Respond(v) PROVE IInv'
<1> DEFINE delivery == [emission |-> cell[v].emission, recv |-> NoMailbox, send |-> NoMailbox]
           grown    == OrElse(box, [m \in {cell[v].send} |-> delivery])
           answered == [cell[v] EXCEPT !.at = "waiting"]
           dead     == [cell[v] EXCEPT !.at = "dead"]
<1>1. cell[v].at = "working" /\ UNCHANGED driverVars
  BY DEF Respond
<1>2. \/ box' = grown /\ cell' = [cell EXCEPT ![v] = answered]
      \/ box' \in {grown, box} /\ cell' = [cell EXCEPT ![v] = dead]
  BY DEF Respond, Uploaded, UploadFails
<1>3. phase # "deploy"
  BY <1>1 DEF IInv, Deploying
<1>4. ASSUME phase \in Drivers
      PROVE  /\ Loop(topology, Limit, window, v, answered) /\ Loop(topology, Limit, window, v, dead)
             /\ Mail(topology, Limit, window, box) /\ Mail(topology, Limit, window, grown)
  <2>1. Serving /\ window \in Nat /\ Limit \in Nat
    BY <1>4, LimitIsPositive DEF IInv
  <2>2. v \in Vertices(topology) /\ Loop(topology, Limit, window, v, cell[v])
    BY <2>1 DEF Serving, Loops
  <2>3. Fits(topology, Limit, window, cell[v].send, delivery) /\ Loop(topology, Limit, window, v, answered)
    BY <1>1, <2>1, <2>2, AnswerFits
  <2>4. Loop(topology, Limit, window, v, dead)
    BY <2>2, DeathFits
  <2>5. Mail(topology, Limit, window, box)
    BY <2>1 DEF Serving
  <2>6. PICK f : f = [m \in {cell[v].send} |-> delivery]
    OBVIOUS
  <2>7. DOMAIN f = {cell[v].send} /\ f[cell[v].send] = delivery
    BY <2>6
  <2> HIDE DEF delivery
  <2>8. Mail(topology, Limit, window, OrElse(box, f))
    BY <2>3, <2>5, <2>7, MailGrows
  <2>9. QED
    BY <2>3, <2>4, <2>5, <2>6, <2>8
<1>5. DOMAIN box \subseteq DOMAIN grown
  BY DEF OrElse
<1> HIDE DEF grown, answered, dead
<1>6. CASE box' = grown /\ cell' = [cell EXCEPT ![v] = answered]
  BY <1>1, <1>3, <1>4, <1>5, <1>6, VertexKeeps
<1>7. CASE box' = grown /\ cell' = [cell EXCEPT ![v] = dead]
  BY <1>1, <1>3, <1>4, <1>5, <1>7, VertexKeeps
<1>8. CASE box' = box /\ cell' = [cell EXCEPT ![v] = dead]
  BY <1>1, <1>3, <1>4, <1>8, VertexKeeps
<1>9. QED
  BY <1>2, <1>6, <1>7, <1>8

LEMMA NextKeeps ==
  ASSUME IInv, [Next]_vars PROVE IInv'
<1>1. CASE CallFails
  BY <1>1 DEF CallFails, IInv, Drivers
<1>2. CASE UNCHANGED vars
  <2>1. /\ UNCHANGED <<program, graph, topology, window, generated, phase, deployed>>
        /\ UNCHANGED <<collected, completed, sent, completions, frontier>>
        /\ UNCHANGED <<inputs, outputs, served, todo, taken, box, cell>>
    BY <1>2
  <2>2. Limit' = Limit /\ Base' = Base
    BY <2>1 DEF Limit, Base
  <2>3. Unfinished' = Unfinished
    BY <2>1, <2>2 DEF Unfinished, Pending
  <2>4. \A w : At(w)' = At(w)
    BY <2>1 DEF At
  <2>5. BetweenWindows' = BetweenWindows /\ Collecting' = Collecting
    BY <2>1, <2>2, <2>4 DEF BetweenWindows, Collecting
  <2>6. Served' = Served /\ Queued' = Queued
    BY <2>1 DEF Served, Queued
  <2>7. Passing' = Passing /\ Windowed' = Windowed
    BY <2>1, <2>2, <2>3, <2>6 DEF Passing, Windowed
  <2>8. Progress' = Progress
    BY <2>1, <2>2, <2>7 DEF Progress
  <2>9. Stage' = Stage
    BY <2>1, <2>2, <2>3, <2>4 DEF Stage, HasTask, OutputId, Task
  <2>10. Serving' = Serving
    BY <2>1, <2>2, <2>5, <2>6, <2>8, <2>9 DEF Serving
  <2>11. Deploying' = Deploying
    BY <2>1 DEF Deploying
  <2>12. QED
    BY <2>1, <2>10, <2>11 DEF IInv
<1>3. ASSUME NEW v \in DOMAIN cell, Cell(v) \/ CellDies(v) PROVE IInv'
  BY <1>3, StartKeeps, ReceiveKeeps, RespondKeeps, DeathKeeps DEF Cell
<1>4. CASE Driver
  BY <1>4, SpawnKeeps, FinalizeKeeps, BeginKeeps, CollectKeeps, PrepareKeeps, SeedRootsKeeps, RootsSeededKeeps,
    SendsOneKeeps, TakeOutputKeeps, OutputForwardedKeeps, DrainKeeps DEF Driver
<1>5. QED
  BY <1>1, <1>2, <1>3, <1>4 DEF Next

\* Every driver keeps its place in its window, and every mailbox holds what was
\* meant for it, whatever fails.
THEOREM Invariance == Spec => []IInv
<1>1. Init => IInv
  BY InitHolds
<1>2. IInv /\ [Next]_vars => IInv'
  BY NextKeeps
<1>3. QED
  BY <1>1, <1>2, PTL DEF Spec

-----------------------------------------------------------------------------
(* What is promised                                                        *)

\* The inputs each output was computed from, as the contract sees them.
View == [i \in DOMAIN served |->
           IF served[i].through = Vertices(topology) THEN served[i].inputs ELSE {}]

\* Outputs in the order of the inputs, each from its own.
InOrder(n) == [i \in 1..n |-> {i}]

LEMMA ViewInOrder ==
  ASSUME NEW n \in Nat, served = Row(topology, 0, n)
  PROVE  View = InOrder(n) /\ Len(View) = n
<1>1. DOMAIN served = 1..n /\ \A i \in 1..n : served[i] = [inputs |-> {0 + i}, through |-> Vertices(topology)]
  BY DEF Row, Outcome
<1>2. \A i \in 1..n : served[i].through = Vertices(topology) /\ served[i].inputs = {i}
  <2>1. TAKE i \in 1..n
  <2>2. 0 + i = i
    OBVIOUS
  <2>3. served[i] = [inputs |-> {i}, through |-> Vertices(topology)]
    BY <1>1, <2>2
  <2>4. QED
    BY <2>3
<1>3. View = InOrder(n)
  BY <1>1, <1>2 DEF View, InOrder
<1>4. InOrder(n) \in Seq(SUBSET Nat) /\ Len(InOrder(n)) = n
  <2>1. InOrder(n) \in [1..n -> SUBSET Nat]
    BY DEF InOrder
  <2>2. QED
    BY <2>1, SeqDef
<1>5. QED
  BY <1>3, <1>4

LEMMA InOrderAppend ==
  ASSUME NEW n \in Nat PROVE Append(InOrder(n), {n + 1}) = InOrder(n + 1)
<1> DEFINE s == InOrder(n)
           a == Append(s, {n + 1})
<1>1. s \in Seq(SUBSET Nat) /\ Len(s) = n /\ {n + 1} \in SUBSET Nat
  <2>1. InOrder(n) \in [1..n -> SUBSET Nat]
    BY DEF InOrder
  <2>2. QED
    BY <2>1, SeqDef
<1>2. \A j \in 1..n : s[j] = {j}
  BY DEF InOrder
<1> HIDE DEF s
<1>3. DOMAIN a = 1..(n + 1) /\ a[n + 1] = {n + 1} /\ \A j \in 1..n : a[j] = s[j]
  BY <1>1, AppendProperties, LenProperties
<1>4. a = [j \in 1..(n + 1) |-> a[j]]
  BY <1>1, <1>3
<1>5. \A j \in 1..(n + 1) : a[j] = {j}
  BY <1>2, <1>3
<1> HIDE DEF a
<1>6. a = InOrder(n + 1)
  BY <1>4, <1>5 DEF InOrder
<1>7. QED
  BY <1>6 DEF a, s

LEMMA InitServes ==
  ASSUME Init PROVE Contract!Init
<1>1. Limit \in Nat \ {0}
  BY InitHolds, LimitIsPositive
<1>2. generated = 0 /\ served = <<>>
  BY DEF Init
<1>3. View = <<>>
  BY <1>2 DEF View
<1>4. QED
  BY <1>1, <1>2, <1>3 DEF Contract!Init, View

LEMMA CollectServes ==
  ASSUME IInv, Collect PROVE Contract!Generate
<1>1. phase = "collect" /\ Len(collected) < Limit /\ generated' = generated + 1
      /\ UNCHANGED <<program, served, topology>>
  BY DEF Collect
<1>2. Collecting /\ Served
  BY <1>1 DEF IInv, Serving, Drivers
<1>3. PICK L, n : L = Limit /\ n = Len(served)
  OBVIOUS
<1>4. Limit' = L /\ View' = View /\ L \in Nat \ {0} /\ n \in Nat
  BY <1>1, <1>2, <1>3, LimitIsPositive DEF Limit, View, Served
<1>5. Len(View) = n
  BY <1>2, <1>3, <1>4, ViewInOrder DEF Served
<1>6. n % L = 0
  <2>1. window \in Nat /\ window > 0
    BY <1>2 DEF Collecting, IInv
  <2>2. PICK w \in Nat : w = window - 1
    BY <2>1
  <2>3. n = w * L
    BY <1>2, <1>3, <2>2 DEF Collecting, Base
  <2>4. QED
    BY <1>4, <2>3, WindowsDivide
<1>7. generated < n + L
  <2>1. PICK m : m = Len(collected)
    OBVIOUS
  <2>2. m \in 0..L /\ generated = n + m /\ m < L
    BY <1>1, <1>2, <1>3, <2>1 DEF Collecting
  <2>3. QED
    BY <1>4, <2>2
<1>8. QED
  BY <1>1, <1>3, <1>4, <1>5, <1>6, <1>7 DEF Contract!Generate, View

LEMMA DrainServesOne ==
  ASSUME IInv, Drain PROVE Contract!Serve
<1>1. UNCHANGED <<program, generated, topology>>
  BY DEF Drain
<1>2. PICK L, n : L = Limit /\ n = Len(served)
  OBVIOUS
<1>3. /\ n < generated /\ generated = window * L /\ n \in Nat
      /\ served = Row(topology, 0, n) /\ served' = Row(topology, 0, n + 1)
  BY <1>2, DrainServes
<1>4. Limit' = L /\ L \in Nat \ {0} /\ window \in Nat
  BY <1>1, <1>2, LimitIsPositive DEF Limit, IInv
<1>5. generated % L = 0
  BY <1>3, <1>4, WindowsDivide
<1>6. View = InOrder(n) /\ Len(View) = n
  BY <1>3, ViewInOrder
<1>7. View' = InOrder(n + 1)
  <2>1. n + 1 \in Nat
    BY <1>3
  <2>2. DOMAIN served' = 1..(n + 1)
        /\ \A i \in 1..(n + 1) : served'[i] = [inputs |-> {0 + i}, through |-> Vertices(topology)]
    BY <1>3 DEF Row, Outcome
  <2>3. \A i \in 1..(n + 1) : served'[i].through = Vertices(topology) /\ served'[i].inputs = {i}
    BY <2>2
  <2>4. topology' = topology
    BY <1>1
  <2>5. QED
    BY <2>2, <2>3, <2>4 DEF View, InOrder
<1>8. View' = Append(View, {Len(View) + 1})
  BY <1>3, <1>6, <1>7, InOrderAppend
<1>9. QED
  BY <1>1, <1>2, <1>3, <1>4, <1>5, <1>6, <1>8 DEF Contract!Serve, View

LEMMA OthersServeNothing ==
  ASSUME UNCHANGED <<program, generated, served, topology>> PROVE UNCHANGED Contract!vars
BY DEF Contract!vars, Limit

LEMMA StepServes ==
  ASSUME IInv, [Next]_vars PROVE [Contract!Next]_(Contract!vars)
<1>1. CASE Collect
  BY <1>1, CollectServes DEF Contract!Next
<1>2. CASE Drain
  BY <1>2, DrainServesOne DEF Contract!Next
<1>3. CASE Spawn
  <2>1. served = <<>> /\ UNCHANGED <<program, generated, served>>
    BY <1>3 DEF Spawn, IInv, Deploying
  <2>2. View = <<>> /\ View' = <<>>
    BY <2>1 DEF View
  <2>3. QED
    BY <2>1, <2>2 DEF Contract!vars, View, Limit
<1>4. CASE \/ Finalize \/ Begin \/ Prepare \/ SeedRoots \/ RootsSeeded \/ SendsOne \/ TakeOutput
           \/ OutputForwarded \/ CallFails
  <2>1. UNCHANGED <<program, generated, served, topology>>
    BY <1>4 DEF Finalize, Begin, Prepare, SeedRoots, RootsSeeded, SendsOne, TakeOutput, OutputForwarded, CallFails
  <2>2. QED
    BY <2>1, OthersServeNothing
<1>5. ASSUME NEW v \in DOMAIN cell, Cell(v) \/ CellDies(v) PROVE UNCHANGED Contract!vars
  <2>1. UNCHANGED <<program, generated, served, topology>>
    BY <1>5 DEF Cell, Start, Receive, Respond, CellDies
  <2>2. QED
    BY <2>1, OthersServeNothing
<1>6. CASE UNCHANGED vars
  BY <1>6, OthersServeNothing
<1>7. QED
  BY <1>1, <1>2, <1>3, <1>4, <1>5, <1>6 DEF Next, Driver

\* Serving implements its contract: whatever the program, the graph and the limit,
\* and whichever calls fail, the n-th output is computed from the n-th input alone
\* by every vertex, and the next batch is taken when this one is served
\* (programs/forward_only, forward).
THEOREM ServesAsPromised == Spec => ImplementsContract
<1>1. Init => Contract!Init
  BY InitServes
<1>2. IInv /\ [Next]_vars => [Contract!Next]_(Contract!vars)
  BY StepServes
<1>3. Spec => []IInv
  BY Invariance
<1>4. QED
  BY <1>1, <1>2, <1>3, PTL DEF Spec, ImplementsContract, Contract!Spec

-----------------------------------------------------------------------------
(* What the compiler accepts                                               *)

Descriptors(g) == g \in Seq(Range(g)) /\ \A i \in DOMAIN g : Descriptor(g[i])

\* The vertex of the i-th descriptor.
VertexOf(g, i) == g[i].ports[1]

\* No two of the first n descriptors claim a port, nor does one claim it twice.
OneOwner(g, n) ==
  \A i, k \in 1..n : \A j \in DOMAIN g[i].ports : \A l \in DOMAIN g[k].ports :
    g[i].ports[j] = g[k].ports[l] => i = k /\ j = l

\* The topology has what the first n descriptors say.
Mirrors(g, n, t) ==
  /\ Vertices(t) = {VertexOf(g, i) : i \in 1..n}
  /\ PortIds(t) = UNION {Range(g[i].ports) : i \in 1..n}
  /\ \A i \in 1..n :
       /\ t.vertex_ports[VertexOf(g, i)] = g[i].ports
       /\ t.declared_edges[VertexOf(g, i)] = g[i].edges
       /\ t.node_contracts[VertexOf(g, i)] = g[i].contract
       /\ \A p \in Range(g[i].ports) : t.port_vertices[p] = VertexOf(g, i)

\* The first n descriptors are registered.
Built(g, n, t) ==
  /\ t.duplicate_ports = {} <=> OneOwner(g, n)
  /\ t.duplicate_ports = {} => /\ DOMAIN t.declared_edges = Vertices(t)
                               /\ DOMAIN t.node_contracts = Vertices(t)
                               /\ Mirrors(g, n, t)

LEMMA SmallSets ==
  ASSUME NEW S, IsFiniteSet(S)
  PROVE  /\ Cardinality(S) \in Nat /\ (Cardinality(S) = 0 <=> S = {})
         /\ Cardinality(S) <= 1 <=> \A x, y \in S : x = y
         /\ Cardinality(S) = 1 <=> \E x : S = {x}
<1>1. Cardinality(S) \in Nat /\ (Cardinality(S) = 0 <=> S = {})
  BY FS_CardinalityType, FS_EmptySet
<1>2. Cardinality(S) = 1 <=> \E x : S = {x}
  BY FS_Singleton
<1>3. ASSUME Cardinality(S) <= 1, NEW x \in S, NEW y \in S PROVE x = y
  <2>1. Cardinality(S) = 1
    BY <1>1, <1>3
  <2>2. QED
    BY <1>2, <1>3, <2>1
<1>4. ASSUME \A x, y \in S : x = y PROVE Cardinality(S) <= 1
  <2>1. CASE S = {}
    BY <1>1, <2>1
  <2>2. CASE S # {}
    <3>1. PICK x : x \in S
      BY <2>2
    <3>2. S = {x}
      BY <1>4, <3>1
    <3>3. QED
      BY <1>2, <3>2
  <2>3. QED
    BY <2>1, <2>2
<1>5. QED
  BY <1>1, <1>2, <1>3, <1>4

LEMMA NothingBuilt ==
  ASSUME NEW g PROVE Built(g, 0, NoTopology)
<1>1. NoTopology.duplicate_ports = {} /\ DOMAIN NoTopology.vertex_ports = {} /\ DOMAIN NoTopology.port_vertices = {}
      /\ DOMAIN NoTopology.declared_edges = {} /\ DOMAIN NoTopology.node_contracts = {}
  BY DEF NoTopology
<1>2. 1..0 = {}
  OBVIOUS
<1>3. QED
  BY <1>1, <1>2 DEF Built, OneOwner, Mirrors, Vertices, PortIds

\* Registering the next descriptor.
LEMMA RegisterBuilds ==
  ASSUME NEW g, Descriptors(g), NEW n \in Nat, n + 1 \in DOMAIN g, NEW t, Built(g, n, t),
         NEW s, s = Register(t, g[n + 1])
  PROVE  Built(g, n + 1, s)
<1> DEFINE d == g[n + 1]
           vertex == d.ports[1]
           again == {p \in Range(d.ports) : \/ p \in DOMAIN t.port_vertices
                                            \/ Cardinality({i \in DOMAIN d.ports : d.ports[i] = p}) > 1}
<1>1. /\ s.vertex_ports = OrElse(t.vertex_ports, [v \in {vertex} |-> d.ports])
      /\ s.port_vertices = OrElse(t.port_vertices, [p \in Range(d.ports) |-> vertex])
      /\ s.declared_edges = OrElse(t.declared_edges, [v \in {vertex} |-> d.edges])
      /\ s.node_contracts = OrElse(t.node_contracts, [v \in {vertex} |-> d.contract])
      /\ s.duplicate_ports = t.duplicate_ports \cup again
  BY DEF Register
<1>2. /\ d.ports \in Seq(Range(d.ports)) /\ 1 \in DOMAIN d.ports
      /\ \A p \in DOMAIN d.ports : IsFiniteSet({i \in DOMAIN d.ports : d.ports[i] = d.ports[p]})
  <2>1. d.ports \in Seq(Range(d.ports)) /\ d.ports # <<>>
    BY DEF Descriptors, Descriptor
  <2>2. DOMAIN d.ports = 1..Len(d.ports) /\ Len(d.ports) \in Nat /\ 1 \in DOMAIN d.ports
    BY <2>1
  <2>3. IsFiniteSet(DOMAIN d.ports)
    BY SMTT(40), <2>2, FS_Interval
  <2>4. \A p \in DOMAIN d.ports : {i \in DOMAIN d.ports : d.ports[i] = d.ports[p]} \subseteq DOMAIN d.ports
    OBVIOUS
  <2>5. QED
    BY <2>1, <2>2, <2>3, <2>4, FS_Subset
<1>3. \A p : p \in Range(d.ports) <=> \E j \in DOMAIN d.ports : p = d.ports[j]
  BY DEF Range
<1>4. 1..(n + 1) = (1..n) \cup {n + 1} /\ n + 1 \notin 1..n
  OBVIOUS
<1>5. ASSUME s.duplicate_ports = {}
      PROVE  /\ OneOwner(g, n + 1) /\ DOMAIN s.declared_edges = Vertices(s) /\ DOMAIN s.node_contracts = Vertices(s)
             /\ Mirrors(g, n + 1, s)
  <2>1. t.duplicate_ports = {} /\ again = {}
    BY <1>1, <1>5
  <2>2. /\ OneOwner(g, n) /\ Mirrors(g, n, t) /\ DOMAIN t.declared_edges = Vertices(t)
        /\ DOMAIN t.node_contracts = Vertices(t)
    BY <2>1 DEF Built
  <2>3. \A j \in DOMAIN d.ports : d.ports[j] \notin PortIds(t)
    BY <1>3, <2>1 DEF PortIds
  <2>4. \A j, l \in DOMAIN d.ports : d.ports[j] = d.ports[l] => j = l
    <3>1. TAKE j, l \in DOMAIN d.ports
    <3>2. HAVE d.ports[j] = d.ports[l]
    <3> DEFINE S == {i \in DOMAIN d.ports : d.ports[i] = d.ports[j]}
    <3>3. IsFiniteSet(S) /\ ~(Cardinality(S) > 1)
      BY <1>2, <1>3, <2>1
    <3>4. j \in S /\ l \in S
      BY <3>2
    <3> HIDE DEF S
    <3>5. Cardinality(S) \in Nat /\ (Cardinality(S) <= 1 <=> \A x, y \in S : x = y)
      BY <3>3, SmallSets
    <3>6. Cardinality(S) <= 1
      BY <3>3, <3>5
    <3>7. QED
      BY <3>4, <3>5, <3>6
  <2>5. \A i \in 1..n : \A j \in DOMAIN g[i].ports : \A l \in DOMAIN d.ports : g[i].ports[j] # d.ports[l]
    BY <2>2, <2>3 DEF Mirrors, Range
  <2>6. OneOwner(g, n + 1)
    <3>1. ASSUME NEW i \in 1..(n + 1), NEW k \in 1..(n + 1), NEW j \in DOMAIN g[i].ports,
                 NEW l \in DOMAIN g[k].ports, g[i].ports[j] = g[k].ports[l]
          PROVE  i = k /\ j = l
      <4>1. CASE i \in 1..n /\ k \in 1..n
        BY <2>2, <3>1, <4>1 DEF OneOwner
      <4>2. CASE i = n + 1 /\ k = n + 1
        BY <2>4, <3>1, <4>2
      <4>3. CASE i \in 1..n /\ k = n + 1
        BY <2>5, <3>1, <4>3
      <4>4. CASE i = n + 1 /\ k \in 1..n
        BY <2>5, <3>1, <4>4
      <4>5. QED
        BY <1>4, <4>1, <4>2, <4>3, <4>4
    <3>2. QED
      BY <3>1 DEF OneOwner
  <2>7. vertex \notin Vertices(t) /\ vertex \notin PortIds(t)
    <3>1. \A i \in 1..n : 1 \in DOMAIN g[i].ports
      <4>1. TAKE i \in 1..n
      <4>2. i \in DOMAIN g
        BY DEF Descriptors
      <4>3. g[i].ports \in Seq(Range(g[i].ports)) /\ g[i].ports # <<>>
        BY <4>2 DEF Descriptors, Descriptor
      <4>4. QED
        BY <4>3
    <3>2. QED
      BY <1>2, <2>2, <2>3, <2>5, <3>1 DEF Mirrors, VertexOf
  <2>8. /\ Vertices(s) = Vertices(t) \cup {vertex} /\ PortIds(s) = PortIds(t) \cup Range(d.ports)
        /\ DOMAIN s.declared_edges = Vertices(s) /\ DOMAIN s.node_contracts = Vertices(s)
    BY <1>1, <2>2 DEF Vertices, PortIds, OrElse
  <2>9. /\ s.vertex_ports[vertex] = d.ports /\ s.declared_edges[vertex] = d.edges
        /\ s.node_contracts[vertex] = d.contract
    BY <1>1, <2>2, <2>7 DEF OrElse, Vertices
  <2>10. \A p \in Range(d.ports) : s.port_vertices[p] = vertex
    BY <1>1, <1>3, <2>3 DEF OrElse, PortIds
  <2>11. \A v \in Vertices(t) : /\ s.vertex_ports[v] = t.vertex_ports[v] /\ s.declared_edges[v] = t.declared_edges[v]
                                /\ s.node_contracts[v] = t.node_contracts[v]
    BY <1>1, <2>2 DEF OrElse, Vertices
  <2>12. \A p \in PortIds(t) : s.port_vertices[p] = t.port_vertices[p]
    BY <1>1 DEF OrElse, PortIds
  <2>13. Mirrors(g, n + 1, s)
    <3>1. Vertices(s) = {VertexOf(g, i) : i \in 1..(n + 1)}
      BY <1>4, <2>2, <2>8 DEF Mirrors, VertexOf
    <3>2. PortIds(s) = UNION {Range(g[i].ports) : i \in 1..(n + 1)}
      BY <1>4, <2>2, <2>8 DEF Mirrors
    <3>3. ASSUME NEW i \in 1..(n + 1)
          PROVE  /\ s.vertex_ports[VertexOf(g, i)] = g[i].ports
                 /\ s.declared_edges[VertexOf(g, i)] = g[i].edges
                 /\ s.node_contracts[VertexOf(g, i)] = g[i].contract
                 /\ \A p \in Range(g[i].ports) : s.port_vertices[p] = VertexOf(g, i)
      <4>1. CASE i \in 1..n
        <5>1. VertexOf(g, i) \in Vertices(t) /\ Range(g[i].ports) \subseteq PortIds(t)
          BY <2>2, <4>1 DEF Mirrors
        <5>2. QED
          BY <2>2, <2>11, <2>12, <4>1, <5>1 DEF Mirrors
      <4>2. CASE i = n + 1
        BY <2>9, <2>10, <4>2 DEF VertexOf
      <4>3. QED
        BY <1>4, <4>1, <4>2
    <3>4. QED
      BY <3>1, <3>2, <3>3 DEF Mirrors
  <2>14. QED
    BY <2>6, <2>8, <2>13
<1>6. ASSUME OneOwner(g, n + 1) PROVE s.duplicate_ports = {}
  <2>1. OneOwner(g, n)
    BY <1>4, <1>6 DEF OneOwner
  <2>2. t.duplicate_ports = {} /\ Mirrors(g, n, t)
    BY <2>1 DEF Built
  <2>3. \A i \in 1..n : \A j \in DOMAIN g[i].ports : \A l \in DOMAIN d.ports : g[i].ports[j] # d.ports[l]
    BY <1>4, <1>6 DEF OneOwner
  <2>4. \A p \in Range(d.ports) : p \notin PortIds(t)
    BY <1>3, <2>2, <2>3 DEF Mirrors, Range
  <2>5. \A l \in DOMAIN d.ports : {i \in DOMAIN d.ports : d.ports[i] = d.ports[l]} = {l}
    BY <1>4, <1>6 DEF OneOwner
  <2>6. \A l \in DOMAIN d.ports : ~(Cardinality({i \in DOMAIN d.ports : d.ports[i] = d.ports[l]}) > 1)
    <3>1. TAKE l \in DOMAIN d.ports
    <3>2. Cardinality({l}) = 1
      BY FS_Singleton
    <3>3. QED
      BY <2>5, <3>2
  <2>7. again = {}
    BY <1>3, <2>4, <2>6 DEF PortIds
  <2>8. QED
    BY <1>1, <2>2, <2>7
<1>7. QED
  BY <1>5, <1>6 DEF Built

EdgeOf(g, e) == <<VertexOf(g, e[1]), e[2]>>

\* A graph in which no port is claimed twice, and its topology.
Faithful(g, t) ==
  /\ Descriptors(g) /\ OneOwner(g, Len(g)) /\ Mirrors(g, Len(g), t)
  /\ DOMAIN t.declared_edges = Vertices(t) /\ DOMAIN t.node_contracts = Vertices(t)

LEMMA VerticesMirror ==
  ASSUME NEW g, NEW t, Faithful(g, t)
  PROVE  /\ Len(g) \in Nat /\ DOMAIN g = 1..Len(g)
         /\ \A i \in DOMAIN g : /\ VertexOf(g, i) \in Vertices(t) /\ 1 \in DOMAIN g[i].ports
                                /\ IsFiniteSet(DOMAIN g[i].edges)
                                /\ g[i].edges = <<>> <=> DOMAIN g[i].edges = {}
         /\ \A v \in Vertices(t) : \E i \in DOMAIN g : v = VertexOf(g, i)
         /\ \A i, k \in DOMAIN g : VertexOf(g, i) = VertexOf(g, k) => i = k
<1>1. Len(g) \in Nat /\ DOMAIN g = 1..Len(g)
  BY DEF Faithful, Descriptors
<1>2. \A i \in DOMAIN g : 1 \in DOMAIN g[i].ports
  <2>1. TAKE i \in DOMAIN g
  <2>2. g[i].ports \in Seq(Range(g[i].ports)) /\ g[i].ports # <<>>
    BY DEF Faithful, Descriptors, Descriptor
  <2>3. QED
    BY <2>2
<1>3. \A i \in DOMAIN g : IsFiniteSet(DOMAIN g[i].edges) /\ (g[i].edges = <<>> <=> DOMAIN g[i].edges = {})
  <2>1. TAKE i \in DOMAIN g
  <2>2. g[i].edges \in Seq(Range(g[i].edges))
    BY DEF Faithful, Descriptors, Descriptor
  <2>3. DOMAIN g[i].edges = 1..Len(g[i].edges) /\ Len(g[i].edges) \in Nat
    BY <2>2
  <2>4. g[i].edges = <<>> <=> Len(g[i].edges) = 0
    BY <2>2
  <2>5. PICK n \in Nat : n = Len(g[i].edges)
    BY <2>3
  <2>6. IsFiniteSet(1..n)
    BY FS_Interval
  <2>7. n = 0 <=> 1..n = {}
    <3>1. n # 0 => 1 \in 1..n
      OBVIOUS
    <3>2. n = 0 => 1..n = {}
      OBVIOUS
    <3>3. QED
      BY <3>1, <3>2
  <2>8. QED
    BY <2>3, <2>4, <2>5, <2>6, <2>7
<1>4. \A i \in DOMAIN g : VertexOf(g, i) \in Vertices(t)
  BY <1>1 DEF Faithful, Mirrors
<1>5. \A v \in Vertices(t) : \E i \in DOMAIN g : v = VertexOf(g, i)
  BY <1>1 DEF Faithful, Mirrors
<1>6. \A i, k \in DOMAIN g : VertexOf(g, i) = VertexOf(g, k) => i = k
  BY <1>1, <1>2 DEF Faithful, OneOwner, VertexOf
<1>7. QED
  BY <1>1, <1>2, <1>3, <1>4, <1>5, <1>6

LEMMA ClaimsMirror ==
  ASSUME NEW g, NEW t, Faithful(g, t)
  PROVE  /\ \A c \in Claims(g) : /\ c[1] \in DOMAIN g /\ c[2] \in DOMAIN g[c[1]].ports /\ c = <<c[1], c[2]>>
                                 /\ Claimed(g, c) \in PortIds(t)
                                 /\ t.port_vertices[Claimed(g, c)] = VertexOf(g, c[1])
         /\ \A p \in PortIds(t) : \E c \in Claims(g) : p = Claimed(g, c)
         /\ \A i \in DOMAIN g : PortsOf(t, VertexOf(g, i)) = {Claimed(g, c) : c \in {d \in Claims(g) : d[1] = i}}
         /\ \A i \in DOMAIN g : \E c \in Claims(g) : c[1] = i
         /\ \A c, d \in Claims(g) : Claimed(g, c) = Claimed(g, d) => c = d
<1>1. Len(g) \in Nat /\ DOMAIN g = 1..Len(g) /\ \A i \in DOMAIN g : 1 \in DOMAIN g[i].ports
  BY VerticesMirror
<1>2. \A c \in Claims(g) : c[1] \in DOMAIN g /\ c[2] \in DOMAIN g[c[1]].ports /\ c = <<c[1], c[2]>>
  BY DEF Claims
<1>3. \A i \in DOMAIN g : \A j \in DOMAIN g[i].ports :
        <<i, j>> \in Claims(g) /\ Claimed(g, <<i, j>>) = g[i].ports[j] /\ <<i, j>>[1] = i
  BY DEF Claims, Claimed
<1>4. \A i \in DOMAIN g : \A p : p \in Range(g[i].ports) <=> \E j \in DOMAIN g[i].ports : p = g[i].ports[j]
  BY DEF Range
<1>5. \A c \in Claims(g) : Claimed(g, c) \in PortIds(t) /\ t.port_vertices[Claimed(g, c)] = VertexOf(g, c[1])
  <2>1. TAKE c \in Claims(g)
  <2>2. c[1] \in 1..Len(g) /\ Claimed(g, c) \in Range(g[c[1]].ports)
    BY <1>1, <1>2, <1>4 DEF Claimed
  <2>3. QED
    BY <2>2 DEF Faithful, Mirrors
<1>6. \A p \in PortIds(t) : \E c \in Claims(g) : p = Claimed(g, c)
  <2>1. TAKE p \in PortIds(t)
  <2>2. PICK i \in DOMAIN g : p \in Range(g[i].ports)
    BY <1>1 DEF Faithful, Mirrors
  <2>3. PICK j \in DOMAIN g[i].ports : p = g[i].ports[j]
    BY <1>4, <2>2
  <2>4. QED
    BY <1>3, <2>3
<1>7. ASSUME NEW i \in DOMAIN g
      PROVE  PortsOf(t, VertexOf(g, i)) = {Claimed(g, c) : c \in {d \in Claims(g) : d[1] = i}}
  <2>1. PortsOf(t, VertexOf(g, i)) = Range(g[i].ports)
    BY <1>1 DEF Faithful, Mirrors, PortsOf
  <2>2. \A c \in Claims(g) : c[1] = i => Claimed(g, c) \in Range(g[i].ports)
    BY <1>2, <1>4 DEF Claimed
  <2>3. \A p \in Range(g[i].ports) : \E c \in Claims(g) : c[1] = i /\ p = Claimed(g, c)
    <3>1. TAKE p \in Range(g[i].ports)
    <3>2. PICK j \in DOMAIN g[i].ports : p = g[i].ports[j]
      BY <1>4
    <3>3. QED
      BY <1>3, <3>2
  <2>4. QED
    BY <2>1, <2>2, <2>3
<1>8. \A i \in DOMAIN g : \E c \in Claims(g) : c[1] = i
  BY <1>1, <1>3
<1>9. \A c, d \in Claims(g) : Claimed(g, c) = Claimed(g, d) => c = d
  <2>1. TAKE c, d \in Claims(g)
  <2>2. HAVE Claimed(g, c) = Claimed(g, d)
  <2>3. c[1] = d[1] /\ c[2] = d[2]
    BY <1>1, <1>2, <2>2 DEF Faithful, OneOwner, Claimed
  <2>4. QED
    BY <1>2, <2>3
<1>10. QED
  BY <1>2, <1>5, <1>6, <1>7, <1>8, <1>9

LEMMA EdgesMirror ==
  ASSUME NEW g, NEW t, Faithful(g, t)
  PROVE  /\ \A e \in Declared(g) : /\ e[1] \in DOMAIN g /\ e[2] \in DOMAIN g[e[1]].edges /\ e = <<e[1], e[2]>>
                                   /\ EdgeOf(g, e) \in Edges(t) /\ EdgeOf(g, e)[1] = VertexOf(g, e[1])
                                   /\ PortOf(t, EdgeOf(g, e)) = Declares(g, e).port
                                   /\ t.declared_edges[EdgeOf(g, e)[1]][EdgeOf(g, e)[2]] = Declares(g, e)
         /\ \A x \in Edges(t) : \E e \in Declared(g) : x = EdgeOf(g, e)
         /\ \A e, f \in Declared(g) : EdgeOf(g, e) = EdgeOf(g, f) => e = f
<1>1. Len(g) \in Nat /\ DOMAIN g = 1..Len(g) /\ \A i \in DOMAIN g : VertexOf(g, i) \in Vertices(t)
  BY VerticesMirror
<1>2. \A e \in Declared(g) : e[1] \in DOMAIN g /\ e[2] \in DOMAIN g[e[1]].edges /\ e = <<e[1], e[2]>>
  BY DEF Declared
<1>3. \A i \in DOMAIN g : t.declared_edges[VertexOf(g, i)] = g[i].edges
  BY <1>1 DEF Faithful, Mirrors
<1>4. ASSUME NEW e \in Declared(g)
      PROVE  /\ EdgeOf(g, e) \in Edges(t) /\ EdgeOf(g, e)[1] = VertexOf(g, e[1])
             /\ PortOf(t, EdgeOf(g, e)) = Declares(g, e).port
             /\ t.declared_edges[EdgeOf(g, e)[1]][EdgeOf(g, e)[2]] = Declares(g, e)
  <2>1. EdgeOf(g, e)[1] = VertexOf(g, e[1]) /\ EdgeOf(g, e)[2] = e[2]
    BY DEF EdgeOf
  <2>2. t.declared_edges[EdgeOf(g, e)[1]][EdgeOf(g, e)[2]] = Declares(g, e)
    BY <1>2, <1>3, <2>1 DEF Declares
  <2>3. EdgeOf(g, e) \in Outgoing(t, VertexOf(g, e[1]))
    BY <1>2, <1>3 DEF EdgeOf, Outgoing
  <2>4. QED
    BY <1>1, <1>2, <2>1, <2>2, <2>3 DEF Edges, PortOf
<1>5. ASSUME NEW x \in Edges(t) PROVE \E e \in Declared(g) : x = EdgeOf(g, e)
  <2>1. PICK v \in Vertices(t) : x \in Outgoing(t, v)
    BY DEF Edges
  <2>2. PICK i \in DOMAIN g : v = VertexOf(g, i)
    BY VerticesMirror
  <2>3. PICK k \in DOMAIN g[i].edges : x = <<VertexOf(g, i), k>>
    BY <1>3, <2>1, <2>2 DEF Outgoing
  <2>4. <<i, k>> \in Declared(g) /\ EdgeOf(g, <<i, k>>) = <<VertexOf(g, i), k>>
    BY DEF Declared, EdgeOf
  <2>5. QED
    BY <2>3, <2>4
<1>6. \A e, f \in Declared(g) : EdgeOf(g, e) = EdgeOf(g, f) => e = f
  <2>1. TAKE e, f \in Declared(g)
  <2>2. HAVE EdgeOf(g, e) = EdgeOf(g, f)
  <2>3. VertexOf(g, e[1]) = VertexOf(g, f[1]) /\ e[2] = f[2]
    BY <2>2 DEF EdgeOf
  <2>4. e[1] = f[1]
    BY <1>2, <2>3, VerticesMirror
  <2>5. QED
    BY <1>2, <2>3, <2>4
<1>7. QED
  BY <1>2, <1>4, <1>5, <1>6

\* The compiler's checks, one by one.
LEMMA FitMirrors ==
  ASSUME NEW g, NEW t, Faithful(g, t)
  PROVE  EdgesFit(t) <=> \A e \in Declared(g) : \E c \in Claims(g) : Meets(g, e, c)
<1>1. \A i \in DOMAIN g : t.node_contracts[VertexOf(g, i)] = g[i].contract
  <2>1. DOMAIN g = 1..Len(g)
    BY VerticesMirror
  <2>2. QED
    BY <2>1 DEF Faithful, Mirrors
<1>2. ASSUME NEW e \in Declared(g), NEW c \in Claims(g), Claimed(g, c) = Declares(g, e).port
      PROVE  /\ PortOf(t, EdgeOf(g, e)) \in PortIds(t)
             /\ t.node_contracts[EdgeOf(g, e)[1]] = g[e[1]].contract
             /\ t.node_contracts[TargetOf(t, EdgeOf(g, e))] = g[c[1]].contract
  BY <1>1, <1>2, ClaimsMirror, EdgesMirror DEF TargetOf
<1>3. ASSUME EdgesFit(t), NEW e \in Declared(g) PROVE \E c \in Claims(g) : Meets(g, e, c)
  <2>1. PICK x \in Edges(t) : x = EdgeOf(g, e)
    BY EdgesMirror
  <2>2. PortOf(t, x) \in PortIds(t) /\ PortOf(t, x) = Declares(g, e).port
    BY <1>3, <2>1, EdgesMirror DEF EdgesFit
  <2>3. PICK c \in Claims(g) : Claimed(g, c) = Declares(g, e).port
    BY <2>2, ClaimsMirror
  <2>4. /\ t.node_contracts[x[1]] = g[e[1]].contract
        /\ t.node_contracts[TargetOf(t, x)] = g[c[1]].contract
        /\ t.declared_edges[x[1]][x[2]] = Declares(g, e)
    BY <1>2, <2>1, <2>3, EdgesMirror
  <2>5. Declares(g, e).contract = g[c[1]].contract /\ g[e[1]].contract.outputs = g[c[1]].contract.inputs
    BY <1>3, <2>4 DEF EdgesFit
  <2>6. QED
    BY <2>3, <2>5 DEF Meets
<1>4. ASSUME \A e \in Declared(g) : \E c \in Claims(g) : Meets(g, e, c) PROVE EdgesFit(t)
  <2>1. ASSUME NEW x \in Edges(t)
        PROVE  /\ PortOf(t, x) \in PortIds(t)
               /\ t.declared_edges[x[1]][x[2]].contract = t.node_contracts[TargetOf(t, x)]
               /\ t.node_contracts[x[1]].outputs = t.node_contracts[TargetOf(t, x)].inputs
    <3>1. PICK e \in Declared(g) : x = EdgeOf(g, e)
      BY EdgesMirror
    <3>2. PICK c \in Claims(g) : Meets(g, e, c)
      BY <1>4
    <3>3. /\ PortOf(t, x) \in PortIds(t)
          /\ t.node_contracts[x[1]] = g[e[1]].contract
          /\ t.node_contracts[TargetOf(t, x)] = g[c[1]].contract
          /\ t.declared_edges[x[1]][x[2]] = Declares(g, e)
      BY <1>2, <3>1, <3>2, EdgesMirror DEF Meets
    <3>4. QED
      BY <3>2, <3>3 DEF Meets
  <2>2. QED
    BY <2>1 DEF EdgesFit
<1>5. QED
  BY <1>3, <1>4

LEMMA DeclaredAreFinite ==
  ASSUME NEW g, NEW t, Faithful(g, t) PROVE IsFiniteSet(Declared(g)) /\ IsFiniteSet(Edges(t))
<1> DEFINE F(i) == {<<i, j>> : j \in DOMAIN g[i].edges}
           S == {F(i) : i \in DOMAIN g}
           f == [i \in DOMAIN g |-> F(i)]
<1>1. \A i \in DOMAIN g : IsFiniteSet(F(i))
  <2>1. TAKE i \in DOMAIN g
  <2>2. F(i) = {i} \X DOMAIN g[i].edges
    OBVIOUS
  <2>3. IsFiniteSet({i}) /\ IsFiniteSet(DOMAIN g[i].edges)
    BY FS_Singleton, VerticesMirror
  <2>4. QED
    BY <2>2, <2>3, FS_Product
<1>2. IsFiniteSet(DOMAIN g)
  BY VerticesMirror, FS_Interval
<1>3. f \in Surjection(DOMAIN g, S)
  BY DEF Surjection
<1>4. IsFiniteSet(S)
  BY <1>2, <1>3, FS_Surjection
<1>5. \A T \in S : IsFiniteSet(T)
  BY <1>1
<1>6. IsFiniteSet(UNION S)
  BY <1>4, <1>5, FS_UNION
<1>7. Declared(g) = UNION S
  BY DEF Declared
<1>8. IsFiniteSet(Declared(g))
  BY <1>6, <1>7
<1> DEFINE h == [e \in Declared(g) |-> EdgeOf(g, e)]
<1>9. h \in Surjection(Declared(g), Edges(t))
  BY EdgesMirror DEF Surjection
<1>10. QED
  BY <1>8, <1>9, FS_Surjection

LEMMA FedMirrors ==
  ASSUME NEW g, NEW t, Faithful(g, t)
  PROVE  PortsFed(t) <=>
           /\ \A c \in Claims(g) : Cardinality(Fed(g, c)) <= 1
           /\ \A c, d \in Claims(g) : c[1] = d[1] => (Fed(g, c) = {} <=> Fed(g, d) = {})
<1> DEFINE count(c) == Cardinality(Producers(t, Claimed(g, c)))
<1>1. ASSUME NEW c \in Claims(g)
      PROVE  /\ IsFiniteSet(Fed(g, c)) /\ IsFiniteSet(Producers(t, Claimed(g, c)))
             /\ Fed(g, c) = {} <=> Producers(t, Claimed(g, c)) = {}
             /\ (\A e, f \in Fed(g, c) : e = f) <=> \A x, y \in Producers(t, Claimed(g, c)) : x = y
  <2>1. IsFiniteSet(Fed(g, c)) /\ IsFiniteSet(Producers(t, Claimed(g, c)))
    <3>1. Fed(g, c) \subseteq Declared(g) /\ Producers(t, Claimed(g, c)) \subseteq Edges(t)
      BY DEF Fed, Producers
    <3>2. QED
      BY <3>1, DeclaredAreFinite, FS_Subset
  <2>2. \A e \in Fed(g, c) : e \in Declared(g) /\ EdgeOf(g, e) \in Producers(t, Claimed(g, c))
    BY EdgesMirror DEF Fed, Producers
  <2>3. \A x \in Producers(t, Claimed(g, c)) : \E e \in Fed(g, c) : x = EdgeOf(g, e)
    BY EdgesMirror DEF Fed, Producers
  <2>4. \A e, f \in Declared(g) : EdgeOf(g, e) = EdgeOf(g, f) => e = f
    BY EdgesMirror
  <2>5. QED
    BY <2>1, <2>2, <2>3, <2>4
<1>2. \A c \in Claims(g) : /\ count(c) \in Nat /\ (count(c) = 0 <=> Fed(g, c) = {})
                           /\ count(c) <= 1 <=> Cardinality(Fed(g, c)) <= 1
  BY <1>1, SmallSets
<1>3. \A i \in DOMAIN g : {Cardinality(Producers(t, p)) : p \in PortsOf(t, VertexOf(g, i))}
                          = {count(c) : c \in {d \in Claims(g) : d[1] = i}}
  <2>1. TAKE i \in DOMAIN g
  <2>2. PortsOf(t, VertexOf(g, i)) = {Claimed(g, c) : c \in {d \in Claims(g) : d[1] = i}}
    BY ClaimsMirror
  <2>3. QED
    BY <2>2
<1>4. PortsFed(t) <=> \A i \in DOMAIN g : {count(c) : c \in {d \in Claims(g) : d[1] = i}} \in {{0}, {1}}
  <2>1. \A v \in Vertices(t) : \E i \in DOMAIN g : v = VertexOf(g, i)
    BY VerticesMirror
  <2>2. \A i \in DOMAIN g : VertexOf(g, i) \in Vertices(t)
    BY VerticesMirror
  <2> HIDE DEF count
  <2>3. QED
    BY <1>3, <2>1, <2>2 DEF PortsFed
<1> HIDE DEF count
<1>5. ASSUME PortsFed(t)
      PROVE  /\ \A c \in Claims(g) : count(c) <= 1
             /\ \A c, d \in Claims(g) : c[1] = d[1] => (count(c) = 0 <=> count(d) = 0)
  <2>1. \A c \in Claims(g) : c[1] \in DOMAIN g
    BY ClaimsMirror
  <2>2. \A i \in DOMAIN g : \E k \in {0, 1} : \A c \in Claims(g) : c[1] = i => count(c) = k
    BY <1>4, <1>5
  <2>3. QED
    BY <2>1, <2>2
<1>6. ASSUME \A c \in Claims(g) : count(c) <= 1,
             \A c, d \in Claims(g) : c[1] = d[1] => (count(c) = 0 <=> count(d) = 0)
      PROVE  PortsFed(t)
  <2>1. ASSUME NEW i \in DOMAIN g
        PROVE  {count(c) : c \in {d \in Claims(g) : d[1] = i}} \in {{0}, {1}}
    <3>1. PICK b \in Claims(g) : b[1] = i
      BY ClaimsMirror
    <3>2. count(b) \in {0, 1}
      BY <1>2, <1>6
    <3>3. \A c \in Claims(g) : c[1] = i => count(c) = count(b)
      BY <1>2, <1>6, <3>1
    <3>4. {count(c) : c \in {d \in Claims(g) : d[1] = i}} = {count(b)}
      BY <3>1, <3>3
    <3>5. QED
      BY <3>2, <3>4
  <2>2. QED
    BY <1>4, <2>1
<1>7. QED
  BY <1>2, <1>5, <1>6

LEMMA SinksMirror ==
  ASSUME NEW g, NEW t, Faithful(g, t)
  PROVE  Cardinality(Sinks(t)) = 1 <=> \E i \in DOMAIN g : \A j \in DOMAIN g : g[j].edges = <<>> <=> i = j
<1>1. \A i \in DOMAIN g : VertexOf(g, i) \in Sinks(t) <=> g[i].edges = <<>>
  <2>1. TAKE i \in DOMAIN g
  <2>2. t.declared_edges[VertexOf(g, i)] = g[i].edges /\ VertexOf(g, i) \in Vertices(t)
    BY VerticesMirror DEF Faithful, Mirrors
  <2>3. Outgoing(t, VertexOf(g, i)) = {} <=> DOMAIN g[i].edges = {}
    BY <2>2 DEF Outgoing
  <2>4. QED
    BY <2>2, <2>3, VerticesMirror DEF Sinks
<1>2. IsFiniteSet(Sinks(t))
  <2>1. IsFiniteSet(DOMAIN g)
    BY VerticesMirror, FS_Interval
  <2> DEFINE f == [i \in DOMAIN g |-> VertexOf(g, i)]
  <2>2. f \in Surjection(DOMAIN g, Vertices(t))
    BY VerticesMirror DEF Surjection
  <2>3. IsFiniteSet(Vertices(t))
    BY <2>1, <2>2, FS_Surjection
  <2>4. Sinks(t) \subseteq Vertices(t)
    BY DEF Sinks
  <2>5. QED
    BY <2>3, <2>4, FS_Subset
<1>3. Cardinality(Sinks(t)) = 1 <=> \E v : Sinks(t) = {v}
  BY <1>2, SmallSets
<1>4. ASSUME NEW v, Sinks(t) = {v} PROVE \E i \in DOMAIN g : \A j \in DOMAIN g : g[j].edges = <<>> <=> i = j
  <2>1. PICK i \in DOMAIN g : v = VertexOf(g, i)
    BY <1>4, VerticesMirror DEF Sinks
  <2>2. \A j \in DOMAIN g : g[j].edges = <<>> <=> i = j
    BY <1>1, <1>4, <2>1, VerticesMirror
  <2>3. QED
    BY <2>2
<1>5. ASSUME NEW i \in DOMAIN g, \A j \in DOMAIN g : g[j].edges = <<>> <=> i = j
      PROVE  Sinks(t) = {VertexOf(g, i)}
  <2>1. \A v \in Sinks(t) : \E j \in DOMAIN g : v = VertexOf(g, j)
    BY VerticesMirror DEF Sinks
  <2>2. QED
    BY <1>1, <1>5, <2>1
<1>6. QED
  BY <1>3, <1>4, <1>5

LEMMA VisitedIsLast ==
  ASSUME NEW t, NEW n \in Nat, n = Cardinality(Vertices(t))
  PROVE  \E after : Rounds(t, after, n) /\ Visited(t) = after[n]
<1> DEFINE after == CHOOSE f : Rounds(t, f, n)
<1>1. Rounds(t, after, n)
  BY RoundsExist
<1>2. Visited(t) = after[n]
  BY DEF Visited, Rounds
<1>3. QED
  BY <1>1, <1>2

\* Every edge leads forward.
Forward(g, place) ==
  /\ place \in [DOMAIN g -> 0..Len(g)]
  /\ \A e \in Declared(g) : \A c \in Claims(g) :
       Claimed(g, c) = Declares(g, e).port => place[e[1]] < place[c[1]]

\* Kahn's queue gets to all vertices when there are such places.
LEMMA PlacesMirror ==
  ASSUME NEW g, NEW t, Faithful(g, t), EdgesFit(t)
  PROVE  Visited(t) = Vertices(t) <=> \E place : Forward(g, place)
<1> DEFINE n == Len(g)
<1>1. n \in Nat /\ DOMAIN g = 1..n /\ n = Cardinality(Vertices(t))
  <2>1. Len(g) \in Nat /\ DOMAIN g = 1..Len(g)
    BY VerticesMirror
  <2> DEFINE f == [i \in 1..Len(g) |-> VertexOf(g, i)]
  <2>2. f \in Bijection(1..Len(g), Vertices(t))
    BY <2>1, VerticesMirror DEF Bijection, Injection, Surjection, IsInjective
  <2>3. IsFiniteSet(1..Len(g)) /\ Cardinality(1..Len(g)) = Len(g)
    <3>1. PICK k \in Nat : k = Len(g)
      BY <2>1
    <3>2. IsFiniteSet(1..k) /\ Cardinality(1..k) = IF 1 > k THEN 0 ELSE k - 1 + 1
      <4>1. 1 \in Int /\ k \in Int
        OBVIOUS
      <4>2. QED
        BY <4>1, FS_Interval
    <3>3. (IF 1 > k THEN 0 ELSE k - 1 + 1) = k
      OBVIOUS
    <3>4. QED
      BY <3>1, <3>2, <3>3
  <2>4. Cardinality(Vertices(t)) = Len(g)
    <3>1. ExistsBijection(1..Len(g), Vertices(t))
      BY <2>2 DEF ExistsBijection
    <3>2. QED
      BY <2>3, <3>1, FS_Bijection
  <2>5. QED
    BY <2>1, <2>4
<1>2. PICK after : Rounds(t, after, n) /\ Visited(t) = after[n]
  BY <1>1, VisitedIsLast
<1>3. /\ after[0] = Roots(t)
      /\ \A m \in 1..n : after[m] = {v \in Vertices(t) : \A x \in Incoming(t, v) : x[1] \in after[m - 1]}
      /\ Visited(t) \subseteq Vertices(t)
  <2>1. 0 \in 0..n /\ n \in 0..n /\ \A m \in 1..n : m \in 0..n /\ m # 0
    BY <1>1
  <2>2. after[0] = Roots(t)
    BY <1>2, <2>1 DEF Rounds
  <2>3. \A m \in 1..n : after[m] = {v \in Vertices(t) : \A x \in Incoming(t, v) : x[1] \in after[m - 1]}
    BY <1>2, <2>1 DEF Rounds
  <2>4. n = 0 \/ n \in 1..n
    BY <1>1
  <2>5. QED
    BY <1>2, <2>2, <2>3, <2>4 DEF Roots
<1>4. \A i \in DOMAIN g : \A x \in Incoming(t, VertexOf(g, i)) :
        \E e \in Declared(g) : \E c \in Claims(g) :
          x[1] = VertexOf(g, e[1]) /\ e[1] \in DOMAIN g /\ c[1] = i /\ Claimed(g, c) = Declares(g, e).port
  <2>1. TAKE i \in DOMAIN g
  <2>2. TAKE x \in Incoming(t, VertexOf(g, i))
  <2>3. x \in Edges(t) /\ TargetOf(t, x) = VertexOf(g, i)
    BY DEF Incoming
  <2>4. PICK e \in Declared(g) : x = EdgeOf(g, e)
    BY <2>3, EdgesMirror
  <2>5. PortOf(t, x) \in PortIds(t) /\ PortOf(t, x) = Declares(g, e).port
    BY <2>3, <2>4, EdgesMirror DEF EdgesFit
  <2>6. PICK c \in Claims(g) : Claimed(g, c) = Declares(g, e).port
    BY <2>5, ClaimsMirror
  <2>7. c[1] = i
    <3>1. TargetOf(t, x) = VertexOf(g, c[1]) /\ c[1] \in DOMAIN g
      BY <2>5, <2>6, ClaimsMirror DEF TargetOf
    <3>2. QED
      BY ZenonT(60), <2>3, <3>1, VerticesMirror
  <2>8. QED
    BY <2>4, <2>6, <2>7, EdgesMirror
<1>5. \A e \in Declared(g) : \A c \in Claims(g) : Claimed(g, c) = Declares(g, e).port =>
        /\ EdgeOf(g, e) \in Incoming(t, VertexOf(g, c[1])) /\ EdgeOf(g, e)[1] = VertexOf(g, e[1])
        /\ c[1] \in DOMAIN g /\ e[1] \in DOMAIN g
  BY ClaimsMirror, EdgesMirror DEF Incoming, TargetOf
<1> HIDE DEF n
<1>6. ASSUME Visited(t) = Vertices(t) PROVE \E place : Forward(g, place)
  <2> DEFINE rounds(i) == {m \in 0..n : VertexOf(g, i) \in after[m]}
             First(i, m) == m \in rounds(i) /\ \A k \in rounds(i) : m <= k
             place == [i \in DOMAIN g |-> CHOOSE m : First(i, m)]
  <2>1. \A i \in DOMAIN g : \E m : First(i, m)
    <3>1. TAKE i \in DOMAIN g
    <3>2. n \in rounds(i)
      <4>1. n \in 0..n
        BY <1>1
      <4>2. VertexOf(g, i) \in after[n]
        BY <1>2, <1>6, VerticesMirror
      <4>3. QED
        BY <4>1, <4>2
    <3>3. rounds(i) \subseteq Nat
      OBVIOUS
    <3>4. QED
      BY <3>2, <3>3, LeastNumber
  <2>2. \A i \in DOMAIN g : First(i, place[i])
    BY <2>1
  <2> HIDE DEF place, First
  <2>3. \A i \in DOMAIN g : place[i] \in 0..n /\ VertexOf(g, i) \in after[place[i]]
                            /\ \A k \in 0..n : VertexOf(g, i) \in after[k] => place[i] <= k
    BY <2>2 DEF First
  <2>4. ASSUME NEW e \in Declared(g), NEW c \in Claims(g), Claimed(g, c) = Declares(g, e).port
        PROVE  place[e[1]] < place[c[1]]
    <3>1. /\ EdgeOf(g, e) \in Incoming(t, VertexOf(g, c[1])) /\ EdgeOf(g, e)[1] = VertexOf(g, e[1])
          /\ c[1] \in DOMAIN g /\ e[1] \in DOMAIN g
      BY <1>5, <2>4
    <3>2. PICK m \in 0..n : m = place[c[1]] /\ VertexOf(g, c[1]) \in after[m]
      BY <2>3, <3>1
    <3>3. m # 0
      BY <1>3, <3>1, <3>2 DEF Roots
    <3>4. m \in 1..n /\ m - 1 \in 0..n
      BY <1>1, <3>3
    <3>5. VertexOf(g, e[1]) \in after[m - 1]
      BY <1>3, <3>1, <3>2, <3>4
    <3>6. place[e[1]] <= m - 1 /\ place[e[1]] \in 0..n
      BY <2>3, <3>1, <3>4, <3>5
    <3>7. QED
      BY <1>1, <3>2, <3>6
  <2>5. place \in [DOMAIN g -> 0..n]
    <3>1. place = [i \in DOMAIN g |-> place[i]]
      BY DEF place
    <3>2. QED
      BY <2>3, <3>1
  <2>6. QED
    BY <2>4, <2>5 DEF Forward, n
<1>7. ASSUME NEW place, Forward(g, place) PROVE Visited(t) = Vertices(t)
  <2>1. place \in [DOMAIN g -> 0..n]
    BY <1>7 DEF Forward, n
  <2>2. ASSUME NEW m \in 0..n, m # 0 => \A i \in DOMAIN g : place[i] <= m - 1 => VertexOf(g, i) \in after[m - 1],
               NEW i \in DOMAIN g, place[i] <= m
        PROVE  VertexOf(g, i) \in after[m]
    <3>1. \A x \in Incoming(t, VertexOf(g, i)) : \E k \in DOMAIN g : x[1] = VertexOf(g, k) /\ place[k] < place[i]
      BY <1>4, <1>7 DEF Forward
    <3>2. VertexOf(g, i) \in Vertices(t) /\ place[i] \in 0..n
      BY <2>1, VerticesMirror
    <3>3. CASE m = 0
      <4>1. \A k \in DOMAIN g : ~(place[k] < place[i])
        BY <1>1, <2>1, <2>2, <3>2, <3>3
      <4>2. Incoming(t, VertexOf(g, i)) = {}
        BY <3>1, <4>1
      <4>3. QED
        BY <1>3, <3>2, <3>3, <4>2 DEF Roots
    <3>4. CASE m # 0
      <4>1. m \in 1..n
        BY <1>1, <3>4
      <4>2. \A k \in DOMAIN g : place[k] < place[i] => place[k] <= m - 1
        <5>1. TAKE k \in DOMAIN g
        <5>2. PICK a, b : a = place[k] /\ b = place[i]
          OBVIOUS
        <5>3. a \in 0..n /\ b \in 0..n /\ b <= m
          BY <2>1, <2>2, <3>2, <5>2
        <5>4. a < b => a <= m - 1
          BY <1>1, <4>1, <5>3
        <5>5. QED
          BY <5>2, <5>4
      <4>3. \A x \in Incoming(t, VertexOf(g, i)) : x[1] \in after[m - 1]
        BY <2>2, <3>1, <3>4, <4>2
      <4>4. QED
        BY <1>3, <3>2, <4>1, <4>3
    <3>5. QED
      BY <3>3, <3>4
  <2> DEFINE Behind == {m \in 0..n : \E i \in DOMAIN g : place[i] <= m /\ VertexOf(g, i) \notin after[m]}
  <2>3. ASSUME Behind # {} PROVE FALSE
    <3>1. Behind \subseteq Nat
      OBVIOUS
    <3>2. PICK m \in Behind : \A k \in Behind : m <= k
      BY <2>3, <3>1, LeastNumber
    <3>3. m \in 0..n
      OBVIOUS
    <3>4. m # 0 => m - 1 \in 0..n /\ ~(m <= m - 1)
      BY <1>1, <3>3
    <3>5. m # 0 => m - 1 \notin Behind
      BY <3>2, <3>4
    <3>6. m # 0 => \A i \in DOMAIN g : place[i] <= m - 1 => VertexOf(g, i) \in after[m - 1]
      BY <3>4, <3>5
    <3>7. \A i \in DOMAIN g : place[i] <= m => VertexOf(g, i) \in after[m]
      BY <2>2, <3>3, <3>6
    <3>8. QED
      BY <3>7
  <2>4. n \in 0..n /\ n \notin Behind
    BY <1>1, <2>3
  <2>5. \A i \in DOMAIN g : place[i] <= n
    BY <1>1, <2>1
  <2>6. \A i \in DOMAIN g : VertexOf(g, i) \in after[n]
    BY <2>4, <2>5
  <2>7. Vertices(t) \subseteq after[n]
    BY <2>6, VerticesMirror
  <2>8. QED
    BY <1>2, <1>3, <2>7
<1>8. QED
  BY <1>6, <1>7

\* The compiler takes what it registered exactly when that is sound.
LEMMA ResolvesIsSound ==
  ASSUME NEW g, Descriptors(g), NEW t, Built(g, Len(g), t)
  PROVE  Resolves(t) <=> Sound(g)
<1>1. \A c \in Claims(g) : c[1] \in DOMAIN g /\ c[2] \in DOMAIN g[c[1]].ports /\ c = <<c[1], c[2]>>
  BY DEF Claims
<1>2. OneOwner(g, Len(g)) <=> \A c, d \in Claims(g) : Claimed(g, c) = Claimed(g, d) => c = d
  <2>1. DOMAIN g = 1..Len(g)
    BY DEF Descriptors
  <2>2. ASSUME OneOwner(g, Len(g)), NEW c \in Claims(g), NEW d \in Claims(g), Claimed(g, c) = Claimed(g, d)
        PROVE  c = d
    <3>1. c[1] = d[1] /\ c[2] = d[2]
      BY <1>1, <2>1, <2>2 DEF OneOwner, Claimed
    <3>2. QED
      BY <1>1, <3>1
  <2>3. ASSUME \A c, d \in Claims(g) : Claimed(g, c) = Claimed(g, d) => c = d,
               NEW i \in 1..Len(g), NEW k \in 1..Len(g), NEW j \in DOMAIN g[i].ports, NEW l \in DOMAIN g[k].ports,
               g[i].ports[j] = g[k].ports[l]
        PROVE  i = k /\ j = l
    <3>1. <<i, j>> \in Claims(g) /\ <<k, l>> \in Claims(g)
      BY <2>1 DEF Claims
    <3>2. Claimed(g, <<i, j>>) = Claimed(g, <<k, l>>)
      BY <2>3 DEF Claimed
    <3>3. <<i, j>> = <<k, l>>
      BY <2>3, <3>1, <3>2
    <3>4. QED
      BY <3>3
  <2>4. QED
    BY <2>2, <2>3 DEF OneOwner
<1>3. CASE ~OneOwner(g, Len(g))
  BY <1>2, <1>3 DEF Built, Resolves, Sound
<1>4. CASE OneOwner(g, Len(g))
  <2>1. Faithful(g, t) /\ t.duplicate_ports = {}
    BY <1>4 DEF Built, Faithful
  <2> DEFINE One  == \A c, d \in Claims(g) : Claimed(g, c) = Claimed(g, d) => c = d
             Fit == \A e \in Declared(g) : \E c \in Claims(g) : Meets(g, e, c)
             Fusions == /\ \A c \in Claims(g) : Cardinality(Fed(g, c)) <= 1
                        /\ \A c, d \in Claims(g) : c[1] = d[1] => (Fed(g, c) = {} <=> Fed(g, d) = {})
             Places == \E place \in [DOMAIN g -> 0..Len(g)] : \A e \in Declared(g) : \E c \in Claims(g) :
                         Meets(g, e, c) /\ place[e[1]] < place[c[1]]
             OneSink == \E i \in DOMAIN g : \A j \in DOMAIN g : g[j].edges = <<>> <=> i = j
  <2>2. Sound(g) <=> One /\ Fusions /\ Places /\ OneSink
    BY DEF Sound
  <2>3. One
    BY <1>2, <1>4
  <2>4. EdgesFit(t) <=> Fit
    BY <2>1, FitMirrors
  <2>5. PortsFed(t) <=> Fusions
    BY <2>1, FedMirrors
  <2>6. Cardinality(Sinks(t)) = 1 <=> OneSink
    BY <2>1, SinksMirror
  <2>7. Places <=> Fit /\ \E place : Forward(g, place)
    <3>1. ASSUME Places PROVE Fit /\ \E place : Forward(g, place)
      <4>1. PICK place \in [DOMAIN g -> 0..Len(g)] : \A e \in Declared(g) : \E c \in Claims(g) :
              Meets(g, e, c) /\ place[e[1]] < place[c[1]]
        BY <3>1
      <4>2. Fit
        BY <4>1
      <4>3. Forward(g, place)
        BY <2>3, <4>1 DEF Forward, Meets
      <4>4. QED
        BY <4>2, <4>3
    <3>2. ASSUME Fit, NEW place, Forward(g, place) PROVE Places
      <4>1. place \in [DOMAIN g -> 0..Len(g)]
        BY <3>2 DEF Forward
      <4>2. \A e \in Declared(g) : \E c \in Claims(g) : Meets(g, e, c) /\ place[e[1]] < place[c[1]]
        BY <3>2 DEF Forward, Meets
      <4>3. QED
        BY <4>1, <4>2
    <3>3. QED
      BY <3>1, <3>2
  <2>8. OneSink => Vertices(t) # {}
    <3>1. ASSUME NEW i \in DOMAIN g PROVE Vertices(t) # {}
      BY <2>1, VerticesMirror
    <3>2. QED
      BY <3>1
  <2>9. EdgesFit(t) => (Visited(t) = Vertices(t) <=> \E place : Forward(g, place))
    BY <2>1, PlacesMirror
  <2> HIDE DEF One, Fit, Fusions, Places, OneSink
  <2>10. QED
    BY <2>1, <2>2, <2>3, <2>4, <2>5, <2>6, <2>7, <2>8, <2>9 DEF Resolves
<1>5. QED
  BY <1>3, <1>4

-----------------------------------------------------------------------------
(* Compiling                                                               *)

\* While it compiles, the driver has what it has registered.
Compiling ==
  /\ graph \in Graphs
  /\ phase = "deploy" => deployed \in 0..Len(graph) /\ Built(graph, deployed, topology)
  /\ FinalizedIsSound

LEMMA GraphsHaveDescriptors ==
  ASSUME NEW g \in Graphs PROVE Descriptors(g) /\ Len(g) \in Nat /\ DOMAIN g = 1..Len(g)
<1>1. g \in Seq(Range(g))
  BY GraphsAssumption
<1>2. Len(g) \in Nat /\ DOMAIN g = 1..Len(g)
  BY <1>1
<1>3. QED
  BY <1>1, <1>2, GraphsAssumption DEF Descriptors, Descriptor

LEMMA InitCompiles == Init => Compiling
<1>1. SUFFICES ASSUME Init PROVE Compiling
  OBVIOUS
<1>2. graph \in Graphs /\ phase = "deploy" /\ deployed = 0 /\ topology = NoTopology
  BY <1>1 DEF Init
<1>3. deployed \in 0..Len(graph) /\ Built(graph, deployed, topology)
  BY <1>2, GraphsHaveDescriptors, NothingBuilt
<1>4. QED
  BY <1>2, <1>3 DEF Compiling, FinalizedIsSound

LEMMA SpawnCompiles ==
  ASSUME Compiling, Spawn PROVE Compiling'
<1>1. PICK g, n, t, s : g = graph /\ n = deployed /\ t = topology /\ s = topology'
  OBVIOUS
<1>2. g \in Graphs /\ graph' = g /\ phase' = "deploy" /\ n < Len(g) /\ deployed' = n + 1
      /\ s = Register(t, g[n + 1]) /\ n \in 0..Len(g) /\ Built(g, n, t)
  BY <1>1 DEF Spawn, Compiling
<1>3. Descriptors(g) /\ Len(g) \in Nat /\ DOMAIN g = 1..Len(g)
  BY <1>2, GraphsHaveDescriptors
<1>4. n \in Nat /\ n + 1 \in 0..Len(g) /\ n + 1 \in DOMAIN g
  BY <1>2, <1>3
<1>5. Built(g, n + 1, s)
  BY <1>2, <1>3, <1>4, RegisterBuilds
<1>6. QED
  BY <1>1, <1>2, <1>4, <1>5 DEF Compiling, FinalizedIsSound

LEMMA FinalizeCompiles ==
  ASSUME Compiling, Finalize PROVE Compiling'
<1>1. PICK g, t : g = graph /\ t = topology
  OBVIOUS
<1>2. g \in Graphs /\ graph' = g /\ Built(g, Len(g), t) /\ phase' = IF Resolves(t) THEN "begin" ELSE "rejected"
  BY <1>1 DEF Finalize, Compiling
<1>3. Resolves(t) <=> Sound(g)
  BY <1>2, GraphsHaveDescriptors, ResolvesIsSound
<1>4. QED
  BY <1>2, <1>3 DEF Compiling, FinalizedIsSound

\* Nothing but compiling is done before a verdict, nor after a graph is rejected.
LEMMA VerdictStands ==
  ASSUME Compiling, graph' = graph,
         \/ UNCHANGED <<phase, deployed, topology>>
         \/ phase' = "stopped"
         \/ phase \notin {"deploy", "rejected", "stopped"} /\ phase' \notin {"deploy", "rejected"}
  PROVE  Compiling'
BY DEF Compiling, FinalizedIsSound

LEMMA StepCompiles ==
  ASSUME Compiling, [Next]_vars PROVE Compiling'
<1>1. CASE Spawn
  BY <1>1, SpawnCompiles
<1>2. CASE Finalize
  BY <1>2, FinalizeCompiles
<1>3. CASE Begin \/ Collect \/ Prepare \/ SeedRoots \/ RootsSeeded \/ CallFails
  BY <1>3, VerdictStands DEF Begin, Collect, Prepare, SeedRoots, RootsSeeded, CallFails
<1>4. CASE SendsOne
  <2>1. graph' = graph /\ (UNCHANGED <<phase, deployed, topology>> \/ phase' = "stopped")
    BY <1>4 DEF SendsOne, UploadFails
  <2>2. QED
    BY <2>1, VerdictStands
<1>5. CASE TakeOutput
  <2>1. graph' = graph /\ phase = "wait" /\ phase' \in {"failed", "forwarding"}
    BY <1>5 DEF TakeOutput
  <2>2. QED
    BY <2>1, VerdictStands
<1>6. CASE OutputForwarded
  <2>1. \A pending, out : Continue(pending, out) \in {"drain", "begin", "wait", "seed"}
    BY DEF Continue
  <2>2. graph' = graph /\ phase = "forwarding" /\ phase' \in {"failed", "drain", "begin", "wait", "seed"}
    BY <1>6, <2>1 DEF OutputForwarded
  <2>3. QED
    BY <2>2, VerdictStands
<1>7. CASE Drain
  <2>1. \A pending, out : Continue(pending, out) \in {"drain", "begin", "wait", "seed"}
    BY DEF Continue
  <2>2. graph' = graph /\ phase = "drain" /\ phase' \in {"drain", "begin", "wait", "seed"}
    BY <1>7, <2>1 DEF Drain
  <2>3. QED
    BY <2>2, VerdictStands
<1>8. ASSUME NEW v \in DOMAIN cell, Cell(v) \/ CellDies(v) PROVE Compiling'
  BY <1>8, VerdictStands DEF Cell, Start, Receive, Respond, CellDies
<1>9. CASE UNCHANGED vars
  BY <1>9, VerdictStands
<1>10. QED
  BY <1>1, <1>2, <1>3, <1>4, <1>5, <1>6, <1>7, <1>8, <1>9 DEF Next, Driver

\* Whatever the graph, the compiler refuses it exactly when the schedulers cannot
\* run it: its checks of edges, of the counts per port, of Kahn's order and of the
\* sink, on what registering has made of the descriptors, together decide whether
\* the descriptors are sound (resolve_neutral_topology).
THEOREM CompilesWhatIsSound == Spec => []FinalizedIsSound
<1>1. Init => Compiling
  BY InitCompiles
<1>2. Compiling /\ [Next]_vars => Compiling'
  BY StepCompiles
<1>3. Compiling => FinalizedIsSound
  BY DEF Compiling
<1>4. QED
  BY <1>1, <1>2, <1>3, PTL DEF Spec
==============================================================================
