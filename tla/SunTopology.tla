----------------------------- MODULE SunTopology -----------------------------
(***************************************************************************)
(* Compiling a Sun (_black_hole_flux/src/compile, src/topology): the       *)
(* descriptors of a graph are registered one by one, resolve_neutral_      *)
(* topology accepts or refuses what they make, and the frontier of a       *)
(* forward pass advances over it.  Pure operators, no state.               *)
(*                                                                         *)
(* A descriptor is Unary, Warp (one port) or Binary (two): its ports, its  *)
(* operation's contract and, for each output, the port it feeds and the    *)
(* contract the program declared for the vertex behind that port.  The     *)
(* declared contract of the source is its own, by its type.                *)
(***************************************************************************)
EXTENDS Naturals, Sequences, FiniteSets, SequencesExt

NoTopology == [vertex_ports |-> <<>>, port_vertices |-> <<>>, declared_edges |-> <<>>,
               node_contracts |-> <<>>, duplicate_ports |-> {}]

\* What f says, and g where f says nothing.
OrElse(f, g) == [x \in DOMAIN f \cup DOMAIN g |-> IF x \in DOMAIN f THEN f[x] ELSE g[x]]

\* register_vertex: the first port names the vertex, and the first owner keeps
\* whatever is claimed twice.
Register(t, d) ==
  LET vertex == d.ports[1]
      again  == {p \in Range(d.ports) : \/ p \in DOMAIN t.port_vertices
                                        \/ Cardinality({i \in DOMAIN d.ports : d.ports[i] = p}) > 1}
  IN  [vertex_ports    |-> OrElse(t.vertex_ports, [v \in {vertex} |-> d.ports]),
       port_vertices   |-> OrElse(t.port_vertices, [p \in Range(d.ports) |-> vertex]),
       declared_edges  |-> OrElse(t.declared_edges, [v \in {vertex} |-> d.edges]),
       node_contracts  |-> OrElse(t.node_contracts, [v \in {vertex} |-> d.contract]),
       duplicate_ports |-> t.duplicate_ports \cup again]

Vertices(t) == DOMAIN t.vertex_ports
PortIds(t)  == DOMAIN t.port_vertices
PortsOf(t, v) == Range(t.vertex_ports[v])

\* The edges of v, and those that lead to a port or a vertex.
Outgoing(t, v) == {<<v, i>> : i \in DOMAIN t.declared_edges[v]}
Edges(t)       == UNION {Outgoing(t, v) : v \in Vertices(t)}
PortOf(t, e)   == t.declared_edges[e[1]][e[2]].port
TargetOf(t, e) == t.port_vertices[PortOf(t, e)]
Producers(t, p) == {e \in Edges(t) : PortOf(t, e) = p}
Incoming(t, v)  == {e \in Edges(t) : TargetOf(t, e) = v}

Roots(t) == {v \in Vertices(t) : Incoming(t, v) = {}}
Sinks(t) == {v \in Vertices(t) : Outgoing(t, v) = {}}
Sink(t)  == CHOOSE v \in Sinks(t) : TRUE

EdgesFit(t) ==
  \A e \in Edges(t) :
    /\ PortOf(t, e) \in PortIds(t)
    /\ LET source == t.node_contracts[e[1]]  target == t.node_contracts[TargetOf(t, e)] IN
       /\ t.declared_edges[e[1]][e[2]].contract = target
       /\ source.outputs = target.inputs

\* Mutant of PortsFed: a port of two may stay without.
PortsFedSome(t) == \A p \in PortIds(t) : Cardinality(Producers(t, p)) <= 1

\* No port of a vertex is fed, or each is, and by one edge.
PortsFed(t) ==
  \A v \in Vertices(t) :
    LET counts == {Cardinality(Producers(t, p)) : p \in PortsOf(t, v)} IN counts \in {{0}, {1}}

\* Those Kahn's queue gets to: first the roots, then what only they feed, ...
Visited(t) ==
  LET n == Cardinality(Vertices(t))
      after[i \in 0..n] ==
        IF i = 0 THEN Roots(t)
        ELSE {v \in Vertices(t) : \A e \in Incoming(t, v) : e[1] \in after[i - 1]}
  IN  after[n]

\* resolve_neutral_topology.
Resolves(t) ==
  /\ t.duplicate_ports = {} /\ Vertices(t) # {}
  /\ EdgesFit(t) /\ PortsFed(t)
  /\ Visited(t) = Vertices(t)
  /\ Cardinality(Sinks(t)) = 1

\* Of a graph: the ports its descriptors claim, the edges they declare, and the
\* edges that feed a port.
Claims(graph)      == UNION {{<<i, j>> : j \in DOMAIN graph[i].ports} : i \in DOMAIN graph}
Declared(graph)    == UNION {{<<i, j>> : j \in DOMAIN graph[i].edges} : i \in DOMAIN graph}
Claimed(graph, c)  == graph[c[1]].ports[c[2]]
Declares(graph, e) == graph[e[1]].edges[e[2]]
Fed(graph, c)      == {e \in Declared(graph) : Declares(graph, e).port = Claimed(graph, c)}

\* The edge leads to that port, between contracts that meet.
Meets(graph, e, c) ==
  /\ Claimed(graph, c) = Declares(graph, e).port
  /\ graph[c[1]].contract = Declares(graph, e).contract
  /\ graph[e[1]].contract.outputs = graph[c[1]].contract.inputs

\* What the schedulers need of a graph, said of its descriptors: one owner per
\* port, fusions with both inputs or none, places such that every edge leads
\* forward, and one last vertex.
Sound(graph) ==
  /\ \A c, d \in Claims(graph) : Claimed(graph, c) = Claimed(graph, d) => c = d
  /\ \A c \in Claims(graph) : Cardinality(Fed(graph, c)) <= 1
  /\ \A c, d \in Claims(graph) : c[1] = d[1] => (Fed(graph, c) = {} <=> Fed(graph, d) = {})
  /\ \E place \in [DOMAIN graph -> 0..Len(graph)] :
       \A e \in Declared(graph) : \E c \in Claims(graph) :
         Meets(graph, e, c) /\ place[e[1]] < place[c[1]]
  /\ \E i \in DOMAIN graph : \A j \in DOMAIN graph : graph[j].edges = <<>> <=> i = j

----------------------------------------------------------------------------
(* The frontier of a forward pass: unresolved predecessors, and who is     *)
(* ready                                                                   *)

\* pending_dependency_counts and initial_ready_nodes.
Frontier(t) == [pending |-> [v \in Vertices(t) |-> Cardinality(Incoming(t, v))], ready |-> Roots(t)]

Resolved(t, v, w) == Cardinality({e \in Outgoing(t, v) : TargetOf(t, e) = w})

\* advance_frontier: its errors, and what it does otherwise.
CanAdvance(f, t, v) ==
  /\ v \in DOMAIN f.pending /\ f.pending[v] = 0 /\ v \in f.ready
  /\ \A w \in Vertices(t) :
       Resolved(t, v, w) > 0 => w \in DOMAIN f.pending /\ f.pending[w] >= Resolved(t, v, w)

AdvanceFrontier(f, t, v) ==
  LET pending == [w \in DOMAIN f.pending \ {v} |-> f.pending[w] - Resolved(t, v, w)]
  IN  [pending |-> pending,
       ready   |-> (f.ready \ {v})
                   \cup {w \in DOMAIN pending : Resolved(t, v, w) > 0 /\ pending[w] = 0}]
=============================================================================
