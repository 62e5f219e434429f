---------------------------- MODULE MassWorkers -----------------------------
(***************************************************************************)
(* A root Mass server and the workers that registered with it              *)
(* (_black_hole_mass/src/lib.rs): registration and its refresh, the        *)
(* tunnel each worker keeps open, and the instances the root places on     *)
(* itself and on them and forwards requests to.                            *)
(*                                                                         *)
(* A tunnel is a connection used in both directions: the root calls with   *)
(* clients' requests, the worker with its refresh.  `link` holds what each *)
(* end knows of it; an end learns that it broke when its reader meets the  *)
(* end of the stream, and then fails the calls pending there.  Requests    *)
(* are handled by tasks of their own, so `wire` is a set, and what was     *)
(* received before a break is still handled after it.  A host looks an     *)
(* instance up, awaits its operation, and only then changes its table:     *)
(* two steps, between which other requests about the instance may come.    *)
(*                                                                         *)
(* A worker is a process: restarted, it has a new worker_id.  A token is   *)
(* the worker and the life of the root that issued it.  What an instance   *)
(* does once placed is MassSession; here it is on a host or is not.        *)
(* Workers that have workers of their own are left out.                    *)
(***************************************************************************)
EXTENDS Naturals, FiniteSets

CONSTANTS
  Workers, Root,
  Ids,          \* instance ids
  Requests,     \* clients' requests to the root that may be open at once
  None,
  Needs,        \* per id, the operation and architecture its start asks for
  Offers,       \* per host, those it has
  Limit,        \* per host, max_instances
  Transports,   \* TransportMode
  MaxSessions,  \* bound: tunnels made
  MaxFaults,    \* bound: breaks, deaths and restarts
  MaxOps        \* bound: requests, each fault counted as two

Hosts    == Workers \cup {Root}
Sessions == 1 .. MaxSessions
Lives    == 0 .. MaxFaults
Token    == Workers \X Lives
Ends     == {"parent", "worker"}

ASSUME HostsAssumption == Root \notin Workers /\ None \notin Hosts \cup Requests \cup Ids
ASSUME LimitAssumption == Limit \in [Hosts -> Nat]
ASSUME TransportsAssumption == Transports \subseteq {"quic", "tcp"}

VARIABLES
  transport,
  life,        \* how often the root was restarted
  registered,  \* MassContext::workers
  connection,  \* MassContext::worker_connections
  route,       \* MassContext::routes
  dispatch,    \* the start that holds start_dispatch
  req,         \* requests at the root
  hosted,      \* per host, its instances
  stage,       \* where a worker's maintain_parent_registration_loop is
  session,     \* per worker, parent_session
  offer,       \* the tunnel a registration in flight will give it
  token,       \* tunnel_token
  link,        \* tunnels made
  made,        \* and how many
  pending,     \* TcpTunnelSession::pending at the root
  calls,       \* next_request_id there
  wire,        \* messages on their way or being handled
  doubt,       \* ids with a call that failed after it was sent
  crossed,     \* ids on which two requests were open at once
  doubled,     \* ids on which two shutdowns were
  ops, faults

root   == <<life, registered, connection, route, dispatch, req>>
worker == <<stage, session, offer, token>>
tunnel == <<link, made, pending, calls, wire>>
ghost  == <<doubt, crossed, doubled, ops>>
vars   == <<transport, root, hosted, worker, tunnel, ghost, faults>>

Idle      == [op |-> "none", id |-> None, at |-> "idle", target |-> None, via |-> None]
EndState  == [reader : {"up", "done"}, writer : {"up", "late", "gone"}]
OpenEnd   == [reader |-> "up", writer |-> "up"]
DeadEnd   == [reader |-> "done", writer |-> "gone"]
Open(id)  == {r \in Requests : req[r].id = id}

Init ==
  /\ transport \in Transports
  /\ life = 0
  /\ registered = {}
  /\ connection = [w \in Workers |-> None]
  /\ route = [i \in Ids |-> None]
  /\ dispatch = None
  /\ req = [r \in Requests |-> Idle]
  /\ hosted = [h \in Hosts |-> {}]
  /\ stage = [w \in Workers |-> "registering"]
  /\ session = [w \in Workers |-> None]
  /\ offer = [w \in Workers |-> None]
  /\ token = [w \in Workers |-> None]
  /\ link = <<>>
  /\ made = 0
  /\ pending = [s \in Sessions |-> {}]
  /\ calls = [s \in Sessions |-> 0]
  /\ wire = {}
  /\ doubt = {}
  /\ crossed = {}
  /\ doubled = {}
  /\ ops = 0
  /\ faults = 0

-----------------------------------------------------------------------------
(* The tunnel *)

\* request_over_connection: whether a call at this end fails at once.  The
\* closed flag of a TCP session is never stored, since watch::Sender::send does
\* not keep a value nobody receives; only a missing writer refuses a call.
Refuses(s, e) ==
  IF transport = "tcp" THEN link[s][e].writer = "gone" ELSE link[s][e].reader = "done"

\* Whether what this end writes can still arrive.
Carries(s, e) == ~link[s].cut /\ link[s][e].writer = "up" /\ link[s][e].reader = "up"

\* A frame written to a broken TCP connection may be swallowed or may fail.
Wrote(l, s, e) ==
  IF transport = "tcp" /\ l[s].cut /\ l[s][e].writer = "up"
  THEN [l EXCEPT ![s][e].writer = "late"] ELSE l

\* Requests whose call waits at the root's end of a tunnel.
Callers(s) == {p[1] : p \in pending[s]}

\* Mutant of FailCalls: the end of a tunnel tells nobody.
FailNobody(S) == UNCHANGED <<pending, req, dispatch, doubt>>

\* mark_closed at the root's ends of the tunnels S: pending calls fail, and
\* their requests end with an error.
FailCalls(S) ==
  LET R == UNION {Callers(s) : s \in S}
  IN  /\ pending' = [s \in Sessions |-> IF s \in S THEN {} ELSE pending[s]]
      /\ req' = [r \in Requests |-> IF r \in R THEN Idle ELSE req[r]]
      /\ dispatch' = IF dispatch \in R THEN None ELSE dispatch
      /\ doubt' = doubt \cup {req[r].id : r \in R}

\* mark_closed at a worker's end: its refresh fails, and it registers again.
FailRefresh(s) ==
  LET w == link[s].owner
  IN  stage' = IF stage[w] = "refreshing" /\ session[w] = s
               THEN [stage EXCEPT ![w] = "registering"] ELSE stage

\* TcpTunnelSession::close, or closing a QUIC connection: tasks are aborted, and
\* the other end will find the connection broken.
ClosedEnd(l, s, e) ==
  [l EXCEPT ![s].cut = TRUE,
            ![s][e] = DeadEnd]

\* reader_loop meets the end of the stream; in QUIC the connection's calls fail.
Notice(s, e) ==
  /\ link[s].cut /\ link[s][e].reader = "up"
  /\ link' = [link EXCEPT ![s][e].reader = "done"]
  /\ \/ /\ e = "parent" /\ FailCalls({s}) /\ UNCHANGED worker
     \/ /\ e = "worker" /\ FailRefresh(s)
        /\ UNCHANGED <<session, offer, token, pending, req, dispatch, doubt>>
  /\ UNCHANGED <<transport, life, registered, connection, route, hosted, made, calls,
                 wire, crossed, doubled, ops, faults>>

\* writer_loop fails to write a frame: pending calls fail and the channel goes.
\* (A call between the two would wait for ever, as one made after Notice does.)
WriteFails(s, e) ==
  /\ link[s][e].writer = "late"
  /\ link' = [link EXCEPT ![s][e].writer = "gone"]
  /\ \/ /\ e = "parent" /\ FailCalls({s}) /\ UNCHANGED worker
     \/ /\ e = "worker" /\ FailRefresh(s)
        /\ UNCHANGED <<session, offer, token, pending, req, dispatch, doubt>>
  /\ UNCHANGED <<transport, life, registered, connection, route, hosted, made, calls,
                 wire, crossed, doubled, ops, faults>>

\* drive_worker_tcp_session ends with its reader and removes the connection,
\* unless another took its place.
DriverEnds(s) ==
  LET w == link[s].owner
  IN  /\ transport = "tcp"
      /\ link[s].parent.reader = "done" /\ connection[w] = s
      /\ connection' = [connection EXCEPT ![w] = None]
      /\ UNCHANGED <<transport, life, registered, route, dispatch, req, hosted, worker,
                     tunnel, ghost, faults>>

-----------------------------------------------------------------------------
(* Registration *)

\* handle_tcp_connection and handle_register_tunnel at the root: a worker it
\* knows keeps its token, and an earlier connection is closed.
RegisterTunnel(w) ==
  LET s   == made + 1
      old == IF connection[w] = None THEN {} ELSE {connection[w]}
      new == [owner |-> w, life |-> life, cut |-> FALSE, parent |-> OpenEnd, worker |-> OpenEnd]
      was == [t \in 1 .. made |-> IF t \in old THEN ClosedEnd(link, t, "parent")[t] ELSE link[t]]
  IN  /\ stage[w] = "registering" /\ s \in Sessions
      /\ registered' = registered \cup {w}
      /\ connection' = [connection EXCEPT ![w] = s]
      /\ link' = [t \in 1 .. s |-> IF t = s THEN new ELSE was[t]]
      /\ made' = s
      /\ FailCalls(old)
      /\ stage' = [stage EXCEPT ![w] = "replying"]
      /\ offer' = [offer EXCEPT ![w] = s]
      /\ UNCHANGED <<transport, life, route, hosted, session, token, calls, wire, crossed,
                     doubled, ops, faults>>

\* register_tunnel_worker has its answer: setup stores tunnel and token together,
\* propagate_capacity_to_parent replaces (and closes) the tunnel first.
Registered(w) ==
  LET s == offer[w] IN
  /\ stage[w] = "replying"
  /\ session' = [session EXCEPT ![w] = s]
  /\ offer' = [offer EXCEPT ![w] = None]
  /\ \/ /\ session[w] = None
        /\ stage' = [stage EXCEPT ![w] = "serving"]
        /\ token' = [token EXCEPT ![w] = <<w, link[s].life>>]
        /\ UNCHANGED link
     \/ /\ session[w] # None
        /\ stage' = [stage EXCEPT ![w] = "storing"]
        /\ link' = ClosedEnd(link, session[w], "worker")
        /\ UNCHANGED token
  /\ UNCHANGED <<transport, root, hosted, made, pending, calls, wire, ghost, faults>>

StoreToken(w) ==
  /\ stage[w] = "storing"
  /\ stage' = [stage EXCEPT ![w] = "serving"]
  /\ token' = [token EXCEPT ![w] = <<w, link[session[w]].life>>]
  /\ UNCHANGED <<transport, root, hosted, session, offer, tunnel, ghost, faults>>

\* register_tunnel_worker_with_retry: the answer is lost with its connection.
RegistrationLost(w) ==
  /\ stage[w] = "replying" /\ link[offer[w]].cut
  /\ stage' = [stage EXCEPT ![w] = "registering"]
  /\ link' = [link EXCEPT ![offer[w]].worker = DeadEnd]
  /\ offer' = [offer EXCEPT ![w] = None]
  /\ UNCHANGED <<transport, root, hosted, session, token, made, pending, calls, wire, ghost,
                 faults>>

\* handle_update_tunnel_capacity: the root knows the token of a registered worker.
Known(w) == token[w] = <<w, life>> /\ w \in registered

\* update_tunnel_capacity of the worker: on a tunnel in order it is answered at
\* once, with an error if the root does not know the token; it fails at once, or
\* it waits.
Answers(s)       == Carries(s, "worker") /\ Carries(s, "parent")
UpdateWaits(w)   == ~Refuses(session[w], "worker") /\ ~Answers(session[w])
UpdateRefused(w) == Refuses(session[w], "worker") \/ (Answers(session[w]) /\ ~Known(w))

\* Mutant of Refresh: a failed refresh is only logged.
RefreshOnlyLogs(w) ==
  /\ stage[w] = "serving" /\ UpdateWaits(w)
  /\ stage' = [stage EXCEPT ![w] = "refreshing"]
  /\ link' = Wrote(link, session[w], "worker")
  /\ UNCHANGED <<transport, root, hosted, session, offer, token, made, pending, calls,
                 wire, ghost, faults>>

\* maintain_parent_registration_loop: a worker that is refused registers again.
Refresh(w) ==
  /\ stage[w] = "serving"
  /\ \/ /\ UpdateRefused(w)
        /\ stage' = [stage EXCEPT ![w] = "registering"]
        /\ UNCHANGED link
     \/ /\ UpdateWaits(w)
        /\ stage' = [stage EXCEPT ![w] = "refreshing"]
        /\ link' = Wrote(link, session[w], "worker")
  /\ UNCHANGED <<transport, root, hosted, session, offer, token, made, pending, calls,
                 wire, ghost, faults>>

-----------------------------------------------------------------------------
(* Requests at the root *)

\* architecture_satisfies and operation_satisfies
Satisfies(h, i) == Needs[i] \in Offers[h]

Load(h) == Cardinality({i \in Ids : route[i] = h})

HasCapacity(h, current) == current < Limit[h]

\* What a host looks at before it awaits its operation.
Startable(h, i) == i \notin hosted[h] /\ Satisfies(h, i) /\ HasCapacity(h, Cardinality(hosted[h]))
Found(h, op, i) == IF op = "start" THEN Startable(h, i) ELSE i \in hosted[h]

\* And its table after that, whatever others did to it meanwhile.
Changed(h, op, i) == [hosted EXCEPT ![h] = IF op = "start" THEN @ \cup {i} ELSE @ \ {i}]

\* select_instance_target: the least loaded host with room, the root before its
\* workers; workers in the order of their tokens, which are random.
Targets(i) ==
  LET able == {h \in registered \cup {Root} : Satisfies(h, i) /\ HasCapacity(h, Load(h))}
      best == {h \in able : \A g \in able : Load(h) <= Load(g)}
  IN  IF Root \in best THEN {Root} ELSE best

Begins(r, op, i, at, h, s) ==
  /\ req[r] = Idle /\ ops + 2 * faults < MaxOps
  /\ ops' = ops + 1
  /\ req' = [req EXCEPT ![r] = [op |-> op, id |-> i, at |-> at, target |-> h, via |-> s]]
  /\ crossed' = IF Open(i) = {} THEN crossed ELSE crossed \cup {i}
  /\ doubled' = IF op = "stop" /\ \E t \in Open(i) : req[t].op = "stop" THEN doubled \cup {i} ELSE doubled
  /\ UNCHANGED <<transport, life, registered, connection, route, hosted, worker, tunnel,
                 doubt, faults>>

\* handle_instance_start_distributed up to the host's answer; a start that finds
\* no host with room, or no connection to the one chosen, changes nothing.
StartInstance(r, i) ==
  /\ dispatch = None /\ route[i] = None /\ i \notin hosted[Root]
  /\ dispatch' = r
  /\ \E h \in Targets(i) :
       \/ h = Root /\ Begins(r, "start", i, "local", Root, None)
       \/ h # Root /\ connection[h] # None
          /\ Begins(r, "start", i, "calling", h, connection[h])

\* Mutant of ShutdownInstance: the route is removed before the host has answered.
ShutdownForgetsFirst(r, i) ==
  /\ route[i] \in Workers /\ connection[route[i]] # None
  /\ req[r] = Idle /\ ops + 2 * faults < MaxOps
  /\ ops' = ops + 1
  /\ req' = [req EXCEPT ![r] = [op |-> "stop", id |-> i, at |-> "calling",
                               target |-> route[i], via |-> connection[route[i]]]]
  /\ route' = [route EXCEPT ![i] = None]
  /\ UNCHANGED <<transport, life, registered, connection, dispatch, hosted, worker, tunnel,
                 doubt, crossed, doubled, faults>>

\* The other routed handlers find their instance first; using one stands for
\* invoke, backward, step, reset, perturb, optimize, checkpoint, fuse and query.
ShutdownInstance(r, i) ==
  /\ route[i] # None /\ UNCHANGED dispatch
  /\ \/ route[i] = Root /\ Begins(r, "stop", i, "local", Root, None)
     \/ route[i] # Root /\ connection[route[i]] # None
        /\ Begins(r, "stop", i, "calling", route[i], connection[route[i]])

UseInstance(r, i) ==
  /\ route[i] \in Workers /\ connection[route[i]] # None /\ UNCHANGED dispatch
  /\ Begins(r, "use", i, "calling", route[i], connection[route[i]])

\* A request ends with an error for its client.
EndRequest(r) ==
  /\ req' = [req EXCEPT ![r] = Idle]
  /\ dispatch' = IF dispatch = r THEN None ELSE dispatch

\* handle_instance_start_local and handle_instance_shutdown_local at the root.
Local(r) ==
  LET q == req[r] IN
  /\ q.at = "local"
  /\ \/ /\ Found(Root, q.op, q.id)
        /\ req' = [req EXCEPT ![r].at = "working"] /\ UNCHANGED dispatch
     \/ /\ q.op = "start" \/ ~Found(Root, q.op, q.id)
        /\ EndRequest(r)
  /\ UNCHANGED <<transport, life, registered, connection, route, hosted, worker, tunnel, ghost,
                 faults>>

\* The operation has started or shut down its instance, or it failed.
LocalEnds(r) ==
  LET q == req[r] IN
  /\ q.at = "working"
  /\ \/ /\ hosted' = Changed(Root, q.op, q.id)
        /\ req' = [req EXCEPT ![r].at = "acked"] /\ UNCHANGED dispatch
     \/ EndRequest(r) /\ UNCHANGED hosted
  /\ UNCHANGED <<transport, life, registered, connection, route, worker, tunnel, ghost, faults>>

\* forward_tunnel_request: TcpTunnelSession::call, or a QUIC stream.
Call(r) ==
  LET s == req[r].via
      n == calls[s] + 1
      m == [kind |-> "request", on |-> s, call |-> <<r, n>>, op |-> req[r].op,
            id |-> req[r].id, token |-> <<req[r].target, life>>]
  IN  /\ req[r].at = "calling"
      /\ \/ /\ Refuses(s, "parent") /\ EndRequest(r)
            /\ UNCHANGED <<link, pending, calls, wire>>
         \/ /\ ~Refuses(s, "parent")
            /\ req' = [req EXCEPT ![r].at = "called"]
            /\ pending' = [pending EXCEPT ![s] = @ \cup {<<r, n>>}]
            /\ calls' = [calls EXCEPT ![s] = n]
            /\ wire' = IF Carries(s, "parent") THEN wire \cup {m} ELSE wire
            /\ link' = Wrote(link, s, "parent")
            /\ UNCHANGED dispatch
      /\ UNCHANGED <<transport, life, registered, connection, route, hosted, worker, made,
                     ghost, faults>>

\* parent_tunnel_stream_loop accepts what comes on the tunnel in parent_session;
\* what it accepted before another tunnel took that place is served as well.
Accepts(w, s) == session[w] # None /\ s <= session[w] /\ stage[w] # "dead"

\* What the worker answers to a request.
AnswerForward(m, ok) ==
  /\ wire' = (wire \ {m}) \cup
       (IF Carries(m.on, "worker") THEN {[kind |-> "answer", on |-> m.on, call |-> m.call, ok |-> ok]}
        ELSE {})
  /\ link' = Wrote(link, m.on, "worker")

\* A start at the worker holds its start_dispatch.
Starting(w) == \E n \in wire : n.kind = "work" /\ n.op = "start" /\ link[n.on].owner = w

\* handle_tunnel_forward at the worker, which serves if the token is its own, up to
\* where it awaits its operation.
TunnelForward(m) ==
  LET w    == link[m.on].owner
      mine == m.token = token[w]
  IN  /\ m.kind = "request" /\ Accepts(w, m.on) /\ ~(mine /\ m.op = "start" /\ Starting(w))
      /\ \/ /\ mine /\ m.op # "use" /\ Found(w, m.op, m.id)
            /\ wire' = (wire \ {m}) \cup {[m EXCEPT !.kind = "work"]} /\ UNCHANGED link
         \/ mine /\ m.op = "use" /\ Found(w, m.op, m.id) /\ AnswerForward(m, TRUE)
         \/ (~mine \/ m.op = "start" \/ ~Found(w, m.op, m.id)) /\ AnswerForward(m, FALSE)
      /\ UNCHANGED <<transport, root, hosted, worker, made, pending, calls, ghost, faults>>

\* The operation has started or shut down its instance, or it failed.
ForwardEnds(m) ==
  /\ m.kind = "work"
  /\ \/ hosted' = Changed(link[m.on].owner, m.op, m.id) /\ AnswerForward(m, TRUE)
     \/ UNCHANGED hosted /\ AnswerForward(m, FALSE)
  /\ UNCHANGED <<transport, root, worker, made, pending, calls, ghost, faults>>

\* Mutant of Answered: forward_tunnel_request takes an error for an answer.
AnsweredAnything(m) ==
  LET r == m.call[1] IN
  /\ m.kind = "answer" /\ link[m.on].parent.reader = "up"
  /\ wire' = wire \ {m}
  /\ pending' = [pending EXCEPT ![m.on] = @ \ {m.call}]
  /\ \/ m.call \notin pending[m.on] /\ UNCHANGED <<req, dispatch>>
     \/ /\ m.call \in pending[m.on]
        /\ \/ req[r].op # "use" /\ req' = [req EXCEPT ![r].at = "acked"] /\ UNCHANGED dispatch
           \/ req[r].op = "use" /\ EndRequest(r)
  /\ UNCHANGED <<transport, life, registered, connection, route, hosted, worker, link, made,
                 calls, ghost, faults>>

\* The root's reader_loop hands an answer to the call that waits for it.
Answered(m) ==
  LET r == m.call[1] IN
  /\ m.kind = "answer" /\ link[m.on].parent.reader = "up"
  /\ wire' = wire \ {m}
  /\ pending' = [pending EXCEPT ![m.on] = @ \ {m.call}]
  /\ \/ m.call \notin pending[m.on] /\ UNCHANGED <<req, dispatch>>
     \/ /\ m.call \in pending[m.on]
        /\ \/ m.ok /\ req[r].op # "use" /\ req' = [req EXCEPT ![r].at = "acked"] /\ UNCHANGED dispatch
           \/ (~m.ok \/ req[r].op = "use") /\ EndRequest(r)
  /\ UNCHANGED <<transport, life, registered, connection, route, hosted, worker, link, made,
                 calls, ghost, faults>>

\* The routes follow the host's answer, whatever else happened meanwhile.
Reroute(r) ==
  /\ req[r].at = "acked"
  /\ route' = [route EXCEPT ![req[r].id] = IF req[r].op = "start" THEN req[r].target ELSE None]
  /\ EndRequest(r)
  /\ UNCHANGED <<transport, life, registered, connection, hosted, worker, tunnel, ghost, faults>>

-----------------------------------------------------------------------------
(* Faults *)

MayFail == faults < MaxFaults /\ ops + 2 * faults + 2 <= MaxOps

Cut(s) ==
  /\ ~link[s].cut /\ MayFail
  /\ faults' = faults + 1
  /\ link' = [link EXCEPT ![s].cut = TRUE]
  /\ UNCHANGED <<transport, root, hosted, worker, made, pending, calls, wire, ghost>>

\* A worker's process ends, and its instances with it.
WorkerDies(w) ==
  /\ stage[w] # "dead" /\ MayFail
  /\ faults' = faults + 1
  /\ stage' = [stage EXCEPT ![w] = "dead"]
  /\ session' = [session EXCEPT ![w] = None]
  /\ offer' = [offer EXCEPT ![w] = None]
  /\ token' = [token EXCEPT ![w] = None]
  /\ hosted' = [hosted EXCEPT ![w] = {}]
  /\ link' = [s \in 1 .. made |->
                IF link[s].owner = w THEN [link[s] EXCEPT !.cut = TRUE, !.worker = DeadEnd] ELSE link[s]]
  /\ wire' = {m \in wire : link[m.on].owner # w \/ m.kind = "answer"}
  /\ UNCHANGED <<transport, root, made, pending, calls, ghost>>

\* The root is restarted: all it knew was in memory.
RootRestarts ==
  /\ MayFail
  /\ faults' = faults + 1
  /\ life' = life + 1
  /\ registered' = {}
  /\ connection' = [w \in Workers |-> None]
  /\ route' = [i \in Ids |-> None]
  /\ dispatch' = None
  /\ req' = [r \in Requests |-> Idle]
  /\ hosted' = [hosted EXCEPT ![Root] = {}]
  /\ pending' = [s \in Sessions |-> {}]
  /\ link' = [s \in 1 .. made |-> [link[s] EXCEPT !.cut = TRUE, !.parent = DeadEnd]]
  /\ wire' = {m \in wire : m.kind # "answer"}
  /\ doubt' = doubt \cup {i \in Ids : Open(i) # {} \/ \E w \in Workers : i \in hosted[w]}
  /\ UNCHANGED <<transport, worker, made, calls, crossed, doubled, ops>>

-----------------------------------------------------------------------------
Carry(s)    == \E e \in Ends : Notice(s, e)
Handle(m)   == TunnelForward(m) \/ ForwardEnds(m) \/ Answered(m)
Maintain(w) == RegisterTunnel(w) \/ Registered(w) \/ StoreToken(w) \/ RegistrationLost(w) \/ Refresh(w)
Serve(r)    == Local(r) \/ LocalEnds(r) \/ Call(r) \/ Reroute(r)
Ask(r, i)   == StartInstance(r, i) \/ ShutdownInstance(r, i) \/ UseInstance(r, i)

Next ==
  \/ \E s \in DOMAIN link : Carry(s) \/ DriverEnds(s) \/ Cut(s)
  \/ \E s \in DOMAIN link, e \in Ends : WriteFails(s, e)
  \/ \E m \in wire : Handle(m)
  \/ \E w \in Workers : Maintain(w) \/ WorkerDies(w)
  \/ \E r \in Requests : Serve(r)
  \/ \E r \in Requests, i \in Ids : Ask(r, i)
  \/ RootRestarts

\* Tasks that can run are run, the refresh timer fires, and a broken connection
\* is noticed.  Clients and faults are not fair, nor is what a broken connection
\* still carries: it need not arrive.  A task that awaits an operation does not
\* end with its connection.
Fairness ==
  /\ \A s \in Sessions : WF_vars(s \in DOMAIN link /\ (Carry(s) \/ DriverEnds(s)))
  /\ \A w \in Workers : WF_vars(Maintain(w))
  /\ \A r \in Requests : /\ WF_vars(Serve(r))
                         /\ WF_vars(\E m \in wire : m.call[1] = r /\ ~link[m.on].cut /\ Handle(m))
                         /\ WF_vars(\E m \in wire : m.call[1] = r /\ ForwardEnds(m))

Spec == Init /\ [][Next]_vars /\ Fairness

-----------------------------------------------------------------------------
(* Properties *)

\* An instance that runs on a worker can be reached: it is routed to that worker
\* or a request about it is still open (start_distributed inserts the route only
\* after the answer), unless a call about it failed after it was sent, or two
\* shutdowns of it overlapped: the answer to the second may remove the route of
\* an instance that was started since (shutdown_distributed).
NoLostInstance ==
  \A w \in Workers, i \in Ids :
    i \in hosted[w] /\ i \notin doubt \cup doubled => route[i] = w \/ Open(i) # {}

\* And a route leads to a running instance: where calls were neither lost nor
\* overlapped, an id no request is open about is hosted where it is routed.
RouteLeadsHome ==
  \A i \in Ids \ (doubt \cup crossed) :
    Open(i) = {} /\ route[i] # None =>
      i \in hosted[route[i]] \/ (route[i] \in Workers /\ stage[route[i]] = "dead")

Linked(w) ==
  /\ w \in registered /\ stage[w] \in {"serving", "refreshing"}
  /\ connection[w] = session[w] /\ ~link[session[w]].cut
  /\ token[w] = <<w, life>>

\* However often connections break and the root restarts, a worker that lives
\* ends up registered, with a tunnel both ends use (QUIC).
WorkersComeBack == transport = "quic" => \A w \in Workers : <>[](stage[w] = "dead" \/ Linked(w))

\* Every request at the root ends, and with it the hold on start_dispatch (QUIC).
RequestsEnd == transport = "quic" => \A r \in Requests : []<>(req[r] = Idle)

=============================================================================
