-------------------------- MODULE MassWorkersProofs --------------------------
(***************************************************************************)
(* NoLostInstance and RouteLeadsHome, for any number of workers, ids and   *)
(* requests, and however often tunnels break and processes end.            *)
(***************************************************************************)
EXTENDS MassWorkers, TLAPS

\* What the tables of the root, the workers and the tunnels can hold.
Ops       == {"start", "stop", "use"}
Asked     == [op : Ops, id : Ids, at : {"local", "working", "calling", "called", "acked"},
              target : Hosts, via : Sessions \cup {None}]
Tunnels   == [owner : Workers, life : Nat, cut : BOOLEAN, parent : EndState, worker : EndState]
Carried   == [kind : {"request", "work"}, on : Sessions, call : Requests \X Nat, op : Ops, id : Ids,
              token : Hosts \X Nat]
             \cup [kind : {"answer"}, on : Sessions, call : Requests \X Nat, ok : BOOLEAN]

Types ==
  /\ life \in Nat
  /\ registered \subseteq Workers
  /\ connection \in [Workers -> Sessions \cup {None}]
  /\ route \in [Ids -> Hosts \cup {None}]
  /\ req \in [Requests -> Asked \cup {Idle}]
  /\ hosted \in [Hosts -> SUBSET Ids]
  /\ stage = [w \in Workers |-> stage[w]]
  /\ made \in Nat /\ 1 .. made \subseteq Sessions /\ link \in [1 .. made -> Tunnels]
  /\ pending \in [Sessions -> SUBSET (Requests \X Nat)]
  /\ calls \in [Sessions -> Nat]
  /\ wire \subseteq Carried

\* A connection is a tunnel of its worker, and a request to a worker has taken one.
Connected ==
  /\ \A w \in Workers : connection[w] # None =>
       connection[w] \in 1 .. made /\ link[connection[w]].owner = w
  /\ \A r \in Requests :
       /\ req[r].at \in {"local", "working"} => req[r].target = Root
       /\ req[r].at \in {"calling", "called"} =>
            req[r].via \in 1 .. made /\ link[req[r].via].owner = req[r].target
       /\ req[r].at \in {"local", "working", "acked"} => req[r].op # "use"

\* A call that is waited for is the last of its request, and of its number.
Waiting ==
  \A s \in Sessions : \A p \in pending[s] :
    /\ req[p[1]].at = "called" /\ req[p[1]].via = s /\ p[2] <= calls[s]
    /\ \A q \in pending[s] : q[1] = p[1] => q = p

Waited(m) == m.call \in pending[m.on]

\* A call is carried to the worker or answered, not both, and one to a worker is
\* waited for unless it failed after it was sent.
Messages ==
  \A m \in wire :
    /\ m.on \in 1 .. made /\ m.call[2] <= calls[m.on]
    /\ \A k \in wire : k.on = m.on /\ k.call = m.call => k = m
    /\ m.kind # "answer" =>
         /\ m.id \in doubt \/ Waited(m)
         /\ Waited(m) => req[m.call[1]].op = m.op /\ req[m.call[1]].id = m.id
    /\ m.kind = "work" => m.op # "use"

\* One start at a time: start_dispatch.
OneStart == \A r \in Requests : req[r].op = "start" => dispatch = r

\* Two shutdowns that overlap are two requests that do.
Overlaps == doubled \subseteq crossed

Starts(r, i) == req[r].op = "start" /\ req[r].id = i
Stops(r, i)  == req[r].op = "stop" /\ req[r].id = i

\* The host has not done what the request asks for, or has refused to.
Undone(r) ==
  \/ req[r].at \in {"local", "working", "calling"}
  \/ \E m \in wire : Waited(m) /\ m.call[1] = r /\ (m.kind = "answer" => ~m.ok)

\* It has, and the root knows or will know.
Done(r) ==
  \/ req[r].at = "acked"
  \/ \E m \in wire : Waited(m) /\ m.call[1] = r /\ m.kind = "answer" /\ m.ok

\* An id with no doubtful call and no two shutdowns at once: a host changes while
\* the route stays, and the route before the next start or shutdown is begun.
Placed(i) ==
  /\ \A h \in Hosts : i \in hosted[h] =>
       \/ route[i] = h
       \/ \E r \in Requests : Starts(r, i) /\ req[r].target = h /\ req[r].at \in {"called", "acked"}
  /\ \A r \in Requests : Starts(r, i) => route[i] = None
  /\ \A r \in Requests : Starts(r, i) /\ Undone(r) => \A h \in Hosts : i \notin hosted[h]
  /\ \A r \in Requests : Stops(r, i) =>
       /\ route[i] = req[r].target
       /\ \A t \in Requests : Stops(t, i) => t = r
  /\ \A r \in Requests : Stops(r, i) /\ Done(r) => \A h \in Hosts : i \notin hosted[h]

AllPlaced == \A i \in Ids \ (doubt \cup doubled) : Placed(i)

Dead(h)    == h \in Workers /\ stage[h] = "dead"
Home(i, h) == i \in hosted[h] \/ Dead(h)

\* Where requests did not overlap either, a route leads home until a stop is done,
\* and a start that is done will make one that does.
Reached(i) ==
  /\ \A r, t \in Open(i) : r = t
  /\ route[i] # None /\ (\A r \in Open(i) : req[r].op = "stop" => Undone(r)) => Home(i, route[i])
  /\ \A r \in Open(i) : Starts(r, i) /\ Done(r) => Home(i, req[r].target)

AllReached == \A i \in Ids \ (doubt \cup crossed) : Reached(i)

IInv == Types /\ Connected /\ Waiting /\ Messages /\ OneStart /\ Overlaps /\ AllPlaced /\ AllReached

USE HostsAssumption
USE DEF Hosts, Ops

-----------------------------------------------------------------------------
(* Tunnels *)

\* Changing what is known of one tunnel keeps it one, of the same worker.
SameTunnels(n, k, l) == k \in [1 .. n -> Tunnels] /\ \A t \in 1 .. n : k[t].owner = l[t].owner

LEMMA EndChanges ==
  ASSUME NEW n \in Nat, NEW l \in [1 .. n -> Tunnels], NEW s, NEW v \in EndState
  PROVE  /\ SameTunnels(n, [l EXCEPT ![s].parent = v], l)
         /\ SameTunnels(n, [l EXCEPT ![s].worker = v], l)
         /\ SameTunnels(n, [l EXCEPT ![s].cut = TRUE], l)
<1>1. CASE s \in 1 .. n
  BY ZenonT(60), <1>1 DEF Tunnels, SameTunnels
<1>2. CASE s \notin 1 .. n
  BY <1>2 DEF SameTunnels
<1>3. QED
  BY <1>1, <1>2

LEMMA DeadEndIsEnd == DeadEnd \in EndState /\ OpenEnd \in EndState
BY DEF DeadEnd, OpenEnd, EndState

LEMMA Closes ==
  ASSUME NEW n \in Nat, NEW l \in [1 .. n -> Tunnels], NEW s, NEW e \in Ends
  PROVE  SameTunnels(n, ClosedEnd(l, s, e), l)
<1>1. PICK k : k = [l EXCEPT ![s].cut = TRUE]
  OBVIOUS
<1>2. ClosedEnd(l, s, e) = [k EXCEPT ![s][e] = DeadEnd]
  BY <1>1 DEF ClosedEnd
<1>3. SameTunnels(n, k, l)
  BY <1>1, DeadEndIsEnd, EndChanges
<1>4. k \in [1 .. n -> Tunnels]
  BY <1>3 DEF SameTunnels
<1>5. SameTunnels(n, [k EXCEPT ![s].parent = DeadEnd], k) /\ SameTunnels(n, [k EXCEPT ![s].worker = DeadEnd], k)
  BY <1>4, DeadEndIsEnd, EndChanges
<1>6. SameTunnels(n, ClosedEnd(l, s, e), k)
  BY <1>2, <1>5 DEF Ends
<1>7. QED
  BY <1>3, <1>6 DEF SameTunnels

LEMMA ReaderStops ==
  ASSUME NEW n \in Nat, NEW l \in [1 .. n -> Tunnels], NEW s, NEW e \in Ends
  PROVE  SameTunnels(n, [l EXCEPT ![s][e].reader = "done"], l)
<1>1. CASE s \in 1 .. n /\ e = "parent"
  BY SMTT(40), <1>1 DEF Tunnels, SameTunnels, EndState
<1>2. CASE s \in 1 .. n /\ e = "worker"
  BY SMTT(40), <1>2 DEF Tunnels, SameTunnels, EndState
<1>3. CASE s \notin 1 .. n
  BY <1>3 DEF SameTunnels
<1>4. QED
  BY <1>1, <1>2, <1>3 DEF Ends

LEMMA WriterChanges ==
  ASSUME NEW n \in Nat, NEW l \in [1 .. n -> Tunnels], NEW s, NEW e \in Ends, NEW v \in {"late", "gone"}
  PROVE  SameTunnels(n, [l EXCEPT ![s][e].writer = v], l)
<1>1. CASE s \in 1 .. n /\ e = "parent"
  BY SMTT(40), <1>1 DEF Tunnels, SameTunnels, EndState
<1>2. CASE s \in 1 .. n /\ e = "worker"
  BY SMTT(40), <1>2 DEF Tunnels, SameTunnels, EndState
<1>3. CASE s \notin 1 .. n
  BY <1>3 DEF SameTunnels
<1>4. QED
  BY <1>1, <1>2, <1>3 DEF Ends

LEMMA Writes ==
  ASSUME NEW n \in Nat, NEW l \in [1 .. n -> Tunnels], NEW s, NEW e \in Ends
  PROVE  SameTunnels(n, Wrote(l, s, e), l)
<1>1. SameTunnels(n, l, l)
  BY DEF SameTunnels
<1>2. QED
  BY <1>1, WriterChanges DEF Wrote

\* What an action may do to the tunnels: it makes some, and gives none away.
Grown ==
  /\ made' \in Nat /\ made <= made' /\ 1 .. made' \subseteq Sessions
  /\ link' \in [1 .. made' -> Tunnels]
  /\ \A t \in 1 .. made : link'[t].owner = link[t].owner

LEMMA TunnelsStay ==
  ASSUME made \in Nat, 1 .. made \subseteq Sessions, made' = made, SameTunnels(made, link', link)
  PROVE  Grown
BY DEF Grown, SameTunnels

LEMMA TunnelsGrow ==
  ASSUME Types, [Next]_vars
  PROVE  Grown
<1>l. made \in Nat /\ 1 .. made \subseteq Sessions /\ link \in [1 .. made -> Tunnels] /\ DOMAIN link = 1 .. made
  BY DEF Types
<1>t. life \in Nat /\ connection \in [Workers -> Sessions \cup {None}]
  BY DEF Types
<1>0. CASE link' = link /\ made' = made
  BY <1>0, <1>l DEF Grown
<1>1. ASSUME NEW s, NEW e \in Ends, Notice(s, e) PROVE Grown
  <2>1. link' = [link EXCEPT ![s][e].reader = "done"] /\ made' = made
    BY <1>1 DEF Notice
  <2>2. QED
    BY <2>1, <1>l, ReaderStops, TunnelsStay
<1>2. ASSUME NEW s, NEW e \in Ends, WriteFails(s, e) PROVE Grown
  <2>1. link' = [link EXCEPT ![s][e].writer = "gone"] /\ made' = made
    BY <1>2 DEF WriteFails
  <2>2. QED
    BY <2>1, <1>l, WriterChanges, TunnelsStay
<1>3. ASSUME NEW s, Cut(s) PROVE Grown
  <2>1. link' = [link EXCEPT ![s].cut = TRUE] /\ made' = made
    BY <1>3 DEF Cut
  <2>2. [reader |-> "up", writer |-> "up"] \in EndState
    BY DEF EndState
  <2>3. SameTunnels(made, link', link)
    BY <2>1, <2>2, <1>l, EndChanges
  <2>4. QED
    BY <2>1, <2>3, <1>l, TunnelsStay
<1>4. ASSUME NEW w \in Workers, RegisterTunnel(w) PROVE Grown
  <2> DEFINE s   == made + 1
             old == IF connection[w] = None THEN {} ELSE {connection[w]}
             new == [owner |-> w, life |-> life, cut |-> FALSE, parent |-> OpenEnd, worker |-> OpenEnd]
             was == [t \in 1 .. made |-> IF t \in old THEN ClosedEnd(link, t, "parent")[t] ELSE link[t]]
  <2>1. made' = s /\ link' = [t \in 1 .. s |-> IF t = s THEN new ELSE was[t]]
    BY <1>4 DEF RegisterTunnel
  <2>2. new \in Tunnels
    BY <1>t, DeadEndIsEnd DEF Tunnels
  <2>3. "parent" \in Ends
    BY DEF Ends
  <2>4. \A t \in 1 .. made : was[t] \in Tunnels /\ was[t].owner = link[t].owner
    BY <1>l, <2>3, Closes DEF SameTunnels
  <2>5. \A t \in 1 .. s : t = s \/ t \in 1 .. made
    BY <1>l
  <2>6. made' \in Nat /\ made <= made' /\ 1 .. made' \subseteq Sessions /\ \A t \in 1 .. made : t \in 1 .. s /\ t # s
    BY <1>4, <2>1, <1>l, <2>5 DEF RegisterTunnel
  <2> HIDE DEF new, was, s
  <2>7. link' \in [1 .. made' -> Tunnels]
    BY <2>1, <2>2, <2>4, <2>5
  <2>8. \A t \in 1 .. made : link'[t].owner = link[t].owner
    BY <2>1, <2>4, <2>6
  <2>9. QED
    BY <2>6, <2>7, <2>8 DEF Grown
<1>5. ASSUME NEW w \in Workers, Registered(w) PROVE Grown
  <2>1. made' = made /\ (link' = link \/ link' = ClosedEnd(link, session[w], "worker"))
    BY <1>5 DEF Registered
  <2>2. QED
    BY <2>1, <1>0, <1>l, Closes, TunnelsStay DEF Ends
<1>6. ASSUME NEW w \in Workers, RegistrationLost(w) PROVE Grown
  <2>1. made' = made /\ link' = [link EXCEPT ![offer[w]].worker = DeadEnd]
    BY <1>6 DEF RegistrationLost
  <2>2. SameTunnels(made, link', link)
    BY <2>1, <1>l, DeadEndIsEnd, EndChanges
  <2>3. QED
    BY <2>1, <2>2, <1>l, TunnelsStay
<1>7. ASSUME NEW w \in Workers, Refresh(w) PROVE Grown
  <2>1. made' = made /\ (link' = link \/ link' = Wrote(link, session[w], "worker"))
    BY <1>7 DEF Refresh
  <2>2. QED
    BY <2>1, <1>0, <1>l, Writes, TunnelsStay DEF Ends
<1>8. ASSUME NEW w \in Workers, WorkerDies(w) PROVE Grown
  <2>1. made' = made /\ link' = [s \in 1 .. made |->
          IF link[s].owner = w THEN [link[s] EXCEPT !.cut = TRUE, !.worker = DeadEnd] ELSE link[s]]
    BY <1>8 DEF WorkerDies
  <2>2. SameTunnels(made, link', link)
    BY <2>1, <1>l, DeadEndIsEnd DEF Tunnels, SameTunnels
  <2>3. QED
    BY <2>1, <2>2, <1>l, TunnelsStay
<1>9. ASSUME RootRestarts PROVE Grown
  <2>1. made' = made
        /\ link' = [s \in 1 .. made |-> [link[s] EXCEPT !.cut = TRUE, !.parent = DeadEnd]]
    BY <1>9 DEF RootRestarts
  <2>2. SameTunnels(made, link', link)
    BY <2>1, <1>l, DeadEndIsEnd DEF Tunnels, SameTunnels
  <2>3. QED
    BY <2>1, <2>2, <1>l, TunnelsStay
<1>10. ASSUME NEW r \in Requests, Call(r) PROVE Grown
  <2>1. made' = made /\ (link' = link \/ link' = Wrote(link, req[r].via, "parent"))
    BY <1>10 DEF Call
  <2>2. QED
    BY <2>1, <1>0, <1>l, Writes, TunnelsStay DEF Ends
<1>11. ASSUME NEW m \in wire, TunnelForward(m) \/ ForwardEnds(m) PROVE Grown
  <2>1. made' = made /\ (link' = link \/ link' = Wrote(link, m.on, "worker"))
    BY <1>11 DEF TunnelForward, ForwardEnds, AnswerForward
  <2>2. QED
    BY <2>1, <1>0, <1>l, Writes, TunnelsStay DEF Ends
<1>12. ASSUME NEW w \in Workers, StoreToken(w) PROVE Grown
  BY <1>12, <1>0 DEF StoreToken, tunnel
<1>13. ASSUME NEW m \in wire, Answered(m) PROVE Grown
  BY <1>13, <1>0 DEF Answered
<1>14. ASSUME NEW s, DriverEnds(s) PROVE Grown
  BY <1>14, <1>0 DEF DriverEnds, tunnel
<1>15. ASSUME NEW r \in Requests, Local(r) \/ LocalEnds(r) \/ Reroute(r) PROVE Grown
  BY <1>15, <1>0 DEF Local, LocalEnds, Reroute, tunnel
<1>16. ASSUME NEW r \in Requests, NEW i \in Ids, Ask(r, i) PROVE Grown
  BY <1>16, <1>0 DEF Ask, StartInstance, ShutdownInstance, UseInstance, Begins, tunnel
<1>17. CASE UNCHANGED vars
  BY <1>17, <1>0 DEF vars, tunnel
<1>18. QED
  BY <1>1, <1>2, <1>3, <1>4, <1>5, <1>6, <1>7, <1>8, <1>9, <1>10, <1>11, <1>12, <1>13, <1>14,
     <1>15, <1>16, <1>17
     DEF Next, Carry, Handle, Maintain, Serve

-----------------------------------------------------------------------------
(* Types *)

\* What FailCalls does, to the calls of the tunnels S.
LEMMA FailedCalls ==
  ASSUME Types, NEW S, FailCalls(S)
  PROVE  /\ pending' \in [Sessions -> SUBSET (Requests \X Nat)]
         /\ req' \in [Requests -> Asked \cup {Idle}]
         /\ \A s \in Sessions : pending'[s] = IF s \in S THEN {} ELSE pending[s]
         /\ \A r \in Requests : req'[r] = req[r] \/ req'[r] = Idle
         /\ \A s \in S, p \in Requests \X Nat :
              p \in pending[s] => req'[p[1]] = Idle /\ req[p[1]].id \in doubt'
         /\ \A r \in Requests : req'[r] # req[r] => req[r].id \in doubt'
         /\ doubt \subseteq doubt'
         /\ \A r \in Requests : req'[r] = Idle \/ dispatch # r \/ dispatch' = r
<1> DEFINE R == UNION {Callers(s) : s \in S}
<1>1. /\ pending' = [s \in Sessions |-> IF s \in S THEN {} ELSE pending[s]]
      /\ req' = [r \in Requests |-> IF r \in R THEN Idle ELSE req[r]]
      /\ dispatch' = IF dispatch \in R THEN None ELSE dispatch
      /\ doubt' = doubt \cup {req[r].id : r \in R}
  BY DEF FailCalls
<1>2. /\ pending \in [Sessions -> SUBSET (Requests \X Nat)]
      /\ req \in [Requests -> Asked \cup {Idle}]
  BY DEF Types
<1>3. \A s \in S : \A p \in pending[s] : p[1] \in R
  BY DEF Callers
<1> HIDE DEF R
<1>4. QED
  BY <1>1, <1>2, <1>3

\* The tables of the root and of its workers.
Tables ==
  /\ life \in Nat
  /\ registered \subseteq Workers
  /\ connection \in [Workers -> Sessions \cup {None}]
  /\ route \in [Ids -> Hosts \cup {None}]
  /\ hosted \in [Hosts -> SUBSET Ids]
  /\ stage = [w \in Workers |-> stage[w]]

LEMMA RefreshFails ==
  ASSUME Types, NEW s, FailRefresh(s)
  PROVE  stage' = [w \in Workers |-> stage'[w]]
BY DEF FailRefresh, Types

\* What a host's table becomes is one.
LEMMA Changes ==
  ASSUME hosted \in [Hosts -> SUBSET Ids], NEW h, NEW op, NEW i \in Ids
  PROVE  Changed(h, op, i) \in [Hosts -> SUBSET Ids]
BY DEF Changed

LEMMA TablesStay ==
  ASSUME Types, Connected, [Next]_vars
  PROVE  Tables'
<1>t. Tables
  BY DEF Types, Tables
<1>1. ASSUME NEW s, NEW e \in Ends, Notice(s, e) PROVE Tables'
  BY <1>1, <1>t, RefreshFails DEF Notice, Tables, worker
<1>2. ASSUME NEW s, NEW e \in Ends, WriteFails(s, e) PROVE Tables'
  BY <1>2, <1>t, RefreshFails DEF WriteFails, Tables, worker
<1>3. ASSUME NEW s, Cut(s) PROVE Tables'
  BY <1>3, <1>t DEF Cut, Tables, worker, root
<1>4. ASSUME NEW w \in Workers, RegisterTunnel(w) PROVE Tables'
  <2>1. made + 1 \in Sessions
    BY <1>4 DEF RegisterTunnel
  <2>2. connection' = [connection EXCEPT ![w] = made + 1] /\ stage' = [stage EXCEPT ![w] = "replying"]
        /\ registered' = registered \cup {w} /\ UNCHANGED <<life, route, hosted>>
    BY <1>4 DEF RegisterTunnel
  <2>3. QED
    BY <1>t, <2>1, <2>2 DEF Tables
<1>5. ASSUME NEW w \in Workers, Registered(w) \/ StoreToken(w) \/ RegistrationLost(w) \/ Refresh(w)
      PROVE  Tables'
  BY <1>5, <1>t DEF Registered, StoreToken, RegistrationLost, Refresh, Tables, root
<1>6. ASSUME NEW w \in Workers, WorkerDies(w) PROVE Tables'
  BY <1>6, <1>t DEF WorkerDies, Tables, root
<1>7. CASE RootRestarts
  <2>1. life' = life + 1 /\ registered' = {} /\ stage' = stage
    BY <1>7 DEF RootRestarts, worker
  <2>2. connection' = [w \in Workers |-> None] /\ route' = [i \in Ids |-> None]
        /\ hosted' = [hosted EXCEPT ![Root] = {}]
    BY <1>7 DEF RootRestarts
  <2>3. QED
    BY <1>t, <2>1, <2>2 DEF Tables
<1>8. ASSUME NEW s, DriverEnds(s) PROVE Tables'
  BY <1>8, <1>t DEF DriverEnds, Tables, worker
<1>9. ASSUME NEW r \in Requests, Local(r) \/ LocalEnds(r) PROVE Tables'
  <2>1. req[r].id \in Ids
    BY <1>9 DEF Local, LocalEnds, Types, Asked, Idle
  <2>2. /\ hosted' = hosted \/ hosted' = Changed(Root, req[r].op, req[r].id)
        /\ UNCHANGED <<life, registered, connection, route, stage>>
    BY <1>9 DEF Local, LocalEnds, worker
  <2>3. QED
    BY <1>t, <2>1, <2>2, Changes DEF Tables
<1>10. ASSUME NEW r \in Requests, Call(r) PROVE Tables'
  BY <1>10, <1>t DEF Call, Tables, worker
<1>11. ASSUME NEW r \in Requests, Reroute(r) PROVE Tables'
  <2>1. req[r].id \in Ids /\ req[r].target \in Hosts
    BY <1>11 DEF Reroute, Types, Asked, Idle
  <2>2. route' \in [Ids -> Hosts \cup {None}] /\ UNCHANGED <<life, registered, connection, hosted, stage>>
    BY <1>11, <1>t, <2>1 DEF Reroute, Tables, worker
  <2>3. QED
    BY <1>t, <2>2 DEF Tables
<1>12. ASSUME NEW m \in wire, TunnelForward(m) \/ ForwardEnds(m) PROVE Tables'
  <2>1. m.kind = "work" => m.id \in Ids
    BY DEF Types, Carried
  <2>2. /\ hosted' = hosted \/ (m.kind = "work" /\ hosted' = Changed(link[m.on].owner, m.op, m.id))
        /\ UNCHANGED <<life, registered, connection, route, stage>>
    BY <1>12 DEF TunnelForward, ForwardEnds, root, worker
  <2>3. QED
    BY <1>t, <2>1, <2>2, Changes DEF Tables
<1>13. ASSUME NEW m \in wire, Answered(m) PROVE Tables'
  BY <1>13, <1>t DEF Answered, Tables, worker
<1>14. ASSUME NEW r \in Requests, NEW i \in Ids, Ask(r, i) PROVE Tables'
  BY <1>14, <1>t DEF Ask, StartInstance, ShutdownInstance, UseInstance, Begins, Tables, worker
<1>15. CASE UNCHANGED vars
  BY <1>15, <1>t DEF vars, root, worker, Tables
<1>16. QED
  BY <1>1, <1>2, <1>3, <1>4, <1>5, <1>6, <1>7, <1>8, <1>9, <1>10, <1>11, <1>12, <1>13, <1>14, <1>15
     DEF Next, Carry, Handle, Maintain, Serve

\* The requests at the root, their calls and the messages.
Requesting ==
  /\ req \in [Requests -> Asked \cup {Idle}]
  /\ pending \in [Sessions -> SUBSET (Requests \X Nat)]
  /\ calls \in [Sessions -> Nat]
  /\ wire \subseteq Carried

LEMMA RequestBegins ==
  ASSUME Types, NEW r \in Requests, NEW op \in Ops, NEW i \in Ids, NEW at \in {"local", "calling"},
         NEW h \in Hosts, NEW s \in Sessions \cup {None}, Begins(r, op, i, at, h, s)
  PROVE  Requesting'
<1>1. [op |-> op, id |-> i, at |-> at, target |-> h, via |-> s] \in Asked
  BY DEF Asked
<1>2. QED
  BY <1>1 DEF Begins, Types, Requesting, tunnel

\* What a client may ask for, in one form.
LEMMA Asking ==
  ASSUME Types, NEW r \in Requests, NEW i \in Ids, Ask(r, i)
  PROVE  \E op \in Ops :
           /\ IF op = "start" THEN dispatch = None /\ route[i] = None /\ i \notin hosted[Root] /\ dispatch' = r
              ELSE route[i] # None /\ UNCHANGED dispatch
           /\ \/ op # "use" /\ (op # "start" => route[i] = Root) /\ Begins(r, op, i, "local", Root, None)
              \/ \E h \in Workers : /\ op # "start" => route[i] = h
                                    /\ connection[h] # None
                                    /\ Begins(r, op, i, "calling", h, connection[h])
<1>1. CASE StartInstance(r, i)
  <2>1. \A h \in Targets(i) : h = Root \/ h \in Workers
    BY DEF Targets, Types
  <2>2. QED
    BY <1>1, <2>1 DEF StartInstance
<1>2. CASE ShutdownInstance(r, i)
  <2>1. route[i] # None /\ route[i] # Root => route[i] \in Workers
    BY DEF Types
  <2>2. QED
    BY <1>2, <2>1 DEF ShutdownInstance
<1>3. CASE UseInstance(r, i)
  <2>1. route[i] \in Workers => route[i] # None
    OBVIOUS
  <2>2. QED
    BY <1>3, <2>1 DEF UseInstance
<1>4. QED
  BY <1>1, <1>2, <1>3 DEF Ask

LEMMA RequestingStays ==
  ASSUME Types, Connected, Waiting, [Next]_vars
  PROVE  Requesting'
<1>t. Requesting
  BY DEF Types, Requesting
<1>0. CASE UNCHANGED <<req, pending, calls, wire>>
  BY <1>0, <1>t DEF Requesting
<1>1. ASSUME NEW s, NEW e \in Ends, Notice(s, e) PROVE Requesting'
  BY <1>1, <1>t, FailedCalls DEF Notice, Requesting
<1>2. ASSUME NEW s, NEW e \in Ends, WriteFails(s, e) PROVE Requesting'
  BY <1>2, <1>t, FailedCalls DEF WriteFails, Requesting
<1>3. ASSUME NEW s, Cut(s) PROVE Requesting'
  BY <1>3, <1>0 DEF Cut, root
<1>4. ASSUME NEW w \in Workers, RegisterTunnel(w) PROVE Requesting'
  BY <1>4, <1>t, FailedCalls DEF RegisterTunnel, Requesting
<1>5. ASSUME NEW w \in Workers, Registered(w) \/ StoreToken(w) \/ RegistrationLost(w) \/ Refresh(w)
      PROVE  Requesting'
  BY <1>5, <1>0 DEF Registered, StoreToken, RegistrationLost, Refresh, root, tunnel
<1>6. ASSUME NEW w \in Workers, WorkerDies(w) PROVE Requesting'
  BY <1>6, <1>t DEF WorkerDies, Requesting, root
<1>7. CASE RootRestarts
  BY <1>7, <1>t DEF RootRestarts, Requesting
<1>8. ASSUME NEW s, DriverEnds(s) PROVE Requesting'
  BY <1>8, <1>0 DEF DriverEnds, tunnel
<1>9. ASSUME NEW r \in Requests, Local(r) \/ LocalEnds(r) PROVE Requesting'
  <2>1. UNCHANGED <<pending, calls, wire>>
    BY <1>9 DEF Local, LocalEnds, tunnel
  <2>2. PICK at \in {"working", "acked"} : req' = [req EXCEPT ![r].at = at] \/ req' = [req EXCEPT ![r] = Idle]
    BY <1>9 DEF Local, LocalEnds, EndRequest
  <2>3. req[r] \in Asked
    BY <1>9 DEF Local, LocalEnds, Types, Idle
  <2>4. QED
    BY <1>t, <2>1, <2>2, <2>3 DEF Requesting, Asked
<1>10. ASSUME NEW r \in Requests, Call(r) PROVE Requesting'
  <2> DEFINE s == req[r].via
             n == calls[s] + 1
             m == [kind |-> "request", on |-> s, call |-> <<r, n>>, op |-> req[r].op,
                   id |-> req[r].id, token |-> <<req[r].target, life>>]
  <2>1. req[r] \in Asked /\ s \in 1 .. made /\ req[r].at = "calling"
    BY <1>10 DEF Call, Types, Connected, Idle
  <2>2. s \in Sessions
    BY <2>1 DEF Asked, Types, Connected
  <2>3. n \in Nat /\ m \in Carried
    BY <1>t, <2>1, <2>2 DEF Types, Asked, Carried, Requesting
  <2>4. CASE EndRequest(r) /\ UNCHANGED <<pending, calls, wire>>
    BY <1>t, <2>4 DEF Requesting, EndRequest
  <2>5. CASE /\ req' = [req EXCEPT ![r].at = "called"]
             /\ pending' = [pending EXCEPT ![s] = @ \cup {<<r, n>>}]
             /\ calls' = [calls EXCEPT ![s] = n]
             /\ wire' = wire \cup {m} \/ wire' = wire
    <3>1. req' \in [Requests -> Asked \cup {Idle}]
      BY <1>t, <2>1, <2>5 DEF Requesting, Asked
    <3>2. QED
      BY <1>t, <2>2, <2>3, <2>5, <3>1 DEF Requesting
  <2>6. QED
    BY <1>10, <2>4, <2>5 DEF Call
<1>11. ASSUME NEW r \in Requests, Reroute(r) PROVE Requesting'
  BY <1>11, <1>t DEF Reroute, EndRequest, tunnel, Requesting
<1>12. ASSUME NEW m \in wire, TunnelForward(m) \/ ForwardEnds(m) PROVE Requesting'
  <2> DEFINE a(ok) == [kind |-> "answer", on |-> m.on, call |-> m.call, ok |-> ok]
             k == [m EXCEPT !.kind = "work"]
  <2>1. a(TRUE) \in Carried /\ a(FALSE) \in Carried
    BY <1>t DEF Carried, Requesting
  <2>2. m.kind = "request" => k \in Carried
    BY <1>t DEF Carried, Requesting
  <2>3. UNCHANGED <<req, pending, calls>>
        /\ (wire' \subseteq wire \cup {a(TRUE), a(FALSE)} \/ (m.kind = "request" /\ wire' \subseteq wire \cup {k}))
    BY <1>12 DEF TunnelForward, ForwardEnds, AnswerForward, root
  <2> HIDE DEF a, k
  <2>4. QED
    BY <1>t, <2>1, <2>2, <2>3 DEF Requesting
<1>13. ASSUME NEW m \in wire, Answered(m) PROVE Requesting'
  <2> DEFINE r == m.call[1]
  <2>1. m.call \in Requests \X Nat /\ r \in Requests /\ m.on \in Sessions
    BY DEF Types, Carried
  <2>2. UNCHANGED calls /\ wire' \subseteq wire /\ pending' = [pending EXCEPT ![m.on] = @ \ {m.call}]
    BY <1>13 DEF Answered
  <2>3. req' = req \/ req' = [req EXCEPT ![r] = Idle]
        \/ (req' = [req EXCEPT ![r].at = "acked"] /\ m.call \in pending[m.on])
    BY <1>13 DEF Answered, EndRequest
  <2>4. m.call \in pending[m.on] => req[r] \in Asked
    BY <2>1 DEF Waiting, Types, Idle
  <2>5. QED
    BY <1>t, <2>1, <2>2, <2>3, <2>4 DEF Requesting, Asked
<1>14. ASSUME NEW r \in Requests, NEW i \in Ids, Ask(r, i) PROVE Requesting'
  <2>1. \A h \in Workers : connection[h] \in Sessions \cup {None}
    BY DEF Types
  <2>2. QED
    BY <1>14, <2>1, Asking, RequestBegins
<1>15. CASE UNCHANGED vars
  BY <1>15, <1>0 DEF vars, root, tunnel
<1>16. QED
  BY <1>1, <1>2, <1>3, <1>4, <1>5, <1>6, <1>7, <1>8, <1>9, <1>10, <1>11, <1>12, <1>13, <1>14, <1>15
     DEF Next, Carry, Handle, Maintain, Serve

LEMMA TypesStay ==
  ASSUME Types, Connected, Waiting, [Next]_vars
  PROVE  Types'
BY TunnelsGrow, TablesStay, RequestingStays DEF Types, Tables, Requesting, Grown

-----------------------------------------------------------------------------
(* Connections *)

\* The request r keeps the host and the tunnel it was given.
Keeps(r) ==
  /\ req'[r].at \in {"calling", "called"} =>
       req[r].at \in {"calling", "called"} /\ req'[r].via = req[r].via /\ req'[r].target = req[r].target
  /\ req'[r].at \in {"local", "working"} =>
       req[r].at \in {"local", "working"} /\ req'[r].target = req[r].target
  /\ req'[r].at \in {"local", "working", "acked"} => req'[r].op # "use"

LEMMA ConnectedKept ==
  ASSUME Types, Connected, Grown, \A w \in Workers : connection'[w] \in {connection[w], None},
         \A r \in Requests : Keeps(r)
  PROVE  Connected'
<1>1. ASSUME NEW t \in 1 .. made PROVE t \in 1 .. made' /\ link'[t].owner = link[t].owner
  BY DEF Grown, Types
<1>2. QED
  BY <1>1 DEF Connected, Keeps

LEMMA ReqKept ==
  ASSUME Connected, \A r \in Requests : req'[r] = req[r] \/ req'[r] = Idle
  PROVE  \A r \in Requests : Keeps(r)
BY DEF Keeps, Idle, Connected

LEMMA AskConnected ==
  ASSUME Types, Connected, Grown, NEW r \in Requests, NEW i \in Ids, Ask(r, i)
  PROVE  Connected'
<1>1. PICK op \in Ops :
        \/ op # "use" /\ Begins(r, op, i, "local", Root, None)
        \/ \E h \in Workers : connection[h] # None /\ Begins(r, op, i, "calling", h, connection[h])
  BY Asking
<1>2. ASSUME NEW t \in 1 .. made PROVE t \in 1 .. made' /\ link'[t].owner = link[t].owner
  BY DEF Grown, Types
<1>3. UNCHANGED connection
  BY <1>1 DEF Begins
<1>4. CASE op # "use" /\ Begins(r, op, i, "local", Root, None)
  <2>1. req' = [req EXCEPT ![r] = [op |-> op, id |-> i, at |-> "local", target |-> Root, via |-> None]]
    BY <1>4 DEF Begins
  <2>2. /\ req'[r].at = "local" /\ req'[r].target = Root /\ req'[r].op = op
        /\ \A q \in Requests : q # r => req'[q] = req[q]
    BY <2>1 DEF Types
  <2>3. \A w \in Workers : connection'[w] # None => connection'[w] \in 1 .. made' /\ link'[connection'[w]].owner = w
    BY <1>2, <1>3 DEF Connected
  <2>4. ASSUME NEW q \in Requests, req'[q].at \in {"calling", "called"}
        PROVE  req'[q].via \in 1 .. made' /\ link'[req'[q].via].owner = req'[q].target
    BY <1>2, <2>2, <2>4 DEF Connected
  <2>5. \A q \in Requests :
          /\ req'[q].at \in {"local", "working"} => req'[q].target = Root
          /\ req'[q].at \in {"local", "working", "acked"} => req'[q].op # "use"
    BY <1>4, <2>2 DEF Connected
  <2>6. QED
    BY <2>3, <2>4, <2>5 DEF Connected
<1>5. ASSUME NEW h \in Workers, connection[h] # None, Begins(r, op, i, "calling", h, connection[h])
      PROVE  Connected'
  <2>1. req' = [req EXCEPT ![r] = [op |-> op, id |-> i, at |-> "calling", target |-> h, via |-> connection[h]]]
    BY <1>5 DEF Begins
  <2>2. /\ req'[r].at = "calling" /\ req'[r].target = h /\ req'[r].via = connection[h]
        /\ \A q \in Requests : q # r => req'[q] = req[q]
    BY <2>1 DEF Types
  <2>3. connection[h] \in 1 .. made' /\ link'[connection[h]].owner = h
    BY <1>2, <1>5 DEF Connected
  <2>4. \A w \in Workers : connection'[w] # None => connection'[w] \in 1 .. made' /\ link'[connection'[w]].owner = w
    BY <1>2, <1>3 DEF Connected
  <2>5. ASSUME NEW q \in Requests, req'[q].at \in {"calling", "called"}
        PROVE  req'[q].via \in 1 .. made' /\ link'[req'[q].via].owner = req'[q].target
    BY <1>2, <2>2, <2>3, <2>5 DEF Connected
  <2>6. \A q \in Requests :
          /\ req'[q].at \in {"local", "working"} => req'[q].target = Root
          /\ req'[q].at \in {"local", "working", "acked"} => req'[q].op # "use"
    BY <2>2 DEF Connected
  <2>7. QED
    BY <2>4, <2>5, <2>6 DEF Connected
<1>6. QED
  BY <1>1, <1>4, <1>5

LEMMA ConnectedStays ==
  ASSUME Types, Connected, Waiting, [Next]_vars
  PROVE  Connected'
<1>g. Grown
  BY TunnelsGrow
<1>q. \A r \in Requests : req' = req => Keeps(r)
  BY DEF Keeps, Connected
<1>0. CASE UNCHANGED <<connection, req>>
  BY <1>0, <1>g, <1>q, ConnectedKept
<1>1. ASSUME NEW s, NEW e \in Ends, Notice(s, e) \/ WriteFails(s, e) PROVE Connected'
  <2>1. UNCHANGED connection /\ (UNCHANGED req \/ FailCalls({s}))
    BY <1>1 DEF Notice, WriteFails
  <2>2. QED
    BY <2>1, <1>0, <1>g, FailedCalls, ReqKept, ConnectedKept
<1>3. ASSUME NEW w \in Workers, RegisterTunnel(w) PROVE Connected'
  <2> DEFINE s == made + 1
             old == IF connection[w] = None THEN {} ELSE {connection[w]}
  <2>1. FailCalls(old) /\ connection' = [connection EXCEPT ![w] = s] /\ made' = s
    BY <1>3 DEF RegisterTunnel
  <2>2. link'[s].owner = w
    BY <1>3 DEF RegisterTunnel, Types
  <2>3. ASSUME NEW t \in 1 .. made PROVE t \in 1 .. made' /\ link'[t].owner = link[t].owner
    BY <1>g DEF Grown, Types
  <2>4. s \in 1 .. made' /\ connection \in [Workers -> Sessions \cup {None}]
    BY <2>1 DEF Types
  <2>5. \A r \in Requests : req'[r] = req[r] \/ req'[r] = Idle
    BY <2>1, FailedCalls
  <2> HIDE DEF old, s
  <2>6. QED
    BY <2>1, <2>2, <2>3, <2>4, <2>5 DEF Connected, Idle
<1>4. ASSUME NEW s, Cut(s) \/ DriverEnds(s) PROVE Connected'
  <2>1. UNCHANGED req /\ (UNCHANGED connection \/ connection' = [connection EXCEPT ![link[s].owner] = None])
    BY <1>4 DEF Cut, DriverEnds, root
  <2>2. \A w \in Workers : connection'[w] \in {connection[w], None}
    BY <2>1 DEF Types
  <2>3. QED
    BY <2>1, <2>2, <1>g, <1>q, ConnectedKept
<1>5. ASSUME NEW w \in Workers,
             Registered(w) \/ StoreToken(w) \/ RegistrationLost(w) \/ Refresh(w) \/ WorkerDies(w)
      PROVE  Connected'
  BY <1>5, <1>0 DEF Registered, StoreToken, RegistrationLost, Refresh, WorkerDies, root
<1>7. CASE RootRestarts
  <2>1. connection' = [w \in Workers |-> None] /\ req' = [r \in Requests |-> Idle]
    BY <1>7 DEF RootRestarts
  <2>2. QED
    BY <2>1, <1>g, ReqKept, ConnectedKept
<1>9. ASSUME NEW r \in Requests, Local(r) \/ LocalEnds(r) \/ Reroute(r) PROVE Connected'
  <2>1. UNCHANGED connection
        /\ \/ /\ req[r].at \in {"local", "working"}
              /\ req' = [req EXCEPT ![r].at = "working"] \/ req' = [req EXCEPT ![r].at = "acked"]
           \/ req' = [req EXCEPT ![r] = Idle]
    BY <1>9 DEF Local, LocalEnds, Reroute, EndRequest
  <2>2. req[r] \in Asked /\ req = [t \in Requests |-> req[t]]
    BY <1>9 DEF Local, LocalEnds, Reroute, Types, Idle
  <2>3. \A t \in Requests : Keeps(t)
    BY <2>1, <2>2 DEF Keeps, Asked, Idle, Connected
  <2>4. QED
    BY <2>1, <2>3, <1>g, ConnectedKept
<1>10. ASSUME NEW r \in Requests, Call(r) PROVE Connected'
  <2>1. UNCHANGED connection /\ (req' = [req EXCEPT ![r].at = "called"] \/ req' = [req EXCEPT ![r] = Idle])
    BY <1>10 DEF Call, EndRequest
  <2>2. req[r] \in Asked /\ req = [t \in Requests |-> req[t]] /\ req[r].at = "calling"
    BY <1>10 DEF Call, Types, Idle
  <2>3. \A t \in Requests : Keeps(t)
    BY <2>1, <2>2 DEF Keeps, Asked, Idle, Connected
  <2>4. QED
    BY <2>1, <2>3, <1>g, ConnectedKept
<1>12. ASSUME NEW m \in wire, TunnelForward(m) \/ ForwardEnds(m) PROVE Connected'
  BY <1>12, <1>0 DEF TunnelForward, ForwardEnds, root
<1>13. ASSUME NEW m \in wire, Answered(m) PROVE Connected'
  <2> DEFINE r == m.call[1]
  <2>1. UNCHANGED connection
        /\ \/ req' = req \/ req' = [req EXCEPT ![r] = Idle]
           \/ req' = [req EXCEPT ![r].at = "acked"] /\ m.call \in pending[m.on] /\ req[r].op # "use"
    BY <1>13 DEF Answered, EndRequest
  <2>2. r \in Requests /\ m.on \in Sessions /\ req = [t \in Requests |-> req[t]]
    BY DEF Types, Carried
  <2>3. m.call \in pending[m.on] => req[r] \in Asked
    BY <2>2 DEF Waiting, Types, Idle
  <2>4. \A t \in Requests : Keeps(t)
    BY <2>1, <2>2, <2>3 DEF Keeps, Asked, Idle, Connected
  <2>5. QED
    BY <2>1, <2>4, <1>g, ConnectedKept
<1>14. ASSUME NEW r \in Requests, NEW i \in Ids, Ask(r, i) PROVE Connected'
  BY <1>14, <1>g, AskConnected
<1>15. CASE UNCHANGED vars
  BY <1>15, <1>0 DEF vars, root
<1>16. QED
  BY <1>1, <1>3, <1>4, <1>5, <1>7, <1>9, <1>10, <1>12, <1>13, <1>14, <1>15
     DEF Next, Carry, Handle, Maintain, Serve

-----------------------------------------------------------------------------
(* Calls and messages *)

LEMMA WaitingKept ==
  ASSUME Types, Waiting, calls' = calls,
         \A s \in Sessions : pending'[s] \subseteq pending[s],
         \A s \in Sessions : \A p \in pending'[s] : req'[p[1]] = req[p[1]]
  PROVE  Waiting'
BY DEF Waiting

\* After FailCalls, the calls still waited for are those of requests it left alone.
LEMMA FailedWaiting ==
  ASSUME Types, Waiting, NEW S \in SUBSET Sessions, FailCalls(S)
  PROVE  \A s \in Sessions : \A p \in pending'[s] : p \in pending[s] /\ req'[p[1]] = req[p[1]]
<1>1. SUFFICES ASSUME NEW s \in Sessions, NEW p \in pending'[s]
      PROVE  p \in pending[s] /\ req'[p[1]] = req[p[1]]
  OBVIOUS
<1>2. s \notin S /\ p \in pending[s]
  BY FailedCalls
<1>3. p[1] \in Requests /\ p[1] \notin UNION {Callers(t) : t \in S}
  BY <1>2 DEF Types, Waiting, Callers
<1>4. QED
  BY <1>2, <1>3 DEF FailCalls

LEMMA WaitingStays ==
  ASSUME Types, Connected, Waiting, Messages, [Next]_vars
  PROVE  Waiting'
<1>t. /\ req \in [Requests -> Asked \cup {Idle}]
      /\ pending \in [Sessions -> SUBSET (Requests \X Nat)] /\ calls \in [Sessions -> Nat]
  BY DEF Types
<1>0. CASE UNCHANGED <<req, pending, calls>>
  BY <1>0, WaitingKept
\* A request that waits for no call may change.
<1>f. ASSUME NEW r \in Requests, req[r].at # "called", UNCHANGED <<pending, calls>>,
             \A t \in Requests : t # r => req'[t] = req[t]
      PROVE  Waiting'
  BY <1>f, <1>t, WaitingKept DEF Waiting
<1>1. ASSUME NEW s \in 1 .. made, NEW e \in Ends, Notice(s, e) \/ WriteFails(s, e) PROVE Waiting'
  <2>1. UNCHANGED calls /\ (UNCHANGED <<req, pending>> \/ FailCalls({s}))
    BY <1>1 DEF Notice, WriteFails
  <2>2. {s} \in SUBSET Sessions
    BY DEF Types
  <2>3. QED
    BY <2>1, <2>2, <1>0, FailedWaiting, WaitingKept
<1>3. ASSUME NEW w \in Workers, RegisterTunnel(w) PROVE Waiting'
  <2> DEFINE old == IF connection[w] = None THEN {} ELSE {connection[w]}
  <2>1. UNCHANGED calls /\ FailCalls(old)
    BY <1>3 DEF RegisterTunnel
  <2>2. old \in SUBSET Sessions
    BY DEF Types
  <2> HIDE DEF old
  <2>3. QED
    BY <2>1, <2>2, FailedWaiting, WaitingKept
<1>4. ASSUME NEW s, Cut(s) \/ DriverEnds(s) PROVE Waiting'
  BY <1>4, <1>0 DEF Cut, DriverEnds, root, tunnel
<1>5. ASSUME NEW w \in Workers,
             Registered(w) \/ StoreToken(w) \/ RegistrationLost(w) \/ Refresh(w) \/ WorkerDies(w)
      PROVE  Waiting'
  BY <1>5, <1>0 DEF Registered, StoreToken, RegistrationLost, Refresh, WorkerDies, root, tunnel
<1>7. CASE RootRestarts
  <2>1. pending' = [s \in Sessions |-> {}]
    BY <1>7 DEF RootRestarts
  <2>2. QED
    BY <2>1 DEF Waiting
<1>9. ASSUME NEW r \in Requests, Local(r) \/ LocalEnds(r) \/ Reroute(r) PROVE Waiting'
  <2>1. UNCHANGED <<pending, calls>> /\ req[r].at # "called"
        /\ \/ req' = [req EXCEPT ![r].at = "working"] \/ req' = [req EXCEPT ![r].at = "acked"]
           \/ req' = [req EXCEPT ![r] = Idle]
    BY <1>9 DEF Local, LocalEnds, Reroute, EndRequest, tunnel
  <2>2. QED
    BY <2>1, <1>f, <1>t
<1>10. ASSUME NEW r \in Requests, Call(r) PROVE Waiting'
  <2> DEFINE s == req[r].via
             n == calls[s] + 1
  <2>1. req[r] \in Asked /\ s \in Sessions /\ req[r].at = "calling"
    BY <1>10 DEF Call, Types, Connected, Idle
  <2>2. CASE EndRequest(r) /\ UNCHANGED <<pending, calls>>
    <3>1. \A t \in Requests : t # r => req'[t] = req[t]
      BY <1>t, <2>2 DEF EndRequest
    <3>2. QED
      BY <2>1, <2>2, <3>1, <1>f
  <2>3. CASE /\ req' = [req EXCEPT ![r].at = "called"]
             /\ pending' = [pending EXCEPT ![s] = @ \cup {<<r, n>>}]
             /\ calls' = [calls EXCEPT ![s] = n]
    <3>1. req'[r].at = "called" /\ req'[r].via = s /\ \A t \in Requests : t # r => req'[t] = req[t]
      BY <1>t, <2>1, <2>3 DEF Asked
    <3>2. \A t \in Sessions : \A p \in pending[t] : p[1] # r /\ p[1] \in Requests
      BY <1>t, <2>1 DEF Waiting
    <3>3. \A t \in Sessions : \A p \in pending'[t] : p \in pending[t] \/ (t = s /\ p = <<r, n>>)
      BY <1>t, <2>1, <2>3
    <3>4. calls'[s] = n /\ n \in Nat /\ calls[s] <= n /\ \A t \in Sessions : t # s => calls'[t] = calls[t]
      BY <1>t, <2>1, <2>3
    <3>5. \A t \in Sessions : \A p \in pending[t] : p[2] <= calls'[t]
      <4> SUFFICES ASSUME NEW t \in Sessions, NEW p \in pending[t] PROVE p[2] <= calls'[t]
        OBVIOUS
      <4>1. p[2] \in Nat /\ p[2] <= calls[t] /\ calls[t] \in Nat
        BY <1>t DEF Waiting
      <4>2. QED
        BY <4>1, <3>4
    <3> HIDE DEF n, s
    <3>6. QED
      BY <3>1, <3>2, <3>3, <3>4, <3>5 DEF Waiting
  <2>4. QED
    BY <1>10, <2>2, <2>3 DEF Call
<1>12. ASSUME NEW m \in wire, TunnelForward(m) \/ ForwardEnds(m) PROVE Waiting'
  BY <1>12, <1>0 DEF TunnelForward, ForwardEnds, root
<1>13. ASSUME NEW m \in wire, Answered(m) PROVE Waiting'
  <2> DEFINE r == m.call[1]
  <2>1. UNCHANGED calls /\ pending' = [pending EXCEPT ![m.on] = @ \ {m.call}]
        /\ \/ req' = req
           \/ m.call \in pending[m.on] /\ (req' = [req EXCEPT ![r] = Idle] \/ req' = [req EXCEPT ![r].at = "acked"])
    BY <1>13 DEF Answered, EndRequest
  <2>2. r \in Requests /\ m.on \in Sessions
    BY DEF Types, Carried
  <2>3. \A s \in Sessions : \A p \in pending'[s] : p \in pending[s] /\ ~(s = m.on /\ p = m.call)
    BY <1>t, <2>1, <2>2
  <2>4. m.call \in pending[m.on] => \A s \in Sessions : \A p \in pending'[s] : p[1] # r
    BY <2>2, <2>3 DEF Waiting
  <2>5. \A s \in Sessions : \A p \in pending'[s] : req'[p[1]] = req[p[1]]
    BY <1>t, <2>1, <2>3, <2>4
  <2>6. QED
    BY <2>1, <2>3, <2>5, WaitingKept
<1>14. ASSUME NEW r \in Requests, NEW i \in Ids, Ask(r, i) PROVE Waiting'
  <2>1. PICK op \in Ops :
          \/ Begins(r, op, i, "local", Root, None)
          \/ \E h \in Workers : connection[h] # None /\ Begins(r, op, i, "calling", h, connection[h])
    BY <1>14, Asking
  <2>2. req[r] = Idle /\ UNCHANGED <<pending, calls>> /\ \A t \in Requests : t # r => req'[t] = req[t]
    BY <1>t, <2>1 DEF Begins, tunnel
  <2>3. QED
    BY <2>2, <1>f DEF Idle
<1>15. CASE UNCHANGED vars
  BY <1>15, <1>0 DEF vars, root, tunnel
<1>16. QED
  BY <1>1, <1>3, <1>4, <1>5, <1>7, <1>9, <1>10, <1>12, <1>13, <1>14, <1>15
     DEF Next, Carry, Handle, Maintain, Serve, Types

LEMMA MessagesKept ==
  ASSUME Types, Messages, made' \in Nat, made <= made', calls' = calls, wire' \subseteq wire,
         doubt \subseteq doubt',
         \A m \in wire' : m.kind # "answer" /\ Waited(m) => m.id \in doubt' \/ Waited(m)',
         \A m \in wire' : m.kind # "answer" /\ Waited(m)' =>
           /\ Waited(m)
           /\ req'[m.call[1]].op = req[m.call[1]].op /\ req'[m.call[1]].id = req[m.call[1]].id
  PROVE  Messages'
<1>1. SUFFICES ASSUME NEW m \in wire'
      PROVE  /\ m.on \in 1 .. made' /\ m.call[2] <= calls'[m.on]
             /\ \A k \in wire' : k.on = m.on /\ k.call = m.call => k = m
             /\ m.kind # "answer" =>
                  /\ m.id \in doubt' \/ Waited(m)'
                  /\ Waited(m)' => req'[m.call[1]].op = m.op /\ req'[m.call[1]].id = m.id
             /\ m.kind = "work" => m.op # "use"
  BY DEF Messages
<1>2. m \in wire /\ made \in Nat /\ 1 .. made \subseteq 1 .. made'
  BY DEF Types
<1>3. QED
  BY <1>1, <1>2 DEF Messages

LEMMA FailedMessages ==
  ASSUME Types, Waiting, Messages, made' \in Nat, made <= made', UNCHANGED <<calls, wire>>,
         NEW S \in SUBSET Sessions, FailCalls(S)
  PROVE  Messages'
<1>1. ASSUME NEW m \in wire, m.kind # "answer", Waited(m), m.id \notin doubt'
      PROVE  Waited(m)'
  <2>1. m.call \in Requests \X Nat /\ m.on \in Sessions
    BY DEF Types, Carried
  <2>2. req[m.call[1]].id = m.id
    BY <1>1 DEF Messages
  <2>3. m.on \notin S
    BY <1>1, <2>1, <2>2, FailedCalls DEF Waited
  <2>4. QED
    BY <1>1, <2>1, <2>3, FailedCalls DEF Waited
<1>2. ASSUME NEW m \in wire, Waited(m)'
      PROVE  Waited(m) /\ req'[m.call[1]] = req[m.call[1]]
  <2>1. m.on \in Sessions
    BY DEF Types, Carried
  <2>2. QED
    BY <1>2, <2>1, FailedWaiting DEF Waited
<1>3. doubt \subseteq doubt'
  BY FailedCalls
<1>4. QED
  BY <1>1, <1>2, <1>3, MessagesKept

\* Another request than the one that is called, or is asked, keeps what it asks for.
LEMMA MessagesOfOthers ==
  ASSUME Types, Waiting, Messages, UNCHANGED <<made, calls, wire, pending>>, doubt \subseteq doubt',
         NEW r \in Requests, req[r].at # "called", \A t \in Requests : t # r => req'[t] = req[t]
  PROVE  Messages'
<1>1. ASSUME NEW m \in wire, Waited(m) PROVE m.call[1] \in Requests /\ m.call[1] # r
  BY <1>1 DEF Types, Carried, Waiting, Waited
<1>2. made' \in Nat /\ made <= made'
  BY DEF Types
<1>3. QED
  BY <1>1, <1>2, MessagesKept DEF Waited

LEMMA MessagesStay ==
  ASSUME Types, Connected, Waiting, Messages, [Next]_vars
  PROVE  Messages'
<1>t. /\ req \in [Requests -> Asked \cup {Idle}] /\ made \in Nat
      /\ pending \in [Sessions -> SUBSET (Requests \X Nat)] /\ calls \in [Sessions -> Nat]
  BY DEF Types
<1>g. made' \in Nat /\ made <= made'
  BY TunnelsGrow DEF Grown
<1>0. CASE UNCHANGED <<req, pending, calls, doubt>> /\ wire' \subseteq wire
  BY <1>0, <1>g, MessagesKept DEF Waited
<1>1. ASSUME NEW s \in 1 .. made, NEW e \in Ends, Notice(s, e) \/ WriteFails(s, e) PROVE Messages'
  <2>1. UNCHANGED <<calls, wire>> /\ (UNCHANGED <<req, pending, doubt>> \/ FailCalls({s}))
    BY <1>1 DEF Notice, WriteFails
  <2>2. {s} \in SUBSET Sessions
    BY DEF Types
  <2>3. QED
    BY <2>1, <2>2, <1>0, <1>g, FailedMessages
<1>3. ASSUME NEW w \in Workers, RegisterTunnel(w) PROVE Messages'
  <2> DEFINE old == IF connection[w] = None THEN {} ELSE {connection[w]}
  <2>1. UNCHANGED <<calls, wire>> /\ FailCalls(old)
    BY <1>3 DEF RegisterTunnel
  <2>2. old \in SUBSET Sessions
    BY DEF Types
  <2> HIDE DEF old
  <2>3. QED
    BY <2>1, <2>2, <1>g, FailedMessages
<1>4. ASSUME NEW s, Cut(s) \/ DriverEnds(s) PROVE Messages'
  BY <1>4, <1>0 DEF Cut, DriverEnds, root, tunnel, ghost
<1>5. ASSUME NEW w \in Workers,
             Registered(w) \/ StoreToken(w) \/ RegistrationLost(w) \/ Refresh(w) \/ WorkerDies(w)
      PROVE  Messages'
  BY <1>5, <1>0 DEF Registered, StoreToken, RegistrationLost, Refresh, WorkerDies, root, tunnel, ghost
<1>7. CASE RootRestarts
  <2>1. wire' \subseteq wire /\ UNCHANGED calls /\ doubt \subseteq doubt'
        /\ \A i \in Ids : Open(i) # {} => i \in doubt'
    BY <1>7 DEF RootRestarts
  <2>4. \A s \in Sessions : pending'[s] = {}
    BY <1>7 DEF RootRestarts
  <2>5. \A m \in wire : ~Waited(m)'
    BY <2>4 DEF Waited, Types, Carried
  <2>2. ASSUME NEW m \in wire, m.kind # "answer", Waited(m) PROVE m.id \in doubt'
    <3>1. m.id \in Ids /\ m.call[1] \in Requests
      BY <2>2 DEF Types, Carried
    <3>2. m.id \in doubt \/ m.call[1] \in Open(m.id)
      BY <2>2, <3>1 DEF Messages, Open
    <3>3. QED
      BY <2>1, <3>1, <3>2
  <2>3. QED
    BY <2>1, <2>2, <2>5, <1>g, MessagesKept
<1>9. ASSUME NEW r \in Requests, Local(r) \/ LocalEnds(r) \/ Reroute(r) PROVE Messages'
  <2>1. UNCHANGED <<made, calls, wire, pending, doubt>> /\ req[r].at # "called"
        /\ \/ req' = [req EXCEPT ![r].at = "working"] \/ req' = [req EXCEPT ![r].at = "acked"]
           \/ req' = [req EXCEPT ![r] = Idle]
    BY <1>9 DEF Local, LocalEnds, Reroute, EndRequest, tunnel, ghost
  <2>2. QED
    BY <2>1, <1>t, MessagesOfOthers
<1>10. ASSUME NEW r \in Requests, Call(r) PROVE Messages'
  <2> DEFINE s == req[r].via
             n == calls[s] + 1
             m == [kind |-> "request", on |-> s, call |-> <<r, n>>, op |-> req[r].op,
                   id |-> req[r].id, token |-> <<req[r].target, life>>]
  <2>1. req[r] \in Asked /\ s \in Sessions /\ s \in 1 .. made /\ req[r].at = "calling"
        /\ UNCHANGED <<made, doubt>>
    BY <1>10 DEF Call, Types, Connected, Idle, ghost
  <2>2. CASE EndRequest(r) /\ UNCHANGED <<pending, calls, wire>>
    <3>1. \A t \in Requests : t # r => req'[t] = req[t]
      BY <1>t, <2>2 DEF EndRequest
    <3>2. QED
      BY <2>1, <2>2, <3>1, MessagesOfOthers
  <2>3. CASE /\ req' = [req EXCEPT ![r].at = "called"]
             /\ pending' = [pending EXCEPT ![s] = @ \cup {<<r, n>>}]
             /\ calls' = [calls EXCEPT ![s] = n]
             /\ wire' = wire \cup {m} \/ wire' = wire
    <3>1. req'[r].op = req[r].op /\ req'[r].id = req[r].id /\ \A t \in Requests : t # r => req'[t] = req[t]
      BY <1>t, <2>1, <2>3 DEF Asked
    <3>2. <<r, n>> \in pending'[s] /\ \A t \in Sessions : pending[t] \subseteq pending'[t]
      BY <1>t, <2>1, <2>3
    <3>12. \A t \in Sessions : \A p \in pending'[t] : p \in pending[t] \/ (t = s /\ p = <<r, n>>)
      BY <1>t, <2>1, <2>3
    <3>3. calls'[s] = n /\ n \in Nat /\ calls[s] < n /\ \A t \in Sessions : t # s => calls'[t] = calls[t]
      BY <1>t, <2>1, <2>3
    <3>4. m.kind = "request" /\ m.on = s /\ m.call = <<r, n>> /\ m.call[1] = r /\ m.call[2] = n
          /\ m.op = req[r].op /\ m.id = req[r].id
      OBVIOUS
    <3> HIDE DEF m, n, s
    <3>5. ASSUME NEW k \in wire
          PROVE  /\ k.on \in 1 .. made /\ k.on \in Sessions /\ k.call[2] <= calls'[k.on]
                 /\ ~(k.on = s /\ k.call = <<r, n>>)
                 /\ k.kind # "answer" =>
                      /\ k.id \in doubt \/ k.call \in pending'[k.on]
                      /\ k.call \in pending'[k.on] => req'[k.call[1]].op = k.op /\ req'[k.call[1]].id = k.id
                 /\ k.kind = "work" => k.op # "use"
      <4>1. k.on \in 1 .. made /\ k.on \in Sessions /\ k.call[2] <= calls[k.on] /\ k.call[2] \in Nat
            /\ k.call[1] \in Requests /\ calls[k.on] \in Nat
        BY <1>t DEF Messages, Types, Carried
      <4>2. k.call[2] <= calls'[k.on]
        BY <4>1, <3>3
      <4>3. ~(k.on = s /\ k.call = <<r, n>>)
        BY <4>1, <3>3
      <4>4. /\ Waited(k) => k.call \in pending'[k.on] /\ k.call[1] # r
            /\ k.call \in pending'[k.on] => Waited(k)
        BY <4>1, <4>3, <3>2, <3>12, <2>1 DEF Waited, Waiting
      <4>5. QED
        BY <4>1, <4>2, <4>3, <4>4, <3>1 DEF Messages
    <3>6. \A k \in wire' : k \in wire \/ k = m
      BY <2>3
    <3>7. n <= n
      BY <3>3
    <3>8. SUFFICES ASSUME NEW k \in wire'
          PROVE  /\ k.on \in 1 .. made' /\ k.call[2] <= calls'[k.on]
                 /\ \A j \in wire' : j.on = k.on /\ j.call = k.call => j = k
                 /\ k.kind # "answer" =>
                      /\ k.id \in doubt' \/ k.call \in pending'[k.on]
                      /\ k.call \in pending'[k.on] => req'[k.call[1]].op = k.op /\ req'[k.call[1]].id = k.id
                 /\ k.kind = "work" => k.op # "use"
      BY DEF Messages, Waited
    <3>9. CASE k \in wire
      BY <3>9, <3>4, <3>5, <3>6, <2>1 DEF Messages
    <3>10. CASE k = m
      BY <3>10, <3>1, <3>2, <3>3, <3>4, <3>5, <3>6, <3>7, <2>1
    <3>11. QED
      BY <3>6, <3>9, <3>10
  <2>4. QED
    BY <1>10, <2>2, <2>3 DEF Call
<1>12. ASSUME NEW m \in wire, TunnelForward(m) \/ ForwardEnds(m) PROVE Messages'
  <2> DEFINE a(ok) == [kind |-> "answer", on |-> m.on, call |-> m.call, ok |-> ok]
             j == [m EXCEPT !.kind = "work"]
  <2>1. UNCHANGED <<req, pending, calls, doubt, made>>
        /\ \/ \E b \in BOOLEAN : wire' \subseteq (wire \ {m}) \cup {a(b)}
           \/ m.kind = "request" /\ m.op # "use" /\ wire' \subseteq (wire \ {m}) \cup {j}
    BY <1>12 DEF TunnelForward, ForwardEnds, AnswerForward, root, ghost
  <2>2. \A b : a(b).kind = "answer" /\ a(b).on = m.on /\ a(b).call = m.call
    OBVIOUS
  <2>3. m.kind = "request" =>
          j.kind = "work" /\ j.on = m.on /\ j.call = m.call /\ j.op = m.op /\ j.id = m.id
    BY DEF Types, Carried
  <2> HIDE DEF a, j
  <2>4. PICK k : /\ k.on = m.on /\ k.call = m.call /\ wire' \subseteq (wire \ {m}) \cup {k}
                 /\ \/ k.kind = "answer"
                    \/ k.kind = "work" /\ m.kind = "request" /\ k.op # "use" /\ k.op = m.op /\ k.id = m.id
    BY <2>1, <2>2, <2>3
  <2>5. QED
    BY <2>1, <2>4 DEF Messages, Waited
<1>13. ASSUME NEW m \in wire, Answered(m) PROVE Messages'
  <2> DEFINE r == m.call[1]
  <2>1. UNCHANGED <<calls, made, doubt>> /\ wire' = wire \ {m} /\ pending' = [pending EXCEPT ![m.on] = @ \ {m.call}]
        /\ \/ req' = req
           \/ m.call \in pending[m.on] /\ (req' = [req EXCEPT ![r] = Idle] \/ req' = [req EXCEPT ![r].at = "acked"])
    BY <1>13 DEF Answered, EndRequest, ghost
  <2>2. r \in Requests /\ m.on \in Sessions
    BY DEF Types, Carried
  <2>3. ASSUME NEW k \in wire', Waited(k)
        PROVE  Waited(k)' /\ req'[k.call[1]] = req[k.call[1]]
    <3>1. k \in wire /\ k # m /\ k.on \in Sessions /\ k.call[1] \in Requests
      BY <2>1 DEF Types, Carried
    <3>2. ~(k.on = m.on /\ k.call = m.call)
      BY <3>1 DEF Messages
    <3>3. k.call \in pending'[k.on]
      BY <1>t, <2>1, <2>2, <2>3, <3>1, <3>2 DEF Waited
    <3>4. m.call \in pending[m.on] => k.call[1] # r
      BY <2>2, <2>3, <3>1, <3>2 DEF Waited, Waiting
    <3>5. QED
      BY <1>t, <2>1, <3>1, <3>3, <3>4 DEF Waited
  <2>4. ASSUME NEW k \in wire', Waited(k)' PROVE Waited(k)
    BY <1>t, <2>1, <2>2, <2>4 DEF Types, Carried, Waited
  <2>5. QED
    BY <2>1, <2>3, <2>4, <1>g, MessagesKept
<1>14. ASSUME NEW r \in Requests, NEW i \in Ids, Ask(r, i) PROVE Messages'
  <2>1. PICK op \in Ops :
          \/ Begins(r, op, i, "local", Root, None)
          \/ \E h \in Workers : connection[h] # None /\ Begins(r, op, i, "calling", h, connection[h])
    BY <1>14, Asking
  <2>2. req[r] = Idle /\ UNCHANGED <<made, calls, wire, pending, doubt>>
        /\ \A t \in Requests : t # r => req'[t] = req[t]
    BY <1>t, <2>1 DEF Begins, tunnel
  <2>3. QED
    BY <2>2, MessagesOfOthers DEF Idle
<1>15. CASE UNCHANGED vars
  BY <1>15, <1>0 DEF vars, root, tunnel, ghost
<1>16. QED
  BY <1>1, <1>3, <1>4, <1>5, <1>7, <1>9, <1>10, <1>12, <1>13, <1>14, <1>15
     DEF Next, Carry, Handle, Maintain, Serve, Types

-----------------------------------------------------------------------------
(* One start at a time *)

LEMMA OneStartKept ==
  ASSUME OneStart, \A r \in Requests : req'[r].op = "start" =>
                     req[r].op = "start" /\ (dispatch = r => dispatch' = r)
  PROVE  OneStart'
BY DEF OneStart

LEMMA EndKeepsStart ==
  ASSUME Types, OneStart, NEW r, EndRequest(r)
  PROVE  OneStart'
<1>1. \A t \in Requests : req'[t].op = "start" => t # r /\ req'[t] = req[t]
  BY DEF EndRequest, Types, Idle
<1>2. QED
  BY <1>1 DEF EndRequest, OneStart

LEMMA FailKeepsStart ==
  ASSUME Types, OneStart, NEW S, FailCalls(S)
  PROVE  OneStart'
<1>1. \A r \in Requests : req'[r].op = "start" => req'[r] = req[r] /\ req'[r] # Idle
  BY FailedCalls DEF Idle
<1>2. QED
  BY <1>1, FailedCalls, OneStartKept

LEMMA OneStartStays ==
  ASSUME Types, Connected, Waiting, OneStart, [Next]_vars
  PROVE  OneStart'
<1>t. req \in [Requests -> Asked \cup {Idle}]
  BY DEF Types
<1>0. CASE UNCHANGED <<req, dispatch>>
  BY <1>0 DEF OneStart
<1>a. ASSUME NEW r \in Requests, req[r] \in Asked, UNCHANGED dispatch,
             \/ req' = [req EXCEPT ![r].at = "working"] \/ req' = [req EXCEPT ![r].at = "acked"]
             \/ req' = [req EXCEPT ![r].at = "called"]
      PROVE  OneStart'
  <2>1. \A t \in Requests : req'[t].op = req[t].op
    BY <1>t, <1>a DEF Asked
  <2>2. QED
    BY <2>1, <1>a, OneStartKept
<1>1. ASSUME NEW s, NEW e \in Ends, Notice(s, e) \/ WriteFails(s, e) PROVE OneStart'
  BY <1>1, <1>0, FailKeepsStart DEF Notice, WriteFails
<1>3. ASSUME NEW w \in Workers, RegisterTunnel(w) PROVE OneStart'
  BY <1>3, FailKeepsStart DEF RegisterTunnel
<1>4. ASSUME NEW s, Cut(s) \/ DriverEnds(s) PROVE OneStart'
  BY <1>4, <1>0 DEF Cut, DriverEnds, root
<1>5. ASSUME NEW w \in Workers,
             Registered(w) \/ StoreToken(w) \/ RegistrationLost(w) \/ Refresh(w) \/ WorkerDies(w)
      PROVE  OneStart'
  BY <1>5, <1>0 DEF Registered, StoreToken, RegistrationLost, Refresh, WorkerDies, root
<1>7. CASE RootRestarts
  <2>1. req' = [r \in Requests |-> Idle]
    BY <1>7 DEF RootRestarts
  <2>2. QED
    BY <2>1 DEF OneStart, Idle
<1>9. ASSUME NEW r \in Requests, Local(r) \/ LocalEnds(r) PROVE OneStart'
  <2>1. req[r] \in Asked
    BY <1>9 DEF Local, LocalEnds, Types, Idle
  <2>2. QED
    BY <1>9, <2>1, <1>a, EndKeepsStart DEF Local, LocalEnds
<1>10. ASSUME NEW r \in Requests, Call(r) PROVE OneStart'
  <2>1. req[r] \in Asked
    BY <1>10 DEF Call, Types, Idle
  <2>2. QED
    BY <1>10, <2>1, <1>a, EndKeepsStart DEF Call
<1>11. ASSUME NEW r \in Requests, Reroute(r) PROVE OneStart'
  BY <1>11, EndKeepsStart DEF Reroute
<1>12. ASSUME NEW m \in wire, TunnelForward(m) \/ ForwardEnds(m) PROVE OneStart'
  BY <1>12, <1>0 DEF TunnelForward, ForwardEnds, root
<1>13. ASSUME NEW m \in wire, Answered(m) PROVE OneStart'
  <2> DEFINE r == m.call[1]
  <2>1. UNCHANGED <<req, dispatch>> \/ EndRequest(r)
        \/ (m.call \in pending[m.on] /\ req' = [req EXCEPT ![r].at = "acked"] /\ UNCHANGED dispatch)
    BY <1>13 DEF Answered
  <2>2. r \in Requests /\ m.on \in Sessions
    BY DEF Types, Carried
  <2>3. m.call \in pending[m.on] => req[r] \in Asked
    BY <2>2 DEF Waiting, Types, Idle
  <2>4. QED
    BY <2>1, <2>2, <2>3, <1>0, <1>a, EndKeepsStart
<1>14. ASSUME NEW r \in Requests, NEW i \in Ids, Ask(r, i) PROVE OneStart'
  <2>1. PICK op \in Ops :
          /\ IF op = "start" THEN dispatch = None /\ dispatch' = r ELSE UNCHANGED dispatch
          /\ \/ Begins(r, op, i, "local", Root, None)
             \/ \E h \in Workers : Begins(r, op, i, "calling", h, connection[h])
    BY <1>14, Asking
  <2>2. \A t \in Requests : t # None
    OBVIOUS
  <2>3. req'[r].op = op /\ \A t \in Requests : t # r => req'[t] = req[t]
    BY <1>t, <2>1 DEF Begins
  <2>4. QED
    BY <2>1, <2>2, <2>3 DEF OneStart
<1>15. CASE UNCHANGED vars
  BY <1>15, <1>0 DEF vars, root
<1>16. QED
  BY <1>1, <1>3, <1>4, <1>5, <1>7, <1>9, <1>10, <1>11, <1>12, <1>13, <1>14, <1>15
     DEF Next, Carry, Handle, Maintain, Serve

LEMMA OverlapsStay ==
  ASSUME Overlaps, [Next]_vars
  PROVE  Overlaps' /\ doubled \subseteq doubled'
<1> USE DEF Overlaps
<1>0. CASE UNCHANGED <<crossed, doubled>>
  BY <1>0
<1>1. ASSUME NEW s, NEW e \in Ends, Notice(s, e) \/ WriteFails(s, e) PROVE UNCHANGED <<crossed, doubled>>
  BY <1>1 DEF Notice, WriteFails
<1>2. ASSUME NEW s, Cut(s) \/ DriverEnds(s) PROVE UNCHANGED <<crossed, doubled>>
  BY <1>2 DEF Cut, DriverEnds, ghost
<1>3. ASSUME NEW w \in Workers, Maintain(w) \/ WorkerDies(w) PROVE UNCHANGED <<crossed, doubled>>
  BY <1>3 DEF Maintain, RegisterTunnel, Registered, StoreToken, RegistrationLost, Refresh, WorkerDies, ghost
<1>4. CASE RootRestarts
  BY <1>4, <1>0 DEF RootRestarts
<1>5. ASSUME NEW r \in Requests, Serve(r) PROVE UNCHANGED <<crossed, doubled>>
  BY <1>5 DEF Serve, Local, LocalEnds, Call, Reroute, ghost
<1>6. ASSUME NEW m \in wire, Handle(m) PROVE UNCHANGED <<crossed, doubled>>
  BY <1>6 DEF Handle, TunnelForward, ForwardEnds, Answered, ghost
<1>7. ASSUME NEW r \in Requests, NEW i \in Ids, Ask(r, i) PROVE Overlaps' /\ doubled \subseteq doubled'
  <2>1. /\ crossed' = IF Open(i) = {} THEN crossed ELSE crossed \cup {i}
        /\ doubled' = doubled \/ (Open(i) # {} /\ doubled' = doubled \cup {i})
    BY <1>7 DEF Ask, StartInstance, ShutdownInstance, UseInstance, Begins
  <2>2. QED
    BY <2>1
<1>8. CASE UNCHANGED vars
  BY <1>8, <1>0 DEF vars, ghost
<1>9. QED
  BY <1>0, <1>1, <1>2, <1>3, <1>4, <1>5, <1>6, <1>7, <1>8 DEF Next, Carry

-----------------------------------------------------------------------------
(* Where instances are *)

LEMMA Unwaited ==
  ASSUME Types, Waiting, NEW m \in wire, Waited(m)
  PROVE  /\ m.call[1] \in Requests /\ m.on \in Sessions
         /\ req[m.call[1]].at = "called" /\ req[m.call[1]].via = m.on
         /\ \A k \in wire : Waited(k) /\ k.call[1] = m.call[1] => k.on = m.on /\ k.call = m.call
<1>1. m.call[1] \in Requests /\ m.on \in Sessions /\ m.call \in pending[m.on]
  BY DEF Types, Carried, Waited
<1>2. \A k \in wire : Waited(k) => k.on \in Sessions /\ k.call \in pending[k.on]
  BY DEF Types, Carried, Waited
<1>3. QED
  BY <1>1, <1>2 DEF Waiting

\* A request has come no further, for all that the root and the host know, as
\* far as instance i is concerned.
Same(r, i) ==
  /\ req'[r].id = i <=> req[r].id = i
  /\ req[r].id = i =>
       /\ req'[r].op = req[r].op /\ req'[r].target = req[r].target
       /\ req[r].at \in {"called", "acked"} => req'[r].at \in {"called", "acked"}
       /\ req[r].op # "use" => (Undone(r)' => Undone(r)) /\ (Done(r)' => Done(r))

LEMMA PlacedKept ==
  ASSUME NEW i \in Ids, Placed(i), route'[i] = route[i],
         \A h \in Hosts : i \in hosted'[h] => i \in hosted[h],
         \A r \in Requests : Same(r, i)
  PROVE  Placed(i)'
<1>1. \A r \in Requests :
        /\ (Starts(r, i)' <=> Starts(r, i)) /\ (Stops(r, i)' <=> Stops(r, i))
        /\ Starts(r, i) \/ Stops(r, i) =>
             /\ req'[r].target = req[r].target
             /\ req[r].at \in {"called", "acked"} => req'[r].at \in {"called", "acked"}
             /\ (Undone(r)' => Undone(r)) /\ (Done(r)' => Done(r))
  BY DEF Same, Starts, Stops
<1>2. QED
  BY <1>1 DEF Placed

LEMMA ReachedKept ==
  ASSUME Types, NEW i \in Ids, Reached(i), route'[i] = route[i],
         \A h \in Hosts : Home(i, h) => Home(i, h)',
         \A r \in Requests : Same(r, i)
  PROVE  Reached(i)'
<1>1. Open(i)' = Open(i) /\ Open(i) \subseteq Requests
  BY DEF Open, Same
<1>2. \A r \in Open(i) : /\ req'[r].op = req[r].op /\ req'[r].target = req[r].target
                         /\ req[r].op # "use" => (Undone(r)' => Undone(r)) /\ (Done(r)' => Done(r))
  BY DEF Open, Same
<1>3. \A r \in Open(i) : (Starts(r, i)' <=> Starts(r, i)) /\ req[r].id = i
  BY <1>2 DEF Starts, Open, Same
<1>t. (route[i] # None => route[i] \in Hosts) /\ \A r \in Open(i) : req[r].target \in Hosts
  BY DEF Types, Open, Asked, Idle
<1>4. \A r, t \in Open(i)' : r = t
  BY <1>1 DEF Reached
<1>5. ASSUME route'[i] # None, \A r \in Open(i)' : req'[r].op = "stop" => Undone(r)'
      PROVE  Home(i, route[i])'
  BY <1>1, <1>2, <1>5, <1>t DEF Reached
<1>6. ASSUME NEW r \in Open(i)', Starts(r, i)', Done(r)'
      PROVE  Home(i, req[r].target)'
  BY <1>1, <1>2, <1>3, <1>6, <1>t DEF Reached, Starts
<1>7. QED
  BY <1>4, <1>5, <1>6 DEF Reached

\* A request ends that its host has not done, or that is about another instance.
LEMMA PlacedEnds ==
  ASSUME Types, NEW i \in Ids, Placed(i), NEW r \in Requests,
         route'[i] = route[i], \A h \in Hosts : i \in hosted'[h] => i \in hosted[h],
         req'[r] = Idle, \A t \in Requests : t # r => Same(t, i),
         Starts(r, i) => Undone(r)
  PROVE  Placed(i)'
<1>1. ~Starts(r, i)' /\ ~Stops(r, i)'
  BY DEF Starts, Stops, Idle
<1>2. \A t \in Requests : t # r =>
        /\ (Starts(t, i)' <=> Starts(t, i)) /\ (Stops(t, i)' <=> Stops(t, i))
        /\ Starts(t, i) \/ Stops(t, i) =>
             /\ req'[t].target = req[t].target
             /\ req[t].at \in {"called", "acked"} => req'[t].at \in {"called", "acked"}
             /\ (Undone(t)' => Undone(t)) /\ (Done(t)' => Done(t))
  BY DEF Same, Starts, Stops
<1>3. CASE Starts(r, i)
  <2>1. \A h \in Hosts : i \notin hosted'[h]
    BY <1>3 DEF Placed
  <2>2. QED
    BY <1>1, <1>2, <2>1 DEF Placed
<1>4. CASE ~Starts(r, i)
  BY <1>1, <1>2, <1>4 DEF Placed
<1>5. QED
  BY <1>3, <1>4

LEMMA ReachedEnds ==
  ASSUME Types, NEW i \in Ids, Placed(i), Reached(i), NEW r \in Requests,
         route'[i] = route[i], \A h \in Hosts : Home(i, h) => Home(i, h)',
         req'[r] = Idle, \A t \in Requests : t # r => Same(t, i),
         Stops(r, i) => Undone(r)
  PROVE  Reached(i)'
<1>1. CASE req[r].id = i
  <2>1. Open(i)' = {}
    <3>1. ASSUME NEW t \in Requests, req'[t].id = i PROVE FALSE
      <4>1. t # r
        BY <3>1 DEF Idle
      <4>2. req[t].id = i
        BY <3>1, <4>1 DEF Same
      <4>3. t \in Open(i) /\ r \in Open(i)
        BY <1>1, <4>2 DEF Open
      <4>4. QED
        BY <4>1, <4>3 DEF Reached
    <3>2. QED
      BY <3>1 DEF Open
  <2>2. \A t \in Open(i) : t = r
    BY <1>1 DEF Reached, Open
  <2>3. CASE Starts(r, i)
    <3>1. route'[i] = None
      BY <2>3 DEF Placed
    <3>2. QED
      BY <2>1, <3>1 DEF Reached
  <2>4. CASE ~Starts(r, i)
    <3>1. route[i] # None => Home(i, route[i])
      BY <1>1, <2>2, <2>4 DEF Reached, Starts, Stops
    <3>2. route'[i] # None => Home(i, route[i])'
      BY <3>1 DEF Types
    <3>3. QED
      BY <2>1, <3>2 DEF Reached
  <2>5. QED
    BY <2>3, <2>4
<1>2. CASE req[r].id # i
  <2>1. Same(r, i)
    BY <1>2 DEF Same, Idle
  <2>2. QED
    BY <2>1, ReachedKept
<1>3. QED
  BY <1>1, <1>2

\* What requests have come to when neither they nor the messages changed.
LEMMA SameRequest ==
  ASSUME NEW i \in Ids, NEW r \in Requests, req'[r] = req[r],
         \A m \in wire' : Waited(m)' /\ m.call[1] = r => m \in wire /\ Waited(m)
  PROVE  Same(r, i)
<1>1. Undone(r)' => Undone(r)
  BY DEF Undone
<1>2. Done(r)' => Done(r)
  BY DEF Done
<1>3. QED
  BY <1>1, <1>2 DEF Same

\* A worker that is dead remains it.
LEMMA DeadStays ==
  ASSUME Types, [Next]_vars
  PROVE  \A h : Dead(h) => Dead(h)'
<1> USE DEF Types, Dead
<1>0. CASE stage' = stage
  BY <1>0
<1>1. ASSUME NEW s, NEW e \in Ends, Notice(s, e) \/ WriteFails(s, e) PROVE \A h : Dead(h) => Dead(h)'
  BY <1>1, <1>0 DEF Notice, WriteFails, FailRefresh, worker
<1>3. ASSUME NEW w \in Workers, RegisterTunnel(w) PROVE \A h : Dead(h) => Dead(h)'
  BY <1>3 DEF RegisterTunnel
<1>4. ASSUME NEW s, Cut(s) \/ DriverEnds(s) PROVE \A h : Dead(h) => Dead(h)'
  BY <1>4, <1>0 DEF Cut, DriverEnds, worker
<1>5. ASSUME NEW w \in Workers,
             Registered(w) \/ StoreToken(w) \/ RegistrationLost(w) \/ Refresh(w) \/ WorkerDies(w)
      PROVE  \A h : Dead(h) => Dead(h)'
  BY <1>5 DEF Registered, StoreToken, RegistrationLost, Refresh, WorkerDies
<1>7. CASE RootRestarts
  BY <1>7, <1>0 DEF RootRestarts, worker
<1>9. ASSUME NEW r \in Requests, Serve(r) PROVE \A h : Dead(h) => Dead(h)'
  BY <1>9, <1>0 DEF Serve, Local, LocalEnds, Call, Reroute, worker
<1>12. ASSUME NEW m \in wire, Handle(m) PROVE \A h : Dead(h) => Dead(h)'
  BY <1>12, <1>0 DEF Handle, TunnelForward, ForwardEnds, Answered, worker
<1>14. ASSUME NEW r \in Requests, NEW i \in Ids, Ask(r, i) PROVE \A h : Dead(h) => Dead(h)'
  BY <1>14, <1>0 DEF Ask, StartInstance, ShutdownInstance, UseInstance, Begins, worker
<1>15. CASE UNCHANGED vars
  BY <1>15, <1>0 DEF vars, worker
<1>16. QED
  BY <1>1, <1>3, <1>4, <1>5, <1>7, <1>9, <1>12, <1>14, <1>15 DEF Next, Carry, Maintain

Good(i) == Placed(i) /\ (i \notin crossed => Reached(i))

LEMMA GoodKept ==
  ASSUME Types, NEW i \in Ids, Good(i), UNCHANGED <<route, crossed>>,
         \A h \in Hosts : i \in hosted'[h] => i \in hosted[h],
         \A h \in Hosts : Home(i, h) => Home(i, h)',
         \A r \in Requests : Same(r, i)
  PROVE  Good(i)'
BY PlacedKept, ReachedKept DEF Good

LEMMA GoodEnds ==
  ASSUME Types, NEW i \in Ids, Good(i), NEW r \in Requests, UNCHANGED <<route, hosted, crossed>>,
         \A h : Dead(h) => Dead(h)',
         req'[r] = Idle, \A t \in Requests : t # r => Same(t, i),
         req[r].op # "use" => Undone(r)
  PROVE  Good(i)'
<1>1. \A h : Home(i, h) => Home(i, h)'
  BY DEF Home
<1>2. (Starts(r, i) => Undone(r)) /\ (Stops(r, i) => Undone(r))
  BY DEF Starts, Stops
<1>3. QED
  BY <1>1, <1>2, PlacedEnds, ReachedEnds DEF Good

LEMMA GoodFails ==
  ASSUME Types, Waiting, NEW i \in Ids, Good(i), i \notin doubt', UNCHANGED <<route, hosted, crossed, wire>>,
         \A h : Dead(h) => Dead(h)', NEW S \in SUBSET Sessions, FailCalls(S)
  PROVE  Good(i)'
<1>1. \A m \in wire : Waited(m)' => Waited(m)
  BY FailedWaiting DEF Waited, Types, Carried
<1>2. ASSUME NEW r \in Requests PROVE Same(r, i)
  <2>1. CASE req'[r] = req[r]
    BY <2>1, <1>1, SameRequest
  <2>2. CASE req'[r] # req[r]
    BY <2>2, FailedCalls DEF Same, Idle
  <2>3. QED
    BY <2>1, <2>2
<1>3. QED
  BY <1>2, GoodKept DEF Home

\* The host of a request has done what it asks for: of what is known of others
\* nothing changes.
LEMMA GoodStart ==
  ASSUME Types, NEW i \in Ids, Good(i), UNCHANGED <<route, crossed>>, NEW r \in Requests, NEW g \in Hosts,
         OneStart, Starts(r, i), Undone(r), req[r].target = g,
         Starts(r, i)', req'[r].target = g, req'[r].at \in {"called", "acked"},
         hosted' = [hosted EXCEPT ![g] = @ \cup {i}],
         \A t \in Requests : t # r => Same(t, i),
         \A h : Dead(h) => Dead(h)', ~Undone(r)'
  PROVE  Good(i)'
<1>1. \A h \in Hosts : i \in hosted'[h] => h = g
  BY DEF Types, Good, Placed
<1>2. \A t \in Requests : Starts(t, i) => t = r
  BY DEF OneStart, Starts
<1>3. \A t \in Requests : t # r => ~Starts(t, i)'
  BY <1>2 DEF Same, Starts
<1>4. \A t \in Requests : ~Stops(t, i)'
  <2>1. \A t \in Requests : t # r => (Stops(t, i)' => Stops(t, i))
    BY DEF Same, Stops
  <2>2. ~Stops(r, i)'
    BY DEF Starts, Stops
  <2>3. \A t \in Requests : Stops(t, i) => req[t].target # None
    BY DEF Stops, Types, Asked, Idle
  <2>4. QED
    BY <2>1, <2>2, <2>3 DEF Good, Placed
<1>5. route[i] = None
  BY DEF Good, Placed
<1>6. Placed(i)'
  BY <1>1, <1>3, <1>4, <1>5 DEF Placed
<1>7. CASE i \notin crossed
  <2>1. \A t, u \in Open(i) : t = u
    BY <1>7 DEF Good, Reached
  <2>2. \A t \in Open(i)' : t = r
    BY <2>1 DEF Open, Same, Starts
  <2>3. Home(i, g)'
    BY DEF Home, Types
  <2>4. req'[r].target = g
    OBVIOUS
  <2>5. QED
    BY <2>2, <2>3, <2>4, <1>5, <1>6 DEF Good, Reached
<1>8. QED
  BY <1>6, <1>7 DEF Good

LEMMA GoodStop ==
  ASSUME Types, NEW i \in Ids, Good(i), UNCHANGED <<route, crossed>>, NEW r \in Requests, NEW g \in Hosts,
         Stops(r, i), req[r].target = g,
         Stops(r, i)', req'[r].target = g,
         hosted' = [hosted EXCEPT ![g] = @ \ {i}],
         \A t \in Requests : t # r => Same(t, i), ~Undone(r)'
  PROVE  Good(i)'
<1>1. route[i] = g /\ g # None
  BY DEF Good, Placed
<1>2. \A t \in Requests : ~Starts(t, i)
  BY <1>1 DEF Good, Placed
<1>3. \A h \in Hosts : i \notin hosted'[h]
  <2>1. \A h \in Hosts : i \in hosted[h] => h = g
    BY <1>1, <1>2 DEF Good, Placed
  <2>2. QED
    BY <2>1 DEF Types
<1>4. \A t \in Requests : ~Starts(t, i)' /\ (Stops(t, i)' => t = r)
  <2>1. \A t \in Requests : t # r => (Starts(t, i)' => Starts(t, i)) /\ (Stops(t, i)' => Stops(t, i))
    BY DEF Same, Starts, Stops
  <2>2. ~Starts(r, i)' /\ \A t \in Requests : Stops(t, i) => t = r
    BY DEF Starts, Stops, Good, Placed
  <2>3. QED
    BY <1>2, <2>1, <2>2
<1>10. Placed(i)'
  BY <1>1, <1>3, <1>4 DEF Placed
<1>11. CASE i \notin crossed
  <2>1. \A t, u \in Open(i) : t = u
    BY <1>11 DEF Good, Reached
  <2>2. Open(i)' = {r}
    BY <2>1 DEF Open, Same, Stops
  <2>3. req'[r].op = "stop"
    BY DEF Stops
  <2>4. QED
    BY <2>2, <2>3, <1>4, <1>10 DEF Good, Reached
<1>12. QED
  BY <1>10, <1>11 DEF Good

LEMMA GoodChanges ==
  ASSUME Types, OneStart, NEW i \in Ids, Good(i), UNCHANGED <<route, crossed>>, NEW r \in Requests,
         NEW g \in Hosts, Undone(r), req[r].target = g, req[r].op \in {"start", "stop"},
         req[r].id \in Ids,
         req'[r].op = req[r].op, req'[r].id = req[r].id, req'[r].target = g,
         req'[r].at \in {"called", "acked"},
         hosted' = Changed(g, req[r].op, req[r].id),
         \A t \in Requests : t # r => Same(t, i),
         \A h : Dead(h) => Dead(h)', ~Undone(r)'
  PROVE  Good(i)'
<1>1. CASE req[r].id # i
  <2>1. Same(r, i)
    BY <1>1 DEF Same
  <2>2. \A h \in Hosts : i \in hosted'[h] <=> i \in hosted[h]
    BY <1>1 DEF Changed, Types
  <2>3. \A h \in Hosts : Home(i, h) => Home(i, h)'
    BY <2>2 DEF Home
  <2>4. QED
    BY <2>1, <2>2, <2>3, GoodKept
<1>2. CASE req[r].id = i /\ req[r].op = "start"
  BY <1>2, GoodStart DEF Changed, Starts
<1>3. CASE req[r].id = i /\ req[r].op = "stop"
  BY <1>3, GoodStop DEF Changed, Stops
<1>4. QED
  BY <1>1, <1>2, <1>3

\* A request that begins: its host has done nothing for it yet.
LEMMA GoodBegins ==
  ASSUME Types, Connected, Waiting, OneStart, NEW i \in Ids, NEW r \in Requests, NEW j \in Ids, Ask(r, j),
         Good(i), i \notin doubled'
  PROVE  Good(i)'
<1>1. PICK op, at, h, s :
        /\ op \in Ops /\ at \in {"local", "calling"} /\ h \in Hosts
        /\ IF op = "start" THEN dispatch = None /\ route[j] = None ELSE route[j] = h
        /\ Begins(r, op, j, at, h, s)
  BY Asking
<1>2. /\ req[r] = Idle
      /\ req' = [req EXCEPT ![r] = [op |-> op, id |-> j, at |-> at, target |-> h, via |-> s]]
      /\ crossed' = IF Open(j) = {} THEN crossed ELSE crossed \cup {j}
      /\ j \notin doubled' => ~(op = "stop" /\ \E t \in Open(j) : req[t].op = "stop")
      /\ UNCHANGED <<route, hosted, wire, pending, stage>>
  BY <1>1 DEF Begins, worker, tunnel
<1>3. /\ req'[r].op = op /\ req'[r].id = j /\ req'[r].at = at /\ req'[r].target = h
      /\ at \in {"local", "calling"}
      /\ \A t \in Requests : t # r => req'[t] = req[t]
  BY <1>1, <1>2 DEF Types
<1>4. \A m \in wire : Waited(m) => m.call[1] # r
  BY <1>2, Unwaited DEF Idle
<1>5. \A t \in Requests : t # r => Same(t, i)
  BY <1>2, <1>3, SameRequest DEF Waited
<1>6. ~Done(r)' /\ ~Done(r) /\ ~Undone(r)
  BY <1>2, <1>3, <1>4 DEF Done, Undone, Waited, Idle
<1>7. ~Starts(r, i) /\ ~Stops(r, i) /\ (r \notin Open(i))
  BY <1>2 DEF Starts, Stops, Open, Idle
<1>8. CASE j # i
  <2>1. Same(r, i)
    BY <1>2, <1>3, <1>8 DEF Same, Idle
  <2>2. crossed' = crossed \/ crossed' = crossed \cup {j}
    BY <1>2
  <2>3. Placed(i)'
    BY <1>2, <1>5, <2>1, PlacedKept DEF Good
  <2>4. i \notin crossed' => i \notin crossed
    BY <2>2
  <2>5. \A g : Home(i, g) => Home(i, g)'
    BY <1>2 DEF Home, Dead
  <2>6. i \notin crossed' => Reached(i)'
    BY <1>2, <1>5, <2>1, <2>4, <2>5, ReachedKept DEF Good
  <2>7. QED
    BY <2>3, <2>6 DEF Good
<1>9. CASE j = i
  <2>1. \A t \in Requests : t # r =>
          /\ (Starts(t, i)' <=> Starts(t, i)) /\ (Stops(t, i)' <=> Stops(t, i))
          /\ req'[t].target = req[t].target /\ req'[t].at = req[t].at
          /\ Starts(t, i) \/ Stops(t, i) => (Undone(t)' => Undone(t)) /\ (Done(t)' => Done(t))
    BY <1>3, <1>5 DEF Same, Starts, Stops
  <2>2. CASE op = "start"
    <3>1. \A t \in Requests : ~Starts(t, i)
      BY <1>1, <2>2 DEF OneStart, Starts
    <3>2. route[i] = None
      BY <1>1, <1>9, <2>2
    <3>3. \A g \in Hosts : i \notin hosted[g]
      BY <3>1, <3>2 DEF Good, Placed
    <3>4. \A t \in Requests : ~Stops(t, i)
      <4>1. \A t \in Requests : Stops(t, i) => req[t].target # None
        BY DEF Stops, Types, Asked, Idle
      <4>2. QED
        BY <3>2, <4>1 DEF Good, Placed
    <3>5. \A t \in Requests : ~Stops(t, i)'
      BY <1>3, <2>1, <2>2, <3>4 DEF Stops
    <3>6. QED
      <4>1. Placed(i)'
        BY <1>2, <3>2, <3>3, <3>5 DEF Placed
      <4>2. CASE i \notin crossed'
        <5>1. Open(i) = {}
          BY <1>2, <1>9, <4>2
        <5>2. \A t \in Open(i)' : t = r
          BY <5>1, <1>3 DEF Open
        <5>3. QED
          BY <1>2, <1>6, <3>2, <4>1, <5>2 DEF Good, Reached
      <4>3. QED
        BY <4>1, <4>2 DEF Good
  <2>3. CASE op # "start"
    <3>1. ~Starts(r, i)'
      BY <1>3, <2>3 DEF Starts
    <3>5. route[i] = req'[r].target
      BY <1>1, <1>3, <1>9, <2>3
    <3>6. Stops(r, i)' => \A t \in Requests : ~Stops(t, i)
      BY <1>2, <1>3, <1>9 DEF Stops, Open
    <3>2. Placed(i)'
      BY <1>2, <1>6, <1>7, <2>1, <3>1, <3>5, <3>6 DEF Good, Placed
    <3>3. CASE i \notin crossed'
      <4>1. Open(i) = {} /\ i \notin crossed
        BY <1>2, <1>9, <3>3
      <4>2. \A t \in Open(i)' : t = r
        BY <4>1, <1>3 DEF Open
      <4>3. route[i] # None => Home(i, route[i])
        BY <4>1 DEF Good, Reached
      <4>4. route'[i] # None => Home(i, route[i])'
        BY <4>3, <1>2 DEF Home, Dead
      <4>5. QED
        BY <1>6, <3>2, <4>2, <4>4 DEF Good, Reached
    <3>4. QED
      BY <3>2, <3>3 DEF Good
  <2>4. QED
    BY <2>2, <2>3
<1>10. QED
  BY <1>8, <1>9

\* A host looks the instance up, and nothing changes but that it will act.
LEMMA GoodLocal ==
  ASSUME Types, Connected, Waiting, NEW i \in Ids, NEW r \in Requests, Local(r), Good(i),
         \A h : Dead(h) => Dead(h)'
  PROVE  Good(i)'
<1>1. req[r] \in Asked /\ req[r].at = "local" /\ UNCHANGED <<route, crossed, hosted, wire, pending>>
  BY DEF Local, Types, Idle, tunnel, ghost
<1>2. \A m \in wire : (Waited(m)' <=> Waited(m)) /\ (Waited(m) => m.call[1] # r)
  BY <1>1, Unwaited DEF Waited
<1>3. \A t \in Requests : req'[t] = req[t] => Same(t, i)
  BY <1>1, <1>2, SameRequest
<1>u. Undone(r)
  BY <1>1 DEF Undone
<1>4. CASE EndRequest(r)
  <2>1. req'[r] = Idle /\ \A t \in Requests : t # r => req'[t] = req[t]
    BY <1>4 DEF EndRequest, Types
  <2>2. QED
    BY <1>1, <1>3, <1>u, <2>1, GoodEnds
<1>5. CASE req' = [req EXCEPT ![r].at = "working"]
  <2>1. /\ req'[r].op = req[r].op /\ req'[r].id = req[r].id /\ req'[r].target = req[r].target
        /\ req'[r].at = "working"
        /\ \A t \in Requests : t # r => req'[t] = req[t]
    BY <1>1, <1>5 DEF Asked, Types
  <2>2. ~Done(r)'
    BY <1>1, <1>2, <2>1 DEF Done
  <2>3. Same(r, i)
    BY <1>1, <1>u, <2>1, <2>2 DEF Same
  <2>4. QED
    BY <1>1, <1>3, <2>1, <2>3, GoodKept DEF Home
<1>6. QED
  BY <1>4, <1>5 DEF Local

LEMMA GoodLocalEnds ==
  ASSUME Types, Connected, Waiting, OneStart, NEW i \in Ids, NEW r \in Requests, LocalEnds(r), Good(i),
         \A h : Dead(h) => Dead(h)'
  PROVE  Good(i)'
<1>1. /\ req[r] \in Asked /\ req[r].at = "working" /\ req[r].target = Root /\ req[r].op # "use"
      /\ UNCHANGED <<route, crossed, wire, pending>>
  BY DEF LocalEnds, Types, Idle, Connected, tunnel, ghost
<1>2. \A m \in wire : (Waited(m)' <=> Waited(m)) /\ (Waited(m) => m.call[1] # r)
  BY <1>1, Unwaited DEF Waited
<1>3. \A t \in Requests : req'[t] = req[t] => Same(t, i)
  BY <1>1, <1>2, SameRequest
<1>u. Undone(r)
  BY <1>1 DEF Undone
<1>4. CASE EndRequest(r) /\ UNCHANGED hosted
  <2>1. req'[r] = Idle /\ \A t \in Requests : t # r => req'[t] = req[t]
    BY <1>4 DEF EndRequest, Types
  <2>2. QED
    BY <1>1, <1>3, <1>4, <1>u, <2>1, GoodEnds
<1>5. CASE req' = [req EXCEPT ![r].at = "acked"] /\ hosted' = Changed(Root, req[r].op, req[r].id)
  <2>1. /\ req'[r].op = req[r].op /\ req'[r].id = req[r].id /\ req'[r].target = Root
        /\ req'[r].at = "acked"
        /\ \A t \in Requests : t # r => req'[t] = req[t]
    BY <1>1, <1>5 DEF Asked, Types
  <2>2. ~Undone(r)'
    BY <1>1, <1>2, <2>1 DEF Undone
  <2>3. \A t \in Requests : t # r => Same(t, i)
    BY <1>3, <2>1
  <2>4. req[r].op \in {"start", "stop"} /\ req[r].id \in Ids
    BY <1>1 DEF Asked
  <2>5. QED
    BY <1>1, <1>5, <1>u, <2>1, <2>2, <2>3, <2>4, GoodChanges
<1>6. QED
  BY <1>4, <1>5 DEF LocalEnds

LEMMA GoodCall ==
  ASSUME Types, Connected, Waiting, Messages, NEW i \in Ids, NEW r \in Requests, Call(r), Good(i),
         \A h : Dead(h) => Dead(h)'
  PROVE  Good(i)'
<1> DEFINE s == req[r].via
           n == calls[s] + 1
<1>1. req[r] \in Asked /\ req[r].at = "calling" /\ s \in Sessions
      /\ UNCHANGED <<route, crossed, hosted>>
  BY DEF Call, Types, Idle, Connected, ghost
<1>2. \A m \in wire : Waited(m) => m.call[1] # r
  BY <1>1, Unwaited
<1>u. Undone(r)
  BY <1>1 DEF Undone
<1>h. \A h : Home(i, h) => Home(i, h)'
  BY <1>1 DEF Home
<1>5. CASE EndRequest(r) /\ UNCHANGED <<pending, wire>>
  <2>1. req'[r] = Idle /\ \A t \in Requests : t # r => req'[t] = req[t]
    BY <1>5 DEF EndRequest, Types
  <2>2. \A t \in Requests : t # r => Same(t, i)
    BY <1>5, <2>1, SameRequest DEF Waited
  <2>3. QED
    BY <1>1, <1>5, <1>u, <2>1, <2>2, GoodEnds
<1>6. CASE /\ req' = [req EXCEPT ![r].at = "called"]
           /\ pending' = [pending EXCEPT ![s] = @ \cup {<<r, n>>}]
           /\ \A m \in wire' : m \in wire \/ (m.kind = "request" /\ m.call[1] = r)
  <2>1. /\ req'[r].op = req[r].op /\ req'[r].id = req[r].id /\ req'[r].target = req[r].target
        /\ req'[r].at = "called"
        /\ \A t \in Requests : t # r => req'[t] = req[t]
    BY <1>1, <1>6 DEF Asked, Types
  <2>2. n \in Nat /\ calls[s] < n
    BY <1>1 DEF Types
  <2>3. ASSUME NEW m \in wire, Waited(m)' PROVE Waited(m)
    <3>1. m.on \in Sessions /\ m.call[2] <= calls[m.on] /\ m.call[2] \in Nat /\ calls[m.on] \in Nat
      BY DEF Messages, Types, Carried
    <3>2. ~(m.on = s /\ m.call = <<r, n>>)
      BY <3>1, <2>2
    <3>3. QED
      BY <1>1, <1>6, <2>3, <3>1, <3>2 DEF Waited, Types
  <2>4. \A t \in Requests : t # r => Same(t, i)
    BY <1>6, <2>1, <2>3, SameRequest
  <2>5. ~Done(r)'
    BY <1>2, <1>6, <2>1, <2>3 DEF Done
  <2>6. Same(r, i)
    BY <2>1, <2>5, <1>u DEF Same
  <2>7. QED
    BY <1>1, <1>h, <2>4, <2>6, GoodKept
<1>7. QED
  BY <1>5, <1>6 DEF Call

\* What the wire tells of requests once a worker has answered the message m, or has
\* put k in its place.
LEMMA Forwarded ==
  ASSUME Types, Connected, Waiting, Messages, NEW i \in Ids \ doubt, NEW m \in wire,
         m.kind # "answer", UNCHANGED <<req, pending>>,
         NEW k, k.on = m.on, k.call = m.call, wire' \subseteq (wire \ {m}) \cup {k}
  PROVE  /\ m.on \in 1 .. made /\ link[m.on].owner \in Workers /\ m.call[1] \in Requests
         /\ m.id \in Ids /\ m.op \in Ops
         /\ m.id = i => Waited(m)
         /\ Waited(m) => /\ req[m.call[1]].at = "called" /\ req[m.call[1]].op = m.op
                         /\ req[m.call[1]].id = m.id /\ req[m.call[1]].target = link[m.on].owner
                         /\ Undone(m.call[1])
         /\ \A t \in Requests : t # m.call[1] => Same(t, i)
         /\ k.kind = "answer" /\ k.ok /\ Waited(m) => ~Undone(m.call[1])'
         /\ m.op = "use" \/ m.id # i \/ k.kind # "answer" \/ ~k.ok => Same(m.call[1], i)
<1> DEFINE r == m.call[1]
           w == link[m.on].owner
<1>1. m.on \in 1 .. made /\ w \in Workers /\ r \in Requests /\ m.id \in Ids /\ m.op \in Ops
  BY DEF Messages, Types, Carried, Tunnels
<1>2. Waited(m) => /\ req[r].at = "called" /\ req[r].op = m.op /\ req[r].id = m.id
                   /\ req[r].target = w /\ Undone(r)
  <2>1. Waited(m) => req[r].at = "called" /\ req[r].via = m.on /\ req[r].op = m.op /\ req[r].id = m.id
    BY <1>1, Unwaited DEF Messages
  <2>2. Waited(m) => Undone(r)
    BY <1>1 DEF Undone
  <2>3. QED
    BY <1>1, <2>1, <2>2 DEF Connected
<1>3. m.id = i => Waited(m)
  BY <1>1 DEF Messages
<1>4. \A j \in wire : Waited(j) /\ j # m /\ Waited(m) => j.call[1] # r
  BY Unwaited DEF Messages
<1>5. \A j : Waited(j)' <=> Waited(j)
  BY DEF Waited
<1>6. \A j \in wire' : (j \in wire /\ j # m) \/ j = k
  OBVIOUS
<1>7. k.call[1] = r /\ (Waited(k) <=> Waited(m))
  BY DEF Waited
<1>8. \A t \in Requests : t # r => Same(t, i)
  BY <1>1, <1>5, <1>6, <1>7, SameRequest
<1>9. ~Waited(m) => Same(r, i)
  BY <1>1, <1>5, <1>6, <1>7, SameRequest
<1>10. k.kind = "answer" /\ k.ok /\ Waited(m) => ~Undone(r)'
  BY <1>1, <1>2, <1>4, <1>5, <1>6, <1>7 DEF Undone
<1>11. (k.kind # "answer" \/ ~k.ok) /\ Waited(m) => ~Done(r)'
  BY <1>1, <1>2, <1>4, <1>5, <1>6, <1>7 DEF Done
<1>12. Waited(m) /\ (m.op = "use" \/ m.id # i \/ k.kind # "answer" \/ ~k.ok) => Same(r, i)
  BY <1>1, <1>2, <1>11 DEF Same
<1>13. QED
  BY <1>1, <1>2, <1>3, <1>8, <1>9, <1>10, <1>12

LEMMA GoodForward ==
  ASSUME Types, Connected, Waiting, Messages, NEW i \in Ids \ doubt, NEW m \in wire,
         TunnelForward(m), Good(i), \A h : Dead(h) => Dead(h)'
  PROVE  Good(i)'
<1> DEFINE a(ok) == [kind |-> "answer", on |-> m.on, call |-> m.call, ok |-> ok]
           j == [m EXCEPT !.kind = "work"]
<1>1. /\ m.kind = "request" /\ UNCHANGED <<route, crossed, req, pending, hosted>>
      /\ \/ wire' \subseteq (wire \ {m}) \cup {a(FALSE)}
         \/ wire' \subseteq (wire \ {m}) \cup {j}
         \/ m.op = "use" /\ wire' \subseteq (wire \ {m}) \cup {a(TRUE)}
  BY DEF TunnelForward, AnswerForward, root, ghost
<1>2. \A ok : a(ok).kind = "answer" /\ a(ok).on = m.on /\ a(ok).call = m.call /\ a(ok).ok = ok
  OBVIOUS
<1>3. j.kind = "work" /\ j.on = m.on /\ j.call = m.call
  BY <1>1 DEF Types, Carried
<1> HIDE DEF a, j
<1>4. PICK k : /\ k.on = m.on /\ k.call = m.call /\ wire' \subseteq (wire \ {m}) \cup {k}
               /\ m.op = "use" \/ k.kind # "answer" \/ ~k.ok
  BY <1>1, <1>2, <1>3
<1>5. \A t \in Requests : Same(t, i)
  BY <1>1, <1>4, Forwarded
<1>6. QED
  BY <1>1, <1>5, GoodKept DEF Home

LEMMA GoodForwardEnds ==
  ASSUME Types, Connected, Waiting, Messages, OneStart, NEW i \in Ids \ doubt, NEW m \in wire,
         ForwardEnds(m), Good(i), \A h : Dead(h) => Dead(h)'
  PROVE  Good(i)'
<1> DEFINE r == m.call[1]
           w == link[m.on].owner
           a(ok) == [kind |-> "answer", on |-> m.on, call |-> m.call, ok |-> ok]
<1>1. /\ m.kind = "work" /\ m.kind # "answer" /\ UNCHANGED <<route, crossed, req, pending>>
      /\ \/ hosted' = Changed(w, m.op, m.id) /\ wire' \subseteq (wire \ {m}) \cup {a(TRUE)}
         \/ UNCHANGED hosted /\ wire' \subseteq (wire \ {m}) \cup {a(FALSE)}
  BY DEF ForwardEnds, AnswerForward, root, ghost
<1>2. \A ok \in BOOLEAN : a(ok).kind = "answer" /\ a(ok).on = m.on /\ a(ok).call = m.call /\ (a(ok).ok <=> ok)
  OBVIOUS
<1> HIDE DEF a
<1>3. CASE UNCHANGED hosted /\ wire' \subseteq (wire \ {m}) \cup {a(FALSE)}
  <2>1. PICK k : k.on = m.on /\ k.call = m.call /\ wire' \subseteq (wire \ {m}) \cup {k} /\ ~k.ok
    BY <1>2, <1>3
  <2>3. \A t \in Requests : Same(t, i)
    BY <1>1, <2>1, Forwarded
  <2>2. QED
    BY <1>1, <1>3, <2>3, GoodKept DEF Home
<1>4. CASE hosted' = Changed(w, m.op, m.id) /\ wire' \subseteq (wire \ {m}) \cup {a(TRUE)}
  <2>1. /\ w \in Workers /\ r \in Requests /\ m.id \in Ids /\ m.op \in {"start", "stop"}
        /\ m.id = i => Waited(m)
        /\ Waited(m) => /\ req[r].at = "called" /\ req[r].op = m.op /\ req[r].id = m.id
                        /\ req[r].target = w /\ Undone(r) /\ ~Undone(r)'
        /\ \A t \in Requests : t # r => Same(t, i)
        /\ m.id # i => Same(r, i)
    <3>1. m.op # "use"
      BY <1>1 DEF Messages
    <3>2. PICK k : k.on = m.on /\ k.call = m.call /\ wire' \subseteq (wire \ {m}) \cup {k} /\ k.ok /\ k.kind = "answer"
      BY <1>2, <1>4
    <3>3. QED
      BY <1>1, <3>1, <3>2, Forwarded
  <2>2. CASE m.id = i
    BY <1>1, <1>4, <2>1, <2>2, GoodChanges
  <2>3. CASE m.id # i
    <3>1. \A h \in Hosts : i \in hosted'[h] <=> i \in hosted[h]
      BY <1>4, <2>3 DEF Changed, Types
    <3>2. \A h \in Hosts : Home(i, h) => Home(i, h)'
      BY <3>1 DEF Home
    <3>3. \A t \in Requests : Same(t, i)
      BY <2>1, <2>3
    <3>4. QED
      BY <1>1, <3>1, <3>2, <3>3, GoodKept
  <2>4. QED
    BY <2>2, <2>3
<1>5. QED
  BY <1>1, <1>3, <1>4

LEMMA GoodAnswered ==
  ASSUME Types, Connected, Waiting, Messages, OneStart, NEW i \in Ids, NEW m \in wire,
         Answered(m), Good(i), \A h : Dead(h) => Dead(h)'
  PROVE  Good(i)'
<1> DEFINE r == m.call[1]
<1>1. /\ m.kind = "answer" /\ r \in Requests /\ m.on \in Sessions /\ wire' = wire \ {m}
      /\ pending' = [pending EXCEPT ![m.on] = @ \ {m.call}]
      /\ UNCHANGED <<route, crossed, hosted>>
  BY DEF Answered, Types, Carried, ghost
<1>2. \A k \in wire : Waited(k)' => Waited(k) /\ ~(k.on = m.on /\ k.call = m.call)
  BY <1>1 DEF Waited, Types, Carried
<1>3. \A t \in Requests : req'[t] = req[t] => Same(t, i)
  BY <1>1, <1>2, SameRequest
<1>h. \A h : Home(i, h) => Home(i, h)'
  BY <1>1 DEF Home
<1>4. CASE UNCHANGED req
  BY <1>1, <1>3, <1>4, <1>h, GoodKept
<1>5. CASE Waited(m) /\ (req[r].op # "use" => ~m.ok) /\ EndRequest(r)
  <2>1. req'[r] = Idle /\ \A t \in Requests : t # r => req'[t] = req[t]
    BY <1>1, <1>5 DEF EndRequest, Types
  <2>2. req[r].op # "use" => Undone(r)
    BY <1>5 DEF Undone
  <2>3. QED
    BY <1>1, <1>3, <2>1, <2>2, GoodEnds
<1>6. CASE Waited(m) /\ m.ok /\ req' = [req EXCEPT ![r].at = "acked"]
  <2>1. req[r].at = "called" /\ req[r] \in Asked
    BY <1>1, <1>6, Unwaited DEF Types, Idle
  <2>2. /\ req'[r].op = req[r].op /\ req'[r].id = req[r].id /\ req'[r].target = req[r].target
        /\ req'[r].at = "acked" /\ \A t \in Requests : t # r => req'[t] = req[t]
    BY <1>1, <1>6, <2>1 DEF Types, Asked
  <2>3. \A k \in wire' : Waited(k)' => k.call[1] # r
    BY <1>1, <1>2, <1>6, Unwaited
  <2>4. ~Undone(r)'
    BY <2>2, <2>3 DEF Undone
  <2>5. Done(r)
    BY <1>1, <1>6 DEF Done
  <2>6. Same(r, i)
    BY <2>2, <2>4, <2>5 DEF Same
  <2>7. QED
    BY <1>1, <1>3, <1>h, <2>2, <2>6, GoodKept
<1>7. QED
  BY <1>4, <1>5, <1>6 DEF Answered, Waited

LEMMA GoodReroute ==
  ASSUME Types, Connected, Waiting, OneStart, NEW i \in Ids, NEW r \in Requests,
         Reroute(r), Good(i), \A h : Dead(h) => Dead(h)'
  PROVE  Good(i)'
<1>1. /\ req[r] \in Asked /\ req[r].at = "acked" /\ req[r].op \in {"start", "stop"} /\ req[r].target \in Hosts
      /\ Done(r)
      /\ UNCHANGED <<hosted, crossed, pending, wire>>
      /\ req'[r] = Idle /\ \A t \in Requests : t # r => req'[t] = req[t]
      /\ route' = [route EXCEPT ![req[r].id] = IF req[r].op = "start" THEN req[r].target ELSE None]
  BY DEF Reroute, EndRequest, Types, Asked, Idle, Connected, Done, tunnel, ghost
<1>2. \A t \in Requests : t # r => Same(t, i)
  BY <1>1, SameRequest DEF Waited
<1>h. \A h \in Hosts : Home(i, h) => Home(i, h)'
  BY <1>1 DEF Home
<1>3. ~Starts(r, i)' /\ ~Stops(r, i)'
  BY <1>1 DEF Starts, Stops, Idle
<1>4. \A t \in Requests : t # r =>
        /\ (Starts(t, i)' <=> Starts(t, i)) /\ (Stops(t, i)' <=> Stops(t, i))
        /\ req'[t] = req[t]
        /\ Starts(t, i) \/ Stops(t, i) => (Undone(t)' => Undone(t)) /\ (Done(t)' => Done(t))
  BY <1>1, <1>2 DEF Same, Starts, Stops
<1>5. CASE req[r].id # i
  <2>1. Same(r, i)
    BY <1>1, <1>5 DEF Same, Idle
  <2>2. route'[i] = route[i]
    BY <1>1, <1>5 DEF Types
  <2>3. Placed(i)'
    BY <1>1, <1>2, <2>1, <2>2, PlacedKept DEF Good
  <2>4. i \notin crossed => Reached(i)'
    BY <1>1, <1>2, <1>h, <2>1, <2>2, ReachedKept DEF Good
  <2>5. QED
    BY <1>1, <2>3, <2>4 DEF Good
<1>6. CASE Starts(r, i)
  <2>1. route[i] = None /\ route'[i] = req[r].target /\ route'[i] # None
    BY <1>1, <1>6 DEF Good, Placed, Starts, Types
  <2>2. \A t \in Requests : ~Starts(t, i)'
    BY <1>3, <1>4, <1>6 DEF OneStart, Starts
  <2>3. \A h \in Hosts : i \in hosted'[h] => route'[i] = h
    BY <1>1, <1>6, <2>1 DEF Good, Placed, OneStart, Starts
  <2>4. \A t \in Requests : ~Stops(t, i)'
    <3>1. \A t \in Requests : Stops(t, i) => req[t].target # None
      BY DEF Stops, Types, Asked, Idle
    <3>2. QED
      BY <1>3, <1>4, <2>1, <3>1 DEF Good, Placed
  <2>5. Placed(i)'
    BY <1>1, <2>1, <2>2, <2>3, <2>4 DEF Placed
  <2>6. CASE i \notin crossed
    <3>1. r \in Open(i) /\ \A t \in Open(i) : t = r
      BY <1>6, <2>6 DEF Good, Reached, Open, Starts
    <3>2. Open(i)' = {}
      BY <1>1, <3>1 DEF Open, Idle
    <3>3. Home(i, req[r].target)
      BY <1>1, <1>6, <2>6, <3>1 DEF Good, Reached
    <3>4. Home(i, route[i])'
      BY <1>1, <1>h, <2>1, <3>3
    <3>5. QED
      BY <2>5, <3>2, <3>4 DEF Good, Reached
  <2>7. QED
    BY <1>1, <2>5, <2>6 DEF Good
<1>7. CASE Stops(r, i)
  <2>1. route'[i] = None
    BY <1>1, <1>7 DEF Stops, Types
  <2>2. /\ \A h \in Hosts : i \notin hosted'[h]
        /\ \A t \in Requests : ~Stops(t, i)' /\ ~Starts(t, i)'
    <3>1. /\ \A h \in Hosts : i \notin hosted[h]
          /\ route[i] # None
          /\ \A t \in Requests : Stops(t, i) => t = r
      BY <1>1, <1>7 DEF Good, Placed
    <3>2. QED
      BY <1>1, <1>3, <1>4, <3>1 DEF Good, Placed
  <2>3. Placed(i)'
    BY <2>1, <2>2 DEF Placed
  <2>4. CASE i \notin crossed
    <3>1. r \in Open(i) /\ \A t \in Open(i) : t = r
      BY <1>7, <2>4 DEF Good, Reached, Open, Stops
    <3>2. Open(i)' = {}
      BY <1>1, <3>1 DEF Open, Idle
    <3>3. QED
      BY <2>1, <2>3, <3>2 DEF Good, Reached
  <2>5. QED
    BY <1>1, <2>3, <2>4 DEF Good
<1>8. QED
  BY <1>1, <1>5, <1>6, <1>7 DEF Starts, Stops

LEMMA GoodStays ==
  ASSUME Types, Connected, Waiting, Messages, OneStart, Overlaps, [Next]_vars, NEW i \in Ids,
         i \notin doubt' \cup doubled', i \notin doubt \cup doubled => Good(i)
  PROVE  Good(i)'
<1>d. \A h : Dead(h) => Dead(h)'
  BY DeadStays
<1>o. i \notin doubled
  BY OverlapsStay
<1>m. \A m \in wire : (UNCHANGED pending) => (Waited(m)' <=> Waited(m))
  BY DEF Waited
<1>k. ASSUME UNCHANGED <<route, hosted, crossed, req, pending>>, wire' \subseteq wire, Good(i) PROVE Good(i)'
  <2>1. \A r \in Requests : Same(r, i)
    BY <1>k, <1>m, SameRequest
  <2>2. QED
    BY <1>k, <1>d, <2>1, GoodKept DEF Home
<1>1. ASSUME NEW s \in 1 .. made, NEW e \in Ends, Notice(s, e) \/ WriteFails(s, e) PROVE Good(i)'
  <2>1. /\ UNCHANGED <<wire, route, hosted, crossed>>
        /\ UNCHANGED <<req, pending, doubt>> \/ FailCalls({s})
    BY <1>1 DEF Notice, WriteFails
  <2>2. {s} \in SUBSET Sessions
    BY DEF Types
  <2>3. i \notin doubt
    BY <2>1, FailedCalls
  <2>4. QED
    BY <2>1, <2>2, <2>3, <1>k, <1>d, <1>o, GoodFails
<1>3. ASSUME NEW w \in Workers, RegisterTunnel(w) PROVE Good(i)'
  <2> DEFINE old == IF connection[w] = None THEN {} ELSE {connection[w]}
  <2>1. UNCHANGED <<wire, route, hosted, crossed>> /\ FailCalls(old)
    BY <1>3 DEF RegisterTunnel
  <2>2. old \in SUBSET Sessions
    BY DEF Types
  <2> HIDE DEF old
  <2>3. i \notin doubt
    BY <2>1, FailedCalls
  <2>4. QED
    BY <2>1, <2>2, <2>3, <1>d, <1>o, GoodFails
<1>4. ASSUME NEW s, Cut(s) \/ DriverEnds(s) PROVE Good(i)'
  BY <1>4, <1>k, <1>o DEF Cut, DriverEnds, root, tunnel, ghost
<1>5. ASSUME NEW w \in Workers, Registered(w) \/ StoreToken(w) \/ RegistrationLost(w) \/ Refresh(w)
      PROVE  Good(i)'
  BY <1>5, <1>k, <1>o DEF Registered, StoreToken, RegistrationLost, Refresh, root, tunnel, ghost
<1>6. ASSUME NEW w \in Workers, WorkerDies(w) PROVE Good(i)'
  <2>1. /\ UNCHANGED <<route, crossed, req, pending, doubt>> /\ wire' \subseteq wire
        /\ hosted' = [hosted EXCEPT ![w] = {}] /\ stage' = [stage EXCEPT ![w] = "dead"]
    BY <1>6 DEF WorkerDies, root, ghost
  <2>2. \A r \in Requests : Same(r, i)
    BY <2>1, <1>m, SameRequest
  <2>3. hosted \in [Hosts -> SUBSET Ids] /\ w \in Hosts /\ stage = [v \in Workers |-> stage[v]]
    BY DEF Types
  <2>4. \A h \in Hosts : i \in hosted'[h] => i \in hosted[h]
    BY <2>1, <2>3
  <2>5. Dead(w)'
    BY <2>1, <2>3 DEF Dead
  <2>6. \A h \in Hosts : Home(i, h) => Home(i, h)'
    <3>1. \A h \in Hosts : h # w => hosted'[h] = hosted[h]
      BY <2>1, <2>3
    <3>2. QED
      BY <1>d, <2>5, <3>1 DEF Home
  <2>7. QED
    BY <2>1, <2>2, <2>4, <2>6, <1>o, GoodKept
<1>7. CASE RootRestarts
  <2>1. /\ route' = [j \in Ids |-> None] /\ req' = [r \in Requests |-> Idle]
        /\ hosted' = [hosted EXCEPT ![Root] = {}]
        /\ \A w \in Workers : i \notin hosted[w]
    BY <1>7 DEF RootRestarts
  <2>2. \A h \in Hosts : i \notin hosted'[h]
    BY <2>1 DEF Types
  <2>3. \A r \in Requests : ~Starts(r, i)' /\ ~Stops(r, i)' /\ r \notin Open(i)'
    BY <2>1 DEF Starts, Stops, Open, Idle
  <2>4. Open(i)' = {}
    BY <2>3 DEF Open
  <2>5. QED
    BY <2>1, <2>2, <2>3, <2>4 DEF Good, Placed, Reached
<1>9. ASSUME NEW r \in Requests, Serve(r) PROVE Good(i)'
  <2>1. doubt' = doubt
    BY <1>9 DEF Serve, Local, LocalEnds, Call, Reroute, ghost
  <2>2. QED
    BY <1>9, <2>1, <1>d, <1>o, GoodLocal, GoodLocalEnds, GoodCall, GoodReroute DEF Serve
<1>12. ASSUME NEW m \in wire, Handle(m) PROVE Good(i)'
  <2>1. doubt' = doubt
    BY <1>12 DEF Handle, TunnelForward, ForwardEnds, Answered, ghost
  <2>2. QED
    BY <1>12, <2>1, <1>d, <1>o, GoodForward, GoodForwardEnds, GoodAnswered DEF Handle
<1>14. ASSUME NEW r \in Requests, NEW j \in Ids, Ask(r, j) PROVE Good(i)'
  <2>1. doubt' = doubt
    BY <1>14 DEF Ask, StartInstance, ShutdownInstance, UseInstance, Begins
  <2>2. QED
    BY <1>14, <2>1, <1>o, GoodBegins
<1>15. CASE UNCHANGED vars
  BY <1>15, <1>k, <1>o DEF vars, root, tunnel, ghost
<1>16. QED
  BY <1>1, <1>3, <1>4, <1>5, <1>6, <1>7, <1>9, <1>12, <1>14, <1>15 DEF Next, Carry, Maintain, Types

-----------------------------------------------------------------------------
(* The invariant *)

LEMMA Inductive == Spec => []IInv
<1>1. Init => IInv
  <2> SUFFICES ASSUME Init PROVE IInv
    OBVIOUS
  <2>1. Types
    <3>1. link \in [1 .. made -> Tunnels]
      BY DEF Init
    <3>2. QED
      BY <3>1 DEF Init, Types
  <2>2. Connected /\ Waiting /\ Messages /\ OneStart /\ Overlaps
    BY DEF Init, Connected, Waiting, Messages, OneStart, Overlaps, Idle
  <2>3. \A i \in Ids : Placed(i) /\ Reached(i)
    BY DEF Init, Placed, Reached, Starts, Stops, Open, Idle
  <2>4. QED
    BY <2>1, <2>2, <2>3 DEF IInv, AllPlaced, AllReached
<1>2. IInv /\ [Next]_vars => IInv'
  <2> SUFFICES ASSUME IInv, [Next]_vars PROVE IInv'
    OBVIOUS
  <2>1. Types /\ Connected /\ Waiting /\ Messages /\ OneStart /\ Overlaps
    BY DEF IInv
  <2>2. Types' /\ Connected' /\ Waiting' /\ Messages' /\ OneStart' /\ Overlaps'
    BY <2>1, TypesStay, ConnectedStays, WaitingStays, MessagesStay, OneStartStays, OverlapsStay
  <2>3. \A i \in Ids : i \notin doubt \cup doubled => Good(i)
    BY DEF IInv, AllPlaced, AllReached, Good
  <2>4. \A i \in Ids : i \notin doubt' \cup doubled' => Good(i)'
    BY <2>1, <2>3, GoodStays
  <2>5. AllPlaced' /\ AllReached'
    BY <2>2, <2>4 DEF AllPlaced, AllReached, Good, Overlaps
  <2>6. QED
    BY <2>2, <2>5 DEF IInv
<1>3. QED
  BY <1>1, <1>2, PTL DEF Spec

\* However tunnels break, processes end and requests interleave, an instance that
\* runs on a worker is routed to it, or a request about it is open, or the root gave
\* up a call about it, or two shutdowns of it were open at once (start_distributed,
\* shutdown_distributed, forward_tunnel_request).
THEOREM NoInstanceIsLost == Spec => []NoLostInstance
<1>1. IInv => NoLostInstance
  BY DEF IInv, AllPlaced, Placed, NoLostInstance, Open, Starts
<1>2. QED
  BY <1>1, Inductive, PTL

\* Where calls were neither lost nor overlapped, an id at rest is hosted where it is
\* routed (the handlers change hosts first and routes after the answer).
THEOREM RoutesLeadHome == Spec => []RouteLeadsHome
<1>1. IInv => RouteLeadsHome
  BY DEF IInv, AllReached, Reached, RouteLeadsHome, Home, Dead
<1>2. QED
  BY <1>1, Inductive, PTL
=============================================================================
