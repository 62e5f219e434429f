------------------------- MODULE MassSessionProofs --------------------------
(***************************************************************************)
(* Theorems about MassSession and about VoidStream, the streams over which *)
(* what Mass publishes is sent and read, for every value of their          *)
(* constants.                                                              *)
(*                                                                         *)
(* VoidStream promises the readers of a transfer that what they get is the *)
(* declared content of a committed transfer, and they do not give up while *)
(* they may still get it.                                                  *)
(***************************************************************************)
EXTENDS MassSession, VoidStream, FiniteSetTheorems, SequenceTheorems, TLAPS

USE DEF vars

LEMMA NewSessionIsTyped ==
  ASSUME NEW o \in Oscillations \cup {NoOscillation} PROVE NewSession(o) \in Sessions
<1> DEFINE f == IF Scheduled(1, o) THEN FrozenAtStep(1, o) ELSE Frozen
<1>1. f \in BOOLEAN
  <2>1. FrozenAtStep(1, o) \in BOOLEAN BY DEF FrozenAtStep
  <2>2. CASE Scheduled(1, o) BY <2>1, <2>2
  <2>3. CASE ~Scheduled(1, o) BY <2>3, FlagsAssumption
  <2> QED BY <2>2, <2>3
<1>2. NewSession(o) = [state |-> "Idle", running |-> TRUE, steps |-> 0, oscillation |-> o, frozen |-> f]
  BY DEF NewSession
<1> HIDE DEF f
<1> QED BY <1>1, <1>2 DEF Sessions, MassState

\* Sessions is closed under the changes requests make.
LEMMA SessionUpdates ==
  ASSUME NEW s \in Sessions
  PROVE  /\ \A x \in MassState : [s EXCEPT !.state = x] \in Sessions
         /\ [s EXCEPT !.running = FALSE] \in Sessions
         /\ s.frozen \in BOOLEAN
BY DEF Sessions

LEMMA OscillatedIsTyped ==
  ASSUME NEW s \in Sessions
  PROVE  /\ Oscillated(s) \in Sessions
         /\ Oscillated(s).state = s.state
         /\ Oscillated(s).running = s.running
<1> DEFINE n == IF s.oscillation = NoOscillation THEN s.steps ELSE s.steps + 1
           f == IF Scheduled(n, s.oscillation) THEN FrozenAtStep(n, s.oscillation) ELSE s.frozen
<1>1. n \in Nat BY DEF Sessions
<1>2. f \in BOOLEAN
  <2>1. s.frozen \in BOOLEAN BY DEF Sessions
  <2>2. FrozenAtStep(n, s.oscillation) \in BOOLEAN BY DEF FrozenAtStep
  <2> QED BY <2>1, <2>2
<1>3. Oscillated(s) = [s EXCEPT !.steps = n, !.frozen = f] BY DEF Oscillated, Sessions
<1> HIDE DEF n, f
<1> QED BY <1>1, <1>2, <1>3 DEF Sessions

LEMMA FreeIsTyped == Free \in RequestRecords
<1>1. (CHOOSE m \in Models : TRUE) \in Models BY ModelsAssumption
<1>2. 0 \in 0..MaxStarts BY LimitsAssumption
<1> QED BY <1>1, <1>2 DEF Free, RequestRecords

\* What any request does to its own entry leaves the table typed, and a start's
\* tie to start_dispatch intact when neither is a start.
LEMMA RequestStepIsTyped ==
  ASSUME TypeOK, NEW r \in Requests, request[r].op # "start", UNCHANGED dispatch,
         NEW q \in RequestRecords, q.op # "start", request' = [request EXCEPT ![r] = q]
  PROVE  /\ request' \in [Requests -> RequestRecords]
         /\ \A s \in Requests : request'[s].op = "start" <=> dispatch' = s
BY DEF TypeOK

LEMMA DoneIsTyped ==
  ASSUME TypeOK, NEW r \in Requests, request[r].op # "start", UNCHANGED dispatch, Done(r)
  PROVE  /\ request' \in [Requests -> RequestRecords]
         /\ \A s \in Requests : request'[s].op = "start" <=> dispatch' = s
BY RequestStepIsTyped, FreeIsTyped DEF Done, Free

LEMMA DispatchIsTyped ==
  ASSUME TypeOK, NEW r \in Requests, request[r].op = "start", dispatch' = NoRequest, Done(r)
  PROVE  /\ request' \in [Requests -> RequestRecords]
         /\ \A s \in Requests : request'[s].op = "start" <=> dispatch' = s
BY FreeIsTyped, RequestsAssumption DEF Done, Free, TypeOK

\* The requests that work on a session under its lock.
Works(r) == PerturbUp(r) \/ PerturbDown(r) \/ Infer(r) \/ Optimize(r)

LEMMA RequestModel ==
  ASSUME TypeOK, NEW r \in Requests
  PROVE  request[r].model \in Models /\ request[r].instance \in 0..MaxStarts
BY DEF TypeOK, RequestRecords

LEMMA AnswerIsTyped ==
  ASSUME TypeOK, NEW r \in Requests, NEW op \in Ops, NEW state \in MassState, NEW moved \in Moved,
         NEW expected, Locked(r, op, expected), Answers(r, state, moved)
  PROVE  TypeOK'
<1> DEFINE m == request[r].model
<1>1. m \in Models BY RequestModel
<1>2. request[r].op # "start" BY DEF Locked, Ops
<1>3. session[m] \in Sessions /\ engine[m] \in [loaded : BOOLEAN, moved : Moved]
  BY <1>1 DEF TypeOK
<1>4. [session[m] EXCEPT !.state = state] \in Sessions BY <1>3 DEF Sessions
<1>5. [engine[m] EXCEPT !.moved = IF session[m].frozen THEN @ ELSE moved] \in [loaded : BOOLEAN, moved : Moved]
  BY <1>3
<1>6. session' = [session EXCEPT ![m] = [session[m] EXCEPT !.state = state]]
  BY DEF Answers
<1>7. engine' = [engine EXCEPT ![m] = [engine[m] EXCEPT !.moved = IF session[m].frozen THEN @ ELSE moved]]
  BY DEF Answers
<1>8. session' \in [Models -> Sessions] BY <1>4, <1>6 DEF TypeOK
<1>9. engine' \in [Models -> [loaded : BOOLEAN, moved : Moved]] BY <1>5, <1>7 DEF TypeOK
<1>10. /\ request' \in [Requests -> RequestRecords]
       /\ \A s \in Requests : request'[s].op = "start" <=> dispatch' = s
  BY <1>2, DoneIsTyped DEF Answers
<1> QED BY <1>8, <1>9, <1>10 DEF Answers, TypeOK

\* The initial state has the types of TypeOK.
LEMMA InitTyped == Init => TypeOK
<1> SUFFICES ASSUME Init PROVE TypeOK OBVIOUS
<1>1. [NewSession(NoOscillation) EXCEPT !.running = FALSE] \in Sessions
  BY NewSessionIsTyped, SessionUpdates
<1>2. session \in [Models -> Sessions] BY <1>1 DEF Init
<1>3. engine \in [Models -> [loaded : BOOLEAN, moved : Moved]] BY DEF Init, Moved
<1>4. starts \in [Models -> 0..MaxStarts] BY LimitsAssumption DEF Init
<1>5. /\ request \in [Requests -> RequestRecords]
      /\ \A s \in Requests : request[s].op = "start" <=> dispatch = s
  BY FreeIsTyped, RequestsAssumption DEF Init, Free
<1>6. trained \in [Models -> Seq(BOOLEAN)]
  <2>1. << >> \in Seq(BOOLEAN) OBVIOUS
  <2> QED BY <2>1 DEF Init
<1>7. slot \in [Models -> {"absent", "starting", "running", "shuttingDown"}] BY DEF Init
<1> QED BY <1>2, <1>3, <1>4, <1>5, <1>6, <1>7 DEF Init, TypeOK

LEMMA NextTyped == TypeOK /\ [Next]_vars => TypeOK'
<1> SUFFICES ASSUME TypeOK, [Next]_vars PROVE TypeOK' OBVIOUS
<1>1. CASE UNCHANGED vars BY <1>1 DEF TypeOK
<1>2. ASSUME NEW r \in Requests, NEW m \in Models, StartBegins(r, m) PROVE TypeOK'
  <2>1. starts[m] + 1 \in 0..MaxStarts /\ starts' \in [Models -> 0..MaxStarts]
    BY <1>2, LimitsAssumption DEF StartBegins, TypeOK
  <2> DEFINE q == [op |-> "start", model |-> m, instance |-> starts[m] + 1]
  <2>2. q \in RequestRecords /\ q.op = "start" BY <2>1 DEF RequestRecords
  <2>3. request' = [request EXCEPT ![r] = q] /\ dispatch' = r BY <1>2 DEF StartBegins
  <2> HIDE DEF q
  <2>4. \A s \in Requests : request[s].op # "start"
    BY <1>2, RequestsAssumption DEF StartBegins, TypeOK
  <2>5. /\ request' \in [Requests -> RequestRecords]
        /\ \A s \in Requests : request'[s].op = "start" <=> dispatch' = s
    BY <2>2, <2>3, <2>4 DEF TypeOK
  <2> QED BY <1>2, <2>1, <2>5 DEF StartBegins, TypeOK
<1>3. ASSUME NEW r \in Requests, NEW m \in Models, ShutdownBegins(r, m) PROVE TypeOK'
  <2> DEFINE q == [op |-> "shutdown", model |-> m, instance |-> starts[m]]
  <2>1. q \in RequestRecords /\ q.op # "start" BY DEF RequestRecords, TypeOK
  <2>2. request' = [request EXCEPT ![r] = q] BY <1>3 DEF ShutdownBegins
  <2> HIDE DEF q
  <2>3. request[r].op # "start" /\ UNCHANGED dispatch BY <1>3 DEF ShutdownBegins, Free
  <2>4. /\ request' \in [Requests -> RequestRecords]
        /\ \A s \in Requests : request'[s].op = "start" <=> dispatch' = s
    BY <2>1, <2>2, <2>3, RequestStepIsTyped
  <2> QED BY <1>3, <2>4 DEF ShutdownBegins, TypeOK
<1>4. ASSUME NEW r \in Requests, NEW m \in Models, NEW op \in Ops, Enters(r, op, m) PROVE TypeOK'
  <2> DEFINE q == [op |-> op, model |-> m, instance |-> starts[m]]
  <2>1. q \in RequestRecords /\ q.op # "start" BY DEF RequestRecords, TypeOK, Ops
  <2>2. request' = [request EXCEPT ![r] = q] BY <1>4 DEF Enters
  <2> HIDE DEF q
  <2>3. request[r].op # "start" /\ UNCHANGED dispatch BY <1>4 DEF Enters, Free
  <2>4. /\ request' \in [Requests -> RequestRecords]
        /\ \A s \in Requests : request'[s].op = "start" <=> dispatch' = s
    BY <2>1, <2>2, <2>3, RequestStepIsTyped
  <2> QED BY <1>4, <2>4 DEF Enters, TypeOK
<1>5. ASSUME NEW r \in Requests, NEW o \in Oscillations, StartEnds(r, o) PROVE TypeOK'
  <2>1. request[r].model \in Models BY RequestModel
  <2>2. NewSession(o) \in Sessions BY NewSessionIsTyped
  <2>3. session' \in [Models -> Sessions] BY <1>5, <2>1, <2>2 DEF StartEnds, TypeOK
  <2>4. engine' \in [Models -> [loaded : BOOLEAN, moved : Moved]]
    BY <1>5, <2>1 DEF StartEnds, TypeOK, Moved
  <2>5. trained' \in [Models -> Seq(BOOLEAN)] BY <1>5, <2>1 DEF StartEnds, TypeOK
  <2>6. /\ request' \in [Requests -> RequestRecords]
        /\ \A s \in Requests : request'[s].op = "start" <=> dispatch' = s
    BY <1>5, DispatchIsTyped DEF StartEnds
  <2> QED BY <1>5, <2>1, <2>3, <2>4, <2>5, <2>6 DEF StartEnds, TypeOK
<1>6. ASSUME NEW r \in Requests, StartFails(r) PROVE TypeOK'
  <2>1. request[r].model \in Models BY RequestModel
  <2>2. /\ request' \in [Requests -> RequestRecords]
        /\ \A s \in Requests : request'[s].op = "start" <=> dispatch' = s
    BY <1>6, DispatchIsTyped DEF StartFails
  <2> QED BY <1>6, <2>1, <2>2 DEF StartFails, TypeOK
<1>7. ASSUME NEW r \in Requests, ShutdownUnloads(r) PROVE TypeOK'
  <2> DEFINE m == request[r].model
  <2>1. m \in Models BY RequestModel
  <2>2. request[r].op # "start" BY <1>7 DEF ShutdownUnloads
  <2>3. session[m] \in Sessions /\ engine[m] \in [loaded : BOOLEAN, moved : Moved]
    BY <2>1 DEF TypeOK
  <2>4. session' = [session EXCEPT ![m] = [session[m] EXCEPT !.running = FALSE]]
        /\ engine' = [engine EXCEPT ![m] = [engine[m] EXCEPT !.loaded = FALSE]]
    BY <1>7 DEF ShutdownUnloads
  <2>5. session' \in [Models -> Sessions] BY <2>3, <2>4 DEF TypeOK, Sessions
  <2>6. engine' \in [Models -> [loaded : BOOLEAN, moved : Moved]] BY <2>3, <2>4 DEF TypeOK
  <2>7. [request[r] EXCEPT !.op = "unlist"] \in RequestRecords
    BY DEF TypeOK, RequestRecords
  <2>8. /\ request' \in [Requests -> RequestRecords]
        /\ \A s \in Requests : request'[s].op = "start" <=> dispatch' = s
    <3>1. CASE Done(r) BY <1>7, <2>2, <3>1, DoneIsTyped DEF ShutdownUnloads
    <3>2. CASE request' = [request EXCEPT ![r].op = "unlist"]
      <4>1. [request[r] EXCEPT !.op = "unlist"].op = "unlist" BY DEF TypeOK, RequestRecords
      <4> QED BY <1>7, <2>2, <2>7, <3>2, <4>1, RequestStepIsTyped DEF ShutdownUnloads
    <3> QED BY <1>7, <3>1, <3>2 DEF ShutdownUnloads
  <2> QED BY <1>7, <2>1, <2>5, <2>6, <2>8 DEF ShutdownUnloads, TypeOK
<1>8. ASSUME NEW r \in Requests, ShutdownUnlists(r) PROVE TypeOK'
  <2>1. request[r].op # "start" BY <1>8 DEF ShutdownUnlists
  <2>2. /\ request' \in [Requests -> RequestRecords]
        /\ \A s \in Requests : request'[s].op = "start" <=> dispatch' = s
    BY <1>8, <2>1, DoneIsTyped DEF ShutdownUnlists, TypeOK
  <2> QED BY <1>8, <2>2 DEF ShutdownUnlists, TypeOK
<1>9. ASSUME NEW r \in Requests, PerturbUp(r) PROVE TypeOK'
  BY <1>9, AnswerIsTyped DEF PerturbUp, Ops, MassState, Moved
<1>10. ASSUME NEW r \in Requests, PerturbDown(r) PROVE TypeOK'
  BY <1>10, AnswerIsTyped DEF PerturbDown, Ops, MassState, Moved
<1>11. ASSUME NEW r \in Requests, Infer(r) PROVE TypeOK'
  <2>1. engine[request[r].model].moved \in Moved BY RequestModel DEF TypeOK
  <2>2. "infer" \in Ops /\ {"AwaitingPerturbDown", "AwaitingOptimize"} \subseteq MassState
    BY DEF Ops, MassState
  <2> QED BY <1>11, <2>1, <2>2, AnswerIsTyped DEF Infer
<1>12. ASSUME NEW r \in Requests, Optimize(r) PROVE TypeOK'
  <2> DEFINE m == request[r].model
             s == [session[m] EXCEPT !.state = "Idle"]
  <2>1. m \in Models BY RequestModel
  <2>2. request[r].op # "start" BY <1>12 DEF Optimize, Locked
  <2>3. s \in Sessions
    <3>1. session[m] \in Sessions BY <2>1 DEF TypeOK
    <3> QED BY <3>1, SessionUpdates DEF MassState
  <2>4. session' = [session EXCEPT ![m] = Oscillated(s)] BY <1>12 DEF Optimize
  <2> HIDE DEF s
  <2>5. session' \in [Models -> Sessions] BY <2>3, <2>4, OscillatedIsTyped DEF TypeOK
  <2>f. session[m].frozen \in BOOLEAN BY <2>1 DEF TypeOK, Sessions
  <2>e. engine[m] \in [loaded : BOOLEAN, moved : Moved] BY <2>1 DEF TypeOK
  <2>6. [engine[m] EXCEPT !.moved = IF session[m].frozen THEN @ ELSE "none"] \in [loaded : BOOLEAN, moved : Moved]
    BY <2>e DEF Moved
  <2>7. engine' \in [Models -> [loaded : BOOLEAN, moved : Moved]]
    BY <1>12, <2>6 DEF Optimize, TypeOK
  <2>8. Append(trained[m], ~session[m].frozen) \in Seq(BOOLEAN)
    <3>1. trained[m] \in Seq(BOOLEAN) BY <2>1 DEF TypeOK
    <3>2. (~session[m].frozen) \in BOOLEAN BY <2>f
    <3> QED BY <3>1, <3>2, SMT
  <2>9. trained' \in [Models -> Seq(BOOLEAN)] BY <1>12, <2>8 DEF Optimize, TypeOK
  <2>10. /\ request' \in [Requests -> RequestRecords]
         /\ \A x \in Requests : request'[x].op = "start" <=> dispatch' = x
    BY <1>12, <2>2, DoneIsTyped DEF Optimize
  <2> QED BY <1>12, <2>5, <2>7, <2>9, <2>10 DEF Optimize, TypeOK
<1>13. ASSUME NEW r \in Requests, FuseWeights(r) PROVE TypeOK'
  <2>1. request[r].op # "start" BY <1>13 DEF FuseWeights, Locked
  <2>2. engine[request[r].model].moved \in Moved BY RequestModel DEF TypeOK
  <2>3. /\ request' \in [Requests -> RequestRecords]
        /\ \A x \in Requests : request'[x].op = "start" <=> dispatch' = x
    BY <1>13, <2>1, DoneIsTyped DEF FuseWeights
  <2> QED BY <1>13, <2>2, <2>3 DEF FuseWeights, TypeOK
<1>14. ASSUME NEW r \in Requests, Refused(r) PROVE TypeOK'
  <2>1. request[r].op # "start" BY <1>14 DEF Refused, Ops
  <2>2. /\ request' \in [Requests -> RequestRecords]
        /\ \A x \in Requests : request'[x].op = "start" <=> dispatch' = x
    BY <1>14, <2>1, DoneIsTyped DEF Refused
  <2> QED BY <1>14, <2>2 DEF Refused, TypeOK
<1> QED
  BY <1>1, <1>2, <1>3, <1>4, <1>5, <1>6, <1>7, <1>8, <1>9, <1>10, <1>11, <1>12, <1>13, <1>14
     DEF Next

\* Registries, sessions and requests keep their types, and a start in flight
\* holds start_dispatch (handle_instance_start_distributed).
THEOREM Typed == Spec => []TypeOK
BY InitTyped, NextTyped, PTL DEF Spec

----------------------------------------------------------------------------
\* A session that runs has its engine loaded.
RunsLoaded == \A m \in Models : session[m].running => engine[m].loaded

\* The weights invariant, inductive with the types.
WInv == WeightsInStep /\ FusesBase /\ RunsLoaded

\* A request that changes only its own instance's session and engine keeps the
\* weights in step if it does there.
LEMMA OneInstance ==
  ASSUME TypeOK, WInv, NEW m \in Models, NEW s \in Sessions, NEW e \in [loaded : BOOLEAN, moved : Moved],
         session' = [session EXCEPT ![m] = s], engine' = [engine EXCEPT ![m] = e],
         UNCHANGED fused, e.moved \in Position(s), s.running => e.loaded
  PROVE  WInv'
<1>1. \A x \in Models : session'[x] = IF x = m THEN s ELSE session[x]
  BY DEF TypeOK
<1>2. \A x \in Models : engine'[x] = IF x = m THEN e ELSE engine[x]
  BY DEF TypeOK
<1>3. WeightsInStep' BY <1>1, <1>2 DEF WInv, WeightsInStep
<1>4. RunsLoaded' BY <1>1, <1>2 DEF WInv, RunsLoaded
<1> QED BY <1>3, <1>4 DEF WInv, FusesBase

LEMMA AnswerKeepsWeights ==
  ASSUME TypeOK, WInv, NEW r \in Requests, NEW state \in MassState, NEW moved \in Moved,
         Answers(r, state, moved),
         LET s == session[request[r].model] IN
           IF s.frozen THEN TRUE ELSE moved \in Position([s EXCEPT !.state = state])
  PROVE  WInv'
<1> DEFINE m == request[r].model
           s == [session[m] EXCEPT !.state = state]
           e == [engine[m] EXCEPT !.moved = IF session[m].frozen THEN @ ELSE moved]
<1>1. m \in Models BY RequestModel
<1>2. session[m] \in Sessions /\ engine[m] \in [loaded : BOOLEAN, moved : Moved]
  BY <1>1 DEF TypeOK
<1>3. s \in Sessions BY <1>2, SessionUpdates
<1>4. s.frozen = session[m].frozen /\ s.running = session[m].running
  BY <1>2 DEF Sessions
<1>5. e \in [loaded : BOOLEAN, moved : Moved] BY <1>2
<1>6. e.loaded = engine[m].loaded /\ e.moved = IF session[m].frozen THEN engine[m].moved ELSE moved
  BY <1>2
<1>7. e.moved \in Position(s)
  <2>1. CASE session[m].frozen
    <3>1. engine[m].moved \in Position(session[m]) BY <1>1 DEF WInv, WeightsInStep
    <3> QED BY <2>1, <3>1, <1>4, <1>6 DEF Position
  <2>2. CASE ~session[m].frozen BY <2>2, <1>6
  <2> QED BY <2>1, <2>2
<1>8. s.running => e.loaded BY <1>1, <1>4, <1>6 DEF WInv, RunsLoaded
<1>9. session' = [session EXCEPT ![m] = s] /\ engine' = [engine EXCEPT ![m] = e] /\ UNCHANGED fused
  BY DEF Answers
<1> HIDE DEF m, s, e
<1> QED BY <1>1, <1>3, <1>5, <1>7, <1>8, <1>9, OneInstance

LEMMA InitWeights == Init => WInv
<1> SUFFICES ASSUME Init PROVE WInv OBVIOUS
<1>1. \A m \in Models : session[m].state = "Idle" /\ ~session[m].running /\ engine[m].moved = "none"
  BY DEF Init, NewSession
<1> QED BY <1>1 DEF Init, WInv, WeightsInStep, FusesBase, RunsLoaded, Position

LEMMA NextWeights == TypeOK /\ WInv /\ [Next]_vars => WInv'
<1> SUFFICES ASSUME TypeOK, WInv, [Next]_vars PROVE WInv' OBVIOUS
<1> USE DEF Ops
<1>1. CASE UNCHANGED <<session, engine, fused>>
  BY <1>1 DEF WInv, WeightsInStep, FusesBase, RunsLoaded
<1>2. ASSUME NEW r \in Requests, NEW o \in Oscillations, StartEnds(r, o) PROVE WInv'
  <2>1. request[r].model \in Models BY RequestModel
  <2>2. NewSession(o) \in Sessions /\ NewSession(o).state = "Idle"
    BY NewSessionIsTyped DEF NewSession
  <2>3. "none" \in Position(NewSession(o)) BY <2>2 DEF Position
  <2>4. [loaded |-> TRUE, moved |-> "none"] \in [loaded : BOOLEAN, moved : Moved] BY DEF Moved
  <2> DEFINE m == request[r].model
             s == NewSession(o)
             e == [loaded |-> TRUE, moved |-> "none"]
  <2>5. session' = [session EXCEPT ![m] = s] /\ engine' = [engine EXCEPT ![m] = e] /\ UNCHANGED fused
    BY <1>2 DEF StartEnds
  <2>6. m \in Models /\ s \in Sessions /\ e \in [loaded : BOOLEAN, moved : Moved]
        /\ e.moved \in Position(s) /\ e.loaded
    BY <2>1, <2>2, <2>3, <2>4
  <2> HIDE DEF m, s, e
  <2> QED BY <2>5, <2>6, OneInstance
<1>3. ASSUME NEW r \in Requests, ShutdownUnloads(r) PROVE WInv'
  <2> DEFINE m == request[r].model
             s == [session[m] EXCEPT !.running = FALSE]
             e == [engine[m] EXCEPT !.loaded = FALSE]
  <2>1. m \in Models BY RequestModel
  <2>2. session[m] \in Sessions /\ engine[m] \in [loaded : BOOLEAN, moved : Moved]
    BY <2>1 DEF TypeOK
  <2>3. s \in Sessions BY <2>2, SessionUpdates
  <2>4. s.frozen = session[m].frozen /\ s.state = session[m].state /\ ~s.running
    BY <2>2 DEF Sessions
  <2>5. e \in [loaded : BOOLEAN, moved : Moved] /\ e.moved = engine[m].moved BY <2>2
  <2>6. e.moved \in Position(s) BY <2>1, <2>4, <2>5 DEF WInv, WeightsInStep, Position
  <2>7. session' = [session EXCEPT ![m] = s] /\ engine' = [engine EXCEPT ![m] = e] /\ UNCHANGED fused
    BY <1>3 DEF ShutdownUnloads
  <2> HIDE DEF m, s, e
  <2> QED BY <2>1, <2>3, <2>4, <2>5, <2>6, <2>7, OneInstance
<1>4. ASSUME NEW r \in Requests, PerturbUp(r) PROVE WInv'
  <2>1. session[request[r].model] \in Sessions BY RequestModel DEF TypeOK
  <2>2. [session[request[r].model] EXCEPT !.state = "PostPerturbUp"].state = "PostPerturbUp"
        /\ [session[request[r].model] EXCEPT !.state = "PostPerturbUp"].frozen = session[request[r].model].frozen
    BY <2>1 DEF Sessions
  <2>3. ~session[request[r].model].frozen
          => "up" \in Position([session[request[r].model] EXCEPT !.state = "PostPerturbUp"])
    BY <2>2 DEF Position
  <2> QED BY <1>4, <2>3, AnswerKeepsWeights DEF PerturbUp, MassState, Moved
<1>5. ASSUME NEW r \in Requests, PerturbDown(r) PROVE WInv'
  <2>1. session[request[r].model] \in Sessions BY RequestModel DEF TypeOK
  <2>2. [session[request[r].model] EXCEPT !.state = "PostPerturbDown"].state = "PostPerturbDown"
        /\ [session[request[r].model] EXCEPT !.state = "PostPerturbDown"].frozen = session[request[r].model].frozen
    BY <2>1 DEF Sessions
  <2>3. ~session[request[r].model].frozen
          => "down" \in Position([session[request[r].model] EXCEPT !.state = "PostPerturbDown"])
    BY <2>2 DEF Position
  <2> QED BY <1>5, <2>3, AnswerKeepsWeights DEF PerturbDown, MassState, Moved
<1>6. ASSUME NEW r \in Requests, Infer(r) PROVE WInv'
  <2> DEFINE m == request[r].model
             state == IF session[m].state \in {"PostPerturbUp", "AwaitingPerturbDown"}
                      THEN "AwaitingPerturbDown" ELSE "AwaitingOptimize"
             s == [session[m] EXCEPT !.state = state]
  <2>1. m \in Models BY RequestModel
  <2>2. session[m] \in Sessions /\ engine[m].moved \in Moved BY <2>1 DEF TypeOK
  <2>3. s.state = state /\ s.frozen = session[m].frozen BY <2>2 DEF Sessions
  <2>4. engine[m].moved \in Position(session[m]) BY <2>1 DEF WInv, WeightsInStep
  <2>5. ~session[m].frozen => engine[m].moved \in Position(s)
    <3>1. session[m].state \in MassState BY <2>2 DEF Sessions
    <3> QED BY <2>3, <2>4, <3>1 DEF Position, MassState
  <2>6. state \in MassState BY DEF MassState
  <2>7. Answers(r, state, engine[m].moved) BY <1>6 DEF Infer
  <2> HIDE DEF state
  <2> QED BY <2>2, <2>5, <2>6, <2>7, AnswerKeepsWeights
<1>7. ASSUME NEW r \in Requests, Optimize(r) PROVE WInv'
  <2> DEFINE m == request[r].model
             i == [session[m] EXCEPT !.state = "Idle"]
             s == Oscillated(i)
             e == [engine[m] EXCEPT !.moved = IF session[m].frozen THEN @ ELSE "none"]
  <2>1. m \in Models BY RequestModel
  <2>2. session[m] \in Sessions /\ engine[m] \in [loaded : BOOLEAN, moved : Moved]
    BY <2>1 DEF TypeOK
  <2>3. i \in Sessions BY <2>2, SessionUpdates DEF MassState
  <2>4. i.state = "Idle" /\ i.running = session[m].running BY <2>2 DEF Sessions
  <2>5. s \in Sessions /\ s.state = "Idle" /\ s.running = session[m].running
    <3> HIDE DEF i
    <3> QED BY <2>3, <2>4, OscillatedIsTyped
  <2>6. e \in [loaded : BOOLEAN, moved : Moved] /\ e.loaded = engine[m].loaded
        /\ e.moved = IF session[m].frozen THEN engine[m].moved ELSE "none"
    BY <2>2 DEF Moved
  <2>7. e.moved = "none" BY <2>1, <2>6 DEF WInv, WeightsInStep, Position
  <2>8. e.moved \in Position(s) BY <2>5, <2>7 DEF Position
  <2>9. s.running => e.loaded BY <2>1, <2>5, <2>6 DEF WInv, RunsLoaded
  <2>10. session' = [session EXCEPT ![m] = s] /\ engine' = [engine EXCEPT ![m] = e] /\ UNCHANGED fused
    BY <1>7 DEF Optimize
  <2> HIDE DEF m, s, e
  <2> QED BY <2>1, <2>5, <2>6, <2>8, <2>9, <2>10, OneInstance
<1>8. ASSUME NEW r \in Requests, FuseWeights(r) PROVE WInv'
  <2>1. request[r].model \in Models BY RequestModel
  <2>2. session[request[r].model].state = "Idle" BY <1>8 DEF FuseWeights, Locked
  <2>3. engine[request[r].model].moved = "none"
    BY <2>1, <2>2 DEF WInv, WeightsInStep, Position
  <2> QED BY <1>8, <2>3 DEF FuseWeights, WInv, WeightsInStep, FusesBase, RunsLoaded
<1>9. ASSUME NEW r \in Requests,
             \/ \E m \in Models : StartBegins(r, m) \/ ShutdownBegins(r, m)
             \/ \E m \in Models, op \in Ops : Enters(r, op, m)
             \/ StartFails(r) \/ ShutdownUnlists(r) \/ Refused(r)
      PROVE WInv'
  BY <1>1, <1>9 DEF StartBegins, ShutdownBegins, Enters, StartFails, ShutdownUnlists, Refused
<1> QED
  BY <1>1, <1>2, <1>3, <1>4, <1>5, <1>6, <1>7, <1>8, <1>9 DEF Next

\* However requests, starts, shutdowns and the oscillation interleave, an idle or
\* frozen instance holds its base weights and one between perturbation and
\* update the perturbed ones (handle_perturb_up, _infer, _perturb_down,
\* _optimize).
THEOREM WeightsStayInStep == Spec => []WeightsInStep
<1>1. TypeOK /\ WInv /\ [Next]_vars => (TypeOK /\ WInv)' BY NextTyped, NextWeights
<1>2. Init => TypeOK /\ WInv BY InitTyped, InitWeights
<1>3. WInv => WeightsInStep BY DEF WInv
<1> QED BY <1>1, <1>2, <1>3, PTL DEF Spec

\* No fusion starts from perturbed weights (handle_fuse_weights).
THEOREM FusionsStartFromBase == Spec => []FusesBase
<1>1. TypeOK /\ WInv /\ [Next]_vars => (TypeOK /\ WInv)' BY NextTyped, NextWeights
<1>2. Init => TypeOK /\ WInv BY InitTyped, InitWeights
<1>3. WInv => FusesBase BY DEF WInv
<1> QED BY <1>1, <1>2, <1>3, PTL DEF Spec

----------------------------------------------------------------------------
\* What changes an instance in the step that ends a request on it is that
\* request, under the lock.
LEMMA WorkIsLocked ==
  ASSUME TypeOK, Next, NEW r \in Requests, request[r].op \in Ops, request'[r] = Free,
         LET m == request[r].model IN session'[m] # session[m] \/ engine'[m] # engine[m]
  PROVE  session[request[r].model].running /\ request[r].instance = starts[request[r].model]
<1> DEFINE m == request[r].model
<1>1. m \in Models BY RequestModel
<1>2. request[r] # Free /\ request[r].op \notin {"none", "start", "shutdown", "unlist"}
  BY DEF Ops, Free
<1>3. \A s \in Requests : \A q : request' = [request EXCEPT ![s] = q] => s = r
  BY <1>2 DEF TypeOK
<1>4. ~UNCHANGED <<session, engine>> BY <1>1
<1>5. PICK s \in Requests :
        \/ \E o \in Oscillations : StartEnds(s, o)
        \/ ShutdownUnloads(s)
        \/ PerturbUp(s) \/ PerturbDown(s) \/ Infer(s) \/ Optimize(s)
  BY <1>4 DEF Next, StartBegins, ShutdownBegins, Enters, StartFails, ShutdownUnlists, FuseWeights, Refused
<1>6. s = r
  <2>1. CASE (\E o \in Oscillations : StartEnds(s, o)) \/ Optimize(s)
    BY <2>1, <1>3 DEF StartEnds, Optimize, Done
  <2>2. CASE ShutdownUnloads(s)
    BY <2>2, <1>3 DEF ShutdownUnloads, Done
  <2>3. CASE PerturbUp(s) \/ PerturbDown(s) \/ Infer(s)
    BY <2>3, <1>3 DEF PerturbUp, PerturbDown, Infer, Answers, Done
  <2> QED BY <1>5, <2>1, <2>2, <2>3
<1>7. \E op \in Ops, expected \in SUBSET MassState : Locked(r, op, expected)
  BY <1>2, <1>5, <1>6 DEF StartEnds, ShutdownUnloads, PerturbUp, PerturbDown, Infer, Optimize, Ops, MassState
<1> QED BY <1>7 DEF Locked

\* A request that waited for the session lock while its instance was shut down,
\* or replaced, changes neither session nor engine (ensure_running).
THEOREM NothingAfterUnload == Spec => NoUseAfterUnload
<1>1. TypeOK /\ WInv /\ [Next]_vars =>
        [\A r \in Requests : LET q == request[r] IN
           /\ q.op \in Ops /\ request'[r] = Free
           /\ session'[q.model] # session[q.model] \/ engine'[q.model] # engine[q.model]
           => engine[q.model].loaded /\ q.instance = starts[q.model]]_vars
  <2> SUFFICES ASSUME TypeOK, WInv, Next, NEW r \in Requests,
                      request[r].op \in Ops, request'[r] = Free,
                      LET m == request[r].model IN session'[m] # session[m] \/ engine'[m] # engine[m]
               PROVE  engine[request[r].model].loaded /\ request[r].instance = starts[request[r].model]
    OBVIOUS
  <2>1. session[request[r].model].running /\ request[r].instance = starts[request[r].model]
    BY WorkIsLocked
  <2> QED BY <2>1, RequestModel DEF WInv, RunsLoaded
<1>2. TypeOK /\ WInv /\ [Next]_vars => (TypeOK /\ WInv)' BY NextTyped, NextWeights
<1>3. Init => TypeOK /\ WInv BY InitTyped, InitWeights
<1> QED BY <1>1, <1>2, <1>3, PTL DEF Spec, NoUseAfterUnload

----------------------------------------------------------------------------
\* Capacity is counted in routes, which hold every hosted instance; a start in
\* flight has its place.
Capacity ==
  /\ hosted \subseteq routed /\ IsFiniteSet(routed)
  /\ Cardinality(routed) <= MaxInstances
  /\ dispatch # NoRequest => Cardinality(routed) < MaxInstances

LEMMA InitCapacity == Init => Capacity
BY FS_EmptySet, LimitsAssumption DEF Init, Capacity

LEMMA NextCapacity == TypeOK /\ Capacity /\ [Next]_vars => Capacity'
<1> SUFFICES ASSUME TypeOK, Capacity, [Next]_vars PROVE Capacity' OBVIOUS
<1>n. Cardinality(routed) \in Nat /\ MaxInstances \in Nat
  BY FS_CardinalityType, LimitsAssumption DEF Capacity
<1>1. CASE UNCHANGED <<hosted, routed, dispatch>> BY <1>1 DEF Capacity
<1>2. ASSUME NEW r \in Requests, NEW m \in Models, StartBegins(r, m) PROVE Capacity'
  BY <1>2 DEF StartBegins, Capacity
<1>3. ASSUME NEW r \in Requests, NEW o \in Oscillations, StartEnds(r, o) PROVE Capacity'
  <2>1. dispatch # NoRequest BY <1>3, RequestsAssumption DEF StartEnds, TypeOK
  <2>2. routed' = routed \cup {request[r].model} /\ hosted' = hosted \cup {request[r].model}
        /\ dispatch' = NoRequest
    BY <1>3 DEF StartEnds
  <2>3. IsFiniteSet(routed')
        /\ (Cardinality(routed') = Cardinality(routed) \/ Cardinality(routed') = Cardinality(routed) + 1)
    BY <2>2, FS_AddElement DEF Capacity
  <2> QED BY <1>n, <2>1, <2>2, <2>3 DEF Capacity
<1>4. ASSUME NEW r \in Requests, StartFails(r) PROVE Capacity'
  BY <1>4 DEF StartFails, Capacity
<1>5. ASSUME NEW r \in Requests, ShutdownUnlists(r) PROVE Capacity'
  <2>1. CASE UNCHANGED routed BY <1>5, <2>1 DEF ShutdownUnlists, Capacity
  <2>2. CASE request[r].model \notin hosted /\ routed' = routed \ {request[r].model} /\ UNCHANGED hosted
    <3>1. IsFiniteSet(routed') /\ Cardinality(routed') \in Nat
          /\ (Cardinality(routed') = Cardinality(routed) \/ Cardinality(routed') = Cardinality(routed) - 1)
      BY <1>n, <2>2, FS_RemoveElement, FS_CardinalityType DEF Capacity
    <3> QED BY <1>5, <1>n, <2>2, <3>1 DEF ShutdownUnlists, Capacity
  <2> QED BY <1>5, <2>1, <2>2 DEF ShutdownUnlists
<1>6. ASSUME NEW r \in Requests,
             \/ \E m \in Models : ShutdownBegins(r, m)
             \/ \E m \in Models, op \in Ops : Enters(r, op, m)
             \/ ShutdownUnloads(r) \/ PerturbUp(r) \/ PerturbDown(r) \/ Infer(r)
             \/ Optimize(r) \/ FuseWeights(r) \/ Refused(r)
      PROVE Capacity'
  BY <1>1, <1>6 DEF ShutdownBegins, Enters, ShutdownUnloads, PerturbUp, PerturbDown, Infer, Answers,
                    Optimize, FuseWeights, Refused
<1> QED BY <1>1, <1>2, <1>3, <1>4, <1>5, <1>6 DEF Next

\* Overlapping starts never take the server over max_instances, because
\* start_dispatch is held from the count of the routes to the insertion
\* (handle_instance_start_distributed).
THEOREM NeverOverCapacity == Spec => []WithinCapacity
<1>1. TypeOK /\ Capacity /\ [Next]_vars => (TypeOK /\ Capacity)' BY NextTyped, NextCapacity
<1>2. Init => TypeOK /\ Capacity BY InitTyped, InitCapacity
<1>3. Capacity => WithinCapacity
  <2> SUFFICES ASSUME Capacity PROVE WithinCapacity OBVIOUS
  <2>1. Cardinality(hosted) \in Nat /\ Cardinality(routed) \in Nat
        /\ Cardinality(hosted) <= Cardinality(routed)
    BY FS_Subset, FS_CardinalityType DEF Capacity
  <2> QED BY <2>1, LimitsAssumption DEF Capacity, WithinCapacity
<1> QED BY <1>1, <1>2, <1>3, PTL DEF Spec

----------------------------------------------------------------------------
\* A request that starts or shuts down an instance.
Opens(r)  == request[r].op \in {"start", "shutdown", "unlist"}

\* Each id is being started or shut down by one request at most, which owns its
\* entries; in between, the registries agree.
Entries ==
  \A r \in Requests : LET m == request[r].model IN
    /\ Opens(r) => m \notin stranded
    /\ request[r].op = "start" => slot[m] = "starting" /\ m \notin hosted /\ m \notin routed
    /\ request[r].op = "shutdown" => slot[m] = "shuttingDown" /\ m \in hosted /\ m \in routed
    /\ request[r].op = "unlist" => slot[m] = "absent" /\ m \in routed
OneOwner ==
  \A r, s \in Requests : Opens(r) /\ Opens(s) /\ request[r].model = request[s].model => r = s
Owned == Entries /\ OneOwner /\ RegistriesAgree

LEMMA InitOwned == Init => Owned
BY DEF Init, Owned, Entries, OneOwner, Opens, RegistriesAgree, Busy, Free

LEMMA NextOwned ==
  ASSUME TypeOK, Owned, [Next]_vars PROVE Owned'
<1> USE DEF Owned, Entries, OneOwner, Opens, RegistriesAgree, Busy, TypeOK, RequestRecords
<1>1. CASE UNCHANGED <<slot, hosted, routed, request, stranded>> BY <1>1
\* A request takes up an id that no other has.
<1>t. ASSUME NEW r \in Requests, NEW m \in Models, NEW op \in {"start", "shutdown"}, NEW n, NEW next,
             ~Opens(r), \A s \in Requests : Opens(s) => request[s].model # m,
             op = "start" => next = "starting" /\ m \notin hosted /\ m \notin routed,
             op = "shutdown" => next = "shuttingDown" /\ m \in hosted /\ m \in routed /\ slot[m] = "running",
             slot' = [slot EXCEPT ![m] = next], UNCHANGED <<hosted, routed, stranded>>,
             request' = [request EXCEPT ![r] = [op |-> op, model |-> m, instance |-> n]]
      PROVE  Owned'
  <2>1. /\ request'[r].op = op /\ request'[r].model = m
        /\ \A s \in Requests : s # r => request'[s] = request[s]
    BY <1>t
  <2>2. /\ slot'[m] = next
        /\ \A x \in Models : x # m => slot'[x] = slot[x]
    BY <1>t
  <2>3. ~Busy(m) BY <1>t
  <2>4. m \notin stranded BY <1>t, <2>3
  <2>5. Entries'
    <3> SUFFICES ASSUME NEW a \in Requests
                 PROVE  LET x == request'[a].model IN
                          /\ Opens(a)' => x \notin stranded
                          /\ request'[a].op = "start" => slot'[x] = "starting" /\ x \notin hosted /\ x \notin routed
                          /\ request'[a].op = "shutdown" => slot'[x] = "shuttingDown" /\ x \in hosted /\ x \in routed
                          /\ request'[a].op = "unlist" => slot'[x] = "absent" /\ x \in routed
      BY <1>t
    <3>1. CASE a = r BY <3>1, <1>t, <2>1, <2>2, <2>4
    <3>2. CASE a # r /\ Opens(a)
      <4>1. request'[a] = request[a] /\ request[a].model # m /\ request[a].model \in Models
        BY <3>2, <1>t, <2>1
      <4> QED BY <3>2, <4>1, <2>2
    <3>3. CASE a # r /\ ~Opens(a) BY <3>3, <2>1
    <3> QED BY <3>1, <3>2, <3>3
  <2>6. OneOwner'
    <3> SUFFICES ASSUME NEW a \in Requests, NEW b \in Requests, Opens(a)', Opens(b)',
                        request'[a].model = request'[b].model
                 PROVE  a = b
      OBVIOUS
    <3>1. \A s \in Requests : s # r /\ Opens(s)' => Opens(s) /\ request'[s].model # m
      BY <1>t, <2>1
    <3>2. CASE a # r /\ b # r BY <3>1, <3>2, <2>1
    <3>3. CASE a = r \/ b = r BY <3>1, <3>3, <2>1
    <3> QED BY <3>2, <3>3
  <2>7. RegistriesAgree'
    <3> SUFFICES ASSUME NEW x \in Models, ~Busy(x)'
                 PROVE  /\ slot'[x] \in {"absent", "running"}
                        /\ (slot'[x] = "running") = (x \in hosted \ stranded)
                        /\ x \in stranded => x \in hosted
                        /\ (x \in hosted) = (x \in routed)
      BY <1>t
    <3>1. x # m BY <2>1
    <3>2. \A s \in Requests : Opens(s) => request[s].model # x BY <1>t, <2>1
    <3> QED BY <3>1, <3>2, <2>2
  <2> QED BY <2>5, <2>6, <2>7
<1>2. ASSUME NEW r \in Requests, NEW m \in Models, StartBegins(r, m) PROVE Owned'
  <2>1. /\ request[r].op = "none" /\ dispatch = NoRequest
        /\ m \notin routed /\ m \notin hosted /\ slot[m] = "absent"
        /\ slot' = [slot EXCEPT ![m] = "starting"] /\ UNCHANGED <<hosted, routed, stranded>>
        /\ request' = [request EXCEPT ![r] = [op |-> "start", model |-> m, instance |-> starts[m] + 1]]
    BY <1>2 DEF StartBegins, Free
  <2>2. \A s \in Requests : request[s].op # "start" BY <2>1, RequestsAssumption
  <2>3. \A s \in Requests : Opens(s) => request[s].model # m BY <2>1, <2>2
  <2> QED BY <1>t, <2>1, <2>3
<1>3. ASSUME NEW r \in Requests, NEW m \in Models, ShutdownBegins(r, m) PROVE Owned'
  <2>1. /\ request[r].op = "none"
        /\ m \in routed /\ m \in hosted /\ slot[m] = "running"
        /\ slot' = [slot EXCEPT ![m] = "shuttingDown"] /\ UNCHANGED <<hosted, routed, stranded>>
        /\ request' = [request EXCEPT ![r] = [op |-> "shutdown", model |-> m, instance |-> starts[m]]]
    BY <1>3 DEF ShutdownBegins, Free
  <2>2. \A s \in Requests : Opens(s) => request[s].model # m BY <2>1
  <2> QED BY <1>t, <2>1, <2>2
<1>4. ASSUME NEW r \in Requests, NEW o \in Oscillations, StartEnds(r, o) PROVE Owned'
  BY <1>4 DEF StartEnds, Done, Free
<1>5. ASSUME NEW r \in Requests, StartFails(r) PROVE Owned'
  BY <1>5 DEF StartFails, Done, Free
<1>6. ASSUME NEW r \in Requests, ShutdownUnloads(r) PROVE Owned'
  <2> DEFINE m == request[r].model
  <2>1. m \in Models /\ request[r].op = "shutdown" BY <1>6, RequestModel DEF ShutdownUnloads
  <2>2. PICK next \in {"unlist", "none"} :
          /\ request'[r].op = next /\ \A s \in Requests : s # r => request'[s] = request[s]
          /\ next = "unlist" => request'[r].model = m /\ UNCHANGED stranded
          /\ next = "none" => stranded' = stranded \cup {m}
    <3>1. CASE request' = [request EXCEPT ![r].op = "unlist"] /\ UNCHANGED stranded
      <4>1. request' = [request EXCEPT ![r] = [request[r] EXCEPT !.op = "unlist"]]
        BY <3>1
      <4>2. [request[r] EXCEPT !.op = "unlist"].op = "unlist"
            /\ [request[r] EXCEPT !.op = "unlist"].model = m
        OBVIOUS
      <4> QED BY <3>1, <4>1, <4>2
    <3>2. CASE Done(r) /\ stranded' = stranded \cup {m} BY <3>2 DEF Done, Free
    <3> QED BY <1>6, <3>1, <3>2 DEF ShutdownUnloads
  <2>3. \A x \in Models : slot'[x] = IF x = m THEN "absent" ELSE slot[x]
    BY <1>6 DEF ShutdownUnloads
  <2>4. UNCHANGED <<hosted, routed>> BY <1>6 DEF ShutdownUnloads
  <2>5. \A s \in Requests : request[s].model \in Models BY RequestModel
  <2>m. slot[m] = "shuttingDown" /\ m \in hosted /\ m \in routed /\ m \notin stranded BY <2>1
  <2>o. \A s \in Requests : s # r /\ Opens(s) => request[s].model # m BY <2>1
  <2>6. Entries'
    <3> SUFFICES ASSUME NEW a \in Requests
                 PROVE  LET x == request'[a].model IN
                          /\ Opens(a)' => x \notin stranded'
                          /\ request'[a].op = "start" => slot'[x] = "starting" /\ x \notin hosted /\ x \notin routed
                          /\ request'[a].op = "shutdown" => slot'[x] = "shuttingDown" /\ x \in hosted /\ x \in routed
                          /\ request'[a].op = "unlist" => slot'[x] = "absent" /\ x \in routed
      BY <2>4
    <3>1. CASE a = r BY <3>1, <2>1, <2>2, <2>3, <2>m
    <3>2. CASE a # r /\ Opens(a)
      <4>1. request'[a] = request[a] /\ request[a].model # m /\ request[a].model \in Models
        BY <3>2, <2>2, <2>5, <2>o
      <4>2. stranded' = stranded \/ stranded' = stranded \cup {m} BY <2>2
      <4> QED BY <3>2, <4>1, <4>2, <2>3
    <3>3. CASE a # r /\ ~Opens(a) BY <3>3, <2>2
    <3> QED BY <3>1, <3>2, <3>3
  <2>7. OneOwner'
    <3> SUFFICES ASSUME NEW a \in Requests, NEW b \in Requests, Opens(a)', Opens(b)',
                        request'[a].model = request'[b].model
                 PROVE  a = b
      OBVIOUS
    <3>1. Opens(a) /\ Opens(b) BY ZenonT(60), <2>1, <2>2
    <3>2. request[a].model = request[b].model BY <2>2
    <3> QED BY <3>1, <3>2
  <2>8. RegistriesAgree'
    <3> SUFFICES ASSUME NEW x \in Models, ~Busy(x)'
                 PROVE  /\ slot'[x] \in {"absent", "running"}
                        /\ (slot'[x] = "running") = (x \in hosted \ stranded')
                        /\ x \in stranded' => x \in hosted
                        /\ (x \in hosted) = (x \in routed)
      BY <2>4
    <3>1. CASE x = m
      <4>1. stranded' = stranded \cup {m} BY <3>1, <2>2
      <4> QED BY <3>1, <4>1, <2>3, <2>m
    <3>2. CASE x # m
      <4>1. \A s \in Requests : Opens(s) => request[s].model # x
        <5> SUFFICES ASSUME NEW s \in Requests, Opens(s), request[s].model = x PROVE FALSE OBVIOUS
        <5>1. s # r BY <3>2
        <5>2. request'[s] = request[s] BY <5>1, <2>2
        <5> QED BY <5>2
      <4>2. x \in stranded' <=> x \in stranded BY <3>2, <2>2
      <4> QED BY <3>2, <4>1, <4>2, <2>3
    <3> QED BY <3>1, <3>2
  <2> QED BY <2>6, <2>7, <2>8
<1>7. ASSUME NEW r \in Requests, ShutdownUnlists(r) PROVE Owned'
  <2> DEFINE m == request[r].model
  <2>1. m \in Models /\ request[r].op = "unlist" BY <1>7, RequestModel DEF ShutdownUnlists
  <2>2. \A s \in Requests : request[s].model \in Models BY RequestModel
  <2>3. CASE hosted' = hosted \ {m} /\ UNCHANGED <<slot, routed, request, stranded>>
    BY <2>1, <2>2, <2>3
  <2>4. CASE m \notin hosted /\ routed' = routed \ {m} /\ Done(r) /\ UNCHANGED <<slot, hosted, stranded>>
    <3>1. \A s \in Requests : request'[s] = IF s = r THEN Free ELSE request[s]
      BY <2>4 DEF Done
    <3>2. Free.op = "none" BY DEF Free
    <3>3. Entries'
      <4> SUFFICES ASSUME NEW a \in Requests
                   PROVE  LET x == request'[a].model IN
                            /\ Opens(a)' => x \notin stranded'
                            /\ request'[a].op = "start" => slot'[x] = "starting" /\ x \notin hosted' /\ x \notin routed'
                            /\ request'[a].op = "shutdown" => slot'[x] = "shuttingDown" /\ x \in hosted' /\ x \in routed'
                            /\ request'[a].op = "unlist" => slot'[x] = "absent" /\ x \in routed'
        OBVIOUS
      <4>1. CASE a = r BY <4>1, <3>1, <3>2
      <4>2. CASE a # r
        <5>1. Opens(a) => request[a].model # m BY <2>1, <4>2
        <5>2. request'[a] = request[a] BY <3>1, <4>2
        <5> QED BY <2>4, <5>1, <5>2
      <4> QED BY <4>1, <4>2
    <3>4. OneOwner'
      <4> SUFFICES ASSUME NEW a \in Requests, NEW b \in Requests, Opens(a)', Opens(b)',
                          request'[a].model = request'[b].model
                   PROVE  a = b
        OBVIOUS
      <4>1. a # r /\ b # r BY <3>1, <3>2
      <4> QED BY <3>1, <4>1
    <3>5. RegistriesAgree'
      <4> SUFFICES ASSUME NEW x \in Models, ~Busy(x)'
                   PROVE  /\ slot[x] \in {"absent", "running"}
                          /\ (slot[x] = "running") = (x \in hosted \ stranded)
                          /\ x \in stranded => x \in hosted
                          /\ (x \in hosted) = (x \in routed')
        BY <2>4
      <4>1. CASE x = m BY <2>1, <2>4, <4>1
      <4>2. CASE x # m
        <5>1. ~Busy(x) BY <2>1, <3>1, <4>2
        <5> QED BY <2>4, <4>2, <5>1
      <4> QED BY <4>1, <4>2
    <3> QED BY <3>3, <3>4, <3>5
  <2> QED BY <1>7, <2>3, <2>4 DEF ShutdownUnlists
\* Every other step leaves the registries alone and frees or takes up a request
\* that opens nothing.
<1>8. ASSUME NEW r \in Requests, NEW q \in RequestRecords, ~Opens(r),
             request' = [request EXCEPT ![r] = q], q.op \notin {"start", "shutdown", "unlist"},
             UNCHANGED <<slot, hosted, routed, stranded>>
      PROVE Owned'
  BY <1>8
<1>9. ASSUME NEW r \in Requests, NEW m \in Models, NEW op \in Ops, Enters(r, op, m) PROVE Owned'
  BY SMTT(40), <1>8, <1>9 DEF Enters, Free, Ops
<1>10. ASSUME NEW r \in Requests, Done(r), ~Opens(r), UNCHANGED <<slot, hosted, routed, stranded>> PROVE Owned'
  BY <1>8, <1>10, FreeIsTyped DEF Done, Free
<1>11. ASSUME NEW r \in Requests, PerturbUp(r) \/ PerturbDown(r) \/ Infer(r) PROVE Owned'
  BY <1>10, <1>11 DEF PerturbUp, PerturbDown, Infer, Answers, Locked
<1>12. ASSUME NEW r \in Requests, Optimize(r) \/ FuseWeights(r) \/ Refused(r) PROVE Owned'
  BY <1>10, <1>12 DEF Optimize, FuseWeights, Refused, Locked, Ops
<1> QED
  BY <1>1, <1>2, <1>3, <1>4, <1>5, <1>6, <1>7, <1>9, <1>11, <1>12 DEF Next

\* The three registries agree about every id that is not just being started or shut
\* down: concurrent starts, shutdowns and failures leak no slot, listing or route,
\* and the one error that leaves an id listed and routed without a slot is that of
\* the engine's unload (handle_start, handle_shutdown).
THEOREM RegistriesStayInAgreement == Spec => []RegistriesAgree
<1>1. TypeOK /\ Owned /\ [Next]_vars => (TypeOK /\ Owned)' BY NextTyped, NextOwned
<1>2. Init => TypeOK /\ Owned BY InitTyped, InitOwned
<1>3. Owned => RegistriesAgree BY DEF Owned
<1> QED BY <1>1, <1>2, <1>3, PTL DEF Spec
----------------------------------------------------------------------------
(* The schedule *)

LEMMA QuotientIsUnique ==
  ASSUME NEW p \in Nat \ {0}, NEW q \in Nat, NEW s \in Nat, NEW r \in 0..(p - 1), NEW t \in 0..(p - 1),
         q * p + r = s * p + t
  PROVE  r = t
<1>1. \A x, y \in Nat : x < y => x * p + p <= y * p
  <2>1. TAKE x, y \in Nat
  <2>2. HAVE x < y
  <2>3. PICK d \in Nat : y = x + 1 + d
    <3>1. y - x - 1 \in Nat /\ y = x + 1 + (y - x - 1)
      BY <2>2
    <3>2. QED
      BY <3>1
  <2>4. y * p = x * p + p + d * p
    BY <2>3
  <2>5. d * p \in Nat
    OBVIOUS
  <2>6. QED
    BY <2>4, <2>5
<1>2. ~(q < s) /\ ~(s < q)
  <2>1. q * p \in Nat /\ s * p \in Nat
    OBVIOUS
  <2>2. QED
    BY <1>1, <2>1
<1>3. QED
  BY <1>2

\* Less than a period further, the remainder has wrapped around at most once.
LEMMA Wraps ==
  ASSUME NEW p \in Nat \ {0}, NEW x \in Nat, NEW k \in 0..p
  PROVE  /\ x % p \in 0..(p - 1)
         /\ (x + k) % p = IF (x % p) + k < p THEN (x % p) + k ELSE (x % p) + k - p
<1>1. \A y \in Nat : y % p \in 0..(p - 1) /\ \E q \in Nat : y = q * p + (y % p)
  <2>1. TAKE y \in Nat
  <2>2. y % p \in 0..(p - 1) /\ y \div p \in Nat /\ y = (y \div p) * p + (y % p)
    OBVIOUS
  <2>3. QED
    BY <2>2
<1>2. x + k \in Nat
  OBVIOUS
<1>3. PICK y \in 0..(p - 1), z \in 0..(p - 1) : y = x % p /\ z = (x + k) % p
  BY <1>1, <1>2
<1>4. PICK q \in Nat : x = q * p + y
  BY <1>1, <1>3
<1>5. PICK s \in Nat : x + k = s * p + z
  BY <1>1, <1>2, <1>3
<1>6. z = IF y + k < p THEN y + k ELSE y + k - p
  <2>1. q * p \in Nat /\ s * p \in Nat /\ q + 1 \in Nat /\ (q + 1) * p = q * p + p
    OBVIOUS
  <2>2. CASE y + k < p
    <3>1. y + k \in 0..(p - 1) /\ q * p + (y + k) = s * p + z
      BY <1>4, <1>5, <2>1, <2>2
    <3>2. QED
      BY <2>2, <3>1, QuotientIsUnique
  <2>3. CASE ~(y + k < p)
    <3>1. y + k - p \in 0..(p - 1) /\ (q * p + p) + (y + k - p) = s * p + z
      BY <1>4, <1>5, <2>1, <2>3
    <3>2. (q + 1) * p + (y + k - p) = s * p + z
      BY <2>1, <3>1
    <3>3. QED
      BY <2>1, <2>3, <3>1, <3>2, QuotientIsUnique
  <2>4. QED
    BY <2>2, <2>3
<1>7. QED
  BY <1>3, <1>6

\* Of p numbers in a row, t have a remainder below t.
LEMMA OneCycle ==
  ASSUME NEW p \in Nat \ {0}, NEW t \in 0..p, NEW x \in Nat
  PROVE  Cardinality({k \in 1..p : (x + (k - 1)) % p < t}) = t
<1> DEFINE S == {k \in 1..p : (x + (k - 1)) % p < t}
           r == x % p
           f == [v \in 1..t |-> IF v > r THEN v - r ELSE v - r + p]
<1>1. /\ r \in 0..(p - 1)
      /\ \A k \in 1..p : (x + (k - 1)) % p = IF r + (k - 1) < p THEN r + (k - 1) ELSE r + (k - 1) - p
  <2>1. \A k \in 1..p : k - 1 \in 0..p
    OBVIOUS
  <2>2. p \in 0..p
    OBVIOUS
  <2>3. QED
    BY <2>1, <2>2, Wraps
<1> HIDE DEF r
<1>2. \A v \in 1..t : f[v] \in 1..p /\ (x + (f[v] - 1)) % p = v - 1
  <2>1. TAKE v \in 1..t
  <2>2. f[v] = IF v > r THEN v - r ELSE v - r + p
    OBVIOUS
  <2> HIDE DEF f
  <2>3. f[v] \in 1..p
    BY <1>1, <2>2
  <2>4. (x + (f[v] - 1)) % p = IF r + (f[v] - 1) < p THEN r + (f[v] - 1) ELSE r + (f[v] - 1) - p
    BY <1>1, <2>3
  <2>5. QED
    BY <1>1, <2>2, <2>3, <2>4
<1>3. f \in [1..t -> S]
  <2>1. DOMAIN f = 1..t /\ f = [v \in 1..t |-> f[v]]
    OBVIOUS
  <2> HIDE DEF f
  <2>2. \A v \in 1..t : f[v] \in S
    BY <1>2
  <2>3. QED
    BY <2>1, <2>2
<1>4. \A k \in S : \E v \in 1..t : f[v] = k
  <2>1. TAKE k \in S
  <2>2. PICK v : v = ((x + (k - 1)) % p) + 1
    OBVIOUS
  <2>3. v - 1 = IF r + (k - 1) < p THEN r + (k - 1) ELSE r + (k - 1) - p
    BY SMTT(40), <1>1, <2>2
  <2>4. v \in 1..t
    BY <1>1, <2>2, <2>3
  <2>5. f[v] = k
    BY <1>1, <2>3, <2>4
  <2>6. QED
    BY <2>4, <2>5
<1>5. \A v, w \in 1..t : f[v] = f[w] => v = w
  <2>1. TAKE v, w \in 1..t
  <2> HIDE DEF f
  <2>2. QED
    BY <1>2
<1>6. ExistsBijection(1..t, S)
  <2> HIDE DEF f, S
  <2>1. QED
    BY <1>3, <1>4, <1>5 DEF ExistsBijection, Bijection, Injection, IsInjective, Surjection
<1>7. QED
  BY <1>6, FS_CountingElements

\* The session s of an instance that made the steps tr: it counts them, its flag
\* is the one of the latest, and each step updated the engine as the schedule
\* said after the one before.
OnSchedule(s, tr) ==
  LET o == s.oscillation IN
  o # NoOscillation =>
    /\ s.steps = Len(tr)
    /\ s.steps > o.warmup_steps => s.frozen = FrozenAtStep(s.steps, o)
    /\ \A i \in 1..Len(tr) : i - 1 > o.warmup_steps => tr[i] = ~FrozenAtStep(i - 1, o)

AllOnSchedule == \A m \in Models : OnSchedule(session[m], trained[m])

LEMMA Schedules ==
  ASSUME NEW s \in Sessions, s.oscillation # NoOscillation
  PROVE  /\ s.oscillation \in FrozenOscillation
         /\ s.oscillation.period_steps \in Nat \ {0} /\ s.oscillation.train_steps \in 0..s.oscillation.period_steps
         /\ s.oscillation.phase_steps \in Nat /\ s.oscillation.warmup_steps \in Nat
<1>1. s.oscillation \in FrozenOscillation
  BY OscillationsAssumption DEF Sessions
<1>2. QED
  BY <1>1 DEF FrozenOscillation

LEMMA NewOnSchedule ==
  ASSUME NEW o \in Oscillations \cup {NoOscillation}
  PROVE  OnSchedule(NewSession(o), <<>>)
<1>1. NewSession(o).oscillation = o /\ NewSession(o).steps = 0 /\ NewSession(o) \in Sessions
  BY NewSessionIsTyped DEF NewSession
<1>2. o # NoOscillation => o.warmup_steps \in Nat
  BY <1>1, Schedules
<1>3. Len(<<>>) = 0
  OBVIOUS
<1>4. QED
  BY <1>1, <1>2, <1>3 DEF OnSchedule

\* An optimize step: the engine was updated unless the flag said frozen.
LEMMA OptimizeOnSchedule ==
  ASSUME NEW s \in Sessions, NEW tr \in Seq(BOOLEAN), OnSchedule(s, tr)
  PROVE  OnSchedule(Oscillated([s EXCEPT !.state = "Idle"]), Append(tr, ~s.frozen))
<1> DEFINE o == s.oscillation
           idle == [s EXCEPT !.state = "Idle"]
           u == Oscillated(idle)
<1>1. SUFFICES ASSUME u.oscillation # NoOscillation
               PROVE  OnSchedule(u, Append(tr, ~s.frozen))
  BY DEF OnSchedule
<1>2. idle.oscillation = o /\ idle.steps = s.steps /\ idle.frozen = s.frozen /\ idle \in Sessions
  BY SessionUpdates DEF Sessions, MassState
<1>3. u.oscillation = o
  BY <1>2 DEF Oscillated, Sessions
<1>4. /\ u.steps = s.steps + 1
      /\ u.frozen = IF s.steps + 1 > o.warmup_steps THEN FrozenAtStep(s.steps + 1, o) ELSE s.frozen
  BY <1>1, <1>2, <1>3 DEF Oscillated, Scheduled, Sessions
<1>5. /\ s.steps = Len(tr) /\ Len(tr) \in Nat
      /\ s.steps > o.warmup_steps => s.frozen = FrozenAtStep(s.steps, o)
      /\ \A i \in 1..Len(tr) : i - 1 > o.warmup_steps => tr[i] = ~FrozenAtStep(i - 1, o)
  BY <1>1, <1>3 DEF OnSchedule
<1> DEFINE new == Append(tr, ~s.frozen)
<1>6. /\ Len(new) = Len(tr) + 1 /\ new[Len(tr) + 1] = ~s.frozen
      /\ \A i \in 1..Len(tr) : new[i] = tr[i]
  <2>1. (~s.frozen) \in BOOLEAN
    OBVIOUS
  <2>2. PICK b \in BOOLEAN : b = ~s.frozen
    BY <2>1
  <2>3. /\ Len(Append(tr, b)) = Len(tr) + 1 /\ Append(tr, b)[Len(tr) + 1] = b
        /\ \A i \in 1..Len(tr) : Append(tr, b)[i] = tr[i]
    OBVIOUS
  <2>4. QED
    BY <2>2, <2>3
<1> HIDE DEF u, new, idle, o
<1>7. \A i \in 1..Len(new) : i - 1 > o.warmup_steps => new[i] = ~FrozenAtStep(i - 1, o)
  <2>1. TAKE i \in 1..Len(new)
  <2>2. HAVE i - 1 > o.warmup_steps
  <2>3. CASE i \in 1..Len(tr)
    BY <1>5, <1>6, <2>2, <2>3
  <2>4. CASE i = Len(tr) + 1
    <3>1. i - 1 = s.steps
      BY <1>5, <2>4
    <3>2. QED
      BY <1>5, <1>6, <2>2, <2>4, <3>1
  <2>5. QED
    BY <1>5, <1>6, <2>3, <2>4
<1>8. u.steps > o.warmup_steps => u.frozen = FrozenAtStep(u.steps, o)
  BY <1>4
<1>9. u.steps = Len(new)
  BY <1>4, <1>5, <1>6
<1>10. OnSchedule(u, new)
  BY <1>3, <1>7, <1>8, <1>9 DEF OnSchedule
<1>11. QED
  BY <1>10 DEF u, new, idle

LEMMA InitOnSchedule == Init => AllOnSchedule
<1>1. \A m \in Models : Init => session[m] = [NewSession(NoOscillation) EXCEPT !.running = FALSE]
  BY DEF Init
<1>2. [NewSession(NoOscillation) EXCEPT !.running = FALSE].oscillation = NoOscillation
  BY DEF NewSession
<1>3. QED
  BY <1>1, <1>2 DEF AllOnSchedule, OnSchedule

LEMMA NextOnSchedule == TypeOK /\ AllOnSchedule /\ [Next]_vars => AllOnSchedule'
<1> SUFFICES ASSUME TypeOK, AllOnSchedule, [Next]_vars PROVE AllOnSchedule'
  OBVIOUS
<1>1. \A r \in Requests : request[r].model \in Models
  BY RequestModel
\* Steps that leave the schedule of each session alone.
<1>2. ASSUME UNCHANGED trained, NEW n \in Models, NEW s,
             s.oscillation = session[n].oscillation, s.steps = session[n].steps, s.frozen = session[n].frozen,
             session' = [session EXCEPT ![n] = s]
      PROVE  AllOnSchedule'
  <2>1. \A m \in Models : session'[m] = IF m = n THEN s ELSE session[m]
    BY <1>2 DEF TypeOK
  <2>2. \A m \in Models : OnSchedule(session'[m], trained[m])
    BY <1>2, <2>1 DEF AllOnSchedule, OnSchedule
  <2>3. QED
    BY <1>2, <2>2 DEF AllOnSchedule
<1>3. CASE UNCHANGED <<session, trained>>
  BY <1>3 DEF AllOnSchedule
<1>4. ASSUME NEW r \in Requests, NEW o \in Oscillations, StartEnds(r, o) PROVE AllOnSchedule'
  <2>1. \A m \in Models : /\ session'[m] = IF m = request[r].model THEN NewSession(o) ELSE session[m]
                          /\ trained'[m] = IF m = request[r].model THEN <<>> ELSE trained[m]
    BY <1>4 DEF StartEnds, TypeOK
  <2>2. OnSchedule(NewSession(o), <<>>)
    BY NewOnSchedule
  <2>3. \A m \in Models : OnSchedule(session'[m], trained'[m])
    BY <2>1, <2>2 DEF AllOnSchedule
  <2>4. QED
    BY <2>3 DEF AllOnSchedule
<1>5. ASSUME NEW r \in Requests, ShutdownUnloads(r) PROVE AllOnSchedule'
  <2>1. PICK n \in Models : n = request[r].model
    BY <1>1
  <2>2. PICK s : s = [session[n] EXCEPT !.running = FALSE]
    OBVIOUS
  <2>3. session[n] \in Sessions
    BY DEF TypeOK
  <2>4. s.oscillation = session[n].oscillation /\ s.steps = session[n].steps /\ s.frozen = session[n].frozen
    BY <2>2, <2>3 DEF Sessions
  <2>5. session' = [session EXCEPT ![n] = s] /\ UNCHANGED trained
    BY <1>5, <2>1, <2>2 DEF ShutdownUnloads
  <2>6. QED
    BY <1>2, <2>4, <2>5
<1>6. ASSUME NEW r \in Requests, NEW state, NEW moved, Answers(r, state, moved) PROVE AllOnSchedule'
  <2>1. PICK n \in Models : n = request[r].model
    BY <1>1
  <2>2. PICK s : s = [session[n] EXCEPT !.state = state]
    OBVIOUS
  <2>3. session[n] \in Sessions
    BY DEF TypeOK
  <2>4. s.oscillation = session[n].oscillation /\ s.steps = session[n].steps /\ s.frozen = session[n].frozen
    BY <2>2, <2>3 DEF Sessions
  <2>5. session' = [session EXCEPT ![n] = s] /\ UNCHANGED trained
    BY <1>6, <2>1, <2>2 DEF Answers
  <2>6. QED
    BY <1>2, <2>4, <2>5
<1>7. ASSUME NEW r \in Requests, Optimize(r) PROVE AllOnSchedule'
  <2>1. PICK n \in Models : n = request[r].model
    BY <1>1
  <2>2. session[n] \in Sessions /\ trained[n] \in Seq(BOOLEAN) /\ OnSchedule(session[n], trained[n])
    BY DEF TypeOK, AllOnSchedule
  <2>3. PICK s : s = Oscillated([session[n] EXCEPT !.state = "Idle"])
    OBVIOUS
  <2>4. PICK tr : tr = Append(trained[n], ~session[n].frozen)
    OBVIOUS
  <2>5. OnSchedule(s, tr)
    BY <2>2, <2>3, <2>4, OptimizeOnSchedule
  <2>6. session' = [session EXCEPT ![n] = s] /\ trained' = [trained EXCEPT ![n] = tr]
    BY <1>7, <2>1, <2>3, <2>4 DEF Optimize
  <2>7. \A m \in Models : /\ session'[m] = IF m = n THEN s ELSE session[m]
                          /\ trained'[m] = IF m = n THEN tr ELSE trained[m]
    BY <2>6 DEF TypeOK
  <2>8. \A m \in Models : OnSchedule(session'[m], trained'[m])
    BY <2>5, <2>7 DEF AllOnSchedule
  <2>9. QED
    BY <2>8 DEF AllOnSchedule
<1>8. CASE \E r \in Requests : PerturbUp(r) \/ PerturbDown(r) \/ Infer(r)
  BY <1>6, <1>8 DEF PerturbUp, PerturbDown, Infer
<1>9. QED
  BY <1>3, <1>4, <1>5, <1>7, <1>8
     DEF Next, StartBegins, ShutdownBegins, Enters, StartFails, ShutdownUnlists, FuseWeights, Refused

LEMMA OnScheduleCycles == TypeOK /\ AllOnSchedule => CyclesTrain
<1> SUFFICES ASSUME TypeOK, AllOnSchedule, NEW m \in Models,
                    session[m].oscillation # NoOscillation,
                    Len(trained[m]) >= session[m].oscillation.warmup_steps + 1 + session[m].oscillation.period_steps
             PROVE  LET o == session[m].oscillation  n == Len(trained[m]) IN
                    Updates(SubSeq(trained[m], n - o.period_steps + 1, n)) = o.train_steps
  BY DEF CyclesTrain
<1>1. PICK o, tr, n : o = session[m].oscillation /\ tr = trained[m] /\ n = Len(tr)
  OBVIOUS
<1>2. tr \in Seq(BOOLEAN) /\ n \in Nat
  BY <1>1 DEF TypeOK
<1>3. PICK p \in Nat \ {0}, t \in Nat, c \in Nat, w \in Nat :
        t <= p /\ p = o.period_steps /\ t = o.train_steps /\ c = o.phase_steps /\ w = o.warmup_steps
  <2>1. session[m] \in Sessions
    BY DEF TypeOK
  <2>2. /\ o.period_steps \in Nat \ {0} /\ o.train_steps \in 0..o.period_steps
        /\ o.phase_steps \in Nat /\ o.warmup_steps \in Nat
    BY <1>1, <2>1, Schedules
  <2>3. o.train_steps \in Nat /\ o.train_steps <= o.period_steps
    BY <2>2
  <2>4. QED
    BY <2>2, <2>3
<1>4. n >= w + 1 + p
  BY <1>1, <1>3
<1>5. \A i \in 1..n : i - 1 > w => tr[i] = ~FrozenAtStep(i - 1, o)
  BY <1>1, <1>3 DEF AllOnSchedule, OnSchedule
<1>6. PICK x \in Nat : x = n - p - w - 1 + (c % p)
  <2>1. (c % p) \in Nat /\ n - p - w - 1 \in Nat
    BY <1>2, <1>4
  <2>2. n - p - w - 1 + (c % p) \in Nat
    BY <2>1
  <2>3. QED
    BY <2>2
<1>7. \A k \in 1..p : tr[n - p + k] = ((x + (k - 1)) % p < t)
  <2>1. TAKE k \in 1..p
  <2>2. PICK i \in 1..n : i = n - p + k
    BY <1>2, <1>4
  <2>3. i - 1 > w
    BY <1>2, <1>4, <2>2
  <2>4. tr[i] = ~FrozenAtStep(i - 1, o)
    BY <1>5, <2>3
  <2>5. (c % p) \in 0..(p - 1)
    OBVIOUS
  <2>6. ((i - 1) - w - 1) + (c % p) = x + (k - 1)
    <3>1. PICK r \in 0..(p - 1) : r = c % p
      BY <2>5
    <3>2. x = n - p - w - 1 + r
      BY <1>6, <3>1
    <3>3. ((i - 1) - w - 1) + r = x + (k - 1)
      BY <1>2, <2>2, <3>2
    <3>4. QED
      BY <3>1, <3>3
  <2>7. FrozenAtStep(i - 1, o) = ((x + (k - 1)) % p >= t)
    BY <1>3, <2>6 DEF FrozenAtStep
  <2>8. PICK z \in Nat : z = (x + (k - 1)) % p
    <3>1. x + (k - 1) \in Nat
      OBVIOUS
    <3>2. (x + (k - 1)) % p \in Nat
      BY <3>1
    <3>3. QED
      BY <3>2
  <2>9. tr[i] = ~(z >= t)
    BY <2>4, <2>7, <2>8
  <2>10. tr[i] = (z < t)
    BY <2>9
  <2>11. QED
    BY <2>2, <2>8, <2>10
<1> DEFINE window == SubSeq(tr, n - p + 1, n)
<1>8. DOMAIN window = 1..p /\ \A k \in 1..p : window[k] = tr[n - p + k]
  <2>1. n - p + 1 \in Int /\ n \in Int /\ n - p + 1 <= n /\ n - (n - p + 1) + 1 = p
    BY <1>2
  <2>2. \A i \in (n - p + 1)..n : tr[i] \in BOOLEAN
    BY <1>1, <1>2, <1>4
  <2>3. /\ window \in Seq(BOOLEAN) /\ Len(window) = p
        /\ \A k \in 1..p : window[k] = tr[n - p + 1 + k - 1]
    BY <2>1, <2>2, SubSeqProperties
  <2>4. \A k \in 1..p : n - p + 1 + k - 1 = n - p + k
    BY <1>2
  <2> HIDE DEF window
  <2>5. QED
    BY <2>3, <2>4
<1>9. {k \in DOMAIN window : window[k]} = {k \in 1..p : (x + (k - 1)) % p < t}
  <2> HIDE DEF window
  <2>1. \A k \in 1..p : window[k] = ((x + (k - 1)) % p < t)
    BY <1>7, <1>8
  <2>2. QED
    BY <1>8, <2>1, Zenon
<1>10. Updates(window) = t
  <2> HIDE DEF window
  <2>1. t \in 0..p
    BY <1>3
  <2>2. Updates(window) = Cardinality({k \in DOMAIN window : window[k]})
    BY Zenon DEF Updates
  <2>3. Cardinality({k \in 1..p : (x + (k - 1)) % p < t}) = t
    BY <2>1, OneCycle
  <2>4. QED
    BY <1>9, <2>2, <2>3, Zenon
<1>11. QED
  BY <1>1, <1>3, <1>10

\* Once the schedule has taken over, any period_steps optimize steps in a row
\* update the engine train_steps times (apply_frozen_oscillation).
THEOREM SchedulesTrain == Spec => []CyclesTrain
<1>1. TypeOK /\ TypeOK' /\ AllOnSchedule /\ [Next]_vars => AllOnSchedule'
  BY NextOnSchedule
<1>2. QED
  BY Typed, InitOnSchedule, <1>1, OnScheduleCycles, PTL DEF Spec

(***************************************************************************)
(* VoidStream: the inductive invariant                                     *)
(***************************************************************************)

\* The transfer: what is committed is whole, and is what was declared.
Stored ==
  /\ DOMAIN artifact = {Transfer}
  /\ artifact[Transfer] = [state |-> State, begin |-> artifact[Transfer].begin, parts |-> Parts]
  /\ State \in {"Missing", "InProgress", "Committed", "Aborted"}
  /\ IF State = "Missing" THEN Parts = <<>> ELSE artifact[Transfer].begin = Begin
  /\ State = "Committed" =>
       Whole(Parts) /\ Void!Assembled(Parts, Begin.expected_chunks) = Content

\* A reader in state s.  A last frame or an inspection that said so was of a
\* transfer that is committed still; chunks that were listed are there until the
\* transfer is aborted; and a reader that was not too early knows a transfer that
\* was begun.
Sees(s) ==
  /\ s.at = "got" => State = "Committed" /\ s.out = Content
  /\ s.at \in {"send", "stage"} /\ s.end = "Committed" => State = "Committed"
  /\ s.at # "idle" /\ ~s.early => State # "Missing"
  /\ s.at = "stage" /\ State # "Aborted" => s.listed \subseteq DOMAIN Parts
  /\ policy = "replay" /\ s.at = "failed" => late \/ State = "Aborted" \/ s.hurt \/ s.early

Record(s) ==
  s = [x \in {"kind", "at", "chunks", "end", "listed", "sent", "out", "early", "hurt"} |-> s[x]]

AllSee == /\ DOMAIN reader = Readers
          /\ \A r \in Readers : Record(reader[r]) /\ Sees(reader[r])

IInv == Stored /\ AllSee

-----------------------------------------------------------------------------
(* The transfer's steps *)

\* A transfer goes on from its state: a committed one stays as it is, and parts
\* are lost only by an abort.
Advances ==
  /\ State = "Committed" => UNCHANGED artifact
  /\ State # "Missing" => State' # "Missing"
  /\ State = "Aborted" => State' = "Aborted"
  /\ State' # "Aborted" => DOMAIN Parts \subseteq DOMAIN Parts'

LEMMA Stands ==
  ASSUME Stored, UNCHANGED artifact
  PROVE  Stored' /\ Advances
  BY DEF Stored, Advances, State, Parts, Whole

LEMMA DeclareAdvances ==
  ASSUME Stored, Void!Declare(Transfer, Begin)
  PROVE  Stored' /\ Advances
<1>1. /\ State = "Missing"
      /\ artifact' = [artifact EXCEPT ![Transfer] =
                        [state |-> "InProgress", begin |-> Begin, parts |-> <<>>]]
  BY DEF Void!Declare, State
<1>2. artifact'[Transfer] = [state |-> "InProgress", begin |-> Begin, parts |-> <<>>]
      /\ DOMAIN artifact' = {Transfer}
  BY <1>1 DEF Stored
<1>3. Stored'
  BY <1>2 DEF Stored, State, Parts
<1>4. State' = "InProgress"
  BY <1>2 DEF State
<1>5. Parts = <<>> /\ Parts' = <<>>
  BY <1>1, <1>2 DEF Stored, Parts
<1>6. QED
  BY <1>1, <1>3, <1>4, <1>5 DEF Advances

LEMMA StageAdvances ==
  ASSUME Stored, NEW i, NEW p, Void!Stage(Transfer, i, p)
  PROVE  Stored' /\ Advances
<1>1. PICK q : q = [k \in DOMAIN Parts \cup {i} |-> IF k = i THEN p ELSE Parts[k]]
  OBVIOUS
<1>2. /\ State = "InProgress"
      /\ artifact' = [artifact EXCEPT ![Transfer].parts = q]
  BY <1>1 DEF Void!Stage, State, Parts
<1>3. artifact'[Transfer] = [state |-> State, begin |-> artifact[Transfer].begin, parts |-> q]
      /\ DOMAIN artifact' = {Transfer}
  BY <1>2 DEF Stored
<1>4. State' = "InProgress" /\ Parts' = q /\ artifact'[Transfer].begin = artifact[Transfer].begin
  BY <1>2, <1>3 DEF State, Parts
<1>5. Stored'
  BY <1>2, <1>3, <1>4 DEF Stored
<1>6. QED
  BY <1>1, <1>2, <1>4, <1>5 DEF Advances

LEMMA PublishAdvances ==
  ASSUME Stored, Void!Publish(Transfer)
  PROVE  Stored' /\ Advances
<1>1. /\ State = "InProgress"
      /\ artifact' = [artifact EXCEPT ![Transfer].state = "Committed"]
      /\ artifact[Transfer].begin = Begin
      /\ DOMAIN Parts = 0 .. (Begin.expected_chunks - 1)
      /\ Void!Assembled(Parts, Begin.expected_chunks) = Content
  BY DEF Void!Publish, State, Parts, Content, Stored
<1>2. artifact'[Transfer] = [state |-> "Committed", begin |-> artifact[Transfer].begin, parts |-> Parts]
      /\ DOMAIN artifact' = {Transfer}
  BY <1>1 DEF Stored
<1>3. State' = "Committed" /\ Parts' = Parts /\ artifact'[Transfer].begin = artifact[Transfer].begin
  BY <1>2 DEF State, Parts
<1>4. Stored'
  BY <1>1, <1>2, <1>3 DEF Stored, Whole
<1>5. QED
  BY <1>1, <1>3, <1>4 DEF Advances

LEMMA DiscardAdvances ==
  ASSUME Stored, Void!Discard(Transfer)
  PROVE  Stored' /\ Advances
<1>1. /\ State = "InProgress"
      /\ artifact' = [artifact EXCEPT ![Transfer].state = "Aborted", ![Transfer].parts = <<>>]
  BY DEF Void!Discard, State
<1>2. artifact'[Transfer] = [state |-> "Aborted", begin |-> artifact[Transfer].begin, parts |-> <<>>]
      /\ DOMAIN artifact' = {Transfer}
  BY <1>1 DEF Stored
<1>3. State' = "Aborted" /\ Parts' = <<>> /\ artifact'[Transfer].begin = artifact[Transfer].begin
  BY <1>2 DEF State, Parts
<1>4. Stored'
  BY <1>1, <1>2, <1>3 DEF Stored
<1>5. QED
  BY <1>1, <1>3, <1>4 DEF Advances

\* What a reader saw stays true while the transfer goes on.
LEMMA SeesStill ==
  ASSUME NEW s, Sees(s), Advances, UNCHANGED policy, late => late'
  PROVE  Sees(s)'
  BY DEF Sees, Advances, State, Parts

LEMMA OthersSee ==
  ASSUME AllSee, Advances, UNCHANGED <<policy, reader>>, late => late'
  PROVE  AllSee'
<1>1. SUFFICES ASSUME NEW r \in Readers PROVE Sees(reader[r])'
  BY DEF AllSee
<1>2. PICK s : s = reader[r]
  OBVIOUS
<1>3. Sees(s)'
  BY <1>2, SeesStill DEF AllSee
<1>4. reader'[r] = s
  BY <1>2
<1>5. QED
  BY <1>3, <1>4 DEF Sees

\* One reader moves.
LEMMA OneReads ==
  ASSUME AllSee, Advances, UNCHANGED <<policy, late>>, NEW r \in Readers, NEW s, Record(s), Sees(s)',
         reader' = [reader EXCEPT ![r] = s]
  PROVE  AllSee'
<1>1. DOMAIN reader' = Readers
  BY DEF AllSee
<1>2. SUFFICES ASSUME NEW x \in Readers PROVE Record(reader'[x]) /\ Sees(reader[x])'
  BY <1>1 DEF AllSee
<1>3. CASE x = r
  <2>1. reader'[x] = s
    BY <1>3 DEF AllSee
  <2>2. QED
    BY <2>1 DEF Sees
<1>4. CASE x # r
  <2>1. PICK w : w = reader[x]
    OBVIOUS
  <2>2. Record(w) /\ Sees(w)'
    BY <2>1, SeesStill DEF AllSee
  <2>3. reader'[x] = w
    BY <1>4, <2>1 DEF AllSee
  <2>4. QED
    BY <2>2, <2>3 DEF Sees
<1>5. QED
  BY <1>3, <1>4
-----------------------------------------------------------------------------
(* The actions *)

LEMMA ProducerKeeps ==
  ASSUME IInv, Produce
  PROVE  IInv'
<1>1. Stored' /\ Advances /\ UNCHANGED <<policy, late, reader>>
  <2>1. CASE Publishes
    BY <2>1, Stands, DiscardAdvances DEF IInv, Publishes, AbortPending, Same
  <2>2. CASE PrepareStream
    BY <2>2, Stands DEF IInv, PrepareStream, Same
  <2>3. CASE StreamOpens
    BY <2>3, DeclareAdvances DEF IInv, StreamOpens, TransferBegin, Same
  <2>4. CASE Commit
    BY <2>4, PublishAdvances DEF IInv, Commit, Same
  <2>5. CASE Abort
    BY <2>5, DiscardAdvances DEF IInv, Abort, Same
  <2>6. CASE TooLate
    BY <2>6, DiscardAdvances DEF IInv, TooLate, Expire, Same
  <2>7. CASE \E i \in 0 .. (MaxParts - 1), p \in Payloads : Chunk(i, p)
    BY <2>7, StageAdvances DEF IInv, Chunk, Same
  <2>8. QED
    BY <2>1, <2>2, <2>3, <2>4, <2>5, <2>6, <2>7 DEF Produce
<1>2. QED
  BY <1>1, OthersSee DEF IInv

LEMMA ClockKeeps ==
  ASSUME IInv, Deadline \/ Cleanup
  PROVE  IInv'
<1>1. Stored' /\ Advances /\ UNCHANGED <<policy, reader>> /\ (late => late')
  <2>1. CASE Deadline
    BY <2>1, Stands DEF IInv, Deadline, Same
  <2>2. CASE Cleanup
    BY <2>2, DiscardAdvances DEF IInv, Cleanup, Expire, Same
  <2>3. QED
    BY <2>1, <2>2
<1>2. QED
  BY <1>1, OthersSee DEF IInv

\* A reader that moves while the transfer stays.
LEMMA OneLooks ==
  ASSUME IInv, UNCHANGED <<policy, late, artifact>>, NEW r \in Readers, NEW s, Record(s), Sees(s),
         reader' = [reader EXCEPT ![r] = s]
  PROVE  IInv'
<1>1. Stored' /\ Advances
  BY Stands DEF IInv
<1>2. Sees(s)'
  BY <1>1, SeesStill
<1>3. QED
  BY <1>1, <1>2, OneReads DEF IInv

\* What is left of a reader when its stream or its download has ended.
LEMMA LeftIs ==
  ASSUME NEW me, NEW at, NEW out
  PROVE  /\ Record(Left(me, at, out))
         /\ Left(me, at, out).at = at /\ Left(me, at, out).out = out
         /\ Left(me, at, out).early = me.early /\ Left(me, at, out).hurt = me.hurt
         /\ Left(me, at, out).end = "Missing" /\ Left(me, at, out).kind = me.kind
  BY DEF Left, IdleReader, Record

\* A reader whose stream ended badly goes on to the record, unless the artifact is
\* ephemeral.
LEMMA LeavesSees ==
  ASSUME IInv, NEW r \in Readers, reader[r].at \notin {"idle", "got", "failed"}
  PROVE  /\ Record(Left(reader[r], Then(reader[r].kind), <<>>))
         /\ Sees(Left(reader[r], Then(reader[r].kind), <<>>))
<1>1. PICK me, s : me = reader[r] /\ s = Left(me, Then(me.kind), <<>>)
  OBVIOUS
<1>2. Then(me.kind) \in {"inspect", "resolve", "failed"} /\ (policy = "replay" => Then(me.kind) # "failed")
  BY DEF Then
<1>3. /\ Record(s) /\ s.at = Then(me.kind) /\ s.early = me.early /\ s.hurt = me.hurt
  BY <1>1, LeftIs
<1>4. ~me.early => State # "Missing"
  BY <1>1 DEF IInv, AllSee, Sees
<1>5. Sees(s)
  BY <1>2, <1>3, <1>4 DEF Sees
<1>6. QED
  BY <1>1, <1>3, <1>5

LEMMA ReceiveKeeps ==
  ASSUME IInv, NEW r \in Readers, NEW k \in ReaderKinds, Receive(r, k)
  PROVE  IInv'
<1>1. PICK me, s : /\ me = reader[r]
                   /\ s = [me EXCEPT !.kind = k, !.early = State = "Missing",
                             !.at = IF k = "flow" THEN "poll"
                                    ELSE IF State = "Missing" THEN Then(k) ELSE "snapshot"]
  OBVIOUS
<1>2. /\ reader' = [reader EXCEPT ![r] = s]
      /\ UNCHANGED <<policy, late, artifact>>
  BY <1>1 DEF Receive, OnlyReads, Same, IInv, AllSee
<1>3. Record(me)
  BY <1>1 DEF IInv, AllSee
<1>4. Record(s)
  BY <1>1, <1>3 DEF Record
<1>5. /\ s.at = IF k = "flow" THEN "poll" ELSE IF State = "Missing" THEN Then(k) ELSE "snapshot"
      /\ s.early = (State = "Missing")
  BY <1>1, <1>3 DEF Record
<1>6. Then(k) \in {"inspect", "resolve", "failed"} /\ (policy = "replay" => Then(k) # "failed")
  BY DEF Then
<1>7. s.at \in {"poll", "snapshot", "inspect", "resolve", "failed"}
      /\ (policy = "replay" => s.at # "failed")
  BY <1>5, <1>6
<1>8. Sees(s)
  BY <1>5, <1>7 DEF Sees
<1>9. QED
  BY <1>2, <1>4, <1>8, OneLooks
\* A reader that goes on to another step and sees what it saw.
LEMMA MovesOn ==
  ASSUME IInv, NEW r \in Readers, NEW at, ReaderTo(r, at), reader[r].at # "idle",
         at \in {"snapshot", "clock", "inspect", "resolve"}
                \/ (at = "failed" /\ late),
         UNCHANGED <<policy, late, artifact>>
  PROVE  IInv'
<1>1. PICK me, s : me = reader[r] /\ s = [me EXCEPT !.at = at]
  OBVIOUS
<1>2. reader' = [reader EXCEPT ![r] = s]
  BY <1>1 DEF ReaderTo, IInv, AllSee
<1>3. Record(me) /\ (~me.early => State # "Missing")
  BY <1>1 DEF IInv, AllSee, Sees
<1>4. Record(s) /\ s.at = at /\ s.early = me.early
  BY <1>1, <1>3 DEF Record
<1>5. Sees(s)
  BY <1>3, <1>4 DEF Sees
<1>6. QED
  BY <1>2, <1>4, <1>5, OneLooks

\* A reader that ends, with what it has or with nothing.
LEMMA EndsWell ==
  ASSUME IInv, NEW r \in Readers, NEW at, NEW out, Ends(r, at, out), reader[r].at # "idle",
         \/ at = "got" /\ State = "Committed" /\ out = Content
         \/ at = "failed" /\ (State = "Aborted" \/ reader[r].early)
         \/ at = "clock",
         UNCHANGED <<policy, late, artifact>>
  PROVE  IInv'
<1>1. PICK s : s = Left(reader[r], at, out)
  OBVIOUS
<1>2. reader' = [reader EXCEPT ![r] = s]
  BY <1>1 DEF Ends, IInv, AllSee
<1>3. ~reader[r].early => State # "Missing"
  BY DEF IInv, AllSee, Sees
<1>4. Record(s) /\ s.at = at /\ s.early = reader[r].early /\ s.out = out
  BY <1>1, LeftIs
<1>5. Sees(s)
  BY <1>3, <1>4 DEF Sees
<1>6. QED
  BY <1>2, <1>4, <1>5, OneLooks

LEMMA LeavesKeeps ==
  ASSUME IInv, NEW r \in Readers, Leaves(r), reader[r].at \notin {"idle", "got", "failed"},
         UNCHANGED <<policy, late, artifact>>
  PROVE  IInv'
<1>1. PICK s : s = Left(reader[r], Then(reader[r].kind), <<>>)
  OBVIOUS
<1>2. reader' = [reader EXCEPT ![r] = s]
  BY <1>1 DEF Leaves, Ends, IInv, AllSee
<1>3. Record(s) /\ Sees(s)
  BY <1>1, LeavesSees
<1>4. QED
  BY <1>2, <1>3, OneLooks

LEMMA SnapshotKeeps ==
  ASSUME IInv, NEW r \in Readers, Snapshot(r)
  PROVE  IInv'
<1>1. PICK me : me = reader[r]
  OBVIOUS
<1>2. Record(me) /\ me.at = "snapshot" /\ (~me.early => State # "Missing") /\ UNCHANGED <<policy, late>>
  BY <1>1 DEF IInv, AllSee, Sees, Snapshot, Same
<1>3. CASE UNCHANGED artifact
           /\ reader' = [reader EXCEPT ![r].at = "send", ![r].end = State,
                            ![r].chunks = IF State = "Aborted" THEN <<>> ELSE Chunks]
  <2>1. PICK s : s = [me EXCEPT !.at = "send", !.end = State,
                                !.chunks = IF State = "Aborted" THEN <<>> ELSE Chunks]
    OBVIOUS
  <2>2. reader' = [reader EXCEPT ![r] = s]
    BY <1>1, <1>3, <2>1 DEF IInv, AllSee
  <2>3. Record(s) /\ s.at = "send" /\ s.end = State /\ s.early = me.early
    BY <1>2, <2>1 DEF Record
  <2>4. Sees(s)
    BY <1>2, <2>3 DEF Sees
  <2>5. QED
    BY <1>2, <1>3, <2>2, <2>3, <2>4, OneLooks
<1>4. CASE Expire
           /\ reader' = [reader EXCEPT ![r].at = "send", ![r].end = "Aborted", ![r].chunks = <<>>]
  <2>1. PICK s : s = [me EXCEPT !.at = "send", !.end = "Aborted", !.chunks = <<>>]
    OBVIOUS
  <2>2. reader' = [reader EXCEPT ![r] = s]
    BY <1>1, <1>4, <2>1 DEF IInv, AllSee
  <2>3. Record(s) /\ s.at = "send" /\ s.end = "Aborted" /\ s.early = me.early
    BY <1>2, <2>1 DEF Record
  <2>4. Sees(s)
    BY <1>2, <2>3 DEF Sees
  <2>5. Stored' /\ Advances
    BY <1>4, DiscardAdvances DEF Expire, IInv
  <2>6. Sees(s)'
    BY <1>2, <2>4, <2>5, SeesStill
  <2>7. QED
    BY <1>2, <2>2, <2>3, <2>5, <2>6, OneReads DEF IInv
<1>5. QED
  BY <1>3, <1>4 DEF Snapshot

LEMMA SendChunkKeeps ==
  ASSUME IInv, NEW r \in Readers, SendChunk(r)
  PROVE  IInv'
<1>1. reader[r].at = "send" /\ UNCHANGED <<policy, late, artifact>>
  BY DEF SendChunk, OnlyReads, Same
<1>2. CASE Leaves(r)
  BY <1>1, <1>2, LeavesKeeps
<1>3. CASE ~Leaves(r)
  <2>1. PICK me, m, o : me = reader[r] /\ m = me.sent + 1 /\ o = me.out \o Parts[me.chunks[m]]
    OBVIOUS
  <2>2. PICK s : s = [me EXCEPT !.sent = m, !.out = o]
    OBVIOUS
  <2>3. reader' = [reader EXCEPT ![r] = s]
    BY <1>3, <2>1, <2>2 DEF SendChunk, IInv, AllSee
  <2>4. Record(me) /\ Sees(me) /\ me.at = "send"
    BY <1>1, <2>1 DEF IInv, AllSee
  <2>5. Record(s) /\ s.at = "send" /\ s.end = me.end /\ s.early = me.early
    BY <2>2, <2>4 DEF Record
  <2>6. Sees(s)
    BY <2>4, <2>5 DEF Sees
  <2>7. QED
    BY <1>1, <2>3, <2>5, <2>6, OneLooks
<1>4. QED
  BY <1>2, <1>3

LEMMA StreamEndsKeeps ==
  ASSUME IInv, NEW r \in Readers, StreamEnds(r)
  PROVE  IInv'
<1>1. reader[r].at = "send" /\ UNCHANGED <<policy, late, artifact>>
  BY DEF StreamEnds, OnlyReads, Same
<1>2. CASE LooksAgain(r)
  BY <1>1, <1>2, MovesOn DEF LooksAgain
<1>3. CASE Leaves(r)
  BY <1>1, <1>3, LeavesKeeps
<1>4. CASE reader[r].end = "Committed" /\ reader[r].out = Content /\ Ends(r, "got", reader[r].out)
  <2>1. State = "Committed"
    BY <1>1, <1>4 DEF IInv, AllSee, Sees
  <2>2. QED
    BY <1>1, <1>4, <2>1, EndsWell
<1>5. QED
  BY <1>2, <1>3, <1>4 DEF StreamEnds

LEMMA ResolveKeeps ==
  ASSUME IInv, NEW r \in Readers, Resolve(r)
  PROVE  IInv'
<1>1. reader[r].at = "resolve" /\ UNCHANGED <<policy, late, artifact>>
  BY DEF Resolve, OnlyReads, Same
<1>2. CASE Resolved
  <2>1. Ends(r, "got", Content) /\ State = "Committed"
    BY <1>2 DEF Resolve, Resolved, IInv, Stored
  <2>2. QED
    BY <1>1, <2>1, EndsWell
<1>3. CASE ~Resolved
  BY <1>1, <1>3, MovesOn DEF Resolve
<1>4. QED
  BY <1>2, <1>3

LEMMA ResolveFailsKeeps ==
  ASSUME IInv, NEW r \in Readers, ResolveFails(r)
  PROVE  IInv'
<1>1. reader[r].at \in {"resolve", "poll", "inspect"} /\ UNCHANGED <<policy, late, artifact>>
  BY DEF ResolveFails, OnlyReads, Same
<1>2. PICK me, a, s : /\ me = reader[r] /\ a = (IF me.kind = "sun" THEN "clock" ELSE "failed")
                      /\ s = [me EXCEPT !.hurt = TRUE, !.at = a]
  OBVIOUS
<1>3. reader' = [reader EXCEPT ![r] = s]
  BY <1>2 DEF ResolveFails, IInv, AllSee
<1>4. Record(me) /\ (~me.early => State # "Missing")
  BY <1>1, <1>2 DEF IInv, AllSee, Sees
<1>5. Record(s) /\ s.at = a /\ s.hurt /\ s.early = me.early
  BY <1>2, <1>4 DEF Record
<1>6. a \in {"clock", "failed"}
  BY <1>2
<1>7. Sees(s)
  BY <1>4, <1>5, <1>6 DEF Sees
<1>8. QED
  BY <1>1, <1>3, <1>5, <1>7, OneLooks

LEMMA ReaderClockKeeps ==
  ASSUME IInv, NEW r \in Readers, Clock(r)
  PROVE  IInv'
<1>1. reader[r].at = "clock" /\ UNCHANGED <<policy, late, artifact>>
  BY DEF Clock, OnlyReads, Same
<1>2. CASE late
  BY <1>1, <1>2, MovesOn DEF Clock
<1>3. CASE ~late
  BY <1>1, <1>3, MovesOn DEF Clock
<1>4. QED
  BY <1>2, <1>3

LEMMA InspectKeeps ==
  ASSUME IInv, NEW r \in Readers, Inspect(r)
  PROVE  IInv'
<1>1. PICK me : me = reader[r]
  OBVIOUS
<1>2. Record(me) /\ me.at = "inspect" /\ (~me.early => State # "Missing") /\ UNCHANGED <<policy, late>>
  BY <1>1 DEF IInv, AllSee, Sees, Inspect, Same
<1>3. CASE UNCHANGED artifact
           /\ reader' = [reader EXCEPT
                 ![r].at = IF State \in {"Missing", "Aborted"} THEN "failed" ELSE "stage",
                 ![r].end = State, ![r].listed = DOMAIN Parts]
  <2>1. PICK a, s : /\ a = (IF State \in {"Missing", "Aborted"} THEN "failed" ELSE "stage")
                    /\ s = [me EXCEPT !.at = a, !.end = State, !.listed = DOMAIN Parts]
    OBVIOUS
  <2>2. reader' = [reader EXCEPT ![r] = s]
    BY <1>1, <1>3, <2>1 DEF IInv, AllSee
  <2>3. Record(s) /\ s.at = a /\ s.end = State /\ s.listed = DOMAIN Parts /\ s.early = me.early
    BY <1>2, <2>1 DEF Record
  <2>4. Sees(s)
    BY <1>2, <2>1, <2>3 DEF Sees
  <2>5. QED
    BY <1>2, <1>3, <2>2, <2>3, <2>4, OneLooks
<1>4. CASE Expire /\ ReaderTo(r, "failed")
  <2>1. PICK s : s = [me EXCEPT !.at = "failed"]
    OBVIOUS
  <2>2. reader' = [reader EXCEPT ![r] = s]
    BY <1>1, <1>4, <2>1 DEF ReaderTo, IInv, AllSee
  <2>3. Record(s) /\ s.at = "failed" /\ s.early = me.early
    BY <1>2, <2>1 DEF Record
  <2>4. late /\ State # "Missing"
    BY <1>4 DEF Expire, Void!Discard, State
  <2>5. Sees(s)
    BY <2>3, <2>4 DEF Sees
  <2>6. Stored' /\ Advances
    BY <1>4, DiscardAdvances DEF Expire, IInv
  <2>7. Sees(s)'
    BY <1>2, <2>5, <2>6, SeesStill
  <2>8. QED
    BY <1>2, <2>2, <2>3, <2>6, <2>7, OneReads DEF IInv
<1>5. QED
  BY <1>3, <1>4 DEF Inspect

LEMMA StageChunksKeeps ==
  ASSUME IInv, NEW r \in Readers, StageChunks(r)
  PROVE  IInv'
<1>1. reader[r].at = "stage" /\ UNCHANGED <<policy, late, artifact>> /\ Sees(reader[r])
  BY DEF StageChunks, OnlyReads, Same, IInv, AllSee
<1>2. CASE ~(reader[r].listed \subseteq DOMAIN Parts)
  <2>1. State = "Aborted" /\ Ends(r, "failed", <<>>)
    BY <1>1, <1>2 DEF Sees, StageChunks
  <2>2. QED
    BY <1>1, <2>1, EndsWell
<1>3. CASE reader[r].listed \subseteq DOMAIN Parts /\ reader[r].end = "Committed"
  <2>1. State = "Committed" /\ Ends(r, "got", Content)
    BY <1>1, <1>3 DEF Sees, StageChunks, IInv, Stored
  <2>2. QED
    BY <1>1, <2>1, EndsWell
<1>4. CASE reader[r].listed \subseteq DOMAIN Parts /\ reader[r].end # "Committed"
  BY <1>1, <1>4, EndsWell DEF StageChunks
<1>5. QED
  BY <1>2, <1>3, <1>4

LEMMA PollKeeps ==
  ASSUME IInv, NEW r \in Readers, Poll(r)
  PROVE  IInv'
<1>1. reader[r].at = "poll" /\ State # "InProgress" /\ UNCHANGED <<policy, late, artifact>>
  BY DEF Poll, OnlyReads, Same
<1>2. CASE Resolved
  <2>1. Ends(r, "got", Content) /\ State = "Committed"
    BY <1>2 DEF Poll, Resolved, IInv, Stored
  <2>2. QED
    BY <1>1, <2>1, EndsWell
<1>3. CASE ~Resolved
  <2>1. State \in {"Missing", "Aborted"}
    BY <1>1, <1>3 DEF IInv, Stored, Resolved
  <2>2. State = "Aborted" \/ reader[r].early
    BY <1>1, <2>1 DEF IInv, AllSee, Sees
  <2>3. QED
    BY <1>1, <1>3, <2>2, EndsWell DEF Poll
<1>4. QED
  BY <1>2, <1>3

LEMMA RestartKeeps ==
  ASSUME IInv, Restart
  PROVE  IInv'
<1>1. UNCHANGED <<policy, late, artifact>>
      /\ reader' = [r \in Readers |->
           IF reader[r].at \in {"snapshot", "send"}
           THEN Left(reader[r], Then(reader[r].kind), <<>>) ELSE reader[r]]
  BY DEF Restart, Same
<1>2. Stored' /\ Advances
  BY <1>1, Stands DEF IInv
<1>3. SUFFICES ASSUME NEW r \in Readers
               PROVE  Record(reader'[r]) /\ Sees(reader[r])'
  BY <1>1, <1>2 DEF IInv, AllSee
<1>4. PICK s : s = reader'[r]
  OBVIOUS
<1>5. Record(s) /\ Sees(s)
  BY <1>1, <1>4, LeavesSees DEF IInv, AllSee
<1>6. Sees(s)'
  BY <1>1, <1>2, <1>5, SeesStill
<1>7. QED
  BY <1>4, <1>5, <1>6 DEF Sees

LEMMA Initially == StreamInit => IInv
<1>1. SUFFICES ASSUME StreamInit PROVE IInv
  OBVIOUS
<1>2. artifact = [t \in {Transfer} |-> Void!Unstarted]
  BY <1>1 DEF StreamInit, Void!Init
<1>3. artifact[Transfer] = Void!Unstarted /\ DOMAIN artifact = {Transfer}
  BY <1>2
<1>4. Stored
  BY <1>3 DEF Stored, State, Parts, Void!Unstarted
<1>5. reader = [r \in Readers |-> IdleReader]
  BY <1>1 DEF StreamInit
<1>6. Record(IdleReader) /\ IdleReader.at = "idle"
  BY DEF Record, IdleReader
<1>7. Sees(IdleReader)
  BY <1>6 DEF Sees
<1>8. AllSee
  BY <1>5, <1>6, <1>7 DEF AllSee
<1>9. QED
  BY <1>4, <1>8 DEF IInv

LEMMA Inductive == StreamSpec => []IInv
<1>1. ASSUME IInv, [StreamNext]_streamVars
      PROVE  IInv'
  <2>1. CASE Produce
    BY <1>1, <2>1, ProducerKeeps
  <2>2. CASE Deadline \/ Cleanup
    BY <1>1, <2>2, ClockKeeps
  <2>3. CASE Restart
    BY <1>1, <2>3, RestartKeeps
  <2>4. CASE \E r \in Readers, k \in ReaderKinds : Receive(r, k)
    BY <1>1, <2>4, ReceiveKeeps
  <2>5. CASE \E r \in Readers : Reads(r) \/ StreamBreaks(r) \/ ResolveFails(r)
    <3>1. PICK r \in Readers : Reads(r) \/ StreamBreaks(r) \/ ResolveFails(r)
      BY <2>5
    <3>2. CASE Reads(r)
      BY <1>1, <3>2, SnapshotKeeps, SendChunkKeeps, StreamEndsKeeps, ResolveKeeps, ReaderClockKeeps,
         InspectKeeps, StageChunksKeeps, PollKeeps DEF Reads
    <3>3. CASE StreamBreaks(r)
      BY <1>1, <3>3, LeavesKeeps DEF StreamBreaks, OnlyReads, Same
    <3>4. CASE ResolveFails(r)
      BY <1>1, <3>4, ResolveFailsKeeps
    <3>5. QED
      BY <3>1, <3>2, <3>3, <3>4
  <2>6. CASE UNCHANGED streamVars
    BY <1>1, <2>6, Stands, OthersSee DEF streamVars, IInv
  <2>7. QED
    BY <1>1, <2>1, <2>2, <2>3, <2>4, <2>5, <2>6 DEF StreamNext
<1>2. QED
  BY <1>1, Initially, PTL DEF StreamSpec

\* Whoever received an artifact, from the stream or from the record, has the declared
\* content of a transfer that is committed (apply_incoming_frame,
\* wait_for_committed_transfer, download_committed_transfer).
THEOREM WhatIsReceivedIsDurable == StreamSpec => []ReceivedIsDurable
<1>1. IInv => ReceivedIsDurable
  BY DEF IInv, AllSee, Sees, ReceivedIsDurable
<1>2. QED
  BY <1>1, Inductive, PTL

\* Broken streams and restarts cost the reader of a replayable artifact nothing: it
\* gives up after the deadline or an abort only, unless a call of its own failed or
\* it came before the transfer had begun (receive_stream, download_artifact).
THEOREM ReadersHoldOut == StreamSpec => []NobodyGivesUpEarly
<1>1. IInv => NobodyGivesUpEarly
  BY DEF IInv, AllSee, Sees, NobodyGivesUpEarly
<1>2. QED
  BY <1>1, Inductive, PTL

=============================================================================
