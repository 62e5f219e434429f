------------------------------ MODULE BeamView ------------------------------
(***************************************************************************)
(* Beam's picture of a running Sun (_black_hole_beam/src/app/mod.rs,       *)
(* live.rs, model.rs and visual.rs).  The window polls the Sun's           *)
(* appearance, then those of the Suns behind its warp cells; it merges the *)
(* expanded ones into one graph, and shows each cell's phase for at least  *)
(* a second before it moves on to the next.  A Sun is named by its         *)
(* journey; a path of cell ids from the top Sun locates a warp cell.       *)
(***************************************************************************)
EXTENDS Integers, Sequences, FiniteSets, FiniteSetsExt, SequencesExt, TLC

CONSTANTS
  NoSun,        \* the warp journey of a cell that is not a warp
  NoPanel,
  Top,          \* the journey that is watched
  Suns,         \* journey -> its cells and edges, once finalized:
                \* [cells: id -> [warp, ports, panel], edges: {<<source, target, port>>}]
  Movers,       \* cells <<journey, id>> whose phase moves
  MaxWarpDepth, MaxPendingPhases,
  MaxSteps      \* phases a cell goes through

\* Cells and ports are numbers, edges are between cells, and a warp leads to
\* a Sun.
ASSUME SunsAssumption ==
  /\ Top \in DOMAIN Suns /\ NoSun \notin DOMAIN Suns
  /\ \A j \in DOMAIN Suns :
       /\ IsFiniteSet(DOMAIN Suns[j].cells) /\ DOMAIN Suns[j].cells \subseteq Nat
       /\ \A i \in DOMAIN Suns[j].cells :
            /\ Suns[j].cells[i].warp \in DOMAIN Suns \cup {NoSun}
            /\ IsFiniteSet(Suns[j].cells[i].ports) /\ Suns[j].cells[i].ports \subseteq Nat
       /\ \A e \in Suns[j].edges : e[1] \in DOMAIN Suns[j].cells /\ e[2] \in DOMAIN Suns[j].cells
ASSUME ViewAssumption == MaxWarpDepth \in Nat \ {0} /\ MaxPendingPhases \in Nat \ {0}

VARIABLES
  phase,        \* <<journey, id>> -> how many phases the cell has begun
  status,       \* journey -> "none", "open" or "final": what it has published
  loading,      \* a fetch is under way
  fetch,        \* that fetch: what it has read, by path, and what is left
  snapshot,     \* the last snapshot taken in, path -> appearance; empty before
  expanded,     \* paths of the warp cells to be merged
  model,        \* the graph shown
  visuals,      \* its cells' colours, by id
  settled,      \* cells whose colour has been shown for a second
  subpanel      \* the cell whose panel is open, or NoPanel

worldVars == <<phase, status>>
fetchVars == <<loading, fetch>>
shownVars == <<model, visuals, settled>>
viewVars == <<worldVars, fetchVars, snapshot, expanded, shownVars, subpanel>>

NothingFetched == [stage |-> "top", todo |-> <<>>, got |-> [p \in {} |-> NoSun]]
EmptyModel == [cells |-> [i \in {} |-> NoSun], edges |-> {}, paths |-> [i \in {} |-> <<>>]]
-----------------------------------------------------------------------------
(* Merging nested Suns into the graph.  A cell keeps its journey, its own  *)
(* id there and the phase it was seen in.                                  *)

Appearance(j) == [sun |-> j, final |-> status[j] = "final",
                  seqs |-> [i \in DOMAIN Suns[j].cells |-> phase[<<j, i>>]]]

OwnCells(app) ==
  [i \in DOMAIN app.seqs |->
     [sun |-> app.sun, local |-> i, ports |-> Suns[app.sun].cells[i].ports,
      warp |-> Suns[app.sun].cells[i].warp, panel |-> Suns[app.sun].cells[i].panel,
      seq |-> app.seqs[i]]]

\* One owner for a port, and edges between cells that are there, into ports
\* of the cell they end at.
Valid(cells, edges) ==
  /\ \A a, b \in DOMAIN cells : a # b => cells[a].ports \cap cells[b].ports = {}
  /\ \A e \in edges : /\ e[1] \in DOMAIN cells /\ e[2] \in DOMAIN cells
                      /\ e[1] # e[2] /\ e[3] \in cells[e[2]].ports

Sinks(j) == DOMAIN Suns[j].cells \ {e[1] : e \in Suns[j].edges}

Rank(x, S) == Cardinality({y \in S : y < x})
SortedIds(S) == [k \in 1..Cardinality(S) |-> CHOOSE x \in S : Rank(x, S) = k - 1]
PortsOf(cells) == UNION {cells[i].ports : i \in DOMAIN cells}
Next1(S) == Max({0} \cup S) + 1

\* What f says, and g where f says nothing.
Over(f, g) == [x \in DOMAIN f \cup DOMAIN g |-> IF x \in DOMAIN f THEN f[x] ELSE g[x]]

\* Mutant of Joined: the paths of nested warp cells start at their own Sun.
JoinedUnprefixed(acc, parent, nested, sink) ==
  LET nextId == Next1(DOMAIN acc.cells)
      Id(i) == nextId + Rank(i, DOMAIN nested.cells)
      Local(id) == CHOOSE i \in DOMAIN nested.cells : Id(i) = id
  IN  [acc EXCEPT !.cells = Over([id \in {Id(i) : i \in DOMAIN nested.cells} |->
                                    [nested.cells[Local(id)] EXCEPT !.ports = {}]], @),
                  !.paths = Over([id \in {Id(i) : i \in DOMAIN nested.paths} |->
                                    nested.paths[Local(id)]], @)]

\* A nested graph joins under fresh ids and ports, in order, with an edge
\* from the boundary cell to the nested sink through a port of its own.
Joined(acc, parent, nested, sink) ==
  LET nextId == Next1(DOMAIN acc.cells)
      nextPort == Next1(PortsOf(acc.cells))
      nestedPorts == PortsOf(nested.cells)
      connector == nextPort + Cardinality(nestedPorts)
      Id(i) == nextId + Rank(i, DOMAIN nested.cells)
      Port(p) == nextPort + Rank(p, nestedPorts)
      Local(id) == CHOOSE i \in DOMAIN nested.cells : Id(i) = id
      newIds == {Id(i) : i \in DOMAIN nested.cells}
      newCells == [id \in newIds |->
                     [nested.cells[Local(id)] EXCEPT
                        !.ports = {Port(p) : p \in @}
                                  \cup (IF Local(id) = sink THEN {connector} ELSE {})]]
      newPaths == [id \in {Id(i) : i \in DOMAIN nested.paths} |->
                     <<parent>> \o nested.paths[Local(id)]]
  IN  [cells |-> Over(newCells, acc.cells),
       edges |-> acc.edges \cup {<<Id(e[1]), Id(e[2]), Port(e[3])>> : e \in nested.edges}
                 \cup {<<parent, Id(sink), connector>>},
       paths |-> Over(newPaths, acc.paths)]

\* A nested Sun that is not finalized, is not well formed or has not one sink
\* is left out.
Merge(acc, parent, app, nested) ==
  IF /\ app.final
     /\ Valid(nested.cells, nested.edges)
     /\ Cardinality(Sinks(app.sun)) = 1
  THEN Joined(acc, parent, nested, CHOOSE s \in Sinks(app.sun) : TRUE)
  ELSE acc

Alone(app) ==
  [cells |-> OwnCells(app), edges |-> Suns[app.sun].edges,
   paths |-> [i \in {k \in DOMAIN app.seqs : Suns[app.sun].cells[k].warp # NoSun} |-> <<i>>]]

\* The cells of the Sun at a path behind which there is a Sun to merge.
Parents(exps, path) == {Last(p) : p \in {q \in DOMAIN exps : q # <<>> /\ Front(q) = path}}

\* The cells of the Sun at a path with the graphs of the Suns behind them,
\* merged in ascending order of the boundary's id.
merge_appearance(exps, path, nested) ==
  LET order == SortedIds(Parents(exps, path))
      merged[k \in 0..Len(order)] ==
        IF k = 0 THEN Alone(exps[path])
        ELSE Merge(merged[k - 1], order[k], exps[Append(path, order[k])], nested[order[k]])
  IN  merged[Len(order)]

is_path_expanded(path, shown) == \A n \in 1..Len(path) : SubSeq(path, 1, n) \in shown

\* The watched Sun, at the empty path, and those behind expanded paths.
expanded_warp_appearances(snap, shown) ==
  [p \in {q \in DOMAIN snap : is_path_expanded(q, shown)} |-> snap[p]]

\* The graph of a snapshot, when the paths of shown are expanded.
from_appearance(snap, shown) ==
  LET exps == expanded_warp_appearances(snap, shown)
      graph[path \in DOMAIN exps] ==
        merge_appearance(exps, path, [i \in Parents(exps, path) |-> graph[Append(path, i)]])
  IN  graph[<<>>]
-----------------------------------------------------------------------------
(* The colours of a cell; the microstep within a phase is left out.        *)

Phases == <<"p1", "p2", "opt">>
StateAt(seq) == IF seq = 0 THEN "idle" ELSE Phases[((seq - 1) % 3) + 1]

\* The phases that follow s, n of them, and where t is among them.
next_phase(s) == CASE s \in {"idle", "opt"} -> 1 [] s = "p1" -> 2 [] s = "p2" -> 3
PhasesAfter(s, n) == [k \in 1..n |-> Phases[((next_phase(s) + k - 2) % 3) + 1]]
StepsTo(s, t) == CHOOSE n \in 1..3 : PhasesAfter(s, 3)[n] = t

\* The last of count phases begun since s, as many as are kept.
recent_phase_steps(s, count) ==
  SubSeq(PhasesAfter(s, count), Max({0, count - MaxPendingPhases}) + 1, count)

phase_path(from, to) ==
  IF from = to THEN <<>>
  ELSE IF to = "idle" THEN <<to>>
  ELSE PhasesAfter(from, StepsTo(from, to))

Fresh == [current |-> "idle", pending |-> <<>>, observed |-> 0]

\* The next phase waiting that is not the one shown.
begin_next_transition(v) ==
  LET other == {k \in DOMAIN v.pending : v.pending[k] # v.current}
  IN  IF other = {} THEN [v EXCEPT !.pending = <<>>]
      ELSE [v EXCEPT !.current = v.pending[Min(other)],
                     !.pending = SubSeq(@, Min(other) + 1, Len(@))]

Latest(v) == IF v.pending = <<>> THEN v.current ELSE Last(v.pending)

\* Mutant of KeepLast: the queue is full, and stays so.
KeepFirst(s) == SubSeq(s, 1, Min({Len(s), MaxPendingPhases}))
KeepLast(s) == SubSeq(s, Max({1, Len(s) - MaxPendingPhases + 1}), Len(s))

\* What a poll saw of the cell; the phases between are shown too.
observe(v, seq, free) ==
  LET recent == recent_phase_steps(Latest(v), seq - v.observed)
      path == IF seq > v.observed /\ Last(recent) = StateAt(seq) THEN recent
              ELSE phase_path(Latest(v), StateAt(seq))
      seen == [v EXCEPT !.observed = seq, !.pending = KeepLast(@ \o path)]
  IN  IF seq < v.observed THEN v
      ELSE IF path = <<>> \/ ~free THEN seen
      ELSE begin_next_transition(seen)

VisualOf(id) == IF id \in DOMAIN visuals THEN visuals[id] ELSE Fresh
Free(id) == id \in settled \/ id \notin DOMAIN visuals

\* Take in a graph: cells that are gone lose their colours, the others
\* observe what it says of them.
Show(m) ==
  LET next == [id \in DOMAIN m.cells |-> observe(VisualOf(id), m.cells[id].seq, Free(id))]
  IN  /\ model' = m
      /\ visuals' = next
      /\ settled' = {id \in DOMAIN m.cells : Free(id) /\ next[id].current = VisualOf(id).current}
-----------------------------------------------------------------------------
ViewInit ==
  /\ phase \in [UNION {{<<j, i>> : i \in DOMAIN Suns[j].cells} : j \in DOMAIN Suns} -> {0, 1}]
  /\ status \in [DOMAIN Suns -> {"none", "open", "final"}]
  /\ loading = TRUE /\ fetch = NothingFetched
  /\ snapshot = NothingFetched.got /\ expanded = {}
  /\ model = EmptyModel /\ visuals = [i \in {} |-> Fresh] /\ settled = {}
  /\ subpanel = NoPanel

(* The watched Suns.                                                       *)

Publish ==
  /\ \E j \in DOMAIN Suns :
       \/ status[j] = "none" /\ status' = [status EXCEPT ![j] = "open"]
       \/ status[j] = "open" /\ status' = [status EXCEPT ![j] = "final"]
  /\ UNCHANGED <<phase, fetchVars, snapshot, expanded, shownVars, subpanel>>

CellMoves ==
  /\ \E m \in Movers :
       /\ status[m[1]] = "final" /\ phase[m] < MaxSteps
       /\ phase' = [phase EXCEPT ![m] = @ + 1]
  /\ UNCHANGED <<status, fetchVars, snapshot, expanded, shownVars, subpanel>>
-----------------------------------------------------------------------------
(* Polling: one fetch at a time, the top Sun first and then the Suns behind *)
(* its warp cells.  A Sun that was found is scanned after the rest of its   *)
(* siblings, the last found first: todo is the cells left of the Sun under  *)
(* scan, and below them those of the Suns on the stack.                     *)

AppearanceTick ==
  /\ ~loading
  /\ loading' = TRUE /\ fetch' = NothingFetched
  /\ UNCHANGED <<worldVars, snapshot, expanded, shownVars, subpanel>>

WarpsOf(j, path) ==
  LET ids == SortedIds({i \in DOMAIN Suns[j].cells : Suns[j].cells[i].warp # NoSun})
  IN  IF Len(path) < MaxWarpDepth THEN [k \in DOMAIN ids |-> Append(path, ids[k])] ELSE <<>>

Push(paths, stack) == IF paths = <<>> THEN stack ELSE <<paths>> \o stack

SunAt(got, path) == Suns[got[Front(path)].sun].cells[Last(path)].warp

fetch_appearance ==
  /\ loading /\ fetch.stage = "top" /\ status[Top] # "none"
  /\ fetch' = [stage |-> "warps", got |-> [p \in {<<>>} |-> Appearance(Top)],
               todo |-> Push(WarpsOf(Top, <<>>), <<>>)]
  /\ UNCHANGED <<worldVars, loading, snapshot, expanded, shownVars, subpanel>>

\* A nested Sun that has published nothing, or cannot be fetched, is only
\* reported; the scan goes on.
fetch_warp_appearances ==
  /\ fetch.stage = "warps" /\ fetch.todo # <<>>
  /\ LET path == Head(Head(fetch.todo))
         left == Tail(Head(fetch.todo))
         stack == Tail(fetch.todo)
         j == SunAt(fetch.got, path)
     IN  \/ fetch' = [fetch EXCEPT !.todo = Push(left, stack)]
         \/ /\ status[j] # "none"
            /\ fetch' = [fetch EXCEPT
                           !.todo = Push(left, Push(WarpsOf(j, path), stack)),
                           !.got = Over([p \in {path} |-> Appearance(j)], @)]
  /\ UNCHANGED <<worldVars, loading, snapshot, expanded, shownVars, subpanel>>

\* The poll failed, or the Sun has published nothing, or is not finalized.
AppearanceMissing ==
  /\ loading
  /\ \/ fetch.stage = "top"
     \/ fetch.stage = "warps" /\ fetch.todo = <<>> /\ ~fetch.got[<<>>].final
  /\ loading' = FALSE /\ fetch' = NothingFetched
  /\ UNCHANGED <<worldVars, snapshot, expanded, shownVars, subpanel>>

AppearanceLoaded ==
  /\ loading /\ fetch.stage = "warps" /\ fetch.todo = <<>> /\ fetch.got[<<>>].final
  /\ loading' = FALSE /\ fetch' = NothingFetched
  /\ LET next == from_appearance(fetch.got, expanded)
     IN  IF Valid(next.cells, next.edges) THEN snapshot' = fetch.got /\ Show(next)
         ELSE UNCHANGED <<snapshot, shownVars>>
  /\ UNCHANGED <<worldVars, expanded, subpanel>>
-----------------------------------------------------------------------------
(* Colours.                                                                *)

\* Every waiting phase has a timer: frames while a colour fades, a slower
\* poll afterwards.
ColorTick ==
  /\ \E id \in DOMAIN visuals : visuals[id].pending # <<>>
  /\ visuals' = [id \in DOMAIN visuals |->
                   IF id \in settled THEN begin_next_transition(visuals[id]) ELSE visuals[id]]
  /\ settled' = {id \in settled : visuals'[id].current = visuals[id].current}
  /\ UNCHANGED <<worldVars, fetchVars, snapshot, expanded, model, subpanel>>

SecondPasses ==
  /\ settled' = DOMAIN visuals
  /\ UNCHANGED <<worldVars, fetchVars, snapshot, expanded, model, visuals, subpanel>>
-----------------------------------------------------------------------------
(* The user.                                                               *)

\* The graph of the latest snapshot once the paths of shown are expanded.
expand(shown) ==
  /\ expanded' = shown
  /\ IF snapshot = NothingFetched.got THEN UNCHANGED shownVars
     ELSE LET next == from_appearance(snapshot, shown)
          IN  IF Valid(next.cells, next.edges) THEN Show(next) ELSE UNCHANGED shownVars

collapse_warp_path(path) == {p \in expanded : ~IsPrefix(path, p)}

CellJourney(id) == <<model.cells[id].sun, model.cells[id].local>>

\* A click opens the cell's panel and expands a warp cell; a second one
\* closes the panel and collapses it.
open_subpanel_for_node ==
  /\ \E id \in DOMAIN model.cells :
       LET closing == subpanel # NoPanel /\ subpanel.id = id /\ subpanel.journey = CellJourney(id)
           warp == model.cells[id].warp # NoSun
       IN  /\ model.cells[id].panel
           /\ subpanel' = IF closing THEN NoPanel ELSE [id |-> id, journey |-> CellJourney(id)]
           /\ IF ~warp THEN UNCHANGED <<expanded, shownVars>>
              ELSE expand(IF closing THEN collapse_warp_path(model.paths[id])
                          ELSE expanded \cup {model.paths[id]})
  /\ UNCHANGED <<worldVars, fetchVars, snapshot>>

ClosingWarp ==
  subpanel # NoPanel /\ subpanel.id \in DOMAIN model.paths

close_subpanel ==
  /\ subpanel # NoPanel
  /\ subpanel' = NoPanel
  /\ IF ClosingWarp THEN expand(collapse_warp_path(model.paths[subpanel.id]))
     ELSE UNCHANGED <<expanded, shownVars>>
  /\ UNCHANGED <<worldVars, fetchVars, snapshot>>

\* Closes the panel and collapses everything.
Escape ==
  /\ subpanel' = NoPanel
  /\ IF ClosingWarp \/ expanded # {} THEN expand({}) ELSE UNCHANGED <<expanded, shownVars>>
  /\ UNCHANGED <<worldVars, fetchVars, snapshot>>
-----------------------------------------------------------------------------
ViewNext ==
  \/ Publish \/ CellMoves
  \/ AppearanceTick \/ fetch_appearance \/ fetch_warp_appearances
  \/ AppearanceMissing \/ AppearanceLoaded
  \/ ColorTick \/ SecondPasses
  \/ open_subpanel_for_node \/ close_subpanel \/ Escape

ViewSpec == ViewInit /\ [][ViewNext]_viewVars
-----------------------------------------------------------------------------
(* Properties.                                                             *)

\* From Sun j, through the Suns behind the cells of a path, to a cell.
Leads(j, path, cell) ==
  \E sun \in [1..Len(path) -> DOMAIN Suns] :
    /\ sun[1] = j
    /\ \A k \in 2..Len(path) : sun[k] = Suns[sun[k - 1]].cells[path[k - 1]].warp
    /\ cell = <<sun[Len(path)], path[Len(path)]>>

\* The graph can always be built from what was polled and what is expanded,
\* however deep Suns are nested in it; the path kept for each of its warp
\* cells leads to that very cell, no two to one, so that a click expands the
\* Sun it was made on; and nothing is expanded below a collapsed cell
\* (model.rs, merge_appearance; app/mod.rs, collapse_warp_path).
PathsLeadHome ==
  /\ \A id \in DOMAIN model.paths :
       /\ Leads(Top, model.paths[id], CellJourney(id))
       /\ \A other \in DOMAIN model.paths : model.paths[other] = model.paths[id] => other = id
  /\ \A path \in expanded : is_path_expanded(path, expanded)
  /\ snapshot # NothingFetched.got =>
       LET m == from_appearance(snapshot, expanded) IN Valid(m.cells, m.edges)

\* The colours a cell of the watched Sun still has to go through end in the
\* phase it was last seen in, though polls skip phases, a repeated poll
\* brings nothing new and only the last few are kept; and it was never seen
\* further than it is (visual.rs, observe).
LatestIsShown ==
  \A id \in DOMAIN visuals \cap DOMAIN Suns[Top].cells :
    /\ Latest(visuals[id]) = StateAt(visuals[id].observed)
    /\ visuals[id].observed <= phase[<<Top, id>>]
=============================================================================
