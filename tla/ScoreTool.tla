------------------------------ MODULE ScoreTool ------------------------------
(***************************************************************************)
(* The score file on disk and the program that makes and edits it          *)
(* (_black_hole_beam/src/bin/black-hole-score.rs): a MIDI performance is   *)
(* converted into it, and each edit reads it, changes the score and writes *)
(* it back over itself.  A command that fails anywhere leaves the file as  *)
(* it was; one that ends the program does too.  A MIDI file is a record of *)
(* its division, its format and its tracks, whose events carry the ticks   *)
(* since the event before.                                                 *)
(***************************************************************************)
EXTENDS ScoreText

CONSTANTS
  Files,        \* score files written by hand that may be on disk at first
  Midis,        \* MIDI files that may be converted
  Micros,       \* microseconds in a second, scaled down
  Semitones, Durations, Shifts, ShiftSeconds, LoopLengths, \* what may be asked
  MutantNotes, MutantSeconds, MutantVelocities,            \* what may be drawn
  MaxMutations, MaxEdits

VARIABLES
  file,         \* the lines on disk
  edits         \* commands that wrote it, up to MaxEdits

toolVars == <<file, edits>>
-----------------------------------------------------------------------------
(* Converting a MIDI performance.                                          *)

DefaultMicrosPerQuarter == Micros \div 2

\* A track's events with their ticks from the start of the file.
TrackEvents(track) ==
  [i \in DOMAIN track |->
     [track[i] EXCEPT !.tick = MapThenSumSet(LAMBDA j : track[j].tick, 1..i)]]

ReadTracks(midi) ==
  IF midi.format = "sequential" THEN <<midi.tracks[1]>> ELSE midi.tracks

\* The notes of the wanted channel, the tempos, the first time signature and
\* the last tick.  A note-on with no velocity is a note-off.
parse_midi(midi, channel) ==
  LET all == FlattenSeq([t \in DOMAIN ReadTracks(midi) |-> TrackEvents(ReadTracks(midi)[t])])
      signatures == SelectSeq(all, LAMBDA e : e.kind = "signature")
  IN  [notes |-> SelectSeq(all, LAMBDA e : e.kind = "note" /\ channel \in {None, e.channel}),
       tempos |-> SelectSeq(all, LAMBDA e : e.kind = "tempo"),
       signature |-> IF signatures = <<>> THEN None ELSE Head(signatures),
       end |-> Max({0} \cup {all[i].tick : i \in DOMAIN all})]

\* Microseconds per quarter in force at a tick: the last tempo set by then.
TempoAt(tempos, tick) ==
  LET set == {i \in DOMAIN tempos : tempos[i].tick <= tick}
      last == CHOOSE i \in set : \A j \in set : \/ tempos[j].tick < tempos[i].tick
                                                \/ tempos[j].tick = tempos[i].tick /\ j <= i
  IN  IF set = {} THEN DefaultMicrosPerQuarter ELSE tempos[last].micros

\* The time of a tick, as a numerator over division * Micros of a second.
TimeAt(tempos, tick) == MapThenSumSet(LAMBDA u : TempoAt(tempos, u), 0..(tick - 1))

SortedByTick(notes) ==
  LET order == SortSeq([i \in DOMAIN notes |-> i], LAMBDA i, j :
                      \/ notes[i].tick < notes[j].tick
                      \/ notes[i].tick = notes[j].tick /\ i < j)
  IN  [k \in DOMAIN order |-> notes[order[k]]]

\* Each key of each channel is held from its note-on to its next note, which
\* closes it; what is held at the end of the file is closed there.
pair_notes(notes, end) ==
  LET Slot(n) == <<n.channel, n.key>>
      Closed(on, tick, vel) ==
        [key |-> on.key, on |-> on.tick, off |-> tick, vel |-> on.vel, offVel |-> vel]
      Step(acc, n) ==
        LET held == {h \in acc.held : Slot(h) = Slot(n)}
        IN  [held |-> (acc.held \ held) \cup (IF n.vel > 0 /\ n.on THEN {n} ELSE {}),
             pairs |-> acc.pairs \o
                         SetToSeq({Closed(h, n.tick, IF n.on /\ n.vel > 0 THEN 0 ELSE n.vel) :
                                     h \in held})]
      read == FoldLeft(Step, [held |-> {}, pairs |-> <<>>], SortedByTick(notes))
  IN  read.pairs \o SetToSeq({Closed(h, end, 0) : h \in read.held})

InitialMicros(tempos) == TempoAt(SelectSeq(tempos, LAMBDA t : t.tick = 0), 0)

\* The exact grid of a file with one tempo, when it is a whole number of
\* ticks per second; otherwise a tick per microsecond.
choose_ticks_per_second(tempos, division) ==
  LET perSecond == division * Micros
  IN  IF /\ \A i \in DOMAIN tempos : tempos[i].tick = 0
         /\ perSecond % InitialMicros(tempos) = 0
      THEN perSecond \div InitialMicros(tempos)
      ELSE Micros

measure_ticks(division, signature) ==
  IF signature = None \/ signature.numerator = 0 \/ signature.denominator = 0 THEN None
  ELSE (division * signature.numerator * 4) \div signature.denominator

\* Ticks of the output grid, to the nearest; a pair keeps at least one.
BuildPair(pair, midi, tempos, tps) ==
  LET Ticks(t) == SecondsToTicks(<<TimeAt(tempos, t), midi.division * Micros>>, tps)
      length == Ticks(pair.off) - Ticks(pair.on)
  IN  [start |-> Ticks(pair.on), dur |-> IF length < 1 THEN 1 ELSE length,
       note |-> pair.key, vel |-> pair.vel,
       rel |-> IF pair.offVel = 0 THEN None ELSE pair.offVel]

\* The scores a conversion may give: none without a note on the keyboard or
\* with a loop that ends before the last note.
build_score(midi, parsed, loop) ==
  LET tps == choose_ticks_per_second(parsed.tempos, midi.division)
      onKeyboard == SelectSeq(pair_notes(parsed.notes, parsed.end),
                              LAMBDA p : p.key \in FIRST_MIDI_NOTE..LAST_MIDI_NOTE)
      doc == [EmptyDoc EXCEPT
                !.tps = tps,
                !.measure = measure_ticks(midi.division, parsed.signature),
                !.loop = IF loop = None THEN None ELSE SecondsToTicks(loop, tps),
                !.pairs = [i \in DOMAIN onKeyboard |->
                             [pair |-> BuildPair(onKeyboard[i], midi, parsed.tempos, tps),
                              comments |-> <<>>]]]
  IN  {d \in {doc} : d.pairs # <<>> /\ ~LoopPrecedesRelease(d)}
-----------------------------------------------------------------------------
(* Random mutations of a score.                                            *)

random_duration_ticks(doc) ==
  {Max({1, SecondsToTicks(s, doc.tps)}) : s \in MutantSeconds}

DrawnPairs(doc, starts, rel) ==
  [start : starts, dur : random_duration_ticks(doc), note : MutantNotes,
   vel : MutantVelocities, rel : {rel}]

delete_random_pair(doc) ==
  {[doc EXCEPT !.pairs = RemoveAt(@, i)] : i \in DOMAIN doc.pairs}

substitute_random_pair(doc) ==
  UNION {{[doc EXCEPT !.pairs[i].pair = p] :
            p \in DrawnPairs(doc, {doc.pairs[i].pair.start}, doc.pairs[i].pair.rel)} :
           i \in DOMAIN doc.pairs}

\* Between a pair and the next one in the file, or the end of the loop.
InsertStarts(doc, i) ==
  LET from == doc.pairs[i].pair.start
      next == IF i < Len(doc.pairs) THEN doc.pairs[i + 1].pair.start
              ELSE effective_loop_ticks(doc)
  IN  from..Max({from, next})

insert_after_random_pair(doc) ==
  UNION {{[doc EXCEPT !.pairs = InsertAt(@, i + 1, [pair |-> p, comments |-> <<>>])] :
            p \in DrawnPairs(doc, InsertStarts(doc, i), None)} :
           i \in DOMAIN doc.pairs}

MutateOnce(doc) ==
  IF doc.pairs = <<>> THEN {doc}
  ELSE delete_random_pair(doc) \cup substitute_random_pair(doc)
       \cup insert_after_random_pair(doc)

mutate(doc, n) ==
  FoldLeft(LAMBDA docs, i : UNION {MutateOnce(d) : d \in docs}, {doc}, [i \in 1..n |-> i])
-----------------------------------------------------------------------------
(* The commands.                                                           *)

write_output(doc) ==
  /\ edits < MaxEdits
  /\ Formats(doc)
  /\ file' = format(doc)
  /\ edits' = edits + 1

\* The score in the file, if it is one.
Input == parse(file)
read_input == edits < MaxEdits /\ Input # None

run_convert ==
  \E midi \in Midis, channel \in {None, 0}, loop \in LoopLengths \cup {None} :
    LET parsed == parse_midi(midi, channel)
    IN  /\ midi.division > 0 /\ InitialMicros(parsed.tempos) > 0
        /\ \E doc \in build_score(midi, parsed, loop) : write_output(doc)

run_pretty == read_input /\ write_output(Input)

run_rescale ==
  /\ read_input /\ Rescales(Input)
  /\ \E secs \in Durations : \E doc \in rescale_to_duration(Input, secs) : write_output(doc)

\* The overflow ends a checked build and wraps in an unchecked one.
Shifted(docs, delta) ==
  UNION {IF checked /\ ShiftUnderflows(Input, delta) THEN {} ELSE docs : checked \in BOOLEAN}

run_shift_ticks ==
  /\ read_input
  /\ \E delta \in Shifts :
       \E doc \in Shifted(shift_ticks(Input, delta), delta) : write_output(doc)

run_shift_secs ==
  /\ read_input
  /\ \E secs \in ShiftSeconds :
       LET delta == secs[1] * SecondsToTicks(<<secs[2], secs[3]>>, Input.tps)
       IN  \E doc \in Shifted(shift_seconds(Input, secs), delta) : write_output(doc)

run_transpose == read_input /\ \E n \in Semitones : write_output(transpose(Input, n))

\* The number of mutations is a share of the number of pairs.
run_mutate ==
  /\ read_input
  /\ \E n \in 0..MaxMutations :
       n <= Len(Input.pairs) /\ \E doc \in mutate(Input, n) : write_output(doc)

Edit == run_pretty \/ run_rescale \/ run_shift_ticks \/ run_shift_secs \/ run_transpose

ToolInit == file \in Files /\ edits = 0

ToolNext == run_convert \/ Edit \/ run_mutate
-----------------------------------------------------------------------------
(* Properties.                                                             *)

\* What Beam makes of a file it is given: a score it can play.
Playable(lines) ==
  LET doc == parse(lines)
  IN  /\ doc # None
      /\ ~LoopPrecedesRelease(doc)
      /\ ticks_to_duration(effective_loop_ticks(doc), doc.tps) > 0

\* A note line that ends with the text of a measure anchor.  It is read as a
\* comment of the note and written as a line of its own, an anchor to the next
\* reader (score_text.rs, parse and format).
AnchorAtLineEnd(lines) ==
  \E i \in DOMAIN lines :
    lines[i].kind = "pair" /\ lines[i].comment # None /\ classify_comment(lines[i].comment) = "anchor"

\* A conversion gives a file Beam plays, and an edit never makes a file Beam
\* played into one it refuses: rounding, clamping and dropping leave every
\* note within the loop (score_text.rs, rescale_to_duration and shift_ticks).
\* A random mutation may, and says so.  In no file written does `check' find
\* notes out of order, nor stale anchors unless the file that was read had one
\* at the end of a note line; written once more, it is in order again.
EditsKeepScoresPlayable ==
  [][edits' > edits =>
       /\ (run_convert \/ (Playable(file) /\ Edit)) => Playable(file')
       /\ "order" \notin diagnostics(parse(file'))
       /\ run_convert \/ ~AnchorAtLineEnd(file) => "anchors" \notin diagnostics(parse(file'))]_toolVars

=============================================================================
