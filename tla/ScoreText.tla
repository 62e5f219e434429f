------------------------------ MODULE ScoreText ------------------------------
(***************************************************************************)
(* The `bhs-score-v1' text format of piano scores: what a file of lines    *)
(* parses to, what a score is written back as, and every edit of a score   *)
(* (_black_hole_beam/src/piano/score_text.rs).  Pure operators; a line is  *)
(* a record, a comment a tuple whose first member says what the            *)
(* classifier makes of its text, and ticks are natural numbers.            *)
(***************************************************************************)
EXTENDS Integers, Sequences, FiniteSetsExt, SequencesExt, TLC

CONSTANTS
  None,       \* an absent option
  Nanos,      \* the finest fraction of a second a duration holds
  U64         \* how many values a tick counter has

ASSUME ScoreTextAssumption == Nanos \in Nat \ {0} /\ U64 \in Nat \ {0}

FIRST_MIDI_NOTE == 21
LAST_MIDI_NOTE == 108
MAX_VELOCITY == 127

end_tick(p) == p.start + p.dur
Pairs(doc) == {doc.pairs[i].pair : i \in DOMAIN doc.pairs}
-----------------------------------------------------------------------------
(* Notes, and the two roundings.                                           *)

PITCH_CLASS_SPELLINGS ==
  << <<"C">>, <<"C#", "Db">>, <<"D">>, <<"Eb", "D#">>, <<"E">>, <<"F">>,
     <<"F#", "Gb">>, <<"G">>, <<"Ab">>, <<"A">>, <<"Bb", "A#">>, <<"B">> >>

note_name(midi) ==
  <<PITCH_CLASS_SPELLINGS[(midi % 12) + 1][1], (midi \div 12) - 1>>

\* A note is written <<number>> or <<spelling, octave>>; the result is
\* the set of keys it may name, empty when the text is refused.
parse_note(text) ==
  LET keys == IF Len(text) = 1 THEN {text[1]}
              ELSE {text[2] * 12 + (pc - 1) + 12 :
                      pc \in {k \in 1..12 : text[2] \in 0..8
                                /\ text[1] \in ToSet(PITCH_CLASS_SPELLINGS[k])}}
  IN  keys \cap (FIRST_MIDI_NOTE..LAST_MIDI_NOTE)

\* To the nearest tick, a half upwards.
rescale_ticks(ticks, from, to) == (ticks * to + from \div 2) \div from

\* A length in Nanos of a second, rounded down.
ticks_to_duration(ticks, tps) == (ticks * Nanos) \div tps

\* Seconds given as a fraction, in ticks of a grid, to the nearest.
SecondsToTicks(secs, tps) == (2 * secs[1] * tps + secs[2]) \div (2 * secs[2])
-----------------------------------------------------------------------------
(* Reading a file.                                                         *)

classify_comment(comment) ==
  CASE comment[1] \in {"title", "stats", "legend"} -> "structural"
    [] comment[1] = "anchor" -> "anchor"
    [] OTHER -> "user"

EmptyDoc == [tps |-> None, measure |-> None, loop |-> None, pairs |-> <<>>,
             leading |-> <<>>, trailing |-> <<>>, anchors |-> <<>>]

parse_pair_fields(line) ==
  {[start |-> line.start, dur |-> line.dur, note |-> n, vel |-> line.vel,
    rel |-> line.rel] :
     n \in {k \in parse_note(line.note) : /\ line.dur > 0
                                          /\ line.vel <= MAX_VELOCITY
                                          /\ line.rel = None \/ line.rel <= MAX_VELOCITY}}

ParseComment(doc, comment) ==
  CASE classify_comment(comment) = "structural" -> doc
    [] classify_comment(comment) = "anchor" ->
         [doc EXCEPT !.anchors = Append(@, <<comment[2], comment[3]>>)]
    [] OTHER -> IF doc.pairs = <<>> THEN [doc EXCEPT !.leading = Append(@, comment)]
                                    ELSE [doc EXCEPT !.trailing = Append(@, comment)]

\* A pair takes the comments waiting for it and its own at the line's end.
\* While the file is read, `trailing' holds the comments still waiting.
ParsePair(doc, line) ==
  LET own == IF line.comment = None THEN <<>> ELSE <<line.comment>>
  IN  [doc EXCEPT !.pairs = Append(@, [pair |-> CHOOSE p \in parse_pair_fields(line) : TRUE,
                                       comments |-> doc.trailing \o own]),
                  !.trailing = <<>>]

ParseLine(acc, line) ==
  LET doc == acc.doc
      Refused == [acc EXCEPT !.ok = FALSE]
      Took(next) == [ok |-> TRUE, saw |-> TRUE, doc |-> next]
  IN  IF ~acc.ok THEN acc ELSE
      CASE line.kind = "comment" -> [acc EXCEPT !.doc = ParseComment(doc, line.text)]
        [] line.kind = "format" ->
             IF acc.saw \/ line.name # "bhs-score-v1" THEN Refused ELSE Took(doc)
        [] line.kind \in {"tps", "measure", "loop"} ->
             IF doc.pairs # <<>> \/ line.value = None THEN Refused
             ELSE Took([doc EXCEPT ![line.kind] = line.value])
        [] line.kind = "pair" ->
             IF doc.tps = None \/ parse_pair_fields(line) = {} THEN Refused
             ELSE Took(ParsePair(doc, line))

ReadAll(lines) ==
  FoldLeft(ParseLine, [ok |-> TRUE, saw |-> FALSE, doc |-> EmptyDoc], lines)

\* The score a file holds, or None.
parse(lines) ==
  LET read == ReadAll(lines)
  IN  IF read.ok /\ read.doc.tps \notin {None, 0} /\ read.doc.pairs # <<>>
      THEN read.doc ELSE None
-----------------------------------------------------------------------------
(* Order, length, and the events of a performance.                         *)

\* Start, then note, then velocity.
CanonicalBefore(p, q) ==
  \/ p.start < q.start
  \/ p.start = q.start /\ p.note < q.note
  \/ p.start = q.start /\ p.note = q.note /\ p.vel < q.vel

\* The positions of the pairs in canonical order; the sort is stable.
CanonicalIndices(doc) ==
  SortSeq([i \in DOMAIN doc.pairs |-> i],
          LAMBDA i, j : \/ CanonicalBefore(doc.pairs[i].pair, doc.pairs[j].pair)
                        \/ /\ ~CanonicalBefore(doc.pairs[j].pair, doc.pairs[i].pair)
                           /\ i < j)

sorted_pairs_with_comments(doc) ==
  LET order == CanonicalIndices(doc)
  IN  [k \in DOMAIN order |-> doc.pairs[order[k]]]

last_release_tick(doc) ==
  CHOOSE t \in {end_tick(p) : p \in Pairs(doc)} : \A p \in Pairs(doc) : end_tick(p) <= t

effective_loop_ticks(doc) == IF doc.loop # None THEN doc.loop ELSE last_release_tick(doc)

LoopPrecedesRelease(doc) == doc.loop # None /\ doc.loop < last_release_tick(doc)

action_rank(e) == IF e.action = "attack" THEN 0 ELSE 1

EventBefore(a, b) ==
  \/ a.time < b.time
  \/ a.time = b.time /\ action_rank(a) < action_rank(b)
  \/ a.time = b.time /\ action_rank(a) = action_rank(b) /\ a.note < b.note

\* An attack and a release for each pair, voices numbered in canonical
\* order, in the order they are performed; the sort is stable here too.
to_events(doc) ==
  LET sorted == sorted_pairs_with_comments(doc)
      Event(k) ==
        LET v == (k + 1) \div 2
            p == sorted[v].pair
        IN  IF k % 2 = 1
            THEN [time |-> ticks_to_duration(p.start, doc.tps), voice |-> v,
                  note |-> p.note, action |-> "attack", vel |-> p.vel]
            ELSE [time |-> ticks_to_duration(end_tick(p), doc.tps), voice |-> v,
                  note |-> p.note, action |-> "release",
                  vel |-> IF p.rel = None THEN p.vel ELSE p.rel]
      order == SortSeq([k \in 1..(2 * Len(sorted)) |-> k],
                       LAMBDA i, j : \/ EventBefore(Event(i), Event(j))
                                     \/ ~EventBefore(Event(j), Event(i)) /\ i < j)
  IN  [k \in DOMAIN order |-> Event(order[k])]
-----------------------------------------------------------------------------
(* Writing a score.                                                        *)

\* A score without pairs, or with measures of zero ticks, ends the program.
Formats(doc) == doc.pairs # <<>> /\ doc.measure # 0

CommentLines(comments) == [i \in DOMAIN comments |-> [kind |-> "comment", text |-> comments[i]]]

HeaderLine(key, value) ==
  IF value = None THEN <<>> ELSE <<[kind |-> key, value |-> value]>>

MeasureOf(doc, p) == p.start \div doc.measure + 1

\* The anchors of the measures in which a pair starts, in order.
ExpectedAnchors(doc, sorted) ==
  LET Opens(k) == /\ doc.measure # None
                  /\ k = 1 \/ MeasureOf(doc, sorted[k].pair) # MeasureOf(doc, sorted[k - 1].pair)
      AnchorOf(k) == LET m == MeasureOf(doc, sorted[k].pair)
                     IN  <<m, (m - 1) * doc.measure>>
  IN  [k \in DOMAIN sorted |-> IF Opens(k) THEN <<AnchorOf(k)>> ELSE <<>>]

PairLines(doc) ==
  LET sorted == sorted_pairs_with_comments(doc)
      anchors == ExpectedAnchors(doc, sorted)
      Lines(k) ==
        LET p == sorted[k].pair
        IN  CommentLines([i \in DOMAIN anchors[k] |-> <<"anchor">> \o anchors[k][i]])
            \o CommentLines(sorted[k].comments)
            \o <<[kind |-> "pair", start |-> p.start, dur |-> p.dur,
                  note |-> note_name(p.note), vel |-> p.vel, rel |-> p.rel,
                  comment |-> None]>>
  IN  FlattenSeq([k \in DOMAIN sorted |-> Lines(k)])

format(doc) ==
  CommentLines(doc.leading)
  \o CommentLines(<< <<"title">>, <<"stats">> >>)
  \o <<[kind |-> "format", name |-> "bhs-score-v1"]>>
  \o HeaderLine("tps", doc.tps) \o HeaderLine("measure", doc.measure)
  \o HeaderLine("loop", effective_loop_ticks(doc))
  \o CommentLines(<< <<"legend">> >>)
  \o PairLines(doc)
  \o CommentLines(doc.trailing)

\* What `check' finds: order and anchors are warnings, the loop an error.
diagnostics(doc) ==
  LET sorted == sorted_pairs_with_comments(doc)
      pairsOf(s) == [k \in DOMAIN s |-> s[k].pair]
  IN  {f \in {"duplicate", "order", "anchors", "loop"} :
         CASE f = "duplicate" -> \E k \in 2..Len(sorted) : sorted[k].pair = sorted[k - 1].pair
           [] f = "order" -> pairsOf(doc.pairs) # pairsOf(sorted)
           [] f = "anchors" -> /\ doc.measure # None
                               /\ doc.anchors # FlattenSeq(ExpectedAnchors(doc, sorted))
           [] f = "loop" -> LoopPrecedesRelease(doc)}
-----------------------------------------------------------------------------
(* The edits.  Each returns the set of scores it may leave, empty when it  *)
(* returns an error.                                                       *)

ClampNote(n) == IF n < FIRST_MIDI_NOTE THEN FIRST_MIDI_NOTE
                ELSE IF n > LAST_MIDI_NOTE THEN LAST_MIDI_NOTE ELSE n

\* The score with other notes in its pairs.
WithPairs(doc, pairs) ==
  [doc EXCEPT !.pairs = [i \in DOMAIN @ |-> [@[i] EXCEPT !.pair = pairs[i]]]]

PairIn(doc, i) == doc.pairs[i].pair

transpose(doc, semitones) ==
  WithPairs(doc, [i \in DOMAIN doc.pairs |->
                   [PairIn(doc, i) EXCEPT !.note = ClampNote(@ + semitones)]])

KeptFrom(doc, tick) ==
  [doc EXCEPT !.pairs = SelectSeq(@, LAMBDA a : a.pair.start >= tick)]

ShiftedBack(doc, tick) ==
  LET kept == KeptFrom(doc, tick)
  IN  WithPairs(kept, [i \in DOMAIN kept.pairs |-> [PairIn(kept, i) EXCEPT !.start = @ - tick]])

skip_seconds(doc, seconds) ==
  LET skip == seconds * doc.tps
      rest == ShiftedBack(doc, skip)
  IN  IF skip = 0 THEN {doc}
      ELSE IF rest.pairs = <<>> THEN {}
      ELSE {[rest EXCEPT !.loop = IF @ = None THEN None
                                  ELSE IF @ < skip THEN 0 ELSE @ - skip]}

\* Mutant of RescalePair: the tail may round past the loop's end.
RescalePairUnbounded(p, old, new) ==
  [p EXCEPT !.start = rescale_ticks(@, old, new), !.dur = Max({1, rescale_ticks(@, old, new)})]

\* A note whose tail rounds past the new loop end is pulled back into it.
RescalePair(p, old, new) ==
  LET start == rescale_ticks(p.start, old, new)
      scaled == rescale_ticks(p.dur, old, new)
      dur == IF scaled = 0 THEN 1 ELSE scaled
  IN  IF start + dur > new THEN [p EXCEPT !.start = new - 1, !.dur = 1]
      ELSE [p EXCEPT !.start = start, !.dur = dur]

\* With a loop of zero ticks the rescaling divides by zero.
Rescales(doc) == effective_loop_ticks(doc) # 0

rescale_to_duration(doc, secs) ==
  LET old == effective_loop_ticks(doc)
      new == SecondsToTicks(secs, doc.tps)
      Rescaled == WithPairs(doc, [i \in DOMAIN doc.pairs |-> RescalePair(PairIn(doc, i), old, new)])
      measure == IF doc.measure = None THEN None
                 ELSE LET m == rescale_ticks(doc.measure, old, new)
                      IN  IF m = 0 THEN 1 ELSE m
  IN  IF new < 1 THEN {} ELSE {[Rescaled EXCEPT !.measure = measure, !.loop = new]}

\* Earlier than a loop that is itself shorter than the shift, the loop's
\* length wraps in a build without overflow checks; one with them ends there.
ShiftUnderflows(doc, delta) == delta < 0 /\ doc.loop # None /\ doc.loop < -delta

shift_ticks(doc, delta) ==
  LET later == WithPairs(doc, [i \in DOMAIN doc.pairs |-> [PairIn(doc, i) EXCEPT !.start = @ + delta]])
      earlier == ShiftedBack(doc, -delta)
      Later(loop) == IF loop = None THEN None
                     ELSE IF loop + delta >= U64 THEN U64 - 1 ELSE loop + delta
      Earlier(loop) == IF loop = None THEN None ELSE (loop + delta) % U64
  IN  CASE delta = 0 -> {doc}
        [] delta > 0 -> {[later EXCEPT !.loop = Later(@)]}
        [] OTHER -> IF earlier.pairs = <<>> THEN {} ELSE {[earlier EXCEPT !.loop = Earlier(@)]}

shift_seconds(doc, secs) ==
  LET size == SecondsToTicks(<<secs[2], secs[3]>>, doc.tps)
  IN  shift_ticks(doc, secs[1] * size)

\* The other score on this one's grid, both sounding at once.
merge_with(doc, other) ==
  LET Onto(t) == rescale_ticks(t, other.tps, doc.tps)
      OntoPair(p) == [p EXCEPT !.start = Onto(@), !.dur = IF Onto(@) = 0 THEN 1 ELSE Onto(@)]
      mine == effective_loop_ticks(doc)
      theirs == Onto(effective_loop_ticks(other))
  IN  [doc EXCEPT !.pairs = @ \o WithPairs(other, [i \in DOMAIN other.pairs |-> OntoPair(PairIn(other, i))]).pairs,
                  !.loop = IF mine < theirs THEN theirs ELSE mine]
=============================================================================
