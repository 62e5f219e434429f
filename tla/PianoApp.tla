------------------------------ MODULE PianoApp ------------------------------
(***************************************************************************)
(* Beam's piano: the score it loops over, the keys its user strikes on the *)
(* computer keyboard, with the mouse and on a touch screen, and the audio  *)
(* thread that sounds them (_black_hole_beam/src/app/piano.rs and          *)
(* src/piano/).  The window's handlers run one at a time; they pass        *)
(* commands to the audio thread through a channel, which that thread       *)
(* empties, one by one, before it renders a buffer.  Time is counted in    *)
(* Nanos of a second.                                                      *)
(***************************************************************************)
EXTENDS ScoreTool

CONSTANTS
  ExtraScores,  \* scores a program adds to the file's with its own
  Skips,        \* seconds of introduction that may be skipped
  Keys, Fingers, ScreenNotes, Octaves,  \* what the user may strike and select
  MaxEventsPerTick, MaxPolyphony,
  MaxTime, MaxInputs

ASSUME PianoAssumption == MaxPolyphony \in Nat \ {0} /\ None \notin ScreenNotes

VARIABLES
  beam,         \* "off", "playing" a score, or "silent" without one
  doc,          \* the configured score, before its introduction is skipped
  skip,         \* seconds skipped
  events,       \* the score's events
  loopDuration,
  index, cycle, \* the next event, and the loop it belongs to
  scoreCycle,   \* the latest loop an event was played of
  clock,        \* time since the window opened
  active,       \* input -> [note, voice] of every key held
  voiceSequence,
  octave, shiftLeft, shiftRight,
  mouseNote,    \* the key the mouse was pressed on, or None
  down,         \* what the user really holds down
  queue,        \* commands on their way to the audio thread
  voices        \* strings sounding, oldest first: [voice, released]

playVars == <<doc, skip, events, loopDuration>>
scoreVars == <<index, cycle, scoreCycle>>
keyVars == <<octave, shiftLeft, shiftRight, mouseNote, down>>
audioVars == <<queue, voices>>
struckVars == <<active, voiceSequence, queue>>
pianoVars == <<beam, playVars, scoreVars, clock, struckVars, keyVars, voices>>

NoNotes == [i \in {} |-> None]

PianoInit ==
  /\ beam = "off" /\ doc = None /\ skip = 0 /\ events = <<>> /\ loopDuration = 0
  /\ index = 1 /\ cycle = 0 /\ scoreCycle = 0 /\ clock = 0
  /\ active = NoNotes /\ voiceSequence = 0
  /\ octave = 4 /\ shiftLeft = FALSE /\ shiftRight = FALSE
  /\ mouseNote = None /\ down = {}
  /\ queue = <<>> /\ voices = <<>>
-----------------------------------------------------------------------------
(* Opening the window.                                                     *)

\* The score of the file, alone or merged with one of the program's own.
ConfiguredDocuments ==
  {d \in {parse(file)} \cup {merge_with(parse(file), x) :
                               x \in {e \in ExtraScores : parse(file) # None}} : d # None}

\* The scores left of a document once its introduction is skipped, when
\* they can be played.
loaded_from_document(document, seconds) ==
  {d \in skip_seconds(document, seconds) :
     /\ ~LoopPrecedesRelease(d)
     /\ ticks_to_duration(effective_loop_ticks(d), d.tps) > 0}

\* Without a score that plays the keyboard still does.
OpenSilent ==
  /\ beam = "off"
  /\ \/ parse(file) = None
     \/ \E d \in ConfiguredDocuments, s \in Skips : loaded_from_document(d, s) = {}
  /\ beam' = "silent"
  /\ UNCHANGED <<playVars, scoreVars, clock, struckVars, keyVars, voices, toolVars>>

OpenPlaying ==
  /\ beam = "off"
  /\ \E d \in ConfiguredDocuments, s \in Skips :
       \E loaded \in loaded_from_document(d, s) :
         /\ doc' = d /\ skip' = s
         /\ events' = to_events(loaded)
         /\ loopDuration' = ticks_to_duration(effective_loop_ticks(loaded), loaded.tps)
  /\ beam' = "playing"
  /\ UNCHANGED <<scoreVars, clock, struckVars, keyVars, voices, toolVars>>
-----------------------------------------------------------------------------
(* Striking and releasing: what is struck is a record of the three         *)
(* variables the handlers change.  A key is lit while its note is active   *)
(* and then fades; nothing depends on the fading.                          *)

Struck == [active |-> active, sequence |-> voiceSequence, queue |-> queue]

Becomes(s) ==
  /\ active' = s.active /\ voiceSequence' = s.sequence /\ queue' = s.queue

Attack(v) == [do |-> "attack", voice |-> v]
Release(v) == [do |-> "release", voice |-> v]

\* An input already sounding a note is left alone.
attack_piano_note(s, input, note) ==
  LET v == s.sequence + 1
  IN  IF input \in DOMAIN s.active THEN s
      ELSE [active |-> [i \in DOMAIN s.active \cup {input} |->
                          IF i = input THEN [note |-> note, voice |-> v] ELSE s.active[i]],
            sequence |-> v,
            queue |-> Append(s.queue, Attack(v))]

\* Mutant of release_piano_note: the string named is the last one struck.
release_latest_note(s, input) ==
  IF input \notin DOMAIN s.active THEN s
  ELSE [active |-> [i \in DOMAIN s.active \ {input} |-> s.active[i]],
        sequence |-> s.sequence,
        queue |-> Append(s.queue, Release(s.sequence))]

\* Inputs sounding a note released one after another.
ReleaseAll(s, inputs) ==
  [active |-> [i \in DOMAIN s.active \ ToSet(inputs) |-> s.active[i]],
   sequence |-> s.sequence,
   queue |-> s.queue \o [k \in DOMAIN inputs |-> Release(s.active[inputs[k]].voice)]]

release_piano_note(s, input) ==
  IF input \in DOMAIN s.active THEN ReleaseAll(s, <<input>>) ELSE s
-----------------------------------------------------------------------------
(* The score.                                                              *)

\* Mutant of Scheduled: a loop lasts until its last event.
ScheduledTightly(e, c) == events[Len(events)].time * c + e.time

Scheduled(e, c) == loopDuration * c + e.time

\* The event k events after the next one, and its loop.
Upcoming(k) ==
  LET from == index - 1 + k
  IN  [index |-> (from % Len(events)) + 1, cycle |-> cycle + (from \div Len(events))]

\* How many events are due by now, of at most MaxEventsPerTick.
take_due(now) ==
  LET IsDue(k) == Scheduled(events[Upcoming(k).index], Upcoming(k).cycle) <= now
  IN  {n \in 0..MaxEventsPerTick : /\ \A k \in 0..(n - 1) : IsDue(k)
                                   /\ n < MaxEventsPerTick => ~IsDue(n)}

\* The first event of a newer loop releases what is still held of older ones.
ReleaseStale(s, c) ==
  ReleaseAll(s, SetToSeq({i \in DOMAIN s.active : i[1] = "score" /\ i[2] < c}))

PerformDue(acc, d) ==
  LET event == events[d.index]
      input == <<"score", d.cycle, event.voice>>
      s == IF d.cycle > acc.cycle THEN ReleaseStale(acc.struck, d.cycle) ELSE acc.struck
  IN  [cycle |-> Max({acc.cycle, d.cycle}),
       struck |-> IF event.action = "attack" THEN attack_piano_note(s, input, event.note)
                  ELSE release_piano_note(s, input)]

\* What is struck once the next n events have been performed.
Performed(n) ==
  LET after[k \in 0..n] == IF k = 0 THEN [cycle |-> scoreCycle, struck |-> Struck]
                           ELSE PerformDue(after[k - 1], Upcoming(k - 1))
  IN  after[n]

update_piano_score ==
  /\ beam = "playing"
  /\ \E n \in take_due(clock) :
       /\ index' = Upcoming(n).index /\ cycle' = Upcoming(n).cycle
       /\ scoreCycle' = Performed(n).cycle
       /\ Becomes(Performed(n).struck)
  /\ UNCHANGED <<beam, playVars, clock, keyVars, voices, toolVars>>

TimePasses ==
  /\ beam # "off" /\ clock < MaxTime
  /\ clock' = clock + 1
  /\ UNCHANGED <<beam, playVars, scoreVars, struckVars, keyVars, voices, toolVars>>
-----------------------------------------------------------------------------
(* The user.  MaxInputs bounds the notes struck by hand, and the keys that *)
(* change the octave.                                                      *)

white_key_semitones ==
  [a |-> 0, s |-> 2, d |-> 3, f |-> 5, g |-> 7, h |-> 8, j |-> 10, k |-> 12, l |-> 14,
   semicolon |-> 15, quote |-> 17, enter |-> 19]

black_key_semitones ==
  [q |-> -1, w |-> 1, r |-> 4, t |-> 6, u |-> 9, i |-> 11, o |-> 13, p |-> 16,
   bracket |-> 18, backslash |-> 21]

KeySemitones == white_key_semitones @@ black_key_semitones

\* With both shift keys held the note sounds natural.
piano_shift_offset ==
  (IF shiftRight /\ ~shiftLeft THEN 1 ELSE 0) - (IF shiftLeft /\ ~shiftRight THEN 1 ELSE 0)

\* The key a letter strikes, if there is one.
computer_key_note(key) ==
  {12 * (octave + 1) + 9 + KeySemitones[key] + 12 * piano_shift_offset}
    \cap (FIRST_MIDI_NOTE..LAST_MIDI_NOTE)

MayStrike == beam # "off" /\ voiceSequence < MaxInputs

KeyPressed ==
  /\ MayStrike
  /\ \E key \in Keys :
       LET input == <<"key", key>>
       IN  /\ input \notin down
           /\ down' = down \cup {input}
           /\ IF computer_key_note(key) = {} THEN UNCHANGED struckVars
              ELSE Becomes(attack_piano_note(Struck, input,
                                             CHOOSE n \in computer_key_note(key) : TRUE))
  /\ UNCHANGED <<beam, playVars, scoreVars, clock, octave, shiftLeft, shiftRight,
                 mouseNote, voices, toolVars>>

KeyReleased ==
  /\ \E input \in down :
       /\ input[1] = "key"
       /\ down' = down \ {input}
       /\ Becomes(release_piano_note(Struck, input))
  /\ UNCHANGED <<beam, playVars, scoreVars, clock, octave, shiftLeft, shiftRight,
                 mouseNote, voices, toolVars>>

\* A digit selects the octave; 8 and 9 select nothing.
OctaveSelected ==
  /\ MayStrike
  /\ octave' \in Octaves \cap (0..7)
  /\ UNCHANGED <<beam, playVars, scoreVars, clock, struckVars, shiftLeft, shiftRight,
                 mouseNote, down, voices, toolVars>>

ShiftMoves ==
  /\ MayStrike
  /\ \/ shiftLeft' = ~shiftLeft /\ UNCHANGED shiftRight
     \/ shiftRight' = ~shiftRight /\ UNCHANGED shiftLeft
  /\ UNCHANGED <<beam, playVars, scoreVars, clock, struckVars, octave, mouseNote, down,
                 voices, toolVars>>

\* The mouse strikes the key under it, or nothing beside the keyboard.
MousePressed ==
  /\ MayStrike /\ <<"mouse">> \notin down
  /\ down' = down \cup {<<"mouse">>}
  /\ \/ UNCHANGED <<mouseNote, struckVars>>
     \/ \E note \in ScreenNotes :
          /\ mouseNote' = note
          /\ IF mouseNote # None THEN UNCHANGED struckVars
             ELSE Becomes(attack_piano_note(Struck, <<"mouse">>, note))
  /\ UNCHANGED <<beam, playVars, scoreVars, clock, octave, shiftLeft, shiftRight, voices,
                 toolVars>>

MouseReleased ==
  /\ <<"mouse">> \in down
  /\ down' = down \ {<<"mouse">>}
  /\ mouseNote' = None
  /\ IF mouseNote = None THEN UNCHANGED struckVars
     ELSE Becomes(release_piano_note(Struck, <<"mouse">>))
  /\ UNCHANGED <<beam, playVars, scoreVars, clock, octave, shiftLeft, shiftRight, voices,
                 toolVars>>

FingerPressed ==
  /\ MayStrike
  /\ \E finger \in Fingers, note \in ScreenNotes :
       LET input == <<"touch", finger>>
       IN  /\ input \notin down
           /\ down' = down \cup {input}
           /\ Becomes(attack_piano_note(Struck, input, note))
  /\ UNCHANGED <<beam, playVars, scoreVars, clock, octave, shiftLeft, shiftRight,
                 mouseNote, voices, toolVars>>

\* Lifted, or lost by the screen.
FingerLifted ==
  /\ \E input \in down :
       /\ input[1] = "touch"
       /\ down' = down \ {input}
       /\ Becomes(release_piano_note(Struck, input))
  /\ UNCHANGED <<beam, playVars, scoreVars, clock, octave, shiftLeft, shiftRight,
                 mouseNote, voices, toolVars>>
-----------------------------------------------------------------------------
(* The audio thread.                                                       *)

\* The string to silence when all are in use: the first released, or the
\* oldest of all.
Steal(vs) ==
  LET free == {i \in DOMAIN vs : vs[i].released}
  IN  IF free = {} THEN 1 ELSE Min(free)

Attacked(vs, command) ==
  LET room == IF Len(vs) >= MaxPolyphony THEN RemoveAt(vs, Steal(vs)) ELSE vs
  IN  Append(room, [voice |-> command.voice, released |-> FALSE])

Released(vs, command) ==
  LET of == {i \in DOMAIN vs : vs[i].voice = command.voice}
  IN  IF of = {} THEN vs ELSE [vs EXCEPT ![Min(of)].released = TRUE]

\* The thread takes the commands waiting one by one, and the window may send
\* more meanwhile.
PerformCommand ==
  /\ queue # <<>>
  /\ voices' = IF Head(queue).do = "attack" THEN Attacked(voices, Head(queue))
               ELSE Released(voices, Head(queue))
  /\ queue' = Tail(queue)
  /\ UNCHANGED <<beam, playVars, scoreVars, clock, active, voiceSequence, keyVars, toolVars>>

\* When none is left it renders a buffer, in which a released string may die
\* away, and after a minute (at 48 kHz) one still held; a command sent
\* meanwhile waits, as if it were sent after.
StringFades ==
  /\ queue = <<>>
  /\ \E i \in DOMAIN voices :
       /\ voices[i].released \/ clock > 60 * Nanos
       /\ voices' = RemoveAt(voices, i)
  /\ UNCHANGED <<beam, playVars, scoreVars, clock, struckVars, keyVars, toolVars>>
-----------------------------------------------------------------------------
PianoNext ==
  \/ OpenSilent \/ OpenPlaying \/ update_piano_score \/ TimePasses
  \/ KeyPressed \/ KeyReleased \/ OctaveSelected \/ ShiftMoves
  \/ MousePressed \/ MouseReleased \/ FingerPressed \/ FingerLifted
  \/ PerformCommand \/ StringFades

\* The file is edited by a program of its own.
PianoSpec ==
  /\ ToolInit /\ PianoInit
  /\ [][PianoNext \/ (ToolNext /\ UNCHANGED pianoVars)]_<<toolVars, pianoVars>>
-----------------------------------------------------------------------------
(* Properties.                                                             *)

ActiveVoices == {active[i].voice : i \in DOMAIN active}

ReleaseQueued(v) == \E k \in DOMAIN queue : queue[k].do = "release" /\ queue[k].voice = v

\* No note stays held or sounding once its key is let go: a note struck by hand is
\* one whose key, button or finger is still down, whatever octave or shift
\* key has moved since; an undamped string belongs to a note that is
\* held, or its release is on its way.
NothingStuck ==
  /\ \A i \in DOMAIN active : i[1] # "score" => i \in down
  /\ \A k \in DOMAIN voices :
       ~voices[k].released => voices[k].voice \in ActiveVoices \/ ReleaseQueued(voices[k].voice)

\* What the score sounds at a time, by its own text: the notes that start
\* after the skipped introduction, looped over what the file says is a loop.
SoundingNow(note) ==
  LET kept == {k \in DOMAIN doc.pairs : doc.pairs[k].pair.start >= skip * doc.tps}
      ends == {end_tick(doc.pairs[k].pair) : k \in kept}
      period == (IF doc.loop = None THEN Max(ends) ELSE doc.loop) - skip * doc.tps
      ticks == clock * doc.tps
      Sounds(p, c) ==
        LET from == c * period + p.start - skip * doc.tps
        IN  from * Nanos <= ticks /\ ticks < (from + p.dur) * Nanos
  IN  {at \in kept \X (0..(clock + 1)) :
         doc.pairs[at[1]].pair.note = note /\ Sounds(doc.pairs[at[1]].pair, at[2])}

ActiveScore(note) == {i \in DOMAIN active : i[1] = "score" /\ active[i].note = note}

Overdue == Scheduled(events[index], cycle) <= clock

\* Whatever delays the window, once it has caught up with the clock the
\* score's notes held are those its text says sound at that time, in every
\* loop, after a skipped introduction and for scores merged into one.
ScoreFollowsClock ==
  (beam = "playing" /\ ~Overdue) =>
    \A note \in {p.note : p \in Pairs(doc)} :
      Cardinality(ActiveScore(note)) = Cardinality(SoundingNow(note))
=============================================================================
