------------------------------- MODULE MCBeam -------------------------------
(* Beam: the piano with the score file it plays, and the view of a running *)
(* Sun.  The two share nothing but the window, so each behaviour is about  *)
(* one of them, and the other stays as it started.                         *)
EXTENDS PianoApp, BeamView
VARIABLE scene

Comment(c) == [kind |-> "comment", text |-> c]
Note(start, dur, note, vel, rel, comment) ==
  [kind |-> "pair", start |-> start, dur |-> dur, note |-> note, vel |-> vel, rel |-> rel,
   comment |-> comment]

\* Written by hand: comments everywhere, notes out of order, no loop.
ByHand ==
  << Comment(<<"mine", 1>>), [kind |-> "tps", value |-> 2], [kind |-> "measure", value |-> 2],
     Comment(<<"anchor", 1, 0>>),
     Note(2, 3, <<"Db", 4>>, 80, None, <<"mine", 2>>),
     Comment(<<"mine", 3>>),
     Note(0, 3, <<"A", 0>>, 127, 30, <<"legend">>),
     Comment(<<"mine", 4>>) >>

\* A loop with a rest at its end.
Looping ==
  << [kind |-> "format", name |-> "bhs-score-v1"], [kind |-> "tps", value |-> 2],
     [kind |-> "loop", value |-> 3], Note(0, 1, <<60>>, 64, None, None), Note(1, 1, <<108>>, 64, None, None) >>

\* A loop shorter than the notes: the file is read but does not play.
ShortLoop ==
  << [kind |-> "tps", value |-> 1], [kind |-> "loop", value |-> 1], Note(2, 2, <<60>>, 64, None, None) >>

ZeroMeasure ==
  << [kind |-> "tps", value |-> 1], [kind |-> "measure", value |-> 0], Note(0, 1, <<60>>, 64, None, None) >>

Unreadable ==
  << [kind |-> "tps", value |-> 1], Note(0, 0, <<60>>, 64, None, None) >>

\* A note line that ends with the text of an anchor.
AnchorAside ==
  << [kind |-> "tps", value |-> 2], [kind |-> "measure", value |-> 2],
     Note(1, 2, <<60>>, 64, None, <<"anchor", 9, 3>>) >>

MCFiles == {ByHand, Looping, ShortLoop, ZeroMeasure, Unreadable, AnchorAside}

On(ticks, channel, key, vel) ==
  [kind |-> "note", on |-> TRUE, tick |-> ticks, channel |-> channel, key |-> key, vel |-> vel]
Off(ticks, channel, key) == [On(ticks, channel, key, 0) EXCEPT !.on = FALSE]

\* A retriggered key, one held to the end, one below the keyboard, a tempo
\* that changes, on two tracks.
MCMidis ==
  { [division |-> 1, format |-> "parallel",
     tracks |-> << << [kind |-> "signature", tick |-> 0, numerator |-> 1, denominator |-> 4],
                      On(0, 0, 60, 9), On(1, 0, 60, 8), On(1, 0, 60, 0) >>,
                   << [kind |-> "tempo", tick |-> 1, micros |-> 3], On(0, 1, 72, 5),
                      On(1, 0, 20, 7), Off(1, 0, 20) >> >>],
    [division |-> 2, format |-> "sequential",
     tracks |-> << << [kind |-> "tempo", tick |-> 0, micros |-> 4], On(1, 0, 64, 9), Off(1, 0, 64) >>,
                   << On(0, 0, 65, 9) >> >>] }

MCExtraScores ==
  {[EmptyDoc EXCEPT !.tps = 4, !.pairs = <<[pair |-> [start |-> 1, dur |-> 5, note |-> 72, vel |-> 1,
                                                     rel |-> None], comments |-> <<>>]>>]}

Cell(warp, port) == [warp |-> warp, ports |-> {port}, panel |-> warp # NoSun]

\* A warp cell in a Sun behind a warp cell, beside another.
MCSuns ==
  [main |-> [cells |-> (2 :> Cell("inner", 1) @@ 3 :> Cell("leaf", 2)), edges |-> {<<2, 3, 2>>}],
   inner |-> [cells |-> (1 :> Cell("leaf", 1) @@ 4 :> Cell(NoSun, 5)), edges |-> {<<1, 4, 5>>}],
   leaf |-> [cells |-> (7 :> Cell(NoSun, 2)), edges |-> {}]]
MCMovers == {<<"main", 2>>}

Init ==
  /\ ToolInit /\ PianoInit /\ ViewInit
  /\ phase = [m \in DOMAIN phase |-> IF m \in Movers THEN 1 ELSE 0]
  /\ status = [j \in DOMAIN Suns |-> IF j = "leaf" THEN "final" ELSE "open"]
  /\ \/ scene = "score"
     \/ scene = "sun" /\ file = CHOOSE f \in Files : TRUE

\* The octave, the mouse and the touch screen are moved where no score plays:
\* they share nothing with the score but the strings.
ScoreNext ==
  /\ scene = "score"
  /\ \/ beam = "off" /\ ToolNext /\ UNCHANGED pianoVars
     \/ /\ edits < MaxEdits
        /\ OpenSilent \/ OpenPlaying
     \/ update_piano_score \/ TimePasses \/ PerformCommand \/ StringFades
     \/ KeyPressed \/ KeyReleased
     \/ /\ beam = "silent"
        /\ \/ OctaveSelected \/ ShiftMoves
           \/ MousePressed \/ MouseReleased \/ FingerPressed \/ FingerLifted
  /\ UNCHANGED <<viewVars, scene>>

SunNext == scene = "sun" /\ ViewNext /\ UNCHANGED <<toolVars, pianoVars, scene>>

Next == ScoreNext \/ SunNext
Spec == Init /\ [][Next]_<<toolVars, pianoVars, viewVars, scene>>

MCDurations == {<<1, 1>>, <<5, 2>>, <<1, 8>>}
MCShiftSeconds == {<<1, 1, 2>>, <<-1, 1, 1>>}
MCLoopLengths == {<<1, 1>>, <<3, 1>>}
MCMutantSeconds == {<<1, 10>>, <<5, 1>>}
MCSemitones == {-1, 1, 48}
MCShifts == {-2, 1}
=============================================================================
