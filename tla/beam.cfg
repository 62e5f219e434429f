SPECIFICATION Spec
CONSTANTS
  None = None
  Nanos = 4
  U64 = 64
  Micros = 4
  Files <- MCFiles
  Midis <- MCMidis
  Semitones <- MCSemitones
  Durations <- MCDurations
  Shifts <- MCShifts
  ShiftSeconds <- MCShiftSeconds
  LoopLengths <- MCLoopLengths
  MutantNotes = {50}
  MutantSeconds <- MCMutantSeconds
  MutantVelocities = {50}
  MaxMutations = 1
  MaxEdits = 2
  ExtraScores <- MCExtraScores
  Skips = {0, 1}
  Keys = {"a"}
  Fingers = {1}
  ScreenNotes = {60}
  Octaves = {7}
  MaxEventsPerTick = 3
  MaxPolyphony = 2
  MaxTime = 7
  MaxInputs = 2
  NoSun = NoSun
  NoPanel = NoPanel
  Top = "main"
  Suns <- MCSuns
  Movers <- MCMovers
  MaxWarpDepth = 2
  MaxPendingPhases = 1
  MaxSteps = 3
INVARIANTS
  NothingStuck
  ScoreFollowsClock
  PathsLeadHome
  LatestIsShown
PROPERTIES
  EditsKeepScoresPlayable
CHECK_DEADLOCK FALSE
