SPECIFICATION Safe
CONSTANTS
  Tracks = {a, b}
  None = none
  MaxPlays = 2
  MaxPresses = 1
  MaxMishaps = 1
  MaxSpawns = 2
  MaxPipes = 3
  RadioCap = 1
  MaxTracks = 2
  MaxSessions = 2
  MaxTokens = 3
  FlowPresses = 2
INVARIANTS TypeOK HealthyKept EndsOnce CountsHeard
CHECK_DEADLOCK FALSE
