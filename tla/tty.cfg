SPECIFICATION WaverSpec
CONSTANTS
  INPUT_BUFFER_SIZE = 3
  Keys <- TtyKeys
  Apis = {"kb_getchar"}
  FIFO = 2
  Patient = TRUE
  LineBound = 2
  INITIAL_DENSITY = 1
  MAX_DENSITY = 2
  WaveKeys <- MCWaveKeys
INVARIANTS NeverBelowBuffer EditedLineIsTyped GetcharReturnsChar OffByLosses
PROPERTIES CharReachesShell EnterRunsCommand EscLeavesWave
CHECK_DEADLOCK FALSE
