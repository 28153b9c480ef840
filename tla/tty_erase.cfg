SPECIFICATION TtySpec
CONSTANTS
  INPUT_BUFFER_SIZE = 6
  Keys <- ErasingKeys
  Apis = {"kb_getchar"}
  FIFO = 1
  Patient = TRUE
  LineBound = 2
INVARIANT ShellGetsEditedLine
