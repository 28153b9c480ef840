SPECIFICATION Spec
CONSTANTS
  INPUT_BUFFER_SIZE = 2
  Keys <- RacingKeys
  Apis = {"kb_getchar"}
  FIFO = 1
  Patient = FALSE
INVARIANT GetcharReturnsChar
