SPECIFICATION Spec
CONSTANTS
  INPUT_BUFFER_SIZE = 3
  Keys <- EagerKeys
  Apis = {"kb_getchar", "keyboard_read"}
  FIFO = 2
  Patient = FALSE
INVARIANTS TypeOK NoDuplicate ModifiersTrack
PROPERTY EnterCommitsLine
