SPECIFICATION ShellSpec
CONSTANTS
  MAX_FILENAME = 3
  MAX_PATH = 7
  MAX_FILES = 2
  Capacity = 5
  Chars = {"a", "b", "c", ".", "/", " "}
  Args <- TreeArgs
  COMMAND_LENGTH = 2
  NAME_LENGTH = 1
  Lines <- MCLines
CHECK_DEADLOCK FALSE
INVARIANTS TreeOK VisitedReachable PathLeadsBack ShellTypeOK PathAsMeant SplitAsTyped
PROPERTY MkdirEnterable
