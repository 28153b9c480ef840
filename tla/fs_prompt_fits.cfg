SPECIFICATION Spec
CONSTANTS
  MAX_FILENAME = 4
  MAX_PATH = 7
  MAX_FILES = 3
  Capacity = 4
  Chars = {"a", "b", "c", ".", "/"}
  Args <- PathArgs
INVARIANT PromptPathFits
