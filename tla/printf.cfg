SPECIFICATION PrintSpec
CONSTANTS
  VGA_WIDTH = 3
  VGA_HEIGHT = 2
  VGA_TOTAL_ITEMS = 7
  Chars <- MCChars
  Colors <- MCColors
  Bounds = {1, 2}
  Apis = {"console_putchar", "console_clear", "set_text_color", "console_ungetchar", "console_ungetchar_bound", "console_gotoxy", "console_scroll"}
  WORD = 256
  NULL = NULL
  Calls <- MCCalls
  Often <- MCOften
CONSTRAINT PlainScreen
INVARIANT WritesOnScreen
PROPERTIES NumbersReadBack ConversionsApart
