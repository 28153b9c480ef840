SPECIFICATION Spec
CONSTANTS
  VGA_WIDTH = 3
  VGA_HEIGHT = 2
  VGA_TOTAL_ITEMS = 10
  Chars <- MCChars
  Colors <- MCColors
  Bounds = {0, 1}
  Apis = {"console_putchar", "console_clear", "set_text_color", "console_ungetchar_bound"}
INVARIANTS TypeOK CursorAtIndex BlankBelow
PROPERTIES ImplementsTerminal
