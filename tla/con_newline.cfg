SPECIFICATION Spec
CONSTANTS
  VGA_WIDTH = 2
  VGA_HEIGHT = 2
  VGA_TOTAL_ITEMS = 11
  Chars <- MCFewChars
  Colors <- MCColors
  Bounds = {1}
  Apis = {"console_putchar", "console_clear", "set_text_color"}
PROPERTY NewLineCleared
