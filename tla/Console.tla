------------------------------ MODULE Console -------------------------------
(***************************************************************************)
(* The text console, src/console.c: the VGA text buffer, the place the     *)
(* next character goes to, the cursor the program keeps beside it and the  *)
(* cursor the hardware shows.  printf, announce, console_putstr and the    *)
(* echo of getstr_bound reach it only by console_putchar, console_newline  *)
(* and set_text_color.  The buffer is longer than the screen.              *)
(***************************************************************************)
EXTENDS Integers, Sequences, SequencesExt, FiniteSets

CONSTANTS
  VGA_WIDTH, VGA_HEIGHT, VGA_TOTAL_ITEMS,
  Chars,     \* characters printed, as C's signed char
  Colors,    \* pairs of a fore and a back colour
  Bounds,    \* bounds console_ungetchar_bound is called with
  Apis       \* operations of console.h in use

ASSUME ConsoleAssumption ==
  /\ VGA_WIDTH \in Nat \ {0} /\ VGA_HEIGHT \in Nat \ {0}
  /\ VGA_TOTAL_ITEMS \in Nat
  /\ VGA_TOTAL_ITEMS >= VGA_HEIGHT * VGA_WIDTH
  /\ Chars \subseteq -128..127
  /\ Bounds \subseteq 0..255

VARIABLES
  con,     \* g_vga_buffer, g_vga_index, cursor_pos_x, cursor_pos_y, and the
           \* position in the CRT controller
  g_color  \* <<g_fore_color, g_back_color>>

vars == <<con, g_color>>

Items == 0..VGA_TOTAL_ITEMS - 1

vga_item_entry(ch, color) == [ch |-> ch, color |-> color]

(* The cursor at (x, y), with vga_set_cursor_pos; the place to write at is *)
(* i.                                                                      *)
Console(buffer, i, x, y) ==
  [buffer |-> buffer, index |-> i, x |-> x, y |-> y, crt |-> y * VGA_WIDTH + x]

Cleared(color) ==
  Console([i \in Items |-> vga_item_entry(0, color)], 0, 0, 0)

(* Everything moves up by one line, and the last line's worth of items of  *)
(* the buffer, which lies below the screen, is cleared.                    *)
Scrolled(buffer) ==
  [i \in Items |-> IF i < VGA_TOTAL_ITEMS - VGA_WIDTH THEN buffer[i + VGA_WIDTH]
                   ELSE vga_item_entry(0, g_color)]

NewlineLate(s) ==
  IF s.y >= VGA_HEIGHT
  THEN Console(Scrolled(s.buffer), (VGA_HEIGHT - 1) * VGA_WIDTH, 0, VGA_HEIGHT - 1)
  ELSE Console(s.buffer, (s.y + 1) * VGA_WIDTH, 0, s.y + 1)

NewlineKeepsIndex(s) ==
  IF s.y >= VGA_HEIGHT - 1
  THEN Console(Scrolled(s.buffer), s.index, 0, VGA_HEIGHT - 1)
  ELSE Console(s.buffer, (s.y + 1) * VGA_WIDTH, 0, s.y + 1)

console_newline(s) ==
  IF s.y >= VGA_HEIGHT - 1
  THEN Console(Scrolled(s.buffer), (VGA_HEIGHT - 1) * VGA_WIDTH, 0, VGA_HEIGHT - 1)
  ELSE Console(s.buffer, (s.y + 1) * VGA_WIDTH, 0, s.y + 1)

(* One character written, the cursor moved on, to the next line at the end *)
(* of a line.                                                              *)
PutWithoutScroll(s, ch) ==
  LET buffer == [s.buffer EXCEPT ![s.index] = vga_item_entry(ch, g_color)]
  IN  IF s.x + 1 < VGA_WIDTH THEN Console(buffer, s.index + 1, s.x + 1, s.y)
      ELSE Console(buffer, s.index + 1, 0, s.y + 1)

Put(s, ch) ==
  LET buffer == [s.buffer EXCEPT ![s.index] = vga_item_entry(ch, g_color)]
  IN  IF s.x + 1 < VGA_WIDTH THEN Console(buffer, s.index + 1, s.x + 1, s.y)
      ELSE IF s.y + 1 < VGA_HEIGHT THEN Console(buffer, s.index + 1, 0, s.y + 1)
      ELSE console_newline(Console(buffer, s.index + 1, 0, s.y + 1))

TabPutsThree(s, ch) ==
  IF ch = 10 THEN console_newline(s)
  ELSE IF ch = 9 THEN Put(Put(Put(s, 32), 32), 32)
  ELSE IF ch > 0 THEN Put(s, ch)
  ELSE s

console_putchar(s, ch) ==
  IF ch = 10 THEN console_newline(s)
  ELSE IF ch = 9 THEN Put(Put(Put(Put(s, 32), 32), 32), 32)
  ELSE IF ch > 0 THEN Put(s, ch)
  ELSE s

Erased(buffer, i) == [buffer EXCEPT ![i] = vga_item_entry(0, g_color)]

(* The place to write at moves back by one, and the item there and the one *)
(* after it are erased; stays is the caller's test that the cursor remains *)
(* on its line.                                                            *)
BackKeepsLast(s, stays) ==
  LET buffer == Erased(s.buffer, s.index)
  IN  IF stays THEN Console(buffer, s.index - 1, s.x - 1, s.y)
      ELSE Console(buffer, s.index - 1, VGA_WIDTH, IF s.y > 0 THEN s.y - 1 ELSE 0)

Back(s, stays) ==
  LET buffer == Erased(Erased(s.buffer, s.index), s.index - 1)
  IN  IF stays THEN Console(buffer, s.index - 1, s.x - 1, s.y)
      ELSE Console(buffer, s.index - 1, VGA_WIDTH, IF s.y > 0 THEN s.y - 1 ELSE 0)

EraseHere(s) == [s EXCEPT !.buffer = Erased(s.buffer, s.index)]

console_ungetchar(s) ==
  IF s.index > 0 THEN Back(s, s.x > 0) ELSE EraseHere(s)

console_ungetchar_bound(s, n) ==
  IF s.index % VGA_WIDTH > n /\ n > 0 THEN Back(s, s.x >= n) ELSE EraseHere(s)

-----------------------------------------------------------------------------
(* The operations of console.h, one action each.                           *)

PutChar(ch) ==
  /\ "console_putchar" \in Apis
  /\ con' = console_putchar(con, ch)
  /\ UNCHANGED g_color

Clear ==
  /\ "console_clear" \in Apis
  /\ con' = Cleared(g_color)
  /\ UNCHANGED g_color

SetTextColor(color) ==
  /\ "set_text_color" \in Apis
  /\ g_color' = color
  /\ UNCHANGED con

UngetChar ==
  /\ "console_ungetchar" \in Apis
  /\ con' = console_ungetchar(con)
  /\ UNCHANGED g_color

UngetCharBound(n) ==
  /\ "console_ungetchar_bound" \in Apis
  /\ con' = console_ungetchar_bound(con, n)
  /\ UNCHANGED g_color

(* To a place of the screen; the source writes VGA_WIDTH as 80 here.       *)
GotoXY(x, y) ==
  /\ "console_gotoxy" \in Apis
  /\ con' = Console(con.buffer, VGA_WIDTH * y + x, x, y)
  /\ UNCHANGED g_color

(* No code ever writes g_temp_pages, so whichever page is shown is zero:   *)
(* NUL, black on black.                                                    *)
Scroll ==
  /\ "console_scroll" \in Apis
  /\ con' = [con EXCEPT !.buffer = [i \in Items |-> vga_item_entry(0, <<0, 0>>)]]
  /\ UNCHANGED g_color

(* console_init.                                                           *)
Init ==
  /\ g_color \in Colors
  /\ con = Cleared(g_color)

Next ==
  \/ \E ch \in Chars : PutChar(ch)
  \/ Clear
  \/ \E color \in Colors : SetTextColor(color)
  \/ UngetChar
  \/ \E n \in Bounds : UngetCharBound(n)
  \/ \E x \in 0..VGA_WIDTH - 1, y \in 0..VGA_HEIGHT - 1 : GotoXY(x, y)
  \/ Scroll

Spec == Init /\ [][Next]_vars

-----------------------------------------------------------------------------
(* Every item has a character and a colour; the cursor may stand one past  *)
(* the end of a line after an erasure.                                     *)
TypeOK ==
  /\ con.buffer \in [Items -> [ch : 0..127, color : Colors \union {<<0, 0>>}]]
  /\ con.index \in Items
  /\ con.x \in 0..VGA_WIDTH
  /\ con.y \in 0..VGA_HEIGHT - 1
  /\ g_color \in Colors

(* The next character goes to the screen, never to the part of the buffer  *)
(* below it or past its end, whatever mix of printing, erasing, moving and *)
(* clearing came before.                                                   *)
WritesOnScreen == con.index \in 0..VGA_HEIGHT * VGA_WIDTH - 1

(* The three notions of where the next character goes are one: the index   *)
(* into the buffer, the cursor kept by the program and the one the         *)
(* hardware shows.                                                         *)
CursorAtIndex ==
  /\ con.index = con.y * VGA_WIDTH + con.x
  /\ con.crt = con.index
  /\ con.x < VGA_WIDTH

(* Nothing stands at or after the place to write at, so that the line a    *)
(* scroll brings in is empty although the scroll clears another one.       *)
BlankBelow == \A i \in Items : i >= con.index => con.buffer[i].ch = 0

(* The lines a reader of the screen sees, down to the cursor's.            *)
LineAt(s, row) ==
  LET places == row * VGA_WIDTH..(row + 1) * VGA_WIDTH - 1
      shown == {i \in places : s.buffer[i].ch # 0}
  IN  [i \in 1..Cardinality(shown) |-> s.buffer[row * VGA_WIDTH + i - 1]]

Lines(s) == [row \in 1..s.y + 1 |-> LineAt(s, row - 1)]

T == INSTANCE Terminal WITH
  Width <- VGA_WIDTH, Height <- VGA_HEIGHT, lines <- Lines(con),
  Items <- [ch : {ch \in Chars : ch > 0 /\ ch \notin {9, 10}}, color : Colors],
  TabStop <- IF 9 \in Chars THEN [ch : {32}, color : Colors] ELSE {}

(* Through wrapped lines, tabs, scrolling, erasing and changes of colour,  *)
(* the screen shows the text printed as a terminal would.                  *)
ImplementsTerminal == T!Spec

(* "Clear the new line" (console.c:72): once the screen has scrolled, the  *)
(* line the cursor is on is blank in the colours of the text.              *)
NewLineCleared ==
  [][(con.y = VGA_HEIGHT - 1 /\ con' = console_newline(con))
       => \A i \in con'.index..con'.index + VGA_WIDTH - 1 :
            con'.buffer[i] = vga_item_entry(0, g_color)]_vars
=============================================================================
