--------------------------- MODULE ConsoleProofs ----------------------------
(***************************************************************************)
(* The console writes where its cursor is, and nothing stands after the    *)
(* cursor, for every screen, every longer buffer and every text; it shows  *)
(* what a terminal would.  What printf puts there stays on the screen,     *)
(* reads back, and does not depend on how it is cut into calls.            *)
(***************************************************************************)
EXTENDS Printf, SequenceTheorems, FiniteSetTheorems, WellFoundedInduction, TLAPS

Entries == [ch : 0..127, color : Colors \union {<<0, 0>>}]

Screens == [buffer : [Items -> Entries], index : Int, x : Int, y : Int, crt : Int]

(* A console whose index, cursor and hardware cursor agree.                *)
Placed(s) ==
  /\ s \in Screens
  /\ s.x \in 0..VGA_WIDTH - 1
  /\ s.y \in 0..VGA_HEIGHT - 1
  /\ s.index = s.y * VGA_WIDTH + s.x
  /\ s.crt = s.index

(* A console with nothing at or after the place to write at.               *)
Blank(s) == \A i \in Items : i >= s.index => s.buffer[i].ch = 0

(* A line of the screen lies within the screen and within the buffer.      *)
LEMMA RowInside ==
  ASSUME NEW y \in 0..VGA_HEIGHT - 1
  PROVE  /\ y * VGA_WIDTH \in Nat
         /\ VGA_HEIGHT * VGA_WIDTH \in Nat
         /\ y * VGA_WIDTH + VGA_WIDTH =< VGA_HEIGHT * VGA_WIDTH
         /\ VGA_HEIGHT * VGA_WIDTH =< VGA_TOTAL_ITEMS
         /\ (y + 1) * VGA_WIDTH = y * VGA_WIDTH + VGA_WIDTH
         /\ (VGA_HEIGHT - 1) * VGA_WIDTH + VGA_WIDTH = VGA_HEIGHT * VGA_WIDTH
         /\ (VGA_HEIGHT - 1) * VGA_WIDTH \in Nat
  <1>1. y \in Nat /\ VGA_WIDTH \in Nat /\ VGA_HEIGHT \in Nat /\ VGA_TOTAL_ITEMS \in Nat
        /\ VGA_HEIGHT - 1 \in Nat /\ VGA_HEIGHT - 1 - y \in Nat
        /\ VGA_HEIGHT * VGA_WIDTH =< VGA_TOTAL_ITEMS
    BY ConsoleAssumption, SMT
  <1>2. y * VGA_WIDTH \in Nat /\ VGA_HEIGHT * VGA_WIDTH \in Nat
        /\ (VGA_HEIGHT - 1) * VGA_WIDTH \in Nat
        /\ (VGA_HEIGHT - 1 - y) * VGA_WIDTH \in Nat
    BY <1>1, SMT
  <1>3. /\ (y + 1) * VGA_WIDTH = y * VGA_WIDTH + VGA_WIDTH
        /\ (VGA_HEIGHT - 1) * VGA_WIDTH + VGA_WIDTH = VGA_HEIGHT * VGA_WIDTH
        /\ (VGA_HEIGHT - 1 - y) * VGA_WIDTH
             = VGA_HEIGHT * VGA_WIDTH - VGA_WIDTH - y * VGA_WIDTH
    BY <1>1, SMT
  <1> QED
    BY <1>1, <1>2, <1>3, SMT

(* What is left of a place of the screen when the lines before it are      *)
(* taken away is its column.                                               *)
LEMMA ColumnOf ==
  ASSUME NEW q \in Nat, NEW r \in 0..VGA_WIDTH - 1
  PROVE  (q * VGA_WIDTH + r) % VGA_WIDTH = r
  <1> DEFINE a == q * VGA_WIDTH + r
             p == a \div VGA_WIDTH
             m == a % VGA_WIDTH
  <1>1. VGA_WIDTH \in Nat /\ VGA_WIDTH > 0 /\ q * VGA_WIDTH \in Nat /\ a \in Nat
    <2>1. VGA_WIDTH \in Nat /\ VGA_WIDTH > 0
      BY ConsoleAssumption, SMT
    <2> QED
      BY <2>1, SMT
  <1>2. p \in Nat /\ m \in 0..VGA_WIDTH - 1 /\ a = VGA_WIDTH * p + m
    BY <1>1, SMT
  <1> HIDE DEF p, m
  <1>3. q = p
    <2>1. ASSUME q > p PROVE FALSE
      <3>1. q - p - 1 \in Nat
        BY <1>2, <2>1, SMT
      <3>2. (q - p - 1) * VGA_WIDTH \in Nat
        BY <1>1, <3>1, SMT
      <3>3. (q - p - 1) * VGA_WIDTH = q * VGA_WIDTH - VGA_WIDTH * p - VGA_WIDTH
        BY <1>1, <1>2, SMT
      <3> QED
        BY <1>1, <1>2, <3>2, <3>3, SMT
    <2>2. ASSUME p > q PROVE FALSE
      <3>1. p - q - 1 \in Nat
        BY <1>2, <2>2, SMT
      <3>2. (p - q - 1) * VGA_WIDTH \in Nat
        BY <1>1, <3>1, SMT
      <3>3. (p - q - 1) * VGA_WIDTH = VGA_WIDTH * p - q * VGA_WIDTH - VGA_WIDTH
        BY <1>1, <1>2, SMT
      <3> QED
        BY <1>1, <1>2, <3>2, <3>3, SMT
    <2> QED
      BY <1>2, <2>1, <2>2, SMT
  <1>4. m = r
    BY <1>1, <1>2, <1>3, SMT
  <1> QED
    BY <1>4 DEF m

LEMMA EntryType ==
  ASSUME NEW ch \in 0..127, g_color \in Colors
  PROVE  vga_item_entry(ch, g_color) \in Entries
  BY DEF vga_item_entry, Entries

(* A console put together at a place of the screen is a placed one.        *)
LEMMA ConsolePlaced ==
  ASSUME NEW buffer \in [Items -> Entries],
         NEW x \in 0..VGA_WIDTH - 1, NEW y \in 0..VGA_HEIGHT - 1
  PROVE  Placed(Console(buffer, y * VGA_WIDTH + x, x, y))
  <1>1. y * VGA_WIDTH \in Nat /\ VGA_WIDTH \in Nat /\ VGA_HEIGHT \in Nat
    BY RowInside, ConsoleAssumption
  <1>2. y * VGA_WIDTH + x \in Int /\ x \in Int /\ y \in Int
    BY <1>1, SMT
  <1> QED
    BY <1>2 DEF Placed, Console, Screens

(* Where the next character may go when a line is ended: the cursor may    *)
(* have just passed the end of the screen.                                 *)
AtLineEnd(s) ==
  /\ s \in Screens
  /\ s.y \in 0..VGA_HEIGHT
  /\ s.index \in Nat
  /\ s.index =< VGA_HEIGHT * VGA_WIDTH
  /\ s.index =< (s.y + 1) * VGA_WIDTH

LEMMA ScrolledType ==
  ASSUME NEW buffer \in [Items -> Entries], g_color \in Colors
  PROVE  Scrolled(buffer) \in [Items -> Entries]
  <1>1. vga_item_entry(0, g_color) \in Entries
    BY EntryType
  <1>2. ASSUME NEW i \in Items, i < VGA_TOTAL_ITEMS - VGA_WIDTH
        PROVE  i + VGA_WIDTH \in Items
    BY <1>2, ConsoleAssumption, SMT DEF Items
  <1> QED
    BY <1>1, <1>2 DEF Scrolled

LEMMA NewlinePlaced ==
  ASSUME NEW s, AtLineEnd(s), g_color \in Colors
  PROVE  Placed(console_newline(s))
  <1>1. s.buffer \in [Items -> Entries] /\ VGA_WIDTH \in Nat \ {0} /\ VGA_HEIGHT \in Nat \ {0}
    BY ConsoleAssumption DEF AtLineEnd, Screens
  <1>2. 0 \in 0..VGA_WIDTH - 1
    BY <1>1, SMT
  <1>3. CASE s.y >= VGA_HEIGHT - 1
    <2>1. VGA_HEIGHT - 1 \in 0..VGA_HEIGHT - 1
      BY <1>1, SMT
    <2>2. Placed(Console(Scrolled(s.buffer), (VGA_HEIGHT - 1) * VGA_WIDTH + 0, 0, VGA_HEIGHT - 1))
      BY <1>1, <1>2, <2>1, ScrolledType, ConsolePlaced
    <2>3. (VGA_HEIGHT - 1) * VGA_WIDTH + 0 = (VGA_HEIGHT - 1) * VGA_WIDTH
      BY <2>1, RowInside, SMT
    <2> QED
      BY <1>3, <2>2, <2>3 DEF console_newline
  <1>4. CASE ~(s.y >= VGA_HEIGHT - 1)
    <2>1. s.y + 1 \in 0..VGA_HEIGHT - 1
      BY <1>1, <1>4, SMT DEF AtLineEnd
    <2>2. Placed(Console(s.buffer, (s.y + 1) * VGA_WIDTH + 0, 0, s.y + 1))
      BY <1>1, <1>2, <2>1, ConsolePlaced
    <2>3. (s.y + 1) * VGA_WIDTH + 0 = (s.y + 1) * VGA_WIDTH
      BY <2>1, RowInside, SMT
    <2> QED
      BY <1>4, <2>2, <2>3 DEF console_newline
  <1> QED
    BY <1>3, <1>4

(* A scroll brings in nothing but blanks, although the items it clears are *)
(* the last of the buffer and not those of the last line of the screen.    *)
LEMMA NewlineBlank ==
  ASSUME NEW s, AtLineEnd(s), Blank(s), g_color \in Colors
  PROVE  Blank(console_newline(s))
  <1>1. s.buffer \in [Items -> Entries] /\ s.y \in 0..VGA_HEIGHT /\ s.index \in Nat
        /\ s.index =< VGA_HEIGHT * VGA_WIDTH /\ s.index =< (s.y + 1) * VGA_WIDTH
    BY DEF AtLineEnd, Screens
  <1>2. VGA_WIDTH \in Nat \ {0} /\ VGA_HEIGHT \in Nat \ {0} /\ VGA_TOTAL_ITEMS \in Nat
    BY ConsoleAssumption
  <1>3. CASE s.y >= VGA_HEIGHT - 1
    <2> DEFINE t == Console(Scrolled(s.buffer), (VGA_HEIGHT - 1) * VGA_WIDTH, 0, VGA_HEIGHT - 1)
    <2>1. t.buffer = Scrolled(s.buffer) /\ t.index = (VGA_HEIGHT - 1) * VGA_WIDTH
      BY DEF Console
    <2>2. VGA_HEIGHT - 1 \in 0..VGA_HEIGHT - 1
      BY <1>2, SMT
    <2>3. (VGA_HEIGHT - 1) * VGA_WIDTH + VGA_WIDTH = VGA_HEIGHT * VGA_WIDTH
          /\ (VGA_HEIGHT - 1) * VGA_WIDTH \in Nat /\ VGA_HEIGHT * VGA_WIDTH \in Nat
      BY <2>2, RowInside
    <2>4. ASSUME NEW i \in Items, i >= (VGA_HEIGHT - 1) * VGA_WIDTH
          PROVE  Scrolled(s.buffer)[i].ch = 0
      <3>1. CASE i < VGA_TOTAL_ITEMS - VGA_WIDTH
        <4>1. i + VGA_WIDTH \in Items /\ i + VGA_WIDTH >= s.index
          BY <1>1, <1>2, <2>3, <2>4, <3>1, SMTT(30) DEF Items
        <4>2. s.buffer[i + VGA_WIDTH].ch = 0
          BY <4>1 DEF Blank
        <4> QED
          BY <3>1, <4>2 DEF Scrolled
      <3>2. CASE ~(i < VGA_TOTAL_ITEMS - VGA_WIDTH)
        BY <3>2 DEF Scrolled, vga_item_entry
      <3> QED
        BY <3>1, <3>2
    <2>5. Blank(t)
      BY <2>1, <2>4 DEF Blank
    <2> QED
      BY <1>3, <2>5 DEF console_newline
  <1>4. CASE ~(s.y >= VGA_HEIGHT - 1)
    <2> DEFINE t == Console(s.buffer, (s.y + 1) * VGA_WIDTH, 0, s.y + 1)
    <2>1. t.buffer = s.buffer /\ t.index = (s.y + 1) * VGA_WIDTH
      BY DEF Console
    <2>2. s.y + 1 \in 0..VGA_HEIGHT - 1
      BY <1>1, <1>2, <1>4, SMT
    <2>3. (s.y + 1) * VGA_WIDTH \in Nat
      BY <2>2, RowInside
    <2>4. ASSUME NEW i \in Items, i >= (s.y + 1) * VGA_WIDTH PROVE i >= s.index
      BY <1>1, <2>3, <2>4, SMT DEF Items
    <2>5. Blank(t)
      BY <2>1, <2>4 DEF Blank
    <2> QED
      BY <1>4, <2>5 DEF console_newline
  <1> QED
    BY <1>3, <1>4

LEMMA PlacedFacts ==
  ASSUME NEW s, Placed(s)
  PROVE  /\ s.buffer \in [Items -> Entries] /\ s.index \in Nat /\ s.index \in Items
         /\ s.x \in Nat /\ s.y \in Nat /\ VGA_WIDTH \in Nat \ {0} /\ VGA_HEIGHT \in Nat \ {0}
         /\ s.y * VGA_WIDTH \in Nat
         /\ s.index < VGA_HEIGHT * VGA_WIDTH
         /\ AtLineEnd(s)
  <1>1. s \in Screens /\ s.x \in 0..VGA_WIDTH - 1 /\ s.y \in 0..VGA_HEIGHT - 1
        /\ s.index = s.y * VGA_WIDTH + s.x
    BY DEF Placed
  <1>2. VGA_WIDTH \in Nat \ {0} /\ VGA_HEIGHT \in Nat \ {0} /\ VGA_TOTAL_ITEMS \in Nat
    BY ConsoleAssumption
  <1>3. /\ s.y * VGA_WIDTH \in Nat
        /\ VGA_HEIGHT * VGA_WIDTH \in Nat
        /\ s.y * VGA_WIDTH + VGA_WIDTH =< VGA_HEIGHT * VGA_WIDTH
        /\ VGA_HEIGHT * VGA_WIDTH =< VGA_TOTAL_ITEMS
        /\ (s.y + 1) * VGA_WIDTH = s.y * VGA_WIDTH + VGA_WIDTH
    BY <1>1, RowInside
  <1>4. s.x \in Nat /\ s.y \in Nat /\ s.x < VGA_WIDTH /\ s.y \in 0..VGA_HEIGHT
    BY <1>1, <1>2, SMT
  <1>5. s.index \in Nat /\ s.index < s.y * VGA_WIDTH + VGA_WIDTH
    BY <1>1, <1>2, <1>3, <1>4, SMT
  <1>6. s.index < VGA_HEIGHT * VGA_WIDTH /\ s.index =< VGA_HEIGHT * VGA_WIDTH
        /\ s.index =< (s.y + 1) * VGA_WIDTH /\ s.index \in 0..VGA_TOTAL_ITEMS - 1
    BY <1>2, <1>3, <1>5, SMT
  <1> QED
    BY <1>1, <1>2, <1>3, <1>4, <1>5, <1>6 DEF AtLineEnd, Screens, Items

(* Printing one character keeps the cursor in place and leaves nothing     *)
(* after it.                                                               *)
LEMMA PutEffect ==
  ASSUME NEW s, Placed(s), NEW ch \in 0..127, g_color \in Colors
  PROVE  Placed(Put(s, ch)) /\ (Blank(s) => Blank(Put(s, ch)))
  <1> DEFINE buffer == [s.buffer EXCEPT ![s.index] = vga_item_entry(ch, g_color)]
  <1>1. s.x \in 0..VGA_WIDTH - 1 /\ s.y \in 0..VGA_HEIGHT - 1
        /\ s.index = s.y * VGA_WIDTH + s.x
    BY DEF Placed
  <1>2. s.buffer \in [Items -> Entries] /\ s.index \in Nat /\ s.index \in Items
        /\ s.x \in Nat /\ s.y \in Nat /\ VGA_WIDTH \in Nat \ {0} /\ VGA_HEIGHT \in Nat \ {0}
        /\ s.y * VGA_WIDTH \in Nat
    BY PlacedFacts
  <1>3. buffer \in [Items -> Entries]
    BY <1>2, EntryType
  <1>4. ASSUME Blank(s), NEW i \in Items, i >= s.index + 1
        PROVE  buffer[i].ch = 0
    <2>1. i >= s.index /\ i # s.index
      BY <1>2, <1>4, SMT DEF Items
    <2> QED
      BY <1>2, <1>4, <2>1 DEF Blank
  <1> HIDE DEF buffer
  <1>5. (s.y + 1) * VGA_WIDTH = s.y * VGA_WIDTH + VGA_WIDTH
        /\ s.y * VGA_WIDTH + VGA_WIDTH =< VGA_HEIGHT * VGA_WIDTH
        /\ VGA_HEIGHT * VGA_WIDTH \in Nat
    BY <1>1, RowInside
  <1>6. CASE s.x + 1 < VGA_WIDTH
    <2>1. s.x + 1 \in 0..VGA_WIDTH - 1 /\ s.index + 1 = s.y * VGA_WIDTH + (s.x + 1)
      BY <1>1, <1>2, <1>6, SMT
    <2>2. Put(s, ch) = Console(buffer, s.index + 1, s.x + 1, s.y)
      BY <1>6 DEF Put, buffer
    <2>3. Placed(Put(s, ch))
      BY <1>1, <1>3, <2>1, <2>2, ConsolePlaced
    <2>4. Put(s, ch).buffer = buffer /\ Put(s, ch).index = s.index + 1
      BY <2>2 DEF Console
    <2> QED
      BY <1>4, <2>3, <2>4 DEF Blank
  <1>7. CASE ~(s.x + 1 < VGA_WIDTH)
    <2>1. s.index + 1 = (s.y + 1) * VGA_WIDTH /\ 0 \in 0..VGA_WIDTH - 1
      BY <1>1, <1>2, <1>5, <1>7, SMT
    <2>2. CASE s.y + 1 < VGA_HEIGHT
      <3>1. s.y + 1 \in 0..VGA_HEIGHT - 1 /\ s.index + 1 = (s.y + 1) * VGA_WIDTH + 0
        BY <1>1, <1>2, <2>1, <2>2, SMT
      <3>2. Put(s, ch) = Console(buffer, s.index + 1, 0, s.y + 1)
        BY <1>7, <2>2 DEF Put, buffer
      <3>3. Placed(Put(s, ch))
        BY <1>3, <2>1, <3>1, <3>2, ConsolePlaced
      <3>4. Put(s, ch).buffer = buffer /\ Put(s, ch).index = s.index + 1
        BY <3>2 DEF Console
      <3> QED
        BY <1>4, <3>3, <3>4 DEF Blank
    <2>3. CASE ~(s.y + 1 < VGA_HEIGHT)
      <3> DEFINE u == Console(buffer, s.index + 1, 0, s.y + 1)
      <3>1. u.buffer = buffer /\ u.index = s.index + 1 /\ u.y = s.y + 1
        BY DEF Console
      <3>2. Put(s, ch) = console_newline(u)
        BY <1>7, <2>3 DEF Put, buffer
      <3>3. s.index + 1 \in Nat /\ s.y + 1 \in 0..VGA_HEIGHT
            /\ s.index + 1 =< VGA_HEIGHT * VGA_WIDTH
        BY <1>1, <1>2, <1>5, <2>1, SMT
      <3>4. s.index + 1 =< (s.y + 1 + 1) * VGA_WIDTH
        <4>1. (s.y + 1 + 1) * VGA_WIDTH = s.y * VGA_WIDTH + VGA_WIDTH + VGA_WIDTH
          BY <1>2, SMT
        <4> QED
          BY <1>2, <1>5, <2>1, <4>1, SMT
      <3>5. u \in Screens
        <4>1. (s.y + 1) * VGA_WIDTH + 0 \in Int /\ s.index + 1 \in Int /\ s.y + 1 \in Int
          BY <1>2, SMT
        <4> QED
          BY <1>3, <4>1 DEF Console, Screens
      <3> HIDE DEF u
      <3>6. AtLineEnd(u)
        BY <3>1, <3>3, <3>4, <3>5 DEF AtLineEnd
      <3>7. Blank(s) => Blank(u)
        BY <1>4, <3>1 DEF Blank
      <3> QED
        BY <3>2, <3>6, <3>7, NewlinePlaced, NewlineBlank
    <2> QED
      BY <2>2, <2>3
  <1> QED
    BY <1>6, <1>7

LEMMA PutcharEffect ==
  ASSUME NEW s, Placed(s), NEW ch \in -128..127, g_color \in Colors
  PROVE  /\ Placed(console_putchar(s, ch))
         /\ Blank(s) => Blank(console_putchar(s, ch))
  <1>1. CASE ch = 10
    <2>1. console_putchar(s, ch) = console_newline(s)
      BY <1>1 DEF console_putchar
    <2> QED
      BY <2>1, PlacedFacts, NewlinePlaced, NewlineBlank
  <1>2. CASE ch = 9
    <2> DEFINE a == Put(s, 32)
               b == Put(a, 32)
               d == Put(b, 32)
               e == Put(d, 32)
    <2>0. 32 \in 0..127
      OBVIOUS
    <2>1. console_putchar(s, ch) = e
      BY <1>2 DEF console_putchar
    <2> HIDE DEF a
    <2>2. Placed(a) /\ (Blank(s) => Blank(a))
      BY <2>0, PutEffect DEF a
    <2> HIDE DEF b
    <2>3. Placed(b) /\ (Blank(a) => Blank(b))
      BY <2>2, <2>0, PutEffect DEF b
    <2> HIDE DEF d
    <2>4. Placed(d) /\ (Blank(b) => Blank(d))
      BY <2>3, <2>0, PutEffect DEF d
    <2>5. Placed(e) /\ (Blank(d) => Blank(e))
      BY <2>0, <2>4, PutEffect
    <2> HIDE DEF e
    <2> QED
      BY <2>1, <2>2, <2>3, <2>4, <2>5
  <1>3. CASE ch # 10 /\ ch # 9 /\ ch > 0
    <2>1. console_putchar(s, ch) = Put(s, ch)
      BY <1>3 DEF console_putchar
    <2>2. ch \in 0..127
      BY <1>3
    <2> QED
      BY <2>1, <2>2, PutEffect
  <1>4. CASE ch # 10 /\ ch # 9 /\ ~(ch > 0)
    <2>1. console_putchar(s, ch) = s
      BY <1>4 DEF console_putchar
    <2> QED
      BY <2>1
  <1> QED
    BY <1>1, <1>2, <1>3, <1>4

(* Erasing down to a bound keeps the cursor on its line and in place, and  *)
(* leaves nothing after it.                                                *)
LEMMA UngetBoundEffect ==
  ASSUME NEW s, Placed(s), NEW n \in 0..255, g_color \in Colors
  PROVE  /\ Placed(console_ungetchar_bound(s, n))
         /\ Blank(s) => Blank(console_ungetchar_bound(s, n))
  <1>1. s.x \in 0..VGA_WIDTH - 1 /\ s.y \in 0..VGA_HEIGHT - 1 /\ s \in Screens
        /\ s.index = s.y * VGA_WIDTH + s.x /\ s.crt = s.index
    BY DEF Placed
  <1>2. s.buffer \in [Items -> Entries] /\ s.index \in Nat /\ s.index \in Items
        /\ s.x \in Nat /\ s.y \in Nat /\ VGA_WIDTH \in Nat \ {0}
        /\ s.y * VGA_WIDTH \in Nat
    BY PlacedFacts
  <1>3. s.index % VGA_WIDTH = s.x
    BY <1>1, <1>2, ColumnOf, ZenonT(60)
  <1>4. vga_item_entry(0, g_color) \in Entries /\ vga_item_entry(0, g_color).ch = 0
    BY EntryType DEF vga_item_entry
  <1> DEFINE here == Erased(s.buffer, s.index)
             both == Erased(here, s.index - 1)
  <1>5. here \in [Items -> Entries] /\ both \in [Items -> Entries]
    BY <1>2, <1>4 DEF Erased
  <1>6. CASE s.index % VGA_WIDTH > n /\ n > 0
    <2>1. s.x >= n /\ s.x - 1 \in 0..VGA_WIDTH - 1 /\ s.index - 1 \in Nat
          /\ s.index - 1 = s.y * VGA_WIDTH + (s.x - 1)
      BY <1>1, <1>2, <1>3, <1>6, SMT
    <2>2. console_ungetchar_bound(s, n) = Console(both, s.index - 1, s.x - 1, s.y)
      BY <1>6, <2>1 DEF console_ungetchar_bound, Back
    <2>3. Placed(console_ungetchar_bound(s, n))
      BY <1>1, <1>5, <2>1, <2>2, ConsolePlaced
    <2>4. s.index - 1 \in Items
      BY <1>2, <2>1, ConsoleAssumption, SMT DEF Items
    <2>5. ASSUME Blank(s), NEW i \in Items, i >= s.index - 1
          PROVE  both[i].ch = 0
      <3>1. i = s.index - 1 \/ i = s.index \/ (i >= s.index /\ i # s.index /\ i # s.index - 1)
        BY <1>2, <2>5, SMT DEF Items
      <3>2. CASE i = s.index - 1
        BY <1>4, <1>5, <2>4, <3>2 DEF Erased
      <3>3. CASE i = s.index /\ i # s.index - 1
        BY <1>2, <1>4, <3>3 DEF Erased
      <3>4. CASE i >= s.index /\ i # s.index /\ i # s.index - 1
        BY <1>2, <2>5, <3>4 DEF Erased, Blank
      <3> QED
        BY <3>1, <3>2, <3>3, <3>4
    <2>6. console_ungetchar_bound(s, n).buffer = both
          /\ console_ungetchar_bound(s, n).index = s.index - 1
      BY <2>2 DEF Console
    <2> HIDE DEF here, both
    <2> QED
      BY <2>3, <2>5, <2>6 DEF Blank
  <1>7. CASE ~(s.index % VGA_WIDTH > n /\ n > 0)
    <2> DEFINE t == [s EXCEPT !.buffer = here]
    <2>1. console_ungetchar_bound(s, n) = t
      BY <1>7 DEF console_ungetchar_bound, EraseHere
    <2> HIDE DEF here, both
    <2>2. t \in Screens /\ t.buffer = here /\ t.index = s.index /\ t.x = s.x /\ t.y = s.y
          /\ t.crt = s.crt
      BY <1>1, <1>5 DEF Screens
    <2> HIDE DEF t
    <2>3. Placed(t)
      BY <1>1, <2>2 DEF Placed
    <2>4. ASSUME Blank(s), NEW i \in Items, i >= s.index PROVE here[i].ch = 0
      BY <1>2, <1>4, <2>4 DEF here, Erased, Blank
    <2> QED
      BY <2>1, <2>2, <2>3, <2>4 DEF Blank
  <1> QED
    BY <1>6, <1>7

-----------------------------------------------------------------------------
(* The inductive invariants.                                               *)
CursorInv == Placed(con) /\ g_color \in Colors

BlankInv == CursorInv /\ Blank(con)

LEMMA ClearedIsSound ==
  ASSUME NEW color \in Colors
  PROVE  Placed(Cleared(color)) /\ Blank(Cleared(color))
  <1> DEFINE buffer == [i \in Items |-> vga_item_entry(0, color)]
  <1>1. buffer \in [Items -> Entries]
    BY DEF vga_item_entry, Entries
  <1>2. \A i \in Items : buffer[i].ch = 0
    BY DEF vga_item_entry
  <1> HIDE DEF buffer
  <1>3. 0 \in 0..VGA_WIDTH - 1 /\ 0 \in 0..VGA_HEIGHT - 1 /\ 0 * VGA_WIDTH + 0 = 0
    BY ConsoleAssumption, SMT
  <1>4. Cleared(color) = Console(buffer, 0, 0, 0)
    BY DEF Cleared, buffer
  <1>5. Placed(Console(buffer, 0, 0, 0))
    BY <1>1, <1>3, ConsolePlaced
  <1>6. Blank(Console(buffer, 0, 0, 0))
    BY <1>2 DEF Blank, Console
  <1> QED
    BY <1>4, <1>5, <1>6

LEMMA ConsoleInit == Init => BlankInv
  BY ClearedIsSound DEF Init, BlankInv, CursorInv

LEMMA CursorNext ==
  ASSUME "console_ungetchar" \notin Apis, CursorInv, [Next]_vars
  PROVE  CursorInv'
  <1>1. Placed(con) /\ g_color \in Colors
    BY DEF CursorInv
  <1>2. ASSUME NEW ch \in Chars, PutChar(ch) PROVE CursorInv'
    <2>1. ch \in -128..127
      BY ConsoleAssumption
    <2>2. Placed(console_putchar(con, ch))
      BY <1>1, <2>1, PutcharEffect
    <2> QED
      BY <1>1, <1>2, <2>2 DEF PutChar, CursorInv
  <1>3. CASE Clear
    BY <1>1, <1>3, ClearedIsSound DEF Clear, CursorInv
  <1>4. ASSUME NEW color \in Colors, SetTextColor(color) PROVE CursorInv'
    BY <1>1, <1>4 DEF SetTextColor, CursorInv
  <1>5. CASE UngetChar
    BY <1>5 DEF UngetChar
  <1>6. ASSUME NEW n \in Bounds, UngetCharBound(n) PROVE CursorInv'
    <2>1. n \in 0..255
      BY ConsoleAssumption
    <2>2. Placed(console_ungetchar_bound(con, n))
      BY <1>1, <2>1, UngetBoundEffect
    <2> QED
      BY <1>1, <1>6, <2>2 DEF UngetCharBound, CursorInv
  <1>7. ASSUME NEW x \in 0..VGA_WIDTH - 1, NEW y \in 0..VGA_HEIGHT - 1, GotoXY(x, y)
        PROVE  CursorInv'
    <2>1. con.buffer \in [Items -> Entries] /\ VGA_WIDTH \in Nat \ {0}
      BY <1>1, PlacedFacts
    <2>2. VGA_WIDTH * y + x = y * VGA_WIDTH + x
      BY <2>1, SMT
    <2>3. Placed(Console(con.buffer, VGA_WIDTH * y + x, x, y))
      BY <2>1, <2>2, ConsolePlaced
    <2> QED
      BY <1>1, <1>7, <2>3 DEF GotoXY, CursorInv
  <1>8. CASE Scroll
    <2> DEFINE buffer == [i \in Items |-> vga_item_entry(0, <<0, 0>>)]
    <2>1. buffer \in [Items -> Entries]
      BY DEF vga_item_entry, Entries
    <2> HIDE DEF buffer
    <2>2. con' = [con EXCEPT !.buffer = buffer] /\ g_color' = g_color
      BY <1>8 DEF Scroll, buffer
    <2>3. Placed(con')
      BY <1>1, <2>1, <2>2 DEF Placed, Screens
    <2> QED
      BY <1>1, <2>2, <2>3 DEF CursorInv
  <1>9. CASE UNCHANGED vars
    BY <1>1, <1>9 DEF vars, CursorInv
  <1> QED
    BY <1>2, <1>3, <1>4, <1>5, <1>6, <1>7, <1>8, <1>9 DEF Next

LEMMA BlankNext ==
  ASSUME "console_ungetchar" \notin Apis, "console_gotoxy" \notin Apis,
         BlankInv, [Next]_vars
  PROVE  BlankInv'
  <1>1. Placed(con) /\ g_color \in Colors /\ Blank(con) /\ CursorInv
    BY DEF BlankInv, CursorInv
  <1>2. CursorInv'
    BY <1>1, CursorNext
  <1>3. ASSUME NEW ch \in Chars, PutChar(ch) PROVE Blank(con')
    <2>1. ch \in -128..127
      BY ConsoleAssumption
    <2> QED
      BY <1>1, <1>3, <2>1, PutcharEffect DEF PutChar
  <1>4. ASSUME Clear PROVE Blank(con')
    BY <1>1, <1>4, ClearedIsSound DEF Clear
  <1>5. ASSUME NEW color \in Colors, SetTextColor(color) PROVE Blank(con')
    BY <1>1, <1>5 DEF SetTextColor
  <1>6. ASSUME UngetChar PROVE Blank(con')
    BY <1>6 DEF UngetChar
  <1>7. ASSUME NEW n \in Bounds, UngetCharBound(n) PROVE Blank(con')
    <2>1. n \in 0..255
      BY ConsoleAssumption
    <2> QED
      BY <1>1, <1>7, <2>1, UngetBoundEffect DEF UngetCharBound
  <1>8. ASSUME NEW x \in 0..VGA_WIDTH - 1, NEW y \in 0..VGA_HEIGHT - 1, GotoXY(x, y)
        PROVE  Blank(con')
    BY <1>8 DEF GotoXY
  <1>9. ASSUME Scroll PROVE Blank(con')
    <2>1. con \in Screens
      BY <1>1 DEF Placed
    <2>2. con'.buffer = [i \in Items |-> vga_item_entry(0, <<0, 0>>)]
      BY <1>9, <2>1 DEF Scroll, Screens
    <2> QED
      BY <2>2 DEF Blank, vga_item_entry
  <1>10. ASSUME UNCHANGED vars PROVE Blank(con')
    BY <1>1, <1>10 DEF vars
  <1>11. Blank(con')
    BY <1>3, <1>4, <1>5, <1>6, <1>7, <1>8, <1>9, <1>10 DEF Next
  <1> QED
    BY <1>2, <1>11 DEF BlankInv, Blank

(* On every screen, unless console_ungetchar is called, the place the next *)
(* character goes to is the one under both cursors.                        *)
THEOREM CursorNeverDrifts ==
  ASSUME "console_ungetchar" \notin Apis
  PROVE  Spec => []CursorAtIndex
  <1>1. Init => CursorInv
    BY ConsoleInit DEF BlankInv
  <1>2. CursorInv /\ [Next]_vars => CursorInv'
    BY CursorNext
  <1>3. CursorInv => CursorAtIndex
    <2> SUFFICES ASSUME CursorInv PROVE CursorAtIndex
      OBVIOUS
    <2>1. Placed(con) /\ con.x \in 0..VGA_WIDTH - 1 /\ VGA_WIDTH \in Nat
      BY ConsoleAssumption DEF CursorInv, Placed
    <2>2. con.x < VGA_WIDTH
      BY <2>1, SMT
    <2> QED
      BY <2>1, <2>2 DEF Placed, CursorAtIndex
  <1> QED
    BY <1>1, <1>2, <1>3, PTL DEF Spec

(* On every screen and every longer buffer, while text is only printed,    *)
(* erased and cleared, nothing stands after the cursor: a line a scroll    *)
(* brings in is empty although console_newline clears another one.         *)
THEOREM NothingAfterCursor ==
  ASSUME "console_ungetchar" \notin Apis, "console_gotoxy" \notin Apis
  PROVE  Spec => []BlankBelow
  <1>1. BlankInv /\ [Next]_vars => BlankInv'
    BY BlankNext
  <1>2. BlankInv => BlankBelow
    BY DEF BlankInv, Blank, BlankBelow
  <1> QED
    BY ConsoleInit, <1>1, <1>2, PTL DEF Spec

-----------------------------------------------------------------------------
(* What is left when console_ungetchar is called too: the cursor may stand *)
(* one past its line and run ahead of the place to write at, but that      *)
(* place is never after the cursor, nor below its line.                    *)
Within(s) ==
  /\ s \in Screens
  /\ s.x \in 0..VGA_WIDTH
  /\ s.y \in 0..VGA_HEIGHT - 1
  /\ s.index \in Nat
  /\ s.index =< s.y * VGA_WIDTH + s.x
  /\ s.index < s.y * VGA_WIDTH + VGA_WIDTH

LEMMA WithinFacts ==
  ASSUME NEW s, Within(s)
  PROVE  /\ s.buffer \in [Items -> Entries] /\ s.index \in Nat /\ s.index \in Items
         /\ s.x \in Nat /\ s.y \in Nat /\ VGA_WIDTH \in Nat \ {0} /\ VGA_HEIGHT \in Nat \ {0}
         /\ s.y * VGA_WIDTH \in Nat /\ (s.y + 1) * VGA_WIDTH = s.y * VGA_WIDTH + VGA_WIDTH
         /\ s.index < VGA_HEIGHT * VGA_WIDTH /\ VGA_HEIGHT * VGA_WIDTH \in Nat
         /\ AtLineEnd(s)
  <1>1. s \in Screens /\ s.x \in 0..VGA_WIDTH /\ s.y \in 0..VGA_HEIGHT - 1
        /\ s.index \in Nat /\ s.index < s.y * VGA_WIDTH + VGA_WIDTH
    BY DEF Within
  <1>2. VGA_WIDTH \in Nat \ {0} /\ VGA_HEIGHT \in Nat \ {0} /\ VGA_TOTAL_ITEMS \in Nat
    BY ConsoleAssumption
  <1>3. /\ s.y * VGA_WIDTH \in Nat /\ VGA_HEIGHT * VGA_WIDTH \in Nat
        /\ s.y * VGA_WIDTH + VGA_WIDTH =< VGA_HEIGHT * VGA_WIDTH
        /\ VGA_HEIGHT * VGA_WIDTH =< VGA_TOTAL_ITEMS
        /\ (s.y + 1) * VGA_WIDTH = s.y * VGA_WIDTH + VGA_WIDTH
    BY <1>1, RowInside
  <1>4. s.x \in Nat /\ s.y \in Nat /\ s.y \in 0..VGA_HEIGHT
    BY <1>1, <1>2, SMT
  <1>5. s.index < VGA_HEIGHT * VGA_WIDTH /\ s.index =< VGA_HEIGHT * VGA_WIDTH
        /\ s.index =< (s.y + 1) * VGA_WIDTH /\ s.index \in 0..VGA_TOTAL_ITEMS - 1
    BY <1>1, <1>2, <1>3, SMT
  <1> QED
    BY <1>1, <1>2, <1>3, <1>4, <1>5 DEF AtLineEnd, Screens, Items

LEMMA PlacedWithin ==
  ASSUME NEW s, Placed(s)
  PROVE  Within(s)
  <1>1. s \in Screens /\ s.x \in 0..VGA_WIDTH - 1 /\ s.y \in 0..VGA_HEIGHT - 1
        /\ s.index = s.y * VGA_WIDTH + s.x
    BY DEF Placed
  <1>2. VGA_WIDTH \in Nat /\ s.y * VGA_WIDTH \in Nat
    BY PlacedFacts
  <1>3. s.x \in 0..VGA_WIDTH /\ s.index \in Nat /\ s.index =< s.y * VGA_WIDTH + s.x
        /\ s.index < s.y * VGA_WIDTH + VGA_WIDTH
    BY <1>1, <1>2, SMT
  <1> QED
    BY <1>1, <1>3 DEF Within

(* A console put together at or before a place of the screen.              *)
LEMMA ConsoleWithin ==
  ASSUME NEW buffer \in [Items -> Entries],
         NEW x \in 0..VGA_WIDTH, NEW y \in 0..VGA_HEIGHT - 1, NEW i \in Nat,
         i =< y * VGA_WIDTH + x, i < y * VGA_WIDTH + VGA_WIDTH
  PROVE  Within(Console(buffer, i, x, y))
  <1>1. y * VGA_WIDTH \in Nat /\ VGA_WIDTH \in Nat /\ VGA_HEIGHT \in Nat
    BY RowInside, ConsoleAssumption
  <1>2. y * VGA_WIDTH + x \in Int /\ x \in Int /\ y \in Int /\ i \in Int
    BY <1>1, SMT
  <1> QED
    BY <1>2 DEF Within, Console, Screens

LEMMA PutWithin ==
  ASSUME NEW s, Within(s), NEW ch \in 0..127, g_color \in Colors
  PROVE  Within(Put(s, ch))
  <1> DEFINE buffer == [s.buffer EXCEPT ![s.index] = vga_item_entry(ch, g_color)]
  <1>1. s.x \in 0..VGA_WIDTH /\ s.y \in 0..VGA_HEIGHT - 1
        /\ s.index =< s.y * VGA_WIDTH + s.x /\ s.index < s.y * VGA_WIDTH + VGA_WIDTH
    BY DEF Within
  <1>2. s.buffer \in [Items -> Entries] /\ s.index \in Nat /\ s.index \in Items
        /\ s.x \in Nat /\ s.y \in Nat /\ VGA_WIDTH \in Nat \ {0} /\ VGA_HEIGHT \in Nat \ {0}
        /\ s.y * VGA_WIDTH \in Nat /\ (s.y + 1) * VGA_WIDTH = s.y * VGA_WIDTH + VGA_WIDTH
        /\ s.index < VGA_HEIGHT * VGA_WIDTH /\ VGA_HEIGHT * VGA_WIDTH \in Nat
    BY WithinFacts
  <1>3. buffer \in [Items -> Entries] /\ s.index + 1 \in Nat
    BY <1>2, EntryType
  <1> HIDE DEF buffer
  <1>4. CASE s.x + 1 < VGA_WIDTH
    <2>1. s.x + 1 \in 0..VGA_WIDTH /\ s.index + 1 =< s.y * VGA_WIDTH + (s.x + 1)
          /\ s.index + 1 < s.y * VGA_WIDTH + VGA_WIDTH
      BY <1>1, <1>2, <1>4, SMT
    <2>2. Put(s, ch) = Console(buffer, s.index + 1, s.x + 1, s.y)
      BY <1>4 DEF Put, buffer
    <2> QED
      BY <1>1, <1>3, <2>1, <2>2, ConsoleWithin
  <1>5. CASE ~(s.x + 1 < VGA_WIDTH) /\ s.y + 1 < VGA_HEIGHT
    <2>1. s.y + 1 \in 0..VGA_HEIGHT - 1 /\ 0 \in 0..VGA_WIDTH
          /\ s.index + 1 =< (s.y + 1) * VGA_WIDTH + 0
          /\ s.index + 1 < (s.y + 1) * VGA_WIDTH + VGA_WIDTH
      BY <1>1, <1>2, <1>5, SMT
    <2>2. Put(s, ch) = Console(buffer, s.index + 1, 0, s.y + 1)
      BY <1>5 DEF Put, buffer
    <2> QED
      BY <1>3, <2>1, <2>2, ConsoleWithin
  <1>6. CASE ~(s.x + 1 < VGA_WIDTH) /\ ~(s.y + 1 < VGA_HEIGHT)
    <2> DEFINE u == Console(buffer, s.index + 1, 0, s.y + 1)
    <2>1. u.buffer = buffer /\ u.index = s.index + 1 /\ u.y = s.y + 1
      BY DEF Console
    <2>2. Put(s, ch) = console_newline(u)
      BY <1>6 DEF Put, buffer
    <2>3. s.y + 1 \in 0..VGA_HEIGHT /\ s.index + 1 =< VGA_HEIGHT * VGA_WIDTH
      BY <1>1, <1>2, SMT
    <2>4. s.index + 1 =< (s.y + 1 + 1) * VGA_WIDTH
      <3>1. (s.y + 1 + 1) * VGA_WIDTH = s.y * VGA_WIDTH + VGA_WIDTH + VGA_WIDTH
        BY <1>2, SMT
      <3> QED
        BY <1>1, <1>2, <3>1, SMT
    <2>5. u \in Screens
      <3>1. (s.y + 1) * VGA_WIDTH + 0 \in Int /\ s.index + 1 \in Int /\ s.y + 1 \in Int
        BY <1>2, SMT
      <3> QED
        BY <1>3, <3>1 DEF Console, Screens
    <2> HIDE DEF u
    <2>6. AtLineEnd(u)
      BY <1>3, <2>1, <2>3, <2>4, <2>5 DEF AtLineEnd
    <2> QED
      BY <2>2, <2>6, NewlinePlaced, PlacedWithin
  <1> QED
    BY <1>4, <1>5, <1>6

LEMMA PutcharWithin ==
  ASSUME NEW s, Within(s), NEW ch \in -128..127, g_color \in Colors
  PROVE  Within(console_putchar(s, ch))
  <1>1. CASE ch = 10
    <2>1. console_putchar(s, ch) = console_newline(s)
      BY <1>1 DEF console_putchar
    <2> QED
      BY <2>1, WithinFacts, NewlinePlaced, PlacedWithin
  <1>2. CASE ch = 9
    <2>1. \A t : Within(t) => Within(Put(t, 32))
      <3>1. 32 \in 0..127
        OBVIOUS
      <3> QED
        BY <3>1, PutWithin
    <2>2. Within(Put(Put(Put(Put(s, 32), 32), 32), 32))
      BY <2>1
    <2> QED
      BY <1>2, <2>2 DEF console_putchar
  <1>3. CASE ch # 10 /\ ch # 9 /\ ch > 0
    <2>1. ch \in 0..127 /\ console_putchar(s, ch) = Put(s, ch)
      BY <1>3 DEF console_putchar
    <2> QED
      BY <2>1, PutWithin
  <1>4. CASE ch # 10 /\ ch # 9 /\ ~(ch > 0)
    BY <1>4 DEF console_putchar
  <1> QED
    BY <1>1, <1>2, <1>3, <1>4

LEMMA ErasedType ==
  ASSUME NEW buffer \in [Items -> Entries], NEW i, g_color \in Colors
  PROVE  Erased(buffer, i) \in [Items -> Entries]
  <1>1. 0 \in 0..127
    OBVIOUS
  <1>2. vga_item_entry(0, g_color) \in Entries
    BY <1>1, EntryType
  <1> QED
    BY <1>2 DEF Erased

LEMMA EraseHereWithin ==
  ASSUME NEW s, Within(s), g_color \in Colors
  PROVE  Within(EraseHere(s))
  <1> DEFINE here == Erased(s.buffer, s.index)
             t == [s EXCEPT !.buffer = here]
  <1>1. here \in [Items -> Entries] /\ s \in Screens
    BY WithinFacts, ErasedType DEF Within
  <1> HIDE DEF here
  <1>2. t \in Screens /\ t.index = s.index /\ t.x = s.x /\ t.y = s.y
    BY <1>1 DEF Screens
  <1> HIDE DEF t
  <1>3. Within(t)
    BY <1>2 DEF Within
  <1> QED
    BY <1>3 DEF EraseHere, t, here

(* Moving back by one, when a cursor at the start of a line, or one the    *)
(* bound takes for that, has the place to write at on a line above.        *)
LEMMA BackWithin ==
  ASSUME NEW s, Within(s), NEW stays, g_color \in Colors, s.index > 0,
         stays => s.x > 0,
         ~stays => s.index =< s.y * VGA_WIDTH
  PROVE  Within(Back(s, stays))
  <1> DEFINE buffer == Erased(Erased(s.buffer, s.index), s.index - 1)
  <1>1. s.x \in 0..VGA_WIDTH /\ s.y \in 0..VGA_HEIGHT - 1
        /\ s.index =< s.y * VGA_WIDTH + s.x /\ s.index < s.y * VGA_WIDTH + VGA_WIDTH
    BY DEF Within
  <1>2. s.buffer \in [Items -> Entries] /\ s.index \in Nat
        /\ s.x \in Nat /\ s.y \in Nat /\ VGA_WIDTH \in Nat \ {0} /\ VGA_HEIGHT \in Nat \ {0}
        /\ s.y * VGA_WIDTH \in Nat
    BY WithinFacts
  <1>3. buffer \in [Items -> Entries] /\ s.index - 1 \in Nat
    BY <1>2, ErasedType
  <1> HIDE DEF buffer
  <1>4. CASE stays
    <2>1. s.x - 1 \in 0..VGA_WIDTH /\ s.index - 1 =< s.y * VGA_WIDTH + (s.x - 1)
          /\ s.index - 1 < s.y * VGA_WIDTH + VGA_WIDTH
      BY <1>1, <1>2, <1>4, SMT
    <2>2. Back(s, stays) = Console(buffer, s.index - 1, s.x - 1, s.y)
      BY <1>4 DEF Back, buffer
    <2> QED
      BY <1>1, <1>3, <2>1, <2>2, ConsoleWithin
  <1>5. CASE ~stays
    <2>1. s.y > 0
      <3>1. s.y = 0 => s.y * VGA_WIDTH = 0
        BY <1>2, SMT
      <3> QED
        BY <1>2, <1>5, <3>1, SMT
    <2>2. s.y - 1 \in 0..VGA_HEIGHT - 1
      BY <1>1, <1>2, <2>1, SMT
    <2>3. (s.y - 1) * VGA_WIDTH = s.y * VGA_WIDTH - VGA_WIDTH
      BY <1>2, SMT
    <2>4. VGA_WIDTH \in 0..VGA_WIDTH
          /\ s.index - 1 =< (s.y - 1) * VGA_WIDTH + VGA_WIDTH
          /\ s.index - 1 < (s.y - 1) * VGA_WIDTH + VGA_WIDTH
      BY <1>2, <1>5, <2>3, SMT
    <2>5. Back(s, stays) = Console(buffer, s.index - 1, VGA_WIDTH, s.y - 1)
      BY <1>5, <2>1 DEF Back, buffer
    <2> QED
      BY <1>3, <2>2, <2>4, <2>5, ConsoleWithin
  <1> QED
    BY <1>4, <1>5

LEMMA UngetWithin ==
  ASSUME NEW s, Within(s), g_color \in Colors
  PROVE  Within(console_ungetchar(s))
  <1>1. s.x \in Nat /\ s.index \in Nat /\ s.y * VGA_WIDTH \in Nat
        /\ s.index =< s.y * VGA_WIDTH + s.x
    BY WithinFacts DEF Within
  <1>2. CASE s.index > 0
    <2>1. ~(s.x > 0) => s.index =< s.y * VGA_WIDTH
      BY <1>1, SMT
    <2>2. Within(Back(s, s.x > 0))
      BY <1>2, <2>1, BackWithin
    <2> QED
      BY <1>2, <2>2 DEF console_ungetchar
  <1>3. CASE ~(s.index > 0)
    BY <1>3, EraseHereWithin DEF console_ungetchar
  <1> QED
    BY <1>2, <1>3

LEMMA UngetBoundWithin ==
  ASSUME NEW s, Within(s), NEW n \in 0..255, g_color \in Colors
  PROVE  Within(console_ungetchar_bound(s, n))
  <1>1. s.x \in Nat /\ s.index \in Nat /\ s.y \in Nat /\ VGA_WIDTH \in Nat \ {0}
        /\ s.y * VGA_WIDTH \in Nat /\ s.index =< s.y * VGA_WIDTH + s.x
    BY WithinFacts DEF Within
  <1>2. CASE s.index % VGA_WIDTH > n /\ n > 0
    <2> DEFINE q == s.index \div VGA_WIDTH
               m == s.index % VGA_WIDTH
    <2>1. q \in Nat /\ m \in 0..VGA_WIDTH - 1 /\ s.index = VGA_WIDTH * q + m
      <3> DEFINE i == s.index
      <3>1. i \in Nat /\ VGA_WIDTH \in Nat /\ VGA_WIDTH > 0
        BY <1>1
      <3> HIDE DEF i
      <3>2. i \div VGA_WIDTH \in Nat /\ i % VGA_WIDTH \in 0..VGA_WIDTH - 1
            /\ i = VGA_WIDTH * (i \div VGA_WIDTH) + (i % VGA_WIDTH)
        BY <3>1, SMT
      <3> QED
        BY <3>2 DEF i
    <2> HIDE DEF q, m
    <2>2. m > n /\ n > 0
      BY <1>2 DEF m
    <2>3. VGA_WIDTH * q \in Nat
      BY <1>1, <2>1, SMT
    <2>4. s.index > 0
      BY <2>1, <2>2, <2>3, SMT
    <2>5. ~(s.x >= n) => s.index =< s.y * VGA_WIDTH
      <3> SUFFICES ASSUME s.x < n PROVE s.index =< s.y * VGA_WIDTH
        BY <1>1, SMT
      <3>1. ASSUME q >= s.y PROVE FALSE
        <4>1. q - s.y \in Nat
          BY <1>1, <2>1, <3>1, SMT
        <4>2. (q - s.y) * VGA_WIDTH \in Nat
          BY <1>1, <4>1, SMT
        <4>3. (q - s.y) * VGA_WIDTH = VGA_WIDTH * q - s.y * VGA_WIDTH
          BY <1>1, <2>1, SMT
        <4> QED
          BY <1>1, <2>1, <2>2, <2>3, <4>2, <4>3, SMT
      <3>2. s.y - 1 - q \in Nat
        BY <1>1, <2>1, <3>1, SMT
      <3>3. (s.y - 1 - q) * VGA_WIDTH \in Nat
        BY <1>1, <3>2, SMT
      <3>4. (s.y - 1 - q) * VGA_WIDTH = s.y * VGA_WIDTH - VGA_WIDTH - VGA_WIDTH * q
        BY <1>1, <2>1, SMT
      <3> QED
        BY <1>1, <2>1, <2>3, <3>3, <3>4, SMT
    <2>6. s.x >= n => s.x > 0
      BY <1>1, <2>2, SMT
    <2>7. Within(Back(s, s.x >= n))
      BY <2>4, <2>5, <2>6, BackWithin
    <2> QED
      BY <1>2, <2>7 DEF console_ungetchar_bound
  <1>3. CASE ~(s.index % VGA_WIDTH > n /\ n > 0)
    BY <1>3, EraseHereWithin DEF console_ungetchar_bound
  <1> QED
    BY <1>2, <1>3

WithinInv == Within(con) /\ g_color \in Colors

LEMMA WithinNext ==
  ASSUME WithinInv, [Next]_vars
  PROVE  WithinInv'
  <1> USE DEF WithinInv
  <1>1. ASSUME NEW ch \in Chars, PutChar(ch) PROVE WithinInv'
    <2>1. ch \in -128..127
      BY ConsoleAssumption
    <2> QED
      BY <1>1, <2>1, PutcharWithin DEF PutChar
  <1>2. CASE Clear
    BY <1>2, ClearedIsSound, PlacedWithin DEF Clear
  <1>3. ASSUME NEW color \in Colors, SetTextColor(color) PROVE WithinInv'
    BY <1>3 DEF SetTextColor
  <1>4. CASE UngetChar
    BY <1>4, UngetWithin DEF UngetChar
  <1>5. ASSUME NEW n \in Bounds, UngetCharBound(n) PROVE WithinInv'
    <2>1. n \in 0..255
      BY ConsoleAssumption
    <2> QED
      BY <1>5, <2>1, UngetBoundWithin DEF UngetCharBound
  <1>6. ASSUME NEW x \in 0..VGA_WIDTH - 1, NEW y \in 0..VGA_HEIGHT - 1, GotoXY(x, y)
        PROVE  WithinInv'
    <2>1. con.buffer \in [Items -> Entries] /\ VGA_WIDTH \in Nat \ {0}
      BY WithinFacts
    <2>2. VGA_WIDTH * y + x = y * VGA_WIDTH + x
      BY <2>1, SMT
    <2>3. Placed(Console(con.buffer, VGA_WIDTH * y + x, x, y))
      BY <2>1, <2>2, ConsolePlaced
    <2> QED
      BY <1>6, <2>3, PlacedWithin DEF GotoXY
  <1>7. CASE Scroll
    <2> DEFINE buffer == [i \in Items |-> vga_item_entry(0, <<0, 0>>)]
    <2>1. buffer \in [Items -> Entries]
      BY DEF vga_item_entry, Entries
    <2> HIDE DEF buffer
    <2>2. con' = [con EXCEPT !.buffer = buffer] /\ g_color' = g_color
      BY <1>7 DEF Scroll, buffer
    <2>3. con' \in Screens /\ con'.index = con.index /\ con'.x = con.x /\ con'.y = con.y
      BY <2>1, <2>2 DEF Within, Screens
    <2> QED
      BY <2>2, <2>3 DEF Within
  <1>8. CASE UNCHANGED vars
    BY <1>8 DEF vars
  <1> QED
    BY <1>1, <1>2, <1>3, <1>4, <1>5, <1>6, <1>7, <1>8 DEF Next

LEMMA AlwaysWithin == Spec => []WithinInv
  <1>1. Init => WithinInv
    BY ConsoleInit, PlacedWithin DEF BlankInv, CursorInv, WithinInv
  <1> QED
    BY <1>1, WithinNext, PTL DEF Spec

(* On every screen and whichever operations are called in whatever order,  *)
(* every item, index and cursor keeps its type.                            *)
THEOREM TypeCorrect == Spec => []TypeOK
  <1>1. WithinInv => TypeOK
    <2> SUFFICES ASSUME WithinInv PROVE TypeOK
      OBVIOUS
    <2>1. con.buffer \in [Items -> Entries] /\ con.index \in Items
      BY WithinFacts DEF WithinInv
    <2> QED
      BY <2>1 DEF WithinInv, Within, TypeOK, Entries
  <1> QED
    BY <1>1, AlwaysWithin, PTL

(* On every screen and whichever operations are called in whatever order,  *)
(* console_ungetchar included, every character goes to a place of the      *)
(* screen.                                                                 *)
THEOREM StaysOnScreen == Spec => []WritesOnScreen
  <1>1. WithinInv => WritesOnScreen
    <2> SUFFICES ASSUME WithinInv PROVE WritesOnScreen
      OBVIOUS
    <2>1. con.index \in Nat /\ con.index < VGA_HEIGHT * VGA_WIDTH
          /\ VGA_HEIGHT * VGA_WIDTH \in Nat
      BY WithinFacts DEF WithinInv
    <2> QED
      BY <2>1, SMT DEF WritesOnScreen
  <1> QED
    BY <1>1, AlwaysWithin, PTL

-----------------------------------------------------------------------------
(* The screen as a terminal's lines.                                       *)

(* The item in a column of a line, both counted from 1.                    *)
Cell(buffer, r, c) == buffer[(r - 1) * VGA_WIDTH + c - 1]

(* The line of the screen is the given one, followed by blanks.            *)
RowShows(buffer, r, line) ==
  /\ line \in Seq(Entries) /\ Len(line) =< VGA_WIDTH
  /\ \A c \in 1..VGA_WIDTH :
       IF c =< Len(line) THEN Cell(buffer, r, c) = line[c] /\ line[c].ch # 0
       ELSE Cell(buffer, r, c).ch = 0

(* The screen shows these lines, and the cursor is after the last.         *)
Shows(s, ls) ==
  /\ ls \in Seq(Seq(Entries))
  /\ Len(ls) = s.y + 1
  /\ \A r \in 1..Len(ls) : RowShows(s.buffer, r, ls[r])
  /\ Len(ls[Len(ls)]) = s.x

(* A place of the screen is an item of the buffer, and lies before the     *)
(* places of the lines below it.                                           *)
LEMMA CellPlace ==
  ASSUME NEW r \in 1..VGA_HEIGHT, NEW c \in 1..VGA_WIDTH
  PROVE  /\ (r - 1) * VGA_WIDTH + c - 1 \in Items
         /\ (r - 1) * VGA_WIDTH \in Nat
         /\ (r - 1) * VGA_WIDTH + c - 1 < r * VGA_WIDTH
         /\ r * VGA_WIDTH = (r - 1) * VGA_WIDTH + VGA_WIDTH
         /\ r * VGA_WIDTH =< VGA_HEIGHT * VGA_WIDTH
         /\ VGA_HEIGHT * VGA_WIDTH =< VGA_TOTAL_ITEMS
         /\ VGA_HEIGHT * VGA_WIDTH \in Nat
  <1> DEFINE y == r - 1
  <1>1. VGA_WIDTH \in Nat \ {0} /\ VGA_HEIGHT \in Nat \ {0} /\ VGA_TOTAL_ITEMS \in Nat
    BY ConsoleAssumption
  <1>2. y \in 0..VGA_HEIGHT - 1 /\ y + 1 = r
    BY <1>1, SMT
  <1>3. /\ y * VGA_WIDTH \in Nat /\ VGA_HEIGHT * VGA_WIDTH \in Nat
        /\ y * VGA_WIDTH + VGA_WIDTH =< VGA_HEIGHT * VGA_WIDTH
        /\ VGA_HEIGHT * VGA_WIDTH =< VGA_TOTAL_ITEMS
        /\ r * VGA_WIDTH = y * VGA_WIDTH + VGA_WIDTH
    BY <1>2, RowInside
  <1> DEFINE p == y * VGA_WIDTH
             e == VGA_HEIGHT * VGA_WIDTH
             f == r * VGA_WIDTH
  <1>4. p \in Nat /\ e \in Nat /\ p + VGA_WIDTH =< e /\ e =< VGA_TOTAL_ITEMS
        /\ f = p + VGA_WIDTH
    BY <1>3
  <1> HIDE DEF p, e, f
  <1>5. p + c - 1 \in 0..VGA_TOTAL_ITEMS - 1 /\ p + c - 1 < f /\ f =< e
    BY <1>1, <1>4, SMT
  <1> QED
    BY <1>3, <1>5 DEF p, e, f, Items

(* The lines Lines reads from the buffer are the ones the screen shows.    *)
LEMMA LinesRead ==
  ASSUME NEW s, Placed(s), NEW ls, Shows(s, ls)
  PROVE  Lines(s) = ls
  <1>1. ls \in Seq(Seq(Entries)) /\ Len(ls) = s.y + 1
        /\ \A r \in 1..Len(ls) : RowShows(s.buffer, r, ls[r])
    BY DEF Shows
  <1>2. s.y \in Nat /\ s.y \in 0..VGA_HEIGHT - 1 /\ VGA_WIDTH \in Nat \ {0}
        /\ VGA_HEIGHT \in Nat
    BY PlacedFacts DEF Placed
  <1>3. ASSUME NEW r \in 1..s.y + 1 PROVE LineAt(s, r - 1) = ls[r]
    <2> DEFINE line == ls[r]
               first == (r - 1) * VGA_WIDTH
               places == first..(r - 1 + 1) * VGA_WIDTH - 1
               shown == {i \in places : s.buffer[i].ch # 0}
    <2>1. line \in Seq(Entries) /\ Len(line) =< VGA_WIDTH
          /\ \A c \in 1..VGA_WIDTH :
               IF c =< Len(line) THEN Cell(s.buffer, r, c) = line[c] /\ line[c].ch # 0
               ELSE Cell(s.buffer, r, c).ch = 0
      BY <1>1, <1>3 DEF RowShows
    <2>2. Len(line) \in Nat /\ DOMAIN line = 1..Len(line)
      BY <2>1
    <2>3. first \in Nat /\ (r - 1 + 1) * VGA_WIDTH - 1 = first + VGA_WIDTH - 1
      <3>1. r - 1 \in 0..VGA_HEIGHT - 1
        BY <1>2, SMT
      <3>2. (r - 1) * VGA_WIDTH \in Nat
            /\ (r - 1 + 1) * VGA_WIDTH = (r - 1) * VGA_WIDTH + VGA_WIDTH
        BY <3>1, RowInside
      <3> DEFINE p == (r - 1) * VGA_WIDTH
                 q == (r - 1 + 1) * VGA_WIDTH
      <3>3. p \in Nat /\ q = p + VGA_WIDTH /\ first = p
        BY <3>2
      <3> HIDE DEF first, p, q
      <3>4. q - 1 = first + VGA_WIDTH - 1 /\ first \in Nat
        BY <1>2, <3>3, SMT
      <3> QED
        BY <3>4 DEF q
    <2> DEFINE n == Len(line)
    <2>4. ASSUME NEW c \in 1..VGA_WIDTH
          PROVE  Cell(s.buffer, r, c) = s.buffer[first + c - 1]
      BY DEF Cell
    <2> HIDE DEF first, line
    <2>5. shown = first..first + n - 1
      <3>1. ASSUME NEW i \in first..first + VGA_WIDTH - 1
            PROVE  s.buffer[i].ch # 0 <=> i \in first..first + n - 1
        <4>1. i - first + 1 \in 1..VGA_WIDTH /\ first + (i - first + 1) - 1 = i
              /\ (i - first + 1 =< n <=> i \in first..first + n - 1)
          BY <1>2, <2>1, <2>2, <2>3, SMT
        <4>2. Cell(s.buffer, r, i - first + 1) = s.buffer[i]
          BY <2>4, <4>1
        <4>3. IF i - first + 1 =< n THEN Cell(s.buffer, r, i - first + 1).ch # 0
              ELSE Cell(s.buffer, r, i - first + 1).ch = 0
          BY <2>1, <4>1
        <4> QED
          BY <4>1, <4>2, <4>3
      <3>2. places = first..first + VGA_WIDTH - 1
        BY <2>3 DEF first
      <3>3. first..first + n - 1 \subseteq first..first + VGA_WIDTH - 1
        BY <1>2, <2>1, <2>2, <2>3, SMT
      <3> HIDE DEF places
      <3> QED
        BY <3>1, <3>2, <3>3
    <2>6. Cardinality(shown) = n
      <3>1. first \in Int /\ first + n - 1 \in Int
            /\ (IF first > first + n - 1 THEN 0 ELSE first + n - 1 - first + 1) = n
        BY <2>2, <2>3, SMT
      <3>2. Cardinality(first..first + n - 1)
              = IF first > first + n - 1 THEN 0 ELSE first + n - 1 - first + 1
        BY <3>1, FS_Interval
      <3> QED
        BY <2>5, <3>1, <3>2
    <2>7. LineAt(s, r - 1)
            = [i \in 1..Cardinality(shown) |-> s.buffer[(r - 1) * VGA_WIDTH + i - 1]]
      BY DEF LineAt, first
    <2> HIDE DEF shown
    <2>8. LineAt(s, r - 1) = [i \in 1..n |-> s.buffer[first + i - 1]]
      BY <2>6, <2>7 DEF first
    <2>9. ASSUME NEW i \in 1..n PROVE s.buffer[first + i - 1] = line[i]
      <3>1. i \in 1..VGA_WIDTH /\ i =< n
        BY <1>2, <2>1, <2>2, SMT
      <3> QED
        BY <2>1, <2>4, <3>1
    <2>10. line = [i \in 1..n |-> line[i]]
      BY <2>1, <2>2
    <2>11. LineAt(s, r - 1) = line
      BY <2>8, <2>9, <2>10
    <2> QED
      BY <2>11 DEF line
  <1>4. ls = [r \in 1..s.y + 1 |-> ls[r]]
    BY <1>1
  <1> QED
    BY <1>3, <1>4 DEF Lines

(* t is the lines ls with another last one.                                *)
LastReplaced(t, ls, line) ==
  /\ t \in Seq(Seq(Entries)) /\ Len(t) = Len(ls)
  /\ \A r \in 1..Len(ls) - 1 : t[r] = ls[r]
  /\ t[Len(ls)] = line

(* What Terminal does to a list of lines, line by line.                    *)
LEMMA LastLine ==
  ASSUME NEW ls \in Seq(Seq(Entries)), Len(ls) > 0, NEW line \in Seq(Entries)
  PROVE  LastReplaced(Append(Front(ls), line), ls, line)
  <1> DEFINE n == Len(ls)
             f == SubSeq(ls, 1, n - 1)
  <1>1. n \in Nat /\ n - 1 \in Nat /\ n - 1 + 1 = n
    BY SMT
  <1>2. f \in Seq(Seq(Entries)) /\ Len(f) = n - 1 /\ \A r \in 1..n - 1 : f[r] = ls[r]
    <2>1. \A r \in 1..n - 1 : r \in 1..n
      BY <1>1, SMT
    <2> QED
      BY <1>1, <2>1, SMT
  <1> HIDE DEF f, n
  <1>3. /\ Append(f, line) \in Seq(Seq(Entries)) /\ Len(Append(f, line)) = n
        /\ \A r \in 1..n - 1 : Append(f, line)[r] = f[r]
        /\ Append(f, line)[n] = line
    BY <1>1, <1>2, SMT
  <1> QED
    BY <1>2, <1>3 DEF LastReplaced, Front, f, n

LEMMA NewLineLines ==
  ASSUME NEW S, NEW ls \in Seq(Seq(S)), Len(ls) \in 1..VGA_HEIGHT
  PROVE  LET t == T!NewLine(ls)
             n == IF Len(ls) < VGA_HEIGHT THEN Len(ls) + 1 ELSE VGA_HEIGHT
         IN  /\ t \in Seq(Seq(S)) /\ Len(t) = n /\ t[n] = <<>>
             /\ \A r \in 1..n - 1 : t[r] = IF Len(ls) < VGA_HEIGHT THEN ls[r] ELSE ls[r + 1]
  <1> DEFINE t == T!NewLine(ls)
             n == IF Len(ls) < VGA_HEIGHT THEN Len(ls) + 1 ELSE VGA_HEIGHT
  <1>1. <<>> \in Seq(S) /\ VGA_HEIGHT \in Nat \ {0} /\ Len(ls) \in Nat
    BY ConsoleAssumption
  <1>2. CASE Len(ls) < VGA_HEIGHT
    <2>1. t = Append(ls, <<>>) /\ n = Len(ls) + 1
      BY <1>2 DEF T!NewLine
    <2> HIDE DEF t, n
    <2>2. t \in Seq(Seq(S)) /\ Len(t) = n /\ t[n] = <<>> /\ \A r \in 1..n - 1 : t[r] = ls[r]
      BY <1>1, <2>1, SMT
    <2> QED
      BY <1>2, <2>2 DEF t, n
  <1>3. CASE ~(Len(ls) < VGA_HEIGHT)
    <2> DEFINE tail == Tail(ls)
    <2>1. t = Append(tail, <<>>) /\ n = VGA_HEIGHT /\ Len(ls) = n
      <3>1. Len(ls) = VGA_HEIGHT
        BY <1>1, <1>3, SMT
      <3> QED
        BY <1>3, <3>1 DEF T!NewLine
    <2> HIDE DEF t, n
    <2>2. ls # <<>> /\ n \in Nat \ {0}
      BY <1>1, <2>1
    <2>3. tail \in Seq(Seq(S)) /\ Len(tail) = n - 1 /\ \A r \in 1..n - 1 : tail[r] = ls[r + 1]
      BY <1>1, <2>1, <2>2, HeadTailProperties
    <2> HIDE DEF tail
    <2>4. t \in Seq(Seq(S)) /\ Len(t) = n /\ t[n] = <<>> /\ \A r \in 1..n - 1 : t[r] = tail[r]
      BY <1>1, <2>1, <2>2, <2>3, SMT
    <2> QED
      BY <1>3, <2>3, <2>4 DEF t, n
  <1> QED
    BY <1>2, <1>3

(* The screen after a new line, scrolled or not, has the lines it had, and *)
(* an empty one.  The cursor may have just passed the end of the screen.   *)
LEMMA NewlineShows ==
  ASSUME NEW s, AtLineEnd(s), Blank(s), g_color \in Colors,
         NEW ls \in Seq(Seq(Entries)), Len(ls) \in 1..VGA_HEIGHT,
         s.y >= VGA_HEIGHT - 1 => Len(ls) = VGA_HEIGHT,
         s.y < VGA_HEIGHT - 1 => Len(ls) = s.y + 1,
         \A r \in 1..Len(ls) : RowShows(s.buffer, r, ls[r])
  PROVE  Shows(console_newline(s), T!NewLine(ls))
  <1> DEFINE t == T!NewLine(ls)
             n == IF Len(ls) < VGA_HEIGHT THEN Len(ls) + 1 ELSE VGA_HEIGHT
             u == console_newline(s)
  <1>1. VGA_WIDTH \in Nat \ {0} /\ VGA_HEIGHT \in Nat \ {0} /\ VGA_TOTAL_ITEMS \in Nat
        /\ s.y \in 0..VGA_HEIGHT /\ s.buffer \in [Items -> Entries] /\ Len(ls) \in Nat
    BY ConsoleAssumption DEF AtLineEnd, Screens
  <1>2. Placed(u) /\ Blank(u)
    BY NewlinePlaced, NewlineBlank
  <1>3. /\ t \in Seq(Seq(Entries)) /\ Len(t) = n /\ t[n] = <<>>
        /\ \A r \in 1..n - 1 : t[r] = IF Len(ls) < VGA_HEIGHT THEN ls[r] ELSE ls[r + 1]
    BY NewLineLines
  <1> HIDE DEF t
  <1>4. n \in 1..VGA_HEIGHT /\ n - 1 \in Nat /\ n \in Nat
    BY <1>1, SMT
  <1>5. /\ u.y = n - 1 /\ u.x = 0 /\ u.index = (n - 1) * VGA_WIDTH
        /\ u.buffer = IF s.y >= VGA_HEIGHT - 1 THEN Scrolled(s.buffer) ELSE s.buffer
    <2>1. CASE s.y >= VGA_HEIGHT - 1
      <3>1. n = VGA_HEIGHT
        BY <1>1, <2>1, SMT
      <3> QED
        BY <2>1, <3>1 DEF console_newline, Console
    <2>2. CASE ~(s.y >= VGA_HEIGHT - 1)
      <3>1. n = s.y + 1 + 1 /\ n - 1 = s.y + 1
        BY <1>1, <2>2, SMT
      <3> QED
        BY <2>2, <3>1 DEF console_newline, Console
    <2> QED
      BY <2>1, <2>2
  <1>6. s.y >= VGA_HEIGHT - 1 <=> ~(Len(ls) < VGA_HEIGHT)
    BY <1>1, SMT
  <1> HIDE DEF n, u
  <1>7. RowShows(u.buffer, n, t[n])
    <2>1. ASSUME NEW c \in 1..VGA_WIDTH PROVE Cell(u.buffer, n, c).ch = 0
      <3>1. (n - 1) * VGA_WIDTH + c - 1 \in Items /\ (n - 1) * VGA_WIDTH \in Nat
        BY <1>4, CellPlace
      <3>2. (n - 1) * VGA_WIDTH + c - 1 >= u.index
        BY <1>1, <1>5, <3>1, SMT
      <3> QED
        BY <1>2, <3>1, <3>2 DEF Blank, Cell
    <2>2. <<>> \in Seq(Entries) /\ Len(<<>>) = 0 /\ 0 =< VGA_WIDTH
          /\ \A c \in 1..VGA_WIDTH : ~(c =< 0)
      BY <1>1, SMT
    <2>3. t[n] \in Seq(Entries) /\ Len(t[n]) = 0
      BY <1>3, <2>2
    <2> QED
      BY <2>1, <2>2, <2>3 DEF RowShows
  <1>8. ASSUME NEW r \in 1..n - 1 PROVE RowShows(u.buffer, r, t[r])
    <2>1. r \in 1..VGA_HEIGHT /\ r + 1 \in Nat
      BY <1>1, <1>4, SMT
    <2>2. CASE Len(ls) < VGA_HEIGHT
      <3>1. r \in 1..Len(ls)
        BY <1>1, <2>2 DEF n
      <3> QED
        BY <1>3, <1>5, <1>6, <2>2, <3>1
    <2>3. CASE ~(Len(ls) < VGA_HEIGHT)
      <3>1. r + 1 \in 1..Len(ls) /\ r + 1 \in 1..VGA_HEIGHT /\ r + 1 - 1 = r
        BY <1>1, <2>1, <2>3, SMT DEF n
      <3>2. RowShows(s.buffer, r + 1, t[r])
        BY <1>3, <2>3, <3>1
      <3>3. ASSUME NEW c \in 1..VGA_WIDTH
            PROVE  Cell(u.buffer, r, c) = Cell(s.buffer, r + 1, c)
        <4> DEFINE p == (r - 1) * VGA_WIDTH
                   q == r * VGA_WIDTH
        <4>1. /\ p + c - 1 \in Items /\ p \in Nat /\ q = p + VGA_WIDTH
          BY <2>1, CellPlace
        <4>2. q + c - 1 \in Items
          BY <3>1, CellPlace
        <4>3. Cell(u.buffer, r, c) = u.buffer[p + c - 1]
              /\ Cell(s.buffer, r + 1, c) = s.buffer[q + c - 1]
          BY <3>1 DEF Cell
        <4> HIDE DEF p, q
        <4>4. p + c - 1 < VGA_TOTAL_ITEMS - VGA_WIDTH /\ p + c - 1 + VGA_WIDTH = q + c - 1
          BY <1>1, <4>1, <4>2, SMT DEF Items
        <4>5. Scrolled(s.buffer)[p + c - 1] = s.buffer[q + c - 1]
          BY <4>1, <4>4 DEF Scrolled
        <4> QED
          BY <1>5, <1>6, <2>3, <4>3, <4>5
      <3> QED
        BY <3>2, <3>3 DEF RowShows
    <2> QED
      BY <2>2, <2>3
  <1>9. \A r \in 1..n : RowShows(u.buffer, r, t[r])
    <2>1. \A r \in 1..n : r = n \/ r \in 1..n - 1
      BY <1>4, SMT
    <2> QED
      BY <1>7, <1>8, <2>1
  <1>10. u.y + 1 = n /\ Len(t[n]) = u.x
    BY <1>3, <1>4, <1>5, SMT
  <1>11. Shows(u, t)
    BY <1>3, <1>9, <1>10 DEF Shows
  <1> QED
    BY <1>11 DEF u, t

LEMMA RowsAbove ==
  ASSUME NEW r \in Nat, NEW q \in Nat, r =< q
  PROVE  r * VGA_WIDTH =< q * VGA_WIDTH
  <1>1. VGA_WIDTH \in Nat /\ q - r \in Nat
    BY ConsoleAssumption, SMT
  <1>2. (q - r) * VGA_WIDTH \in Nat /\ (q - r) * VGA_WIDTH = q * VGA_WIDTH - r * VGA_WIDTH
    BY <1>1, SMT
  <1>3. q * VGA_WIDTH \in Nat /\ r * VGA_WIDTH \in Nat
    BY <1>1, SMT
  <1> QED
    BY <1>2, <1>3, SMT

(* Changing the buffer at and after the place to write at leaves the lines *)
(* above alone.                                                            *)
LEMMA RowsKept ==
  ASSUME NEW s, Placed(s), NEW buffer \in [Items -> Entries], NEW i \in Nat,
         i >= s.y * VGA_WIDTH,
         \A p \in Items : p < i => buffer[p] = s.buffer[p],
         NEW r \in 1..s.y, NEW line, RowShows(s.buffer, r, line)
  PROVE  RowShows(buffer, r, line)
  <1>1. s.y \in Nat /\ s.y \in 0..VGA_HEIGHT - 1 /\ VGA_HEIGHT \in Nat /\ s.y * VGA_WIDTH \in Nat
    BY PlacedFacts DEF Placed
  <1>2. r \in 1..VGA_HEIGHT /\ r \in Nat /\ r =< s.y
    BY <1>1, SMT
  <1>3. r * VGA_WIDTH =< s.y * VGA_WIDTH
    BY <1>1, <1>2, RowsAbove
  <1>4. ASSUME NEW c \in 1..VGA_WIDTH PROVE Cell(buffer, r, c) = Cell(s.buffer, r, c)
    <2> DEFINE p == (r - 1) * VGA_WIDTH + c - 1
               f == r * VGA_WIDTH
               e == s.y * VGA_WIDTH
    <2>1. p \in Items /\ p < f /\ f = (r - 1) * VGA_WIDTH + VGA_WIDTH
          /\ (r - 1) * VGA_WIDTH \in Nat
      BY <1>2, CellPlace
    <2>2. Cell(buffer, r, c) = buffer[p] /\ Cell(s.buffer, r, c) = s.buffer[p]
      BY DEF Cell
    <2>3. p \in Int /\ f \in Int /\ e \in Int /\ f =< e
      BY <1>1, <1>3, <2>1, ConsoleAssumption DEF Items
    <2> HIDE DEF p, f
    <2>4. e =< i
      OBVIOUS
    <2> HIDE DEF e
    <2>5. p < i
      BY <2>1, <2>3, <2>4, SMT
    <2> QED
      BY <2>1, <2>2, <2>5
  <1> QED
    BY <1>4 DEF RowShows

LEMMA PutShows ==
  ASSUME NEW s, Placed(s), Blank(s), NEW ls, Shows(s, ls), NEW ch \in 1..127,
         g_color \in Colors
  PROVE  Shows(Put(s, ch), T!Shown(ls, vga_item_entry(ch, g_color)))
  <1> DEFINE m == Len(ls)
             e == vga_item_entry(ch, g_color)
             old == ls[m]
             line == Append(old, e)
             longer == Append(Front(ls), line)
             buffer == [s.buffer EXCEPT ![s.index] = e]
             base == s.y * VGA_WIDTH
  <1>1. s.x \in 0..VGA_WIDTH - 1 /\ s.y \in 0..VGA_HEIGHT - 1 /\ s.index = base + s.x
    BY DEF Placed
  <1>2. s.buffer \in [Items -> Entries] /\ s.index \in Nat /\ s.index \in Items
        /\ s.x \in Nat /\ s.y \in Nat /\ VGA_WIDTH \in Nat \ {0} /\ VGA_HEIGHT \in Nat \ {0}
        /\ base \in Nat
    BY PlacedFacts
  <1>3. ls \in Seq(Seq(Entries)) /\ m = s.y + 1 /\ Len(old) = s.x
        /\ \A r \in 1..m : RowShows(s.buffer, r, ls[r])
    BY DEF Shows
  <1>4. e \in Entries /\ e.ch # 0
    <2>1. ch \in 0..127 /\ ch # 0
      OBVIOUS
    <2> QED
      BY <2>1, EntryType DEF vga_item_entry
  <1>5. buffer \in [Items -> Entries] /\ buffer[s.index] = e
        /\ \A p \in Items : p # s.index => buffer[p] = s.buffer[p]
    BY <1>2, <1>4
  <1> HIDE DEF buffer
  <1>6. m \in 1..VGA_HEIGHT /\ m - 1 = s.y /\ m > 0
    <2>1. m = s.y + 1
      BY <1>3
    <2> HIDE DEF m
    <2>2. QED
      BY <1>1, <1>2, <2>1, SMT
  <1>7. old \in Seq(Entries) /\ RowShows(s.buffer, m, old)
    BY <1>3, <1>6
  <1>8. line \in Seq(Entries) /\ Len(line) = s.x + 1 /\ line[s.x + 1] = e
        /\ \A c \in 1..s.x : line[c] = old[c]
    <2> HIDE DEF e, old
    <2> QED
      BY <1>2, <1>3, <1>4, <1>7, SMT
  <1>9. longer \in Seq(Seq(Entries)) /\ Len(longer) = m /\ longer[m] = line
        /\ \A r \in 1..m - 1 : longer[r] = ls[r]
    <2>1. Len(ls) > 0 /\ ls \in Seq(Seq(Entries)) /\ line \in Seq(Entries)
      BY <1>3, <1>6, <1>8
    <2> HIDE DEF line
    <2>2. LastReplaced(longer, ls, line)
      BY <2>1, LastLine
    <2> QED
      BY <2>2 DEF LastReplaced
  <1>10. T!Shown(ls, e) = IF s.x + 1 < VGA_WIDTH THEN longer ELSE T!NewLine(longer)
    <2>1. T!Last(ls) = old /\ T!Front(ls) = Front(ls)
      BY DEF T!Last, T!Front, Front
    <2> QED
      BY <1>3, <2>1 DEF T!Shown
  <1> HIDE DEF longer, line, e, old
  <1>11. RowShows(buffer, m, line)
    <2>1. ASSUME NEW c \in 1..VGA_WIDTH
          PROVE  IF c =< s.x + 1 THEN Cell(buffer, m, c) = line[c] /\ line[c].ch # 0
                 ELSE Cell(buffer, m, c).ch = 0
      <3>1. base + c - 1 \in Items
        BY <1>6, CellPlace
      <3>2. Cell(buffer, m, c) = buffer[base + c - 1]
            /\ Cell(s.buffer, m, c) = s.buffer[base + c - 1]
        BY <1>6 DEF Cell
      <3>3. IF c =< s.x THEN Cell(s.buffer, m, c) = old[c] /\ old[c].ch # 0
            ELSE Cell(s.buffer, m, c).ch = 0
        BY <1>3, <1>7 DEF RowShows
      <3> HIDE DEF base
      <3>4. (base + c - 1 = s.index <=> c = s.x + 1) /\ (c =< s.x + 1 <=> c =< s.x \/ c = s.x + 1)
            /\ (c =< s.x => c \in 1..s.x) /\ ~(s.x + 1 =< s.x)
        BY <1>1, <1>2, SMT
      <3>5. CASE c = s.x + 1
        BY <1>4, <1>5, <1>8, <3>2, <3>4, <3>5
      <3>6. CASE c # s.x + 1 /\ c =< s.x
        BY <1>5, <1>8, <3>1, <3>2, <3>3, <3>4, <3>6
      <3>7. CASE c # s.x + 1 /\ ~(c =< s.x)
        BY <1>5, <3>1, <3>2, <3>3, <3>4, <3>7
      <3> QED
        BY <3>5, <3>6, <3>7
    <2>2. s.x + 1 =< VGA_WIDTH
      BY <1>1, <1>2, SMT
    <2> QED
      BY <1>8, <2>1, <2>2 DEF RowShows
  <1>12. ASSUME NEW r \in 1..m - 1 PROVE RowShows(buffer, r, longer[r])
    <2>1. r \in 1..s.y /\ r \in 1..m
      BY <1>2, <1>3, <1>6, SMT
    <2>2. s.index >= s.y * VGA_WIDTH
      <3> HIDE DEF base
      <3>1. s.index >= base
        BY <1>1, <1>2, SMT
      <3> QED
        BY <3>1 DEF base
    <2>3. \A p \in Items : p < s.index => buffer[p] = s.buffer[p]
      <3>1. \A p \in Items : p < s.index => p # s.index
        BY <1>2, SMT DEF Items
      <3> QED
        BY <1>5, <3>1
    <2> QED
      BY <1>2, <1>3, <1>5, <1>9, <2>1, <2>2, <2>3, RowsKept
  <1>13. \A r \in 1..m : RowShows(buffer, r, longer[r])
    <2>1. \A r \in 1..m : r = m \/ r \in 1..m - 1
      BY <1>6, SMT
    <2> QED
      BY <1>9, <1>11, <1>12, <2>1
  <1> DEFINE v == Console(buffer, s.index + 1, s.x, s.y)
  <1>14. v.buffer = buffer /\ v.index = s.index + 1 /\ v.x = s.x /\ v.y = s.y
    BY DEF Console
  <1>15. CASE s.x + 1 < VGA_WIDTH
    <2>1. Put(s, ch) = Console(buffer, s.index + 1, s.x + 1, s.y)
      BY <1>15 DEF Put, buffer, e
    <2>2. Put(s, ch).buffer = buffer /\ Put(s, ch).x = s.x + 1 /\ Put(s, ch).y = s.y
      BY <2>1 DEF Console
    <2>3. Shows(Put(s, ch), longer)
      BY <1>3, <1>8, <1>9, <1>13, <2>2 DEF Shows
    <2> QED
      BY <1>10, <1>15, <2>3 DEF e
  <1>16. CASE ~(s.x + 1 < VGA_WIDTH)
    <2>1. (s.y + 1) * VGA_WIDTH = base + VGA_WIDTH
          /\ base + VGA_WIDTH =< VGA_HEIGHT * VGA_WIDTH
          /\ VGA_HEIGHT * VGA_WIDTH \in Nat
      BY <1>1, RowInside
    <2>2. s.index + 1 = (s.y + 1) * VGA_WIDTH /\ s.index + 1 \in Nat
          /\ s.index + 1 =< VGA_HEIGHT * VGA_WIDTH
      <3> HIDE DEF base
      <3> QED
        BY <1>1, <1>2, <1>16, <2>1, SMT
    <2>3. Put(s, ch) = console_newline(v)
      <3>1. CASE s.y + 1 < VGA_HEIGHT
        <4>1. ~(s.y >= VGA_HEIGHT - 1)
          BY <1>2, <3>1, SMT
        <4>2. Put(s, ch) = Console(buffer, s.index + 1, 0, s.y + 1)
          BY <1>16, <3>1 DEF Put, buffer, e
        <4> HIDE DEF v
        <4> QED
          BY <1>14, <2>2, <4>1, <4>2 DEF console_newline
      <3>2. CASE ~(s.y + 1 < VGA_HEIGHT)
        <4> DEFINE u == Console(buffer, s.index + 1, 0, s.y + 1)
        <4>1. s.y >= VGA_HEIGHT - 1 /\ s.y + 1 >= VGA_HEIGHT - 1
          BY <1>2, <3>2, SMT
        <4>2. Put(s, ch) = console_newline(u)
          BY <1>16, <3>2 DEF Put, buffer, e
        <4>3. u.buffer = buffer /\ u.y = s.y + 1
          BY DEF Console
        <4> HIDE DEF u, v
        <4> QED
          BY <1>14, <4>1, <4>2, <4>3 DEF console_newline
      <3> QED
        BY <3>1, <3>2
    <2>4. v \in Screens
      <3>1. s.y * VGA_WIDTH + s.x \in Int /\ s.index + 1 \in Int /\ s.y \in Int /\ s.x \in Int
        BY <1>2, SMT
      <3> QED
        BY <1>5, <3>1 DEF Console, Screens
    <2> HIDE DEF v
    <2>5. AtLineEnd(v)
      <3>1. s.y \in 0..VGA_HEIGHT /\ (s.y + 1) * VGA_WIDTH \in Int
            /\ s.index + 1 =< (s.y + 1) * VGA_WIDTH
        BY <1>1, <1>2, <2>2, SMT
      <3> QED
        BY <1>14, <2>2, <2>4, <3>1 DEF AtLineEnd
    <2>6. Blank(v)
      <3>1. ASSUME NEW i \in Items, i >= s.index + 1 PROVE i >= s.index /\ i # s.index
        BY <1>2, <3>1, SMT DEF Items
      <3> QED
        BY <1>5, <1>14, <3>1 DEF Blank
    <2>7. /\ Len(longer) \in 1..VGA_HEIGHT
          /\ v.y >= VGA_HEIGHT - 1 => Len(longer) = VGA_HEIGHT
          /\ v.y < VGA_HEIGHT - 1 => Len(longer) = v.y + 1
      <3>1. s.y >= VGA_HEIGHT - 1 => m = VGA_HEIGHT
        BY <1>1, <1>2, <1>3, SMT
      <3> QED
        BY <1>3, <1>6, <1>9, <1>14, <3>1
    <2>8. Shows(console_newline(v), T!NewLine(longer))
      BY <1>9, <1>13, <1>14, <2>5, <2>6, <2>7, NewlineShows
    <2> QED
      BY <1>10, <1>16, <2>3, <2>8 DEF e
  <1> QED
    BY <1>15, <1>16

(* Erasing down to a bound takes the last character of the line away, or   *)
(* changes nothing that shows.                                             *)
LEMMA UngetBoundShows ==
  ASSUME NEW s, Placed(s), Blank(s), NEW ls, Shows(s, ls), NEW n \in 0..255,
         g_color \in Colors
  PROVE  LET u == console_ungetchar_bound(s, n) IN
         \/ Shows(u, ls)
         \/ Last(ls) # <<>> /\ Shows(u, Append(Front(ls), Front(Last(ls))))
  <1> DEFINE m == Len(ls)
             old == ls[m]
             base == s.y * VGA_WIDTH
             here == Erased(s.buffer, s.index)
             both == Erased(here, s.index - 1)
             u == console_ungetchar_bound(s, n)
  <1>1. s.x \in 0..VGA_WIDTH - 1 /\ s.y \in 0..VGA_HEIGHT - 1 /\ s.index = base + s.x
        /\ s \in Screens
    BY DEF Placed
  <1>2. s.buffer \in [Items -> Entries] /\ s.index \in Nat /\ s.index \in Items
        /\ s.x \in Nat /\ s.y \in Nat /\ VGA_WIDTH \in Nat \ {0} /\ VGA_HEIGHT \in Nat \ {0}
        /\ base \in Nat
    BY PlacedFacts
  <1>3. ls \in Seq(Seq(Entries)) /\ m = s.y + 1 /\ Len(old) = s.x
        /\ \A r \in 1..m : RowShows(s.buffer, r, ls[r])
    BY DEF Shows
  <1>4. m \in 1..VGA_HEIGHT /\ m - 1 = s.y /\ m > 0
    <2>1. m = s.y + 1 /\ s.y \in 0..VGA_HEIGHT - 1 /\ VGA_HEIGHT \in Nat
      BY <1>1, <1>2, <1>3
    <2> HIDE DEF m
    <2> QED
      BY <2>1, SMT
  <1>5. old \in Seq(Entries) /\ RowShows(s.buffer, m, old) /\ Last(ls) = old
    BY <1>3, <1>4 DEF Last
  <1>6. here \in [Items -> Entries] /\ both \in [Items -> Entries]
        /\ here[s.index].ch = 0
        /\ (\A p \in Items : p # s.index => here[p] = s.buffer[p])
        /\ (s.index - 1 \in Items => both[s.index - 1].ch = 0)
        /\ (\A p \in Items : p # s.index - 1 => both[p] = here[p])
    <2>1. vga_item_entry(0, g_color).ch = 0
      BY DEF vga_item_entry
    <2>2. here \in [Items -> Entries] /\ here[s.index].ch = 0
          /\ (\A p \in Items : p # s.index => here[p] = s.buffer[p])
      BY <1>2, <2>1, ErasedType DEF Erased
    <2> HIDE DEF here
    <2>3. both \in [Items -> Entries]
          /\ (s.index - 1 \in Items => both[s.index - 1].ch = 0)
          /\ (\A p \in Items : p # s.index - 1 => both[p] = here[p])
      BY <2>1, <2>2, ErasedType DEF Erased
    <2> QED
      BY <2>2, <2>3
  <1>7. s.index % VGA_WIDTH = s.x
    BY <1>1, <1>2, ColumnOf, ZenonT(60)
  <1>8. CASE s.index % VGA_WIDTH > n /\ n > 0
    <2> DEFINE line == Front(old)
               shorter == Append(Front(ls), line)
    <2>1. s.x >= n /\ s.x > 0 /\ s.x - 1 \in Nat /\ s.index - 1 \in Nat /\ s.index - 1 >= base
      <3> HIDE DEF base
      <3> QED
        BY <1>1, <1>2, <1>7, <1>8, SMT
    <2>2. u = Console(both, s.index - 1, s.x - 1, s.y)
      BY <1>8, <2>1 DEF console_ungetchar_bound, Back
    <2>3. u.buffer = both /\ u.x = s.x - 1 /\ u.y = s.y
      BY <2>2 DEF Console
    <2> HIDE DEF both, here, u
    <2>4. line \in Seq(Entries) /\ Len(line) = s.x - 1 /\ \A c \in 1..s.x - 1 : line[c] = old[c]
      <3> DEFINE k == s.x - 1
      <3>1. Len(old) - 1 = k /\ k \in Nat /\ \A c \in 1..k : c \in 1..Len(old)
        BY <1>2, <1>3, <2>1, SMT
      <3> HIDE DEF k, old
      <3>2. line = SubSeq(old, 1, k)
        BY <3>1 DEF Front
      <3> HIDE DEF line
      <3>3. line \in Seq(Entries) /\ Len(line) = k /\ \A c \in 1..k : line[c] = old[c]
        BY <1>5, <3>1, <3>2, SMT
      <3> QED
        BY <3>3 DEF k
    <2> HIDE DEF line
    <2>5. shorter \in Seq(Seq(Entries)) /\ Len(shorter) = Len(ls)
          /\ (\A r \in 1..Len(ls) - 1 : shorter[r] = ls[r]) /\ shorter[Len(ls)] = line
      <3>1. Len(ls) > 0 /\ ls \in Seq(Seq(Entries)) /\ line \in Seq(Entries)
        BY <1>3, <1>4, <2>4
      <3>2. LastReplaced(shorter, ls, line)
        BY <3>1, LastLine
      <3> QED
        BY <3>2 DEF LastReplaced
    <2> HIDE DEF shorter
    <2>6. RowShows(both, m, line)
      <3>1. ASSUME NEW c \in 1..VGA_WIDTH
            PROVE  IF c =< s.x - 1 THEN Cell(both, m, c) = line[c] /\ line[c].ch # 0
                   ELSE Cell(both, m, c).ch = 0
        <4>1. base + c - 1 \in Items
          BY <1>4, CellPlace
        <4>2. Cell(both, m, c) = both[base + c - 1]
              /\ Cell(s.buffer, m, c) = s.buffer[base + c - 1]
          BY <1>4 DEF Cell
        <4>3. IF c =< s.x THEN Cell(s.buffer, m, c) = old[c] /\ old[c].ch # 0
              ELSE Cell(s.buffer, m, c).ch = 0
          BY <1>3, <1>5 DEF RowShows
        <4> HIDE DEF base, old
        <4>4. /\ base + c - 1 = s.index - 1 <=> c = s.x
              /\ base + c - 1 = s.index <=> c = s.x + 1
              /\ c =< s.x - 1 => c =< s.x /\ c # s.x /\ c # s.x + 1 /\ c \in 1..s.x - 1
              /\ ~(c =< s.x - 1) => c = s.x \/ c = s.x + 1 \/ ~(c =< s.x)
          BY <1>1, <1>2, <2>1, SMT
        <4>5. CASE c =< s.x - 1
          BY <1>6, <2>4, <4>1, <4>2, <4>3, <4>4, <4>5
        <4>6. CASE ~(c =< s.x - 1)
          <5>1. CASE c = s.x
            BY <1>6, <4>1, <4>2, <4>4, <4>6, <5>1
          <5>2. CASE c # s.x /\ c = s.x + 1
            BY <1>6, <4>1, <4>2, <4>4, <4>6, <5>2
          <5>3. CASE c # s.x /\ c # s.x + 1
            BY <1>6, <4>1, <4>2, <4>3, <4>4, <4>6, <5>3
          <5> QED
            BY <5>1, <5>2, <5>3
        <4> QED
          BY <4>5, <4>6
      <3>2. s.x - 1 =< VGA_WIDTH
        BY <1>1, <1>2, SMT
      <3> QED
        BY <2>4, <3>1, <3>2 DEF RowShows
    <2>7. ASSUME NEW r \in 1..m - 1 PROVE RowShows(both, r, shorter[r])
      <3>1. r \in 1..s.y /\ r \in 1..m
        BY <1>2, <1>3, <1>4, SMT
      <3>2. \A p \in Items : p < s.index - 1 => both[p] = s.buffer[p]
        <4>1. \A p \in Items : p < s.index - 1 => p # s.index /\ p # s.index - 1
          BY <1>2, SMT DEF Items
        <4> QED
          BY <1>6, <4>1
      <3>3. RowShows(s.buffer, r, ls[r])
        BY <1>3, <3>1
      <3>4. RowShows(both, r, ls[r])
        BY <1>6, <2>1, <3>1, <3>2, <3>3, RowsKept
      <3> QED
        BY <2>5, <3>4
    <2>8. \A r \in 1..m : RowShows(both, r, shorter[r])
      <3>1. \A r \in 1..m : r = m \/ r \in 1..m - 1
        BY <1>4, SMT
      <3> QED
        BY <2>5, <2>6, <2>7, <3>1
    <2>9. Shows(u, shorter)
      BY <1>3, <2>3, <2>4, <2>5, <2>8 DEF Shows
    <2>10. old # <<>>
      BY <1>3, <2>1
    <2> QED
      BY <1>5, <2>9, <2>10 DEF shorter, line, u
  <1>9. CASE ~(s.index % VGA_WIDTH > n /\ n > 0)
    <2>1. u = [s EXCEPT !.buffer = here]
      BY <1>9 DEF console_ungetchar_bound, EraseHere
    <2> HIDE DEF u, here, both
    <2>2. u.buffer = here /\ u.x = s.x /\ u.y = s.y
      BY <1>1, <2>1 DEF Screens
    <2>3. ASSUME NEW r \in 1..m PROVE RowShows(here, r, ls[r])
      <3>1. r \in 1..VGA_HEIGHT /\ RowShows(s.buffer, r, ls[r])
        <4>1. RowShows(s.buffer, r, ls[r]) /\ m \in 1..VGA_HEIGHT /\ VGA_HEIGHT \in Nat
          BY <1>2, <1>3, <1>4
        <4> HIDE DEF m
        <4>2. r \in 1..VGA_HEIGHT
          BY <4>1, SMT
        <4> QED
          BY <4>1, <4>2
      <3>2. ASSUME NEW p \in Items, here[p] # s.buffer[p]
            PROVE  here[p].ch = 0 /\ s.buffer[p].ch = 0
        <4>1. p = s.index /\ p >= s.index
          BY <1>2, <1>6, <3>2, SMT
        <4> QED
          BY <1>6, <4>1 DEF Blank
      <3>3. ASSUME NEW c \in 1..VGA_WIDTH
            PROVE  Cell(here, r, c) = Cell(s.buffer, r, c)
                   \/ (Cell(here, r, c).ch = 0 /\ Cell(s.buffer, r, c).ch = 0)
        <4> DEFINE p == (r - 1) * VGA_WIDTH + c - 1
        <4>1. p \in Items
          BY <3>1, CellPlace
        <4>2. Cell(here, r, c) = here[p] /\ Cell(s.buffer, r, c) = s.buffer[p]
          BY DEF Cell
        <4> HIDE DEF p
        <4> QED
          BY <3>2, <4>1, <4>2
      <3> DEFINE line == ls[r]
      <3> HIDE DEF line
      <3>4. RowShows(here, r, line)
        BY <3>1, <3>3 DEF RowShows, line
      <3> QED
        BY <3>4 DEF line
    <2>4. Shows(u, ls)
      BY <1>3, <2>2, <2>3 DEF Shows
    <2> QED
      BY <2>4 DEF u
  <1> QED
    BY <1>8, <1>9

(* Four blanks are printed as four characters are.                         *)
LEMMA PutcharShows ==
  ASSUME NEW s, Placed(s), Blank(s), NEW ls, Shows(s, ls), NEW ch \in -128..127,
         g_color \in Colors
  PROVE  LET u == console_putchar(s, ch)
             Drawn(t) == T!Shown(t, vga_item_entry(ch, g_color))
             Space(t) == T!Shown(t, vga_item_entry(32, g_color))
         IN  /\ ch = 10 => Shows(u, T!NewLine(ls))
             /\ ch = 9 => Shows(u, Space(Space(Space(Space(ls)))))
             /\ ch > 0 /\ ch \notin {9, 10} => Shows(u, Drawn(ls))
             /\ ~(ch > 0) => Shows(u, ls)
  <1>1. CASE ch = 10
    <2>1. console_putchar(s, ch) = console_newline(s)
      BY <1>1 DEF console_putchar
    <2>2. /\ ls \in Seq(Seq(Entries)) /\ Len(ls) = s.y + 1
          /\ \A r \in 1..Len(ls) : RowShows(s.buffer, r, ls[r])
      BY DEF Shows
    <2>3. s.y \in 0..VGA_HEIGHT - 1 /\ VGA_HEIGHT \in Nat /\ AtLineEnd(s)
      BY PlacedFacts DEF Placed
    <2>4. /\ s.y + 1 \in 1..VGA_HEIGHT
          /\ s.y >= VGA_HEIGHT - 1 => s.y + 1 = VGA_HEIGHT
      BY <2>3, SMT
    <2>5. Shows(console_newline(s), T!NewLine(ls))
      BY <2>2, <2>3, <2>4, NewlineShows
    <2> QED
      BY <1>1, <2>1, <2>5
  <1>2. CASE ch = 9
    <2> DEFINE Space(t) == T!Shown(t, vga_item_entry(32, g_color))
               a == Put(s, 32)
               b == Put(a, 32)
               d == Put(b, 32)
               la == Space(ls)
               lb == Space(la)
               ld == Space(lb)
    <2>0. 32 \in 0..127 /\ 32 \in 1..127
      OBVIOUS
    <2>1. \A t, l : Placed(t) /\ Blank(t) /\ Shows(t, l)
            => Placed(Put(t, 32)) /\ Blank(Put(t, 32)) /\ Shows(Put(t, 32), Space(l))
      BY <2>0, PutEffect, PutShows
    <2>2. console_putchar(s, ch) = Put(d, 32)
      BY <1>2 DEF console_putchar
    <2> HIDE DEF Space
    <2>3. Placed(a) /\ Blank(a) /\ Shows(a, la)
      BY <2>1
    <2> HIDE DEF a, la
    <2>4. Placed(b) /\ Blank(b) /\ Shows(b, lb)
      BY <2>1, <2>3
    <2> HIDE DEF b, lb
    <2>5. Placed(d) /\ Blank(d) /\ Shows(d, ld)
      BY <2>1, <2>4
    <2> HIDE DEF d, ld
    <2>6. Shows(Put(d, 32), Space(ld))
      BY <2>1, <2>5
    <2> QED
      BY <1>2, <2>2, <2>6 DEF Space, la, lb, ld
  <1>3. CASE ch # 10 /\ ch # 9 /\ ch > 0
    <2>1. console_putchar(s, ch) = Put(s, ch) /\ ch \in 1..127
      BY <1>3 DEF console_putchar
    <2> QED
      BY <1>3, <2>1, PutShows
  <1>4. CASE ch # 10 /\ ch # 9 /\ ~(ch > 0)
    <2>1. console_putchar(s, ch) = s
      BY <1>4 DEF console_putchar
    <2> QED
      BY <1>4, <2>1
  <1> QED
    BY <1>1, <1>2, <1>3, <1>4

LEMMA ClearedShows ==
  ASSUME NEW color \in Colors
  PROVE  Shows(Cleared(color), << <<>> >>)
  <1> DEFINE u == Cleared(color)
             ls == << <<>> >>
  <1>1. Placed(u) /\ Blank(u)
    BY ClearedIsSound
  <1>2. u.y = 0 /\ u.x = 0 /\ u.index = 0
    BY DEF Cleared, Console
  <1> HIDE DEF u
  <1>3. VGA_WIDTH \in Nat \ {0} /\ VGA_HEIGHT \in Nat \ {0} /\ 1 \in 1..VGA_HEIGHT
    BY ConsoleAssumption, SMT
  <1>4. RowShows(u.buffer, 1, <<>>)
    <2>1. ASSUME NEW c \in 1..VGA_WIDTH PROVE Cell(u.buffer, 1, c).ch = 0
      <3>1. (1 - 1) * VGA_WIDTH + c - 1 \in Items
        BY <1>3, CellPlace
      <3>2. (1 - 1) * VGA_WIDTH + c - 1 >= 0
        BY <3>1 DEF Items
      <3> QED
        BY <1>1, <1>2, <3>1, <3>2 DEF Blank, Cell
    <2>2. <<>> \in Seq(Entries) /\ Len(<<>>) = 0 /\ 0 =< VGA_WIDTH
          /\ \A c \in 1..VGA_WIDTH : ~(c =< 0)
      BY <1>3, SMT
    <2> QED
      BY <2>1, <2>2 DEF RowShows
  <1>5. ls \in Seq(Seq(Entries)) /\ Len(ls) = 1 /\ ls[1] = <<>> /\ Len(ls[1]) = 0
    OBVIOUS
  <1> HIDE DEF ls
  <1>6. \A r \in 1..Len(ls) : r = 1
    BY <1>5, SMT
  <1>7. Shows(u, ls)
    BY <1>2, <1>4, <1>5, <1>6 DEF Shows
  <1> QED
    BY <1>7 DEF u, ls

(* The inductive invariant.                                                *)
ShownInv == BlankInv /\ Shows(con, Lines(con))

(* Every step keeps the invariant and is a step of a terminal, or changes  *)
(* nothing that shows.                                                     *)
LEMMA ShownNext ==
  ASSUME "console_ungetchar" \notin Apis, "console_gotoxy" \notin Apis,
         "console_scroll" \notin Apis, ShownInv, [Next]_vars
  PROVE  ShownInv' /\ [T!Next]_(Lines(con))
  <1> DEFINE ls == Lines(con)
  <1>1. BlankInv /\ Placed(con) /\ Blank(con) /\ g_color \in Colors /\ Shows(con, ls)
    BY DEF ShownInv, BlankInv, CursorInv
  <1>2. BlankInv' /\ Placed(con') /\ Blank(con')
    <2>1. BlankInv'
      BY <1>1, BlankNext
    <2> QED
      BY <2>1 DEF BlankInv, CursorInv, Blank, Placed
  <1>3. ASSUME NEW next, Shows(con', next)
        PROVE  Lines(con') = next /\ ShownInv'
    <2>1. Lines(con') = next
      BY <1>2, <1>3, LinesRead
    <2> QED
      BY <1>2, <1>3, <2>1 DEF ShownInv
  <1> HIDE DEF ls
  <1>4. ASSUME NEW ch \in Chars, PutChar(ch) PROVE ShownInv' /\ [T!Next]_ls
    <2> DEFINE e == vga_item_entry(ch, g_color)
               b == vga_item_entry(32, g_color)
               after == T!Shown(T!Shown(T!Shown(T!Shown(ls, b), b), b), b)
    <2>1. ch \in -128..127 /\ con' = console_putchar(con, ch)
      BY <1>4, ConsoleAssumption DEF PutChar
    <2>2. /\ ch = 10 => Shows(con', T!NewLine(ls))
          /\ ch = 9 => Shows(con', after)
          /\ ch > 0 /\ ch \notin {9, 10} => Shows(con', T!Shown(ls, e))
          /\ ~(ch > 0) => Shows(con', ls)
      BY <1>1, <2>1, PutcharShows
    <2> HIDE DEF e, b, after
    <2>3. CASE ch = 10
      <3>1. Lines(con') = T!NewLine(ls) /\ ShownInv'
        BY <1>3, <2>2, <2>3
      <3> QED
        BY <3>1 DEF T!Next, ls
    <2>4. CASE ch = 9
      <3>1. Lines(con') = after /\ ShownInv'
        BY <1>3, <2>2, <2>4
      <3>2. b \in IF 9 \in Chars THEN [ch : {32}, color : Colors] ELSE {}
        BY <1>1, <2>4 DEF b, vga_item_entry
      <3> QED
        BY <3>1, <3>2 DEF T!Next, ls, after
    <2>5. CASE ch > 0 /\ ch \notin {9, 10}
      <3>1. Lines(con') = T!Shown(ls, e) /\ ShownInv'
        BY <1>3, <2>2, <2>5
      <3>2. e \in [ch : {c \in Chars : c > 0 /\ c \notin {9, 10}}, color : Colors]
        BY <1>1, <2>5 DEF e, vga_item_entry
      <3> QED
        BY <3>1, <3>2 DEF T!Next, ls
    <2>6. CASE ~(ch > 0)
      <3>1. Lines(con') = ls /\ ShownInv'
        BY <1>3, <2>2, <2>6
      <3> QED
        BY <3>1 DEF ls
    <2>7. ch = 10 \/ ch = 9 \/ (ch > 0 /\ ch \notin {9, 10}) \/ ~(ch > 0)
      OBVIOUS
    <2> QED
      BY <2>3, <2>4, <2>5, <2>6, <2>7
  <1>5. CASE Clear
    <2>1. Shows(con', << <<>> >>)
      BY <1>1, <1>5, ClearedShows DEF Clear
    <2>2. Lines(con') = << <<>> >> /\ ShownInv'
      BY <1>3, <2>1
    <2> QED
      BY <2>2 DEF T!Next, ls
  <1>6. ASSUME con' = con PROVE ShownInv' /\ [T!Next]_ls
    <2>1. Lines(con') = ls /\ ShownInv'
      BY <1>1, <1>3, <1>6
    <2> QED
      BY <2>1 DEF ls
  <1>7. ASSUME NEW n \in Bounds, UngetCharBound(n) PROVE ShownInv' /\ [T!Next]_ls
    <2> DEFINE shorter == Append(Front(ls), Front(Last(ls)))
    <2>1. n \in 0..255 /\ con' = console_ungetchar_bound(con, n)
      BY <1>7, ConsoleAssumption DEF UngetCharBound
    <2>2. Shows(con', ls) \/ (Last(ls) # <<>> /\ Shows(con', shorter))
      BY <1>1, <2>1, UngetBoundShows
    <2> HIDE DEF shorter
    <2>3. CASE Shows(con', ls)
      <3>1. Lines(con') = ls /\ ShownInv'
        BY <1>3, <2>3
      <3> QED
        BY <3>1 DEF ls
    <2>4. CASE Last(ls) # <<>> /\ Shows(con', shorter)
      <3>1. Lines(con') = shorter /\ ShownInv'
        BY <1>3, <2>4
      <3>2. T!Last(ls) # <<>> /\ shorter = Append(T!Front(ls), T!Front(T!Last(ls)))
        BY <2>4 DEF shorter, T!Last, T!Front, Last, Front
      <3> QED
        BY <3>1, <3>2 DEF T!Next, ls
    <2> QED
      BY <2>2, <2>3, <2>4
  <1>8. ASSUME NEW color \in Colors, SetTextColor(color) PROVE ShownInv' /\ [T!Next]_ls
    BY <1>6, <1>8 DEF SetTextColor
  <1>9. CASE UngetChar
    BY <1>9 DEF UngetChar
  <1>10. ASSUME NEW x \in 0..VGA_WIDTH - 1, NEW y \in 0..VGA_HEIGHT - 1, GotoXY(x, y)
         PROVE  ShownInv' /\ [T!Next]_ls
    BY <1>10 DEF GotoXY
  <1>11. CASE Scroll
    BY <1>11 DEF Scroll
  <1>12. CASE UNCHANGED vars
    BY <1>6, <1>12 DEF vars
  <1> QED
    BY <1>4, <1>5, <1>7, <1>8, <1>9, <1>10, <1>11, <1>12 DEF Next, ls

(* On every screen and every longer buffer, whatever the text, its colours *)
(* and the bounds it is erased to, what the buffer shows is what a         *)
(* terminal would: full lines wrap, tabs are four blanks, a scroll loses   *)
(* the first line and none other, and only the line written shrinks.       *)
THEOREM ShowsWhatATerminalWould ==
  ASSUME "console_ungetchar" \notin Apis, "console_gotoxy" \notin Apis,
         "console_scroll" \notin Apis
  PROVE  Spec => ImplementsTerminal
  <1>1. Init => ShownInv /\ T!Init
    <2> SUFFICES ASSUME Init PROVE ShownInv /\ T!Init
      OBVIOUS
    <2>1. Shows(con, << <<>> >>) /\ BlankInv /\ Placed(con)
      BY ClearedShows, ConsoleInit DEF Init, BlankInv, CursorInv
    <2>2. Lines(con) = << <<>> >>
      BY <2>1, LinesRead
    <2> QED
      BY <2>1, <2>2 DEF ShownInv, T!Init
  <1>2. ShownInv /\ [Next]_vars => ShownInv' /\ [T!Next]_(Lines(con))
    BY ShownNext
  <1> QED
    BY <1>1, <1>2, PTL DEF Spec, ImplementsTerminal, T!Spec

-----------------------------------------------------------------------------
(* Printf.  Induction for sets of numbers.                                 *)
LEMMA LeastOf ==
  ASSUME NEW S \in SUBSET Nat, S # {}
  PROVE  \E x \in S : \A y \in S : x <= y
<1> DEFINE R == OpToRel(<, Nat)
<1>1. IsWellFoundedOn(R, Nat)
  BY NatLessThanWellFounded
<1>2. \E x \in S : \A y \in S : ~(<<y, x>> \in R)
  <2> HIDE DEF R
  <2> QED
    BY <1>1, WFMin, Zenon
<1>3. PICK x \in S : \A y \in S : ~(<<y, x>> \in R)
  BY <1>2
<1>4. ASSUME NEW y \in S PROVE x <= y
  <2>1. ~(y < x)
    BY <1>3 DEF OpToRel
  <2> QED
    BY <2>1
<1> QED
  BY <1>4

LEMMA SetInduction ==
  ASSUME NEW S, 0 \in S, \A n \in Nat : n \in S => n + 1 \in S
  PROVE  \A n \in Nat : n \in S
<1> SUFFICES ASSUME Nat \ S # {} PROVE FALSE
  OBVIOUS
<1>1. PICK x \in Nat \ S : \A y \in Nat \ S : x <= y
  <2> DEFINE Others == Nat \ S
  <2>1. Others \in SUBSET Nat /\ Others # {}
    OBVIOUS
  <2> HIDE DEF Others
  <2>2. \E x \in Others : \A y \in Others : x <= y
    BY <2>1, LeastOf
  <2> QED
    BY <2>2 DEF Others
<1>2. x - 1 \in Nat /\ x - 1 \in S
  BY <1>1
<1> QED
  BY <1>1, <1>2

(* The number of itoa's loop, turn by turn.                                *)
IsLeft(left, ud, b) ==
  /\ left[0] = ud
  /\ \A k \in 1..WORD : left[k] = left[k - 1] \div b

LEMMA LeftDefined ==
  ASSUME NEW ud, NEW b
  PROVE  IsLeft(Left(ud, b), ud, b)
<1> DEFINE Op(v) == v \div b
           Good(n, h) == h = [k \in 0..n |-> IF k = 0 THEN ud ELSE Op(h[k - 1])]
           S == {n \in Nat : \E h : Good(n, h)}
           F == CHOOSE h : Good(WORD, h)
<1>1. Left(ud, b) = F
  BY DEF Left
<1> HIDE DEF Op
<1>2. 0 \in S
  <2> DEFINE h == [k \in 0..0 |-> ud]
  <2>1. Good(0, h)
    OBVIOUS
  <2> QED
    BY <2>1
<1>3. ASSUME NEW n \in Nat, n \in S PROVE n + 1 \in S
  <2>1. PICK h : Good(n, h)
    BY <1>3
  <2> DEFINE g == [k \in 0..n + 1 |-> IF k = n + 1 THEN Op(h[n]) ELSE h[k]]
  <2>2. (\A k \in 0..n : g[k] = h[k]) /\ g[n + 1] = Op(h[n])
    OBVIOUS
  <2>3. g = [k \in 0..n + 1 |-> g[k]]
    OBVIOUS
  <2> HIDE DEF g
  <2>4. ASSUME NEW k \in 0..n + 1 PROVE g[k] = IF k = 0 THEN ud ELSE Op(g[k - 1])
    <3>1. CASE k = 0
      BY <2>1, <2>2, <3>1
    <3>2. CASE k = n + 1
      <4>1. k - 1 = n /\ n \in 0..n /\ k # 0
        BY <3>2
      <4> QED
        BY <2>2, <3>2, <4>1
    <3>3. CASE k \in 1..n
      <4>1. k \in 0..n /\ k - 1 \in 0..n /\ k # 0
        BY <3>3
      <4>2. h[k] = Op(h[k - 1])
        BY <2>1, <4>1, Zenon
      <4> QED
        BY <2>2, <4>1, <4>2
    <3>4. k = 0 \/ k = n + 1 \/ k \in 1..n
      OBVIOUS
    <3> QED
      BY <3>1, <3>2, <3>3, <3>4
  <2>5. Good(n + 1, g)
    BY <2>3, <2>4, Zenon
  <2> QED
    BY <2>5
<1>4. WORD \in S
  <2> HIDE DEF S
  <2> QED
    BY <1>2, <1>3, SetInduction, WordAssumption
<1>5. Good(WORD, F)
  <2>1. \E h : Good(WORD, h)
    BY <1>4
  <2> HIDE DEF Good
  <2> QED
    BY <2>1
<1> HIDE DEF F
<1>6. (\A k \in 1..WORD : k \in 0..WORD /\ k # 0) /\ 0 \in 0..WORD
  BY WordAssumption
<1>7. F[0] = ud /\ \A k \in 1..WORD : F[k] = Op(F[k - 1])
  BY <1>5, <1>6, Zenon
<1> QED
  BY <1>1, <1>7, Zenon DEF IsLeft, Op

(* What a loop turn does to a number, for both divisors.                   *)
LEMMA DividedBy ==
  ASSUME NEW v \in Nat, NEW b \in {10, 16}
  PROVE  /\ v \div b \in Nat /\ v % b \in 0..b - 1 /\ v = b * (v \div b) + (v % b)
         /\ 10 * (v \div b) <= v
<1>1. CASE b = 10
  BY <1>1
<1>2. CASE b = 16
  BY <1>2
<1> QED
  BY <1>1, <1>2

(* It ends after at most ten turns, with an int of at most 32 bits.        *)
LEMMA LoopEnds ==
  ASSUME NEW ud \in 0..WORD - 1, NEW b \in {10, 16}
  PROVE  LET left == Left(ud, b)
             n == Divisions(left)
         IN  /\ IsLeft(left, ud, b)
             /\ \A k \in 0..WORD : left[k] \in Nat
             /\ n \in 1..WORD /\ n <= 10 /\ left[n] = 0
<1> DEFINE left == Left(ud, b)
           n == Divisions(left)
           Ends == {k \in 1..WORD : left[k] = 0}
<1>1. IsLeft(left, ud, b)
  BY LeftDefined
<1> HIDE DEF left
<1>2. WORD \in Nat /\ WORD > 1 /\ ud \in Nat /\ ud < WORD /\ WORD - 1 < 65536 * 65536
  BY WordAssumption
<1>3. \A k \in 0..WORD : left[k] \in Nat /\ (left[k] = 0 \/ left[k] + k <= ud)
  <2> DEFINE S == {k \in Nat : k <= WORD => left[k] \in Nat /\ (left[k] = 0 \/ left[k] + k <= ud)}
  <2>1. 0 \in S
    BY <1>1, <1>2 DEF IsLeft
  <2>2. ASSUME NEW k \in Nat, k \in S PROVE k + 1 \in S
    <3>1. SUFFICES ASSUME k + 1 <= WORD
                   PROVE  left[k + 1] \in Nat /\ (left[k + 1] = 0 \/ left[k + 1] + (k + 1) <= ud)
      OBVIOUS
    <3> DEFINE v == left[k]
               w == left[k + 1]
    <3>2. v \in Nat /\ (v = 0 \/ v + k <= ud)
      BY <1>2, <2>2, <3>1
    <3>3. k + 1 \in 1..WORD /\ (k + 1) - 1 = k
      BY <3>1, <1>2
    <3>4. w = v \div b
      BY <1>1, <3>3 DEF IsLeft
    <3> HIDE DEF v, w
    <3>5. w \in Nat /\ 10 * w <= v
      BY <3>2, <3>4, DividedBy
    <3>6. w = 0 \/ w + (k + 1) <= ud
      BY <1>2, <3>2, <3>5
    <3> QED
      BY <3>5, <3>6 DEF w
  <2>3. \A k \in Nat : k \in S
    <3> HIDE DEF S
    <3> QED
      BY <2>1, <2>2, SetInduction
  <2> QED
    BY <1>2, <2>3
<1>4. left[WORD] = 0
  BY <1>2, <1>3
<1>5. PICK m \in Ends : \A k \in Ends : m <= k
  <2>1. Ends \in SUBSET Nat /\ WORD \in Ends
    BY <1>2, <1>4
  <2> HIDE DEF Ends
  <2> QED
    BY <2>1, LeastOf
<1>6. m \in 1..WORD /\ left[m] = 0 /\ \A k \in 1..m - 1 : left[k] # 0
  BY <1>2, <1>5
<1>7. n \in 1..WORD /\ left[n] = 0 /\ \A k \in 1..n - 1 : left[k] # 0
  BY <1>6 DEF Divisions
<1> HIDE DEF n
<1>8. n <= 10
  <2>1. SUFFICES ASSUME n > 10 PROVE FALSE
    BY <1>2, <1>7
  <2>2. ASSUME NEW k \in 1..10
        PROVE  left[k - 1] \in Nat /\ left[k] \in Nat /\ 10 * left[k] <= left[k - 1]
    <3>1. k \in 1..WORD /\ k - 1 \in 0..WORD
      BY <1>2, <1>7, <2>1
    <3>2. left[k - 1] \in Nat /\ left[k] = left[k - 1] \div b
      BY <1>1, <1>3, <3>1 DEF IsLeft
    <3> QED
      BY <3>2, DividedBy
  <2>3. left[0] \in Nat /\ left[0] < 4294967296
    BY <1>1, <1>2 DEF IsLeft
  <2>4. left[10] = 0
    BY <2>2, <2>3
  <2> QED
    BY <1>7, <2>1, <2>4
<1> QED
  BY <1>1, <1>3, <1>7, <1>8 DEF n, left

(* What a reader makes of a text, character by character.                  *)
DigitValue(ch) == IF ch < 58 THEN ch - Zero ELSE ch - 87

IsValue(f, text, b) ==
  /\ Value(text, b) = f[Len(text)]
  /\ f[0] = 0
  /\ \A i \in 1..Len(text) : f[i] = b * f[i - 1] + DigitValue(text[i])

LEMMA ValueDefined ==
  ASSUME NEW text, Len(text) \in Nat, NEW b
  PROVE  \E f : IsValue(f, text, b)
<1> DEFINE Op(v, i) == b * v + DigitValue(text[i])
           Good(n, h) == h = [i \in 0..n |-> IF i = 0 THEN 0 ELSE Op(h[i - 1], i)]
           S == {n \in Nat : \E h : Good(n, h)}
           F == CHOOSE h : Good(Len(text), h)
<1>1. Value(text, b) = F[Len(text)]
  BY DEF Value, DigitValue
<1> HIDE DEF Op
<1>2. 0 \in S
  <2> DEFINE h == [i \in 0..0 |-> 0]
  <2>1. Good(0, h)
    OBVIOUS
  <2> QED
    BY <2>1
<1>3. ASSUME NEW n \in Nat, n \in S PROVE n + 1 \in S
  <2>1. PICK h : Good(n, h)
    BY <1>3
  <2> DEFINE g == [i \in 0..n + 1 |-> IF i = n + 1 THEN Op(h[n], n + 1) ELSE h[i]]
  <2>2. (\A i \in 0..n : g[i] = h[i]) /\ g[n + 1] = Op(h[n], n + 1)
    OBVIOUS
  <2>3. g = [i \in 0..n + 1 |-> g[i]]
    OBVIOUS
  <2> HIDE DEF g
  <2>4. ASSUME NEW i \in 0..n + 1 PROVE g[i] = IF i = 0 THEN 0 ELSE Op(g[i - 1], i)
    <3>1. CASE i = 0
      BY <2>1, <2>2, <3>1
    <3>2. CASE i = n + 1
      <4>1. i - 1 = n /\ n \in 0..n /\ i # 0
        BY <3>2
      <4> QED
        BY <2>2, <3>2, <4>1
    <3>3. CASE i \in 1..n
      <4>1. i \in 0..n /\ i - 1 \in 0..n /\ i # 0
        BY <3>3
      <4>2. h[i] = Op(h[i - 1], i)
        BY <2>1, <4>1, Zenon
      <4> QED
        BY <2>2, <4>1, <4>2
    <3>4. i = 0 \/ i = n + 1 \/ i \in 1..n
      OBVIOUS
    <3> QED
      BY <3>1, <3>2, <3>3, <3>4
  <2>5. Good(n + 1, g)
    BY <2>3, <2>4, Zenon
  <2> QED
    BY <2>5
<1>4. Len(text) \in S
  <2> HIDE DEF S
  <2> QED
    BY <1>2, <1>3, SetInduction
<1>5. Good(Len(text), F)
  <2>1. \E h : Good(Len(text), h)
    BY <1>4
  <2> HIDE DEF Good
  <2> QED
    BY <2>1
<1> HIDE DEF F
<1>6. (\A i \in 1..Len(text) : i \in 0..Len(text) /\ i # 0) /\ 0 \in 0..Len(text)
  OBVIOUS
<1>7. F[0] = 0 /\ \A i \in 1..Len(text) : F[i] = Op(F[i - 1], i)
  BY <1>5, <1>6, Zenon
<1> QED
  BY <1>1, <1>7, Zenon DEF IsValue, Op

(* The digits of a number, in the order they are read in, give it back.    *)
LEMMA DigitsGiveBack ==
  ASSUME NEW ud \in 0..WORD - 1, NEW b \in {10, 16}
  PROVE  LET left == Left(ud, b)
             n == Divisions(left)
             digits == [i \in 1..n |-> Digit(left[n - i] % b)]
         IN  /\ n \in 1..10
             /\ digits \in [1..n -> 48..57 \union 97..102] /\ digits \in Seq(1..127)
             /\ Len(digits) = n
             /\ Value(digits, b) = ud
<1> DEFINE left == Left(ud, b)
           n == Divisions(left)
           digits == [i \in 1..n |-> Digit(left[n - i] % b)]
<1>1. /\ IsLeft(left, ud, b)
      /\ \A k \in 0..WORD : left[k] \in Nat
      /\ n \in 1..WORD /\ n <= 10 /\ left[n] = 0
  BY LoopEnds
<1> HIDE DEF left, n
<1>2. n \in 1..10 /\ n \in Nat /\ WORD \in Nat
  BY <1>1, WordAssumption
<1>3. ASSUME NEW k \in 0..n - 1
      PROVE  /\ left[k] \in Nat /\ left[k] % b \in 0..b - 1
             /\ left[k] = b * left[k + 1] + (left[k] % b)
  <2>1. k \in 0..WORD /\ k + 1 \in 1..WORD /\ (k + 1) - 1 = k
    BY <1>1, <1>2
  <2>2. left[k] \in Nat /\ left[k + 1] = left[k] \div b
    BY <1>1, <2>1 DEF IsLeft
  <2> QED
    BY <2>2, DividedBy
<1>4. ASSUME NEW d \in 0..b - 1
      PROVE  Digit(d) \in 48..57 \union 97..102 /\ DigitValue(Digit(d)) = d
  BY DEF Digit, DigitValue, Zero
<1>5. ASSUME NEW i \in 1..n
      PROVE  digits[i] \in 48..57 \union 97..102 /\ DigitValue(digits[i]) = left[n - i] % b
  <2>1. n - i \in 0..n - 1
    BY <1>2
  <2> QED
    BY <1>3, <1>4, <2>1
<1>6. digits \in [1..n -> 48..57 \union 97..102]
  BY <1>5
<1>7. digits \in Seq(1..127) /\ Len(digits) = n
  <2>1. digits \in [1..n -> 1..127]
    BY <1>6
  <2> HIDE DEF digits
  <2> QED
    BY <1>2, <2>1
<1>8. Value(digits, b) = ud
  <2>1. PICK f : IsValue(f, digits, b)
    BY <1>2, <1>7, ValueDefined
  <2> HIDE DEF digits
  <2>2. f[n] = Value(digits, b) /\ f[0] = 0
        /\ \A i \in 1..n : f[i] = b * f[i - 1] + DigitValue(digits[i])
    BY <1>7, <2>1 DEF IsValue
  <2> DEFINE S == {i \in Nat : i <= n => f[i] = left[n - i]}
  <2>3. 0 \in S
    BY <1>1, <1>2, <2>2
  <2>4. ASSUME NEW i \in Nat, i \in S PROVE i + 1 \in S
    <3>1. SUFFICES ASSUME i + 1 <= n PROVE f[i + 1] = left[n - (i + 1)]
      OBVIOUS
    <3>2. /\ i + 1 \in 1..n /\ (i + 1) - 1 = i /\ n - (i + 1) \in 0..n - 1
          /\ (n - (i + 1)) + 1 = n - i /\ i <= n
      BY <1>2, <3>1
    <3>3. f[i + 1] = b * f[i] + DigitValue(digits[i + 1])
      BY <2>2, <3>2
    <3>4. f[i] = left[n - i]
      BY <2>4, <3>2
    <3>5. DigitValue(digits[i + 1]) = left[n - (i + 1)] % b
      BY <1>5, <3>2
    <3>6. left[n - (i + 1)] = b * left[n - i] + (left[n - (i + 1)] % b)
      BY <1>3, <3>2
    <3> QED
      BY <3>3, <3>4, <3>5, <3>6
  <2>5. \A i \in Nat : i \in S
    <3> HIDE DEF S
    <3> QED
      BY <2>3, <2>4, SetInduction
  <2>6. f[n] = left[n - n]
    BY <1>2, <2>5
  <2>7. n - n = 0 /\ left[0] = ud
    BY <1>1, <1>2 DEF IsLeft
  <2> QED
    BY <2>2, <2>6, <2>7
<1> QED
  BY <1>2, <1>6, <1>7, <1>8 DEF n, left

(* A piece of text that is put on the screen character for character.      *)
Plain == {ch \in 1..127 : ch # 9 /\ ch # 10}

(* What a reader makes of the digits of an int.                            *)
Reads(bare, base, d) ==
  /\ bare \in Seq(Plain) /\ Len(bare) \in 1..11
  /\ ValueOf(bare, NumberLetters[base]) = IF base = "d" THEN d ELSE Unsigned(d)

LEMMA Remainder ==
  ASSUME NEW d \in Ints
  PROVE  /\ WORD \in Nat /\ WORD > 1 /\ d \in Int
         /\ Unsigned(d) \in 0..WORD - 1
         /\ d >= 0 => Unsigned(d) = d
         /\ d < 0 => Negated(d) = -d /\ Negated(d) \in 0..WORD - 1
<1>1. WORD \in Nat /\ WORD > 1
  BY WordAssumption
<1>2. d \in Int /\ -WORD < d /\ d < WORD
  <2>1. WORD \div 2 < WORD /\ WORD \div 2 \in Nat
    BY <1>1
  <2> QED
    BY <1>1, <2>1 DEF Ints
<1>3. \A v \in Int : v % WORD \in 0..WORD - 1
  BY <1>1
<1>4. \A v \in 0..WORD - 1 : v % WORD = v
  BY <1>1
<1>5. d >= 0 => d \in 0..WORD - 1
  BY <1>1, <1>2
<1>6. d < 0 => -d \in 0..WORD - 1
  BY <1>1, <1>2
<1> QED
  BY <1>1, <1>2, <1>3, <1>4, <1>5, <1>6 DEF Unsigned, Negated

LEMMA DigitsRead ==
  ASSUME NEW base \in DOMAIN NumberLetters, NEW d \in Ints
  PROVE  Reads(Digits(base, d), base, d)
<1> DEFINE b == IF base = "x" THEN 16 ELSE 10
           Of(ud) == LET left == Left(ud, b)
                         n == Divisions(left)
                     IN  [i \in 1..n |-> Digit(left[n - i] % b)]
<1>1. base \in {"d", "u", "x"} /\ b \in {10, 16}
  BY DEF NumberLetters
<1>2. ASSUME NEW ud \in 0..WORD - 1
      PROVE  \E n \in 1..10 :
               /\ Of(ud) \in [1..n -> 48..57 \union 97..102] /\ Of(ud) \in Seq(1..127)
               /\ Len(Of(ud)) = n /\ Value(Of(ud), b) = ud
  <2> HIDE DEF b
  <2> QED
    BY <1>1, DigitsGiveBack
<1>3. Digits(base, d) = IF base = "d" /\ d < 0 THEN <<Minus>> \o Of(Negated(d))
                        ELSE <<>> \o Of(Unsigned(d))
  BY Zenon DEF Digits
<1> HIDE DEF Of, b
<1>4. ASSUME NEW ud \in 0..WORD - 1
      PROVE  /\ Of(ud) \in Seq(Plain) /\ Len(Of(ud)) \in 1..10
             /\ Of(ud)[1] \in 48..57 \union 97..102 /\ Value(Of(ud), b) = ud
  <2>1. PICK n \in 1..10 :
               /\ Of(ud) \in [1..n -> 48..57 \union 97..102] /\ Of(ud) \in Seq(1..127)
               /\ Len(Of(ud)) = n /\ Value(Of(ud), b) = ud
    BY <1>2
  <2>2. Of(ud) \in [1..n -> Plain]
    <3> DEFINE Figures == 48..57 \union 97..102
    <3>1. \A ch \in Figures : ch \in Plain
      BY DEF Plain
    <3>2. Of(ud) \in [1..n -> Figures]
      BY <2>1
    <3> HIDE DEF Figures
    <3> QED
      BY <3>1, <3>2
  <2>3. Of(ud) \in Seq(Plain)
    BY <2>2
  <2> QED
    BY <2>1, <2>3
<1>5. CASE base = "d" /\ d < 0
  <2> DEFINE digits == Of(Negated(d))
             bare == Digits(base, d)
  <2>1. bare = <<Minus>> \o digits
    BY <1>3, <1>5
  <2>2. Negated(d) \in 0..WORD - 1 /\ Negated(d) = -d /\ d \in Int
    BY <1>5, Remainder
  <2>3. digits \in Seq(Plain) /\ Len(digits) \in 1..10 /\ Value(digits, b) = -d
    BY <1>4, <2>2
  <2> HIDE DEF bare, digits
  <2>4. <<Minus>> \in Seq(Plain) /\ Len(<<Minus>>) = 1 /\ <<Minus>>[1] = Minus
    BY DEF Minus, Plain
  <2> DEFINE sign == <<Minus>>
  <2> HIDE DEF sign
  <2>9. sign \in Seq(Plain) /\ Len(sign) = 1 /\ sign[1] = Minus /\ bare = sign \o digits
    BY <2>1, <2>4 DEF sign
  <2>5. bare \in Seq(Plain) /\ Len(bare) \in 1..11 /\ bare[1] = Minus
        /\ Len(bare) = 1 + Len(digits) /\ \A i \in 1..Len(digits) : bare[i + 1] = digits[i]
    <3>1. /\ bare \in Seq(Plain) /\ Len(bare) = Len(sign) + Len(digits)
          /\ \A i \in 1..Len(sign) + Len(digits) :
               bare[i] = IF i <= Len(sign) THEN sign[i] ELSE digits[i - Len(sign)]
      BY <2>3, <2>9, ConcatProperties
    <3>2. ASSUME NEW i \in 1..Len(digits) PROVE bare[i + 1] = digits[i]
      <4>1. i + 1 \in 1..Len(sign) + Len(digits) /\ ~(i + 1 <= Len(sign))
            /\ (i + 1) - Len(sign) = i
        BY <2>3, <2>9
      <4> QED
        BY <3>1, <4>1
    <3>3. bare[1] = sign[1]
      BY <2>3, <2>9, <3>1
    <3>4. Len(bare) = 1 + Len(digits) /\ Len(bare) \in 1..11
      <4> DEFINE k == Len(digits)
                 m == Len(sign)
                 l == Len(bare)
      <4>1. k \in 1..10 /\ m = 1 /\ l = m + k
        BY <2>3, <2>9, <3>1, Zenon
      <4> HIDE DEF k, l, m
      <4>2. l = 1 + k /\ l \in 1..11
        BY <4>1
      <4> QED
        BY <4>2, Zenon DEF k, l
    <3> QED
      BY <2>9, <3>1, <3>2, <3>3, <3>4
  <2>6. Tail(bare) = digits
    BY <2>3, <2>5
  <2>7. ValueOf(bare, NumberLetters[base]) = -(-d)
    BY <1>5, <2>3, <2>5, <2>6 DEF ValueOf, b
  <2>8. -(-d) = d
    BY <2>2
  <2> QED
    BY <1>5, <2>5, <2>7, <2>8 DEF Reads, bare
<1>6. CASE ~(base = "d" /\ d < 0)
  <2> DEFINE bare == Digits(base, d)
  <2>1. bare = Of(Unsigned(d))
    <3>1. Of(Unsigned(d)) \in Seq(Plain)
      BY <1>4, Remainder
    <3>2. <<>> \o Of(Unsigned(d)) = Of(Unsigned(d))
      BY <3>1
    <3> QED
      BY <1>3, <1>6, <3>2
  <2>2. Unsigned(d) \in 0..WORD - 1 /\ d \in Int /\ (d >= 0 => Unsigned(d) = d)
    BY Remainder
  <2>3. bare \in Seq(Plain) /\ Len(bare) \in 1..10
        /\ bare[1] \in 48..57 \union 97..102 /\ Value(bare, b) = Unsigned(d)
    BY <1>4, <2>1, <2>2
  <2> HIDE DEF bare
  <2>4. bare[1] # Minus
    BY <2>3 DEF Minus
  <2>5. b = IF NumberLetters[base] = NumberLetters.x THEN 16 ELSE 10
    BY <1>1 DEF NumberLetters, b
  <2>6. ValueOf(bare, NumberLetters[base]) = Unsigned(d)
    BY <2>3, <2>4, <2>5 DEF ValueOf
  <2> QED
    BY <1>6, <2>2, <2>3, <2>6 DEF Reads, bare
<1> QED
  BY <1>5, <1>6

(* Whatever printf's buffer held before, what it reads from there after    *)
(* itoa is what itoa wrote.                                                *)
LEMMA BufferReads ==
  ASSUME NEW buf, NEW text \in Seq(Plain), Len(text) < 32
  PROVE  CString(Stored(buf, text \o <<0>>)) = text
<1> DEFINE nul == <<0>>
           whole == text \o nul
           after == Stored(buf, whole)
           n == CHOOSE n \in Buf : after[n] = 0 /\ \A k \in 0..n - 1 : after[k] # 0
<1>1. Len(text) \in Buf /\ Len(whole) = Len(text) + 1 /\ whole[Len(text) + 1] = 0
      /\ \A i \in 1..Len(text) : whole[i] = text[i] /\ text[i] # 0
  <2>1. Len(text) \in Nat /\ \A i \in 1..Len(text) : text[i] \in Plain
    OBVIOUS
  <2>2. \A i \in 1..Len(text) : text[i] # 0
    <3>1. \A ch \in Plain : ch # 0
      BY DEF Plain
    <3> QED
      BY <2>1, <3>1
  <2>3. text \in Seq(Int)
    <3>1. text \in [1..Len(text) -> Int]
      <4>1. \A ch \in Plain : ch \in Int
        BY DEF Plain
      <4> QED
        BY <2>1, <4>1
    <3> QED
      BY <2>1, <3>1
  <2>4. nul \in Seq(Int) /\ Len(nul) = 1 /\ nul[1] = 0
    OBVIOUS
  <2> HIDE DEF nul
  <2>5. /\ Len(text \o nul) = Len(text) + 1 /\ (text \o nul)[Len(text) + 1] = 0
        /\ \A i \in 1..Len(text) : (text \o nul)[i] = text[i]
    <3>1. /\ Len(text \o nul) = Len(text) + Len(nul)
          /\ \A i \in 1..Len(text) + Len(nul) :
               (text \o nul)[i] = IF i <= Len(text) THEN text[i] ELSE nul[i - Len(text)]
      BY <2>3, <2>4, ConcatProperties
    <3> QED
      BY <2>1, <2>4, <3>1
  <2>6. Len(text) \in Buf
    <3> DEFINE m == Len(text)
    <3>1. m \in Nat /\ m < 32
      BY <2>1
    <3> HIDE DEF m
    <3>2. m \in Buf
      BY <3>1 DEF Buf
    <3> QED
      BY <3>2 DEF m
  <2> QED
    BY <2>2, <2>5, <2>6, Zenon
<1> HIDE DEF whole
<1>2. \A k \in Buf : k < Len(whole) => after[k] = whole[k + 1]
  BY DEF Stored, Buf
<1> HIDE DEF after
<1>3. after[Len(text)] = 0 /\ \A k \in 0..Len(text) - 1 : after[k] = text[k + 1] /\ after[k] # 0
  <2>1. after[Len(text)] = 0
    BY <1>1, <1>2
  <2>2. ASSUME NEW k \in 0..Len(text) - 1
        PROVE  after[k] = text[k + 1] /\ after[k] # 0
    <3>1. k \in Buf /\ k < Len(whole) /\ k + 1 \in 1..Len(text)
      BY <1>1 DEF Buf
    <3> QED
      BY <1>1, <1>2, <3>1
  <2> QED
    BY <2>1, <2>2
<1>4. n \in Buf /\ after[n] = 0 /\ \A k \in 0..n - 1 : after[k] # 0
  BY <1>1, <1>3
<1> HIDE DEF n
<1>5. n = Len(text)
  BY <1>1, <1>3, <1>4 DEF Buf
<1>6. CString(after) = [i \in 1..n |-> after[i - 1]]
  BY DEF CString, n
<1>7. \A i \in 1..n : after[i - 1] = text[i]
  <2> SUFFICES ASSUME NEW i \in 1..n PROVE after[i - 1] = text[i]
    OBVIOUS
  <2>1. i - 1 \in 0..Len(text) - 1 /\ (i - 1) + 1 = i
    BY <1>1, <1>5 DEF Buf
  <2> QED
    BY <1>3, <2>1
<1>8. text = [i \in 1..n |-> text[i]]
  BY <1>5
<1> QED
  BY <1>6, <1>7, <1>8 DEF after, whole, nul

Codes == -128..127

(* What printf holds between two characters of the format, its buffer left *)
(* out; and the text a conversion adds, whatever is in the buffer.         *)
At(mode, pad0, pad, args, out) ==
  [mode |-> mode, pad0 |-> pad0, pad |-> pad, args |-> args, out |-> out]

Filled(pad0, pad, string) ==
  Repeated(IF pad0 THEN Zero ELSE 32, IF Len(string) < pad THEN pad - Len(string) ELSE 0)
  \o string

IsNumber(c) == \E base \in DOMAIN NumberLetters : NumberLetters[base] = c

BaseOf(c) == CHOOSE base \in DOMAIN NumberLetters : NumberLetters[base] = c

Piece(pad0, pad, c, arg) ==
  IF IsNumber(c) THEN Filled(pad0, pad, Digits(BaseOf(c), arg))
  ELSE IF c = StringLetter THEN Filled(pad0, pad, IF arg = NULL THEN Null ELSE arg)
  ELSE <<arg>>

EndsConversion(s, c) == s.mode = "letter" \/ (s.mode # "text" /\ ~IsDigit(c))

Goes(s, c) ==
  IF s.mode = "text"
  THEN IF c = Percent THEN At("flag", FALSE, 0, s.args, s.out)
       ELSE At("text", s.pad0, s.pad, s.args, Append(s.out, c))
  ELSE IF s.mode = "flag" /\ c = Zero THEN At("width", TRUE, s.pad, s.args, s.out)
  ELSE IF s.mode # "letter" /\ IsDigit(c)
  THEN At("letter", s.pad0, c - Zero, s.args, s.out)
  ELSE At("text", s.pad0, s.pad, Tail(s.args),
          s.out \o Piece(s.pad0, s.pad, c, Head(s.args)))

Without(s) == At(s.mode, s.pad0, s.pad, s.args, s.out)

IsState(s) ==
  s = [mode |-> s.mode, pad0 |-> s.pad0, pad |-> s.pad, args |-> s.args,
       buf |-> s.buf, out |-> s.out]

Typed(s) ==
  /\ s.mode \in {"text", "flag", "width", "letter"}
  /\ s.pad0 \in BOOLEAN /\ s.pad \in 0..9 /\ s.out \in Seq(Codes)

(* The operators that model printf say what these do.                      *)
IsFilled(text, pad0, pad, string) ==
  LET k == IF Len(string) < pad THEN pad - Len(string) ELSE 0
  IN  /\ text \in Seq(Codes) /\ k \in 0..9 /\ Len(text) = k + Len(string)
      /\ \A i \in 1..k : text[i] = IF pad0 THEN Zero ELSE 32
      /\ \A i \in 1..Len(string) : text[k + i] = string[i]

LEMMA FilledType ==
  ASSUME NEW pad0 \in BOOLEAN, NEW pad \in 0..9, NEW string \in Seq(Codes)
  PROVE  IsFilled(Filled(pad0, pad, string), pad0, pad, string)
<1> DEFINE k == IF Len(string) < pad THEN pad - Len(string) ELSE 0
           ch == IF pad0 THEN Zero ELSE 32
           front == Repeated(ch, k)
<1>1. Len(string) \in Nat
  OBVIOUS
<1>2. k \in 0..9 /\ ch \in Codes
  <2> DEFINE l == Len(string)
  <2>1. l \in Nat
    BY <1>1
  <2> HIDE DEF l
  <2>2. (IF l < pad THEN pad - l ELSE 0) \in 0..9
    BY <2>1
  <2> QED
    BY <2>2 DEF l, Codes, Zero
<1> HIDE DEF k, ch
<1>3. front = [i \in 1..k |-> ch]
  BY DEF Repeated
<1>4. front \in [1..k -> Codes]
  BY <1>2, <1>3
<1>5. front \in Seq(Codes) /\ Len(front) = k
  BY <1>2, <1>3, <1>4
<1>6. \A i \in 1..k : front[i] = ch
  BY <1>3
<1> HIDE DEF front
<1>7. /\ front \o string \in Seq(Codes) /\ Len(front \o string) = k + Len(string)
      /\ \A i \in 1..k + Len(string) :
           (front \o string)[i] = IF i <= k THEN front[i] ELSE string[i - k]
  BY <1>5, ConcatProperties
<1>8. Filled(pad0, pad, string) = front \o string
  BY DEF Filled, front, k, ch
<1>9. ASSUME NEW i \in 1..k PROVE (front \o string)[i] = ch
  <2>1. i \in 1..k + Len(string) /\ i <= k
    BY <1>1, <1>2
  <2> QED
    BY <1>6, <1>7, <2>1
<1>10. ASSUME NEW i \in 1..Len(string) PROVE (front \o string)[k + i] = string[i]
  <2>1. k + i \in 1..k + Len(string) /\ ~(k + i <= k) /\ (k + i) - k = i
    BY <1>1, <1>2
  <2> QED
    BY <1>7, <2>1
<1> QED
  BY <1>2, <1>7, <1>8, <1>9, <1>10 DEF IsFilled, k, ch

LEMMA PlainCodes ==
  ASSUME NEW S, S \in SUBSET Codes, NEW text \in Seq(S)
  PROVE  text \in Seq(Codes)
  BY SeqMonotonic

LEMMA PieceType ==
  ASSUME NEW pad0 \in BOOLEAN, NEW pad \in 0..9, NEW c, NEW arg, Suits(arg, c)
  PROVE  Piece(pad0, pad, c, arg) \in Seq(Codes)
<1>1. CASE IsNumber(c)
  <2>1. arg \in Ints /\ BaseOf(c) \in DOMAIN NumberLetters
    BY <1>1 DEF Suits, IsNumber, BaseOf
  <2>2. Digits(BaseOf(c), arg) \in Seq(Plain)
    BY <2>1, DigitsRead DEF Reads
  <2>3. Plain \in SUBSET Codes
    BY DEF Plain, Codes
  <2>4. Digits(BaseOf(c), arg) \in Seq(Codes)
    BY <2>2, <2>3, PlainCodes
  <2> QED
    BY <1>1, <2>4, FilledType DEF Piece, IsFilled
<1>2. CASE ~IsNumber(c) /\ c = StringLetter
  <2>1. arg = NULL \/ arg \in Seq(TextChars)
    BY <1>2 DEF Suits, IsNumber
  <2>2. TextChars \in SUBSET Codes
    BY DEF TextChars, Codes
  <2>3. arg = NULL \/ arg \in Seq(Codes)
    BY <2>1, <2>2, PlainCodes
  <2>4. Null \in Seq(Codes)
    BY DEF Null, Codes
  <2>5. (IF arg = NULL THEN Null ELSE arg) \in Seq(Codes)
    BY <2>3, <2>4
  <2> QED
    BY <1>2, <2>5, FilledType DEF Piece, IsFilled
<1>3. CASE ~IsNumber(c) /\ c # StringLetter
  <2>1. arg \in Codes
    BY <1>3 DEF Suits, IsNumber, Codes
  <2>2. <<arg>> \in Seq(Codes)
    BY <2>1
  <2> QED
    BY <1>3, <2>2 DEF Piece
<1> QED
  BY <1>1, <1>2, <1>3

LEMMA TakeGoes ==
  ASSUME NEW s, IsState(s), Typed(s), NEW c \in Codes,
         EndsConversion(s, c) => Suits(Head(s.args), c)
  PROVE  /\ IsState(Take(s, c)) /\ Typed(Take(s, c))
         /\ Without(Take(s, c)) = Goes(Without(s), c)
<1> DEFINE t == Take(s, c)
           w == Without(s)
<1>1. w.mode = s.mode /\ w.pad0 = s.pad0 /\ w.pad = s.pad /\ w.args = s.args /\ w.out = s.out
  BY DEF Without, At
<1>2. s.mode \in {"text", "flag", "width", "letter"} /\ s.pad0 \in BOOLEAN
      /\ s.pad \in 0..9 /\ s.out \in Seq(Codes)
  BY DEF Typed
<1> HIDE DEF w
<1>3. CASE s.mode = "text" /\ c = Percent
  <2>1. t = [s EXCEPT !.mode = "flag", !.pad0 = FALSE, !.pad = 0]
    BY <1>3 DEF Take
  <2> HIDE DEF t
  <2>2. /\ IsState(t) /\ t.mode = "flag" /\ t.pad0 = FALSE /\ t.pad = 0
        /\ t.args = s.args /\ t.out = s.out
    BY <2>1 DEF IsState
  <2>3. Goes(w, c) = At("flag", FALSE, 0, s.args, s.out)
    BY <1>1, <1>3 DEF Goes
  <2>4. Typed(t)
    <3>1. FALSE \in BOOLEAN /\ 0 \in 0..9
      OBVIOUS
    <3> QED
      BY <1>2, <2>2, <3>1, Zenon DEF Typed
  <2>5. Without(t) = Goes(w, c)
    BY <2>2, <2>3, Zenon DEF Without
  <2> QED
    BY <2>2, <2>4, <2>5 DEF t, w
<1>4. CASE s.mode = "text" /\ c # Percent
  <2>1. t = [s EXCEPT !.out = Append(s.out, c)]
    BY <1>4 DEF Take
  <2> HIDE DEF t
  <2>2. /\ IsState(t) /\ t.mode = "text" /\ t.pad0 = s.pad0 /\ t.pad = s.pad
        /\ t.args = s.args /\ t.out = Append(s.out, c)
    BY <1>4, <2>1 DEF IsState
  <2>3. Goes(w, c) = At("text", s.pad0, s.pad, s.args, Append(s.out, c))
    BY <1>1, <1>4 DEF Goes
  <2>4. Append(s.out, c) \in Seq(Codes)
    BY <1>2, AppendProperties
  <2>5. Typed(t)
    BY <1>2, <2>2, <2>4 DEF Typed
  <2>6. Without(t) = Goes(w, c)
    BY <2>2, <2>3, Zenon DEF Without
  <2> QED
    BY <2>2, <2>5, <2>6 DEF t, w
<1>5. CASE s.mode = "flag" /\ c = Zero
  <2>1. t = [s EXCEPT !.mode = "width", !.pad0 = TRUE]
    BY <1>5 DEF Take
  <2> HIDE DEF t
  <2>2. /\ IsState(t) /\ t.mode = "width" /\ t.pad0 = TRUE /\ t.pad = s.pad
        /\ t.args = s.args /\ t.out = s.out
    BY <2>1 DEF IsState
  <2>3. Goes(w, c) = At("width", TRUE, s.pad, s.args, s.out)
    BY <1>1, <1>5 DEF Goes
  <2> QED
    BY <1>2, <2>2, <2>3 DEF Typed, Without, t, w
<1>6. CASE s.mode # "text" /\ ~(s.mode = "flag" /\ c = Zero) /\ s.mode # "letter" /\ IsDigit(c)
  <2>1. t = [s EXCEPT !.mode = "letter", !.pad = c - Zero]
    BY <1>6 DEF Take
  <2> HIDE DEF t
  <2>2. /\ IsState(t) /\ t.mode = "letter" /\ t.pad0 = s.pad0 /\ t.pad = c - Zero
        /\ t.args = s.args /\ t.out = s.out
    BY <2>1 DEF IsState
  <2>3. Goes(w, c) = At("letter", s.pad0, c - Zero, s.args, s.out)
    BY <1>1, <1>6 DEF Goes
  <2>4. c - Zero \in 0..9
    BY <1>6 DEF IsDigit, Zero
  <2> QED
    BY <1>2, <2>2, <2>3, <2>4 DEF Typed, Without, t, w
<1>7. CASE s.mode # "text" /\ ~(s.mode = "flag" /\ c = Zero) /\ ~(s.mode # "letter" /\ IsDigit(c))
  <2> DEFINE arg == Head(s.args)
             piece == Piece(s.pad0, s.pad, c, arg)
  <2>1. t = Convert(s, c)
    BY <1>7 DEF Take
  <2>2. Suits(arg, c)
    BY <1>7 DEF EndsConversion
  <2>3. piece \in Seq(Codes)
    BY <1>2, <2>2, PieceType
  <2>4. Goes(w, c) = At("text", s.pad0, s.pad, Tail(s.args), s.out \o piece)
    BY <1>1, <1>7 DEF Goes
  <2>5. \E buf : t = [[s EXCEPT !.mode = "text", !.args = Tail(s.args)]
                        EXCEPT !.buf = buf, !.out = s.out \o piece]
    <3> DEFINE done == [s EXCEPT !.mode = "text", !.args = Tail(s.args)]
    <3>0. done.buf = s.buf /\ done = [done EXCEPT !.buf = s.buf]
      BY DEF IsState
    <3>1. CASE IsNumber(c)
      <4> DEFINE base == BaseOf(c)
                 buf == itoa(s.buf, base, arg)
      <4>1. t = [done EXCEPT !.buf = buf, !.out = s.out \o Padded(s, CString(buf))]
        BY <2>1, <3>1 DEF Convert, IsNumber, BaseOf
      <4>2. base \in DOMAIN NumberLetters /\ arg \in Ints
        BY <2>2, <3>1 DEF Suits, IsNumber, BaseOf
      <4> HIDE DEF base, arg
      <4>3. Digits(base, arg) \in Seq(Plain) /\ Len(Digits(base, arg)) \in 1..11
        BY <4>2, DigitsRead DEF Reads
      <4>4. Len(Digits(base, arg)) < 32
        <5> DEFINE k == Len(Digits(base, arg))
        <5>1. k \in 1..11
          BY <4>3
        <5> HIDE DEF k
        <5>2. k < 32
          BY <5>1
        <5> QED
          BY <5>2 DEF k
      <4>5. CString(buf) = Digits(base, arg)
        BY <4>3, <4>4, BufferReads DEF itoa
      <4>6. piece = Filled(s.pad0, s.pad, Digits(base, arg))
        BY <3>1 DEF Piece, base
      <4>7. Padded(s, CString(buf)) = piece
        BY <4>5, <4>6 DEF Padded, Filled
      <4> HIDE DEF piece, done
      <4> QED
        BY <4>1, <4>7 DEF done
    <3>2. CASE ~IsNumber(c) /\ c = StringLetter
      <4>1. t = [done EXCEPT !.out = s.out \o Padded(s, IF arg = NULL THEN Null ELSE arg)]
        BY <2>1, <3>2 DEF Convert, IsNumber
      <4>2. Padded(s, IF arg = NULL THEN Null ELSE arg) = piece
        BY <3>2 DEF Piece, Padded, Filled
      <4> HIDE DEF piece, arg
      <4>3. t = [done EXCEPT !.out = s.out \o piece]
        BY <4>1, <4>2
      <4>4. t = [done EXCEPT !.buf = s.buf, !.out = s.out \o piece]
        BY <4>3 DEF IsState
      <4> QED
        BY <4>4
    <3>3. CASE ~IsNumber(c) /\ c # StringLetter
      <4>1. t = [done EXCEPT !.out = Append(s.out, arg)]
        BY <2>1, <3>3 DEF Convert, IsNumber
      <4>2. piece = <<arg>> /\ arg \in Codes
        BY <2>2, <3>3 DEF Piece, Suits, IsNumber, Codes
      <4>3. Append(s.out, arg) = s.out \o piece
        BY <1>2, <4>2, AppendIsConcat
      <4> HIDE DEF piece, arg
      <4>4. t = [done EXCEPT !.out = s.out \o piece]
        BY <4>1, <4>3
      <4>5. t = [done EXCEPT !.buf = s.buf, !.out = s.out \o piece]
        BY <4>4 DEF IsState
      <4> QED
        BY <4>5
    <3> QED
      BY <3>1, <3>2, <3>3
  <2> HIDE DEF t, piece
  <2>6. /\ IsState(t) /\ t.mode = "text" /\ t.pad0 = s.pad0 /\ t.pad = s.pad
        /\ t.args = Tail(s.args) /\ t.out = s.out \o piece
    BY <2>5 DEF IsState
  <2>7. s.out \o piece \in Seq(Codes)
    BY <1>2, <2>3, ConcatProperties
  <2> QED
    BY <1>2, <2>4, <2>6, <2>7 DEF Typed, Without, t, w
<1> QED
  BY <1>2, <1>3, <1>4, <1>5, <1>6, <1>7

(* What printf holds at each place of the format.                          *)
Begun(args) ==
  [mode |-> "text", pad0 |-> FALSE, pad |-> 0, args |-> args,
   buf |-> [k \in Buf |-> 0], out |-> <<>>]

IsReading(at, format, args) ==
  /\ at[0] = Begun(args)
  /\ \A i \in 1..Len(format) : at[i] = Take(at[i - 1], format[i])

LEMMA ReadingDefined ==
  ASSUME NEW format, Len(format) \in Nat, NEW args
  PROVE  IsReading(Reading(format, args), format, args)
<1> DEFINE Op(v, i) == Take(v, format[i])
           Good(n, h) == h = [i \in 0..n |-> IF i = 0 THEN Begun(args) ELSE Op(h[i - 1], i)]
           S == {n \in Nat : \E h : Good(n, h)}
           F == CHOOSE h : Good(Len(format), h)
<1>1. Reading(format, args) = F
  BY Zenon DEF Reading, Begun
<1> HIDE DEF Op
<1>2. 0 \in S
  <2> DEFINE h == [i \in 0..0 |-> Begun(args)]
  <2>1. Good(0, h)
    OBVIOUS
  <2> QED
    BY <2>1
<1>3. ASSUME NEW n \in Nat, n \in S PROVE n + 1 \in S
  <2>1. PICK h : Good(n, h)
    BY <1>3
  <2> DEFINE g == [i \in 0..n + 1 |-> IF i = n + 1 THEN Op(h[n], n + 1) ELSE h[i]]
  <2>2. (\A i \in 0..n : g[i] = h[i]) /\ g[n + 1] = Op(h[n], n + 1)
    OBVIOUS
  <2>3. g = [i \in 0..n + 1 |-> g[i]]
    OBVIOUS
  <2> HIDE DEF g
  <2>4. ASSUME NEW i \in 0..n + 1 PROVE g[i] = IF i = 0 THEN Begun(args) ELSE Op(g[i - 1], i)
    <3>1. CASE i = 0
      BY <2>1, <2>2, <3>1
    <3>2. CASE i = n + 1
      <4>1. i - 1 = n /\ n \in 0..n /\ i # 0
        BY <3>2
      <4> QED
        BY <2>2, <3>2, <4>1
    <3>3. CASE i \in 1..n
      <4>1. i \in 0..n /\ i - 1 \in 0..n /\ i # 0
        BY <3>3
      <4>2. h[i] = Op(h[i - 1], i)
        BY <2>1, <4>1, Zenon
      <4> QED
        BY <2>2, <4>1, <4>2
    <3>4. i = 0 \/ i = n + 1 \/ i \in 1..n
      OBVIOUS
    <3> QED
      BY <3>1, <3>2, <3>3, <3>4
  <2>5. Good(n + 1, g)
    BY <2>3, <2>4, Zenon
  <2> QED
    BY <2>5
<1>4. Len(format) \in S
  <2> HIDE DEF S
  <2> QED
    BY <1>2, <1>3, SetInduction
<1>5. Good(Len(format), F)
  <2>1. \E h : Good(Len(format), h)
    BY <1>4
  <2> HIDE DEF Good
  <2> QED
    BY <2>1
<1> HIDE DEF F
<1>6. (\A i \in 1..Len(format) : i \in 0..Len(format) /\ i # 0) /\ 0 \in 0..Len(format)
  OBVIOUS
<1>7. F[0] = Begun(args) /\ \A i \in 1..Len(format) : F[i] = Op(F[i - 1], i)
  BY <1>5, <1>6, Zenon
<1> QED
  BY <1>1, <1>7, Zenon DEF IsReading, Op

(* What the console is after each character of a text.                     *)
IsPrinting(f, s, text) ==
  /\ Printed(s, text) = f[Len(text)]
  /\ f[0] = s
  /\ \A i \in 1..Len(text) : f[i] = console_putchar(f[i - 1], text[i])

LEMMA PrintedDefined ==
  ASSUME NEW s, NEW text, Len(text) \in Nat
  PROVE  \E f : IsPrinting(f, s, text)
<1> DEFINE Op(v, i) == console_putchar(v, text[i])
           Good(n, h) == h = [i \in 0..n |-> IF i = 0 THEN s ELSE Op(h[i - 1], i)]
           S == {n \in Nat : \E h : Good(n, h)}
           F == CHOOSE h : Good(Len(text), h)
<1>1. Printed(s, text) = F[Len(text)]
  BY Zenon DEF Printed
<1> HIDE DEF Op
<1>2. 0 \in S
  <2> DEFINE h == [i \in 0..0 |-> s]
  <2>1. Good(0, h)
    OBVIOUS
  <2> QED
    BY <2>1
<1>3. ASSUME NEW n \in Nat, n \in S PROVE n + 1 \in S
  <2>1. PICK h : Good(n, h)
    BY <1>3
  <2> DEFINE g == [i \in 0..n + 1 |-> IF i = n + 1 THEN Op(h[n], n + 1) ELSE h[i]]
  <2>2. (\A i \in 0..n : g[i] = h[i]) /\ g[n + 1] = Op(h[n], n + 1)
    OBVIOUS
  <2>3. g = [i \in 0..n + 1 |-> g[i]]
    OBVIOUS
  <2> HIDE DEF g
  <2>4. ASSUME NEW i \in 0..n + 1 PROVE g[i] = IF i = 0 THEN s ELSE Op(g[i - 1], i)
    <3>1. CASE i = 0
      BY <2>1, <2>2, <3>1
    <3>2. CASE i = n + 1
      <4>1. i - 1 = n /\ n \in 0..n /\ i # 0
        BY <3>2
      <4> QED
        BY <2>2, <3>2, <4>1
    <3>3. CASE i \in 1..n
      <4>1. i \in 0..n /\ i - 1 \in 0..n /\ i # 0
        BY <3>3
      <4>2. h[i] = Op(h[i - 1], i)
        BY <2>1, <4>1, Zenon
      <4> QED
        BY <2>2, <4>1, <4>2
    <3>4. i = 0 \/ i = n + 1 \/ i \in 1..n
      OBVIOUS
    <3> QED
      BY <3>1, <3>2, <3>3, <3>4
  <2>5. Good(n + 1, g)
    BY <2>3, <2>4, Zenon
  <2> QED
    BY <2>5
<1>4. Len(text) \in S
  <2> HIDE DEF S
  <2> QED
    BY <1>2, <1>3, SetInduction
<1>5. Good(Len(text), F)
  <2>1. \E h : Good(Len(text), h)
    BY <1>4
  <2> HIDE DEF Good
  <2> QED
    BY <2>1
<1> HIDE DEF F
<1>6. (\A i \in 1..Len(text) : i \in 0..Len(text) /\ i # 0) /\ 0 \in 0..Len(text)
  OBVIOUS
<1>7. F[0] = s /\ \A i \in 1..Len(text) : F[i] = Op(F[i - 1], i)
  BY <1>5, <1>6, Zenon
<1> QED
  BY <1>1, <1>7, Zenon DEF IsPrinting, Op

(* The same without the buffer, for a call a program makes.                *)
IsRead(h, format, args) ==
  /\ Text(format, args) = h[Len(format)].out
  /\ h[Len(format)].mode = "text" /\ h[Len(format)].args = <<>>
  /\ h[0] = At("text", FALSE, 0, args, <<>>)
  /\ \A i \in 0..Len(format) : Typed(h[i])
  /\ \A i \in 1..Len(format) :
       /\ h[i] = Goes(h[i - 1], format[i])
       /\ EndsConversion(h[i - 1], format[i])
            => h[i - 1].args # <<>> /\ Suits(Head(h[i - 1].args), format[i])

LEMMA TextRead ==
  ASSUME NEW format, NEW args, Suited(format, args)
  PROVE  /\ format \in Seq(Codes) /\ Len(format) \in Nat
         /\ \E h : IsRead(h, format, args)
<1> DEFINE at == Reading(format, args)
           h == [i \in 0..Len(format) |-> Without(at[i])]
<1>1. /\ format \in Seq(TextChars)
      /\ \A i \in 1..Len(format) : EndsConversion(at[i - 1], format[i])
           => at[i - 1].args # <<>> /\ Suits(Head(at[i - 1].args), format[i])
      /\ at[Len(format)].mode = "text" /\ at[Len(format)].args = <<>>
  BY DEF Suited, EndsConversion
<1>2. format \in Seq(Codes) /\ Len(format) \in Nat
  <2>1. TextChars \in SUBSET Codes
    BY DEF TextChars, Codes
  <2> QED
    BY <1>1, <2>1, PlainCodes, LenProperties
<1>3. IsReading(at, format, args)
  BY <1>2, ReadingDefined
<1>4. Text(format, args) = at[Len(format)].out
  BY DEF Text
<1> HIDE DEF at
<1> DEFINE Sound(i) == IsState(at[i]) /\ Typed(at[i])
           S == {i \in Nat : i <= Len(format) => Sound(i)}
<1>5. 0 \in S
  <2>1. at[0] = Begun(args)
    BY <1>3 DEF IsReading
  <2>2. IsState(Begun(args)) /\ Typed(Begun(args))
    BY DEF Begun, IsState, Typed, Codes
  <2> QED
    BY <2>1, <2>2
<1>6. \A i \in 1..Len(format) : format[i] \in Codes
  BY <1>2, ElementOfSeq
<1>7. ASSUME NEW i \in 1..Len(format), Sound(i - 1)
      PROVE  Sound(i) /\ Without(at[i]) = Goes(Without(at[i - 1]), format[i])
  <2>1. at[i] = Take(at[i - 1], format[i])
    BY <1>3 DEF IsReading
  <2> QED
    BY <1>1, <1>6, <1>7, <2>1, TakeGoes
<1>8. ASSUME NEW i \in Nat, i \in S PROVE i + 1 \in S
  <2>1. SUFFICES ASSUME i + 1 <= Len(format) PROVE Sound(i + 1)
    OBVIOUS
  <2>2. i + 1 \in 1..Len(format) /\ (i + 1) - 1 = i /\ i <= Len(format)
    BY <1>2, <2>1
  <2>3. Sound(i)
    BY <1>8, <2>2
  <2> HIDE DEF Sound
  <2> QED
    BY <1>7, <2>2, <2>3
<1>9. \A i \in Nat : i \in S
  <2> HIDE DEF S
  <2> QED
    BY <1>5, <1>8, SetInduction
<1>10. \A i \in 0..Len(format) : Sound(i) /\ h[i] = Without(at[i])
  <2> SUFFICES ASSUME NEW i \in 0..Len(format) PROVE Sound(i)
    OBVIOUS
  <2>1. i \in Nat /\ i <= Len(format)
    BY <1>2
  <2> QED
    BY <1>9, <2>1
<1> HIDE DEF h
<1>11. ASSUME NEW i \in 0..Len(format)
       PROVE  /\ Typed(h[i]) /\ h[i].mode = at[i].mode /\ h[i].args = at[i].args
              /\ h[i].out = at[i].out
  <2>1. Typed(at[i]) /\ h[i] = Without(at[i])
    BY <1>10
  <2> QED
    BY <2>1 DEF Typed, Without, At
<1>12. ASSUME NEW i \in 1..Len(format)
       PROVE  /\ h[i] = Goes(h[i - 1], format[i])
              /\ EndsConversion(h[i - 1], format[i])
                   => h[i - 1].args # <<>> /\ Suits(Head(h[i - 1].args), format[i])
  <2>1. i - 1 \in 0..Len(format) /\ i \in 0..Len(format)
    BY <1>2
  <2>2. h[i] = Goes(h[i - 1], format[i])
    BY <1>7, <1>10, <2>1
  <2>3. h[i - 1].mode = at[i - 1].mode /\ h[i - 1].args = at[i - 1].args
    BY <1>11, <2>1
  <2>4. EndsConversion(h[i - 1], format[i])
          => h[i - 1].args # <<>> /\ Suits(Head(h[i - 1].args), format[i])
    BY <1>1, <2>3 DEF EndsConversion
  <2> QED
    BY <2>2, <2>4
<1>13. h[0] = At("text", FALSE, 0, args, <<>>)
  <2>1. at[0] = Begun(args) /\ 0 \in 0..Len(format)
    BY <1>2, <1>3 DEF IsReading
  <2> DEFINE s == Begun(args)
  <2>2. s.mode = "text" /\ s.pad0 = FALSE /\ s.pad = 0 /\ s.args = args /\ s.out = <<>>
    BY DEF Begun
  <2>3. h[0] = Without(s)
    BY <1>10, <2>1
  <2> HIDE DEF s
  <2> QED
    BY <2>2, <2>3, Zenon DEF Without
<1>14. Len(format) \in 0..Len(format)
  BY <1>2
<1>15. IsRead(h, format, args)
  BY <1>1, <1>4, <1>11, <1>12, <1>13, <1>14 DEF IsRead
<1> QED
  BY <1>2, <1>15

LEMMA TextType ==
  ASSUME NEW format, NEW args, Suited(format, args)
  PROVE  /\ Text(format, args) \in Seq(Codes) /\ Len(Text(format, args)) \in Nat
         /\ \A i \in 1..Len(Text(format, args)) : Text(format, args)[i] \in Codes
<1>1. PICK h : IsRead(h, format, args)
  BY TextRead
<1>2. Len(format) \in 0..Len(format)
  <2>1. Len(format) \in Nat
    BY TextRead
  <2> QED
    BY <2>1
<1>3. Text(format, args) \in Seq(Codes)
  BY <1>1, <1>2 DEF IsRead, Typed
<1> HIDE DEF Text
<1> QED
  BY <1>3, LenProperties, ElementOfSeq

-----------------------------------------------------------------------------
(* The prefix of announce is in colours of its own, but where a character  *)
(* goes does not depend on colours.                                        *)
IsConsole(s) ==
  s = [buffer |-> s.buffer, index |-> s.index, x |-> s.x, y |-> s.y, crt |-> s.crt]

SamePlace(s, t) == IsConsole(s) /\ s.index = t.index /\ s.x = t.x /\ s.y = t.y

OnScreen(s) == \E t : Within(t) /\ SamePlace(s, t)

LEMMA ConsoleFields ==
  ASSUME NEW buffer, NEW i, NEW x, NEW y
  PROVE  LET s == Console(buffer, i, x, y)
         IN  s.buffer = buffer /\ s.index = i /\ s.x = x /\ s.y = y /\ IsConsole(s)
  BY DEF Console, IsConsole

LEMMA ConsolePlace ==
  ASSUME NEW buffer, NEW i, NEW x, NEW y, NEW t, t.index = i, t.x = x, t.y = y
  PROVE  SamePlace(Console(buffer, i, x, y), t)
  BY ConsoleFields DEF SamePlace

LEMMA NewlinePlace ==
  ASSUME NEW s, NEW t, SamePlace(s, t)
  PROVE  /\ SamePlace(console_newline(s), console_newline(t))
         /\ SamePlace(Grey!console_newline(s), console_newline(t))
         /\ SamePlace(Green!console_newline(s), console_newline(t))
<1>1. s.y = t.y
  BY DEF SamePlace
<1>2. CASE t.y >= VGA_HEIGHT - 1
  <2>1. console_newline(t) = Console(Scrolled(t.buffer), (VGA_HEIGHT - 1) * VGA_WIDTH, 0, VGA_HEIGHT - 1)
    BY <1>2 DEF console_newline
  <2>2. console_newline(s) = Console(Scrolled(s.buffer), (VGA_HEIGHT - 1) * VGA_WIDTH, 0, VGA_HEIGHT - 1)
    BY <1>1, <1>2 DEF console_newline
  <2>3. Grey!console_newline(s)
          = Console(Grey!Scrolled(s.buffer), (VGA_HEIGHT - 1) * VGA_WIDTH, 0, VGA_HEIGHT - 1)
    BY <1>1, <1>2 DEF Grey!console_newline, Grey!Console, Console
  <2>4. Green!console_newline(s)
          = Console(Green!Scrolled(s.buffer), (VGA_HEIGHT - 1) * VGA_WIDTH, 0, VGA_HEIGHT - 1)
    BY <1>1, <1>2 DEF Green!console_newline, Green!Console, Console
  <2> QED
    BY <2>1, <2>2, <2>3, <2>4, ConsoleFields DEF SamePlace
<1>3. CASE ~(t.y >= VGA_HEIGHT - 1)
  <2>1. console_newline(t) = Console(t.buffer, (t.y + 1) * VGA_WIDTH, 0, t.y + 1)
    BY <1>3 DEF console_newline
  <2>2. console_newline(s) = Console(s.buffer, (t.y + 1) * VGA_WIDTH, 0, t.y + 1)
    BY <1>1, <1>3 DEF console_newline
  <2>3. Grey!console_newline(s) = Console(s.buffer, (t.y + 1) * VGA_WIDTH, 0, t.y + 1)
    BY <1>1, <1>3 DEF Grey!console_newline, Grey!Console, Console
  <2>4. Green!console_newline(s) = Console(s.buffer, (t.y + 1) * VGA_WIDTH, 0, t.y + 1)
    BY <1>1, <1>3 DEF Green!console_newline, Green!Console, Console
  <2> QED
    BY <2>1, <2>2, <2>3, <2>4, ConsoleFields DEF SamePlace
<1> QED
  BY <1>2, <1>3

LEMMA PutPlace ==
  ASSUME NEW s, NEW t, SamePlace(s, t), NEW ch, NEW ch2
  PROVE  /\ SamePlace(Put(s, ch), Put(t, ch2))
         /\ SamePlace(Grey!Put(s, ch), Put(t, ch2))
         /\ SamePlace(Green!Put(s, ch), Put(t, ch2))
<1>1. s.x = t.x /\ s.y = t.y /\ s.index = t.index
  BY DEF SamePlace
<1> DEFINE b == [t.buffer EXCEPT ![t.index] = vga_item_entry(ch2, g_color)]
           b0 == [s.buffer EXCEPT ![s.index] = vga_item_entry(ch, g_color)]
           b1 == [s.buffer EXCEPT ![s.index] = Grey!vga_item_entry(ch, GREY)]
           b2 == [s.buffer EXCEPT ![s.index] = Green!vga_item_entry(ch, GREEN)]
           Along(buffer) == IF t.x + 1 < VGA_WIDTH THEN Console(buffer, t.index + 1, t.x + 1, t.y)
                         ELSE Console(buffer, t.index + 1, 0, t.y + 1)
<1>2. \A u, v : Grey!Console(u, v, t.x + 1, t.y) = Console(u, v, t.x + 1, t.y)
             /\ Grey!Console(u, v, 0, t.y + 1) = Console(u, v, 0, t.y + 1)
             /\ Green!Console(u, v, t.x + 1, t.y) = Console(u, v, t.x + 1, t.y)
             /\ Green!Console(u, v, 0, t.y + 1) = Console(u, v, 0, t.y + 1)
  BY DEF Grey!Console, Green!Console, Console
<1>3. CASE t.x + 1 < VGA_WIDTH \/ t.y + 1 < VGA_HEIGHT
  <2>1. Put(t, ch2) = Along(b) /\ Put(s, ch) = Along(b0)
    BY <1>1, <1>3 DEF Put
  <2>2. Grey!Put(s, ch) = Along(b1)
    BY <1>1, <1>2, <1>3 DEF Grey!Put
  <2>3. Green!Put(s, ch) = Along(b2)
    BY <1>1, <1>2, <1>3 DEF Green!Put
  <2>4. ASSUME NEW u, NEW v PROVE SamePlace(Along(u), Along(v))
    BY ConsoleFields DEF SamePlace
  <2> HIDE DEF Along, b, b0, b1, b2
  <2> QED
    BY <2>1, <2>2, <2>3, <2>4
<1>4. CASE ~(t.x + 1 < VGA_WIDTH \/ t.y + 1 < VGA_HEIGHT)
  <2> DEFINE Past(buffer) == Console(buffer, t.index + 1, 0, t.y + 1)
  <2>1. Put(t, ch2) = console_newline(Past(b)) /\ Put(s, ch) = console_newline(Past(b0))
    BY <1>1, <1>4 DEF Put
  <2>2. Grey!Put(s, ch) = Grey!console_newline(Past(b1))
    BY <1>1, <1>2, <1>4 DEF Grey!Put
  <2>3. Green!Put(s, ch) = Green!console_newline(Past(b2))
    BY <1>1, <1>2, <1>4 DEF Green!Put
  <2>4. ASSUME NEW u, NEW v PROVE SamePlace(Past(u), Past(v))
    BY ConsoleFields DEF SamePlace
  <2> HIDE DEF Past, b, b0, b1, b2
  <2> QED
    BY <2>1, <2>2, <2>3, <2>4, NewlinePlace
<1> QED
  BY <1>3, <1>4

LEMMA PutcharPlace ==
  ASSUME NEW s, NEW t, SamePlace(s, t), NEW ch
  PROVE  SamePlace(console_putchar(s, ch), console_putchar(t, ch))
<1>1. \A u, v : SamePlace(u, v) => SamePlace(Put(u, 32), Put(v, 32))
  BY PutPlace
<1>2. SamePlace(Put(Put(Put(Put(s, 32), 32), 32), 32), Put(Put(Put(Put(t, 32), 32), 32), 32))
  BY <1>1
<1>3. SamePlace(Put(s, ch), Put(t, ch)) /\ SamePlace(console_newline(s), console_newline(t))
  BY PutPlace, NewlinePlace
<1> QED
  BY <1>2, <1>3 DEF console_putchar

LEMMA OnScreenPut ==
  ASSUME NEW s, OnScreen(s), NEW ch \in Codes, g_color \in Colors
  PROVE  OnScreen(console_putchar(s, ch))
<1>1. PICK t : Within(t) /\ SamePlace(s, t)
  BY DEF OnScreen
<1>2. Within(console_putchar(t, ch))
  BY <1>1, PutcharWithin DEF Codes
<1> QED
  BY <1>1, <1>2, PutcharPlace DEF OnScreen

(* A character in the colours of the prefix.                               *)
LEMMA OnScreenGrey ==
  ASSUME NEW s, OnScreen(s), NEW ch \in 32..127, g_color \in Colors
  PROVE  OnScreen(Grey!console_putchar(s, ch)) /\ OnScreen(Green!console_putchar(s, ch))
<1>1. PICK t : Within(t) /\ SamePlace(s, t)
  BY DEF OnScreen
<1>2. ch \in 0..127 /\ ch # 10 /\ ch # 9 /\ ch > 0
  OBVIOUS
<1>3. Grey!console_putchar(s, ch) = Grey!Put(s, ch)
      /\ Green!console_putchar(s, ch) = Green!Put(s, ch)
  BY <1>2 DEF Grey!console_putchar, Green!console_putchar
<1>4. Within(Put(t, ch))
  BY <1>1, <1>2, PutWithin
<1>5. SamePlace(Grey!Put(s, ch), Put(t, ch)) /\ SamePlace(Green!Put(s, ch), Put(t, ch))
  BY <1>1, PutPlace
<1> QED
  BY <1>3, <1>4, <1>5 DEF OnScreen

LEMMA OnScreenPrefixed ==
  ASSUME NEW s, OnScreen(s), g_color \in Colors
  PROVE  OnScreen(Prefixed(s))
<1>1. \A ch \in {91, 32, 111, 115, 93} : ch \in 32..127
  OBVIOUS
<1> DEFINE bracket == Grey!console_putchar(Grey!console_putchar(s, 91), 32)
           os == Green!console_putchar(Green!console_putchar(bracket, 111), 115)
<1>2. OnScreen(bracket)
  BY <1>1, OnScreenGrey
<1> HIDE DEF bracket
<1>3. OnScreen(os)
  BY <1>1, <1>2, OnScreenGrey
<1> HIDE DEF os
<1>4. OnScreen(Grey!console_putchar(Grey!console_putchar(Grey!console_putchar(os, 32), 93), 32))
  BY <1>1, <1>3, OnScreenGrey
<1> QED
  BY <1>4 DEF Prefixed, os, bracket

LEMMA OnScreenPrinted ==
  ASSUME NEW s, OnScreen(s), NEW format, NEW args, Suited(format, args), g_color \in Colors
  PROVE  OnScreen(Printed(s, Text(format, args)))
<1> DEFINE text == Text(format, args)
<1>1. Len(text) \in Nat /\ \A i \in 1..Len(text) : text[i] \in Codes
  BY TextType
<1> HIDE DEF text
<1>2. PICK f : IsPrinting(f, s, text)
  BY <1>1, PrintedDefined
<1> DEFINE S == {i \in Nat : i <= Len(text) => OnScreen(f[i])}
<1>3. 0 \in S
  BY <1>2 DEF IsPrinting
<1>4. ASSUME NEW i \in Nat, i \in S PROVE i + 1 \in S
  <2>1. SUFFICES ASSUME i + 1 <= Len(text) PROVE OnScreen(f[i + 1])
    OBVIOUS
  <2>2. i + 1 \in 1..Len(text) /\ (i + 1) - 1 = i /\ i <= Len(text)
    BY <1>1, <2>1
  <2>3. f[i + 1] = console_putchar(f[i], text[i + 1]) /\ text[i + 1] \in Codes
    BY <1>1, <1>2, <2>2 DEF IsPrinting
  <2>4. OnScreen(f[i])
    BY <1>4, <2>2
  <2> QED
    BY <2>3, <2>4, OnScreenPut
<1>5. \A i \in Nat : i \in S
  <2> HIDE DEF S
  <2> QED
    BY <1>3, <1>4, SetInduction
<1>6. OnScreen(f[Len(text)])
  BY <1>1, <1>5
<1> QED
  BY <1>2, <1>6 DEF IsPrinting, text

ScreenInv == OnScreen(con) /\ g_color \in Colors

LEMMA ScreenInit == Init => ScreenInv
<1> SUFFICES ASSUME Init PROVE ScreenInv
  OBVIOUS
<1>1. Within(con) /\ g_color \in Colors
  BY ConsoleInit, PlacedWithin DEF BlankInv, CursorInv
<1>2. IsConsole(con)
  BY ConsoleFields DEF Init, Cleared
<1> QED
  BY <1>1, <1>2 DEF ScreenInv, OnScreen, SamePlace

LEMMA BackPlace ==
  ASSUME NEW s, NEW t, SamePlace(s, t), NEW stays
  PROVE  /\ SamePlace(Back(s, stays), Back(t, stays))
         /\ IsConsole(t) => SamePlace(EraseHere(s), EraseHere(t))
<1>1. s.x = t.x /\ s.y = t.y /\ s.index = t.index /\ IsConsole(s)
  BY DEF SamePlace
<1>2. SamePlace(Back(s, stays), Back(t, stays))
  BY <1>1, ConsoleFields DEF SamePlace, Back
<1>3. ASSUME NEW u, IsConsole(u)
      PROVE  /\ IsConsole(EraseHere(u)) /\ EraseHere(u).index = u.index
             /\ EraseHere(u).x = u.x /\ EraseHere(u).y = u.y
  <2> DEFINE b == Erased(u.buffer, u.index)
  <2>1. EraseHere(u) = [u EXCEPT !.buffer = b]
    BY DEF EraseHere
  <2> HIDE DEF b
  <2> QED
    BY <1>3, <2>1 DEF IsConsole
<1> QED
  BY <1>1, <1>2, <1>3 DEF SamePlace

LEMMA ScreenNext ==
  ASSUME ScreenInv, [PrintNext]_vars
  PROVE  ScreenInv'
<1>1. OnScreen(con) /\ g_color \in Colors
  BY DEF ScreenInv
<1>2. PICK t : Within(t) /\ SamePlace(con, t)
  BY <1>1 DEF OnScreen
<1>3. /\ IsConsole(con) /\ con.index = t.index /\ con.x = t.x /\ con.y = t.y
      /\ IsConsole(t)
  BY <1>2 DEF SamePlace, Within, Screens, IsConsole
<1>4. SUFFICES OnScreen(con') /\ g_color' \in Colors
  BY DEF ScreenInv
<1>5. ASSUME NEW ch \in Chars, PutChar(ch) PROVE OnScreen(con') /\ g_color' \in Colors
  <2>1. ch \in Codes
    BY ConsoleAssumption DEF Codes
  <2> QED
    BY <1>1, <1>5, <2>1, OnScreenPut DEF PutChar
<1>6. CASE Clear
  <2>1. Within(Cleared(g_color)) /\ IsConsole(Cleared(g_color))
    BY <1>1, ClearedIsSound, PlacedWithin, ConsoleFields DEF Cleared
  <2> QED
    BY <1>1, <1>6, <2>1 DEF Clear, OnScreen, SamePlace
<1>7. ASSUME NEW color \in Colors, SetTextColor(color)
      PROVE  OnScreen(con') /\ g_color' \in Colors
  BY <1>1, <1>7 DEF SetTextColor
<1>8. CASE UngetChar
  <2>1. Within(console_ungetchar(t))
    BY <1>1, <1>2, UngetWithin
  <2>2. SamePlace(console_ungetchar(con), console_ungetchar(t))
    BY <1>2, <1>3, BackPlace DEF console_ungetchar
  <2> QED
    BY <1>1, <1>8, <2>1, <2>2 DEF UngetChar, OnScreen
<1>9. ASSUME NEW n \in Bounds, UngetCharBound(n)
      PROVE  OnScreen(con') /\ g_color' \in Colors
  <2>0. n \in 0..255
    BY ConsoleAssumption
  <2>1. Within(console_ungetchar_bound(t, n))
    BY <1>1, <1>2, <2>0, UngetBoundWithin
  <2>2. SamePlace(console_ungetchar_bound(con, n), console_ungetchar_bound(t, n))
    BY <1>2, <1>3, BackPlace DEF console_ungetchar_bound
  <2> QED
    BY <1>1, <1>9, <2>1, <2>2 DEF UngetCharBound, OnScreen
<1>10. ASSUME NEW x \in 0..VGA_WIDTH - 1, NEW y \in 0..VGA_HEIGHT - 1, GotoXY(x, y)
       PROVE  OnScreen(con') /\ g_color' \in Colors
  <2>1. t.buffer \in [Items -> Entries] /\ VGA_WIDTH \in Nat \ {0}
    BY <1>2, WithinFacts
  <2>2. VGA_WIDTH * y + x = y * VGA_WIDTH + x
    BY <2>1, SMT
  <2>3. Within(Console(t.buffer, VGA_WIDTH * y + x, x, y))
    BY <2>1, <2>2, ConsolePlaced, PlacedWithin
  <2>4. SamePlace(con', Console(t.buffer, VGA_WIDTH * y + x, x, y))
    BY <1>10, ConsoleFields DEF GotoXY, SamePlace
  <2> QED
    BY <1>1, <1>10, <2>3, <2>4 DEF GotoXY, OnScreen
<1>11. CASE Scroll
  <2> DEFINE buffer == [i \in Items |-> vga_item_entry(0, <<0, 0>>)]
  <2> HIDE DEF buffer
  <2>1. con' = [con EXCEPT !.buffer = buffer] /\ g_color' = g_color
    BY <1>11 DEF Scroll, buffer
  <2>2. SamePlace(con', t)
    BY <1>3, <2>1 DEF SamePlace, IsConsole
  <2> QED
    BY <1>1, <1>2, <2>1, <2>2 DEF OnScreen
<1>12. ASSUME NEW call \in Calls, printf(call) \/ announce(call)
       PROVE  OnScreen(con') /\ g_color' \in Colors
  <2>1. Suited(call[1], call[2])
    BY CallsAssumption
  <2>2. OnScreen(Printed(con, Text(call[1], call[2])))
        /\ OnScreen(Printed(Prefixed(con), Text(call[1], call[2])))
    BY <1>1, <2>1, OnScreenPrefixed, OnScreenPrinted
  <2> QED
    BY <1>1, <1>12, <2>2 DEF printf, announce
<1>13. CASE UNCHANGED vars
  BY <1>1, <1>13 DEF vars
<1> QED
  BY <1>5, <1>6, <1>7, <1>8, <1>9, <1>10, <1>11, <1>12, <1>13 DEF PrintNext, Next

(* Formatted text stays on the screen as well: whatever is printed by      *)
(* printf or announced, with a prefix in colours that need not be those of *)
(* the text, every character goes to a place of the screen.                *)
THEOREM FormattedStaysOnScreen == PrintSpec => []WritesOnScreen
<1>1. ScreenInv => WritesOnScreen
  <2> SUFFICES ASSUME ScreenInv PROVE WritesOnScreen
    OBVIOUS
  <2>1. PICK t : Within(t) /\ SamePlace(con, t)
    BY DEF ScreenInv, OnScreen
  <2>2. t.index \in Nat /\ t.index < VGA_HEIGHT * VGA_WIDTH /\ VGA_HEIGHT * VGA_WIDTH \in Nat
        /\ con.index = t.index
    BY <2>1, WithinFacts DEF SamePlace
  <2> QED
    BY <2>2, SMT DEF WritesOnScreen
<1> QED
  BY <1>1, ScreenInit, ScreenNext, PTL DEF PrintSpec

-----------------------------------------------------------------------------
(* A format that is cut between two conversions.                           *)
Joined(w, rest) == At(w.mode, w.pad0, w.pad, w.args \o rest, w.out)

LEMMA HeadOfJoined ==
  ASSUME NEW V, NEW s \in Seq(V), s # <<>>, NEW rest \in Seq(V)
  PROVE  /\ Head(s \o rest) = Head(s) /\ Tail(s \o rest) = Tail(s) \o rest
         /\ Tail(s) \in Seq(V)
<1> DEFINE m == Len(s)
           n == Len(rest)
           whole == s \o rest
           tail == Tail(s)
<1>1. m \in Nat /\ n \in Nat /\ m > 0
  BY EmptySeq, LenProperties
<1>2. /\ whole \in Seq(V) /\ Len(whole) = m + n
      /\ \A i \in 1..m + n : whole[i] = IF i <= m THEN s[i] ELSE rest[i - m]
  BY ConcatProperties
<1>3. tail \in Seq(V) /\ Len(tail) = m - 1 /\ \A i \in 1..m - 1 : tail[i] = s[i + 1]
  BY HeadTailProperties
<1>4. /\ tail \o rest \in Seq(V) /\ Len(tail \o rest) = (m - 1) + n
      /\ \A i \in 1..(m - 1) + n :
           (tail \o rest)[i] = IF i <= m - 1 THEN tail[i] ELSE rest[i - (m - 1)]
  BY <1>3, ConcatProperties
<1> HIDE DEF tail, whole, m, n
<1>5. whole # <<>>
  <2>1. Len(<<>>) = 0
    BY EmptySeq
  <2>2. m + n # 0
    BY <1>1
  <2> QED
    BY <1>2, <2>1, <2>2
<1>6. Tail(whole) \in Seq(V) /\ Len(Tail(whole)) = (m + n) - 1
      /\ \A i \in 1..(m + n) - 1 : Tail(whole)[i] = whole[i + 1]
  BY <1>2, <1>5, HeadTailProperties
<1>7. ASSUME NEW i \in 1..(m + n) - 1 PROVE Tail(whole)[i] = (tail \o rest)[i]
  <2>1. /\ i + 1 \in 1..m + n /\ i \in 1..(m - 1) + n /\ (i + 1 <= m <=> i <= m - 1)
        /\ (i + 1) - m = i - (m - 1) /\ (i <= m - 1 => i \in 1..m - 1)
    BY <1>1
  <2>2. Tail(whole)[i] = whole[i + 1] /\ whole[i + 1] = IF i + 1 <= m THEN s[i + 1] ELSE rest[(i + 1) - m]
    BY <1>2, <1>6, <2>1
  <2>3. (tail \o rest)[i] = IF i <= m - 1 THEN tail[i] ELSE rest[i - (m - 1)]
    BY <1>4, <2>1
  <2>4. i <= m - 1 => tail[i] = s[i + 1]
    BY <1>3, <2>1
  <2> QED
    BY <2>1, <2>2, <2>3, <2>4
<1>8. Len(Tail(whole)) = Len(tail \o rest) /\ Len(Tail(whole)) = (m + n) - 1
  BY <1>1, <1>4, <1>6
<1>9. Tail(whole) = tail \o rest
  BY <1>4, <1>6, <1>7, <1>8, SeqEqual
<1>10. Head(whole) = Head(s)
  <2>1. Head(whole) = whole[1] /\ Head(s) = s[1]
    OBVIOUS
  <2>2. 1 \in 1..m + n /\ 1 <= m
    BY <1>1
  <2> QED
    BY <1>2, <2>1, <2>2
<1> QED
  BY <1>3, <1>9, <1>10 DEF whole, tail

LEMMA JoinedAt ==
  ASSUME NEW mode, NEW pad0, NEW pad, NEW args, NEW out, NEW rest
  PROVE  /\ Joined(At(mode, pad0, pad, args, out), rest) = At(mode, pad0, pad, args \o rest, out)
         /\ At(mode, pad0, pad, args, out).args = args
  BY DEF Joined, At

(* What is still to come does not change what is read.                     *)
LEMMA GoesJoined ==
  ASSUME NEW V, NEW w, w.args \in Seq(V), NEW rest \in Seq(V), NEW c,
         EndsConversion(w, c) => w.args # <<>>
  PROVE  /\ Goes(Joined(w, rest), c) = Joined(Goes(w, c), rest)
         /\ Goes(w, c).args \in Seq(V)
<1> DEFINE u == Joined(w, rest)
<1>1. u.mode = w.mode /\ u.pad0 = w.pad0 /\ u.pad = w.pad /\ u.args = w.args \o rest /\ u.out = w.out
  BY DEF Joined, At
<1> HIDE DEF u
<1>0. w.args \in Seq(V)
  OBVIOUS
<1>2. CASE w.mode = "text" /\ c = Percent
  <2> DEFINE pad0 == FALSE
  <2>1. Goes(w, c) = At("flag", pad0, 0, w.args, w.out)
        /\ Goes(u, c) = At("flag", pad0, 0, w.args \o rest, w.out)
    BY <1>1, <1>2 DEF Goes
  <2> HIDE DEF pad0
  <2>2. Goes(u, c) = Joined(Goes(w, c), rest) /\ Goes(w, c).args = w.args
    BY <2>1, JoinedAt
  <2> QED
    BY <1>0, <2>2 DEF u
<1>3. CASE w.mode = "text" /\ c # Percent
  <2>1. Goes(w, c) = At("text", w.pad0, w.pad, w.args, Append(w.out, c))
        /\ Goes(u, c) = At("text", w.pad0, w.pad, w.args \o rest, Append(w.out, c))
    BY <1>1, <1>3 DEF Goes
  <2>2. Goes(u, c) = Joined(Goes(w, c), rest) /\ Goes(w, c).args = w.args
    BY <2>1, JoinedAt
  <2> QED
    BY <1>0, <2>2 DEF u
<1>4. CASE w.mode = "flag" /\ c = Zero
  <2> DEFINE pad0 == TRUE
  <2>1. Goes(w, c) = At("width", pad0, w.pad, w.args, w.out)
        /\ Goes(u, c) = At("width", pad0, w.pad, w.args \o rest, w.out)
    BY <1>1, <1>4 DEF Goes
  <2> HIDE DEF pad0
  <2>2. Goes(u, c) = Joined(Goes(w, c), rest) /\ Goes(w, c).args = w.args
    BY <2>1, JoinedAt
  <2> QED
    BY <1>0, <2>2 DEF u
<1>5. CASE w.mode # "text" /\ ~(w.mode = "flag" /\ c = Zero) /\ w.mode # "letter" /\ IsDigit(c)
  <2>1. Goes(w, c) = At("letter", w.pad0, c - Zero, w.args, w.out)
        /\ Goes(u, c) = At("letter", w.pad0, c - Zero, w.args \o rest, w.out)
    BY <1>1, <1>5 DEF Goes
  <2>2. Goes(u, c) = Joined(Goes(w, c), rest) /\ Goes(w, c).args = w.args
    BY <2>1, JoinedAt
  <2> QED
    BY <1>0, <2>2 DEF u
<1>6. CASE w.mode # "text" /\ ~(w.mode = "flag" /\ c = Zero) /\ ~(w.mode # "letter" /\ IsDigit(c))
  <2>1. w.args # <<>>
    BY <1>6 DEF EndsConversion
  <2>2. /\ Head(w.args \o rest) = Head(w.args) /\ Tail(w.args \o rest) = Tail(w.args) \o rest
        /\ Tail(w.args) \in Seq(V)
    BY <2>1, HeadOfJoined
  <2> DEFINE piece == Piece(w.pad0, w.pad, c, Head(w.args))
  <2>3. Goes(w, c) = At("text", w.pad0, w.pad, Tail(w.args), w.out \o piece)
    BY <1>6 DEF Goes
  <2>4. Goes(u, c) = At("text", w.pad0, w.pad, Tail(w.args \o rest),
                        w.out \o Piece(w.pad0, w.pad, c, Head(w.args \o rest)))
    BY <1>1, <1>6 DEF Goes
  <2> HIDE DEF piece
  <2>5. Goes(u, c) = At("text", w.pad0, w.pad, Tail(w.args) \o rest, w.out \o piece)
    BY <2>2, <2>4, Zenon DEF piece
  <2>6. Goes(u, c) = Joined(Goes(w, c), rest) /\ Goes(w, c).args = Tail(w.args)
    BY <2>3, <2>5, JoinedAt
  <2> QED
    BY <2>2, <2>6 DEF u
<1> QED
  BY <1>2, <1>3, <1>4, <1>5, <1>6

(* Nor does what was read before, but that it stands in front.             *)
Follows(u, v, first) ==
  /\ u.mode = v.mode /\ u.args = v.args /\ u.out = first \o v.out
  /\ v.mode # "text" => u.pad0 = v.pad0 /\ u.pad = v.pad

LEMMA FollowsAt ==
  ASSUME NEW mode, NEW args, NEW pad0, NEW pad, NEW pad02, NEW pad2, NEW out, NEW out2, NEW first,
         out2 = first \o out,
         mode # "text" => pad02 = pad0 /\ pad2 = pad
  PROVE  Follows(At(mode, pad02, pad2, args, out2), At(mode, pad0, pad, args, out), first)
  BY DEF Follows, At

LEMMA PiecesInARow ==
  \A a, b, c \in Seq(Codes) : (a \o b) \o c = a \o (b \o c)
  BY ConcatAssociative

LEMMA GoesFollowing ==
  ASSUME NEW first \in Seq(Codes), NEW u, NEW v, Typed(v), Follows(u, v, first), NEW c \in Codes,
         EndsConversion(v, c) => Suits(Head(v.args), c)
  PROVE  Follows(Goes(u, c), Goes(v, c), first)
<1>1. u.mode = v.mode /\ u.args = v.args /\ u.out = first \o v.out
      /\ (v.mode # "text" => u.pad0 = v.pad0 /\ u.pad = v.pad)
  BY DEF Follows
<1>2. v.out \in Seq(Codes) /\ v.pad0 \in BOOLEAN /\ v.pad \in 0..9
  BY DEF Typed
<1>3. CASE v.mode = "text" /\ c = Percent
  <2>1. Goes(u, c) = At("flag", FALSE, 0, v.args, u.out)
        /\ Goes(v, c) = At("flag", FALSE, 0, v.args, v.out)
    BY <1>1, <1>3 DEF Goes
  <2> QED
    BY <1>1, <2>1, FollowsAt
<1>4. CASE v.mode = "text" /\ c # Percent
  <2>1. Goes(u, c) = At("text", u.pad0, u.pad, v.args, Append(u.out, c))
        /\ Goes(v, c) = At("text", v.pad0, v.pad, v.args, Append(v.out, c))
    BY <1>1, <1>4 DEF Goes
  <2>2. Append(first \o v.out, c) = first \o Append(v.out, c)
    <3>1. first \o v.out \in Seq(Codes) /\ <<c>> \in Seq(Codes)
      BY <1>2, ConcatProperties
    <3>2. Append(first \o v.out, c) = (first \o v.out) \o <<c>>
          /\ Append(v.out, c) = v.out \o <<c>>
      BY <1>2, <3>1, AppendIsConcat
    <3>3. (first \o v.out) \o <<c>> = first \o (v.out \o <<c>>)
      BY <1>2, <3>1, PiecesInARow
    <3> QED
      BY <3>2, <3>3, Zenon
  <2> QED
    BY <1>1, <2>1, <2>2, FollowsAt
<1>5. CASE v.mode = "flag" /\ c = Zero
  <2>1. Goes(u, c) = At("width", TRUE, v.pad, v.args, u.out)
        /\ Goes(v, c) = At("width", TRUE, v.pad, v.args, v.out)
    BY <1>1, <1>5 DEF Goes
  <2> QED
    BY <1>1, <2>1, FollowsAt
<1>6. CASE v.mode # "text" /\ ~(v.mode = "flag" /\ c = Zero) /\ v.mode # "letter" /\ IsDigit(c)
  <2>1. Goes(u, c) = At("letter", v.pad0, c - Zero, v.args, u.out)
        /\ Goes(v, c) = At("letter", v.pad0, c - Zero, v.args, v.out)
    BY <1>1, <1>6 DEF Goes
  <2> QED
    BY <1>1, <2>1, FollowsAt
<1>7. CASE v.mode # "text" /\ ~(v.mode = "flag" /\ c = Zero) /\ ~(v.mode # "letter" /\ IsDigit(c))
  <2> DEFINE piece == Piece(v.pad0, v.pad, c, Head(v.args))
  <2>1. Goes(u, c) = At("text", v.pad0, v.pad, Tail(v.args), u.out \o piece)
        /\ Goes(v, c) = At("text", v.pad0, v.pad, Tail(v.args), v.out \o piece)
    BY <1>1, <1>7 DEF Goes
  <2>2. piece \in Seq(Codes)
    BY <1>2, <1>7, PieceType DEF EndsConversion
  <2>3. (first \o v.out) \o piece = first \o (v.out \o piece)
    BY <1>2, <2>2, PiecesInARow
  <2> HIDE DEF piece
  <2> QED
    BY <1>1, <2>1, <2>3, FollowsAt
<1> QED
  BY <1>3, <1>4, <1>5, <1>6, <1>7

(* A sequence of anything, cut in two.                                     *)
LEMMA Halves ==
  ASSUME NEW V, NEW s \in Seq(V), NEW i \in 0..Len(s)
  PROVE  LET one == SubSeq(s, 1, i)
             two == SubSeq(s, i + 1, Len(s))
         IN  /\ one \in Seq(V) /\ two \in Seq(V)
             /\ Len(one) = i /\ Len(two) = Len(s) - i
             /\ \A k \in 1..i : one[k] = s[k]
             /\ \A k \in 1..Len(s) - i : two[k] = s[i + k]
             /\ one \o two = s
<1>1. Len(s) \in Nat /\ \A k \in 1..Len(s) : s[k] \in V
  OBVIOUS
<1> DEFINE n == Len(s)
           one == SubSeq(s, 1, i)
           two == SubSeq(s, i + 1, n)
<1>2. n \in Nat /\ i \in 0..n
  BY <1>1
<1>3. one \o two = s
  <2>1. 1 \in 1..n + 1 /\ i \in 1 - 1..n /\ n \in i..n
    <3> HIDE DEF n
    <3> QED
      BY <1>2
  <2>2. one \o two = SubSeq(s, 1, n)
    BY <2>1, ConcatAdjacentSubSeq
  <2> QED
    BY <2>2, SubSeqFull
<1>4. (\A k \in 1..i : s[k] \in V) /\ (\A k \in i + 1..n : s[k] \in V)
  <2>1. (\A k \in 1..i : k \in 1..n) /\ (\A k \in i + 1..n : k \in 1..n)
    <3> HIDE DEF n
    <3> QED
      BY <1>2
  <2> QED
    BY <1>1, <2>1
<1>5. /\ one \in Seq(V) /\ Len(one) = (IF 1 <= i THEN i - 1 + 1 ELSE 0)
      /\ \A k \in 1..i - 1 + 1 : one[k] = s[1 + k - 1]
  BY <1>2, <1>4, SubSeqProperties
<1>6. /\ two \in Seq(V) /\ Len(two) = (IF i + 1 <= n THEN n - (i + 1) + 1 ELSE 0)
      /\ \A k \in 1..n - (i + 1) + 1 : two[k] = s[(i + 1) + k - 1]
  BY <1>2, <1>4, SubSeqProperties
<1> HIDE DEF n, one, two
<1>7. Len(one) = i /\ Len(two) = n - i
  BY <1>2, <1>5, <1>6
<1>8. ASSUME NEW k \in 1..i PROVE one[k] = s[k]
  <2>1. k \in 1..i - 1 + 1 /\ 1 + k - 1 = k
    BY <1>2
  <2> QED
    BY <1>5, <2>1
<1>9. ASSUME NEW k \in 1..n - i PROVE two[k] = s[i + k]
  <2>1. k \in 1..n - (i + 1) + 1 /\ (i + 1) + k - 1 = i + k
    BY <1>2
  <2> QED
    BY <1>6, <2>1
<1> QED
  BY <1>3, <1>5, <1>6, <1>7, <1>8, <1>9 DEF n, one, two

LEMMA TextApart ==
  ASSUME NEW format, NEW args, Suited(format, args),
         NEW i \in 0..Len(format), NEW j \in 0..Len(args),
         Suited(SubSeq(format, 1, i), SubSeq(args, 1, j)),
         Suited(SubSeq(format, i + 1, Len(format)), SubSeq(args, j + 1, Len(args)))
  PROVE  Text(format, args)
           = Text(SubSeq(format, 1, i), SubSeq(args, 1, j))
             \o Text(SubSeq(format, i + 1, Len(format)), SubSeq(args, j + 1, Len(args)))
<1> DEFINE n == Len(format)
           f1 == SubSeq(format, 1, i)
           f2 == SubSeq(format, i + 1, n)
           a1 == SubSeq(args, 1, j)
           a2 == SubSeq(args, j + 1, Len(args))
           V == {args[k] : k \in 1..Len(args)}
<1>1. format \in Seq(Codes) /\ n \in Nat /\ i \in 0..n
  BY TextRead
<1>2. /\ Len(f1) = i /\ Len(f2) = n - i
      /\ \A k \in 1..i : f1[k] = format[k]
      /\ \A k \in 1..n - i : f2[k] = format[i + k]
  BY <1>1, Halves
<1>3. a1 \in Seq(V) /\ a2 \in Seq(V) /\ a1 \o a2 = args
  <2>1. Len(args) \in Nat /\ args = [k \in 1..Len(args) |-> args[k]]
    BY DEF Suited
  <2>2. args \in Seq(V)
    BY <2>1
  <2> HIDE DEF V
  <2> QED
    BY <2>2, Halves
<1>4. PICK h : IsRead(h, format, args)
  BY TextRead
<1>5. PICK h1 : IsRead(h1, f1, a1)
  BY TextRead
<1>6. PICK h2 : IsRead(h2, f2, a2)
  BY TextRead
<1> HIDE DEF n, f1, f2, a1, a2, V
<1>7. /\ Text(format, args) = h[n].out /\ h[0] = At("text", FALSE, 0, args, <<>>)
      /\ \A k \in 1..n : h[k] = Goes(h[k - 1], format[k])
  BY <1>4 DEF IsRead, n
<1>8. /\ Text(f1, a1) = h1[i].out /\ h1[0] = At("text", FALSE, 0, a1, <<>>)
      /\ h1[i].mode = "text" /\ h1[i].args = <<>> /\ Typed(h1[i])
      /\ \A k \in 1..i : /\ h1[k] = Goes(h1[k - 1], f1[k])
                         /\ EndsConversion(h1[k - 1], f1[k]) => h1[k - 1].args # <<>>
  <2>1. i \in 0..i
    BY <1>1
  <2> QED
    BY <1>2, <1>5, <2>1 DEF IsRead
<1>9. /\ Text(f2, a2) = h2[n - i].out /\ h2[0] = At("text", FALSE, 0, a2, <<>>)
      /\ \A k \in 0..n - i : Typed(h2[k])
      /\ \A k \in 1..n - i :
           /\ h2[k] = Goes(h2[k - 1], f2[k])
           /\ EndsConversion(h2[k - 1], f2[k]) => Suits(Head(h2[k - 1].args), f2[k])
  BY <1>2, <1>6 DEF IsRead
<1> DEFINE Same(k) == h1[k].args \in Seq(V) /\ h[k] = Joined(h1[k], a2)
           S == {k \in Nat : k <= i => Same(k)}
<1>10. 0 \in S
  <2> DEFINE pad0 == FALSE
  <2>0. h1[0] = At("text", pad0, 0, a1, <<>>) /\ h[0] = At("text", pad0, 0, args, <<>>)
    BY <1>7, <1>8
  <2> HIDE DEF pad0
  <2>1. h1[0].args = a1 /\ Joined(h1[0], a2) = h[0]
    <3>1. At("text", pad0, 0, a1, <<>>).args = a1
          /\ Joined(At("text", pad0, 0, a1, <<>>), a2) = At("text", pad0, 0, a1 \o a2, <<>>)
      BY DEF At, Joined
    <3>2. a1 \o a2 = args
      BY <1>3
    <3> QED
      BY <2>0, <3>1, <3>2, Zenon
  <2> QED
    BY <1>3, <1>7, <2>1
<1>11. ASSUME NEW k \in Nat, k \in S PROVE k + 1 \in S
  <2>1. SUFFICES ASSUME k + 1 <= i PROVE Same(k + 1)
    OBVIOUS
  <2>2. k + 1 \in 1..i /\ k + 1 \in 1..n /\ (k + 1) - 1 = k /\ k <= i
    BY <1>1, <2>1
  <2>3. Same(k)
    BY <1>11, <2>2
  <2>4. h1[k + 1] = Goes(h1[k], f1[k + 1]) /\ h[k + 1] = Goes(h[k], f1[k + 1])
        /\ (EndsConversion(h1[k], f1[k + 1]) => h1[k].args # <<>>)
    BY <1>2, <1>7, <1>8, <2>2
  <2> DEFINE w == h1[k]
             c == f1[k + 1]
  <2>5. /\ h1[k + 1] = Goes(w, c) /\ h[k + 1] = Goes(Joined(w, a2), c) /\ w.args \in Seq(V)
        /\ EndsConversion(w, c) => w.args # <<>>
    BY <2>3, <2>4
  <2> HIDE DEF w, c
  <2>6. Goes(Joined(w, a2), c) = Joined(Goes(w, c), a2) /\ Goes(w, c).args \in Seq(V)
    BY <1>3, <2>5, GoesJoined
  <2> QED
    BY <2>5, <2>6
<1>12. Same(i)
  <2>1. \A k \in Nat : k \in S
    <3> HIDE DEF S
    <3> QED
      BY <1>10, <1>11, SetInduction
  <2>2. i \in Nat /\ i <= i
    BY <1>1
  <2> HIDE DEF Same
  <2> QED
    BY <2>1, <2>2
<1> DEFINE first == h1[i].out
           After(k) == Follows(h[i + k], h2[k], first)
           R == {k \in Nat : k <= n - i => After(k)}
<1>13. first \in Seq(Codes)
  BY <1>8 DEF Typed
<1>14. 0 \in R
  <2>1. i + 0 = i
    BY <1>1
  <2>2. <<>> \o a2 = a2 /\ first \o <<>> = first
    BY <1>3, <1>13, ConcatEmptySeq
  <2>3. h[i].mode = "text" /\ h[i].args = a2 /\ h[i].out = first
    BY <1>8, <1>12, <2>2 DEF Joined, At
  <2>4. h2[0].mode = "text" /\ h2[0].args = a2 /\ h2[0].out = <<>>
    BY <1>9 DEF At
  <2>5. Follows(h[i], h2[0], first)
    BY <2>2, <2>3, <2>4 DEF Follows
  <2> QED
    BY <2>1, <2>5
<1>15. ASSUME NEW k \in Nat, k \in R PROVE k + 1 \in R
  <2>1. SUFFICES ASSUME k + 1 <= n - i PROVE After(k + 1)
    OBVIOUS
  <2>2. /\ k + 1 \in 1..n - i /\ i + (k + 1) \in 1..n /\ k \in 0..n - i
        /\ (k + 1) - 1 = k /\ k <= n - i /\ (i + (k + 1)) - 1 = i + k
    BY <1>1, <2>1
  <2>3. After(k) /\ Typed(h2[k])
    BY <1>9, <1>15, <2>2
  <2>4. /\ h2[k + 1] = Goes(h2[k], f2[k + 1]) /\ h[i + (k + 1)] = Goes(h[i + k], f2[k + 1])
        /\ EndsConversion(h2[k], f2[k + 1]) => Suits(Head(h2[k].args), f2[k + 1])
    BY <1>2, <1>7, <1>9, <2>2
  <2>5. f2[k + 1] \in Codes
    <3>1. f2[k + 1] = format[i + (k + 1)] /\ i + (k + 1) \in 1..Len(format)
      BY <1>2, <2>2 DEF n
    <3> QED
      BY <1>1, <3>1, ElementOfSeq
  <2> HIDE DEF first
  <2> QED
    BY <1>13, <2>3, <2>4, <2>5, GoesFollowing
<1>16. After(n - i)
  <2>1. \A k \in Nat : k \in R
    <3> HIDE DEF R
    <3> QED
      BY <1>14, <1>15, SetInduction
  <2>2. n - i \in Nat /\ n - i <= n - i
    BY <1>1
  <2> HIDE DEF After
  <2> QED
    BY <2>1, <2>2
<1>17. i + (n - i) = n
  BY <1>1
<1>18. h[n].out = first \o h2[n - i].out
  BY <1>16, <1>17 DEF Follows
<1> QED
  BY <1>7, <1>8, <1>9, <1>18, Zenon DEF f1, f2, a1, a2, n

(* Text printed in two parts.                                              *)
LEMMA PrintedApart ==
  ASSUME NEW s, NEW one \in Seq(Codes), NEW two \in Seq(Codes)
  PROVE  Printed(s, one \o two) = Printed(Printed(s, one), two)
<1> DEFINE text == one \o two
           m == Len(one)
           n == Len(two)
<1>1. /\ text \in Seq(Codes) /\ Len(text) = m + n /\ m \in Nat /\ n \in Nat
      /\ \A i \in 1..m + n : text[i] = IF i <= m THEN one[i] ELSE two[i - m]
  BY ConcatProperties, LenProperties
<1>2. m + n \in Nat
  BY <1>1
<1> HIDE DEF text
<1>3. PICK f : IsPrinting(f, s, text)
  BY <1>1, <1>2, PrintedDefined
<1>4. PICK f1 : IsPrinting(f1, s, one)
  BY <1>1, PrintedDefined
<1>5. PICK f2 : IsPrinting(f2, Printed(s, one), two)
  BY <1>1, PrintedDefined
<1>6. /\ Printed(s, text) = f[m + n] /\ f[0] = s
      /\ \A i \in 1..m + n : f[i] = console_putchar(f[i - 1], text[i])
  BY <1>1, <1>3 DEF IsPrinting
<1>7. /\ Printed(s, one) = f1[m] /\ f1[0] = s
      /\ \A i \in 1..m : f1[i] = console_putchar(f1[i - 1], one[i])
  BY <1>4 DEF IsPrinting
<1>8. /\ Printed(Printed(s, one), two) = f2[n] /\ f2[0] = Printed(s, one)
      /\ \A i \in 1..n : f2[i] = console_putchar(f2[i - 1], two[i])
  BY <1>5 DEF IsPrinting
<1> HIDE DEF m, n
<1> DEFINE S == {i \in Nat : i <= m => f[i] = f1[i]}
           R == {i \in Nat : i <= n => f[m + i] = f2[i]}
<1>9. 0 \in S
  BY <1>6, <1>7
<1>10. ASSUME NEW i \in Nat, i \in S PROVE i + 1 \in S
  <2>1. SUFFICES ASSUME i + 1 <= m PROVE f[i + 1] = f1[i + 1]
    OBVIOUS
  <2>2. i + 1 \in 1..m /\ i + 1 \in 1..m + n /\ (i + 1) - 1 = i /\ i <= m
    BY <1>1, <2>1
  <2>3. text[i + 1] = one[i + 1]
    BY <1>1, <2>1, <2>2
  <2>4. f[i + 1] = console_putchar(f[i], text[i + 1])
    BY <1>6, <2>2
  <2>5. f1[i + 1] = console_putchar(f1[i], one[i + 1])
    BY <1>7, <2>2
  <2> QED
    BY <1>10, <2>2, <2>3, <2>4, <2>5
<1>11. f[m] = f1[m]
  <2>1. \A i \in Nat : i \in S
    <3> HIDE DEF S
    <3> QED
      BY <1>9, <1>10, SetInduction
  <2> QED
    BY <1>1, <2>1
<1>12. 0 \in R
  <2>1. m + 0 = m
    BY <1>1
  <2> QED
    BY <1>7, <1>8, <1>11, <2>1
<1>13. ASSUME NEW i \in Nat, i \in R PROVE i + 1 \in R
  <2>1. SUFFICES ASSUME i + 1 <= n PROVE f[m + (i + 1)] = f2[i + 1]
    OBVIOUS
  <2>2. /\ i + 1 \in 1..n /\ m + (i + 1) \in 1..m + n /\ (i + 1) - 1 = i /\ i <= n
        /\ (m + (i + 1)) - 1 = m + i /\ (m + (i + 1)) - m = i + 1 /\ ~(m + (i + 1) <= m)
    BY <1>1, <2>1
  <2>3. text[m + (i + 1)] = two[i + 1]
    BY <1>1, <2>2
  <2>4. f[m + (i + 1)] = console_putchar(f[m + i], text[m + (i + 1)])
    BY <1>6, <2>2
  <2>5. f2[i + 1] = console_putchar(f2[i], two[i + 1])
    BY <1>8, <2>2
  <2> QED
    BY <1>13, <2>2, <2>3, <2>4, <2>5
<1>14. f[m + n] = f2[n]
  <2>1. \A i \in Nat : i \in R
    <3> HIDE DEF R
    <3> QED
      BY <1>12, <1>13, SetInduction
  <2>2. n \in R
    BY <1>1, <2>1
  <2>3. n <= n
    BY <1>1
  <2> QED
    BY <2>2, <2>3
<1> QED
  BY <1>6, <1>8, <1>14 DEF text

(* The buffer the conversions share never carries anything from one to the *)
(* next: a call prints what its halves print, wherever it is cut.          *)
THEOREM HalvesPrintTheSame == PrintSpec => ConversionsApart
<1>1. ASSUME NEW call \in Calls, printf(call),
             NEW i \in 0..Len(call[1]), NEW j \in 0..Len(call[2]),
             <<SubSeq(call[1], 1, i), SubSeq(call[2], 1, j)>> \in Calls,
             <<SubSeq(call[1], i + 1, Len(call[1])),
               SubSeq(call[2], j + 1, Len(call[2]))>> \in Calls
      PROVE  con' = Printed(Printed(con, Text(SubSeq(call[1], 1, i), SubSeq(call[2], 1, j))),
                            Text(SubSeq(call[1], i + 1, Len(call[1])),
                                 SubSeq(call[2], j + 1, Len(call[2]))))
  <2> DEFINE f1 == SubSeq(call[1], 1, i)
             a1 == SubSeq(call[2], 1, j)
             f2 == SubSeq(call[1], i + 1, Len(call[1]))
             a2 == SubSeq(call[2], j + 1, Len(call[2]))
  <2>1. \A f, a : <<f, a>> \in Calls => Suited(f, a)
    <3> SUFFICES ASSUME NEW f, NEW a, <<f, a>> \in Calls PROVE Suited(f, a)
      OBVIOUS
    <3>1. Suited(<<f, a>>[1], <<f, a>>[2])
      BY CallsAssumption, Zenon
    <3>2. <<f, a>>[1] = f /\ <<f, a>>[2] = a
      OBVIOUS
    <3> QED
      BY <3>1, <3>2, Zenon
  <2>2. Suited(call[1], call[2]) /\ Suited(f1, a1) /\ Suited(f2, a2)
    BY <1>1, <2>1, CallsAssumption
  <2>3. Text(call[1], call[2]) = Text(f1, a1) \o Text(f2, a2)
    BY <2>2, TextApart
  <2>4. Text(f1, a1) \in Seq(Codes) /\ Text(f2, a2) \in Seq(Codes)
    BY <2>2, TextType
  <2>5. con' = Printed(con, Text(call[1], call[2]))
    BY <1>1 DEF printf
  <2> HIDE DEF f1, a1, f2, a2
  <2>6. con' = Printed(Printed(con, Text(f1, a1)), Text(f2, a2))
    BY <2>3, <2>4, <2>5, PrintedApart
  <2> QED
    BY <2>6 DEF f1, a1, f2, a2
<1>2. \A call \in Calls : Len(call[2]) > 1 /\ printf(call) =>
        \A i \in 0..Len(call[1]), j \in 0..Len(call[2]) :
          LET one == <<SubSeq(call[1], 1, i), SubSeq(call[2], 1, j)>>
              two == <<SubSeq(call[1], i + 1, Len(call[1])),
                       SubSeq(call[2], j + 1, Len(call[2]))>>
          IN  one \in Calls /\ two \in Calls
                => con' = Printed(Printed(con, Text(one[1], one[2])),
                                  Text(two[1], two[2]))
  <2>1. \A a, b : <<a, b>>[1] = a /\ <<a, b>>[2] = b
    OBVIOUS
  <2> QED
    BY <1>1, <2>1, Zenon
<1> QED
  BY <1>2, PTL DEF ConversionsApart

-----------------------------------------------------------------------------
(* One number on a clear screen.                                           *)
LEMMA AtFields ==
  ASSUME NEW mode, NEW pad0, NEW pad, NEW args, NEW out
  PROVE  LET w == At(mode, pad0, pad, args, out)
         IN  w.mode = mode /\ w.pad0 = pad0 /\ w.pad = pad /\ w.args = args /\ w.out = out
  BY DEF At

(* How the letter of a number is come to.                                  *)
AtLetter(w, args, width) ==
  /\ w.mode \in {"flag", "width", "letter"} /\ w.pad0 \in BOOLEAN
  /\ w.pad = width /\ w.args = args /\ w.out = <<>>

LEMMA LetterReached ==
  ASSUME NEW format, OneNumber(format), NEW args, NEW h, IsRead(h, format, args)
  PROVE  AtLetter(h[Len(format) - 1], args,
                  IF Len(format) > 2 THEN format[Len(format) - 1] - Zero ELSE 0)
<1> DEFINE n == Len(format)
           no == FALSE
           yes == TRUE
<1>1. /\ n \in 2..4 /\ format[1] = Percent
      /\ \A i \in 2..n - 1 : IsDigit(format[i])
      /\ n = 4 => format[2] = Zero
  BY DEF OneNumber
<1>2. /\ h[0] = At("text", FALSE, 0, args, <<>>)
      /\ \A i \in 1..n : h[i] = Goes(h[i - 1], format[i])
  BY DEF IsRead
<1> HIDE DEF n
<1>3. h[1] = At("flag", no, 0, args, <<>>)
  <2>1. 1 \in 1..n /\ 1 - 1 = 0
    BY <1>1
  <2>2. h[1] = Goes(h[0], Percent)
    BY <1>1, <1>2, <2>1
  <2>3. h[0].mode = "text" /\ h[0].args = args /\ h[0].out = <<>>
    BY <1>2 DEF At
  <2> QED
    BY <2>2, <2>3 DEF Goes
<1>4. no \in BOOLEAN /\ yes \in BOOLEAN
  OBVIOUS
<1>5. /\ h[1].mode = "flag" /\ h[1].pad0 = no /\ h[1].pad = 0 /\ h[1].args = args
      /\ h[1].out = <<>>
  <2> HIDE DEF no
  <2> QED
    BY <1>3 DEF At
<1>6. n > 2 => 2 \in 1..n /\ 2 - 1 = 1 /\ 2 \in 2..n - 1
  BY <1>1
<1>7. ASSUME n > 2, format[2] = Zero PROVE h[2] = At("width", yes, 0, args, <<>>)
  <2>1. h[2] = Goes(h[1], Zero)
    BY <1>2, <1>6, <1>7
  <2> HIDE DEF no
  <2> QED
    BY <1>5, <2>1 DEF Goes
<1>8. ASSUME n > 2, format[2] # Zero
      PROVE  h[2] = At("letter", no, format[2] - Zero, args, <<>>)
  <2>1. h[2] = Goes(h[1], format[2]) /\ IsDigit(format[2])
    BY <1>1, <1>2, <1>6, <1>8
  <2> HIDE DEF no
  <2> QED
    BY <1>5, <1>8, <2>1 DEF Goes
<1>9. CASE n = 2
  <2>1. n - 1 = 1 /\ ~(n > 2)
    BY <1>9
  <2> HIDE DEF no
  <2> QED
    BY <1>4, <1>5, <2>1 DEF AtLetter, n
<1>10. CASE n = 3
  <2>1. n - 1 = 2 /\ n > 2
    BY <1>10
  <2> HIDE DEF no, yes
  <2>2. CASE format[2] = Zero
    <3>1. h[2] = At("width", yes, 0, args, <<>>) /\ format[2] - Zero = 0
      BY <1>7, <2>1, <2>2 DEF Zero
    <3>2. AtLetter(h[2], args, 0)
      BY <1>4, <3>1, AtFields DEF AtLetter
    <3> QED
      BY <2>1, <3>1, <3>2 DEF n
  <2>3. CASE format[2] # Zero
    <3>1. h[2] = At("letter", no, format[2] - Zero, args, <<>>)
      BY <1>8, <2>1, <2>3
    <3>2. AtLetter(h[2], args, format[2] - Zero)
      BY <1>4, <3>1, AtFields DEF AtLetter
    <3> QED
      BY <2>1, <3>1, <3>2 DEF n
  <2> QED
    BY <2>2, <2>3
<1>11. CASE n = 4
  <2>1. n - 1 = 3 /\ n > 2 /\ 3 \in 1..n /\ 3 - 1 = 2 /\ 3 \in 2..n - 1
    BY <1>11
  <2> HIDE DEF no, yes
  <2>2. h[2] = At("width", yes, 0, args, <<>>)
    BY <1>1, <1>7, <1>11, <2>1
  <2>3. h[3] = Goes(h[2], format[3]) /\ IsDigit(format[3])
    BY <1>1, <1>2, <2>1
  <2>4. h[2].mode = "width" /\ h[2].pad0 = yes /\ h[2].args = args /\ h[2].out = <<>>
    BY <2>2 DEF At
  <2>5. h[3] = At("letter", yes, format[3] - Zero, args, <<>>)
    BY <2>3, <2>4 DEF Goes
  <2>6. AtLetter(h[3], args, format[3] - Zero)
    BY <1>4, <2>5, AtFields DEF AtLetter
  <2> QED
    BY <2>1, <2>6 DEF n
<1>12. n = 2 \/ n = 3 \/ n = 4
  BY <1>1
<1> QED
  BY <1>9, <1>10, <1>11, <1>12

LEMMA NumberText ==
  ASSUME NEW format, NEW args, Suited(format, args), OneNumber(format)
  PROVE  LET letter == format[Len(format)]
             width == IF Len(format) > 2 THEN format[Len(format) - 1] - Zero ELSE 0
         IN  /\ IsNumber(letter) /\ args[1] \in Ints
             /\ \E pad0 \in BOOLEAN :
                  Text(format, args) = Filled(pad0, width, Digits(BaseOf(letter), args[1]))
             /\ width \in 0..9
<1> DEFINE n == Len(format)
           c == format[n]
           width == IF n > 2 THEN format[n - 1] - Zero ELSE 0
<1>1. PICK h : IsRead(h, format, args)
  BY TextRead
<1>2. /\ n \in 2..4 /\ IsNumber(c)
      /\ \A i \in 2..n - 1 : IsDigit(format[i])
  BY DEF OneNumber, IsNumber
<1>3. AtLetter(h[n - 1], args, width)
  BY <1>1, LetterReached
<1>4. width \in 0..9
  <2>1. CASE n > 2
    <3>1. IsDigit(format[n - 1])
      BY <1>2, <2>1
    <3> QED
      BY <2>1, <3>1 DEF IsDigit, Zero
  <2>2. CASE ~(n > 2)
    BY <2>2
  <2> QED
    BY <2>1, <2>2
<1> DEFINE w == h[n - 1]
<1>5. /\ Text(format, args) = h[n].out
      /\ h[n] = Goes(w, c)
      /\ EndsConversion(w, c) => w.args # <<>> /\ Suits(Head(w.args), c)
  <2>1. n \in 1..n
    <3> HIDE DEF n
    <3> QED
      BY <1>2
  <2> QED
    BY <1>1, <2>1 DEF IsRead
<1> HIDE DEF n, c, w, width
<1>6. c \in {100, 117, 120}
  BY <1>2 DEF IsNumber, NumberLetters
<1>7. ~IsDigit(c) /\ c # Zero
  BY <1>6 DEF IsDigit, Zero
<1>8. w.mode \in {"flag", "width", "letter"} /\ w.pad0 \in BOOLEAN /\ w.pad = width
      /\ w.args = args /\ w.out = <<>>
  BY <1>3 DEF AtLetter, w
<1>9. EndsConversion(w, c)
  BY <1>7, <1>8 DEF EndsConversion
<1>10. args # <<>> /\ Suits(Head(args), c)
  BY <1>5, <1>8, <1>9
<1>11. Head(args) \in Ints
  BY <1>2, <1>10 DEF Suits, IsNumber
<1>12. Head(args) = args[1]
  <2>1. Len(args) \in Nat /\ args = [k \in 1..Len(args) |-> args[k]]
    BY DEF Suited
  <2> QED
    OBVIOUS
<1> DEFINE piece == Piece(w.pad0, w.pad, c, Head(args))
<1>13. h[n] = At("text", w.pad0, w.pad, Tail(args), <<>> \o piece)
  BY <1>5, <1>7, <1>8 DEF Goes
<1>14. piece \in Seq(Codes)
  BY <1>4, <1>8, <1>10, PieceType
<1>15. piece = Filled(w.pad0, width, Digits(BaseOf(c), args[1]))
  BY <1>2, <1>8, <1>12 DEF Piece
<1> HIDE DEF piece
<1>16. h[n].out = piece
  <2>1. h[n].out = <<>> \o piece
    BY <1>13 DEF At
  <2> QED
    BY <1>14, <2>1, ConcatEmptySeq
<1>17. Text(format, args) = Filled(w.pad0, width, Digits(BaseOf(c), args[1]))
  BY <1>5, <1>15, <1>16
<1> QED
  BY <1>2, <1>4, <1>8, <1>11, <1>12, <1>17 DEF c, width, n

(* A text of plain characters, shorter than the screen, on a clear screen. *)
LEMMA PutAfter ==
  ASSUME NEW s, Placed(s), NEW ch \in Plain, g_color \in Colors,
         s.index + 1 < VGA_HEIGHT * VGA_WIDTH
  PROVE  LET t == console_putchar(s, ch)
         IN  /\ Placed(t) /\ t.index = s.index + 1
             /\ t.buffer = [s.buffer EXCEPT ![s.index] = vga_item_entry(ch, g_color)]
<1> DEFINE buffer == [s.buffer EXCEPT ![s.index] = vga_item_entry(ch, g_color)]
<1>1. ch \in 0..127 /\ ch # 9 /\ ch # 10 /\ ch > 0 /\ ch \in -128..127
  BY DEF Plain
<1>2. console_putchar(s, ch) = Put(s, ch)
  BY <1>1 DEF console_putchar
<1>3. Placed(console_putchar(s, ch))
  BY <1>1, PutcharEffect
<1>4. s.x + 1 < VGA_WIDTH \/ s.y + 1 < VGA_HEIGHT
  <2> SUFFICES ASSUME ~(s.x + 1 < VGA_WIDTH), ~(s.y + 1 < VGA_HEIGHT) PROVE FALSE
    OBVIOUS
  <2>1. s.x \in 0..VGA_WIDTH - 1 /\ s.y \in 0..VGA_HEIGHT - 1
        /\ s.index = s.y * VGA_WIDTH + s.x
    BY DEF Placed
  <2>2. s.x \in Nat /\ s.y \in Nat /\ VGA_WIDTH \in Nat \ {0} /\ VGA_HEIGHT \in Nat \ {0}
        /\ s.y * VGA_WIDTH \in Nat
    BY PlacedFacts
  <2>3. s.x = VGA_WIDTH - 1 /\ s.y = VGA_HEIGHT - 1
    BY <2>1, <2>2, SMT
  <2>4. (VGA_HEIGHT - 1) * VGA_WIDTH + VGA_WIDTH = VGA_HEIGHT * VGA_WIDTH
        /\ VGA_HEIGHT * VGA_WIDTH \in Nat /\ (VGA_HEIGHT - 1) * VGA_WIDTH \in Nat
    BY <2>1, RowInside
  <2> QED
    BY <2>1, <2>2, <2>3, <2>4, SMT
<1>5. Put(s, ch) = IF s.x + 1 < VGA_WIDTH THEN Console(buffer, s.index + 1, s.x + 1, s.y)
                   ELSE Console(buffer, s.index + 1, 0, s.y + 1)
  BY <1>4 DEF Put
<1> HIDE DEF buffer
<1>6. Put(s, ch).index = s.index + 1 /\ Put(s, ch).buffer = buffer
  BY <1>5, ConsoleFields
<1> QED
  BY <1>2, <1>3, <1>6 DEF buffer

LEMMA TextShown ==
  ASSUME NEW text \in Seq(Plain), Len(text) < VGA_HEIGHT * VGA_WIDTH, g_color \in Colors
  PROVE  LET s == Printed(Cleared(g_color), text)
         IN  s.index = Len(text) /\ \A i \in 1..Len(text) : s.buffer[i - 1].ch = text[i]
<1> DEFINE n == Len(text)
           size == VGA_HEIGHT * VGA_WIDTH
           zero == Cleared(g_color)
<1>1. n \in Nat /\ \A i \in 1..n : text[i] \in Plain
  BY LenProperties, ElementOfSeq
<1>2. PICK f : IsPrinting(f, zero, text)
  BY <1>1, PrintedDefined
<1>3. Placed(zero) /\ zero.index = 0
  <2>1. zero.index = 0
    BY ConsoleFields DEF Cleared
  <2> QED
    BY <2>1, ClearedIsSound
<1> HIDE DEF zero
<1>4. size \in Nat /\ size <= VGA_TOTAL_ITEMS /\ VGA_TOTAL_ITEMS \in Nat /\ n < size
  <2>1. 0 \in 0..VGA_HEIGHT - 1
    BY ConsoleAssumption
  <2> QED
    BY <2>1, RowInside, ConsoleAssumption
<1>5. /\ Printed(zero, text) = f[n] /\ f[0] = zero
      /\ \A i \in 1..n : f[i] = console_putchar(f[i - 1], text[i])
  BY <1>2 DEF IsPrinting
<1> DEFINE ShowsFirst(i) == /\ Placed(f[i]) /\ f[i].index = i
                        /\ \A k \in 1..i : f[i].buffer[k - 1].ch = text[k]
           S == {i \in Nat : i <= n => ShowsFirst(i)}
<1> HIDE DEF n
<1>6. 0 \in S
  BY <1>3, <1>5
<1>7. ASSUME NEW i \in Nat, i \in S PROVE i + 1 \in S
  <2>1. SUFFICES ASSUME i + 1 <= n PROVE ShowsFirst(i + 1)
    OBVIOUS
  <2>2. i + 1 \in 1..n /\ (i + 1) - 1 = i /\ i <= n
    BY <1>1, <2>1
  <2>3. Placed(f[i]) /\ f[i].index = i /\ \A k \in 1..i : f[i].buffer[k - 1].ch = text[k]
    BY <1>7, <2>2
  <2> DEFINE s == f[i]
             t == f[i + 1]
             ch == text[i + 1]
  <2>4. t = console_putchar(s, ch) /\ ch \in Plain /\ i + 1 < size
    <3>1. i + 1 < size
      <4> HIDE DEF size
      <4> QED
        BY <1>1, <1>4, <2>1
    <3> QED
      BY <1>1, <1>5, <2>2, <3>1
  <2>5. s.buffer \in [Items -> Entries] /\ i \in Items
    BY <2>3, PlacedFacts
  <2> HIDE DEF s, t, ch
  <2>6. Placed(s) /\ s.index = i /\ s.index + 1 < size
    BY <2>3, <2>4 DEF s
  <2>7. Placed(t) /\ t.index = i + 1
        /\ t.buffer = [s.buffer EXCEPT ![i] = vga_item_entry(ch, g_color)]
    BY <2>4, <2>6, PutAfter
  <2>8. ASSUME NEW k \in 1..i + 1 PROVE t.buffer[k - 1].ch = text[k]
    <3>1. CASE k = i + 1
      <4>1. k - 1 = i
        BY <3>1
      <4>2. t.buffer[i] = vga_item_entry(ch, g_color)
        BY <2>5, <2>7
      <4> QED
        BY <3>1, <4>1, <4>2 DEF vga_item_entry, ch
    <3>2. CASE k # i + 1
      <4>1. k \in 1..i /\ k - 1 # i /\ k - 1 \in Items
        BY <2>5, <3>2, ConsoleAssumption DEF Items
      <4>2. t.buffer[k - 1] = s.buffer[k - 1]
        BY <2>5, <2>7, <4>1
      <4> QED
        BY <2>3, <4>1, <4>2 DEF s
    <3> QED
      BY <3>1, <3>2
  <2> QED
    BY <2>7, <2>8 DEF t
<1>8. ShowsFirst(n)
  <2>1. \A i \in Nat : i \in S
    <3> HIDE DEF S
    <3> QED
      BY <1>6, <1>7, SetInduction
  <2>2. n \in Nat /\ n <= n
    BY <1>1
  <2> HIDE DEF ShowsFirst
  <2> QED
    BY <2>1, <2>2
<1> QED
  BY <1>5, <1>8 DEF n, zero

(* What NumbersReadBack asks of a number, its width and the text shown.    *)
ReadsBack(letter, width, d, bare, text) ==
  /\ ValueOf(bare, letter) = IF letter = NumberLetters.d THEN d ELSE Unsigned(d)
  /\ Len(text) = IF Len(bare) < width THEN width ELSE Len(bare)
  /\ SubSeq(text, Len(text) - Len(bare) + 1, Len(text)) = bare

LEMMA NumberShown ==
  ASSUME NEW format, NEW args, Suited(format, args), OneNumber(format),
         Len(Text(format, args)) < VGA_HEIGHT * VGA_WIDTH, g_color \in Colors
  PROVE  LET letter == format[Len(format)]
             width == IF Len(format) > 2 THEN format[Len(format) - 1] - Zero ELSE 0
             s == Printed(Cleared(g_color), Text(format, args))
         IN  ReadsBack(letter, width, args[1], Digits(BaseOf(letter), args[1]),
                       [i \in 1..s.index |-> s.buffer[i - 1].ch])
<1> DEFINE letter == format[Len(format)]
           width == IF Len(format) > 2 THEN format[Len(format) - 1] - Zero ELSE 0
           d == args[1]
           base == BaseOf(letter)
           bare == Digits(base, d)
           text == Text(format, args)
           s == Printed(Cleared(g_color), text)
           shown == [i \in 1..s.index |-> s.buffer[i - 1].ch]
<1>1. IsNumber(letter) /\ d \in Ints /\ width \in 0..9
      /\ \E pad0 \in BOOLEAN : text = Filled(pad0, width, bare)
  BY NumberText
<1>2. base \in DOMAIN NumberLetters /\ NumberLetters[base] = letter
  BY <1>1 DEF IsNumber, BaseOf
<1>3. Reads(bare, base, d)
  BY <1>1, <1>2, DigitsRead
<1>4. Len(text) < VGA_HEIGHT * VGA_WIDTH
  OBVIOUS
<1> HIDE DEF letter, width, d, base, bare, text, s, shown
<1>5. bare \in Seq(Plain) /\ Len(bare) \in 1..11
      /\ ValueOf(bare, letter) = IF base = "d" THEN d ELSE Unsigned(d)
  BY <1>2, <1>3 DEF Reads
<1>6. ValueOf(bare, letter) = IF letter = NumberLetters.d THEN d ELSE Unsigned(d)
  <2>1. base = "d" <=> letter = NumberLetters.d
    BY <1>2 DEF NumberLetters
  <2> QED
    BY <1>5, <2>1
<1> DEFINE m == Len(bare)
           k == IF m < width THEN width - m ELSE 0
<1>7. PICK pad0 \in BOOLEAN : text = Filled(pad0, width, bare)
  BY <1>1
<1>8. /\ text \in Seq(Codes) /\ k \in 0..9 /\ Len(text) = k + m
      /\ \A i \in 1..k : text[i] = IF pad0 THEN Zero ELSE 32
      /\ \A i \in 1..m : text[k + i] = bare[i]
  <2>1. bare \in Seq(Codes)
    <3>1. Plain \in SUBSET Codes
      BY DEF Plain, Codes
    <3> QED
      BY <1>5, <3>1, PlainCodes
  <2> DEFINE filled == Filled(pad0, width, bare)
  <2>2. /\ filled \in Seq(Codes) /\ k \in 0..9 /\ Len(filled) = k + m
        /\ \A i \in 1..k : filled[i] = IF pad0 THEN Zero ELSE 32
        /\ \A i \in 1..m : filled[k + i] = bare[i]
    <3>1. IsFilled(filled, pad0, width, bare)
      BY <1>1, <1>7, <2>1, FilledType
    <3> QED
      BY <3>1 DEF IsFilled
  <2> HIDE DEF m, k, filled
  <2>3. text = filled
    BY <1>7 DEF filled
  <2> QED
    BY <2>2, <2>3, Zenon
<1>9. m \in 1..11 /\ \A i \in 1..m : bare[i] \in Plain
  BY <1>5, ElementOfSeq
<1>10. Len(text) = IF m < width THEN width ELSE m
  <2> HIDE DEF m
  <2> QED
    BY <1>1, <1>8, <1>9
<1> HIDE DEF m, k
<1>11. k + m \in Nat
  BY <1>8, <1>9
<1>12. text \in Seq(Plain)
  <2>1. ASSUME NEW i \in 1..k + m PROVE text[i] \in Plain
    <3>1. CASE i <= k
      <4>1. i \in 1..k
        BY <1>8, <1>9, <3>1
      <4>2. text[i] = Zero \/ text[i] = 32
        BY <1>8, <4>1
      <4> QED
        BY <4>2 DEF Plain, Zero
    <3>2. CASE ~(i <= k)
      <4>1. i - k \in 1..m /\ k + (i - k) = i
        BY <1>8, <1>9, <3>2
      <4>2. text[k + (i - k)] = bare[i - k] /\ bare[i - k] \in Plain
        BY <1>8, <1>9, <4>1
      <4> QED
        BY <4>1, <4>2
    <3> QED
      BY <3>1, <3>2
  <2>2. text = [i \in 1..k + m |-> text[i]]
    BY <1>8
  <2>3. text \in [1..k + m -> Plain]
    BY <2>1, <2>2
  <2> QED
    BY <1>11, <2>3
<1>13. s.index = Len(text) /\ \A i \in 1..Len(text) : s.buffer[i - 1].ch = text[i]
  BY <1>4, <1>12, TextShown DEF s
<1>14. shown = text
  <2>1. shown = [i \in 1..Len(text) |-> text[i]]
    BY <1>13 DEF shown
  <2>2. text = [i \in 1..Len(text) |-> text[i]]
    BY <1>12
  <2> QED
    BY <2>1, <2>2
<1>15. SubSeq(text, Len(text) - m + 1, Len(text)) = bare
  <2> DEFINE l == Len(text)
             suffix == SubSeq(text, l - m + 1, l)
  <2>1. l = k + m /\ l \in Int /\ l - m + 1 \in Int /\ l - m + 1 = k + 1
    BY <1>8, <1>9
  <2>2. \A i \in l - m + 1..l : text[i] \in Plain
    <3>1. \A i \in l - m + 1..l : i \in 1..l
      <4> HIDE DEF l
      <4> QED
        BY <1>8, <1>9, <2>1
    <3> QED
      BY <1>12, <3>1, ElementOfSeq
  <2>3. /\ suffix \in Seq(Plain)
        /\ Len(suffix) = (IF l - m + 1 <= l THEN l - (l - m + 1) + 1 ELSE 0)
        /\ \A i \in 1..l - (l - m + 1) + 1 : suffix[i] = text[l - m + 1 + i - 1]
    BY <2>1, <2>2, SubSeqProperties
  <2> HIDE DEF l, suffix
  <2>4. Len(suffix) = m
    BY <1>8, <1>9, <2>1, <2>3
  <2>5. ASSUME NEW i \in 1..m PROVE suffix[i] = bare[i]
    <3>1. i \in 1..l - (l - m + 1) + 1 /\ l - m + 1 + i - 1 = k + i
      BY <1>8, <1>9, <2>1
    <3> QED
      BY <1>8, <2>3, <3>1
  <2>6. suffix = bare
    BY <1>5, <2>3, <2>4, <2>5, SeqEqual DEF m
  <2> QED
    BY <2>6 DEF suffix, l
<1>16. ReadsBack(letter, width, d, bare, text)
  BY <1>6, <1>10, <1>15 DEF ReadsBack, m
<1> QED
  BY <1>14, <1>16 DEF letter, width, d, base, bare, text, s, shown

(* For every width of an int up to 32 bits and every int, the least one    *)
(* included: a number printed on a clear screen that holds it reads back   *)
(* from there as the argument.                                             *)
THEOREM WhatIsPrintedReadsBack == PrintSpec => NumbersReadBack
<1>1. ASSUME g_color \in Colors, con = Cleared(g_color), NEW call \in Calls,
             OneNumber(call[1]), printf(call),
             Len(Text(call[1], call[2])) < VGA_HEIGHT * VGA_WIDTH
      PROVE  LET format == call[1]
                 letter == format[Len(format)]
                 width == IF Len(format) > 2 THEN format[Len(format) - 1] - Zero ELSE 0
                 d == call[2][1]
                 bare == Digits(CHOOSE b \in DOMAIN NumberLetters : NumberLetters[b] = letter, d)
             IN  ReadsBack(letter, width, d, bare, Shown')
  <2>1. Suited(call[1], call[2])
    BY CallsAssumption
  <2>2. con' = Printed(Cleared(g_color), Text(call[1], call[2]))
    BY <1>1 DEF printf
  <2>3. Shown' = [i \in 1..con'.index |-> con'.buffer[i - 1].ch]
    BY DEF Shown
  <2> QED
    BY <1>1, <2>1, <2>2, <2>3, NumberShown DEF BaseOf
<1>2. ScreenInv => (con = Cleared(g_color) => \A call \in Calls :
         /\ OneNumber(call[1]) /\ printf(call)
         /\ Len(Text(call[1], call[2])) < VGA_HEIGHT * VGA_WIDTH
         => LET format == call[1]
                letter == format[Len(format)]
                width == IF Len(format) > 2 THEN format[Len(format) - 1] - Zero ELSE 0
                d == call[2][1]
                bare == Digits(CHOOSE b \in DOMAIN NumberLetters : NumberLetters[b] = letter, d)
                text == Shown'
            IN  /\ ValueOf(bare, letter)
                     = IF letter = NumberLetters.d THEN d ELSE Unsigned(d)
                /\ Len(text) = IF Len(bare) < width THEN width ELSE Len(bare)
                /\ SubSeq(text, Len(text) - Len(bare) + 1, Len(text)) = bare)
  BY <1>1, Zenon DEF ScreenInv, ReadsBack
<1> QED
  BY <1>2, ScreenInit, ScreenNext, PTL DEF PrintSpec, NumbersReadBack
=============================================================================
