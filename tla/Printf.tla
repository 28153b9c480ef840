------------------------------- MODULE Printf -------------------------------
(***************************************************************************)
(* Formatted output to the console: printf and announce of console.c, and  *)
(* itoa of string.c, which printf has write into one buffer of 32 bytes.   *)
(* Conversions are %d, %u, %x and %s, with an optional 0 and one digit of  *)
(* width; any other letter prints its argument as a character.             *)
(***************************************************************************)
EXTENDS Console

CONSTANTS
  WORD,  \* values an unsigned int can have: 2^32 in the source
  NULL,  \* a pointer
  Calls, \* <<format, arguments>> of the calls programs make
  Often  \* those of them made on any screen, the others on a clear one

(* An int is half of them negative, and has at most 32 bits.               *)
ASSUME WordAssumption ==
  /\ WORD \in Nat /\ WORD > 1 /\ WORD % 2 = 0
  /\ (WORD - 1) \div 65536 < 65536

Percent == 37
Minus == 45
Zero == 48
Digit(n) == IF n < 10 THEN Zero + n ELSE 87 + n
GREY == <<7, 0>>
GREEN == <<2, 0>>
Buf == 0..31

Ints == -(WORD \div 2)..(WORD \div 2) - 1

Unsigned(d) == d % WORD

NegatedInOneBitLess(d) == (-d) % (WORD \div 2)

(* ud = -d: the least int is its own negation, and right as an unsigned.   *)
Negated(d) == (-d) % WORD

(* What is left of ud after so many turns of the loop.                     *)
Left(ud, b) ==
  LET left[k \in 0..WORD] == IF k = 0 THEN ud ELSE left[k - 1] \div b
  IN  left

(* The loop ends when nothing is, after one turn at least.                 *)
Divisions(left) ==
  CHOOSE n \in 1..WORD : left[n] = 0 /\ \A k \in 1..n - 1 : left[k] # 0

(* Digits come out last first and are put in order behind the sign.        *)
Digits(base, d) ==
  LET sign == IF base = "d" /\ d < 0 THEN <<Minus>> ELSE <<>>
      ud == IF sign = <<>> THEN Unsigned(d) ELSE Negated(d)
      b == IF base = "x" THEN 16 ELSE 10
      left == Left(ud, b)
      n == Divisions(left)
  IN  sign \o [i \in 1..n |-> Digit(left[n - i] % b)]

Stored(buf, text) == [i \in Buf |-> IF i < Len(text) THEN text[i + 1] ELSE buf[i]]

ItoaWithoutNul(buf, base, d) == Stored(buf, Digits(base, d))

itoa(buf, base, d) == Stored(buf, Digits(base, d) \o <<0>>)

CString(buf) ==
  [i \in 1..CHOOSE n \in Buf : buf[n] = 0 /\ \A k \in 0..n - 1 : buf[k] # 0
     |-> buf[i - 1]]

NumberLetters == [d |-> 100, u |-> 117, x |-> 120]
StringLetter == 115

Repeated(ch, n) == [i \in 1..n |-> ch]

Padded(s, string) ==
  Repeated(IF s.pad0 THEN Zero ELSE 32, IF Len(string) < s.pad THEN s.pad - Len(string) ELSE 0)
  \o string

Null == <<40, 110, 117, 108, 108, 41>> \* "(null)"

(* The letter c ends a conversion of the next argument.                    *)
Convert(s, c) ==
  LET done == [s EXCEPT !.mode = "text", !.args = Tail(s.args)]
      arg == Head(s.args)
  IN  IF \E base \in DOMAIN NumberLetters : NumberLetters[base] = c
      THEN LET base == CHOOSE base \in DOMAIN NumberLetters : NumberLetters[base] = c
               buf == itoa(s.buf, base, arg)
           IN  [done EXCEPT !.buf = buf, !.out = s.out \o Padded(s, CString(buf))]
      ELSE IF c = StringLetter
      THEN [done EXCEPT !.out = s.out \o Padded(s, IF arg = NULL THEN Null ELSE arg)]
      ELSE [done EXCEPT !.out = Append(s.out, arg)]

IsDigit(c) == c \in Zero..Zero + 9

(* One character of the format after the other.                            *)
Take(s, c) ==
  IF s.mode = "text"
  THEN IF c = Percent THEN [s EXCEPT !.mode = "flag", !.pad0 = FALSE, !.pad = 0]
       ELSE [s EXCEPT !.out = Append(s.out, c)]
  ELSE IF s.mode = "flag" /\ c = Zero THEN [s EXCEPT !.mode = "width", !.pad0 = TRUE]
  ELSE IF s.mode # "letter" /\ IsDigit(c) THEN [s EXCEPT !.mode = "letter", !.pad = c - Zero]
  ELSE Convert(s, c)

(* Where printf is after so many characters of the format.                 *)
Reading(format, args) ==
  LET at[i \in 0..Len(format)] ==
        IF i = 0
        THEN [mode |-> "text", pad0 |-> FALSE, pad |-> 0, args |-> args,
              buf |-> [k \in Buf |-> 0], out |-> <<>>]
        ELSE Take(at[i - 1], format[i])
  IN  at

Text(format, args) == Reading(format, args)[Len(format)].out

(* What programs pass: characters, and for each conversion an argument of  *)
(* its kind.                                                               *)
TextChars == (-128..127) \ {0}

Suits(arg, c) ==
  IF \E base \in DOMAIN NumberLetters : NumberLetters[base] = c THEN arg \in Ints
  ELSE IF c = StringLetter THEN arg = NULL \/ arg \in Seq(TextChars)
  ELSE arg \in -128..127

Suited(format, args) ==
  LET at == Reading(format, args)
  IN  /\ format \in Seq(TextChars)
      /\ Len(args) \in Nat /\ args = [i \in 1..Len(args) |-> args[i]]
      /\ \A i \in 1..Len(format) :
           LET s == at[i - 1]
           IN  s.mode = "letter" \/ (s.mode # "text" /\ ~IsDigit(format[i]))
                 => s.args # <<>> /\ Suits(Head(s.args), format[i])
      /\ at[Len(format)].mode = "text" /\ at[Len(format)].args = <<>>

ASSUME CallsAssumption == \A call \in Calls : Suited(call[1], call[2])

-----------------------------------------------------------------------------
(* Text printed after what is on the screen, in the colours of the text.   *)
Printed(s, text) ==
  LET after[i \in 0..Len(text)] ==
        IF i = 0 THEN s ELSE console_putchar(after[i - 1], text[i])
  IN  after[Len(text)]

Grey == INSTANCE Console WITH g_color <- GREY
Green == INSTANCE Console WITH g_color <- GREEN

(* "[ os ] " in grey and green.                                            *)
Prefixed(s) ==
  LET bracket == Grey!console_putchar(Grey!console_putchar(s, 91), 32)
      os == Green!console_putchar(Green!console_putchar(bracket, 111), 115)
  IN  Grey!console_putchar(Grey!console_putchar(Grey!console_putchar(os, 32), 93), 32)

MayCall(call) == call \in Often \/ con = Cleared(g_color)

printf(call) ==
  /\ MayCall(call)
  /\ con' = Printed(con, Text(call[1], call[2]))
  /\ UNCHANGED g_color

(* The colours are put back before the message is printed.                 *)
announce(call) ==
  /\ MayCall(call)
  /\ con' = Printed(Prefixed(con), Text(call[1], call[2]))
  /\ UNCHANGED g_color

PrintNext == Next \/ \E call \in Calls : printf(call) \/ announce(call)

PrintSpec == Init /\ [][PrintNext]_vars

-----------------------------------------------------------------------------
(* What a reader makes of digits, and of digits after a sign.              *)
Value(text, b) ==
  LET value[i \in 0..Len(text)] ==
        IF i = 0 THEN 0
        ELSE b * value[i - 1] + (IF text[i] < 58 THEN text[i] - Zero ELSE text[i] - 87)
  IN  value[Len(text)]

ValueOf(text, letter) ==
  IF text[1] = Minus THEN -Value(Tail(text), 10)
  ELSE Value(text, IF letter = NumberLetters.x THEN 16 ELSE 10)

(* What a screen shows that was clear, and has not scrolled.               *)
Shown == [i \in 1..con.index |-> con.buffer[i - 1].ch]

(* "%", a zero and a width or not, and the letter of a number.             *)
OneNumber(format) ==
  /\ Len(format) \in 2..4 /\ format[1] = Percent
  /\ \A i \in 2..Len(format) - 1 : IsDigit(format[i])
  /\ Len(format) = 4 => format[2] = Zero
  /\ \E base \in DOMAIN NumberLetters : NumberLetters[base] = format[Len(format)]

(* A number printed on a clear screen that holds it reads back from there  *)
(* as the argument, the least int included, which has no negation; as an   *)
(* unsigned one if that was asked for; and it is as wide as was asked for, *)
(* or as it has to be, whatever fills it up.                               *)
NumbersReadBack ==
  [][con = Cleared(g_color) => \A call \in Calls :
       /\ OneNumber(call[1]) /\ printf(call)
       /\ Len(Text(call[1], call[2])) < VGA_HEIGHT * VGA_WIDTH
       => LET format == call[1]
              letter == format[Len(format)]
              width == IF Len(format) > 2 THEN format[Len(format) - 1] - Zero ELSE 0
              d == call[2][1]
              bare == Digits(CHOOSE b \in DOMAIN NumberLetters : NumberLetters[b] = letter, d)
              text == Shown'
          IN  /\ ValueOf(bare, letter)
                   = IF letter = NumberLetters.d THEN d ELSE Unsigned(d)
              /\ Len(text) = IF Len(bare) < width THEN width ELSE Len(bare)
              /\ SubSeq(text, Len(text) - Len(bare) + 1, Len(text)) = bare]_vars

(* Conversions share a buffer but not its contents: a call prints what the *)
(* two halves of it print, called one after the other, wherever between    *)
(* two conversions it is cut, whatever the first one leaves in the buffer. *)
ConversionsApart ==
  [][\A call \in Calls : Len(call[2]) > 1 /\ printf(call) =>
       \A i \in 0..Len(call[1]), j \in 0..Len(call[2]) :
         LET one == <<SubSeq(call[1], 1, i), SubSeq(call[2], 1, j)>>
             two == <<SubSeq(call[1], i + 1, Len(call[1])),
                      SubSeq(call[2], j + 1, Len(call[2]))>>
         IN  one \in Calls /\ two \in Calls
               => con' = Printed(Printed(con, Text(one[1], one[2])),
                                 Text(two[1], two[2]))]_vars
=============================================================================
