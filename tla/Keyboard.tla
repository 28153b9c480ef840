------------------------------ MODULE Keyboard ------------------------------
(***************************************************************************)
(* The keyboard driver, src/keyboard.c, and the two sides that share its   *)
(* globals: the interrupt handler, which runs to completion with           *)
(* interrupts disabled (irq.asm), and a reader on the main thread, which   *)
(* an interrupt may cut between any two of its memory accesses.  The build *)
(* uses no optimisation flag, so each C access of g_ch or g_scan_code is   *)
(* one load or one store of one byte.                                      *)
(*                                                                         *)
(* Characters and scan codes are the numbers of the source; FALSE and TRUE *)
(* stand for its BOOL.                                                     *)
(***************************************************************************)
EXTENDS Integers, Sequences, SequencesExt

CONSTANTS
  INPUT_BUFFER_SIZE, \* bytes of g_input_buffer
  Keys,              \* scan codes of the keys the user has
  Apis,              \* reader functions the main thread calls
  FIFO,              \* scan codes the keyboard controller can hold
  Patient            \* does the user wait until the last key was read?

(* The buffer holds at least its terminator and one character.             *)
ASSUME KeyboardAssumption ==
  /\ INPUT_BUFFER_SIZE \in Nat /\ INPUT_BUFFER_SIZE > 1
  /\ Keys \subseteq 1..127
  /\ Apis \subseteq {"kb_getchar", "kb_get_scancode", "keyboard_read"}
  /\ FIFO \in Nat \ {0}
  /\ Patient \in BOOLEAN

VARIABLES
  g_caps_lock, g_shift_pressed, g_ch, g_scan_code, g_input_buffer, g_input_pos,
  kbc,    \* scan codes the controller holds; non-empty means IRQ 1 is raised
  held,   \* keys the user holds down
  capsOn, \* the caps lock state the user has toggled to
  pc,     \* next memory access of the reader on the main thread
  api,    \* the reader function being executed
  c,      \* its local variable
  fresh   \* history: no reader has loaded the character in g_ch yet

kbdVars == <<g_caps_lock, g_shift_pressed, g_ch, g_scan_code,
             g_input_buffer, g_input_pos>>
userVars == <<kbc, held, capsOn>>
readerVars == <<pc, api, c>>
vars == <<kbdVars, userVars, readerVars, fresh>>

SCAN_CODE_KEY_BACKSPACE == 14
SCAN_CODE_KEY_TAB == 15
SCAN_CODE_KEY_ENTER == 28
SCAN_CODE_KEY_LEFT_SHIFT == 42
SCAN_CODE_KEY_CAPS_LOCK == 58

(* g_scan_code_chars[0..78]; the C array is zero from there on.            *)
ScanCodeChars ==
  << 0, 27, 49, 50, 51, 52, 53, 54, 55, 56, 57, 48, 45, 61, 8,
     9, 113, 119, 101, 114, 116, 121, 117, 105, 111, 112, 91, 93, 10,
     0, 97, 115, 100, 102, 103, 104, 106, 107, 108, 59, 39, 96, 0,
     92, 122, 120, 99, 118, 98, 110, 109, 44, 46, 47, 0, 42, 0, 32,
     0, 0, 0, 0, 0, 0, 0, 0, 0, 0, 0, 0, 0, 0, 0, 0, 45, 0, 0, 0, 43 >>

g_scan_code_chars ==
  [sc \in 0..127 |-> IF sc < 79 THEN ScanCodeChars[sc + 1] ELSE 0]

(* The characters alternate_chars replaces, and what it replaces them by.  *)
PlainChars == <<96, 49, 50, 51, 52, 53, 54, 55, 56, 57, 48, 45, 61, 91, 93,
                92, 59, 39, 44, 46, 47>>
ShiftedChars == <<126, 33, 64, 35, 36, 37, 94, 38, 42, 40, 41, 95, 43, 123,
                  125, 124, 58, 34, 60, 62, 63>>

alternate_chars(ch) ==
  IF Contains(PlainChars, ch)
  THEN ShiftedChars[CHOOSE i \in 1..Len(PlainChars) : PlainChars[i] = ch]
  ELSE ch

isalpha(ch) == ch \in 65..90 \/ ch \in 97..122

upper(ch) == IF ch \in 97..122 THEN ch - 32 ELSE ch

(* The character an ordinary key sends under the two modifiers.            *)
Typed(sc) ==
  LET ch == g_scan_code_chars[sc]
  IN  IF g_shift_pressed /\ (g_caps_lock \/ ~isalpha(ch)) THEN alternate_chars(ch)
      ELSE IF g_caps_lock \/ g_shift_pressed THEN upper(ch)
      ELSE ch

(* What the controller delivers: make codes, and break codes above 128.    *)
ScanCodes == 1..255

(* A scan code stored in a signed char.                                    *)
AsChar(sc) == IF sc > 127 THEN sc - 256 ELSE sc

-----------------------------------------------------------------------------
(* keyboard_handler: one alternative per case of its switch statements,    *)
(* sc being the scan code get_scancode read from the data port.            *)

KeyReleaseKeepsShift(sc) ==
  /\ sc > 127
  /\ g_ch' = 0
  /\ UNCHANGED <<g_caps_lock, g_shift_pressed, g_input_buffer, g_input_pos>>

KeyRelease(sc) ==
  /\ sc > 127
  /\ g_ch' = 0
  /\ g_shift_pressed' = (g_shift_pressed /\ sc - 128 # SCAN_CODE_KEY_LEFT_SHIFT)
  /\ UNCHANGED <<g_caps_lock, g_input_buffer, g_input_pos>>

CapsLockDown(sc) ==
  /\ sc = SCAN_CODE_KEY_CAPS_LOCK
  /\ g_ch' = 0
  /\ g_caps_lock' = ~g_caps_lock
  /\ UNCHANGED <<g_shift_pressed, g_input_buffer, g_input_pos>>

EnterDownNoNul(sc) ==
  /\ sc = SCAN_CODE_KEY_ENTER
  /\ g_ch' = 10
  /\ g_input_pos' = 0
  /\ UNCHANGED <<g_caps_lock, g_shift_pressed, g_input_buffer>>

EnterDownKeepsPosition(sc) ==
  /\ sc = SCAN_CODE_KEY_ENTER
  /\ g_ch' = 10
  /\ g_input_buffer' = [g_input_buffer EXCEPT ![g_input_pos] = 0]
  /\ UNCHANGED <<g_caps_lock, g_shift_pressed, g_input_pos>>

EnterDown(sc) ==
  /\ sc = SCAN_CODE_KEY_ENTER
  /\ g_ch' = 10
  /\ g_input_buffer' = [g_input_buffer EXCEPT ![g_input_pos] = 0]
  /\ g_input_pos' = 0
  /\ UNCHANGED <<g_caps_lock, g_shift_pressed>>

TabDown(sc) ==
  /\ sc = SCAN_CODE_KEY_TAB
  /\ g_ch' = 9
  /\ UNCHANGED <<g_caps_lock, g_shift_pressed, g_input_buffer, g_input_pos>>

ShiftDown(sc) ==
  /\ sc = SCAN_CODE_KEY_LEFT_SHIFT
  /\ g_ch' = 0
  /\ g_shift_pressed' = TRUE
  /\ UNCHANGED <<g_caps_lock, g_input_buffer, g_input_pos>>

(* The call of console_backspace changes nothing of the driver's.          *)
BackspaceDownSendsIt(sc) ==
  /\ sc = SCAN_CODE_KEY_BACKSPACE
  /\ g_ch' = 8
  /\ IF g_input_pos > 0
     THEN /\ g_input_pos' = g_input_pos - 1
          /\ g_input_buffer' = [g_input_buffer EXCEPT ![g_input_pos - 1] = 0]
     ELSE UNCHANGED <<g_input_buffer, g_input_pos>>
  /\ UNCHANGED <<g_caps_lock, g_shift_pressed>>

BackspaceDown(sc) ==
  /\ sc = SCAN_CODE_KEY_BACKSPACE
  /\ g_ch' = 0
  /\ IF g_input_pos > 0
     THEN /\ g_input_pos' = g_input_pos - 1
          /\ g_input_buffer' = [g_input_buffer EXCEPT ![g_input_pos - 1] = 0]
     ELSE UNCHANGED <<g_input_buffer, g_input_pos>>
  /\ UNCHANGED <<g_caps_lock, g_shift_pressed>>

FitsWholeBuffer(ch) == g_input_pos < INPUT_BUFFER_SIZE /\ ch >= 32

(* "Only add to buffer if there's space and it's a printable character".   *)
Fits(ch) == g_input_pos < INPUT_BUFFER_SIZE - 1 /\ ch >= 32

CharDown(sc) ==
  /\ sc < 128
  /\ sc \notin {SCAN_CODE_KEY_CAPS_LOCK, SCAN_CODE_KEY_ENTER, SCAN_CODE_KEY_TAB,
                SCAN_CODE_KEY_LEFT_SHIFT, SCAN_CODE_KEY_BACKSPACE}
  /\ g_ch' = Typed(sc)
  /\ IF Fits(Typed(sc))
     THEN /\ g_input_buffer' = [g_input_buffer EXCEPT ![g_input_pos] = Typed(sc)]
          /\ g_input_pos' = g_input_pos + 1
     ELSE UNCHANGED <<g_input_buffer, g_input_pos>>
  /\ UNCHANGED <<g_caps_lock, g_shift_pressed>>

(* IRQ 1: the handler takes the oldest scan code from the controller.      *)
KeyboardHandler ==
  /\ kbc # <<>>
  /\ kbc' = Tail(kbc)
  /\ g_scan_code' = AsChar(Head(kbc))
  /\ \/ KeyRelease(Head(kbc))
     \/ CapsLockDown(Head(kbc))
     \/ EnterDown(Head(kbc))
     \/ TabDown(Head(kbc))
     \/ ShiftDown(Head(kbc))
     \/ BackspaceDown(Head(kbc))
     \/ CharDown(Head(kbc))
  /\ fresh' = (g_ch' # 0)
  /\ UNCHANGED <<held, capsOn, readerVars>>

-----------------------------------------------------------------------------
(* The readers, one step per access of a shared global.  kb_getchar and    *)
(* kb_get_scancode spin until there is something; keyboard_read does not.  *)

Call(f) ==
  /\ pc = "idle"
  /\ api' = f
  /\ pc' = IF f = "keyboard_read" THEN "load" ELSE "poll"
  /\ UNCHANGED <<kbdVars, userVars, c, fresh>>

(* What the while loop of the blocking readers waits for.                  *)
ReadyAtOnce == IF api = "kb_getchar" THEN g_ch >= 0 ELSE g_scan_code > 0

Ready == IF api = "kb_getchar" THEN g_ch > 0 ELSE g_scan_code > 0

PollClearsFirst ==
  /\ pc = "poll"
  /\ Ready
  /\ g_ch' = 0
  /\ fresh' = FALSE
  /\ pc' = "load"
  /\ UNCHANGED <<g_caps_lock, g_shift_pressed, g_scan_code, g_input_buffer,
                 g_input_pos, userVars, api, c>>

Poll ==
  /\ pc = "poll"
  /\ Ready
  /\ pc' = "load"
  /\ UNCHANGED <<kbdVars, userVars, api, c, fresh>>

Load ==
  /\ pc = "load"
  /\ c' = IF api = "kb_get_scancode" THEN g_scan_code ELSE g_ch
  /\ fresh' = (fresh /\ api = "kb_get_scancode")
  /\ pc' = "clear_ch"
  /\ UNCHANGED <<kbdVars, userVars, api>>

ClearChSkipped ==
  /\ pc = "clear_ch"
  /\ pc' = IF api = "keyboard_read" THEN "done" ELSE "clear_scan"
  /\ UNCHANGED <<kbdVars, userVars, api, c, fresh>>

ClearCh ==
  /\ pc = "clear_ch"
  /\ g_ch' = 0
  /\ fresh' = FALSE
  /\ pc' = IF api = "keyboard_read" THEN "done" ELSE "clear_scan"
  /\ UNCHANGED <<g_caps_lock, g_shift_pressed, g_scan_code, g_input_buffer,
                 g_input_pos, userVars, api, c>>

ClearScanCode ==
  /\ pc = "clear_scan"
  /\ g_scan_code' = 0
  /\ pc' = "done"
  /\ UNCHANGED <<g_caps_lock, g_shift_pressed, g_ch, g_input_buffer,
                 g_input_pos, userVars, api, c, fresh>>

(* The call returns c.                                                     *)
Return ==
  /\ pc = "done"
  /\ pc' = "idle"
  /\ c' = 0
  /\ UNCHANGED <<kbdVars, userVars, api, fresh>>

-----------------------------------------------------------------------------
(* The user and the keyboard controller, which are outside src/.  A        *)
(* patient user touches no key before the reader has taken the last        *)
(* character and polls again; an eager one does not wait.                  *)

MayTouch ==
  /\ Len(kbc) < FIFO
  /\ Patient => kbc = <<>> /\ pc = "poll" /\ ~Ready

KeyDown(k) ==
  /\ kbc' = Append(kbc, k)
  /\ held' = held \union {k}
  /\ capsOn' = IF k = SCAN_CODE_KEY_CAPS_LOCK THEN ~capsOn ELSE capsOn
  /\ UNCHANGED <<kbdVars, readerVars, fresh>>

KeyUp(k) ==
  /\ k \in held
  /\ kbc' = Append(kbc, k + 128)
  /\ held' = held \ {k}
  /\ UNCHANGED <<kbdVars, capsOn, readerVars, fresh>>

Press(k) == MayTouch /\ KeyDown(k)
Release(k) == MayTouch /\ KeyUp(k)

-----------------------------------------------------------------------------
(* After keyboard_init: a zeroed buffer and no key touched yet.            *)
Init ==
  /\ g_caps_lock = FALSE /\ g_shift_pressed = FALSE
  /\ g_ch = 0 /\ g_scan_code = 0
  /\ g_input_buffer = [i \in 0..INPUT_BUFFER_SIZE - 1 |-> 0] /\ g_input_pos = 0
  /\ kbc = <<>> /\ held = {} /\ capsOn = FALSE
  /\ pc = "idle" /\ api = "kb_getchar" /\ c = 0
  /\ fresh = FALSE

Reader == Poll \/ Load \/ ClearCh \/ ClearScanCode \/ Return

Next ==
  \/ KeyboardHandler
  \/ \E f \in Apis : Call(f)
  \/ Reader
  \/ \E k \in Keys : Press(k) \/ Release(k)

Spec == Init /\ [][Next]_vars

(* Interrupts stay enabled outside handlers, and nothing but an interrupt  *)
(* ever takes the processor from the main thread.                          *)
Fairness ==
  /\ WF_vars(KeyboardHandler)
  /\ WF_vars(Reader)
  /\ WF_vars(\E f \in Apis : Call(f))

FairSpec == Spec /\ Fairness

-----------------------------------------------------------------------------
(* Every global keeps a value its C type and its use allow; in particular  *)
(* the handler never indexes g_input_buffer outside its bounds.            *)
TypeOK ==
  /\ g_caps_lock \in BOOLEAN /\ g_shift_pressed \in BOOLEAN
  /\ g_ch \in 0..127
  /\ g_scan_code \in -128..127
  /\ g_input_buffer \in [0..INPUT_BUFFER_SIZE - 1 -> 0..127]
  /\ g_input_pos \in 0..INPUT_BUFFER_SIZE - 1
  /\ kbc \in Seq(ScanCodes)
  /\ held \subseteq 1..127
  /\ capsOn \in BOOLEAN
  /\ pc \in {"idle", "poll", "load", "clear_ch", "clear_scan", "done"}
  /\ api \in {"kb_getchar", "kb_get_scancode", "keyboard_read"}
  /\ c \in -128..127
  /\ fresh \in BOOLEAN

(* One key press is read at most once, wherever interrupts fall between    *)
(* the accesses of a reader: the character a reader is about to load was   *)
(* put into g_ch by a handler run no earlier load has read from.           *)
NoDuplicate ==
  pc = "load" /\ api # "kb_get_scancode" /\ g_ch # 0 => fresh

(* Once the controller is drained the driver's modifiers are the user's,   *)
(* in whatever order keys went down and up and however late the handler    *)
(* ran.                                                                    *)
ModifiersTrack ==
  kbc = <<>> => /\ g_shift_pressed <=> SCAN_CODE_KEY_LEFT_SHIFT \in held
                /\ g_caps_lock <=> capsOn

(* The edited line, and the C string at the start of g_input_buffer.       *)
Line == [i \in 1..g_input_pos |-> g_input_buffer[i - 1]]

CString ==
  LET len == CHOOSE n \in 0..INPUT_BUFFER_SIZE - 1 :
               /\ g_input_buffer[n] = 0
               /\ \A i \in 0..n - 1 : g_input_buffer[i] # 0
  IN  [i \in 1..len |-> g_input_buffer[i - 1]]

(* When Enter is handled, the string kb_get_input_buffer returns is the    *)
(* edited line, whatever longer lines were typed and erased before it in   *)
(* the same buffer.                                                        *)
EnterCommitsLine ==
  [][kbc # <<>> /\ kbc' = Tail(kbc) /\ Head(kbc) = SCAN_CODE_KEY_ENTER
       => CString' = Line /\ Line' = <<>>]_vars

(* keyboard.h: kb_getchar is "a blocking character read"; it returns a     *)
(* character, never the 0 that stands for none.                            *)
GetcharReturnsChar == pc = "done" /\ api = "kb_getchar" => c > 0
=============================================================================
