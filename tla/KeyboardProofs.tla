--------------------------- MODULE KeyboardProofs ---------------------------
(* Proofs about module Keyboard.                                           *)
EXTENDS Keyboard, SequenceTheorems, TLAPS

LEMMA ExceptType ==
  ASSUME NEW D, NEW R, NEW f \in [D -> R], NEW i, NEW v \in R
  PROVE  [f EXCEPT ![i] = v] \in [D -> R]
  OBVIOUS

(* What the table of characters holds where a key may send it.             *)
LEMMA CharTable ==
  ASSUME NEW sc \in 0..127
  PROVE  LET ch == g_scan_code_chars[sc]
         IN  /\ ch \in 0..122
             /\ ch = 8 <=> sc = 14
             /\ ch = 10 <=> sc = 28
             /\ ch = 43 <=> sc = 78
             /\ ch = 45 <=> sc \in {12, 74}
             /\ ch = 61 <=> sc = 13
<1> DEFINE Entry(i, ch) == /\ ch \in 0..122
                           /\ ch = 8 <=> i = 15
                           /\ ch = 10 <=> i = 29
                           /\ ch = 43 <=> i = 79
                           /\ ch = 45 <=> i \in {13, 75}
                           /\ ch = 61 <=> i = 14
<1>1. \A i \in 1..79 : Entry(i, ScanCodeChars[i])
  BY DEF ScanCodeChars
<1>2. g_scan_code_chars[sc] = IF sc < 79 THEN ScanCodeChars[sc + 1] ELSE 0
  BY Zenon DEF g_scan_code_chars
<1>3. CASE sc < 79
  <2>1. Entry(sc + 1, g_scan_code_chars[sc])
    BY <1>1, <1>2, <1>3
  <2>2. QED
    BY <2>1
<1>4. CASE ~(sc < 79)
  BY <1>2, <1>4
<1>5. QED
  BY <1>3, <1>4

LEMMA AlternateRange ==
  ASSUME NEW ch \in 0..122
  PROVE  /\ alternate_chars(ch) = ch \/ alternate_chars(ch) \in 33..126
         /\ alternate_chars(ch) = 43 <=> ch \in {43, 61}
         /\ alternate_chars(ch) # 45
<1>1. \A i \in 1..21 : /\ ShiftedChars[i] \in 33..126 /\ ShiftedChars[i] # 45
                       /\ ShiftedChars[i] = 43 <=> i = 13
  BY DEF ShiftedChars
<1>2. \A i \in 1..21 : PlainChars[i] = 61 <=> i = 13
  BY DEF PlainChars
<1>3. Len(PlainChars) = 21 /\ PlainChars[12] = 45 /\ PlainChars[13] = 61
      /\ \A i \in 1..21 : PlainChars[i] # 43
  BY DEF PlainChars
<1>4. CASE \E i \in 1..21 : PlainChars[i] = ch
  <2> DEFINE at == CHOOSE i \in 1..Len(PlainChars) : PlainChars[i] = ch
  <2>1. at \in 1..21 /\ PlainChars[at] = ch
    BY <1>3, <1>4
  <2>2. alternate_chars(ch) = ShiftedChars[at]
    BY <1>3, <1>4 DEF alternate_chars, Contains
  <2> HIDE DEF at
  <2>3. QED
    BY <1>1, <1>2, <1>3, <2>1, <2>2
<1>5. CASE ~\E i \in 1..21 : PlainChars[i] = ch
  <2>1. alternate_chars(ch) = ch
    BY <1>3, <1>5 DEF alternate_chars, Contains
  <2>2. ch # 45 /\ ch # 61
    <3>1. PlainChars[12] # ch /\ PlainChars[13] # ch
      BY <1>5
    <3>2. QED
      BY <1>3, <3>1, Zenon
  <2>3. QED
    BY <2>1, <2>2
<1>6. QED
  BY <1>4, <1>5

(* The character of an ordinary key is a character, only their own keys    *)
(* send backspace and newline, and shift chooses between + and -.          *)
LEMMA TypedRange ==
  ASSUME TypeOK, NEW sc \in 0..127
  PROVE  /\ Typed(sc) \in 0..127
         /\ sc # SCAN_CODE_KEY_BACKSPACE => Typed(sc) # 8
         /\ sc # SCAN_CODE_KEY_ENTER => Typed(sc) # 10
         /\ Typed(sc) = 43 <=> sc = 78 \/ (sc = 13 /\ g_shift_pressed)
         /\ Typed(sc) = 45 <=> sc \in {12, 74} /\ ~g_shift_pressed
<1> DEFINE ch == g_scan_code_chars[sc]
<1>1. /\ ch \in 0..122
      /\ ch = 8 <=> sc = 14
      /\ ch = 10 <=> sc = 28
      /\ ch = 43 <=> sc = 78
      /\ ch = 45 <=> sc \in {12, 74}
      /\ ch = 61 <=> sc = 13
  BY CharTable
<1>2. /\ alternate_chars(ch) = ch \/ alternate_chars(ch) \in 33..126
      /\ alternate_chars(ch) = 43 <=> ch \in {43, 61}
      /\ alternate_chars(ch) # 45
  BY <1>1, AlternateRange
<1>3. upper(ch) = ch \/ (upper(ch) \in 65..90 /\ ch \in 97..122)
  BY <1>1 DEF upper
<1>4. isalpha(ch) => ch \notin {8, 10, 43, 45, 61}
  BY DEF isalpha
<1>5. Typed(sc) = IF g_shift_pressed /\ (g_caps_lock \/ ~isalpha(ch))
                  THEN alternate_chars(ch)
                  ELSE IF g_caps_lock \/ g_shift_pressed THEN upper(ch)
                  ELSE ch
  BY Zenon DEF Typed
<1> HIDE DEF ch
<1>6. CASE g_shift_pressed /\ (g_caps_lock \/ ~isalpha(ch))
  <2>1. Typed(sc) = alternate_chars(ch)
    BY <1>5, <1>6, Zenon
  <2>2. QED
    BY <1>1, <1>2, <1>6, <2>1 DEF SCAN_CODE_KEY_BACKSPACE, SCAN_CODE_KEY_ENTER
<1>7. CASE ~(g_shift_pressed /\ (g_caps_lock \/ ~isalpha(ch)))
  <2>1. Typed(sc) \in {ch, upper(ch)} /\ (g_shift_pressed => isalpha(ch))
    BY <1>5, <1>7, Zenon
  <2>2. QED
    BY <1>1, <1>3, <1>4, <1>7, <2>1 DEF SCAN_CODE_KEY_BACKSPACE, SCAN_CODE_KEY_ENTER
<1>8. QED
  BY <1>6, <1>7

LEMMA HandlerType ==
  ASSUME TypeOK, KeyboardHandler
  PROVE  TypeOK'
<1> DEFINE sc == Head(kbc)
<1>0. kbc \in Seq(ScanCodes) /\ kbc # <<>> /\ kbc' = Tail(kbc)
  BY DEF TypeOK, KeyboardHandler
<1>1. sc \in ScanCodes /\ kbc' \in Seq(ScanCodes)
  BY <1>0, HeadTailProperties
<1>2. AsChar(sc) \in -128..127
  <2> HIDE DEF sc
  <2>1. QED
    BY <1>1 DEF AsChar, ScanCodes
<1>3. /\ g_ch' \in 0..127
      /\ g_caps_lock' \in BOOLEAN /\ g_shift_pressed' \in BOOLEAN
      /\ g_input_buffer' \in [0..INPUT_BUFFER_SIZE - 1 -> 0..127]
      /\ g_input_pos' \in 0..INPUT_BUFFER_SIZE - 1
  <2> USE <1>1, KeyboardAssumption
  <2>1. CASE KeyRelease(sc)
    BY <2>1 DEF TypeOK, KeyRelease
  <2>2. CASE CapsLockDown(sc)
    BY <2>2 DEF TypeOK, CapsLockDown
  <2>3. CASE EnterDown(sc)
    BY <2>3 DEF TypeOK, EnterDown
  <2>4. CASE TabDown(sc)
    BY <2>4 DEF TypeOK, TabDown
  <2>5. CASE ShiftDown(sc)
    BY <2>5 DEF TypeOK, ShiftDown
  <2>6. CASE BackspaceDown(sc)
    <3>1. /\ g_ch' = 0
          /\ UNCHANGED <<g_caps_lock, g_shift_pressed>>
          /\ \/ UNCHANGED <<g_input_buffer, g_input_pos>>
             \/ /\ g_input_pos > 0
                /\ g_input_pos' = g_input_pos - 1
                /\ g_input_buffer' = [g_input_buffer EXCEPT ![g_input_pos - 1] = 0]
      BY <2>6 DEF BackspaceDown
    <3>2. CASE UNCHANGED <<g_input_buffer, g_input_pos>>
      BY <3>1, <3>2 DEF TypeOK
    <3>3. CASE g_input_pos > 0
      <4>1. /\ g_input_pos \in 0..INPUT_BUFFER_SIZE - 1
            /\ g_input_buffer \in [0..INPUT_BUFFER_SIZE - 1 -> 0..127]
            /\ g_caps_lock \in BOOLEAN /\ g_shift_pressed \in BOOLEAN
        BY DEF TypeOK
      <4> HIDE DEF sc
      <4>2. g_input_pos - 1 \in 0..INPUT_BUFFER_SIZE - 1
        BY <4>1, <3>3
      <4>3. [g_input_buffer EXCEPT ![g_input_pos - 1] = 0]
              \in [0..INPUT_BUFFER_SIZE - 1 -> 0..127]
        <5>1. 0 \in 0..127
          OBVIOUS
        <5>2. QED
          BY <4>1, <5>1, ExceptType
      <4>4. g_ch' \in 0..127
        BY <3>1
      <4>5. QED
        BY <3>1, <4>1, <4>2, <4>3, <4>4, ZenonT(60)
    <3>4. QED
      BY <3>1, <3>2, <3>3
  <2>7. CASE CharDown(sc)
    <3>0. sc \in 0..127
      <4>1. sc < 128
        BY <2>7, Zenon DEF CharDown
      <4> HIDE DEF sc
      <4>2. QED
        BY <1>1, <4>1, SMT DEF ScanCodes
    <3>1. Typed(sc) \in 0..127
      BY <3>0, TypedRange
    <3> DEFINE ch == Typed(sc)
    <3>2. ch \in 0..127 /\ g_ch' = ch
      BY <3>1, <2>7 DEF CharDown
    <3>3. CASE Fits(ch)
      <4>1. /\ g_input_buffer' = [g_input_buffer EXCEPT ![g_input_pos] = ch]
            /\ g_input_pos' = g_input_pos + 1
            /\ UNCHANGED <<g_caps_lock, g_shift_pressed>>
        BY <2>7, <3>3 DEF CharDown
      <4> HIDE DEF ch, sc
      <4>2. QED
        BY <3>2, <3>3, <4>1 DEF TypeOK, Fits
    <3>4. CASE ~Fits(ch)
      BY <2>7, <3>2, <3>4 DEF TypeOK, CharDown
    <3>5. QED
      BY <3>3, <3>4
  <2>8. QED
    BY <2>1, <2>2, <2>3, <2>4, <2>5, <2>6, <2>7 DEF KeyboardHandler
<1>4. QED
  BY <1>1, <1>2, <1>3 DEF TypeOK, KeyboardHandler, readerVars

LEMMA ReaderType ==
  ASSUME TypeOK, \/ Poll \/ Load \/ ClearCh \/ ClearScanCode \/ Return
                 \/ \E f \in Apis : Call(f)
  PROVE  TypeOK'
<1>1. CASE Poll
  BY <1>1 DEF TypeOK, Poll, kbdVars, userVars
<1>2. CASE Load
  BY <1>2 DEF TypeOK, Load, kbdVars, userVars
<1>3. CASE ClearCh
  <2>1. /\ g_ch' \in 0..127 /\ fresh' = FALSE
        /\ pc' \in {"done", "clear_scan"}
        /\ UNCHANGED <<g_caps_lock, g_shift_pressed, g_scan_code, g_input_buffer,
                       g_input_pos, kbc, held, capsOn, api, c>>
    BY <1>3 DEF ClearCh, userVars
  <2>2. QED
    BY <2>1 DEF TypeOK
<1>4. CASE ClearScanCode
  <2>1. /\ g_scan_code' \in -128..127 /\ pc' = "done"
        /\ UNCHANGED <<g_caps_lock, g_shift_pressed, g_ch, g_input_buffer,
                       g_input_pos, kbc, held, capsOn, api, c, fresh>>
    BY <1>4 DEF ClearScanCode, userVars
  <2>2. QED
    BY <2>1 DEF TypeOK
<1>5. CASE Return
  <2>1. /\ c' \in -128..127 /\ pc' = "idle"
        /\ UNCHANGED <<g_caps_lock, g_shift_pressed, g_ch, g_scan_code,
                       g_input_buffer, g_input_pos, kbc, held, capsOn, api, fresh>>
    BY <1>5 DEF Return, kbdVars, userVars
  <2>2. QED
    BY <2>1 DEF TypeOK
<1>6. CASE \E f \in Apis : Call(f)
  BY <1>6, KeyboardAssumption DEF TypeOK, Call, kbdVars, userVars
<1>7. QED
  BY <1>1, <1>2, <1>3, <1>4, <1>5, <1>6

LEMMA UserType ==
  ASSUME TypeOK, NEW k \in 1..127, KeyDown(k) \/ KeyUp(k)
  PROVE  TypeOK'
<1>1. k \in ScanCodes /\ k + 128 \in ScanCodes
  BY DEF ScanCodes
<1>2. kbc' \in Seq(ScanCodes)
  <2>1. CASE KeyDown(k)
    BY <2>1, <1>1 DEF TypeOK, KeyDown
  <2>2. CASE KeyUp(k)
    BY <2>2, <1>1 DEF TypeOK, KeyUp
  <2>3. QED
    BY <2>1, <2>2
<1>3. held' \subseteq 1..127 /\ capsOn' \in BOOLEAN
  BY DEF TypeOK, KeyDown, KeyUp
<1>4. UNCHANGED <<g_caps_lock, g_shift_pressed, g_ch, g_scan_code,
                  g_input_buffer, g_input_pos, pc, api, c, fresh>>
  BY DEF KeyDown, KeyUp, kbdVars, readerVars
<1>5. QED
  BY <1>2, <1>3, <1>4 DEF TypeOK

(* What the user does with one of the keys of the specification.           *)
LEMMA UserKeys ==
  ASSUME NEW k \in Keys, Press(k) \/ Release(k)
  PROVE  MayTouch /\ k \in 1..127 /\ (KeyDown(k) \/ KeyUp(k))
BY KeyboardAssumption DEF Press, Release

LEMMA InitType == Init => TypeOK
<1> SUFFICES ASSUME Init PROVE TypeOK
  OBVIOUS
<1>1. /\ g_input_buffer \in [0..INPUT_BUFFER_SIZE - 1 -> 0..127]
      /\ g_input_pos \in 0..INPUT_BUFFER_SIZE - 1
  BY KeyboardAssumption DEF Init
<1>2. kbc \in Seq(ScanCodes)
  BY EmptySeq DEF Init
<1>3. g_scan_code \in -128..127 /\ c \in -128..127 /\ g_ch \in 0..127
  BY DEF Init
<1>4. QED
  BY <1>1, <1>2, <1>3 DEF Init, TypeOK

(* Every global stays in its range; the handler indexes g_input_buffer     *)
(* only within its bounds, whatever the size of the buffer.                *)
THEOREM TypeCorrect == Spec => []TypeOK
<1>2. TypeOK /\ [Next]_vars => TypeOK'
  <2> SUFFICES ASSUME TypeOK, [Next]_vars PROVE TypeOK'
    OBVIOUS
  <2>1. CASE KeyboardHandler
    BY <2>1, HandlerType
  <2>2. CASE \E f \in Apis : Call(f)
    BY <2>2, ReaderType
  <2>3. CASE Reader
    BY <2>3, ReaderType DEF Reader
  <2>4. CASE \E k \in Keys : Press(k) \/ Release(k)
    BY <2>4, UserType, UserKeys
  <2>5. CASE UNCHANGED vars
    BY <2>5 DEF TypeOK, vars, kbdVars, userVars, readerVars
  <2>6. QED
    BY <2>1, <2>2, <2>3, <2>4, <2>5 DEF Next
<1>3. QED
  BY <1>2, InitType, PTL DEF Spec

-----------------------------------------------------------------------------
(* Outside the clearing step an unread character is what g_ch holds.       *)
FreshInv == pc # "clear_ch" => (g_ch # 0 => fresh)

(* A key press is read at most once, whatever keys there are and however   *)
(* handler runs fall between the accesses of the readers.                  *)
THEOREM ReadAtMostOnce == Spec => []NoDuplicate
<1>1. Init => FreshInv
  BY DEF Init, FreshInv
<1>2. FreshInv /\ [Next]_vars => FreshInv'
  <2> SUFFICES ASSUME FreshInv, [Next]_vars PROVE FreshInv'
    OBVIOUS
  <2>1. CASE KeyboardHandler
    BY <2>1 DEF KeyboardHandler, FreshInv
  <2>2. CASE \E f \in Apis : Call(f)
    BY <2>2 DEF Call, FreshInv, kbdVars
  <2>3. CASE Poll
    BY <2>3 DEF Poll, FreshInv, kbdVars
  <2>4. CASE Load
    BY <2>4 DEF Load, FreshInv
  <2>5. CASE ClearCh
    BY <2>5 DEF ClearCh, FreshInv
  <2>6. CASE ClearScanCode
    BY <2>6 DEF ClearScanCode, FreshInv
  <2>7. CASE Return
    BY <2>7 DEF Return, FreshInv, kbdVars
  <2>8. CASE \E k \in Keys : Press(k) \/ Release(k)
    BY <2>8 DEF Press, Release, KeyDown, KeyUp, FreshInv, kbdVars, readerVars
  <2>9. CASE UNCHANGED vars
    BY <2>9 DEF FreshInv, vars, kbdVars, readerVars
  <2>10. QED
    BY <2>1, <2>2, <2>3, <2>4, <2>5, <2>6, <2>7, <2>8, <2>9 DEF Next, Reader
<1>3. FreshInv => NoDuplicate
  BY DEF FreshInv, NoDuplicate
<1>4. QED
  BY <1>1, <1>2, <1>3, PTL DEF Spec

-----------------------------------------------------------------------------
LEMMA AloneInController ==
  ASSUME NEW k, kbc = <<>>, KeyDown(k) \/ KeyUp(k)
  PROVE  /\ kbc' # <<>> /\ Tail(kbc') = <<>>
         /\ KeyDown(k) => Head(kbc') = k
         /\ KeyUp(k) => Head(kbc') = k + 128
<1>1. ASSUME NEW sc
      PROVE  /\ Append(<<>>, sc) # <<>> /\ Tail(Append(<<>>, sc)) = <<>>
             /\ Head(Append(<<>>, sc)) = sc
  <2>1. sc \in {sc} /\ <<>> \in Seq({sc})
    BY EmptySeq
  <2>2. QED
    BY <2>1, AppendProperties, HeadTailAppend, Zenon
<1>2. KeyDown(k) => kbc' = Append(<<>>, k)
  BY DEF KeyDown
<1>3. KeyUp(k) => kbc' = Append(<<>>, k + 128)
  BY DEF KeyUp
<1>4. QED
  BY <1>1, <1>2, <1>3, Zenon

(* A patient user's scan code is alone in the controller while kb_getchar  *)
(* spins, so no handler runs between the end of its loop and its load.     *)
PatientInv ==
  /\ kbc # <<>> => pc = "poll" /\ Tail(kbc) = <<>> /\ ~Ready
  /\ api = "kb_getchar" =>
       /\ pc = "load" => g_ch > 0
       /\ pc \in {"clear_ch", "clear_scan", "done"} => c > 0

(* What kb_getchar promises holds for a patient user, of any keys.         *)
THEOREM PatientGetchar ==
  ASSUME Patient
  PROVE  Spec => []GetcharReturnsChar
<1>1. Init => PatientInv
  BY DEF Init, PatientInv
<1>2. TypeOK /\ PatientInv /\ [Next]_vars => PatientInv'
  <2> SUFFICES ASSUME TypeOK, PatientInv, [Next]_vars PROVE PatientInv'
    OBVIOUS
  <2>1. CASE KeyboardHandler
    BY <2>1 DEF KeyboardHandler, PatientInv, readerVars
  <2>2. CASE \E f \in Apis : Call(f)
    BY <2>2 DEF Call, PatientInv, userVars
  <2>3. CASE Poll
    BY <2>3 DEF Poll, PatientInv, Ready, kbdVars, userVars
  <2>4. CASE Load
    BY <2>4 DEF Load, PatientInv, kbdVars, userVars
  <2>5. CASE ClearCh
    BY <2>5 DEF ClearCh, PatientInv, userVars
  <2>6. CASE ClearScanCode
    BY <2>6 DEF ClearScanCode, PatientInv, userVars
  <2>7. CASE Return
    BY <2>7 DEF Return, PatientInv, userVars
  <2>8. ASSUME NEW k \in Keys, Press(k) \/ Release(k) PROVE PatientInv'
    <3>1. kbc = <<>> /\ pc = "poll" /\ ~Ready
      BY <2>8, UserKeys DEF MayTouch
    <3>2. Tail(kbc') = <<>>
      BY <2>8, <3>1, AloneInController, UserKeys
    <3>3. UNCHANGED <<kbdVars, readerVars>>
      BY <2>8, UserKeys DEF KeyDown, KeyUp
    <3>4. QED
      BY <3>1, <3>2, <3>3 DEF PatientInv, Ready, kbdVars, readerVars
  <2>9. CASE UNCHANGED vars
    BY <2>9 DEF PatientInv, Ready, vars, kbdVars, userVars, readerVars
  <2>10. QED
    BY <2>1, <2>2, <2>3, <2>4, <2>5, <2>6, <2>7, <2>8, <2>9 DEF Next, Reader
<1>3. PatientInv => GetcharReturnsChar
  BY DEF PatientInv, GetcharReturnsChar
<1>4. QED
  BY <1>1, <1>2, <1>3, TypeCorrect, PTL DEF Spec

-----------------------------------------------------------------------------
(* The set of modifiers that are on, after a scan code was handled.        *)
After(m, sc) ==
  IF sc = SCAN_CODE_KEY_LEFT_SHIFT THEN m \union {"shift"}
  ELSE IF sc = SCAN_CODE_KEY_LEFT_SHIFT + 128 THEN m \ {"shift"}
  ELSE IF sc # SCAN_CODE_KEY_CAPS_LOCK THEN m
  ELSE IF "caps" \in m THEN m \ {"caps"} ELSE m \union {"caps"}

Modifiers(shift, caps) ==
  {x \in {"shift", "caps"} : (x = "shift" /\ shift) \/ (x = "caps" /\ caps)}

DriversModifiers == Modifiers(g_shift_pressed, g_caps_lock)
UsersModifiers == Modifiers(SCAN_CODE_KEY_LEFT_SHIFT \in held, capsOn)

(* m is what the modifiers will be while the scan codes q are handled.     *)
Leads(m, q) ==
  /\ m \in [0..Len(q) -> SUBSET {"shift", "caps"}]
  /\ m[0] = DriversModifiers
  /\ m[Len(q)] = UsersModifiers
  /\ \A i \in 1..Len(q) : m[i] = After(m[i - 1], q[i])

(* The scan codes on their way take the driver's modifiers to the user's.  *)
ModifiersInv == \E m : Leads(m, kbc)

LEMMA HandlerModifiers ==
  ASSUME TypeOK, KeyboardHandler
  PROVE  DriversModifiers' = After(DriversModifiers, Head(kbc))
<1> DEFINE sc == Head(kbc)
<1>1. sc \in ScanCodes
  BY HeadTailProperties DEF TypeOK, KeyboardHandler
<1>2. g_shift_pressed \in BOOLEAN /\ g_caps_lock \in BOOLEAN
  BY DEF TypeOK
<1>3. /\ g_shift_pressed' <=> (sc = 42 \/ (g_shift_pressed /\ sc # 170))
      /\ g_caps_lock' <=> (IF sc = 58 THEN ~g_caps_lock ELSE g_caps_lock)
  <2>1. \/ KeyRelease(sc) \/ CapsLockDown(sc) \/ EnterDown(sc) \/ TabDown(sc)
        \/ ShiftDown(sc) \/ BackspaceDown(sc) \/ CharDown(sc)
    BY DEF KeyboardHandler
  <2> HIDE DEF sc
  <2>2. /\ sc > 127 => sc # 42 /\ sc # 58 /\ (sc - 128 # 42 <=> sc # 170)
        /\ sc \in {14, 15, 28, 42, 58} => sc # 170 /\ ~(sc > 127)
        /\ sc \in {14, 15, 28} => sc # 42 /\ sc # 58
        /\ sc = 58 => sc # 42
        /\ sc = 42 => sc # 58
        /\ sc < 128 => sc # 170
    BY <1>1 DEF ScanCodes
  <2> USE <1>2 DEF SCAN_CODE_KEY_BACKSPACE, SCAN_CODE_KEY_TAB,
        SCAN_CODE_KEY_ENTER, SCAN_CODE_KEY_LEFT_SHIFT, SCAN_CODE_KEY_CAPS_LOCK
  <2>3. CASE KeyRelease(sc)
    BY <2>2, <2>3, Zenon DEF KeyRelease
  <2>4. CASE CapsLockDown(sc)
    <3>1. sc = 58 /\ g_caps_lock' = ~g_caps_lock /\ g_shift_pressed' = g_shift_pressed
      BY <2>4 DEF CapsLockDown
    <3>2. QED
      BY <2>2, <3>1, Zenon
  <2>5. CASE EnterDown(sc) \/ TabDown(sc) \/ BackspaceDown(sc)
    <3>1. /\ sc \in {14, 15, 28}
          /\ g_caps_lock' = g_caps_lock /\ g_shift_pressed' = g_shift_pressed
      BY <2>5 DEF EnterDown, TabDown, BackspaceDown
    <3>2. QED
      BY <2>2, <3>1, Zenon
  <2>6. CASE ShiftDown(sc)
    <3>1. sc = 42 /\ g_caps_lock' = g_caps_lock /\ g_shift_pressed' = TRUE
      BY <2>6 DEF ShiftDown
    <3>2. QED
      BY <2>2, <3>1, Zenon
  <2>7. CASE CharDown(sc)
    <3>1. /\ sc < 128 /\ sc # 42 /\ sc # 58
          /\ g_caps_lock' = g_caps_lock /\ g_shift_pressed' = g_shift_pressed
      BY <2>7 DEF CharDown
    <3>2. QED
      BY <2>2, <3>1, Zenon
  <2>8. QED
    BY <2>1, <2>3, <2>4, <2>5, <2>6, <2>7
<1>4. QED
  BY <1>2, <1>3 DEF DriversModifiers, Modifiers, After, SCAN_CODE_KEY_LEFT_SHIFT,
                    SCAN_CODE_KEY_CAPS_LOCK

(* A key that goes down or up, and its scan code, tell the same.           *)
LEMMA UserModifiers ==
  ASSUME TypeOK, NEW k \in 1..127, KeyDown(k) \/ KeyUp(k)
  PROVE  /\ UNCHANGED DriversModifiers
         /\ \E sc \in ScanCodes : /\ kbc' = Append(kbc, sc)
                                  /\ UsersModifiers' = After(UsersModifiers, sc)
<1> USE DEF SCAN_CODE_KEY_LEFT_SHIFT, SCAN_CODE_KEY_CAPS_LOCK
<1>1. k \in 1..127 /\ capsOn \in BOOLEAN
  BY DEF TypeOK
<1>2. UNCHANGED DriversModifiers
  BY DEF KeyDown, KeyUp, DriversModifiers, kbdVars
<1>3. CASE KeyDown(k)
  <2>1. /\ kbc' = Append(kbc, k) /\ held' = held \union {k}
        /\ capsOn' = IF k = 58 THEN ~capsOn ELSE capsOn
    BY <1>3 DEF KeyDown
  <2>2. k # 170 /\ k \in ScanCodes
    BY <1>1 DEF ScanCodes
  <2>3. UsersModifiers' = After(UsersModifiers, k)
    <3>1. CASE k = 58
      <4>1. (42 \in held') <=> (42 \in held)
        BY <2>1, <3>1
      <4>2. capsOn' <=> ~capsOn
        BY <2>1, <3>1
      <4>3. After(UsersModifiers, k) = IF "caps" \in UsersModifiers
                                       THEN UsersModifiers \ {"caps"}
                                       ELSE UsersModifiers \union {"caps"}
        BY <3>1 DEF After
      <4>4. QED
        BY <4>1, <4>2, <4>3, Zenon DEF UsersModifiers, Modifiers
    <3>2. CASE k # 58
      BY <1>1, <2>1, <2>2, <3>2 DEF UsersModifiers, Modifiers, After
    <3>3. QED
      BY <3>1, <3>2
  <2>4. QED
    BY <1>2, <2>1, <2>2, <2>3
<1>4. CASE KeyUp(k)
  <2>1. kbc' = Append(kbc, k + 128) /\ held' = held \ {k} /\ capsOn' = capsOn
    BY <1>4 DEF KeyUp
  <2>2. /\ k + 128 # 42 /\ k + 128 # 58 /\ k + 128 \in ScanCodes
        /\ k + 128 = 170 <=> k = 42
    BY <1>1 DEF ScanCodes
  <2>3. UsersModifiers' = After(UsersModifiers, k + 128)
    BY <1>1, <2>1, <2>2 DEF UsersModifiers, Modifiers, After
  <2>4. QED
    BY <1>2, <2>1, <2>2, <2>3
<1>5. QED
  BY <1>3, <1>4

LEMMA InitModifiers == Init => ModifiersInv
<1> SUFFICES ASSUME Init PROVE ModifiersInv
  OBVIOUS
<1> DEFINE m == [i \in 0..0 |-> DriversModifiers]
<1>1. kbc = <<>> /\ Len(kbc) = 0
  BY EmptySeq DEF Init
<1>2. UsersModifiers = DriversModifiers /\ DriversModifiers \in SUBSET {"shift", "caps"}
  BY DEF Init, DriversModifiers, UsersModifiers, Modifiers
<1>3. Leads(m, kbc)
  BY <1>1, <1>2 DEF Leads
<1>4. QED
  BY <1>3 DEF ModifiersInv

LEMMA HandlerLeads ==
  ASSUME TypeOK, ModifiersInv, KeyboardHandler
  PROVE  ModifiersInv'
<1>m. PICK m : Leads(m, kbc)
  BY DEF ModifiersInv
<1>t. kbc \in Seq(ScanCodes) /\ Len(kbc) \in Nat
  BY LenProperties DEF TypeOK
<1> DEFINE n == [i \in 0..Len(kbc) - 1 |-> m[i + 1]]
<1>1. kbc # <<>> /\ kbc' = Tail(kbc) /\ UNCHANGED <<held, capsOn>>
  BY DEF KeyboardHandler
<1>2. /\ Len(kbc') = Len(kbc) - 1 /\ Len(kbc) > 0
      /\ Head(kbc) = kbc[1]
      /\ \A i \in 1..Len(kbc) - 1 : kbc'[i] = kbc[i + 1]
  BY <1>t, <1>1, HeadTailProperties
<1>3. n[0] = DriversModifiers'
  BY <1>m, <1>t, <1>2, HandlerModifiers DEF Leads
<1>4. n[Len(kbc')] = UsersModifiers'
  BY <1>m, <1>t, <1>1, <1>2 DEF Leads, UsersModifiers
<1>5. n \in [0..Len(kbc') -> SUBSET {"shift", "caps"}]
  BY <1>m, <1>t, <1>2 DEF Leads
<1>6. \A i \in 1..Len(kbc') : n[i] = After(n[i - 1], kbc'[i])
  <2> SUFFICES ASSUME NEW i \in 1..Len(kbc')
               PROVE  n[i] = After(n[i - 1], kbc'[i])
    OBVIOUS
  <2>1. n[i] = m[i + 1] /\ n[i - 1] = m[i] /\ kbc'[i] = kbc[i + 1]
    BY <1>t, <1>2
  <2>2. m[i + 1] = After(m[(i + 1) - 1], kbc[i + 1]) /\ (i + 1) - 1 = i
    BY <1>m, <1>t, <1>2 DEF Leads
  <2> HIDE DEF n
  <2>3. QED
    BY <2>1, <2>2
<1>7. QED
  BY <1>3, <1>4, <1>5, <1>6 DEF ModifiersInv, Leads

LEMMA UserLeads ==
  ASSUME TypeOK, ModifiersInv, NEW k \in 1..127, KeyDown(k) \/ KeyUp(k)
  PROVE  ModifiersInv'
<1>m. PICK m : Leads(m, kbc)
  BY DEF ModifiersInv
<1>t. kbc \in Seq(ScanCodes) /\ Len(kbc) \in Nat
  BY LenProperties DEF TypeOK
<1>1. UNCHANGED DriversModifiers
  BY UserModifiers
<1>2. PICK sc \in ScanCodes : /\ kbc' = Append(kbc, sc)
                              /\ UsersModifiers' = After(UsersModifiers, sc)
  BY UserModifiers
<1> DEFINE l == Len(kbc)
           n == [i \in 0..l + 1 |-> IF i = l + 1 THEN UsersModifiers' ELSE m[i]]
<1>3. /\ Len(kbc') = l + 1 /\ kbc'[l + 1] = sc
      /\ \A i \in 1..l : kbc'[i] = kbc[i]
  BY <1>t, <1>2, AppendProperties
<1>4. n[0] = DriversModifiers' /\ n[l + 1] = UsersModifiers'
  BY <1>m, <1>t, <1>1 DEF Leads
<1>5. UsersModifiers' \in SUBSET {"shift", "caps"}
  BY DEF UsersModifiers, Modifiers
<1>6. n \in [0..l + 1 -> SUBSET {"shift", "caps"}]
  BY <1>m, <1>t, <1>5 DEF Leads
<1>7. \A i \in 1..l + 1 : n[i] = After(n[i - 1], kbc'[i])
  <2>1. m[l] = UsersModifiers /\ \A i \in 1..l : m[i] = After(m[i - 1], kbc[i])
    BY <1>m DEF Leads
  <2> HIDE DEF l
  <2>2. l \in Nat
    BY <1>t DEF l
  <2>3. \A i \in 1..l : n[i] = m[i] /\ n[i - 1] = m[i - 1]
    BY <2>2
  <2>4. n[l + 1] = UsersModifiers' /\ n[(l + 1) - 1] = m[l]
    BY <2>2
  <2> HIDE DEF n
  <2>5. \A i \in 1..l + 1 : i \in 1..l \/ i = l + 1
    BY <2>2
  <2>6. QED
    BY <1>2, <1>3, <2>1, <2>3, <2>4, <2>5
<1>8. QED
  BY <1>3, <1>4, <1>6, <1>7 DEF ModifiersInv, Leads

LEMMA OthersLead ==
  ASSUME ModifiersInv,
         UNCHANGED <<kbc, held, capsOn, g_shift_pressed, g_caps_lock>>
  PROVE  ModifiersInv'
<1>m. PICK m : Leads(m, kbc)
  BY DEF ModifiersInv
<1>1. DriversModifiers' = DriversModifiers /\ UsersModifiers' = UsersModifiers
  BY DEF DriversModifiers, UsersModifiers
<1>2. Leads(m, kbc)'
  BY <1>m, <1>1 DEF Leads
<1>3. QED
  BY <1>2 DEF ModifiersInv

LEMMA DrainedModifiers ==
  ASSUME TypeOK, ModifiersInv, kbc = <<>>
  PROVE  /\ g_shift_pressed <=> SCAN_CODE_KEY_LEFT_SHIFT \in held
         /\ g_caps_lock <=> capsOn
<1>1. Len(kbc) = 0
  BY EmptySeq
<1>2. DriversModifiers = UsersModifiers
  BY <1>1 DEF ModifiersInv, Leads
<1>3. /\ "shift" \in DriversModifiers <=> g_shift_pressed
      /\ "caps" \in DriversModifiers <=> g_caps_lock
      /\ "shift" \in UsersModifiers <=> SCAN_CODE_KEY_LEFT_SHIFT \in held
      /\ "caps" \in UsersModifiers <=> capsOn
  BY Zenon DEF DriversModifiers, UsersModifiers, Modifiers
<1>4. QED
  BY <1>2, <1>3, Zenon

(* When the controller is drained the driver's modifiers are the user's,   *)
(* for any keys, any number of scan codes on their way, and any readers.   *)
THEOREM ModifiersFollowUser == Spec => []ModifiersTrack
<1>1. TypeOK /\ ModifiersInv /\ [Next]_vars => ModifiersInv'
  <2> SUFFICES ASSUME TypeOK, ModifiersInv, [Next]_vars PROVE ModifiersInv'
    OBVIOUS
  <2>1. CASE KeyboardHandler
    BY <2>1, HandlerLeads
  <2>2. CASE \E k \in Keys : Press(k) \/ Release(k)
    BY <2>2, UserLeads, UserKeys
  <2>3. CASE Reader \/ (\E f \in Apis : Call(f)) \/ UNCHANGED vars
    BY <2>3, OthersLead DEF Reader, Call, Poll, Load, ClearCh, ClearScanCode, Return,
                            vars, kbdVars, userVars
  <2>4. QED
    BY <2>1, <2>2, <2>3 DEF Next
<1>2. TypeOK /\ ModifiersInv => ModifiersTrack
  BY DrainedModifiers DEF ModifiersTrack
<1>3. QED
  BY <1>1, <1>2, InitModifiers, TypeCorrect, PTL DEF Spec

-----------------------------------------------------------------------------
(* The edited line holds printable characters only, no terminator.         *)
NoNulInLine == \A i \in 0..g_input_pos - 1 : g_input_buffer[i] # 0

LEMMA HandlerNoNul ==
  ASSUME TypeOK, NoNulInLine, KeyboardHandler
  PROVE  NoNulInLine'
<1> DEFINE sc == Head(kbc)
<1>1. sc \in ScanCodes
  BY HeadTailProperties DEF TypeOK, KeyboardHandler
<1>2. /\ g_input_pos \in Nat /\ g_input_pos \in DOMAIN g_input_buffer
      /\ g_input_buffer \in [0..INPUT_BUFFER_SIZE - 1 -> 0..127]
  BY KeyboardAssumption DEF TypeOK
<1>3. CASE CharDown(sc)
  <2>1. Typed(sc) \in 0..127
    <3>1. sc \in 0..127
      <4> HIDE DEF sc
      <4>1. QED
        BY <1>1, <1>3 DEF CharDown, ScanCodes
    <3>2. QED
      BY <3>1, TypedRange
  <2> DEFINE ch == Typed(sc)
  <2>2. CASE Fits(ch)
    <3>1. /\ g_input_buffer' = [g_input_buffer EXCEPT ![g_input_pos] = ch]
          /\ g_input_pos' = g_input_pos + 1
      BY <1>3, <2>2 DEF CharDown
    <3> HIDE DEF ch, sc
    <3>2. QED
      BY <1>2, <2>2, <3>1 DEF NoNulInLine, Fits
  <2>3. CASE ~Fits(ch)
    BY <1>3, <2>3 DEF CharDown, NoNulInLine
  <2>4. QED
    BY <2>2, <2>3
<1>4. CASE EnterDown(sc)
  BY <1>4 DEF EnterDown, NoNulInLine
<1>5. CASE BackspaceDown(sc)
  <2>1. \/ UNCHANGED <<g_input_buffer, g_input_pos>>
        \/ /\ g_input_pos' = g_input_pos - 1
           /\ g_input_buffer' = [g_input_buffer EXCEPT ![g_input_pos - 1] = 0]
    BY <1>5 DEF BackspaceDown
  <2>2. CASE /\ g_input_pos' = g_input_pos - 1
             /\ g_input_buffer' = [g_input_buffer EXCEPT ![g_input_pos - 1] = 0]
    <3> DEFINE pos == g_input_pos
    <3>0. pos \in 0..INPUT_BUFFER_SIZE - 1 /\ g_input_pos' = pos - 1
      BY <2>2 DEF TypeOK
    <3>1. \A i \in 0..g_input_pos' - 1 :
            /\ i \in 0..g_input_pos - 1 /\ i # g_input_pos - 1
            /\ i \in DOMAIN g_input_buffer
      <4>1. INPUT_BUFFER_SIZE \in Nat /\ DOMAIN g_input_buffer = 0..INPUT_BUFFER_SIZE - 1
        BY <1>2, KeyboardAssumption
      <4> HIDE DEF pos
      <4>2. \A i \in 0..pos - 1 - 1 : i \in 0..pos - 1 /\ i # pos - 1
                                       /\ i \in 0..INPUT_BUFFER_SIZE - 1
        BY <3>0, <4>1
      <4>3. QED
        BY <3>0, <4>1, <4>2 DEF pos
    <3>2. \A i \in 0..g_input_pos' - 1 : g_input_buffer'[i] = g_input_buffer[i]
      BY <2>2, <3>1, Zenon
    <3>3. QED
      BY <3>1, <3>2 DEF NoNulInLine
  <2>3. QED
    BY <2>1, <2>2 DEF NoNulInLine
<1>6. CASE UNCHANGED <<g_input_buffer, g_input_pos>>
  BY <1>6 DEF NoNulInLine
<1>7. QED
  BY <1>3, <1>4, <1>5, <1>6 DEF KeyboardHandler, KeyRelease, CapsLockDown, TabDown,
                                ShiftDown

(* The terminator that Enter stores is the first of the buffer.            *)
LEMMA EnterCommits ==
  ASSUME TypeOK, NoNulInLine, KeyboardHandler, Head(kbc) = SCAN_CODE_KEY_ENTER
  PROVE  CString' = Line /\ Line' = <<>>
<1> DEFINE sc == Head(kbc)
           pos == g_input_pos
<1>1. /\ g_input_buffer' = [g_input_buffer EXCEPT ![pos] = 0]
      /\ g_input_pos' = 0
  BY DEF KeyboardHandler, KeyRelease, CapsLockDown, EnterDown, TabDown, ShiftDown,
         BackspaceDown, CharDown, SCAN_CODE_KEY_BACKSPACE, SCAN_CODE_KEY_TAB,
         SCAN_CODE_KEY_ENTER, SCAN_CODE_KEY_LEFT_SHIFT, SCAN_CODE_KEY_CAPS_LOCK
<1>2. /\ pos \in 0..INPUT_BUFFER_SIZE - 1 /\ INPUT_BUFFER_SIZE \in Nat
      /\ g_input_buffer \in [0..INPUT_BUFFER_SIZE - 1 -> 0..127]
  BY KeyboardAssumption DEF TypeOK
<1> DEFINE First(n) == /\ g_input_buffer'[n] = 0
                       /\ \A i \in 0..n - 1 : g_input_buffer'[i] # 0
           len == CHOOSE n \in 0..INPUT_BUFFER_SIZE - 1 : First(n)
<1>3. First(pos)
  BY <1>1, <1>2 DEF NoNulInLine
<1>4. \A n \in 0..INPUT_BUFFER_SIZE - 1 : First(n) => n = pos
  BY <1>2, <1>3
<1>5. len = pos
  <2> HIDE DEF First, pos
  <2>1. QED
    BY <1>2, <1>3, <1>4
<1>6. CString' = [i \in 1..len |-> g_input_buffer'[i - 1]]
  BY DEF CString
<1>7. \A i \in 1..pos : g_input_buffer'[i - 1] = g_input_buffer[i - 1]
  BY <1>1, <1>2
<1>8. CString' = Line
  <2> HIDE DEF len
  <2>1. QED
    BY <1>5, <1>6, <1>7 DEF Line
<1>9. Line' = <<>>
  <2>1. Line' = [i \in 1..0 |-> g_input_buffer'[i - 1]]
    BY <1>1 DEF Line
  <2>2. Line' \in Seq(Int) /\ Len(Line') = 0
    BY <2>1
  <2>3. QED
    BY <2>2, EmptySeq
<1>10. QED
  BY <1>8, <1>9

(* When Enter is handled the string in the buffer is the edited line, for  *)
(* buffers of any size and whatever was typed and erased before it.        *)
THEOREM EnterCommitsTheLine == Spec => EnterCommitsLine
<1>1. Init => NoNulInLine
  BY DEF Init, NoNulInLine
<1>2. TypeOK /\ NoNulInLine /\ [Next]_vars => NoNulInLine'
  <2> SUFFICES ASSUME TypeOK, NoNulInLine, [Next]_vars PROVE NoNulInLine'
    OBVIOUS
  <2>1. CASE KeyboardHandler
    BY <2>1, HandlerNoNul
  <2>2. CASE UNCHANGED <<g_input_buffer, g_input_pos>>
    BY <2>2 DEF NoNulInLine
  <2>3. CASE UNCHANGED vars \/ Reader \/ (\E f \in Apis : Call(f))
             \/ \E k \in Keys : Press(k) \/ Release(k)
    BY <2>2, <2>3 DEF vars, kbdVars, Reader, Call, Poll, Load, ClearCh,
                      ClearScanCode, Return, Press, Release, KeyDown, KeyUp
  <2>4. QED
    BY <2>1, <2>3 DEF Next
<1>3. TypeOK /\ NoNulInLine /\ [Next]_vars
        => [kbc # <<>> /\ kbc' = Tail(kbc) /\ Head(kbc) = SCAN_CODE_KEY_ENTER
              => CString' = Line /\ Line' = <<>>]_vars
  <2> SUFFICES ASSUME TypeOK, NoNulInLine, Next, kbc # <<>>, kbc' = Tail(kbc),
                      Head(kbc) = SCAN_CODE_KEY_ENTER
               PROVE  CString' = Line /\ Line' = <<>>
    OBVIOUS
  <2>1. CASE KeyboardHandler
    BY <2>1, EnterCommits
  <2>2. kbc \in Seq(ScanCodes) /\ Len(kbc') = Len(kbc) - 1 /\ Len(kbc) \in Nat
    BY HeadTailProperties, LenProperties DEF TypeOK
  <2>3. CASE kbc' = kbc
    BY <2>2, <2>3
  <2>4. CASE Reader \/ \E f \in Apis : Call(f)
    BY <2>3, <2>4 DEF userVars, Reader, Call, Poll, Load, ClearCh, ClearScanCode,
                      Return
  <2>5. ASSUME NEW k \in Keys, Press(k) \/ Release(k) PROVE FALSE
    <3>1. PICK sc \in ScanCodes : kbc' = Append(kbc, sc)
      BY <2>5, UserModifiers, UserKeys
    <3>2. QED
      BY <2>2, <3>1, AppendProperties
  <2>6. QED
    BY <2>1, <2>4, <2>5 DEF Next
<1>4. QED
  BY <1>1, <1>2, <1>3, TypeCorrect, PTL DEF Spec, EnterCommitsLine
=============================================================================
