----------------------------- MODULE TtyProofs -----------------------------
(* Proofs about modules TtyInput and Waver, for keys and buffer sizes of   *)
(* any kind: what getstr_bound never does whoever types, what a user who   *)
(* waits for each key gets from the shell, and what one who does not wait  *)
(* may lose in waver.                                                      *)
EXTENDS Waver, KeyboardProofs

(* The character the handler puts into g_ch for a scan code.               *)
Sends(sc) ==
  IF sc = SCAN_CODE_KEY_ENTER THEN 10
  ELSE IF sc = SCAN_CODE_KEY_TAB THEN 9
  ELSE IF sc > 127 \/ sc \in {SCAN_CODE_KEY_CAPS_LOCK, SCAN_CODE_KEY_LEFT_SHIFT,
                              SCAN_CODE_KEY_BACKSPACE} THEN 0
  ELSE Typed(sc)

LEMMA HandlerSends ==
  ASSUME TypeOK, KeyboardHandler
  PROVE  /\ g_ch' = Sends(Head(kbc))
         /\ g_ch' # 8
         /\ g_ch' = 10 => Head(kbc) = SCAN_CODE_KEY_ENTER
<1> DEFINE sc == Head(kbc)
<1> USE DEF SCAN_CODE_KEY_BACKSPACE, SCAN_CODE_KEY_TAB, SCAN_CODE_KEY_ENTER,
            SCAN_CODE_KEY_LEFT_SHIFT, SCAN_CODE_KEY_CAPS_LOCK
<1>1. sc \in ScanCodes
  BY HeadTailProperties DEF TypeOK, KeyboardHandler
<1>2. g_ch' = Sends(sc)
  <2>1. \/ KeyRelease(sc) \/ CapsLockDown(sc) \/ EnterDown(sc) \/ TabDown(sc)
        \/ ShiftDown(sc) \/ BackspaceDown(sc) \/ CharDown(sc)
    BY DEF KeyboardHandler
  <2> HIDE DEF sc
  <2> USE <1>1 DEF Sends, ScanCodes
  <2>2. CASE KeyRelease(sc)
    BY <2>2 DEF KeyRelease
  <2>3. CASE CapsLockDown(sc) \/ EnterDown(sc) \/ TabDown(sc) \/ ShiftDown(sc)
    BY <2>3 DEF CapsLockDown, EnterDown, TabDown, ShiftDown
  <2>4. CASE BackspaceDown(sc)
    <3>1. sc = 14 /\ g_ch' = 0
      BY <2>4, Zenon DEF BackspaceDown
    <3>2. QED
      BY <3>1
  <2>5. CASE CharDown(sc)
    <3>1. sc < 128 /\ sc \notin {14, 15, 28, 42, 58} /\ g_ch' = Typed(sc)
      BY <2>5 DEF CharDown
    <3>2. QED
      BY <3>1
  <2>6. QED
    BY <2>1, <2>2, <2>3, <2>4, <2>5
<1>3. Sends(sc) # 8 /\ (Sends(sc) = 10 => sc = 28)
  <2> HIDE DEF sc
  <2>1. CASE sc \in 0..127
    BY <2>1, TypedRange DEF Sends
  <2>2. CASE sc \notin 0..127
    BY <1>1, <2>2 DEF Sends, ScanCodes
  <2>3. QED
    BY <2>1, <2>2
<1>4. QED
  BY <1>2, <1>3

-----------------------------------------------------------------------------
(* No variable that reaches getstr_bound ever holds a backspace.           *)
NoBackspace == g_ch # 8 /\ c # 8 /\ api # "kb_get_scancode"

TtyInv == TypeOK /\ TtyTypeOK /\ NoBackspace /\ wp = Len(line)

LEMMA HandlerNoBackspace ==
  ASSUME TypeOK, NoBackspace, KeyboardHandler
  PROVE  NoBackspace'
BY HandlerSends DEF NoBackspace, KeyboardHandler, readerVars

LEMMA CallType ==
  ASSUME TypeOK, NEW f \in {"kb_getchar", "kb_get_scancode", "keyboard_read"}, Call(f)
  PROVE  TypeOK'
BY DEF TypeOK, Call, kbdVars, userVars

LEMMA StoreCharInv ==
  ASSUME TtyInv, StoreChar
  PROVE  TtyInv'
<1>1. c \in Chars /\ c # 8 /\ line \in Seq(Chars) /\ wp = Len(line)
  BY DEF TtyInv, NoBackspace, TypeOK, TtyTypeOK, Chars
<1>2. TtyTypeOK' /\ wp' = Len(line')
  <2>1. CASE c = 10
    BY <1>1, <2>1 DEF StoreChar, TtyInv, TtyTypeOK
  <2>2. CASE c # 10
    <3>1. line' = Append(line, c) /\ wp' = wp + 1 /\ mode' = mode
      BY <1>1, <2>2 DEF StoreChar
    <3>2. line' \in Seq(Chars) /\ Len(line') = Len(line) + 1 /\ Len(line) \in Nat
      BY <1>1, <3>1, AppendProperties, LenProperties
    <3>3. QED
      BY <1>1, <3>1, <3>2 DEF TtyInv, TtyTypeOK
  <2>3. QED
    BY <2>1, <2>2
<1>3. NoBackspace'
  BY DEF TtyInv, NoBackspace, StoreChar, kbdVars
<1>4. TypeOK'
  <2>1. c' \in -128..127
    BY DEF StoreChar
  <2>2. QED
    BY <2>1 DEF TtyInv, TypeOK, StoreChar, kbdVars, userVars
<1>5. QED
  BY <1>2, <1>3, <1>4 DEF TtyInv

LEMMA TtyInitInv == TtyInit => TtyInv
<1> SUFFICES ASSUME TtyInit PROVE TtyInv
  OBVIOUS
<1>1. TypeOK
  BY InitType DEF TtyInit
<1>2. line \in Seq(Chars) /\ wp = Len(line) /\ wp \in Int
  BY EmptySeq DEF TtyInit
<1>3. QED
  BY <1>1, <1>2 DEF TtyInit, Init, TtyInv, TtyTypeOK, NoBackspace

LEMMA DriverInv ==
  ASSUME TtyInv, KeyboardHandler \/ Poll \/ Load \/ ClearCh \/ ClearScanCode,
         UNCHANGED ttyVars
  PROVE  TtyInv'
<1> USE DEF TtyInv, TtyTypeOK
<1>1. CASE KeyboardHandler
  BY <1>1, HandlerType, HandlerNoBackspace DEF ttyVars
<1>2. CASE Poll \/ Load \/ ClearCh \/ ClearScanCode
  <2>1. TypeOK'
    BY <1>2, ReaderType
  <2>2. NoBackspace'
    BY <1>2 DEF NoBackspace, Poll, Load, ClearCh, ClearScanCode, kbdVars
  <2>3. QED
    BY <2>1, <2>2 DEF ttyVars
<1>3. QED
  BY <1>1, <1>2

LEMMA CallInv ==
  ASSUME TtyInv, NEW f \in {"kb_getchar", "keyboard_read"}, Call(f), UNCHANGED ttyVars
  PROVE  TtyInv'
<1>1. TypeOK'
  BY CallType DEF TtyInv
<1>2. NoBackspace'
  BY DEF TtyInv, NoBackspace, Call, kbdVars
<1>3. QED
  BY <1>1, <1>2 DEF TtyInv, TtyTypeOK, ttyVars

LEMMA RunCommandInv ==
  ASSUME TtyInv, RunCommand
  PROVE  TtyInv'
<1>1. line' \in Seq(Chars) /\ wp' = Len(line') /\ wp' \in Int
  BY EmptySeq DEF RunCommand
<1>2. UNCHANGED vars /\ mode' = "read"
  BY DEF RunCommand
<1>3. TypeOK' /\ NoBackspace'
  BY <1>2 DEF TtyInv, TypeOK, NoBackspace, vars, kbdVars, userVars, readerVars
<1>4. QED
  BY <1>1, <1>2, <1>3 DEF TtyInv, TtyTypeOK

LEMMA UserInv ==
  ASSUME TtyInv, NEW k \in 1..127, KeyDown(k) \/ KeyUp(k), UNCHANGED ttyVars
  PROVE  TtyInv'
<1>1. TypeOK'
  BY UserType DEF TtyInv
<1>2. NoBackspace'
  BY DEF TtyInv, NoBackspace, KeyDown, KeyUp, kbdVars, readerVars
<1>3. QED
  BY <1>1, <1>2 DEF TtyInv, TtyTypeOK, ttyVars

LEMMA StutterInv ==
  ASSUME TtyInv, UNCHANGED allVars
  PROVE  TtyInv'
<1>1. UNCHANGED <<vars, ttyVars>>
  BY DEF allVars
<1>2. TypeOK'
  BY <1>1 DEF TtyInv, TypeOK, vars, kbdVars, userVars, readerVars
<1>3. NoBackspace'
  BY <1>1 DEF TtyInv, NoBackspace, vars, kbdVars, readerVars
<1>4. QED
  BY <1>1, <1>2, <1>3 DEF TtyInv, TtyTypeOK, ttyVars

(* The write position of getstr_bound never goes below the start of        *)
(* kmain's buffer, which no code of its own keeps it from, whatever keys   *)
(* there are and whether or not the user waits.  Nothing is said of the    *)
(* buffer's end, which long lines run past.                                *)
THEOREM BufferSafe == TtySpec => []NeverBelowBuffer
<1>1. TtyInv /\ [TtyNext]_allVars => TtyInv'
  <2> SUFFICES ASSUME TtyInv, [TtyNext]_allVars PROVE TtyInv'
    OBVIOUS
  <2>1. CASE KeyboardHandler /\ UNCHANGED ttyVars
    BY <2>1, DriverInv
  <2>2. CASE (Poll \/ Load \/ ClearCh \/ ClearScanCode) /\ UNCHANGED ttyVars
    BY <2>2, DriverInv
  <2>3. CASE GetChar
    BY <2>3, CallInv DEF GetChar
  <2>4. CASE StoreChar
    BY <2>4, StoreCharInv
  <2>5. CASE RunCommand
    BY <2>5, RunCommandInv
  <2>6. CASE User /\ UNCHANGED ttyVars
    BY <2>6, UserInv, UserKeys DEF User
  <2>7. CASE UNCHANGED allVars
    BY <2>7, StutterInv
  <2>8. QED
    BY <2>1, <2>2, <2>3, <2>4, <2>5, <2>6, <2>7 DEF TtyNext, Shell
<1>2. TtyInv => NeverBelowBuffer
  BY LenProperties DEF TtyInv, TtyTypeOK, NeverBelowBuffer
<1>3. QED
  BY <1>1, <1>2, TtyInitInv, PTL DEF TtySpec

LEMMA UseKeyInv ==
  ASSUME TtyInv, UseKey
  PROVE  TtyInv'
<1>1. TypeOK'
  <2>1. c' \in -128..127 /\ pc' = "idle"
    BY DEF UseKey
  <2>2. QED
    BY <2>1 DEF TtyInv, TypeOK, UseKey, kbdVars, userVars
<1>2. QED
  BY <1>1 DEF TtyInv, TtyTypeOK, NoBackspace, UseKey, kbdVars, ttyVars

(* The same while waver may be started from the line and left again.       *)
THEOREM WaverBufferSafe == WaverSpec => [](TtyInv /\ NeverBelowBuffer)
<1>1. TtyInv /\ [WaverNext]_allWaveVars => TtyInv'
  <2> SUFFICES ASSUME TtyInv, [WaverNext]_allWaveVars PROVE TtyInv'
    OBVIOUS
  <2>1. CASE Interrupt \/ Read
    BY <2>1, DriverInv DEF Interrupt, Read, CountLosses
  <2>2. CASE GetChar
    BY <2>2, CallInv DEF GetChar
  <2>3. CASE StoreChar
    BY <2>3, StoreCharInv
  <2>4. CASE RunCommand
    BY <2>4, RunCommandInv
  <2>5. CASE StartWaver \/ UNCHANGED allWaveVars
    BY <2>5, StutterInv DEF StartWaver, allWaveVars
  <2>6. CASE DrawFrame
    BY <2>6, CallInv DEF DrawFrame
  <2>7. CASE UseKey
    BY <2>7, UseKeyInv
  <2>8. CASE User /\ UNCHANGED ttyVars
    BY <2>8, UserInv, UserKeys DEF User
  <2>9. CASE WaveUser
    BY <2>9, UserInv, WaverAssumption DEF WaveUser
  <2>10. QED
    BY <2>1, <2>2, <2>3, <2>4, <2>5, <2>6, <2>7, <2>8, <2>9 DEF WaverNext, Main
<1>2. TtyInv => NeverBelowBuffer
  BY LenProperties DEF TtyInv, TtyTypeOK, NeverBelowBuffer
<1>3. WaverInit => TtyInv
  BY TtyInitInv DEF WaverInit
<1>4. QED
  BY <1>1, <1>2, <1>3, PTL DEF WaverSpec

-----------------------------------------------------------------------------
(* What a patient user's waiting amounts to in the shell: a scan code is   *)
(* handled before anything else happens, alone, while the reader spins, so *)
(* that no handler runs while a character is unread.  In waver handlers    *)
(* run anywhere, for one scan code at a time.                              *)
Took == pc \in {"clear_ch", "clear_scan", "done"}

UnreadInv ==
  /\ fresh => g_ch # 0
  /\ pc # "clear_ch" => (g_ch # 0 => fresh)
  /\ kbc # <<>> => Tail(kbc) = <<>>
  /\ wave = "off" => /\ Took => ~fresh
                     /\ kbc # <<>> => ~fresh /\ pc = "poll"

WhereInv ==
  /\ wave \in {"off", "on", "left"}
  /\ wave = "off" => /\ api = "kb_getchar"
                     /\ pc = "idle" => ~fresh
                     /\ pc # "idle" => mode = "read"
                     /\ pc = "load" => g_ch > 0
                     /\ Took => c > 0
  /\ wave # "off" => /\ mode = "run" /\ line = WAVER
                     /\ pc # "idle" => api = "keyboard_read"
                     /\ pc \in {"idle", "load", "clear_ch", "done"}

PatientWaverInv == UnreadInv /\ WhereInv

LEMMA PatientHandler ==
  ASSUME TtyInv, PatientWaverInv, Interrupt
  PROVE  PatientWaverInv'
<1>1. kbc # <<>> /\ kbc' = <<>> /\ fresh' = (g_ch' # 0)
  BY DEF Interrupt, KeyboardHandler, PatientWaverInv, UnreadInv
<1>2. wave = "off" => pc = "poll"
  BY <1>1 DEF PatientWaverInv, UnreadInv
<1>3. UNCHANGED <<pc, api, c, mode, line, wave>>
  BY DEF Interrupt, CountLosses, KeyboardHandler, readerVars, ttyVars
<1>4. UnreadInv'
  BY <1>1, <1>2, <1>3 DEF UnreadInv, Took
<1>5. WhereInv'
  BY <1>1, <1>2, <1>3 DEF PatientWaverInv, WhereInv, Took
<1>6. QED
  BY <1>4, <1>5 DEF PatientWaverInv

LEMMA PatientReader ==
  ASSUME TtyInv, PatientWaverInv, Read
  PROVE  PatientWaverInv'
<1> USE DEF PatientWaverInv, UnreadInv, WhereInv, Took
<1>0. UNCHANGED <<mode, line, wave>> /\ g_ch \in 0..127
  BY DEF Read, CountLosses, ttyVars, TtyInv, TypeOK
<1>1. CASE Poll
  <2>1. wave = "off" /\ g_ch > 0 /\ pc = "poll" /\ pc' = "load"
    BY <1>1 DEF Poll, Ready
  <2>2. kbc = <<>>
    BY <1>0, <2>1
  <2>3. UNCHANGED <<g_ch, fresh, kbc, api, c>>
    BY <1>1 DEF Poll, kbdVars, userVars
  <2>4. QED
    BY <1>0, <2>1, <2>2, <2>3
<1>2. CASE Load
  <2>1. /\ pc = "load" /\ pc' = "clear_ch" /\ c' = g_ch /\ fresh' = FALSE
        /\ UNCHANGED <<g_ch, kbc, api>>
    BY <1>2 DEF Load, kbdVars, userVars, TtyInv, NoBackspace
  <2>2. QED
    BY <1>0, <2>1
<1>3. CASE ClearCh
  <2>1. /\ pc = "clear_ch" /\ fresh' = FALSE /\ g_ch' = 0
        /\ pc' = IF api = "keyboard_read" THEN "done" ELSE "clear_scan"
        /\ UNCHANGED <<c, kbc, api>>
    BY <1>3 DEF ClearCh, userVars
  <2>2. QED
    BY <1>0, <2>1
<1>4. CASE ClearScanCode
  <2>1. pc = "clear_scan" /\ pc' = "done" /\ UNCHANGED <<g_ch, c, fresh, kbc, api>>
    BY <1>4 DEF ClearScanCode, userVars
  <2>2. QED
    BY <1>0, <2>1
<1>5. QED
  BY <1>1, <1>2, <1>3, <1>4 DEF Read

LEMMA PatientMain ==
  ASSUME TtyInv, PatientWaverInv, Main
  PROVE  PatientWaverInv'
<1> USE DEF PatientWaverInv, UnreadInv, WhereInv, Took
<1>1. CASE wave = "off" /\ GetChar /\ UNCHANGED waveVars
  <2>1. /\ wave = "off" /\ mode = "read" /\ pc = "idle" /\ pc' = "poll" /\ api' = api
        /\ UNCHANGED <<g_ch, c, fresh, kbc, mode, line, wave>>
    BY <1>1 DEF GetChar, Call, kbdVars, userVars, ttyVars, waveVars
  <2>2. QED
    BY <2>1
<1>2. CASE wave = "off" /\ StoreChar /\ UNCHANGED waveVars
  <2>1. /\ wave = "off" /\ pc = "done" /\ pc' = "idle"
        /\ UNCHANGED <<g_ch, fresh, kbc, api, wave>>
    BY <1>2 DEF StoreChar, kbdVars, userVars, waveVars
  <2>2. QED
    BY <2>1
<1>3. CASE line # WAVER /\ RunCommand /\ UNCHANGED waveVars
  <2>1. /\ wave = "off" /\ mode' = "read"
        /\ UNCHANGED <<g_ch, c, fresh, kbc, api, pc, wave>>
    BY <1>3 DEF RunCommand, vars, kbdVars, userVars, readerVars, waveVars
  <2>2. QED
    BY <2>1
<1>4. CASE StartWaver
  <2>1. /\ wave = "off" /\ mode = "run" /\ line = WAVER /\ wave' = "on"
        /\ UNCHANGED <<g_ch, c, fresh, kbc, api, pc, mode, line>>
    BY <1>4 DEF StartWaver, allVars, vars, kbdVars, userVars, readerVars, ttyVars
  <2>2. QED
    BY <2>1
<1>5. CASE DrawFrame
  <2>1. /\ wave = "on" /\ pc' = "load" /\ api' = "keyboard_read"
        /\ UNCHANGED <<g_ch, c, fresh, kbc, mode, line, wave>> /\ pc = "idle"
    BY <1>5 DEF DrawFrame, Call, kbdVars, userVars, ttyVars, waveVars
  <2>2. QED
    BY <2>1
<1>6. CASE UseKey
  <2>1. /\ wave = "on" /\ pc = "done" /\ pc' = "idle" /\ wave' \in {"on", "left"}
        /\ UNCHANGED <<g_ch, fresh, kbc, api, mode, line>>
    BY <1>6 DEF UseKey, kbdVars, userVars, ttyVars
  <2>2. QED
    BY <2>1
<1>7. QED
  BY <1>1, <1>2, <1>3, <1>4, <1>5, <1>6 DEF Main

LEMMA PatientUser ==
  ASSUME Patient, TtyInv, PatientWaverInv,
         \/ wave = "off" /\ User /\ UNCHANGED <<ttyVars, waveVars>>
         \/ WaveUser
  PROVE  PatientWaverInv'
<1> USE DEF PatientWaverInv, UnreadInv, WhereInv, Took
<1>1. PICK k \in 1..127 : KeyDown(k) \/ KeyUp(k)
  BY UserKeys, WaverAssumption DEF User, WaveUser
<1>2. /\ kbc = <<>>
      /\ wave = "off" => ~fresh /\ pc = "poll"
  <2>1. CASE wave = "off" /\ User
    <3>1. MayTouch
      BY <2>1, UserKeys DEF User
    <3>2. kbc = <<>> /\ pc = "poll" /\ api = "kb_getchar" /\ ~(g_ch > 0)
      BY <2>1, <3>1 DEF MayTouch, Ready
    <3>3. QED
      BY <2>1, <3>2 DEF TtyInv, TypeOK
  <2>2. CASE WaveUser
    BY <2>2 DEF WaveUser
  <2>3. QED
    BY <2>1, <2>2
<1>3. kbc' # <<>> /\ Tail(kbc') = <<>>
  BY <1>1, <1>2, AloneInController
<1>4. UNCHANGED <<g_ch, c, fresh, api, pc, mode, line, wave>>
  BY <1>1 DEF KeyDown, KeyUp, kbdVars, readerVars, ttyVars, waveVars, WaveUser
<1>5. QED
  BY <1>2, <1>3, <1>4

(* While the shell reads for a patient user, each scan code finds the      *)
(* reader waiting and nothing unread.                                      *)
LEMMA PatientWaver ==
  ASSUME Patient
  PROVE  WaverSpec => [](TtyInv /\ PatientWaverInv)
<1>1. WaverInit => PatientWaverInv
  BY DEF WaverInit, TtyInit, Init, PatientWaverInv, UnreadInv, WhereInv, Took
<1>2. TtyInv /\ PatientWaverInv /\ [WaverNext]_allWaveVars => PatientWaverInv'
  <2> SUFFICES ASSUME TtyInv, PatientWaverInv, [WaverNext]_allWaveVars
               PROVE  PatientWaverInv'
    OBVIOUS
  <2>1. CASE Interrupt \/ Read
    BY <2>1, PatientHandler, PatientReader
  <2>2. CASE Main
    BY <2>2, PatientMain
  <2>3. CASE (wave = "off" /\ User /\ UNCHANGED <<ttyVars, waveVars>>) \/ WaveUser
    BY <2>3, PatientUser
  <2>4. CASE UNCHANGED allWaveVars
    BY <2>4 DEF PatientWaverInv, UnreadInv, WhereInv, Took, allWaveVars, waveVars,
                allVars, vars, kbdVars, userVars, readerVars, ttyVars
  <2>5. QED
    BY <2>1, <2>2, <2>3, <2>4 DEF WaverNext
<1>3. QED
  BY <1>1, <1>2, WaverBufferSafe, PTL DEF WaverSpec

(* With a patient user kb_getchar returns characters only, in a program    *)
(* that also polls the driver in another way.                              *)
THEOREM WaverGetchar ==
  ASSUME Patient
  PROVE  WaverSpec => []GetcharReturnsChar
<1>1. PatientWaverInv => GetcharReturnsChar
  BY DEF PatientWaverInv, WhereInv, Took, GetcharReturnsChar
<1>2. QED
  BY <1>1, PatientWaver, PTL

(* The character the shell's reader or waver's holds, or g_ch, or 0.       *)
OnTheWay == IF Took THEN c ELSE g_ch

LEMMA WaverModifiers == WaverSpec => []ModifiersInv
<1>1. WaverInit => ModifiersInv
  BY InitModifiers DEF WaverInit, TtyInit
<1>2. TtyInv /\ ModifiersInv /\ [WaverNext]_allWaveVars => ModifiersInv'
  <2> SUFFICES ASSUME TtyInv, ModifiersInv, [WaverNext]_allWaveVars
               PROVE  ModifiersInv'
    OBVIOUS
  <2>1. CASE KeyboardHandler
    BY <2>1, HandlerLeads DEF TtyInv
  <2>2. CASE User \/ WaveUser
    <3>1. PICK k \in 1..127 : KeyDown(k) \/ KeyUp(k)
      BY <2>2, UserKeys, WaverAssumption DEF User, WaveUser
    <3>2. QED
      BY <3>1, UserLeads DEF TtyInv
  <2>3. CASE UNCHANGED <<kbc, held, capsOn, g_shift_pressed, g_caps_lock>>
    BY <2>3, OthersLead
  <2>4. CASE Read \/ Main \/ UNCHANGED allWaveVars
    BY <2>3, <2>4 DEF Read, Poll, Load, ClearCh, ClearScanCode, Main, GetChar, Call,
        StoreChar, RunCommand, StartWaver, DrawFrame, UseKey, allWaveVars, allVars,
        vars, kbdVars, userVars
  <2>5. QED
    BY <2>1, <2>2, <2>4 DEF WaverNext, Interrupt
<1>3. QED
  BY <1>1, <1>2, WaverBufferSafe, PTL DEF WaverSpec

-----------------------------------------------------------------------------
(* What waver makes of its density, step by step: a character moves it by  *)
(* one inside its range, so that two densities come no further apart.      *)
Densities == 1..MAX_DENSITY

Delta(key) == IF key = Plus THEN 1 ELSE IF key = Minus THEN -1 ELSE 0

Near(x, y, n) == x - y <= n /\ y - x <= n

LEMMA DensityMoves ==
  ASSUME NEW x \in Densities, NEW key
  PROVE  /\ Density(x, key) = InRange(x + Delta(key))
         /\ Density(x, key) \in Densities
         /\ Near(x, Density(x, key), 1)
         /\ key \notin {Plus, Minus} => Density(x, key) = x
<1>1. MAX_DENSITY \in Nat
  BY WaverAssumption
<1>2. QED
  BY <1>1 DEF Densities, Density, InRange, Delta, Near, Plus, Minus

LEMMA RangeNear ==
  ASSUME NEW x \in Densities, NEW y \in Densities, NEW n \in Nat, Near(x, y, n),
         NEW d \in {-1, 0, 1}
  PROVE  /\ Near(InRange(x + d), InRange(y + d), n)
         /\ InRange(x + d) \in Densities /\ InRange(y + d) \in Densities
<1>1. MAX_DENSITY \in Nat
  BY WaverAssumption
<1>2. QED
  BY <1>1 DEF Densities, InRange, Near

(* The density once all that is on its way has been counted: the character *)
(* waver holds, the one in g_ch that no reader has loaded, and the one the *)
(* controller's scan code will become.                                     *)
Held == IF Took THEN Density(wave_density, c) ELSE wave_density
Unread == IF fresh THEN Density(Held, g_ch) ELSE Held
Arriving == IF kbc # <<>> THEN Sends(Head(kbc)) ELSE 0
Coming == Density(Unread, Arriving)

DensityInv ==
  /\ wave_density \in Densities /\ wanted \in Densities
  /\ lost \in Nat
  /\ wave = "off" => wanted = wave_density /\ lost = 0
  /\ wave = "on" => Near(Coming, wanted, lost)

LEMMA DensityTypes ==
  ASSUME DensityInv
  PROVE  Held \in Densities /\ Unread \in Densities /\ Coming \in Densities
BY DensityMoves DEF DensityInv, Held, Unread, Coming

(* The keys that print + and - are those the user takes them for.          *)
LEMMA SendsAsked ==
  ASSUME TypeOK, ModifiersInv, kbc = <<>>, NEW k \in 1..127
  PROVE  Delta(Sends(k)) = Asked(k) /\ Asked(k) \in {-1, 0, 1}
<1> USE DEF SCAN_CODE_KEY_BACKSPACE, SCAN_CODE_KEY_TAB, SCAN_CODE_KEY_ENTER,
            SCAN_CODE_KEY_LEFT_SHIFT, SCAN_CODE_KEY_CAPS_LOCK, SCAN_CODE_KEY_MINUS,
            SCAN_CODE_KEY_EQUAL, SCAN_CODE_KEY_KEYPAD_PLUS,
            SCAN_CODE_KEY_KEYPAD_MINUS, Plus, Minus
<1>1. g_shift_pressed <=> 42 \in held
  BY DrainedModifiers
<1>2. /\ Typed(k) = 43 <=> k = 78 \/ (k = 13 /\ g_shift_pressed)
      /\ Typed(k) = 45 <=> k \in {12, 74} /\ ~g_shift_pressed
  <2>1. k \in 0..127
    OBVIOUS
  <2>2. QED
    BY <2>1, TypedRange
<1>3. QED
  BY <1>1, <1>2 DEF Sends, Asked, Delta

(* A step that drops what is unread counts a loss if it would have moved   *)
(* the density, up to as many losses as there are steps in its range.      *)
LEMMA DropCounted ==
  ASSUME DensityInv, wave = "on",
         lost' = IF fresh /\ g_ch \in {Plus, Minus} /\ lost < MAX_DENSITY - 1
                 THEN lost + 1 ELSE lost
  PROVE  Near(Density(Held, Arriving), wanted, lost') /\ lost' \in Nat
<1> DEFINE x == Density(Held, Arriving)
<1>1. /\ MAX_DENSITY \in Nat /\ lost \in Nat /\ wanted \in Densities
      /\ Near(Coming, wanted, lost)
  BY WaverAssumption DEF DensityInv
<1>2. Held \in Densities /\ Unread \in Densities /\ Coming \in Densities /\ x \in Densities
  BY DensityTypes, DensityMoves
<1>3. CASE fresh /\ g_ch \in {Plus, Minus}
  <2>1. Near(Held, Unread, 1)
    BY <1>2, <1>3, DensityMoves DEF Unread
  <2>2. Near(x, Coming, 1)
    <3>1. /\ x = InRange(Held + Delta(Arriving))
          /\ Coming = InRange(Unread + Delta(Arriving))
      BY <1>2, DensityMoves DEF Coming
    <3> DEFINE d == Delta(Arriving)
    <3>2. d \in {-1, 0, 1}
      BY DEF Delta
    <3> HIDE DEF d
    <3>3. Near(InRange(Held + d), InRange(Unread + d), 1)
      BY <1>2, <2>1, <3>2, RangeNear
    <3>4. QED
      BY <3>1, <3>3 DEF d
  <2>3. lost' = IF lost < MAX_DENSITY - 1 THEN lost + 1 ELSE lost
    BY <1>3
  <2> DEFINE y == Coming
  <2>4. /\ x \in Densities /\ y \in Densities
        /\ Near(x, y, 1) /\ Near(y, wanted, lost)
    BY <1>1, <1>2, <2>2
  <2> HIDE DEF x, y
  <2>5. Near(x, wanted, lost') /\ lost' \in Nat
    BY <1>1, <2>3, <2>4 DEF Densities, Near
  <2>6. QED
    BY <2>5 DEF x
<1>4. CASE ~(fresh /\ g_ch \in {Plus, Minus})
  <2>1. Unread = Held /\ lost' = lost
    BY <1>2, <1>4, DensityMoves DEF Unread
  <2>2. QED
    BY <1>1, <2>1 DEF Coming
<1>5. QED
  BY <1>3, <1>4

LEMMA DensityHandler ==
  ASSUME TtyInv, PatientWaverInv, DensityInv, Interrupt
  PROVE  DensityInv'
<1>1. UNCHANGED <<wave, wave_density, wanted, c, pc>>
  BY DEF Interrupt, KeyboardHandler, readerVars, CountLosses
<1>2. CASE wave = "on"
  <2>1. /\ kbc # <<>> /\ kbc' = <<>> /\ fresh' = (g_ch' # 0)
        /\ g_ch' = Arriving
    BY HandlerSends DEF Interrupt, KeyboardHandler, TtyInv, PatientWaverInv, UnreadInv,
                        Arriving
  <2>2. Held' = Held
    BY <1>1 DEF Held, Took, Density
  <2>3. Coming' = Density(Held, Arriving)
    <3>1. Unread' = IF Arriving # 0 THEN Density(Held, Arriving) ELSE Held
      BY <2>1, <2>2 DEF Unread, Density
    <3>2. Density(Held, 0) = Held
      BY DensityMoves, DensityTypes DEF Plus, Minus
    <3>3. Unread' = Density(Held, Arriving)
      BY <3>1, <3>2
    <3>4. Arriving' = 0
      BY <2>1 DEF Arriving
    <3>5. Coming' = Unread'
      BY <3>4 DEF Coming, Density, Plus, Minus
    <3>6. QED
      BY <3>3, <3>5
  <2>4. lost' = IF fresh /\ g_ch \in {Plus, Minus} /\ lost < MAX_DENSITY - 1
                THEN lost + 1 ELSE lost
    BY <1>2, <2>1 DEF Interrupt, CountLosses, Loses
  <2>5. QED
    BY <1>1, <1>2, <2>3, <2>4, DropCounted DEF DensityInv
<1>3. CASE wave # "on"
  <2>1. lost' = lost
    BY <1>3 DEF Interrupt, CountLosses
  <2>2. QED
    BY <1>1, <1>3, <2>1 DEF DensityInv
<1>4. QED
  BY <1>2, <1>3

(* Nothing on its way is changed when it only moves on.                    *)
LEMMA DensitySame ==
  ASSUME DensityInv, UNCHANGED <<wave, wave_density, wanted, lost, Unread, Arriving>>
  PROVE  DensityInv'
BY DEF DensityInv, Coming, Density

LEMMA DensityReader ==
  ASSUME TtyInv, PatientWaverInv, DensityInv, Read
  PROVE  DensityInv'
<1>1. UNCHANGED <<wave, wave_density, wanted>>
  BY DEF Read, CountLosses
<1>2. UNCHANGED <<kbc, g_caps_lock, g_shift_pressed>>
  BY DEF Read, Poll, Load, ClearCh, ClearScanCode, kbdVars, userVars
<1>3. Arriving' = Arriving
  BY <1>2 DEF Arriving, Sends, Typed
<1>4. CASE wave # "on"
  <2>1. lost' = lost
    BY <1>4 DEF Read, CountLosses
  <2>2. QED
    BY <1>1, <1>4, <2>1 DEF DensityInv
<1>5. CASE wave = "on" /\ pc = "load"
  <2>1. /\ pc' = "clear_ch" /\ c' = g_ch /\ fresh' = FALSE /\ lost' = lost
    BY <1>2, <1>5 DEF Read, Poll, Load, ClearCh, ClearScanCode, CountLosses, Loses, TtyInv,
                NoBackspace
  <2>2. Held' = Density(wave_density, g_ch) /\ Held = wave_density
    BY <1>1, <1>5, <2>1 DEF Held, Took, Density
  <2>3. ~fresh => g_ch = 0
    BY <1>5 DEF PatientWaverInv, UnreadInv
  <2>4. Density(wave_density, 0) = wave_density
    BY DensityMoves DEF DensityInv, Plus, Minus
  <2>5. Unread' = Unread
    BY <2>1, <2>2, <2>3, <2>4 DEF Unread
  <2>6. QED
    BY <1>1, <1>3, <2>1, <2>5, DensitySame
<1>6. CASE wave = "on" /\ pc = "clear_ch"
  <2>1. pc' \in {"clear_scan", "done"} /\ c' = c /\ fresh' = FALSE
    BY <1>6 DEF Read, Poll, Load, ClearCh, ClearScanCode
  <2>2. Unread' = Held
    BY <1>1, <1>6, <2>1 DEF Unread, Held, Took, Density
  <2>3. Coming' = Density(Held, Arriving)
    BY <1>3, <2>2 DEF Coming, Density
  <2>4. lost' = IF fresh /\ g_ch \in {Plus, Minus} /\ lost < MAX_DENSITY - 1
                THEN lost + 1 ELSE lost
    BY <1>6 DEF Read, CountLosses, Loses
  <2>5. QED
    BY <1>1, <1>6, <2>3, <2>4, DropCounted DEF DensityInv
<1>7. wave = "on" => pc \in {"load", "clear_ch"}
  BY DEF PatientWaverInv, WhereInv, Read, Poll, Load, ClearCh, ClearScanCode
<1>8. QED
  BY <1>4, <1>5, <1>6, <1>7

LEMMA DensityMain ==
  ASSUME TtyInv, PatientWaverInv, DensityInv, Main
  PROVE  DensityInv'
<1> USE DEF PatientWaverInv, UnreadInv, WhereInv
<1>1. CASE UNCHANGED waveVars /\ wave = "off"
  BY <1>1 DEF DensityInv, waveVars
<1>2. CASE line # WAVER /\ UNCHANGED waveVars
  BY <1>2, <1>1
<1>3. CASE StartWaver
  <2>1. /\ wave = "off" /\ mode = "run" /\ wave' = "on"
        /\ UNCHANGED <<kbc, pc, c, g_ch, fresh, wave_density, wanted, lost>>
    BY <1>3 DEF StartWaver, allVars, vars, kbdVars, userVars, readerVars
  <2>2. pc = "idle" /\ kbc = <<>> /\ ~fresh
    BY <2>1
  <2>3. Arriving' = 0 /\ Unread' = wave_density
    BY <2>1, <2>2 DEF Arriving, Unread, Held, Took
  <2>4. Coming' = wave_density
    BY <2>3 DEF Coming, Density, Plus, Minus
  <2>5. QED
    BY <2>1, <2>4, WaverAssumption DEF DensityInv, Near, Densities
<1>4. CASE DrawFrame
  <2>1. /\ pc = "idle" /\ pc' = "load"
        /\ UNCHANGED <<kbc, c, g_ch, fresh, g_caps_lock, g_shift_pressed,
                       wave, wave_density, wanted, lost>>
    BY <1>4 DEF DrawFrame, Call, kbdVars, userVars, waveVars
  <2>2. UNCHANGED <<Unread, Arriving>>
    BY <2>1 DEF Unread, Held, Took, Density, Arriving, Sends, Typed
  <2>3. QED
    BY <2>1, <2>2, DensitySame
<1>5. CASE UseKey
  <2>1. /\ wave = "on" /\ pc = "done" /\ pc' = "idle" /\ wave' \in {"on", "left"}
        /\ wave_density' = Density(wave_density, c)
        /\ UNCHANGED <<kbc, g_ch, fresh, g_caps_lock, g_shift_pressed, wanted, lost>>
    BY <1>5 DEF UseKey, kbdVars, userVars
  <2>2. Held' = Held /\ Arriving' = Arriving
    BY <2>1 DEF Held, Took, Arriving, Sends, Typed
  <2>3. Unread' = Unread
    BY <2>1, <2>2 DEF Unread, Density
  <2>4. Coming' = Coming
    BY <2>2, <2>3 DEF Coming, Density
  <2>5. wave_density' \in Densities
    BY <2>1, DensityMoves DEF DensityInv
  <2>6. QED
    BY <2>1, <2>4, <2>5 DEF DensityInv
<1>6. QED
  BY <1>1, <1>2, <1>3, <1>4, <1>5 DEF Main

LEMMA DensityUser ==
  ASSUME TtyInv, ModifiersInv, DensityInv, WaveUser
  PROVE  DensityInv'
<1>1. /\ wave = "on" /\ kbc = <<>>
      /\ UNCHANGED <<wave, wave_density, lost>>
  BY DEF WaveUser
<1>2. Arriving = 0 /\ Coming = Unread /\ Near(Unread, wanted, lost)
  BY <1>1 DEF Arriving, Coming, Density, Plus, Minus, DensityInv
<1>3. ASSUME NEW k \in 1..127, KeyDown(k) \/ KeyUp(k)
      PROVE  UNCHANGED <<Unread, g_caps_lock, g_shift_pressed>>
  BY <1>1, <1>3 DEF KeyDown, KeyUp, kbdVars, readerVars, Unread, Held, Took, Density
<1>4. ASSUME NEW k \in 1..127, KeyDown(k), wanted' = InRange(wanted + Asked(k))
      PROVE  DensityInv'
  <2>1. Arriving' = Sends(k)
    <3>1. kbc' # <<>> /\ Head(kbc') = k
      BY <1>1, <1>4, AloneInController
    <3>2. Sends(k)' = Sends(k)
      BY <1>3, <1>4 DEF Sends, Typed
    <3>3. QED
      BY <3>1, <3>2 DEF Arriving
  <2>2. Coming' = InRange(Unread + Asked(k))
    <3>1. Coming' = Density(Unread, Sends(k))
      BY <1>3, <1>4, <2>1 DEF Coming, Density
    <3>2. QED
      BY <1>1, <3>1, SendsAsked, DensityTypes, DensityMoves DEF TtyInv
  <2>3. Asked(k) \in {-1, 0, 1}
    BY <1>1, SendsAsked DEF TtyInv
  <2>4. wanted \in Densities /\ lost \in Nat /\ Unread \in Densities
    BY DensityTypes DEF DensityInv
  <2> DEFINE d == Asked(k)
             x == Unread
  <2>5. Near(Coming', wanted', lost) /\ wanted' \in Densities
    <3>1. d \in {-1, 0, 1} /\ x \in Densities /\ Near(x, wanted, lost)
      BY <1>2, <2>3, <2>4
    <3>2. Coming' = InRange(x + d) /\ wanted' = InRange(wanted + d)
      BY <1>4, <2>2
    <3> HIDE DEF d, x
    <3>3. Near(InRange(x + d), InRange(wanted + d), lost) /\ InRange(wanted + d) \in Densities
      BY <2>4, <3>1, RangeNear
    <3>4. QED
      BY <3>2, <3>3
  <2>6. QED
    BY <1>1, <2>5 DEF DensityInv
<1>5. ASSUME NEW k \in 1..127, KeyUp(k), wanted' = wanted
      PROVE  DensityInv'
  <2>1. kbc' # <<>> /\ Head(kbc') = k + 128
    BY <1>1, <1>5, AloneInController
  <2>2. Arriving' = 0
    BY <2>1 DEF Arriving, Sends, SCAN_CODE_KEY_ENTER, SCAN_CODE_KEY_TAB
  <2>3. QED
    BY <1>1, <1>2, <1>3, <1>5, <2>2, DensitySame
<1>6. QED
  BY <1>4, <1>5, WaverAssumption DEF WaveUser

(* Whatever the user of waver does with his keys and wherever interrupts   *)
(* fall, the density is off by no more than the plus and minus that were   *)
(* lost, for keys that print them by shift or without and any limits of    *)
(* the density.  The shell's user who started waver was patient: nothing   *)
(* of his was on its way.                                                  *)
THEOREM WaverLosesNoMore ==
  ASSUME Patient
  PROVE  WaverSpec => []OffByLosses
<1> DEFINE Inv == TtyInv /\ PatientWaverInv /\ ModifiersInv
<1>1. WaverInit => DensityInv
  BY WaverAssumption DEF WaverInit, DensityInv, Densities
<1>2. Inv /\ DensityInv /\ [WaverNext]_allWaveVars => DensityInv'
  <2> SUFFICES ASSUME Inv, DensityInv, [WaverNext]_allWaveVars PROVE DensityInv'
    OBVIOUS
  <2>1. CASE Interrupt \/ Read
    BY <2>1, DensityHandler, DensityReader
  <2>2. CASE Main
    BY <2>2, DensityMain
  <2>3. CASE wave = "off" /\ UNCHANGED waveVars
    BY <2>3 DEF DensityInv, waveVars
  <2>4. CASE WaveUser
    BY <2>4, DensityUser
  <2>5. CASE UNCHANGED allWaveVars
    <3>1. UNCHANGED <<wave, wave_density, wanted, lost, Unread, Arriving>>
      BY <2>5 DEF Unread, Held, Density, Arriving, Took, Sends, Typed, allWaveVars,
                  waveVars, allVars, vars, kbdVars, userVars, readerVars
    <3>2. QED
      BY <3>1, DensitySame
  <2>6. QED
    BY <2>1, <2>2, <2>3, <2>4, <2>5 DEF WaverNext
<1>3. DensityInv => OffByLosses
  <2> SUFFICES ASSUME DensityInv, wave = "on", kbc = <<>>, pc = "idle", ~fresh
               PROVE  wave_density - wanted \in -lost..lost
    BY DEF OffByLosses
  <2>1. Coming = wave_density
    BY DEF Coming, Unread, Held, Took, Arriving, Density, Plus, Minus
  <2>2. QED
    BY <2>1, WaverAssumption DEF DensityInv, Densities, Near
<1>4. QED
  BY <1>1, <1>2, <1>3, PatientWaver, WaverModifiers, PTL DEF WaverSpec

-----------------------------------------------------------------------------
(* The shell's line with the character on its way to it.                   *)
Reaching == IF OnTheWay \in {0, 10} THEN line ELSE Append(line, OnTheWay)

(* at finds the n characters of the driver's line buf in the shell's s.    *)
Finds(at, buf, n, s) ==
  /\ at \in [1..n -> 1..Len(s)]
  /\ \A i, j \in 1..n : i < j => at[i] < at[j]
  /\ \A i \in 1..n : buf[i - 1] = s[at[i]] /\ buf[i - 1] >= 32

(* Enter empties the driver's line before the shell has seen it.           *)
EditInv ==
  wave = "off" =>
    /\ mode = "run" \/ OnTheWay = 10 => g_input_pos = 0
    /\ \E at : Finds(at, g_input_buffer, g_input_pos, Reaching)

LEMMA FindsNothing ==
  ASSUME NEW s \in Seq(Chars), NEW buf
  PROVE  \E at : Finds(at, buf, 0, s)
<1> DEFINE at == [i \in 1..0 |-> i]
<1>1. Finds(at, buf, 0, s)
  BY DEF Finds
<1>2. QED
  BY <1>1

LEMMA ReachingType ==
  ASSUME TtyInv
  PROVE  /\ Reaching \in Seq(Chars) /\ line \in Seq(Chars)
         /\ Len(line) \in Nat /\ OnTheWay \in Chars
<1>1. line \in Seq(Chars) /\ OnTheWay \in Chars
  BY DEF TtyInv, TtyTypeOK, TypeOK, OnTheWay, Chars
<1>2. QED
  BY <1>1, LenProperties, AppendProperties DEF Reaching

(* What the shell's line gains at its end loses no character.              *)
LEMMA FindsLonger ==
  ASSUME NEW s \in Seq(Chars), NEW ch \in Chars,
         NEW n \in Nat, NEW buf, NEW at, Finds(at, buf, n, s)
  PROVE  Finds(at, buf, n, Append(s, ch))
<1>1. /\ Len(s) \in Nat /\ Len(Append(s, ch)) = Len(s) + 1
      /\ \A i \in 1..Len(s) : Append(s, ch)[i] = s[i]
  BY AppendProperties, LenProperties
<1>2. at \in [1..n -> 1..Len(s)]
  BY DEF Finds
<1>3. at \in [1..n -> 1..Len(s) + 1]
  BY <1>1, <1>2
<1>4. QED
  BY <1>1, <1>2, <1>3 DEF Finds

(* A character that both lines gain is found where it was put.             *)
LEMMA FindsNext ==
  ASSUME NEW s \in Seq(Chars), NEW ch \in Chars, ch >= 32,
         NEW n \in Nat, NEW D, NEW buf \in [D -> Int], n \in D,
         NEW at, Finds(at, buf, n, s)
  PROVE  \E a : Finds(a, [buf EXCEPT ![n] = ch], n + 1, Append(s, ch))
<1> DEFINE l == Len(s)
           a == [i \in 1..n + 1 |-> IF i = n + 1 THEN l + 1 ELSE at[i]]
           b == [buf EXCEPT ![n] = ch]
<1>1. /\ l \in Nat /\ Len(Append(s, ch)) = l + 1
      /\ \A i \in 1..l : Append(s, ch)[i] = s[i]
      /\ Append(s, ch)[l + 1] = ch
  BY AppendProperties, LenProperties
<1> HIDE DEF l
<1>2. at \in [1..n -> 1..l]
  BY DEF Finds, l
<1>3. a \in [1..n + 1 -> 1..l + 1]
  BY <1>1, <1>2
<1>4. \A i \in 1..n : a[i] = at[i] /\ b[i - 1] = buf[i - 1]
  BY <1>2
<1>5. a[n + 1] = l + 1 /\ b[n] = ch /\ (n + 1) - 1 = n
  BY <1>2
<1> HIDE DEF a, b
<1>6. \A i \in 1..n + 1 : i \in 1..n \/ i = n + 1
  OBVIOUS
<1>7. \A i, j \in 1..n + 1 : i < j => a[i] < a[j]
  <2> SUFFICES ASSUME NEW i \in 1..n + 1, NEW j \in 1..n + 1, i < j
               PROVE  a[i] < a[j]
    OBVIOUS
  <2>1. i \in 1..n
    BY <1>6
  <2>2. CASE j \in 1..n
    <3>1. at[i] < at[j]
      BY <2>1, <2>2 DEF Finds
    <3>2. QED
      BY <1>4, <2>1, <2>2, <3>1
  <2>3. CASE j = n + 1
    <3>1. a[i] \in 1..l
      BY <1>2, <1>4, <2>1
    <3>2. QED
      BY <1>1, <1>5, <2>3, <3>1
  <2>4. QED
    BY <1>6, <2>2, <2>3
<1>8. \A i \in 1..n + 1 : b[i - 1] = Append(s, ch)[a[i]] /\ b[i - 1] >= 32
  <2> SUFFICES ASSUME NEW i \in 1..n + 1
               PROVE  b[i - 1] = Append(s, ch)[a[i]] /\ b[i - 1] >= 32
    OBVIOUS
  <2>1. CASE i \in 1..n
    <3>1. b[i - 1] = s[at[i]] /\ b[i - 1] >= 32 /\ a[i] = at[i] /\ at[i] \in 1..l
      BY <1>2, <1>4, <2>1 DEF Finds
    <3>2. QED
      BY <1>1, <3>1
  <2>2. CASE i = n + 1
    BY <1>1, <1>5, <2>2
  <2>3. QED
    BY <1>6, <2>1, <2>2
<1>9. QED
  BY <1>1, <1>3, <1>7, <1>8 DEF Finds, b

LEMMA FindsShorter ==
  ASSUME NEW s \in Seq(Chars), NEW n \in Nat, n > 0, NEW D, NEW buf \in [D -> Int],
         NEW at, Finds(at, buf, n, s), \A i \in 1..n : i - 1 \in D
  PROVE  \E a : Finds(a, [buf EXCEPT ![n - 1] = 0], n - 1, s)
<1> DEFINE a == [i \in 1..n - 1 |-> at[i]]
           b == [buf EXCEPT ![n - 1] = 0]
<1>1. \A i \in 1..n - 1 : i \in 1..n /\ a[i] = at[i] /\ i - 1 # n - 1
  OBVIOUS
<1>2. \A i \in 1..n - 1 : b[i - 1] = buf[i - 1]
  <2> HIDE DEF a
  <2>1. QED
    BY <1>1
<1>3. a \in [1..n - 1 -> 1..Len(s)]
  BY <1>1 DEF Finds
<1> HIDE DEF a, b
<1>4. Finds(a, b, n - 1, s)
  BY <1>1, <1>2, <1>3 DEF Finds
<1>5. QED
  BY <1>4 DEF b

LEMMA EditHandler ==
  ASSUME TtyInv, PatientWaverInv, EditInv, Interrupt, wave = "off"
  PROVE  EditInv'
<1> DEFINE sc == Head(kbc)
           n == g_input_pos
           D == 0..INPUT_BUFFER_SIZE - 1
<1>1. kbc # <<>> /\ pc = "poll" /\ pc' = "poll" /\ g_ch = 0
      /\ UNCHANGED <<line, mode, wave>> /\ mode = "read"
  BY DEF Interrupt, CountLosses, KeyboardHandler, PatientWaverInv, UnreadInv, WhereInv,
         readerVars, ttyVars
<1>2. /\ OnTheWay = 0 /\ OnTheWay' = g_ch' /\ Reaching = line
      /\ Reaching' = IF g_ch' \in {0, 10} THEN line ELSE Append(line, g_ch')
  BY <1>1 DEF OnTheWay, Took, Reaching
<1>3. PICK at : Finds(at, g_input_buffer, n, line)
  BY <1>2 DEF EditInv
<1>4. /\ n \in Nat /\ n \in D /\ g_input_buffer \in [D -> Int]
      /\ \A i \in 1..n : i - 1 \in D
      /\ line \in Seq(Chars)
  <2>1. INPUT_BUFFER_SIZE \in Nat /\ g_input_pos \in D /\ g_input_buffer \in [D -> 0..127]
    BY KeyboardAssumption DEF TtyInv, TypeOK
  <2>2. g_input_buffer \in [D -> Int]
    <3> HIDE DEF D
    <3>1. QED
      BY <2>1
  <2>3. line \in Seq(Chars)
    BY DEF TtyInv, TtyTypeOK
  <2> HIDE DEF n
  <2>4. QED
    BY <2>1, <2>2, <2>3 DEF n
<1>5. g_ch' \in Chars
  <2>1. g_ch' \in 0..127
    BY HandlerType DEF Interrupt, TtyInv, TypeOK
  <2>2. QED
    BY <2>1 DEF Chars
<1>6. g_ch' = 10 => g_input_pos' = 0
  BY HandlerSends DEF Interrupt, TtyInv, KeyboardHandler, KeyRelease, CapsLockDown, EnterDown,
     TabDown, ShiftDown, BackspaceDown, CharDown, SCAN_CODE_KEY_BACKSPACE,
     SCAN_CODE_KEY_TAB, SCAN_CODE_KEY_ENTER, SCAN_CODE_KEY_LEFT_SHIFT,
     SCAN_CODE_KEY_CAPS_LOCK
<1>7. \E a : Finds(a, g_input_buffer', g_input_pos', Reaching')
  <2>1. ASSUME NEW a, NEW m \in Nat, NEW buf, Finds(a, buf, m, line)
        PROVE  Finds(a, buf, m, Reaching')
    BY <1>2, <1>4, <1>5, <2>1, FindsLonger
  <2>2. CASE CharDown(sc) /\ Fits(Typed(sc))
    <3>1. /\ g_ch' >= 32 /\ g_input_pos' = n + 1
          /\ g_input_buffer' = [g_input_buffer EXCEPT ![n] = g_ch']
      BY <2>2 DEF CharDown, Fits
    <3>2. Reaching' = Append(line, g_ch')
      BY <1>2, <3>1
    <3> HIDE DEF n, D
    <3>3. \E a : Finds(a, [g_input_buffer EXCEPT ![n] = g_ch'], n + 1, Append(line, g_ch'))
      BY <1>3, <1>4, <1>5, <3>1, FindsNext
    <3>4. QED
      BY <3>1, <3>2, <3>3
  <2>3. CASE EnterDown(sc)
    <3>1. g_input_pos' = 0 /\ g_ch' = 10
      BY <2>3 DEF EnterDown
    <3>2. QED
      BY <1>2, <1>4, <3>1, FindsNothing
  <2>4. CASE UNCHANGED <<g_input_buffer, g_input_pos>>
    BY <1>3, <1>4, <2>1, <2>4
  <2>5. CASE BackspaceDown(sc) /\ n > 0
    <3>1. /\ g_input_pos' = n - 1 /\ n - 1 \in Nat
          /\ g_input_buffer' = [g_input_buffer EXCEPT ![n - 1] = 0]
      BY <1>4, <2>5 DEF BackspaceDown
    <3> HIDE DEF n, D
    <3>2. \E a : Finds(a, [g_input_buffer EXCEPT ![n - 1] = 0], n - 1, line)
      BY <1>3, <1>4, <2>5, FindsShorter
    <3>3. QED
      BY <2>1, <3>1, <3>2
  <2>6. QED
    BY <2>2, <2>3, <2>4, <2>5 DEF Interrupt, KeyboardHandler, KeyRelease, CapsLockDown, TabDown,
                                  ShiftDown, BackspaceDown, CharDown
<1>8. QED
  BY <1>1, <1>2, <1>6, <1>7 DEF EditInv

LEMMA EditStoreChar ==
  ASSUME TtyInv, PatientWaverInv, EditInv, StoreChar, wave = "off", UNCHANGED waveVars
  PROVE  EditInv'
<1>1. /\ pc = "done" /\ pc' = "idle" /\ g_ch = 0 /\ mode = "read"
      /\ UNCHANGED <<g_ch, g_input_buffer, g_input_pos>> /\ c > 0 /\ c # 8
      /\ wave' = "off"
  BY DEF StoreChar, PatientWaverInv, UnreadInv, WhereInv, Took, kbdVars, waveVars,
         TtyInv, NoBackspace
<1>2. OnTheWay = c /\ OnTheWay' = 0 /\ Reaching' = line'
  BY <1>1 DEF OnTheWay, Took, Reaching
<1>3. \E at : Finds(at, g_input_buffer, g_input_pos, Reaching)
  BY <1>1 DEF EditInv
<1>4. CASE c = 10
  <2>1. mode' = "run" /\ line' = line /\ g_input_pos = 0
    BY <1>1, <1>2, <1>4 DEF StoreChar, EditInv
  <2>2. Reaching = line
    BY <1>2, <1>4 DEF Reaching
  <2>3. QED
    BY <1>1, <1>2, <1>3, <2>1, <2>2 DEF EditInv
<1>5. CASE c # 10
  <2>1. mode' = mode /\ line' = Append(line, c)
    BY <1>1, <1>5 DEF StoreChar
  <2>2. Reaching = line'
    BY <1>1, <1>2, <1>5, <2>1 DEF Reaching
  <2>3. QED
    BY <1>1, <1>2, <1>3, <2>1, <2>2 DEF EditInv
<1>6. QED
  BY <1>4, <1>5

LEMMA EditOthers ==
  ASSUME EditInv,
         UNCHANGED <<OnTheWay, line, mode, wave, g_input_buffer, g_input_pos>>
  PROVE  EditInv'
<1>1. Reaching' = Reaching
  BY DEF Reaching
<1>2. QED
  BY <1>1 DEF EditInv

(* The driver's line and the shell's, edited by different code, agree on   *)
(* every character, for any keys, buffer size and length of lines.         *)
THEOREM LinesAgree ==
  ASSUME Patient
  PROVE  WaverSpec => []EditedLineIsTyped
<1> DEFINE Inv == TtyInv /\ PatientWaverInv
<1>1. WaverInit => EditInv
  <2> SUFFICES ASSUME WaverInit PROVE EditInv
    OBVIOUS
  <2>1. OnTheWay = 0 /\ g_input_pos = 0 /\ Reaching = line /\ line \in Seq(Chars)
    BY EmptySeq DEF WaverInit, TtyInit, Init, OnTheWay, Took, Reaching
  <2>2. QED
    BY <2>1, FindsNothing DEF EditInv
<1>2. Inv /\ EditInv /\ [WaverNext]_allWaveVars => EditInv'
  <2> SUFFICES ASSUME Inv, EditInv, [WaverNext]_allWaveVars PROVE EditInv'
    OBVIOUS
  <2> USE DEF PatientWaverInv, UnreadInv, WhereInv
  <2>0. CASE wave' # "off"
    BY <2>0 DEF EditInv
  <2>1. CASE wave' = "off" /\ (Interrupt \/ Read)
    <3>1. wave = "off" /\ UNCHANGED <<line, mode, wave>>
      BY <2>1 DEF Interrupt, Read, CountLosses, ttyVars
    <3>2. CASE Interrupt
      BY <3>1, <3>2, EditHandler
    <3>3. CASE Poll \/ Load \/ ClearCh \/ ClearScanCode
      <4>1. OnTheWay' = OnTheWay
        BY <3>1, <3>3 DEF OnTheWay, Took, Poll, Load, ClearCh, ClearScanCode, kbdVars
      <4>2. UNCHANGED <<g_input_buffer, g_input_pos>>
        BY <3>3 DEF Poll, Load, ClearCh, ClearScanCode, kbdVars
      <4>3. QED
        BY <3>1, <4>1, <4>2, EditOthers
    <3>4. QED
      BY <2>1, <3>2, <3>3 DEF Interrupt, Read
  <2>2. CASE wave = "off" /\ StoreChar /\ UNCHANGED waveVars
    BY <2>2, EditStoreChar
  <2>3. CASE wave = "off" /\ GetChar /\ UNCHANGED waveVars
    <3>1. UNCHANGED <<line, mode, wave, g_input_buffer, g_input_pos>>
      BY <2>3 DEF GetChar, Call, kbdVars, ttyVars, waveVars
    <3>2. OnTheWay' = OnTheWay
      BY <2>3 DEF GetChar, Call, OnTheWay, Took, kbdVars
    <3>3. QED
      BY <3>1, <3>2, EditOthers
  <2>4. CASE RunCommand /\ wave = "off" /\ UNCHANGED waveVars
    <3>1. /\ mode = "run" /\ pc = "idle" /\ g_ch = 0
          /\ line' = <<>> /\ mode' = "read" /\ wave' = "off"
          /\ UNCHANGED <<g_ch, c, pc, g_input_buffer, g_input_pos>>
      BY <2>4 DEF RunCommand, vars, kbdVars, readerVars, waveVars
    <3>2. OnTheWay' = 0 /\ Reaching' = <<>> /\ g_input_pos' = 0
      BY <3>1, <2>4 DEF OnTheWay, Took, Reaching, EditInv
    <3>3. <<>> \in Seq(Chars)
      BY EmptySeq
    <3>4. QED
      BY <3>1, <3>2, <3>3, FindsNothing DEF EditInv
  <2>5. CASE wave' = "off" /\ (StartWaver \/ DrawFrame \/ UseKey \/ WaveUser)
    BY <2>5 DEF StartWaver, DrawFrame, UseKey, WaveUser, waveVars
  <2>6. CASE User /\ UNCHANGED <<ttyVars, waveVars>>
    <3>1. PICK k \in 1..127 : KeyDown(k) \/ KeyUp(k)
      BY <2>6, UserKeys DEF User
    <3>2. UNCHANGED <<line, mode, wave, g_input_buffer, g_input_pos, OnTheWay>>
      BY <2>6, <3>1 DEF KeyDown, KeyUp, kbdVars, readerVars, ttyVars, waveVars,
                        OnTheWay, Took
    <3>3. QED
      BY <3>2, EditOthers
  <2>7. CASE UNCHANGED allWaveVars
    <3>1. UNCHANGED <<line, mode, wave, g_input_buffer, g_input_pos, OnTheWay>>
      BY <2>7 DEF allWaveVars, waveVars, allVars, ttyVars, vars, kbdVars, readerVars,
                  OnTheWay, Took
    <3>2. QED
      BY <3>1, EditOthers
  <2>8. QED
    BY <2>0, <2>1, <2>2, <2>3, <2>4, <2>5, <2>6, <2>7 DEF WaverNext, Main
<1>3. Inv /\ EditInv => EditedLineIsTyped
  <2> SUFFICES ASSUME Inv, EditInv, Quiet
               PROVE  \E at \in [DOMAIN Line -> DOMAIN line] :
                        /\ \A i, j \in DOMAIN Line : i < j => at[i] < at[j]
                        /\ \A i \in DOMAIN Line : Line[i] = line[at[i]] /\ Line[i] >= 32
    BY DEF EditedLineIsTyped
  <2>1. wave = "off" /\ pc = "poll" /\ g_ch = 0
    BY DEF Quiet, Ready, PatientWaverInv, WhereInv, TtyInv, TypeOK
  <2>2. Reaching = line
    BY <2>1 DEF Reaching, OnTheWay, Took
  <2>3. PICK at : Finds(at, g_input_buffer, g_input_pos, line)
    BY <2>1, <2>2 DEF EditInv
  <2>4. DOMAIN Line = 1..g_input_pos /\ DOMAIN line = 1..Len(line)
    BY LenProperties DEF Line, TtyInv, TtyTypeOK
  <2>5. \A i \in 1..g_input_pos : Line[i] = g_input_buffer[i - 1]
    BY DEF Line
  <2>6. at \in [DOMAIN Line -> DOMAIN line]
    BY <2>3, <2>4 DEF Finds
  <2>7. \A i, j \in DOMAIN Line : i < j => at[i] < at[j]
    BY <2>3, <2>4 DEF Finds
  <2>8. \A i \in DOMAIN Line : Line[i] = line[at[i]] /\ Line[i] >= 32
    BY <2>3, <2>4, <2>5 DEF Finds
  <2>9. QED
    BY <2>6, <2>7, <2>8
<1>4. QED
  BY <1>1, <1>2, <1>3, PatientWaver, PTL DEF WaverSpec
=============================================================================
