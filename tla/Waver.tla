------------------------------- MODULE Waver --------------------------------
(***************************************************************************)
(* The command waver: draw_wave of programs/waver.c, which kmain runs in   *)
(* place of a line's other commands, draws frame after frame and between   *)
(* two of them asks the driver once for a key, without waiting.  What is   *)
(* drawn depends on the density alone, and is left out.  Behaviours are    *)
(* followed until the program is left.                                     *)
(***************************************************************************)
EXTENDS TtyInput

CONSTANTS
  INITIAL_DENSITY, \* 3 in the source
  MAX_DENSITY,     \* 20 in the source
  WaveKeys         \* keys users press while waves are drawn

ASSUME WaverAssumption ==
  /\ MAX_DENSITY \in Nat
  /\ INITIAL_DENSITY \in 1..MAX_DENSITY
  /\ WaveKeys \subseteq 1..127

VARIABLES
  wave,         \* "on" inside draw_wave, "left" after it
  wave_density,
  wanted,       \* history: the density the user has asked for
  lost          \* history: + and - no reader has loaded, MAX_DENSITY - 1 or fewer

waveVars == <<wave, wave_density, wanted, lost>>
allWaveVars == <<allVars, waveVars>>

WAVER == <<97>> \* the command's name; one letter stands for it
Plus == 43
Minus == 45
Esc == 27
SCAN_CODE_KEY_MINUS == 12
SCAN_CODE_KEY_EQUAL == 13
SCAN_CODE_KEY_KEYPAD_MINUS == 74
SCAN_CODE_KEY_KEYPAD_PLUS == 78

StartWaver ==
  /\ mode = "run" /\ wave = "off" /\ line = WAVER
  /\ wave' = "on"
  /\ UNCHANGED <<allVars, wave_density, wanted, lost>>

(* A frame is drawn, and keyboard_read called.                             *)
DrawFrame ==
  /\ wave = "on"
  /\ Call("keyboard_read")
  /\ UNCHANGED <<ttyVars, waveVars>>

DensityPastMax(density, key) ==
  IF key = Plus /\ density <= MAX_DENSITY THEN density + 1
  ELSE IF key = Minus /\ density > 1 THEN density - 1
  ELSE density

(* "Press + to increase density, - to decrease density".                   *)
Density(density, key) ==
  IF key = Plus /\ density < MAX_DENSITY THEN density + 1
  ELSE IF key = Minus /\ density > 1 THEN density - 1
  ELSE density

LeavesByScanCode(key) == key = 1

Leaves(key) == key = Esc

UseKey ==
  /\ wave = "on" /\ pc = "done"
  /\ wave_density' = Density(wave_density, c)
  /\ wave' = IF Leaves(c) THEN "left" ELSE "on"
  /\ pc' = "idle" /\ c' = 0
  /\ UNCHANGED <<kbdVars, userVars, api, fresh, ttyVars, wanted, lost>>

(* What the user asks for with key k: one more with the plus on its cap,   *)
(* one less with the minus, by the shift key he holds or not.              *)
Asked(k) ==
  LET shift == SCAN_CODE_KEY_LEFT_SHIFT \in held
  IN  IF k = SCAN_CODE_KEY_KEYPAD_PLUS \/ (k = SCAN_CODE_KEY_EQUAL /\ shift) THEN 1
      ELSE IF k \in {SCAN_CODE_KEY_MINUS, SCAN_CODE_KEY_KEYPAD_MINUS} /\ ~shift
      THEN -1 ELSE 0

InRange(n) == IF n > MAX_DENSITY THEN MAX_DENSITY ELSE IF n < 1 THEN 1 ELSE n

(* The user touches keys whenever he likes, wherever draw_wave and the     *)
(* driver are.  A scan code that waited behind another in the controller   *)
(* would be handled as if its key had been touched later, so one at a time *)
(* is enough.                                                              *)
WaveUser ==
  /\ wave = "on" /\ kbc = <<>>
  /\ \/ \E k \in WaveKeys : KeyDown(k) /\ wanted' = InRange(wanted + Asked(k))
     \/ (\E k \in 1..127 : KeyUp(k)) /\ UNCHANGED wanted
  /\ UNCHANGED <<ttyVars, wave, wave_density, lost>>

WaverInit ==
  /\ TtyInit
  /\ wave = "off"
  /\ wave_density = INITIAL_DENSITY /\ wanted = INITIAL_DENSITY
  /\ lost = 0

(* A plus or a minus that no reader has loaded is lost to the next scan    *)
(* code, or to the reset of g_ch if it came after the load.                *)
Loses ==
  /\ fresh /\ g_ch \in {Plus, Minus}
  /\ kbc' # kbc \/ pc = "clear_ch"

CountLosses ==
  /\ lost' = IF wave = "on" /\ Loses /\ lost < MAX_DENSITY - 1 THEN lost + 1 ELSE lost
  /\ UNCHANGED <<ttyVars, wave, wave_density, wanted>>

Interrupt == KeyboardHandler /\ CountLosses
Read == (Poll \/ Load \/ ClearCh \/ ClearScanCode) /\ CountLosses

(* kmain, and what it calls.                                               *)
Main ==
  \/ wave = "off" /\ (GetChar \/ StoreChar) /\ UNCHANGED waveVars
  \/ line # WAVER /\ RunCommand /\ UNCHANGED waveVars
  \/ StartWaver
  \/ DrawFrame
  \/ UseKey

WaverNext ==
  \/ Interrupt
  \/ Read
  \/ Main
  \/ wave = "off" /\ User /\ UNCHANGED <<ttyVars, waveVars>>
  \/ WaveUser

(* The processor runs handlers and the main thread; users owe nothing.     *)
WaverSpec ==
  /\ WaverInit /\ [][WaverNext]_allWaveVars
  /\ WF_allWaveVars(Interrupt)
  /\ WF_allWaveVars(Read)
  /\ WF_allWaveVars(Main)

-----------------------------------------------------------------------------
(* A frame asks only once and does not wait, and a key touched between the *)
(* load of g_ch and its reset, or too soon after another, is lost.  The    *)
(* density is off by no more than that, at the limits of its range too: no *)
(* plus or minus is counted twice, or taken for the other, and what is not *)
(* lost is counted.                                                        *)
OffByLosses ==
  wave = "on" /\ kbc = <<>> /\ pc = "idle" /\ ~fresh
    => wave_density - wanted \in -lost..lost

(* The characters the keys send, with shift or caps lock or without.       *)
Characters ==
  UNION {LET ch == g_scan_code_chars[k] IN {ch, upper(ch), alternate_chars(ch)} : k \in Keys}

(* A character of the shell's user, who waits for it, reaches getstr_bound *)
(* itself: kb_getchar returns this one, not a later one.                   *)
CharReachesShell ==
  \A ch \in Characters \ {0} : wave = "off" /\ g_ch = ch ~> pc = "done" /\ c = ch

(* An ESC that a reader has still to load, and that no other key takes the *)
(* place of, ends the program.                                             *)
EscLeavesWave ==
  wave = "on" /\ g_ch = Esc /\ fresh /\ pc # "clear_ch" ~> wave = "left" \/ kbc # <<>>
=============================================================================
