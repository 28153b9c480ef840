------------------------------ MODULE MCWaver -------------------------------
(* The shell's line input and waver for TLC.                               *)
EXTENDS Waver

KeyA == 30

(* One that prints, in two ways with shift, one that the shell takes and   *)
(* the driver's line does not, one that erases and one that ends the line. *)
TtyKeys == {KeyA, SCAN_CODE_KEY_LEFT_SHIFT, SCAN_CODE_KEY_ENTER, SCAN_CODE_KEY_TAB,
            SCAN_CODE_KEY_BACKSPACE}

(* ESC, and the key that prints + if the shift key the user may have kept *)
(* from the shell is held.                                                 *)
MCWaveKeys == {1, SCAN_CODE_KEY_EQUAL}
=============================================================================
