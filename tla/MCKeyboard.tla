----------------------------- MODULE MCKeyboard -----------------------------
(* Keyboard with small sets of keys for TLC.                               *)
EXTENDS Keyboard

(* Set 1 make codes of keys without a constant in Keyboard.                *)
KeyA == 30
KeyF1 == 59

EagerKeys == {KeyA, SCAN_CODE_KEY_ENTER, SCAN_CODE_KEY_BACKSPACE,
              SCAN_CODE_KEY_LEFT_SHIFT, SCAN_CODE_KEY_CAPS_LOCK}

RacingKeys == {KeyA, KeyF1, SCAN_CODE_KEY_ENTER}
=============================================================================
