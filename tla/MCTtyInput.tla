---------------------------- MODULE MCTtyInput -----------------------------
(* TtyInput with a small set of keys for TLC.                              *)
EXTENDS TtyInput

KeyA == 30

ErasingKeys == {KeyA, SCAN_CODE_KEY_ENTER, SCAN_CODE_KEY_BACKSPACE}
=============================================================================
