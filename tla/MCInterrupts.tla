---------------------------- MODULE MCInterrupts ----------------------------
(* Interrupts for TLC: the timer's line and the keyboard's.                *)
EXTENDS Interrupts

MCFewIrqs == {0, 1}
=============================================================================
