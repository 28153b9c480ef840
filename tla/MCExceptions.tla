---------------------------- MODULE MCExceptions ----------------------------
(* Exceptions for TLC: a fault with an error code, the non-maskable        *)
(* interrupt, and the one a program gets for `int $0x10'.                  *)
EXTENDS Exceptions

MCIrqs == {0, 1, 4, 8, 12}
MCExceptionNumbers == {2, 13, 16}
=============================================================================
