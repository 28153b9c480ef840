----------------------------- MODULE Exceptions -----------------------------
(***************************************************************************)
(* Exceptions beside the interrupts of module Interrupts: what the         *)
(* processor and the stubs of exception.asm push, what                     *)
(* isr_exception_handler makes of it, and the way back.  Two exceptions    *)
(* are handled, and one of them is what `int $0x10' of vga.c raises in     *)
(* protected mode, where there is no BIOS; every other one stops the       *)
(* kernel.  A word on the stack has the name of what was pushed.           *)
(***************************************************************************)
EXTENDS Interrupts

CONSTANT Exceptions \* numbers of the exceptions that happen

Handled == {7, 16}
PROGRAM == -1 \* what the interrupted program has in a register
KERNEL == -2  \* what the handler has there
CR0 == -3
ERROR == -4   \* an error code

(* Exceptions that push an error code in user mode, with guests or with    *)
(* control flow enforcement do not happen in this kernel.                  *)
ASSUME ExceptionsAssumption == Exceptions \subseteq 0..31 \ {17, 21, 29, 30}

VARIABLES
  exc,    \* where the handling of an exception is; "none", or "halted"
  number, \* its number
  stack,  \* what has been pushed for it, the last word first
  regs,   \* the registers of the processor
  saved   \* the interrupt flag and the shadow of sti it interrupted

excVars == <<exc, number, stack, regs, saved>>
allVars == <<vars, excVars>>

Word(of, val) == [of |-> of, val |-> val]

(* The structure isr_exception_handler is given, field by field.           *)
REGISTERS ==
  << "ds", "edi", "esi", "ebp", "esp", "ebx", "edx", "ecx", "eax",
     "int_no", "err_code", "eip", "cs", "eflags", "useresp", "ss" >>

(* In the order popa takes them.                                           *)
General == SubSeq(REGISTERS, 2, 9)

WithErrorCode == {8, 10, 11, 12, 13, 14}

NoDefaultForgetsOne == {8, 10, 11, 12, 14}

(* Exceptions whose stub pushes no "default err code".                     *)
NoDefault == {8, 10, 11, 12, 13, 14}

Flag(on) == IF on THEN 1 ELSE 0

(* The processor goes through the gate.  7 and 16 come from a program the  *)
(* shell has started; the others from wherever the processor is.           *)
RaiseException(n) ==
  /\ boot \in {"idt_init", "console_init", "keyboard_init"}
  /\ \/ n \in Handled /\ exc = "none" /\ frames = <<>> /\ boot = "keyboard_init"
     \/ n \notin Handled /\ exc # "halted" /\ (exc = "none" \/ number \in Handled)
  /\ exc' = "stub" /\ number' = n
  /\ stack' = (IF n \in WithErrorCode THEN <<Word("err_code", ERROR)>> ELSE <<>>)
              \o << Word("eip", regs["eip"]), Word("cs", regs["cs"]),
                    Word("eflags", Flag(enabled)) >>
              \o stack
  /\ regs' = [regs EXCEPT !["eip"] = KERNEL, !["cs"] = KERNEL]
  /\ saved' = IF exc = "none" THEN [enabled |-> enabled, shadow |-> shadow] ELSE saved
  /\ enabled' = FALSE /\ shadow' = FALSE
  /\ UNCHANGED <<boot, g_interrupt_handlers, frames, picVars, devVars>>

Go(from, to) ==
  /\ exc = from /\ exc' = to
  /\ UNCHANGED <<boot, g_interrupt_handlers, frames, picVars, devVars, number, saved>>

(* The entry of the number, and exception_handler up to its call.          *)
exception_n ==
  /\ Go("stub", "handler")
  /\ stack' = <<Word("ds", regs["ds"])>>
              \o [i \in 1..8 |-> Word(General[i], regs[General[i]])]
              \o <<Word("int_no", number)>>
              \o (IF number \in NoDefault THEN <<>> ELSE <<Word("err_code", 0)>>)
              \o stack
  /\ regs' = [regs EXCEPT !["eax"] = KERNEL, !["ds"] = KERNEL]
  /\ enabled' = FALSE
  /\ UNCHANGED shadow

int_no == stack[10].val

(* 7 and 16 reset the FPU; the C code leaves the registers it may change.  *)
handle_fpu_exception ==
  /\ Go("handler", "restore")
  /\ int_no \in Handled
  /\ regs' = [r \in DOMAIN regs |-> IF r \in {"eax", "ecx", "edx"} THEN KERNEL
                                    ELSE regs[r]]
  /\ UNCHANGED <<stack, enabled, shadow>>

(* The others print the registers and loop for ever.                       *)
for_ever ==
  /\ Go("handler", "halted")
  /\ int_no < 32 /\ int_no \notin Handled
  /\ UNCHANGED <<stack, regs, enabled, shadow>>

OneDropped == 1

(* Words `add esp, 0x8' takes from the stack.                              *)
Dropped == 2

(* The registers are restored, and eax is then used for cr0.               *)
restore ==
  /\ Go("restore", "sti")
  /\ regs' = [r \in DOMAIN regs |->
                IF r = "eax" THEN CR0
                ELSE IF \E i \in 1..9 : r = REGISTERS[i] /\ r # "esp"
                THEN stack[CHOOSE i \in 1..9 : r = REGISTERS[i]].val
                ELSE regs[r]]
  /\ stack' = SubSeq(stack, 10 + Dropped, Len(stack))
  /\ UNCHANGED <<enabled, shadow>>

exception_sti_too_early ==
  /\ Go("sti", "iret")
  /\ enabled' = TRUE
  /\ UNCHANGED <<stack, regs, shadow>>

exception_sti ==
  /\ Go("sti", "iret")
  /\ enabled' = TRUE /\ shadow' = TRUE
  /\ UNCHANGED <<stack, regs>>

exception_iret ==
  /\ Go("iret", "none")
  /\ regs' = [regs EXCEPT !["eip"] = stack[1].val, !["cs"] = stack[2].val]
  /\ enabled' = (stack[3].val = 1) /\ shadow' = FALSE
  /\ stack' = SubSeq(stack, 4, Len(stack))

Exception ==
  \/ exception_n \/ handle_fpu_exception \/ for_ever
  \/ restore \/ exception_sti \/ exception_iret

(* The kernel's own code goes on when no exception is being handled;       *)
(* devices and controllers do not care.                                    *)
Kernel ==
  \/ exc = "none" /\ (Boot \/ Handle)
  \/ \E irq \in Irqs : Deliver(irq)
  \/ \E irq \in Spurious : DeliverSpurious(irq)
  \/ Devices

ExcInit ==
  /\ Init
  /\ exc = "none" /\ number = 0 /\ stack = <<>>
  /\ regs = [r \in {REGISTERS[i] : i \in 1..9} \union {"eip", "cs"} |-> PROGRAM]
  /\ saved = [enabled |-> FALSE, shadow |-> FALSE]

ExcNext ==
  \/ \E n \in Exceptions : RaiseException(n)
  \/ Exception
  \/ Kernel /\ UNCHANGED excVars

ExcSpec == ExcInit /\ [][ExcNext]_allVars

(* The processor goes on, with exceptions as with interrupts.              *)
ExcFairSpec ==
  /\ ExcSpec
  /\ WF_allVars(Exception)
  /\ WF_allVars(exc = "none" /\ (Boot \/ Handle) /\ UNCHANGED excVars)
  /\ \A irq \in Irqs : SF_allVars(Deliver(irq) /\ UNCHANGED excVars)

-----------------------------------------------------------------------------
(* The C code finds in a field of the structure what its name says.        *)
Present(i) == i \in DOMAIN stack /\ stack[i].of = REGISTERS[i]

UserStack == {"useresp", "ss"}

(* Whichever exception it is, with an error code or without, the registers *)
(* exception_handler saves, the number isr_exception_handler decides by,   *)
(* the error code, eip, cs and eflags are found under their names          *)
(* (isr.h:13-16).  Nothing is said of useresp and ss.                      *)
FrameFitsStruct ==
  exc = "handler" =>
    \A i \in DOMAIN REGISTERS : REGISTERS[i] \notin UserStack => Present(i)

(* A program that goes on after an exception does so where it was, with an *)
(* empty stack again, with interrupts as they were and with what it had in *)
(* every register but eax, of which nothing is said (exception.asm:54-69). *)
ProgramResumes ==
  [][exc = "iret" /\ exc' = "none" =>
       /\ stack' = <<>>
       /\ enabled' = saved.enabled
       /\ \A r \in DOMAIN regs \ {"eax"} : regs'[r] = PROGRAM]_allVars

Below ==
  INSTANCE Interrupts WITH
    enabled <- IF exc = "none" THEN enabled ELSE saved.enabled,
    shadow <- IF exc = "none" THEN shadow ELSE saved.shadow

(* Exceptions go unnoticed by the interrupt path: they leave the flag as   *)
(* they found it, and no interrupt is taken while one is handled, or after *)
(* one has stopped the kernel; what is proved of interrupts goes on to     *)
(* hold.                                                                   *)
ImplementsInterrupts == Below!Spec

(* A scan code whose request is latched once the handler is registered is  *)
(* read by it, whatever other devices, spurious interrupts and exceptions  *)
(* come first, unless the kernel has stopped.                              *)
KeyServed ==
  boot = "keyboard_init" /\ obf /\ IRQ1_KEYBOARD \in irr ~> ~obf \/ exc = "halted"
=============================================================================
