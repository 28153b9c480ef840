----------------------------- MODULE Interrupts -----------------------------
(***************************************************************************)
(* The interrupt path from boot on: kmain's initialisation, the vectors of *)
(* the two 8259s (8259_pic.c), the stubs of irq.asm, the dispatch of isr.c *)
(* and the end of interrupt.  Module Keyboard runs the keyboard's handler  *)
(* in one step with interrupts disabled; this module shows why it may.     *)
(*                                                                         *)
(* Devices, the controllers and the processor are outside src/: the 8259s  *)
(* are edge-triggered and fully nested, an interrupt gate clears the       *)
(* interrupt flag, and sti takes effect after the instruction behind it.   *)
(***************************************************************************)
EXTENDS Integers, Sequences, FiniteSets

CONSTANTS
  Irqs,     \* request lines that have a device
  Spurious, \* lines the controllers may report without a request: 7, 15
  Masked,   \* lines the firmware has masked
  QUEUE     \* scan codes the keyboard can hold back

IRQ_BASE == 32
IRQ1_KEYBOARD == 1
IRQ2_CASCADE == 2

ASSUME InterruptsAssumption ==
  /\ Irqs \subseteq 0..15 \ {IRQ2_CASCADE} /\ IRQ1_KEYBOARD \in Irqs
  /\ Spurious \subseteq {7, 15}
  /\ Masked \subseteq 0..15
  /\ QUEUE \in Nat

VARIABLES
  boot,                 \* how far kmain has come
  g_interrupt_handlers, \* numbers of interrupts with a registered handler
  enabled,              \* interrupt flag of the processor
  shadow,               \* has sti just been executed?
  frames,               \* stack of interrupts being handled, the latest last
  irr,                  \* requests the controllers have latched
  inService,            \* their in-service bits, the slave's being 8..15
  obf,                  \* a scan code waits in the keyboard controller
  queued                \* scan codes behind it, in the keyboard

cpuVars == <<enabled, shadow, frames>>
picVars == <<irr, inService>>
devVars == <<obf, queued>>
vars == <<boot, g_interrupt_handlers, cpuVars, picVars, devVars>>

-----------------------------------------------------------------------------
(* The controllers.                                                        *)

(* The numbers the firmware has given to the lines.                        *)
FirmwareVector(irq) == IF irq < 8 THEN 8 + irq ELSE 112 + irq - 8

(* The number the processor is given for a line, once ICW2 of pic8259_init *)
(* has set it; the entry idt_init sets for it leads to the stub that       *)
(* pushes that number.                                                     *)
Vector(irq) ==
  IF boot = "gdt_init" THEN FirmwareVector(irq)
  ELSE IF irq < 8 THEN 32 + irq ELSE 40 + irq - 8

(* The slave's requests come in on line 2 of the master.                   *)
MasterLine(irq) == IF irq < 8 THEN irq ELSE IRQ2_CASCADE

(* A line is held up by an interrupt in service at its own or at a higher  *)
(* priority, in its own controller or in the master.                       *)
Blocked(irq) ==
  \/ \E s \in inService : s < 8 /\ s <= MasterLine(irq)
  \/ irq >= 8 /\ \E s \in inService : s >= 8 /\ s <= irq

Unmasked(irq) == irq \notin Masked /\ MasterLine(irq) \notin Masked

(* Of two lines the one with the lower number on the master is first.      *)
Precedes(i, j) ==
  MasterLine(i) < MasterLine(j) \/ (MasterLine(i) = MasterLine(j) /\ i < j)

Deliverable(irq) ==
  /\ irq \in irr /\ Unmasked(irq) /\ ~Blocked(irq)
  /\ \A j \in irr : Unmasked(j) /\ ~Blocked(j) /\ j # irq => Precedes(irq, j)

(* The bits an acknowledged interrupt sets; a spurious one sets only that  *)
(* of the cascade.                                                         *)
Bits(irq, real) ==
  (IF real THEN {irq} ELSE {}) \union (IF irq >= 8 THEN {IRQ2_CASCADE} ELSE {})

Highest(bits) == {s \in bits : \A t \in bits : s <= t}

(* A non-specific end of interrupt clears a controller's highest bit.      *)
EndSlave == inService' = inService \ Highest({s \in inService : s >= 8})
EndMaster == inService' = inService \ Highest({s \in inService : s < 8})

-----------------------------------------------------------------------------
(* kmain, up to its loop; it runs when no interrupt is being handled.      *)

Main(here, next) == frames = <<>> /\ boot = here /\ boot' = next

(* The initialisation command words forget what the controllers have       *)
(* latched; the masks are saved and restored.                              *)
pic8259_init ==
  /\ Main("gdt_init", "pic8259_init")
  /\ irr' = {} /\ inService' = {}
  /\ UNCHANGED <<g_interrupt_handlers, cpuVars, devVars>>

(* The rest of idt_init: the table is loaded, and interrupts are enabled.  *)
idt_init ==
  /\ Main("pic8259_init", "idt_init")
  /\ enabled' = TRUE
  /\ UNCHANGED <<g_interrupt_handlers, shadow, frames, picVars, devVars>>

console_init ==
  /\ Main("idt_init", "console_init")
  /\ UNCHANGED <<g_interrupt_handlers, cpuVars, picVars, devVars>>

keyboard_init_without_base ==
  /\ Main("console_init", "keyboard_init")
  /\ g_interrupt_handlers' = g_interrupt_handlers \union {IRQ1_KEYBOARD}
  /\ UNCHANGED <<cpuVars, picVars, devVars>>

(* keyboard_init announces the handler and then registers it.              *)
keyboard_init ==
  /\ Main("console_init", "keyboard_init")
  /\ g_interrupt_handlers' = g_interrupt_handlers \union {IRQ_BASE + IRQ1_KEYBOARD}
  /\ UNCHANGED <<cpuVars, picVars, devVars>>

-----------------------------------------------------------------------------
(* An interrupt on its way through the kernel.                             *)

Top == frames[Len(frames)]

MoveTo(step) == frames' = [frames EXCEPT ![Len(frames)].at = step]

(* The processor takes an interrupt through the gate, which is of the      *)
(* interrupt type (0x8E): the flag is saved and cleared, the stub entered. *)
Enter(irq, real) ==
  /\ enabled /\ ~shadow
  /\ frames' = Append(frames, [int_no |-> Vector(irq), irq |-> irq, real |-> real,
                               at |-> "handler"])
  /\ enabled' = FALSE
  /\ inService' = inService \union Bits(irq, real)
  /\ UNCHANGED <<boot, g_interrupt_handlers, shadow, devVars>>

Deliver(irq) ==
  /\ Deliverable(irq)
  /\ irr' = irr \ {irq}
  /\ Enter(irq, TRUE)

(* A request that has gone away again is reported, masked or not, as the   *)
(* lowest line of its controller, if no other request comes before it.     *)
DeliverSpurious(irq) ==
  /\ irq >= 8 => IRQ2_CASCADE \notin Masked
  /\ ~\E s \in inService : s < 8 /\ s <= MasterLine(irq)
  /\ ~\E j \in irr : /\ Unmasked(j) /\ ~Blocked(j)
                      /\ (j = irq \/ Precedes(j, irq))
  /\ Enter(irq, FALSE)
  /\ UNCHANGED irr

At(step) == frames # <<>> /\ Top.at = step

(* isr_irq_handler calls the handler if there is one; the keyboard's reads *)
(* the data port.                                                          *)
isr_irq_handler ==
  /\ At("handler")
  /\ obf' = (obf /\ ~(/\ Top.int_no \in g_interrupt_handlers
                      /\ Top.int_no = IRQ_BASE + IRQ1_KEYBOARD))
  /\ MoveTo("eoi")
  /\ UNCHANGED <<boot, g_interrupt_handlers, enabled, shadow, picVars, queued>>

eoi_slave_off_by_one ==
  /\ At("eoi")
  /\ IF Top.int_no > 40 THEN EndSlave ELSE UNCHANGED inService
  /\ MoveTo("eoi_master")
  /\ UNCHANGED <<boot, g_interrupt_handlers, enabled, shadow, irr, devVars>>

(* pic8259_eoi, first to the slave if the interrupt came from there ...    *)
eoi_slave ==
  /\ At("eoi")
  /\ IF Top.int_no >= 40 THEN EndSlave ELSE UNCHANGED inService
  /\ MoveTo("eoi_master")
  /\ UNCHANGED <<boot, g_interrupt_handlers, enabled, shadow, irr, devVars>>

(* ... and then to the master.                                             *)
eoi_master ==
  /\ At("eoi_master")
  /\ EndMaster
  /\ MoveTo("sti")
  /\ UNCHANGED <<boot, g_interrupt_handlers, enabled, shadow, irr, devVars>>

sti_not_last ==
  /\ At("sti")
  /\ enabled' = TRUE
  /\ MoveTo("iret")
  /\ UNCHANGED <<boot, g_interrupt_handlers, shadow, picVars, devVars>>

(* The stub restores the registers and enables interrupts; iret is the     *)
(* next instruction.                                                       *)
sti ==
  /\ At("sti")
  /\ enabled' = TRUE /\ shadow' = TRUE
  /\ MoveTo("iret")
  /\ UNCHANGED <<boot, g_interrupt_handlers, picVars, devVars>>

(* Back to what was interrupted, with the flag it had: it was set.         *)
iret ==
  /\ At("iret")
  /\ frames' = SubSeq(frames, 1, Len(frames) - 1)
  /\ enabled' = TRUE /\ shadow' = FALSE
  /\ UNCHANGED <<boot, g_interrupt_handlers, picVars, devVars>>

-----------------------------------------------------------------------------
(* The devices.                                                            *)

(* A device asks again only after its last interrupt has been answered.    *)
Raise(irq) ==
  /\ irq # IRQ1_KEYBOARD
  /\ \A k \in DOMAIN frames : frames[k].irq # irq
  /\ irr' = irr \union {irq}
  /\ UNCHANGED <<boot, g_interrupt_handlers, cpuVars, inService, devVars>>

(* The user presses or releases a key.                                     *)
Key ==
  /\ queued < QUEUE
  /\ queued' = queued + 1
  /\ UNCHANGED <<boot, g_interrupt_handlers, cpuVars, picVars, obf>>

(* The next scan code reaches the controller's output buffer, which has to *)
(* be empty, and request line 1 rises.                                     *)
FillOutputBuffer ==
  /\ queued > 0 /\ ~obf
  /\ queued' = queued - 1 /\ obf' = TRUE
  /\ irr' = irr \union {IRQ1_KEYBOARD}
  /\ UNCHANGED <<boot, g_interrupt_handlers, cpuVars, inService>>

-----------------------------------------------------------------------------
(* kmain is entered with interrupts disabled.                              *)
Init ==
  /\ boot = "gdt_init"
  /\ g_interrupt_handlers = {}
  /\ enabled = FALSE /\ shadow = FALSE /\ frames = <<>>
  /\ irr = {} /\ inService = {}
  /\ obf = FALSE /\ queued = 0

Boot == pic8259_init \/ idt_init \/ console_init \/ keyboard_init

Handle == isr_irq_handler \/ eoi_slave \/ eoi_master \/ sti \/ iret

Devices == (\E irq \in Irqs : Raise(irq)) \/ Key \/ FillOutputBuffer

Next ==
  \/ Boot
  \/ \E irq \in Irqs : Deliver(irq)
  \/ \E irq \in Spurious : DeliverSpurious(irq)
  \/ Handle
  \/ Devices

Spec == Init /\ [][Next]_vars

(* The processor goes on, and looks for a request before each instruction: *)
(* one that is the first again and again is not passed over for ever.      *)
Fairness ==
  /\ WF_vars(Boot)
  /\ WF_vars(Handle)
  /\ \A irq \in Irqs : SF_vars(Deliver(irq))

FairSpec == Spec /\ Fairness

-----------------------------------------------------------------------------
Frame ==
  [int_no : 32..47, irq : 0..15, real : BOOLEAN,
   at : {"handler", "eoi", "eoi_master", "sti", "iret"}]

(* The number an interrupt has in the kernel is one that the controllers   *)
(* were given, never that of an exception.                                 *)
TypeOK ==
  /\ boot \in {"gdt_init", "pic8259_init", "idt_init", "console_init",
               "keyboard_init"}
  /\ g_interrupt_handlers \subseteq 0..255
  /\ enabled \in BOOLEAN /\ shadow \in BOOLEAN
  /\ frames \in Seq(Frame)
  /\ irr \subseteq 0..15 /\ inService \subseteq 0..15
  /\ obf \in BOOLEAN /\ queued \in Nat

(* No interrupt is taken while another is being handled, although the stub *)
(* enables interrupts before it returns: the stack does not grow, and a    *)
(* handler runs from its first access to its last as one step.             *)
NoNesting == Len(frames) <= 1

(* The in-service bits are those of the interrupt being handled whose end  *)
(* has not been sent yet, and no others: each end of interrupt clears its  *)
(* own, a spurious one clears nobody's, and when the kernel is back in the *)
(* main program no line is held up.                                        *)
OwnBitsOnly ==
  inService =
    IF frames = <<>> THEN {}
    ELSE CASE Top.at \in {"handler", "eoi"} -> Bits(Top.irq, Top.real)
           [] Top.at = "eoi_master" -> Bits(Top.irq, Top.real) \ 8..15
           [] OTHER -> {}

(* "invoke isr routine and send eoi to pic" (isr.c:83): a scan code whose  *)
(* interrupt the kernel has taken is read by the routine, so that the      *)
(* keyboard can send the next.                                             *)
KeyAnswered == At("handler") /\ Top.irq = IRQ1_KEYBOARD /\ obf ~> ~obf
=============================================================================
