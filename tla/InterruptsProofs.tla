-------------------------- MODULE InterruptsProofs --------------------------
(* Proofs about module Interrupts, for any devices, masks and spurious     *)
(* lines.                                                                  *)
EXTENDS Interrupts, SequenceTheorems, TLAPS

(* While an interrupt is handled the flag is clear, or sti is the latest   *)
(* instruction; its number is the one its line has been given.             *)
Gate == frames # <<>> => (enabled => shadow) /\ Top.int_no = 32 + Top.irq

(* Until the controllers have been initialised no interrupt is taken.      *)
Closed == boot \in {"gdt_init", "pic8259_init"} => ~enabled /\ frames = <<>>

IntInv == TypeOK /\ NoNesting /\ Gate /\ Closed /\ OwnBitsOnly

(* Lengths of frames, and of what iret leaves.                             *)
LEMMA LenZero ==
  ASSUME NEW S, NEW s \in Seq(S)
  PROVE  /\ Len(s) \in Nat /\ (s = <<>> <=> Len(s) = 0)
         /\ <<>> \in Seq(S) /\ SubSeq(s, 1, 0) = <<>>
  BY SMTT(20)

LEMMA OneFrame ==
  ASSUME TypeOK, NoNesting, frames # <<>>
  PROVE  Len(frames) = 1 /\ Top = frames[1] /\ Top \in Frame /\ DOMAIN frames = {1}
<1>1. frames \in Seq(Frame) /\ Len(frames) \in Nat /\ Len(frames) <= 1
  BY DEF TypeOK, NoNesting
<1>0. Len(frames) # 0
  <2>1. frames \in Seq(Frame) => (frames = <<>> <=> Len(frames) = 0)
    BY LenZero
  <2>2. QED
    BY <1>1, <2>1
<1>2. Len(frames) = 1
  <2>1. \A n \in Nat : n # 0 /\ n <= 1 => n = 1
    OBVIOUS
  <2>2. QED
    BY <1>0, <1>1, <2>1, Zenon
<1>3. QED
  BY <1>1, <1>2 DEF Top

(* One step further along its way the interrupt is the same one.           *)
LEMMA Moved ==
  ASSUME TypeOK, NoNesting, frames # <<>>,
         NEW step \in {"handler", "eoi", "eoi_master", "sti", "iret"}, MoveTo(step)
  PROVE  /\ frames' \in Seq(Frame) /\ Len(frames') = 1 /\ frames' # <<>>
         /\ Top' = [Top EXCEPT !.at = step]
         /\ Top'.at = step /\ Top'.irq = Top.irq /\ Top'.real = Top.real
         /\ Top'.int_no = Top.int_no
<1>1. Len(frames) = 1 /\ Top = frames[1] /\ Top \in Frame /\ DOMAIN frames = {1}
  BY OneFrame
<1>2. frames \in Seq(Frame)
  BY DEF TypeOK
<1>3. [Top EXCEPT !.at = step] \in Frame
  BY <1>1 DEF Frame
<1>4. frames' = [frames EXCEPT ![1] = [Top EXCEPT !.at = step]]
  BY <1>1 DEF MoveTo
<1>5. frames' \in Seq(Frame) /\ Len(frames') = 1 /\ frames'[1] = [Top EXCEPT !.at = step]
  BY <1>1, <1>2, <1>3, <1>4
<1>6. Top' = [Top EXCEPT !.at = step]
  BY <1>5 DEF Top
<1>7. frames' # <<>>
  <2>1. frames' \in Seq(Frame) => (frames' = <<>> <=> Len(frames') = 0)
    BY LenZero
  <2>2. Len(frames') # 0
    BY <1>5
  <2>3. QED
    BY <1>5, <2>1, <2>2, Zenon
<1>8. QED
  BY <1>1, <1>3, <1>5, <1>6, <1>7 DEF Frame

LEMMA BitsRange ==
  ASSUME NEW irq \in 0..15, NEW real \in BOOLEAN
  PROVE  Bits(irq, real) \subseteq 0..15
  BY DEF Bits, IRQ2_CASCADE

(* The two ends of interrupt clear first the slave's bit, then the         *)
(* master's.                                                               *)
LEMMA Ends ==
  ASSUME NEW irq \in 0..15, NEW real \in BOOLEAN
  PROVE  LET b == Bits(irq, real)
             m == b \ 8..15
         IN  /\ irq >= 8 => b \ Highest({s \in b : s >= 8}) = m
             /\ irq < 8 => b = m
             /\ m \ Highest({s \in m : s < 8}) = {}
<1> DEFINE b == Bits(irq, real)
           m == b \ 8..15
<1>1. CASE irq < 8
  <2>1. b = IF real THEN {irq} ELSE {}
    BY <1>1 DEF Bits
  <2>2. b = m
    BY <1>1, <2>1
  <2>3. Highest({s \in m : s < 8}) = m
    BY <1>1, <2>1, <2>2 DEF Highest
  <2>4. QED
    BY <1>1, <2>2, <2>3
<1>2. CASE irq >= 8
  <2>1. b = IF real THEN {irq, 2} ELSE {2}
    BY <1>2 DEF Bits, IRQ2_CASCADE
  <2>2. m = {2}
    BY <1>2, <2>1
  <2>3. Highest({s \in b : s >= 8}) = {s \in b : s >= 8}
    BY <1>2, <2>1 DEF Highest
  <2>4. Highest({s \in m : s < 8}) = {2}
    BY <2>2 DEF Highest
  <2>5. b \ {s \in b : s >= 8} = m
    BY <1>2, <2>1, <2>2
  <2>6. QED
    BY <1>2, <2>2, <2>3, <2>4, <2>5
<1>3. QED
  BY <1>1, <1>2

-----------------------------------------------------------------------------
LEMMA InitInv == Init => IntInv
<1> SUFFICES ASSUME Init PROVE IntInv
  OBVIOUS
<1>0. <<>> \in Seq(Frame)
  BY LenZero
<1>1. TypeOK
  BY <1>0 DEF Init, TypeOK
<1>2. NoNesting /\ Gate /\ Closed /\ OwnBitsOnly
  BY DEF Init, NoNesting, Gate, Closed, OwnBitsOnly
<1>3. QED
  BY <1>1, <1>2 DEF IntInv

(* kmain runs while no interrupt is being handled.                         *)
LEMMA BootInv ==
  ASSUME IntInv, Boot
  PROVE  IntInv'
<1>0. TypeOK /\ NoNesting /\ OwnBitsOnly /\ frames = <<>> /\ frames' = frames
  BY DEF IntInv, Boot, Main, pic8259_init, idt_init, console_init, keyboard_init, cpuVars
<1>1. inService = {}
  BY <1>0 DEF OwnBitsOnly
<1>2. inService' = {}
  BY <1>1 DEF Boot, pic8259_init, idt_init, console_init, keyboard_init, picVars
<1>3. boot' \in {"gdt_init", "pic8259_init", "idt_init", "console_init",
                 "keyboard_init"}
  BY DEF Boot, Main, pic8259_init, idt_init, console_init, keyboard_init
<1>4. g_interrupt_handlers' \subseteq 0..255
  <2>0. g_interrupt_handlers \subseteq 0..255
    BY <1>0 DEF TypeOK
  <2>1. CASE keyboard_init
    BY <2>0, <2>1 DEF keyboard_init, IRQ_BASE, IRQ1_KEYBOARD
  <2>2. CASE pic8259_init \/ idt_init \/ console_init
    BY <2>0, <2>2 DEF pic8259_init, idt_init, console_init
  <2>3. QED
    BY <2>1, <2>2 DEF Boot
<1>5. enabled' \in BOOLEAN /\ shadow' \in BOOLEAN /\ irr' \subseteq 0..15
  BY <1>0 DEF TypeOK, Boot, pic8259_init, idt_init, console_init, keyboard_init,
              cpuVars, picVars
<1>6. obf' \in BOOLEAN /\ queued' \in Nat
  BY <1>0 DEF TypeOK, Boot, pic8259_init, idt_init, console_init, keyboard_init, devVars
<1>7. TypeOK'
  BY <1>0, <1>2, <1>3, <1>5, <1>6, <1>4 DEF TypeOK
<1>8. Closed'
  <2>1. CASE pic8259_init
    <3>1. ~enabled
      BY <2>1 DEF IntInv, Closed, pic8259_init, Main
    <3>2. enabled' = enabled
      BY <2>1 DEF pic8259_init, cpuVars
    <3>3. QED
      BY <1>0, <3>1, <3>2 DEF Closed
  <2>2. CASE idt_init \/ console_init \/ keyboard_init
    BY <2>2 DEF idt_init, console_init, keyboard_init, Main, Closed
  <2>3. QED
    BY <2>1, <2>2 DEF Boot
<1>9. QED
  BY <1>0, <1>2, <1>7, <1>8 DEF IntInv, NoNesting, Gate, OwnBitsOnly

(* The gate is open only when no interrupt is being handled.               *)
LEMMA EnterInv ==
  ASSUME IntInv, NEW irq \in 0..15, NEW real \in BOOLEAN, Enter(irq, real),
         irr' \subseteq 0..15
  PROVE  IntInv'
<1> DEFINE f == [int_no |-> Vector(irq), irq |-> irq, real |-> real, at |-> "handler"]
<1>1. frames = <<>> /\ inService = {}
  BY DEF IntInv, Gate, OwnBitsOnly, Enter
<1>0. boot \notin {"gdt_init", "pic8259_init"} /\ boot' = boot
  BY DEF IntInv, Closed, Enter
<1>2. Vector(irq) = 32 + irq
  BY <1>0 DEF Vector
<1>3. f \in Frame
  BY <1>2 DEF Frame
<1>4. frames' = <<f>>
  BY <1>1 DEF Enter
<1>5. f.int_no = 32 + irq /\ f.irq = irq /\ f.real = real /\ f.at = "handler"
  BY <1>2
<1> HIDE DEF f
<1>6. /\ frames' \in Seq(Frame) /\ Len(frames') = 1 /\ frames' # <<>>
      /\ Top' = f
  BY <1>3, <1>4 DEF Top
<1>7. inService' = Bits(irq, real) /\ inService' \subseteq 0..15
  BY <1>1, BitsRange DEF Enter
<1>8. TypeOK'
  BY <1>6, <1>7 DEF IntInv, TypeOK, Enter, devVars
<1>9. NoNesting' /\ Gate'
  BY <1>5, <1>6 DEF NoNesting, Gate, Enter
<1>10. OwnBitsOnly'
  BY <1>5, <1>6, <1>7 DEF OwnBitsOnly
<1>11. Closed'
  BY <1>0 DEF Closed
<1>12. QED
  BY <1>8, <1>9, <1>10, <1>11 DEF IntInv

LEMMA HandleInv ==
  ASSUME IntInv, Handle
  PROVE  IntInv'
<1>0. TypeOK /\ NoNesting /\ Gate /\ OwnBitsOnly /\ frames # <<>>
  BY DEF IntInv, Handle, isr_irq_handler, eoi_slave, eoi_master, sti, iret, At
<1> DEFINE irq == Top.irq
           real == Top.real
<1>1. /\ Top \in Frame /\ irq \in 0..15 /\ real \in BOOLEAN
      /\ Top.int_no = 32 + irq /\ inService \subseteq 0..15
  BY <1>0, OneFrame DEF Frame, Gate, TypeOK
<1>8. Closed'
  <2>1. boot \notin {"gdt_init", "pic8259_init"}
    BY <1>0 DEF IntInv, Closed
  <2>2. boot' = boot
    BY DEF Handle, isr_irq_handler, eoi_slave, eoi_master, sti, iret
  <2>3. QED
    BY <2>1, <2>2 DEF Closed
<1>2. CASE isr_irq_handler
  <2>1. inService = Bits(irq, real)
    BY <1>0, <1>2 DEF OwnBitsOnly, isr_irq_handler, At
  <2>2. /\ frames' \in Seq(Frame) /\ Len(frames') = 1 /\ frames' # <<>>
        /\ Top'.at = "eoi" /\ Top'.irq = irq /\ Top'.real = real
        /\ Top'.int_no = Top.int_no
    BY <1>0, <1>2, Moved DEF isr_irq_handler
  <2>3. TypeOK'
    BY <1>0, <1>2, <2>2 DEF TypeOK, isr_irq_handler, picVars
  <2>4. NoNesting' /\ Gate'
    BY <1>0, <1>1, <1>2, <2>2 DEF NoNesting, Gate, isr_irq_handler
  <2>5. OwnBitsOnly'
    BY <1>2, <2>1, <2>2 DEF OwnBitsOnly, isr_irq_handler, picVars
  <2>6. QED
    BY <1>8, <2>3, <2>4, <2>5 DEF IntInv
<1>3. CASE eoi_slave
  <2>1. inService = Bits(irq, real)
    BY <1>0, <1>3 DEF OwnBitsOnly, eoi_slave, At
  <2>2. /\ frames' \in Seq(Frame) /\ Len(frames') = 1 /\ frames' # <<>>
        /\ Top'.at = "eoi_master" /\ Top'.irq = irq /\ Top'.real = real
        /\ Top'.int_no = Top.int_no
    BY <1>0, <1>3, Moved DEF eoi_slave
  <2>3. Top.int_no >= 40 <=> irq >= 8
    BY <1>1
  <2>4. inService' = Bits(irq, real) \ 8..15
    <3> HIDE DEF irq, real
    <3>1. CASE irq >= 8
      BY <1>1, <1>3, <2>1, <2>3, <3>1, Ends DEF eoi_slave, EndSlave
    <3>2. CASE irq < 8
      BY <1>1, <1>3, <2>1, <2>3, <3>2, Ends DEF eoi_slave
    <3>3. QED
      BY <1>1, <3>1, <3>2
  <2>5. TypeOK'
    BY <1>0, <1>1, <1>3, <2>1, <2>2, <2>4 DEF TypeOK, eoi_slave, devVars
  <2>6. NoNesting' /\ Gate'
    BY <1>0, <1>1, <1>3, <2>2 DEF NoNesting, Gate, eoi_slave
  <2>7. OwnBitsOnly'
    BY <2>2, <2>4 DEF OwnBitsOnly
  <2>8. QED
    BY <1>8, <2>5, <2>6, <2>7 DEF IntInv
<1>4. CASE eoi_master
  <2>1. inService = Bits(irq, real) \ 8..15
    BY <1>0, <1>4 DEF OwnBitsOnly, eoi_master, At
  <2>2. /\ frames' \in Seq(Frame) /\ Len(frames') = 1 /\ frames' # <<>>
        /\ Top'.at = "sti" /\ Top'.irq = irq /\ Top'.real = real
        /\ Top'.int_no = Top.int_no
    BY <1>0, <1>4, Moved DEF eoi_master
  <2>3. inService' = {}
    BY <1>1, <1>4, <2>1, Ends DEF eoi_master, EndMaster
  <2>4. TypeOK'
    BY <1>0, <1>4, <2>2, <2>3 DEF TypeOK, eoi_master, devVars
  <2>5. NoNesting' /\ Gate'
    BY <1>0, <1>1, <1>4, <2>2 DEF NoNesting, Gate, eoi_master
  <2>6. OwnBitsOnly'
    BY <2>2, <2>3 DEF OwnBitsOnly
  <2>7. QED
    BY <1>8, <2>4, <2>5, <2>6 DEF IntInv
<1>5. CASE sti
  <2>1. inService = {}
    BY <1>0, <1>5 DEF OwnBitsOnly, sti, At
  <2>2. /\ frames' \in Seq(Frame) /\ Len(frames') = 1 /\ frames' # <<>>
        /\ Top'.at = "iret" /\ Top'.irq = irq /\ Top'.real = real
        /\ Top'.int_no = Top.int_no
    BY <1>0, <1>5, Moved DEF sti
  <2>3. TypeOK'
    BY <1>0, <1>5, <2>2 DEF TypeOK, sti, picVars, devVars
  <2>4. NoNesting' /\ Gate'
    BY <1>1, <1>5, <2>2 DEF NoNesting, Gate, sti
  <2>5. OwnBitsOnly'
    BY <1>5, <2>1, <2>2 DEF OwnBitsOnly, sti, picVars
  <2>6. QED
    BY <1>8, <2>3, <2>4, <2>5 DEF IntInv
<1>6. CASE iret
  <2>1. inService = {}
    BY <1>0, <1>6 DEF OwnBitsOnly, iret, At
  <2>2. frames' = <<>> /\ frames' \in Seq(Frame)
    <3>1. Len(frames) = 1 /\ frames \in Seq(Frame)
      BY <1>0, OneFrame DEF TypeOK
    <3>2. frames' = SubSeq(frames, 1, 0)
      BY <1>6, <3>1 DEF iret
    <3>3. QED
      BY <3>1, <3>2, LenZero
  <2>3. TypeOK'
    BY <1>0, <1>6, <2>2 DEF TypeOK, iret, picVars, devVars
  <2>4. NoNesting' /\ Gate'
    BY <2>2 DEF NoNesting, Gate
  <2>5. OwnBitsOnly'
    BY <1>6, <2>1, <2>2 DEF OwnBitsOnly, iret, picVars
  <2>6. QED
    BY <1>8, <2>3, <2>4, <2>5 DEF IntInv
<1>7. QED
  BY <1>2, <1>3, <1>4, <1>5, <1>6 DEF Handle

(* Devices only ask.                                                       *)
LEMMA DevicesInv ==
  ASSUME IntInv, Devices
  PROVE  IntInv'
<1>1. UNCHANGED <<boot, g_interrupt_handlers, cpuVars, inService>>
  BY DEF Devices, Raise, Key, FillOutputBuffer, picVars
<1>0. TypeOK
  BY DEF IntInv
<1>2. irr' \subseteq 0..15
  <2>0. irr \subseteq 0..15
    BY <1>0 DEF TypeOK
  <2>1. ASSUME NEW irq \in Irqs, Raise(irq)
        PROVE  irr' \subseteq 0..15
    BY <2>0, <2>1, InterruptsAssumption DEF Raise
  <2>2. CASE Key
    BY <2>0, <2>2 DEF Key, picVars
  <2>3. CASE FillOutputBuffer
    BY <2>0, <2>3 DEF FillOutputBuffer, IRQ1_KEYBOARD
  <2>4. QED
    BY <2>1, <2>2, <2>3 DEF Devices
<1>3. obf' \in BOOLEAN /\ queued' \in Nat
  <2>1. CASE \E irq \in Irqs : Raise(irq)
    BY <1>0, <2>1 DEF TypeOK, Raise, devVars
  <2>2. CASE Key
    BY <1>0, <2>2 DEF TypeOK, Key
  <2>3. CASE FillOutputBuffer
    BY <1>0, <2>3 DEF TypeOK, FillOutputBuffer
  <2>4. QED
    BY <2>1, <2>2, <2>3 DEF Devices
<1>4. TypeOK'
  BY <1>1, <1>2, <1>3 DEF IntInv, TypeOK, cpuVars
<1>5. NoNesting' /\ Gate' /\ Closed' /\ OwnBitsOnly'
  BY <1>1 DEF IntInv, NoNesting, Gate, Closed, OwnBitsOnly, Top, cpuVars
<1>6. QED
  BY <1>4, <1>5 DEF IntInv

LEMMA NextInv == IntInv /\ [Next]_vars => IntInv'
<1> SUFFICES ASSUME IntInv, [Next]_vars
             PROVE  IntInv'
  OBVIOUS
<1>1. CASE Boot
  BY <1>1, BootInv
<1>2. ASSUME NEW irq \in Irqs, Deliver(irq)
      PROVE  IntInv'
  <2>1. irq \in 0..15
    BY InterruptsAssumption
  <2>2. irr \subseteq 0..15
    BY DEF IntInv, TypeOK
  <2>3. Enter(irq, TRUE) /\ irr' \subseteq 0..15
    BY <1>2, <2>2 DEF Deliver
  <2>4. QED
    BY <2>1, <2>3, EnterInv
<1>3. ASSUME NEW irq \in Spurious, DeliverSpurious(irq)
      PROVE  IntInv'
  <2>1. irq \in 0..15
    BY InterruptsAssumption
  <2>2. irr \subseteq 0..15
    BY DEF IntInv, TypeOK
  <2>3. Enter(irq, FALSE) /\ irr' \subseteq 0..15
    BY <1>3, <2>2 DEF DeliverSpurious
  <2>4. QED
    BY <2>1, <2>3, EnterInv
<1>4. CASE Handle
  BY <1>4, HandleInv
<1>5. CASE Devices
  BY <1>5, DevicesInv
<1>6. CASE UNCHANGED vars
  BY <1>6 DEF IntInv, TypeOK, NoNesting, Gate, Closed, OwnBitsOnly, Top, vars, cpuVars, picVars,
              devVars
<1>7. QED
  BY <1>1, <1>2, <1>3, <1>4, <1>5, <1>6 DEF Next

-----------------------------------------------------------------------------
(* Every number an interrupt has in the kernel is one of 32 to 47: no      *)
(* interrupt is taken before pic8259_init has given the controllers their  *)
(* numbers (8259_pic.c:25-28), whatever they have latched by then.         *)
THEOREM NumbersMapped == Spec => []TypeOK
<1>1. IntInv => TypeOK
  BY DEF IntInv
<1>2. QED
  BY <1>1, InitInv, NextInv, PTL DEF Spec

(* No interrupt is taken while another is being handled (irq.asm, idt.c),  *)
(* whatever devices do.                                                    *)
THEOREM HandlersDoNotNest == Spec => []NoNesting
<1>1. IntInv => NoNesting
  BY DEF IntInv
<1>2. QED
  BY <1>1, InitInv, NextInv, PTL DEF Spec

(* pic8259_eoi clears the bits of the interrupt being handled and no       *)
(* other's, spurious interrupts included.                                  *)
THEOREM EndsOwnInterrupt == Spec => []OwnBitsOnly
<1>1. IntInv => OwnBitsOnly
  BY DEF IntInv
<1>2. QED
  BY <1>1, InitInv, NextInv, PTL DEF Spec
=============================================================================
