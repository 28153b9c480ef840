-------------------------- MODULE ExceptionsProofs --------------------------
(* Proofs about module Exceptions, for any devices and any exceptions: the *)
(* interrupt path keeps its invariant beside them, and their own says what *)
(* is on the stack at each step of the stub.                               *)
EXTENDS Exceptions, InterruptsProofs


Regs == {"ds", "edi", "esi", "ebp", "esp", "ebx", "edx", "ecx", "eax", "eip", "cs"}

Words == [of : Regs \union {"int_no", "err_code", "eflags"}, val : Int]

ExcTypeOK ==
  /\ exc \in {"none", "stub", "handler", "restore", "sti", "iret", "halted"}
  /\ number \in 0..31
  /\ stack \in Seq(Words)
  /\ regs \in [Regs -> Int]
  /\ saved \in [enabled : BOOLEAN, shadow : BOOLEAN]
  /\ enabled \in BOOLEAN /\ shadow \in BOOLEAN

(* What the processor pushed for a program, of which eip is on top.        *)
FromProgram(s, i) ==
  /\ s[i] = Word("eip", PROGRAM) /\ s[i + 1] = Word("cs", PROGRAM)
  /\ s[i + 2] = Word("eflags", Flag(saved.enabled))

Keeps == \A r \in Regs \ {"eax", "eip", "cs"} : regs[r] = PROGRAM

(* No interrupt is taken while an exception is handled, which happens only *)
(* once the table of gates is loaded.                                      *)
Quiet ==
  exc # "none" => (enabled => shadow) /\ boot \notin {"gdt_init", "pic8259_init"}

(* Nothing is left of an exception that has been handled but eax.          *)
Free ==
  exc = "none" =>
    /\ stack = <<>> /\ Keeps /\ regs["eip"] = PROGRAM /\ regs["cs"] = PROGRAM
    /\ shadow => frames # <<>>

(* The way of an exception that is handled.                                *)
InProgram ==
  exc # "none" /\ number \in Handled =>
    /\ exc # "halted"
    /\ ~saved.shadow /\ frames = <<>>
    /\ exc \in {"stub", "sti", "iret"} =>
         Len(stack) = 3 /\ FromProgram(stack, 1) /\ Keeps
    /\ exc \in {"sti", "iret"} => regs["eax"] = CR0
    /\ exc \in {"handler", "restore"} =>
         /\ Len(stack) = 14 /\ FromProgram(stack, 12)
         /\ stack[10] = Word("int_no", number) /\ stack[11] = Word("err_code", 0)
         /\ \A i \in 1..9 : stack[i].of = REGISTERS[i]
         /\ \A i \in 1..8 : stack[i].val = PROGRAM
         /\ regs["esp"] = PROGRAM

(* What is on top of the stack when the stub is entered.                   *)
Pushed(s) ==
  LET n == IF number \in WithErrorCode THEN 1 ELSE 0
  IN  /\ Len(s) >= 3 + n
      /\ number \in WithErrorCode => s[1].of = "err_code"
      /\ s[n + 1].of = "eip" /\ s[n + 2].of = "cs" /\ s[n + 3].of = "eflags"

(* The way of an exception that is not.                                    *)
InKernel ==
  exc # "none" /\ number \notin Handled =>
    /\ exc \in {"stub", "handler", "halted"}
    /\ exc = "stub" => Pushed(stack)
    /\ exc = "handler" =>
         /\ Len(stack) >= 14 /\ \A i \in 1..14 : stack[i].of = REGISTERS[i]
         /\ stack[10].val = number

ExcInv == IntInv /\ ExcTypeOK /\ Quiet /\ Free /\ InProgram /\ InKernel

-----------------------------------------------------------------------------
LEMMA ConcatAt ==
  ASSUME NEW s \in Seq(Words), NEW t \in Seq(Words)
  PROVE  /\ s \o t \in Seq(Words) /\ Len(s \o t) = Len(s) + Len(t)
         /\ \A i \in 1..Len(s) : (s \o t)[i] = s[i]
         /\ \A i \in 1..Len(t) : (s \o t)[Len(s) + i] = t[i]
  OBVIOUS

LEMMA One ==
  ASSUME NEW S, NEW w \in S
  PROVE  <<w>> \in Seq(S) /\ Len(<<w>>) = 1 /\ <<w>>[1] = w
  OBVIOUS

LEMMA WordFields == \A of, val : Word(of, val).of = of /\ Word(of, val).val = val
  BY DEF Word

LEMMA Names ==
  /\ REGISTERS[1] = "ds" /\ REGISTERS[2] = "edi" /\ REGISTERS[3] = "esi"
  /\ REGISTERS[4] = "ebp" /\ REGISTERS[5] = "esp" /\ REGISTERS[6] = "ebx"
  /\ REGISTERS[7] = "edx" /\ REGISTERS[8] = "ecx" /\ REGISTERS[9] = "eax"
  /\ REGISTERS[10] = "int_no" /\ REGISTERS[11] = "err_code" /\ REGISTERS[12] = "eip"
  /\ REGISTERS[13] = "cs" /\ REGISTERS[14] = "eflags"
  /\ REGISTERS[15] = "useresp" /\ REGISTERS[16] = "ss"
  /\ DOMAIN REGISTERS = 1..16
  BY DEF REGISTERS

LEMMA GeneralNames == \A i \in 1..8 : General[i] = REGISTERS[i + 1]
  BY DEF General, REGISTERS

(* The nine registers saved are different ones, and all there are but eip  *)
(* and cs.                                                                 *)
LEMMA NineRegisters ==
  /\ \A i \in 1..9 : REGISTERS[i] \in Regs
  /\ \A r \in Regs \ {"eip", "cs"} : \E i \in 1..9 : r = REGISTERS[i]
  /\ \A i, j \in 1..9 : REGISTERS[i] = REGISTERS[j] => i = j
<1> DEFINE R == REGISTERS
<1>1. /\ R[1] = "ds" /\ R[2] = "edi" /\ R[3] = "esi" /\ R[4] = "ebp" /\ R[5] = "esp"
      /\ R[6] = "ebx" /\ R[7] = "edx" /\ R[8] = "ecx" /\ R[9] = "eax"
  BY Names
<1> HIDE DEF R
<1>2. \A i \in 1..9 : R[i] \in Regs
  BY <1>1 DEF Regs
<1>3. \A r \in Regs \ {"eip", "cs"} : \E i \in 1..9 : r = R[i]
  BY <1>1 DEF Regs
<1>4. \A i, j \in 1..9 : R[i] = R[j] => i = j
  BY <1>1
<1>5. QED
  BY <1>2, <1>3, <1>4 DEF R

(* What the entry of a number and exception_handler push.                  *)
LEMMA StubPushes ==
  ASSUME ExcTypeOK, exception_n
  PROVE  LET n == IF number \in NoDefault THEN 10 ELSE 11
         IN  /\ stack' \in Seq(Words) /\ Len(stack') = n + Len(stack)
             /\ \A i \in 1..9 : stack'[i] = Word(REGISTERS[i], regs[REGISTERS[i]])
             /\ stack'[10] = Word("int_no", number)
             /\ number \notin NoDefault => stack'[11] = Word("err_code", 0)
             /\ \A i \in 1..Len(stack) : stack'[n + i] = stack[i]
<1> DEFINE a == <<Word("ds", regs["ds"])>>
           g == [i \in 1..8 |-> Word(General[i], regs[General[i]])]
           b == <<Word("int_no", number)>>
           c == IF number \in NoDefault THEN <<>> ELSE <<Word("err_code", 0)>>
           ag == a \o g
           agb == ag \o b
           agbc == agb \o c
           s == stack
<1>0. stack' = agbc \o s
  BY DEF exception_n
<1>1. /\ regs["ds"] \in Int /\ number \in Int
      /\ \A i \in 1..9 : regs[REGISTERS[i]] \in Int /\ REGISTERS[i] \in Regs
  <2>1. number \in 0..31 /\ regs \in [Regs -> Int]
    BY DEF ExcTypeOK
  <2>2. "ds" \in Regs
    BY DEF Regs
  <2>3. QED
    BY <2>1, <2>2, NineRegisters
<1>2. a \in Seq(Words) /\ Len(a) = 1 /\ a[1] = Word(REGISTERS[1], regs[REGISTERS[1]])
  <2>1. Word("ds", regs["ds"]) \in Words
    BY <1>1 DEF Word, Words, Regs
  <2>2. QED
    BY <2>1, Names, One
<1>3. g \in Seq(Words) /\ Len(g) = 8 /\ \A i \in 1..8 : g[i] = Word(REGISTERS[i + 1], regs[REGISTERS[i + 1]])
  <2>1. \A i \in 1..8 : i + 1 \in 1..9 /\ General[i] = REGISTERS[i + 1]
    BY GeneralNames
  <2>2. \A i \in 1..8 : Word(General[i], regs[General[i]]) \in Words
    BY <1>1, <2>1 DEF Word, Words
  <2>3. QED
    BY <2>1, <2>2
<1>4. b \in Seq(Words) /\ Len(b) = 1 /\ b[1] = Word("int_no", number)
  <2>1. Word("int_no", number) \in Words
    BY <1>1 DEF Word, Words
  <2>2. QED
    BY <2>1, One
<1>5. /\ c \in Seq(Words) /\ Len(c) = (IF number \in NoDefault THEN 0 ELSE 1)
      /\ number \notin NoDefault => c[1] = Word("err_code", 0)
  <2>1. Word("err_code", 0) \in Words
    BY DEF Word, Words
  <2>2. QED
    BY <2>1, One
<1>6. s \in Seq(Words) /\ Len(s) \in Nat
  BY DEF ExcTypeOK
<1> HIDE DEF a, g, b, c, s
<1>7. /\ ag \in Seq(Words) /\ Len(ag) = 9
      /\ \A i \in 1..9 : ag[i] = Word(REGISTERS[i], regs[REGISTERS[i]])
  <2>1. ag \in Seq(Words) /\ Len(ag) = 9 /\ ag[1] = a[1] /\ \A i \in 1..8 : ag[1 + i] = g[i]
    <3>1. /\ ag \in Seq(Words) /\ Len(ag) = 1 + 8
          /\ \A i \in 1..1 : ag[i] = a[i]
          /\ \A i \in 1..8 : ag[1 + i] = g[i]
      <4>1. /\ ag \in Seq(Words) /\ Len(ag) = Len(a) + Len(g)
            /\ \A i \in 1..Len(a) : ag[i] = a[i]
            /\ \A i \in 1..Len(g) : ag[Len(a) + i] = g[i]
        BY <1>2, <1>3, ConcatAt, Zenon DEF ag
      <4>2. QED
        BY <1>2, <1>3, <4>1
    <3>2. 1 \in 1..1 /\ 1 + 8 = 9
      OBVIOUS
    <3>3. ag[1] = a[1] /\ Len(ag) = 9
      BY <3>1, <3>2
    <3>4. QED
      BY <3>1, <3>3, Zenon
  <2>2. ASSUME NEW i \in 1..9, i # 1
        PROVE  ag[i] = Word(REGISTERS[i], regs[REGISTERS[i]])
    <3>1. i - 1 \in 1..8 /\ 1 + (i - 1) = i /\ (i - 1) + 1 = i
      BY <2>2
    <3>2. QED
      BY <1>3, <2>1, <3>1, ZenonT(60)
  <2>3. QED
    BY <1>2, <2>1, <2>2
<1> HIDE DEF ag
<1>8. /\ agb \in Seq(Words) /\ Len(agb) = 10 /\ agb[10] = Word("int_no", number)
      /\ \A i \in 1..9 : agb[i] = ag[i]
  <2>1. /\ agb \in Seq(Words) /\ Len(agb) = 9 + 1
        /\ \A i \in 1..9 : agb[i] = ag[i]
        /\ \A i \in 1..1 : agb[9 + i] = b[i]
    <3>1. /\ agb \in Seq(Words) /\ Len(agb) = Len(ag) + Len(b)
          /\ \A i \in 1..Len(ag) : agb[i] = ag[i]
          /\ \A i \in 1..Len(b) : agb[Len(ag) + i] = b[i]
      BY <1>4, <1>7, ConcatAt, Zenon DEF agb
    <3>2. QED
      BY <1>4, <1>7, <3>1
  <2>2. agb[10] = b[1]
    <3>1. 1 \in 1..1 /\ 9 + 1 = 10
      OBVIOUS
    <3>2. QED
      BY <2>1, <3>1
  <2>3. Len(agb) = 10
    BY <2>1
  <2>4. QED
    BY <1>4, <2>1, <2>2, <2>3, Zenon
<1> HIDE DEF agb
<1>9. /\ agbc \in Seq(Words) /\ Len(agbc) = (IF number \in NoDefault THEN 10 ELSE 11)
      /\ \A i \in 1..10 : agbc[i] = agb[i]
      /\ number \notin NoDefault => agbc[11] = Word("err_code", 0)
  <2> DEFINE n == IF number \in NoDefault THEN 0 ELSE 1
  <2>1. n \in Nat /\ 10 \in Nat
    OBVIOUS
  <2>2. Len(c) = n
    BY <1>5
  <2>3. /\ agbc \in Seq(Words) /\ Len(agbc) = 10 + n
        /\ \A i \in 1..10 : agbc[i] = agb[i]
        /\ \A i \in 1..n : agbc[10 + i] = c[i]
    <3> HIDE DEF n
    <3>1. /\ agbc \in Seq(Words) /\ Len(agbc) = Len(agb) + Len(c)
          /\ \A i \in 1..Len(agb) : agbc[i] = agb[i]
          /\ \A i \in 1..Len(c) : agbc[Len(agb) + i] = c[i]
      BY <1>5, <1>8, ConcatAt, Zenon DEF agbc
    <3>2. QED
      BY <1>8, <2>2, <3>1
  <2>4. number \notin NoDefault => agbc[10 + 1] = c[1]
    BY <2>3
  <2>5. number \notin NoDefault => agbc[11] = Word("err_code", 0)
    <3>1. 10 + 1 = 11
      OBVIOUS
    <3>2. QED
      BY <1>5, <2>4, <3>1
  <2>6. Len(agbc) = IF number \in NoDefault THEN 10 ELSE 11
    BY <2>3
  <2>7. QED
    BY <2>3, <2>5, <2>6, Zenon
<1> HIDE DEF agbc
<1>10. /\ stack' \in Seq(Words) /\ Len(stack') = Len(agbc) + Len(s)
       /\ \A i \in 1..Len(agbc) : stack'[i] = agbc[i]
       /\ \A i \in 1..Len(s) : stack'[Len(agbc) + i] = s[i]
  <2>1. Len(agbc) \in Nat
    BY <1>9
  <2>2. QED
    BY <1>0, <1>6, <1>9, <2>1, ConcatAt, ZenonT(60)
<1>11. \A i \in 1..10 : stack'[i] = agb[i]
  <2>1. \A i \in 1..10 : i \in 1..Len(agbc)
    BY <1>9
  <2>2. QED
    BY <1>9, <1>10, <2>1
<1>12. number \notin NoDefault => stack'[11] = Word("err_code", 0)
  <2>1. number \notin NoDefault => 11 \in 1..Len(agbc)
    BY <1>9
  <2>2. QED
    BY <1>9, <1>10, <2>1
<1>13. \A i \in 1..9 : stack'[i] = Word(REGISTERS[i], regs[REGISTERS[i]])
  BY <1>7, <1>8, <1>11
<1>14. stack'[10] = Word("int_no", number)
  BY <1>8, <1>11
<1> DEFINE n == IF number \in NoDefault THEN 10 ELSE 11
<1>15. Len(agbc) = n
  BY <1>9
<1> HIDE DEF n
<1>16. /\ stack' \in Seq(Words) /\ Len(stack') = n + Len(stack)
       /\ \A i \in 1..Len(stack) : stack'[n + i] = stack[i]
  BY <1>10, <1>15, Zenon DEF s
<1>17. QED
  BY <1>12, <1>13, <1>14, <1>16, Zenon DEF n

-----------------------------------------------------------------------------
(* An exception leaves the interrupt path alone but for the flag.          *)
LEMMA Untouched ==
  ASSUME IntInv, UNCHANGED <<boot, g_interrupt_handlers, frames, picVars, devVars>>,
         enabled' \in BOOLEAN, shadow' \in BOOLEAN,
         frames # <<>> => (enabled' => shadow'),
         boot \notin {"gdt_init", "pic8259_init"}
  PROVE  IntInv'
<1>1. TypeOK'
  BY DEF IntInv, TypeOK, picVars, devVars
<1>2. NoNesting' /\ Gate' /\ Closed' /\ OwnBitsOnly'
  BY DEF IntInv, NoNesting, Gate, Closed, OwnBitsOnly, Top, picVars
<1>3. QED
  BY <1>1, <1>2 DEF IntInv

LEMMA ExcInitInv == ExcInit => ExcInv
<1> SUFFICES ASSUME ExcInit PROVE ExcInv
  OBVIOUS
<1>1. IntInv
  BY InitInv DEF ExcInit
<1>2. regs = [r \in Regs |-> PROGRAM]
  <2>1. {REGISTERS[i] : i \in 1..9} \union {"eip", "cs"} = Regs
    BY NineRegisters DEF Regs
  <2>2. QED
    BY <2>1 DEF ExcInit
<1>3. ExcTypeOK
  <2>1. regs \in [Regs -> Int]
    BY <1>2 DEF PROGRAM
  <2>2. <<>> \in Seq(Words) /\ 0 \in 0..31
    BY LenZero
  <2>3. QED
    BY <2>1, <2>2 DEF ExcInit, Init, ExcTypeOK
<1>4. Quiet /\ InProgram /\ InKernel
  BY DEF ExcInit, Quiet, InProgram, InKernel
<1>5. Free
  <2>1. Keeps /\ regs["eip"] = PROGRAM /\ regs["cs"] = PROGRAM
    BY <1>2 DEF Keeps, Regs
  <2>2. QED
    BY <2>1 DEF ExcInit, Init, Free
<1>6. QED
  BY <1>1, <1>3, <1>4, <1>5 DEF ExcInv

(* While an exception is handled the kernel's own code stands still, and   *)
(* no interrupt is taken.                                                  *)
LEMMA KernelStill ==
  ASSUME ExcInv, Kernel, exc # "none"
  PROVE  Devices /\ UNCHANGED cpuVars
<1>1. ~Enter(0, TRUE) /\ \A irq, real : ~Enter(irq, real)
  BY DEF ExcInv, Quiet, Enter
<1>2. Devices
  BY <1>1 DEF Kernel, Deliver, DeliverSpurious
<1>3. QED
  BY <1>2 DEF Devices, Raise, Key, FillOutputBuffer

(* The shadow of sti falls on the iret of an interrupt only.               *)
LEMMA ShadowInFrame ==
  ASSUME IntInv, Kernel, exc = "none", shadow => frames # <<>>
  PROVE  /\ enabled \in BOOLEAN /\ enabled' \in BOOLEAN /\ shadow' \in BOOLEAN
         /\ shadow' => frames' # <<>>
<1>1. CASE Boot
  <2>1. shadow' = shadow /\ (enabled' = enabled \/ enabled' = TRUE) /\ frames = <<>>
    BY <1>1 DEF Boot, Main, pic8259_init, idt_init, console_init, keyboard_init, cpuVars
  <2>2. enabled \in BOOLEAN /\ shadow \in BOOLEAN
    BY DEF IntInv, TypeOK
  <2>3. QED
    BY <2>1, <2>2
<1>2. CASE \/ \E irq \in Irqs : Deliver(irq)
           \/ \E irq \in Spurious : DeliverSpurious(irq)
  <2>1. \E irq, real : Enter(irq, real)
    BY <1>2 DEF Deliver, DeliverSpurious
  <2>2. enabled' = FALSE /\ shadow' = shadow /\ ~shadow
    BY <2>1 DEF Enter
  <2>3. enabled \in BOOLEAN /\ shadow \in BOOLEAN
    BY DEF IntInv, TypeOK
  <2>4. QED
    BY <2>2, <2>3
<1>3. CASE Handle
  <2>1. CASE iret
    BY <2>1 DEF IntInv, TypeOK, iret
  <2>2. CASE isr_irq_handler \/ eoi_slave \/ eoi_master \/ sti
    <3>1. frames' # <<>>
      BY <2>2, Moved DEF IntInv, isr_irq_handler, eoi_slave, eoi_master, sti, At
    <3>2. QED
      BY <2>2, <3>1 DEF IntInv, TypeOK, isr_irq_handler, eoi_slave, eoi_master, sti
  <2>3. QED
    BY <1>3, <2>1, <2>2 DEF Handle
<1>4. CASE Devices
  BY <1>4 DEF IntInv, TypeOK, Devices, Raise, Key, FillOutputBuffer, cpuVars
<1>5. QED
  BY <1>1, <1>2, <1>3, <1>4 DEF Kernel

LEMMA KernelInv ==
  ASSUME ExcInv, Kernel, UNCHANGED excVars
  PROVE  ExcInv'
<1>1. IntInv'
  BY NextInv DEF ExcInv, Kernel, Next
<1>2. CASE exc = "none"
  <2>1. enabled' \in BOOLEAN /\ shadow' \in BOOLEAN /\ (shadow' => frames' # <<>>)
    BY <1>2, ShadowInFrame DEF ExcInv, Free
  <2>2. QED
    BY <1>1, <1>2, <2>1 DEF ExcInv, ExcTypeOK, Quiet, Free, InProgram, InKernel, Keeps,
                            excVars
<1>3. CASE exc # "none"
  <2>1. UNCHANGED <<boot, enabled, shadow, frames>>
    BY <1>3, KernelStill DEF cpuVars, Devices, Raise, Key, FillOutputBuffer
  <2>2. ExcTypeOK' /\ Quiet' /\ Free'
    BY <1>3, <2>1 DEF ExcInv, ExcTypeOK, Quiet, Free, excVars
  <2>3. InProgram'
    BY <2>1 DEF ExcInv, InProgram, FromProgram, Keeps, excVars
  <2>4. InKernel'
    BY <2>1 DEF ExcInv, InKernel, Pushed, excVars
  <2>5. QED
    BY <1>1, <2>2, <2>3, <2>4 DEF ExcInv
<1>4. QED
  BY <1>2, <1>3

-----------------------------------------------------------------------------
(* The steps of the stub.                                                  *)
LEMMA RaiseInv ==
  ASSUME ExcInv, NEW n \in Exceptions, RaiseException(n)
  PROVE  ExcInv'
<1> DEFINE e == IF n \in WithErrorCode THEN <<Word("err_code", ERROR)>> ELSE <<>>
           p == << Word("eip", regs["eip"]), Word("cs", regs["cs"]),
                   Word("eflags", Flag(enabled)) >>
           ep == e \o p
           k == IF n \in WithErrorCode THEN 1 ELSE 0
<1>1. /\ n \in 0..31 /\ regs["eip"] \in Int /\ regs["cs"] \in Int
      /\ regs \in [Regs -> Int] /\ stack \in Seq(Words) /\ enabled \in BOOLEAN
      /\ shadow \in BOOLEAN /\ saved \in [enabled : BOOLEAN, shadow : BOOLEAN]
  BY ExceptionsAssumption DEF ExcInv, ExcTypeOK, Regs
<1>2. /\ stack' = ep \o stack /\ exc' = "stub" /\ number' = n
      /\ regs' = [regs EXCEPT !["eip"] = KERNEL, !["cs"] = KERNEL]
      /\ saved' = IF exc = "none" THEN [enabled |-> enabled, shadow |-> shadow] ELSE saved
      /\ enabled' = FALSE /\ shadow' = FALSE
      /\ UNCHANGED <<boot, g_interrupt_handlers, frames, picVars, devVars>>
  BY Zenon DEF RaiseException
<1>3. p \in Seq(Words) /\ Len(p) = 3
  <2>1. Word("eip", regs["eip"]) \in Words /\ Word("cs", regs["cs"]) \in Words
    BY <1>1 DEF Word, Words, Regs
  <2>2. Flag(enabled) \in Int
    BY DEF Flag
  <2>3. Word("eflags", Flag(enabled)) \in Words
    BY <2>2 DEF Word, Words
  <2>4. QED
    BY <2>1, <2>3
<1>4. /\ p[1] = Word("eip", regs["eip"]) /\ p[2] = Word("cs", regs["cs"])
      /\ p[3] = Word("eflags", Flag(enabled))
  OBVIOUS
<1>5. /\ e \in Seq(Words) /\ Len(e) = k
      /\ n \in WithErrorCode => e[1].of = "err_code"
      /\ n \notin WithErrorCode => e = <<>>
  <2>1. Word("err_code", ERROR) \in Words /\ Word("err_code", ERROR).of = "err_code"
    BY DEF Word, Words, ERROR
  <2>2. QED
    BY <2>1, One, LenZero
<1>6. k \in {0, 1} /\ (n \in WithErrorCode <=> k = 1)
  OBVIOUS
<1> HIDE DEF e, p, k
<1>7. /\ ep \in Seq(Words) /\ Len(ep) = k + 3
      /\ \A i \in 1..k : ep[i] = e[i]
      /\ ep[k + 1] = p[1] /\ ep[k + 2] = p[2] /\ ep[k + 3] = p[3]
  <2>1. /\ ep \in Seq(Words) /\ Len(ep) = Len(e) + Len(p)
        /\ \A i \in 1..Len(e) : ep[i] = e[i]
        /\ \A i \in 1..Len(p) : ep[Len(e) + i] = p[i]
    BY <1>3, <1>5, ConcatAt, Zenon
  <2>2. 1 \in 1..3 /\ 2 \in 1..3 /\ 3 \in 1..3
    OBVIOUS
  <2>3. QED
    BY <1>3, <1>5, <2>1, <2>2
<1> HIDE DEF ep
<1>8. /\ stack' \in Seq(Words) /\ Len(stack') = k + 3 + Len(stack)
      /\ \A i \in 1..k + 3 : stack'[i] = ep[i]
  <2>1. /\ stack' \in Seq(Words) /\ Len(stack') = Len(ep) + Len(stack)
        /\ \A i \in 1..Len(ep) : stack'[i] = ep[i]
    BY <1>1, <1>2, <1>7, ConcatAt, Zenon
  <2>2. QED
    BY <1>7, <2>1
<1>9. /\ k = 1 => stack'[1] = e[1]
      /\ stack'[k + 1] = p[1] /\ stack'[k + 2] = p[2] /\ stack'[k + 3] = p[3]
  BY <1>6, <1>7, <1>8
<1>10. IntInv'
  <2>1. IntInv /\ enabled' \in BOOLEAN /\ shadow' \in BOOLEAN /\ ~enabled'
    BY <1>2 DEF ExcInv
  <2>2. boot \notin {"gdt_init", "pic8259_init"}
    BY DEF RaiseException
  <2>3. QED
    BY <1>2, <2>1, <2>2, Untouched, Zenon
<1>11. regs' \in [Regs -> Int] /\ \A r \in Regs \ {"eip", "cs"} : regs'[r] = regs[r]
  <2>1. KERNEL \in Int
    BY DEF KERNEL
  <2>2. QED
    BY <1>1, <1>2, <2>1
<1>12. ExcTypeOK'
  BY <1>1, <1>2, <1>8, <1>11 DEF ExcTypeOK
<1>13. Quiet' /\ Free'
  <2>1. boot \notin {"gdt_init", "pic8259_init"}
    BY DEF RaiseException
  <2>2. QED
    BY <1>2, <2>1 DEF Quiet, Free
<1>14. InProgram'
  <2> SUFFICES ASSUME n \in Handled
               PROVE  InProgram'
    BY <1>2 DEF InProgram
  <2>1. exc = "none" /\ frames = <<>>
    BY DEF RaiseException
  <2>2. n \notin WithErrorCode /\ k = 0
    BY <1>6 DEF Handled, WithErrorCode
  <2>3. /\ stack = <<>> /\ Keeps /\ regs["eip"] = PROGRAM /\ regs["cs"] = PROGRAM
        /\ ~shadow
    BY <2>1 DEF ExcInv, Free
  <2>4. Len(stack) = 0 /\ saved' = [enabled |-> enabled, shadow |-> shadow]
    BY <1>2, <2>1, <2>3
  <2>5. Len(stack') = 3 /\ stack'[1] = p[1] /\ stack'[2] = p[2] /\ stack'[3] = p[3]
    BY <1>8, <1>9, <2>2, <2>4
  <2>6. FromProgram(stack, 1)'
    BY <1>4, <2>3, <2>4, <2>5 DEF FromProgram
  <2>7. Keeps'
    BY <1>11, <2>3 DEF Keeps
  <2>8. QED
    BY <1>2, <2>1, <2>3, <2>4, <2>5, <2>6, <2>7 DEF InProgram
<1>15. InKernel'
  <2>1. p[1].of = "eip" /\ p[2].of = "cs" /\ p[3].of = "eflags"
    BY <1>4 DEF Word
  <2>2. Len(stack) \in Nat
    BY <1>1
  <2>3. Len(stack') >= 3 + k
    BY <1>6, <1>8, <2>2
  <2>4. /\ n \in WithErrorCode => stack'[1].of = "err_code"
        /\ stack'[k + 1].of = "eip" /\ stack'[k + 2].of = "cs"
        /\ stack'[k + 3].of = "eflags"
    BY <1>5, <1>6, <1>9, <2>1
  <2>5. Pushed(stack)'
    BY <1>2, <2>3, <2>4 DEF Pushed, k
  <2>6. QED
    BY <1>2, <2>5 DEF InKernel
<1>16. QED
  BY <1>10, <1>12, <1>13, <1>14, <1>15 DEF ExcInv

LEMMA StubInv ==
  ASSUME ExcInv, exception_n
  PROVE  ExcInv'
<1> DEFINE n == IF number \in NoDefault THEN 10 ELSE 11
<1>1. ExcTypeOK /\ IntInv /\ InProgram /\ InKernel /\ Free
  BY DEF ExcInv
<1>2. /\ exc = "stub" /\ exc' = "handler" /\ enabled' = FALSE /\ UNCHANGED shadow
      /\ regs' = [regs EXCEPT !["eax"] = KERNEL, !["ds"] = KERNEL]
      /\ UNCHANGED <<boot, g_interrupt_handlers, frames, picVars, devVars, number, saved>>
  BY DEF exception_n, Go
<1>3. /\ stack' \in Seq(Words) /\ Len(stack') = n + Len(stack)
      /\ \A i \in 1..9 : stack'[i] = Word(REGISTERS[i], regs[REGISTERS[i]])
      /\ stack'[10] = Word("int_no", number)
      /\ number \notin NoDefault => stack'[11] = Word("err_code", 0)
      /\ \A i \in 1..Len(stack) : stack'[n + i] = stack[i]
  BY <1>1, StubPushes
<1>4. /\ regs \in [Regs -> Int] /\ regs' \in [Regs -> Int] /\ regs'["esp"] = regs["esp"]
      /\ Len(stack) \in Nat
  <2>1. KERNEL \in Int
    BY DEF KERNEL
  <2>2. regs \in [Regs -> Int] /\ "esp" \in Regs /\ Len(stack) \in Nat
    BY <1>1 DEF ExcTypeOK, Regs
  <2>3. QED
    BY <1>2, <2>1, <2>2
<1>5. IntInv'
  <2>1. /\ enabled' \in BOOLEAN /\ shadow' \in BOOLEAN /\ ~enabled'
        /\ boot \notin {"gdt_init", "pic8259_init"}
    BY <1>1, <1>2 DEF ExcInv, ExcTypeOK, Quiet
  <2>2. QED
    BY <1>1, <1>2, <2>1, Untouched, Zenon
<1>6. ExcTypeOK'
  BY <1>1, <1>2, <1>3, <1>4 DEF ExcTypeOK
<1>7. Quiet' /\ Free'
  BY <1>2 DEF ExcInv, Quiet, Free
<1>8. \A i \in 1..9 : stack'[i].of = REGISTERS[i]
                    /\ stack'[i].val = regs[REGISTERS[i]]
  <2> TAKE i \in 1..9
  <2>1. stack'[i] = Word(REGISTERS[i], regs[REGISTERS[i]])
    BY <1>3
  <2>2. QED
    BY <2>1 DEF Word
<1>9. InProgram'
  <2> SUFFICES ASSUME number \in Handled
               PROVE  InProgram'
    BY <1>2 DEF InProgram
  <2>1. number \notin NoDefault /\ n = 11
    BY DEF Handled, NoDefault
  <2>2. /\ Len(stack) = 3 /\ FromProgram(stack, 1) /\ Keeps
        /\ ~saved.shadow /\ frames = <<>>
    BY <1>1, <1>2 DEF InProgram
  <2>3. Len(stack') = 14
    BY <1>3, <2>1, <2>2
  <2>4. stack'[12] = stack[1] /\ stack'[13] = stack[2] /\ stack'[14] = stack[3]
    BY <1>3, <2>1, <2>2
  <2>5. FromProgram(stack, 12)'
    BY <1>2, <2>2, <2>4 DEF FromProgram
  <2>6. \A i \in 1..8 : regs[REGISTERS[i]] = PROGRAM
    BY <2>2, Names DEF Keeps, Regs
  <2>7. \A i \in 1..8 : stack'[i].val = PROGRAM
    BY <1>8, <2>6
  <2>8. regs'["esp"] = PROGRAM
    BY <1>4, <2>2 DEF Keeps, Regs
  <2>9. QED
    BY <1>2, <1>3, <1>8, <2>1, <2>2, <2>3, <2>5, <2>7, <2>8 DEF InProgram
<1>10. InKernel'
  <2> SUFFICES ASSUME number \notin Handled
               PROVE  InKernel'
    BY <1>2 DEF InKernel
  <2>1. Pushed(stack)
    BY <1>1, <1>2 DEF InKernel
  <2>2. /\ stack'[11].of = "err_code" /\ stack'[12].of = "eip"
        /\ stack'[13].of = "cs" /\ stack'[14].of = "eflags"
    <3>1. CASE number \in NoDefault
      <4>1. number \in WithErrorCode /\ n = 10
        BY <3>1 DEF NoDefault, WithErrorCode
      <4>2. /\ Len(stack) >= 4 /\ stack[1].of = "err_code" /\ stack[2].of = "eip"
            /\ stack[3].of = "cs" /\ stack[4].of = "eflags"
        BY <2>1, <4>1 DEF Pushed
      <4>3. /\ stack'[11] = stack[1] /\ stack'[12] = stack[2]
            /\ stack'[13] = stack[3] /\ stack'[14] = stack[4]
        <5>1. \A i \in 1..Len(stack) : stack'[10 + i] = stack[i]
          BY <1>3, <4>1
        <5>2. 1 \in 1..Len(stack) /\ 2 \in 1..Len(stack) /\ 3 \in 1..Len(stack)
              /\ 4 \in 1..Len(stack)
          BY <1>4, <4>2
        <5>3. /\ stack'[10 + 1] = stack[1] /\ stack'[10 + 2] = stack[2]
              /\ stack'[10 + 3] = stack[3] /\ stack'[10 + 4] = stack[4]
          BY <5>1, <5>2, Zenon
        <5>4. QED
          BY <5>3
      <4>4. QED
        BY <4>2, <4>3
    <3>2. CASE number \notin NoDefault
      <4>1. number \notin WithErrorCode /\ n = 11
        BY <3>2 DEF NoDefault, WithErrorCode
      <4>2. /\ Len(stack) >= 3 /\ stack[1].of = "eip" /\ stack[2].of = "cs"
            /\ stack[3].of = "eflags"
        BY <2>1, <4>1 DEF Pushed
      <4>3. stack'[12] = stack[1] /\ stack'[13] = stack[2] /\ stack'[14] = stack[3]
        <5>1. \A i \in 1..Len(stack) : stack'[11 + i] = stack[i]
          BY <1>3, <4>1
        <5>2. 1 \in 1..Len(stack) /\ 2 \in 1..Len(stack) /\ 3 \in 1..Len(stack)
          BY <1>4, <4>2
        <5>3. /\ stack'[11 + 1] = stack[1] /\ stack'[11 + 2] = stack[2]
              /\ stack'[11 + 3] = stack[3]
          BY <5>1, <5>2, Zenon
        <5>4. QED
          BY <5>3
      <4>4. stack'[11].of = "err_code"
        BY <1>3, <3>2 DEF Word
      <4>5. QED
        BY <4>2, <4>3, <4>4
    <3>3. QED
      BY <3>1, <3>2
  <2>3. stack'[10].of = "int_no" /\ stack'[10].val = number
    BY <1>3 DEF Word
  <2>6. Len(stack') >= 14
    <3>1. /\ Len(stack') = n + Len(stack) /\ Len(stack) \in Nat
          /\ n = 10 => Len(stack) >= 4
          /\ n # 10 => n = 11 /\ Len(stack) >= 3
      BY <1>3, <1>4, <2>1 DEF Pushed, NoDefault, WithErrorCode
    <3> HIDE DEF n
    <3>2. QED
      BY <3>1
  <2>4. \A i \in 1..14 : stack'[i].of = REGISTERS[i]
    <3>1. \A i \in 1..14 : i \in 1..9 \/ i = 10 \/ i = 11 \/ i = 12 \/ i = 13 \/ i = 14
      OBVIOUS
    <3>2. QED
      BY <1>8, <2>2, <2>3, <3>1, Names
  <2>5. QED
    BY <1>2, <2>3, <2>4, <2>6 DEF InKernel
<1>11. QED
  BY <1>5, <1>6, <1>7, <1>9, <1>10 DEF ExcInv

LEMMA HandlerInv ==
  ASSUME ExcInv, handle_fpu_exception \/ for_ever
  PROVE  ExcInv'
<1>1. ExcTypeOK /\ IntInv /\ InProgram /\ InKernel /\ exc = "handler"
  BY DEF ExcInv, handle_fpu_exception, for_ever, Go
<1>2. /\ UNCHANGED <<boot, g_interrupt_handlers, frames, picVars, devVars, number, saved>>
      /\ UNCHANGED <<stack, enabled, shadow>>
  BY DEF handle_fpu_exception, for_ever, Go
<1>3. int_no = number
  BY <1>1, WordFields DEF InProgram, InKernel, int_no
<1>4. \/ number \in Handled /\ exc' = "restore"
      \/ number \notin Handled /\ exc' = "halted"
  BY <1>3 DEF handle_fpu_exception, for_ever, Go
<1>5. regs' \in [Regs -> Int] /\ regs'["esp"] = regs["esp"]
  <2>1. regs \in [Regs -> Int] /\ KERNEL \in Int /\ "esp" \in Regs
    BY <1>1 DEF ExcTypeOK, KERNEL, Regs
  <2>2. QED
    BY <2>1 DEF handle_fpu_exception, for_ever
<1>6. IntInv'
  <2>1. /\ enabled' \in BOOLEAN /\ shadow' \in BOOLEAN /\ (enabled' => shadow')
        /\ boot \notin {"gdt_init", "pic8259_init"}
    BY <1>1, <1>2 DEF ExcInv, ExcTypeOK, Quiet
  <2>2. QED
    BY <1>1, <1>2, <2>1, Untouched, Zenon
<1>7. ExcTypeOK'
  BY <1>1, <1>2, <1>4, <1>5 DEF ExcTypeOK
<1>8. Quiet' /\ Free'
  BY <1>1, <1>2, <1>4 DEF ExcInv, Quiet, Free
<1>9. InProgram'
  BY <1>1, <1>2, <1>4, <1>5 DEF InProgram, FromProgram
<1>10. InKernel'
  BY <1>2, <1>4 DEF InKernel
<1>11. QED
  BY <1>6, <1>7, <1>8, <1>9, <1>10 DEF ExcInv

LEMMA LastThree ==
  ASSUME NEW s \in Seq(Words), Len(s) = 14
  PROVE  LET t == SubSeq(s, 12, 14)
         IN  /\ t \in Seq(Words) /\ Len(t) = 3
             /\ t[1] = s[12] /\ t[2] = s[13] /\ t[3] = s[14]
<1> DEFINE t == SubSeq(s, 12, 14)
<1>1. \A i \in 12..14 : s[i] \in Words
  <2>1. \A i \in 12..14 : i \in 1..Len(s)
    OBVIOUS
  <2>2. \A i \in 1..Len(s) : s[i] \in Words
    BY ElementOfSeq
  <2>3. QED
    BY <2>1, <2>2
<1>2. /\ t \in Seq(Words) /\ Len(t) = 14 - 12 + 1
      /\ \A i \in 1..14 - 12 + 1 : t[i] = s[12 + i - 1]
  BY <1>1, SubSeqProperties
<1> HIDE DEF t
<1>3. t[1] = s[12] /\ t[2] = s[13] /\ t[3] = s[14]
  BY <1>2
<1>4. QED
  BY <1>2, <1>3 DEF t

(* The rest of the way is that of exceptions that are handled.             *)
LEMMA WayBack ==
  ASSUME ExcInv, exc \in {"restore", "sti", "iret"}
  PROVE  number \in Handled /\ ~saved.shadow /\ frames = <<>>
  BY DEF ExcInv, InProgram, InKernel

LEMMA RestoreInv ==
  ASSUME ExcInv, restore
  PROVE  ExcInv'
<1>1. ExcTypeOK /\ IntInv /\ exc = "restore" /\ exc' = "sti"
  BY DEF ExcInv, restore, Go
<1>2. /\ UNCHANGED <<boot, g_interrupt_handlers, frames, picVars, devVars, number, saved>>
      /\ UNCHANGED <<enabled, shadow>>
  BY DEF restore, Go
<1>3. number \in Handled /\ ~saved.shadow /\ frames = <<>>
  BY <1>1, WayBack
<1>4. /\ Len(stack) = 14 /\ FromProgram(stack, 12) /\ stack \in Seq(Words)
      /\ \A i \in 1..8 : stack[i].val = PROGRAM
      /\ regs["esp"] = PROGRAM /\ regs \in [Regs -> Int]
  BY <1>1, <1>3 DEF ExcInv, InProgram, ExcTypeOK
<1>5. stack' = SubSeq(stack, 12, 14)
  BY <1>4 DEF restore, Dropped
<1>6. /\ stack' \in Seq(Words) /\ Len(stack') = 3
      /\ stack'[1] = stack[12] /\ stack'[2] = stack[13] /\ stack'[3] = stack[14]
  BY <1>4, <1>5, LastThree
<1>7. FromProgram(stack, 1)'
  BY <1>2, <1>4, <1>6 DEF FromProgram
<1>8. /\ regs' \in [Regs -> Int] /\ regs'["eax"] = CR0
      /\ \A r \in Regs \ {"eax", "eip", "cs"} : regs'[r] = PROGRAM
  <2> DEFINE back(r) == IF r = "eax" THEN CR0
                        ELSE IF \E i \in 1..9 : r = REGISTERS[i] /\ r # "esp"
                        THEN stack[CHOOSE i \in 1..9 : r = REGISTERS[i]].val
                        ELSE regs[r]
  <2>1. regs' = [r \in Regs |-> back(r)]
    BY <1>4 DEF restore
  <2>2. back("eax") = CR0 /\ CR0 \in Int /\ PROGRAM \in Int /\ "eax" \in Regs
    BY DEF CR0, PROGRAM, Regs
  <2>3. ASSUME NEW r \in Regs \ {"eax", "eip", "cs"}
        PROVE  back(r) = PROGRAM
    <3>1. CASE r = "esp"
      BY <1>4, <3>1
    <3>2. CASE r # "esp"
      <4>1. PICK i \in 1..9 : r = REGISTERS[i]
        BY NineRegisters
      <4>2. (CHOOSE j \in 1..9 : r = REGISTERS[j]) = i
        BY <4>1, NineRegisters
      <4>3. i # 9
        BY <4>1, Names
      <4>4. i \in 1..8
        BY <4>3
      <4>5. back(r) = stack[i].val
        BY <3>2, <4>1, <4>2
      <4>6. QED
        BY <1>4, <4>4, <4>5
    <3>3. QED
      BY <3>1, <3>2
  <2>4. ASSUME NEW r \in {"eip", "cs"}
        PROVE  back(r) = regs[r] /\ r \in Regs
    <3>1. \A i \in 1..9 : r # REGISTERS[i]
      <4>1. \A i \in 1..9 : \/ i = 1 \/ i = 2 \/ i = 3 \/ i = 4 \/ i = 5 \/ i = 6 \/ i = 7
                            \/ i = 8 \/ i = 9
        OBVIOUS
      <4>2. QED
        BY <4>1, Names
    <3>2. r # "eax" /\ r \in Regs
      BY DEF Regs
    <3>3. QED
      BY <3>1, <3>2
  <2> HIDE DEF back
  <2>5. \A r \in Regs : back(r) \in Int
    <3>1. \A r \in Regs : r = "eax" \/ r \in {"eip", "cs"}
                         \/ r \in Regs \ {"eax", "eip", "cs"}
      OBVIOUS
    <3>2. \A r \in Regs : regs[r] \in Int
      BY <1>4
    <3>3. QED
      BY <2>2, <2>3, <2>4, <3>1, <3>2
  <2>6. QED
    BY <2>1, <2>2, <2>3, <2>5
<1>9. IntInv'
  <2>1. /\ enabled' \in BOOLEAN /\ shadow' \in BOOLEAN /\ (enabled' => shadow')
        /\ boot \notin {"gdt_init", "pic8259_init"}
    BY <1>1, <1>2 DEF ExcInv, ExcTypeOK, Quiet
  <2>2. QED
    BY <1>1, <1>2, <2>1, Untouched, Zenon
<1>10. ExcTypeOK'
  BY <1>1, <1>2, <1>6, <1>8 DEF ExcTypeOK
<1>11. Quiet' /\ Free' /\ InKernel'
  BY <1>1, <1>2, <1>3 DEF ExcInv, Quiet, Free, InKernel
<1>12. Keeps'
  BY <1>8 DEF Keeps
<1>13. InProgram'
  BY <1>1, <1>2, <1>3, <1>6, <1>7, <1>8, <1>12 DEF InProgram
<1>14. QED
  BY <1>9, <1>10, <1>11, <1>13 DEF ExcInv

LEMMA StiInv ==
  ASSUME ExcInv, exception_sti
  PROVE  ExcInv'
<1>1. ExcTypeOK /\ IntInv /\ exc = "sti" /\ exc' = "iret"
  BY DEF ExcInv, exception_sti, Go
<1>2. /\ UNCHANGED <<boot, g_interrupt_handlers, frames, picVars, devVars, number, saved>>
      /\ UNCHANGED <<stack, regs>> /\ enabled' = TRUE /\ shadow' = TRUE
  BY DEF exception_sti, Go
<1>3. number \in Handled /\ ~saved.shadow /\ frames = <<>>
  BY <1>1, WayBack
<1>4. boot \notin {"gdt_init", "pic8259_init"} /\ IntInv'
  <2>1. boot \notin {"gdt_init", "pic8259_init"}
    BY <1>1 DEF ExcInv, Quiet
  <2>2. QED
    BY <1>1, <1>2, <2>1, Untouched, Zenon
<1>5. ExcTypeOK' /\ Quiet' /\ Free' /\ InKernel'
  BY <1>1, <1>2, <1>3, <1>4 DEF ExcTypeOK, Quiet, Free, InKernel
<1>6. InProgram'
  BY <1>1, <1>2, <1>3 DEF ExcInv, InProgram, FromProgram, Keeps
<1>7. QED
  BY <1>4, <1>5, <1>6 DEF ExcInv

(* What iret gives back.                                                   *)
LEMMA GivenBack ==
  ASSUME ExcInv, exception_iret
  PROVE  /\ stack' = <<>> /\ enabled' = saved.enabled /\ shadow' = saved.shadow
         /\ frames = <<>> /\ ~shadow'
         /\ regs' \in [Regs -> Int] /\ regs'["eax"] = CR0
         /\ \A r \in Regs \ {"eax"} : regs'[r] = PROGRAM
<1>1. /\ exc = "iret" /\ stack' = SubSeq(stack, 4, Len(stack))
      /\ regs' = [regs EXCEPT !["eip"] = stack[1].val, !["cs"] = stack[2].val]
      /\ enabled' = (stack[3].val = 1) /\ shadow' = FALSE
  BY DEF exception_iret, Go
<1>2. number \in Handled /\ ~saved.shadow /\ frames = <<>>
  BY <1>1, WayBack
<1>3. /\ Len(stack) = 3 /\ FromProgram(stack, 1) /\ Keeps /\ regs["eax"] = CR0
      /\ stack \in Seq(Words) /\ regs \in [Regs -> Int]
      /\ saved \in [enabled : BOOLEAN, shadow : BOOLEAN]
  BY <1>1, <1>2 DEF ExcInv, ExcTypeOK, InProgram
<1>4. /\ stack[1].val = PROGRAM /\ stack[2].val = PROGRAM
      /\ stack[3].val = Flag(saved.enabled)
  BY <1>3, WordFields DEF FromProgram
<1>5. stack' = <<>>
  BY <1>1, <1>3
<1>6. enabled' = saved.enabled /\ shadow' = saved.shadow
  <2>1. saved.enabled \in BOOLEAN /\ saved.shadow \in BOOLEAN
    BY <1>3
  <2>2. stack[3].val = 1 <=> saved.enabled
    BY <1>4 DEF Flag
  <2>3. saved.shadow = FALSE
    BY <1>2, <2>1, Zenon
  <2>4. (stack[3].val = 1) = saved.enabled
    BY <2>1, <2>2, Zenon
  <2>5. QED
    BY <1>1, <2>3, <2>4, Zenon
<1>7. regs' \in [Regs -> Int] /\ regs'["eax"] = CR0 /\ regs'["eip"] = PROGRAM
      /\ regs'["cs"] = PROGRAM /\ \A r \in Regs \ {"eax", "eip", "cs"} : regs'[r] = PROGRAM
  <2>1. PROGRAM \in Int /\ "eip" \in Regs /\ "cs" \in Regs /\ "eax" \in Regs
    BY DEF PROGRAM, Regs
  <2>2. QED
    BY <1>1, <1>3, <1>4, <2>1 DEF Keeps
<1>8. QED
  BY <1>1, <1>2, <1>5, <1>6, <1>7

LEMMA IretInv ==
  ASSUME ExcInv, exception_iret
  PROVE  ExcInv'
<1>1. ExcTypeOK /\ IntInv /\ exc' = "none"
  BY DEF ExcInv, exception_iret, Go
<1>2. UNCHANGED <<boot, g_interrupt_handlers, frames, picVars, devVars, number, saved>>
  BY DEF exception_iret, Go
<1>3. /\ stack' = <<>> /\ enabled' = saved.enabled /\ ~shadow'
      /\ frames = <<>> /\ regs' \in [Regs -> Int]
      /\ \A r \in Regs \ {"eax"} : regs'[r] = PROGRAM
      /\ shadow' \in BOOLEAN
  BY GivenBack DEF exception_iret
<1>4. enabled' \in BOOLEAN
  BY <1>1, <1>3 DEF ExcTypeOK
<1>5. IntInv'
  <2>1. boot \notin {"gdt_init", "pic8259_init"}
    BY DEF ExcInv, Quiet, exception_iret, Go
  <2>2. QED
    BY <1>1, <1>2, <1>3, <1>4, <2>1, Untouched, Zenon
<1>6. ExcTypeOK'
  <2>1. stack' \in Seq(Words)
    BY <1>3, LenZero
  <2>2. QED
    BY <1>1, <1>2, <1>3, <1>4, <2>1 DEF ExcTypeOK
<1>7. Keeps' /\ regs'["eip"] = PROGRAM /\ regs'["cs"] = PROGRAM
  BY <1>3 DEF Keeps, Regs
<1>8. Quiet' /\ Free' /\ InProgram' /\ InKernel'
  BY <1>1, <1>3, <1>7 DEF Quiet, Free, InProgram, InKernel
<1>9. QED
  BY <1>5, <1>6, <1>8 DEF ExcInv

LEMMA ExcNextInv == ExcInv /\ [ExcNext]_allVars => ExcInv'
<1> SUFFICES ASSUME ExcInv, [ExcNext]_allVars
             PROVE  ExcInv'
  OBVIOUS
<1>1. ASSUME NEW n \in Exceptions, RaiseException(n)
      PROVE  ExcInv'
  BY <1>1, RaiseInv
<1>2. CASE Exception
  BY <1>2, StubInv, HandlerInv, RestoreInv, StiInv, IretInv DEF Exception
<1>3. CASE Kernel /\ UNCHANGED excVars
  BY <1>3, KernelInv
<1>4. CASE UNCHANGED allVars
  <2>1. UNCHANGED vars /\ UNCHANGED excVars
    BY <1>4 DEF allVars
  <2>2. IntInv'
    BY <2>1, NextInv DEF ExcInv
  <2>3. ExcTypeOK' /\ Quiet' /\ Free' /\ InProgram' /\ InKernel'
    BY <2>1 DEF ExcInv, ExcTypeOK, Quiet, Free, InProgram, InKernel, FromProgram, Keeps,
                Pushed, vars, cpuVars, excVars
  <2>4. QED
    BY <2>2, <2>3 DEF ExcInv
<1>5. QED
  BY <1>1, <1>2, <1>3, <1>4 DEF ExcNext

-----------------------------------------------------------------------------
(* No handler is entered twice, with exceptions as without (NoNesting of   *)
(* module Interrupts, under the specification with exceptions).            *)
THEOREM NoNestingWithExceptions == ExcSpec => []NoNesting
<1>1. ExcInv => NoNesting
  BY DEF ExcInv, IntInv
<1>2. QED
  BY <1>1, ExcInitInv, ExcNextInv, PTL DEF ExcSpec

(* isr_exception_handler finds the saved registers, the number, the error  *)
(* code, eip, cs and eflags under their names, whichever exceptions        *)
(* happen: the stubs of exception.asm push a default error code exactly    *)
(* where the processor pushes none.  Nothing is said of useresp and ss.    *)
THEOREM FrameFits == ExcSpec => []FrameFitsStruct
<1>1. ExcInv => FrameFitsStruct
  <2> SUFFICES ASSUME ExcInv, exc = "handler"
               PROVE  \A i \in DOMAIN REGISTERS :
                        REGISTERS[i] \notin UserStack => Present(i)
    BY DEF FrameFitsStruct
  <2>1. Len(stack) >= 14
    <3>1. number \in Handled => Len(stack) = 14
      BY DEF ExcInv, InProgram
    <3>2. number \notin Handled => Len(stack) >= 14
      BY Zenon DEF ExcInv, InKernel
    <3>3. 14 >= 14
      OBVIOUS
    <3>4. CASE number \in Handled
      BY <3>1, <3>3, <3>4, Zenon
    <3>5. QED
      BY <3>2, <3>4, Zenon
  <2>2. \A i \in 1..14 : i \in DOMAIN stack
    <3>1. stack \in Seq(Words)
      BY DEF ExcInv, ExcTypeOK
    <3>2. QED
      BY <2>1, <3>1
  <2>3. \A i \in 1..14 : stack[i].of = REGISTERS[i]
    <3>1. CASE number \notin Handled
      BY <3>1 DEF ExcInv, InKernel
    <3>2. CASE number \in Handled
      <4>1. /\ FromProgram(stack, 12)
            /\ stack[10] = Word("int_no", number) /\ stack[11] = Word("err_code", 0)
            /\ \A i \in 1..9 : stack[i].of = REGISTERS[i]
        BY <3>2 DEF ExcInv, InProgram
      <4>2. /\ stack[10].of = "int_no" /\ stack[11].of = "err_code"
            /\ stack[12].of = "eip" /\ stack[13].of = "cs" /\ stack[14].of = "eflags"
        BY <4>1, WordFields DEF FromProgram
      <4>3. \A i \in 1..14 : i \in 1..9 \/ i = 10 \/ i = 11 \/ i = 12 \/ i = 13 \/ i = 14
        OBVIOUS
      <4>4. QED
        BY <4>1, <4>2, <4>3, Names
    <3>3. QED
      BY <3>1, <3>2
  <2>4. \A i \in DOMAIN REGISTERS : REGISTERS[i] \notin UserStack => i \in 1..14
    <3>1. \A i \in 1..16 : i \in 1..14 \/ i = 15 \/ i = 16
      OBVIOUS
    <3>2. QED
      BY <3>1, Names DEF UserStack
  <2>5. QED
    BY <2>2, <2>3, <2>4 DEF Present
<1>2. QED
  BY <1>1, ExcInitInv, ExcNextInv, PTL DEF ExcSpec

(* A program goes on after an exception where it was, with its stack, its  *)
(* flag and every register but eax, of which nothing is said               *)
(* (exception.asm:54-69).                                                  *)
THEOREM ProgramGoesOn == ExcSpec => ProgramResumes
<1>1. ASSUME ExcInv, [ExcNext]_allVars, exc = "iret", exc' = "none"
      PROVE  exception_iret
  <2>1. ~UNCHANGED excVars
    BY <1>1 DEF excVars
  <2>2. ~\E n \in Exceptions : RaiseException(n)
    BY <1>1 DEF RaiseException
  <2>3. QED
    BY <1>1, <2>1, <2>2 DEF ExcNext, Exception, exception_n, handle_fpu_exception,
                            for_ever, restore, exception_sti, Go, allVars
<1>2. ExcInv /\ [ExcNext]_allVars =>
        [exc = "iret" /\ exc' = "none" =>
           /\ stack' = <<>>
           /\ enabled' = saved.enabled
           /\ \A r \in DOMAIN regs \ {"eax"} : regs'[r] = PROGRAM]_allVars
  <2> SUFFICES ASSUME ExcInv, [ExcNext]_allVars, exc = "iret", exc' = "none"
               PROVE  /\ stack' = <<>>
                      /\ enabled' = saved.enabled
                      /\ \A r \in DOMAIN regs \ {"eax"} : regs'[r] = PROGRAM
    OBVIOUS
  <2>1. exception_iret
    BY <1>1
  <2>2. DOMAIN regs = Regs
    BY DEF ExcInv, ExcTypeOK
  <2>3. QED
    BY <2>1, <2>2, GivenBack
<1>3. QED
  BY <1>2, ExcInitInv, ExcNextInv, PTL DEF ExcSpec, ProgramResumes

(* The controllers are the same below.                                     *)
LEMMA ControllersBelow ==
  /\ \A irq : Below!Deliverable(irq) <=> Deliverable(irq)
  /\ \A irq : Below!MasterLine(irq) = MasterLine(irq) /\ Below!Vector(irq) = Vector(irq)
  /\ \A irq : (Below!Unmasked(irq) <=> Unmasked(irq)) /\ (Below!Blocked(irq) <=> Blocked(irq))
  /\ \A i, j : Below!Precedes(i, j) <=> Precedes(i, j)
  /\ \A irq, real : Below!Bits(irq, real) = Bits(irq, real)
  /\ Below!IRQ2_CASCADE = IRQ2_CASCADE /\ Below!IRQ1_KEYBOARD = IRQ1_KEYBOARD
  /\ Below!IRQ_BASE = IRQ_BASE
  /\ Below!EndSlave <=> EndSlave
  /\ Below!EndMaster <=> EndMaster
<1>1. /\ Below!IRQ2_CASCADE = IRQ2_CASCADE /\ Below!IRQ1_KEYBOARD = IRQ1_KEYBOARD
      /\ Below!IRQ_BASE = IRQ_BASE
  BY DEF IRQ_BASE, IRQ1_KEYBOARD, IRQ2_CASCADE, Below!IRQ_BASE, Below!IRQ1_KEYBOARD,
         Below!IRQ2_CASCADE
<1>2. \A irq : Below!MasterLine(irq) = MasterLine(irq) /\ Below!Vector(irq) = Vector(irq)
  BY <1>1, Zenon DEF MasterLine, Below!MasterLine, Vector, Below!Vector,
                     FirmwareVector, Below!FirmwareVector
<1>3. \A irq : (Below!Unmasked(irq) <=> Unmasked(irq)) /\ (Below!Blocked(irq) <=> Blocked(irq))
  BY <1>2, Zenon DEF Unmasked, Below!Unmasked, Blocked, Below!Blocked
<1>4. \A i, j : Below!Precedes(i, j) <=> Precedes(i, j)
  BY <1>2, Zenon DEF Precedes, Below!Precedes
<1>5. \A irq : Below!Deliverable(irq) <=> Deliverable(irq)
  BY <1>3, <1>4, Zenon DEF Deliverable, Below!Deliverable
<1>6. \A irq, real : Below!Bits(irq, real) = Bits(irq, real)
  BY <1>1, Zenon DEF Bits, Below!Bits
<1>7. (Below!EndSlave <=> EndSlave) /\ (Below!EndMaster <=> EndMaster)
  BY Zenon DEF EndSlave, Below!EndSlave, EndMaster, Below!EndMaster, Highest, Below!Highest
<1>8. QED
  BY <1>1, <1>2, <1>3, <1>4, <1>5, <1>6, <1>7

(* A step of the kernel when no exception is handled is one below.         *)
LEMMA DevicesBelow ==
  ASSUME Devices,
         (IF exc = "none" THEN enabled ELSE saved.enabled)'
           = IF exc = "none" THEN enabled ELSE saved.enabled,
         (IF exc = "none" THEN shadow ELSE saved.shadow)'
           = IF exc = "none" THEN shadow ELSE saved.shadow,
         frames' = frames
  PROVE  Below!Next
<1>1. Below!Devices
  <2>1. CASE \E irq \in Irqs : Raise(irq)
    BY <2>1, ControllersBelow DEF Raise, Below!Raise, Below!cpuVars, devVars, Below!devVars,
       Below!Devices
  <2>2. CASE Key
    BY <2>2 DEF Key, Below!Key, Below!cpuVars, picVars, Below!picVars, Below!Devices
  <2>3. CASE FillOutputBuffer
    BY <2>3, ControllersBelow DEF FillOutputBuffer, Below!FillOutputBuffer, Below!cpuVars,
       Below!Devices
  <2>4. QED
    BY <2>1, <2>2, <2>3 DEF Devices
<1>2. QED
  BY <1>1 DEF Below!Next

LEMMA KernelBelow ==
  ASSUME Kernel, exc = "none", exc' = "none"
  PROVE  Below!Next
<1> DEFINE on == IF exc = "none" THEN enabled ELSE saved.enabled
           in == IF exc = "none" THEN shadow ELSE saved.shadow
<1>1. on = enabled /\ on' = enabled' /\ in = shadow /\ in' = shadow'
  OBVIOUS
<1>2. CASE Boot
  <2>1. CASE pic8259_init
    BY <1>1, <2>1 DEF pic8259_init, Below!pic8259_init, Main, Below!Main, cpuVars,
       Below!cpuVars, devVars, Below!devVars, Below!Next, Below!Boot
  <2>2. CASE idt_init
    BY <1>1, <2>2 DEF idt_init, Below!idt_init, Main, Below!Main,
       picVars, Below!picVars, devVars, Below!devVars, Below!Next, Below!Boot
  <2>3. CASE console_init
    BY <1>1, <2>3 DEF console_init, Below!console_init, Main, Below!Main, cpuVars,
       Below!cpuVars, picVars, Below!picVars, devVars, Below!devVars, Below!Next, Below!Boot
  <2>4. CASE keyboard_init
    BY <1>1, <2>4 DEF keyboard_init, Below!keyboard_init, Main, Below!Main, cpuVars,
       Below!cpuVars, picVars, Below!picVars, devVars, Below!devVars, Below!Next, Below!Boot,
       IRQ_BASE, IRQ1_KEYBOARD, Below!IRQ_BASE, Below!IRQ1_KEYBOARD
  <2>5. QED
    BY <1>2, <2>1, <2>2, <2>3, <2>4 DEF Boot
<1>3. ASSUME NEW irq, NEW real \in BOOLEAN, Enter(irq, real)
      PROVE  Below!Enter(irq, real)
  BY <1>1, <1>3, ControllersBelow DEF Enter, Below!Enter, devVars, Below!devVars
<1>4. ASSUME NEW irq \in Irqs, Deliver(irq)
      PROVE  Below!Next
  <2>1. Below!Deliver(irq)
    BY <1>3, <1>4, ControllersBelow, Zenon DEF Deliver, Below!Deliver
  <2>2. QED
    BY <2>1 DEF Below!Next
<1>5. ASSUME NEW irq \in Spurious, DeliverSpurious(irq)
      PROVE  Below!Next
  <2>1. Below!DeliverSpurious(irq)
    BY <1>3, <1>5, ControllersBelow, Zenon DEF DeliverSpurious, Below!DeliverSpurious
  <2>2. QED
    BY <2>1 DEF Below!Next
<1>6. CASE Handle
  <2>0. /\ Below!Top = Top /\ \A step : Below!At(step) <=> At(step)
        /\ \A step : Below!MoveTo(step) <=> MoveTo(step)
    BY Zenon DEF Top, Below!Top, At, Below!At, MoveTo, Below!MoveTo
  <2>1. CASE isr_irq_handler
    BY <1>1, <2>0, <2>1, ControllersBelow DEF isr_irq_handler, Below!isr_irq_handler,
       picVars, Below!picVars, Below!Next, Below!Handle
  <2>2. CASE eoi_slave
    BY <1>1, <2>0, <2>2, ControllersBelow DEF eoi_slave, Below!eoi_slave,
       devVars, Below!devVars, Below!Next, Below!Handle
  <2>3. CASE eoi_master
    BY <1>1, <2>0, <2>3, ControllersBelow DEF eoi_master, Below!eoi_master,
       devVars, Below!devVars, Below!Next, Below!Handle
  <2>4. CASE sti
    BY <1>1, <2>0, <2>4 DEF sti, Below!sti, picVars, Below!picVars, devVars,
       Below!devVars, Below!Next, Below!Handle
  <2>5. CASE iret
    BY <1>1, <2>0, <2>5 DEF iret, Below!iret, picVars, Below!picVars, devVars,
       Below!devVars, Below!Next, Below!Handle
  <2>6. QED
    BY <1>6, <2>1, <2>2, <2>3, <2>4, <2>5 DEF Handle
<1>7. CASE Devices
  BY <1>1, <1>7, DevicesBelow DEF cpuVars, Devices, Raise, Key, FillOutputBuffer
<1>8. QED
  BY <1>2, <1>4, <1>5, <1>6, <1>7 DEF Kernel

-----------------------------------------------------------------------------
(* The interrupt path of module Interrupts cannot tell that exceptions     *)
(* happen: all that is proved of it holds beside them.                     *)
THEOREM ExceptionsUnnoticed == ExcSpec => ImplementsInterrupts
<1>1. ExcInit => Below!Init
  BY DEF ExcInit, Init, Below!Init
<1>2. ExcInv /\ [ExcNext]_allVars => [Below!Next]_Below!vars
  <2> SUFFICES ASSUME ExcInv, [ExcNext]_allVars
               PROVE  [Below!Next]_Below!vars
    OBVIOUS
  <2> DEFINE on == IF exc = "none" THEN enabled ELSE saved.enabled
             in == IF exc = "none" THEN shadow ELSE saved.shadow
  <2>1. ASSUME UNCHANGED <<boot, g_interrupt_handlers, frames, picVars, devVars>>,
               on' = on, in' = in
        PROVE  UNCHANGED Below!vars
    BY <2>1 DEF Below!vars, Below!cpuVars, Below!picVars, Below!devVars, picVars, devVars
  <2>2. ASSUME NEW n \in Exceptions, RaiseException(n)
        PROVE  UNCHANGED Below!vars
    <3>1. /\ UNCHANGED <<boot, g_interrupt_handlers, frames, picVars, devVars>>
          /\ exc' = "stub"
          /\ saved' = IF exc = "none" THEN [enabled |-> enabled, shadow |-> shadow]
                      ELSE saved
      BY <2>2 DEF RaiseException
    <3>2. on' = on /\ in' = in
      BY <3>1
    <3>3. QED
      BY <2>1, <3>1, <3>2
  <2>3. CASE Exception
    <3>1. UNCHANGED <<boot, g_interrupt_handlers, frames, picVars, devVars, saved>>
      BY <2>3 DEF Exception, exception_n, handle_fpu_exception, for_ever, restore,
                  exception_sti, exception_iret, Go
    <3>2. CASE exception_iret
      <4>1. exc # "none" /\ exc' = "none"
        BY <3>2 DEF exception_iret, Go
      <4>2. enabled' = saved.enabled /\ shadow' = saved.shadow
        BY <3>2, GivenBack
      <4>3. on' = on /\ in' = in
        BY <4>1, <4>2
      <4>4. QED
        BY <2>1, <3>1, <4>3
    <3>3. CASE ~exception_iret
      <4>1. exc # "none" /\ exc' # "none"
        BY <2>3, <3>3 DEF Exception, exception_n, handle_fpu_exception, for_ever, restore,
                          exception_sti, Go
      <4>2. on' = on /\ in' = in
        BY <3>1, <4>1
      <4>3. QED
        BY <2>1, <3>1, <4>2
    <3>4. QED
      BY <3>2, <3>3
  <2>4. CASE Kernel /\ UNCHANGED excVars
    <3>1. CASE exc = "none"
      BY <2>4, <3>1, KernelBelow DEF excVars
    <3>2. CASE exc # "none"
      <4>1. Devices /\ UNCHANGED cpuVars
        BY <2>4, <3>2, KernelStill
      <4>2. UNCHANGED <<enabled, shadow, frames, exc, saved>>
        BY <2>4, <4>1 DEF cpuVars, excVars
      <4>3. on' = on /\ in' = in
        BY <4>2
      <4>4. QED
        BY <4>1, <4>2, <4>3, DevicesBelow
    <3>3. QED
      BY <3>1, <3>2
  <2>5. CASE UNCHANGED allVars
    <3>1. /\ UNCHANGED <<boot, g_interrupt_handlers, frames, picVars, devVars>>
          /\ UNCHANGED <<enabled, shadow, exc, saved>>
      BY <2>5 DEF allVars, vars, cpuVars, excVars
    <3>2. on' = on /\ in' = in
      BY <3>1
    <3>3. QED
      BY <2>1, <3>1, <3>2
  <2>6. QED
    BY <2>2, <2>3, <2>4, <2>5 DEF ExcNext
<1>3. QED
  BY <1>1, <1>2, ExcInitInv, ExcNextInv, PTL DEF ExcSpec, ImplementsInterrupts, Below!Spec
=============================================================================
