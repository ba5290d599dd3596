-------------------------- MODULE IrqDriverProofs --------------------------
(***************************************************************************)
(* Proofs about IrqDriver for every set of interrupts and of threads, each *)
(* of which may use every interrupt at any time.                           *)
(***************************************************************************)
EXTENDS IrqDriver, TLAPS

(* Each step is a thread's, or of the controller and the handler.          *)
Starts(t) == \E i \in Interrupts :
  irq_enable(t, i) \/ irq_disable(t, i) \/ irq_wait(t, i)
  \/ irq_cancel(t, i) \/ irq_clear(t, i)

StepOf(t) == Continue(t) \/ Signal(t) \/ Starts(t)

LEMMA StepCases ==
  ASSUME [Next]_vars
  PROVE  \/ \E t \in Thread : StepOf(t)
         \/ \E i \in Interrupts : Call(i) \/ irqHandler(i)
         \/ UNCHANGED vars
BY DEF Next, Start, Starts, StepOf

Labels == {"idle", "enable_write", "unmask", "enable_irq", "unmasked",
           "disable_write", "mask", "disable_irq", "masked", "wait", "woken"}

LEMMA CallTypes ==
  ASSUME TypeOK, NEW t \in Thread
  PROVE  /\ call[t].irq \in Interrupts /\ call[t].reg \subseteq Interrupts
         /\ \A label \in Labels : Go(t, label) => call' \in [Thread -> Calls]
         /\ Return(t) => call' \in [Thread -> Calls]
<1>1. call \in [Thread -> Calls] /\ call[t] \in Calls
  BY DEF TypeOK
<1>2. call[t].irq \in Interrupts /\ call[t].reg \subseteq Interrupts
  BY <1>1 DEF Calls
<1>3. ASSUME NEW label \in Labels, Go(t, label) PROVE call' \in [Thread -> Calls]
  <2>1. call' = [call EXCEPT ![t] = [@ EXCEPT !.at = label, !.reg = {}]]
    BY <1>1, <1>3 DEF Go
  <2>2. [call[t] EXCEPT !.at = label, !.reg = {}] \in Calls
    BY <1>1 DEF Calls, Labels
  <2> QED
    BY <1>1, <2>1, <2>2
<1>4. Idle \in Calls
  BY IrqAssumption DEF Idle, Calls
<1> QED
  BY <1>1, <1>2, <1>3, <1>4 DEF Return

LEMMA TypeStep ==
  ASSUME TypeOK, NEW t \in Thread, StepOf(t)
  PROVE  TypeOK'
<1>a. call[t].irq \in Interrupts /\ call[t].reg \subseteq Interrupts
  BY CallTypes
<1>b. \A label \in Labels : Go(t, label) => call' \in [Thread -> Calls]
  BY CallTypes
<1>c. Return(t) => call' \in [Thread -> Calls]
  BY CallTypes
<1> USE <1>a DEF TypeOK, tables, hist
<1>1. CASE EnableWrite(t)
  BY <1>b, <1>1 DEF EnableWrite, WriteEnable, Labels
<1>2. CASE DisableWrite(t)
  BY <1>b, <1>2 DEF DisableWrite, Labels
<1>3. CASE UNMASK_IRQ(t)
  BY <1>b, <1>c, <1>3 DEF UNMASK_IRQ, Enabled, Labels
<1>4. CASE enable_irq(t)
  <2>1. depth' \in [Interrupts -> Nat]
    BY <1>4 DEF enable_irq
  <2>2. call' \in [Thread -> Calls]
    BY <1>b, <1>4 DEF enable_irq, Labels
  <2> QED
    BY <1>4, <2>1, <2>2 DEF enable_irq
<1>5. CASE Unmasked(t)
  BY <1>c, <1>5 DEF Unmasked, Enabled
<1>6. CASE MASK_IRQ(t)
  BY <1>b, <1>c, <1>6 DEF MASK_IRQ, Labels
<1>7. CASE disable_irq(t)
  <2>1. depth' \in [Interrupts -> Nat]
    BY <1>7 DEF disable_irq
  <2>2. call' \in [Thread -> Calls]
    BY <1>b, <1>7 DEF disable_irq, Labels
  <2> QED
    BY <1>7, <2>1, <2>2 DEF disable_irq
<1>8. CASE Masked(t)
  BY <1>c, <1>8 DEF Masked
<1>9. CASE Wake(t)
  BY <1>b, <1>9 DEF Wake, Labels
<1>10. CASE Woken(t)
  BY <1>c, <1>10 DEF Woken
<1>11. CASE Signal(t)
  BY <1>b, <1>11 DEF Signal, Labels
<1>12. ASSUME NEW i \in Interrupts, irq_enable(t, i) PROVE TypeOK'
  BY <1>12 DEF irq_enable, ReadEnable, Enabling, Calls
<1>13. ASSUME NEW i \in Interrupts, irq_disable(t, i) PROVE TypeOK'
  BY <1>13 DEF irq_disable, ReadEnable, Enabling, Calls
<1>14. ASSUME NEW i \in Interrupts, irq_wait(t, i) PROVE TypeOK'
  BY <1>14 DEF irq_wait, Calls
<1>15. ASSUME NEW i \in Interrupts, irq_cancel(t, i) PROVE TypeOK'
  BY <1>15 DEF irq_cancel
<1>16. ASSUME NEW i \in Interrupts, irq_clear(t, i) PROVE TypeOK'
  BY <1>16 DEF irq_clear
<1> QED
  BY <1>1, <1>2, <1>3, <1>4, <1>5, <1>6, <1>7, <1>8, <1>9, <1>10,
     <1>11, <1>12, <1>13, <1>14, <1>15, <1>16
  DEF StepOf, Continue, Starts

-----------------------------------------------------------------------------
(* Two calls for one interrupt are under way only if it collided.          *)
OneCall ==
  \A t, u \in Thread : \A i \in Interrupts :
    t # u /\ InCall(t, i) /\ InCall(u, i) => i \in collided

(* A step changes the call of one thread.  That goes on with its call,     *)
(* ends it, or starts one, and then the interrupt collides if another call *)
(* for it is under way.                                                    *)
CallStep(t) ==
  /\ \A u \in Thread \ {t} : call'[u] = call[u]
  /\ collided \subseteq collided'
  /\ \A i \in Interrupts : InCall(t, i)' =>
       InCall(t, i) \/ i \in collided' \/ \A u \in Thread : ~InCall(u, i)

LEMMA CallSteps ==
  ASSUME TypeOK, NEW t \in Thread, StepOf(t)
  PROVE  CallStep(t)
<1> USE IrqAssumption
<1> USE DEF TypeOK, Calls, At, Go, Return, Idle, tables, hist, InCall, CallStep
<1>1. CASE EnableWrite(t)
  BY <1>1 DEF EnableWrite, WriteEnable
<1>2. CASE DisableWrite(t)
  BY <1>2 DEF DisableWrite
<1>3. CASE UNMASK_IRQ(t)
  BY <1>3 DEF UNMASK_IRQ, Enabled
<1>4. CASE enable_irq(t)
  BY <1>4 DEF enable_irq
<1>5. CASE Unmasked(t)
  BY <1>5 DEF Unmasked, Enabled
<1>6. CASE MASK_IRQ(t)
  BY <1>6 DEF MASK_IRQ
<1>7. CASE disable_irq(t)
  BY <1>7 DEF disable_irq
<1>8. CASE Masked(t)
  BY <1>8 DEF Masked
<1>9. CASE Wake(t)
  BY <1>9 DEF Wake
<1>10. CASE Woken(t)
  BY <1>10 DEF Woken
<1>11. CASE Signal(t)
  BY <1>11 DEF Signal
<1>12. ASSUME NEW i \in Interrupts, irq_enable(t, i) PROVE CallStep(t)
  BY <1>12 DEF irq_enable, ReadEnable, Enabling
<1>13. ASSUME NEW i \in Interrupts, irq_disable(t, i) PROVE CallStep(t)
  BY <1>13 DEF irq_disable, ReadEnable, Enabling
<1>14. ASSUME NEW i \in Interrupts, irq_wait(t, i) PROVE CallStep(t)
  BY <1>14 DEF irq_wait
<1>15. ASSUME NEW i \in Interrupts, irq_cancel(t, i) PROVE CallStep(t)
  BY <1>15 DEF irq_cancel
<1>16. ASSUME NEW i \in Interrupts, irq_clear(t, i) PROVE CallStep(t)
  BY <1>16 DEF irq_clear
<1> QED
  BY <1>1, <1>2, <1>3, <1>4, <1>5, <1>6, <1>7, <1>8, <1>9, <1>10,
     <1>11, <1>12, <1>13, <1>14, <1>15, <1>16
  DEF StepOf, Continue, Starts

LEMMA OneCallStep ==
  ASSUME OneCall, NEW t \in Thread, CallStep(t)
  PROVE  OneCall'
BY DEF OneCall, CallStep, InCall

-----------------------------------------------------------------------------
(* For an interrupt that did not collide irqMasked says how the kernel has *)
(* it, except between enable_irq or disable_irq and the update of          *)
(* irqMasked, when the call that is there knows.                           *)
KnownAt(t) ==
  LET i == call[t].irq IN
  i \notin collided =>
    /\ call[t].at \in {"enable_irq", "unmasked"} => i \in irqMasked
    /\ call[t].at \in {"disable_irq", "masked"} => i \notin irqMasked
    /\ call[t].at = "unmasked" => depth[i] = 0
    /\ call[t].at = "masked" => depth[i] = 1

KernelInv == OneCall /\ MaskedIsDisabled /\ \A t \in Thread : KnownAt(t)

Agree(i) == depth[i] = IF i \in irqMasked THEN 1 ELSE 0

(* What a thread that is in a call for an interrupt may take for granted   *)
LEMMA CallerAgrees ==
  ASSUME KernelInv, NEW t \in Thread, call[t].irq \in Interrupts \ collided,
         InCall(t, call[t].irq)
  PROVE  call[t].at \in {"unmasked", "masked"} \/ Agree(call[t].irq)
<1> SUFFICES ASSUME call[t].at \notin {"unmasked", "masked"}
             PROVE  ~Changing(call[t].irq)
  BY DEF KernelInv, MaskedIsDisabled, Agree
<1> QED
  BY DEF KernelInv, OneCall, InCall, Changing

(* A step of thread t changes the kernel and irqMasked for the interrupt   *)
(* of its call only, and leaves them in agreement or is changing them.     *)
KernelStepOf(t) ==
  /\ KnownAt(t)'
  /\ \A i \in Interrupts \ collided' :
       IF InCall(t, i)
       THEN Agree(i)' \/ (call'[t].at \in {"unmasked", "masked"} /\ call'[t].irq = i)
       ELSE depth'[i] = depth[i] /\ (i \in irqMasked' <=> i \in irqMasked)

LEMMA KernelSteps ==
  ASSUME TypeOK, KernelInv, NEW t \in Thread, StepOf(t)
  PROVE  KernelStepOf(t)
<1>0. call[t].irq \in Interrupts \ collided /\ InCall(t, call[t].irq) =>
        call[t].at \in {"unmasked", "masked"} \/ Agree(call[t].irq)
  BY CallerAgrees
<1>00. KnownAt(t)
  BY DEF KernelInv
<1> USE IrqAssumption, <1>0, <1>00
<1> USE DEF TypeOK, Calls, At, Go, Return, Idle, tables, hist, InCall, Agree,
            KnownAt, KernelStepOf
<1>1. CASE EnableWrite(t)
  BY <1>1 DEF EnableWrite, WriteEnable
<1>2. CASE DisableWrite(t)
  BY <1>2 DEF DisableWrite
<1>3. CASE UNMASK_IRQ(t)
  BY <1>3 DEF UNMASK_IRQ, Enabled
<1>4. CASE enable_irq(t)
  BY <1>4 DEF enable_irq
<1>5. CASE Unmasked(t)
  BY <1>5 DEF Unmasked, Enabled
<1>6. CASE MASK_IRQ(t)
  BY <1>6 DEF MASK_IRQ
<1>7. CASE disable_irq(t)
  BY <1>7 DEF disable_irq
<1>8. CASE Masked(t)
  BY <1>8 DEF Masked
<1>9. CASE Wake(t)
  BY <1>9 DEF Wake
<1>10. CASE Woken(t)
  BY <1>10 DEF Woken
<1>11. CASE Signal(t)
  BY <1>11 DEF Signal
<1>12. ASSUME NEW i \in Interrupts, irq_enable(t, i) PROVE KernelStepOf(t)
  BY <1>12 DEF irq_enable, ReadEnable, Enabling
<1>13. ASSUME NEW i \in Interrupts, irq_disable(t, i) PROVE KernelStepOf(t)
  BY <1>13 DEF irq_disable, ReadEnable, Enabling
<1>14. ASSUME NEW i \in Interrupts, irq_wait(t, i) PROVE KernelStepOf(t)
  BY <1>14 DEF irq_wait
<1>15. ASSUME NEW i \in Interrupts, irq_cancel(t, i) PROVE KernelStepOf(t)
  BY <1>15 DEF irq_cancel
<1>16. ASSUME NEW i \in Interrupts, irq_clear(t, i) PROVE KernelStepOf(t)
  BY <1>16 DEF irq_clear
<1> QED
  BY <1>1, <1>2, <1>3, <1>4, <1>5, <1>6, <1>7, <1>8, <1>9, <1>10,
     <1>11, <1>12, <1>13, <1>14, <1>15, <1>16
  DEF StepOf, Continue, Starts

LEMMA KernelStep ==
  ASSUME TypeOK, KernelInv, NEW t \in Thread, StepOf(t)
  PROVE  KernelInv'
<1>1. CallStep(t) /\ KernelStepOf(t)
  BY CallSteps, KernelSteps
<1>2. OneCall'
  BY <1>1, OneCallStep DEF KernelInv
<1>3. MaskedIsDisabled'
  <2> SUFFICES ASSUME NEW i \in Interrupts \ collided', ~Changing(i)'
               PROVE  Agree(i)'
    BY DEF MaskedIsDisabled, Agree
  <2>1. CASE InCall(t, i)
    BY <1>1, <2>1 DEF KernelStepOf, Changing
  <2>2. CASE ~InCall(t, i)
    <3>1. ~Changing(i)
      BY <1>1, <2>2 DEF CallStep, Changing, InCall
    <3>2. i \notin collided
      BY <1>1 DEF CallStep
    <3> QED
      BY <1>1, <2>2, <3>1, <3>2 DEF KernelStepOf, KernelInv, MaskedIsDisabled, Agree
  <2> QED
    BY <2>1, <2>2
<1>4. ASSUME NEW u \in Thread PROVE KnownAt(u)'
  <2>1. CASE u = t
    BY <1>1, <2>1 DEF KernelStepOf
  <2>2. CASE u # t /\ ~InCall(u, call[u].irq)
    BY <1>1, <2>2 DEF CallStep, KnownAt, InCall
  <2>3. CASE u # t /\ InCall(u, call[u].irq) /\ call[u].irq \notin collided'
    <3>1. call[u].irq \in Interrupts \ collided' /\ call[u].irq \notin collided
      BY <1>1, <2>3 DEF TypeOK, Calls, CallStep
    <3>2. ~InCall(t, call[u].irq)
      BY <2>3, <3>1 DEF KernelInv, OneCall
    <3>3. KnownAt(u)
      BY DEF KernelInv
    <3> QED
      BY <1>1, <2>3, <3>1, <3>2, <3>3 DEF CallStep, KernelStepOf, KnownAt
  <2>4. CASE u # t /\ call[u].irq \in collided'
    BY <1>1, <2>4 DEF CallStep, KnownAt
  <2> QED
    BY <2>1, <2>2, <2>3, <2>4
<1> QED
  BY <1>2, <1>3, <1>4 DEF KernelInv

LEMMA OtherSteps ==
  ASSUME TypeOK, KernelInv,
         (\E i \in Interrupts : Call(i) \/ irqHandler(i)) \/ UNCHANGED vars
  PROVE  TypeOK' /\ KernelInv'
<1> USE DEF TypeOK, KernelInv, OneCall, InCall, MaskedIsDisabled, Changing, KnownAt,
            tables, hist
<1>1. ASSUME NEW i \in Interrupts, Call(i) PROVE TypeOK' /\ KernelInv'
  BY <1>1 DEF Call
<1>2. ASSUME NEW i \in Interrupts, irqHandler(i) PROVE TypeOK' /\ KernelInv'
  BY <1>2 DEF irqHandler
<1>3. CASE UNCHANGED vars
  BY <1>3 DEF vars
<1> QED
  BY <1>1, <1>2, <1>3

LEMMA KernelInit ==
  ASSUME Init
  PROVE  TypeOK /\ KernelInv
<1>1. TypeOK
  BY IrqAssumption DEF Init, TypeOK, Calls, Idle
<1>2. KernelInv
  BY DEF Init, KernelInv, OneCall, InCall, MaskedIsDisabled, KnownAt, Idle
<1> QED
  BY <1>1, <1>2

LEMMA KernelInvariant == Spec => [](TypeOK /\ KernelInv)
<1>1. Init => TypeOK /\ KernelInv
  BY KernelInit
<1>2. TypeOK /\ KernelInv /\ [Next]_vars => (TypeOK /\ KernelInv)'
  BY StepCases, TypeStep, KernelStep, OtherSteps
<1> QED
  BY <1>1, <1>2, PTL DEF Spec

(* The driver's tables, the kernel's disable depths and the calls keep     *)
(* within their types, whatever calls overlap.                             *)
THEOREM TypeCorrect == Spec => []TypeOK
BY KernelInvariant, PTL

(* The check-then-act of MASK_IRQ and UNMASK_IRQ, which nothing locks,     *)
(* keeps irqMasked right for each interrupt for which no two calls ever    *)
(* overlapped, whatever overlapped for the others.                         *)
THEOREM MaskedAgrees == Spec => []MaskedIsDisabled
<1>1. KernelInv => MaskedIsDisabled
  BY DEF KernelInv
<1> QED
  BY <1>1, KernelInvariant, PTL

-----------------------------------------------------------------------------
(* The bit of an interrupt is in INT_TAB_ENABLE, and in every value that   *)
(* will be written to it, from the write of an irq_enable that did not     *)
(* race to irq_disable.                                                    *)
Disabling(t) == call[t].at \in {"disable_write", "mask", "disable_irq", "masked"}
Written(i) ==
  \E t \in Thread : call[t].irq = i /\ call[t].at \in {"unmask", "enable_irq", "unmasked"}

NotEnabled(t) == Disabling(t) => call[t].irq \notin enabled
EnabledOpen   == \A i \in enabled : i \notin collided /\ depth[i] = 0
Races ==
  \A t, u \in Thread : t # u /\ At(t, "enable_write") /\ Modifies(u) =>
    call[t].irq \in raced \cup collided
BitKept ==
  \A i \in Interrupts \ (raced \cup collided) : i \in enabled \/ Written(i) =>
    /\ i \in INT_TAB_ENABLE
    /\ \A u \in Thread : Modifies(u) => i \in call[u].reg

RegisterInv ==
  /\ \A t \in Thread : NotEnabled(t)
  /\ EnabledOpen /\ Races /\ BitKept

(* The steps that change the register or the histories; the others leave   *)
(* them alone, and bring no call nearer to them.                           *)
Registers(t) ==
  \/ EnableWrite(t) \/ DisableWrite(t) \/ UNMASK_IRQ(t) \/ Unmasked(t)
  \/ \E i \in Interrupts : irq_enable(t, i) \/ irq_disable(t, i)

Past == {"unmask", "enable_irq", "unmasked"}

Quiet(t) ==
  /\ UNCHANGED <<INT_TAB_ENABLE, enabled, collided, raced>>
  /\ \A u \in Thread \ {t} : call'[u] = call[u]
  /\ ~Modifies(t)'
  /\ Disabling(t)' => Disabling(t) /\ call'[t].irq = call[t].irq
  /\ call'[t].at \in Past => call[t].at \in Past /\ call'[t].irq = call[t].irq

LEMMA QuietSteps ==
  ASSUME TypeOK, NEW t \in Thread, StepOf(t), ~Registers(t)
  PROVE  Quiet(t)
<1> USE DEF TypeOK, Calls, At, Go, Return, Idle, hist, Disabling, Modifies, Quiet, Past
<1>1. CASE enable_irq(t)
  BY <1>1 DEF enable_irq
<1>2. CASE MASK_IRQ(t)
  BY <1>2 DEF MASK_IRQ
<1>3. CASE disable_irq(t)
  BY <1>3 DEF disable_irq
<1>4. CASE Masked(t)
  BY <1>4 DEF Masked
<1>5. CASE Wake(t)
  BY <1>5 DEF Wake
<1>6. CASE Woken(t)
  BY <1>6 DEF Woken
<1>7. CASE Signal(t)
  BY <1>7 DEF Signal
<1>8. ASSUME NEW i \in Interrupts, irq_wait(t, i) PROVE Quiet(t)
  BY <1>8 DEF irq_wait
<1>9. ASSUME NEW i \in Interrupts, irq_cancel(t, i) PROVE Quiet(t)
  BY <1>9 DEF irq_cancel
<1>10. ASSUME NEW i \in Interrupts, irq_clear(t, i) PROVE Quiet(t)
  BY <1>10 DEF irq_clear
<1> QED
  BY <1>1, <1>2, <1>3, <1>4, <1>5, <1>6, <1>7, <1>8, <1>9, <1>10
  DEF StepOf, Continue, Starts, Registers

LEMMA NotEnabledStep ==
  ASSUME TypeOK, KernelInv, RegisterInv, NEW t \in Thread, StepOf(t)
  PROVE  \A u \in Thread : NotEnabled(u)'
<1>0. OneCall /\ \A u \in Thread : NotEnabled(u)
  BY DEF KernelInv, RegisterInv
<1> USE IrqAssumption, <1>0
<1> USE DEF TypeOK, Calls, InCall, OneCall, NotEnabled, Disabling
<1>1. CASE EnableWrite(t)
  BY <1>1 DEF EnableWrite, WriteEnable, At, Go, Return, Idle, tables, hist
<1>2. CASE DisableWrite(t)
  BY <1>2 DEF DisableWrite, At, Go, Return, Idle, tables, hist
<1>3. CASE UNMASK_IRQ(t)
  BY <1>3 DEF UNMASK_IRQ, Enabled, At, Go, Return, Idle, tables, hist
<1>4. CASE Unmasked(t)
  BY <1>4 DEF Unmasked, Enabled, At, Go, Return, Idle, tables, hist
<1>5. ASSUME NEW i \in Interrupts, irq_enable(t, i) PROVE \A u \in Thread : NotEnabled(u)'
  BY <1>5 DEF irq_enable, ReadEnable, Enabling, At
<1>6. ASSUME NEW i \in Interrupts, irq_disable(t, i) PROVE \A u \in Thread : NotEnabled(u)'
  BY <1>6 DEF irq_disable, ReadEnable, Enabling, At
<1>7. CASE ~Registers(t)
  <2>1. Quiet(t)
    BY <1>7, QuietSteps
  <2> QED
    BY <2>1 DEF Quiet, Past, At
<1> QED
  BY <1>1, <1>2, <1>3, <1>4, <1>5, <1>6, <1>7 DEF Registers

LEMMA RacesStep ==
  ASSUME TypeOK, KernelInv, RegisterInv, NEW t \in Thread, StepOf(t)
  PROVE  Races'
<1>0. OneCall /\ Races
  BY DEF KernelInv, RegisterInv
<1> USE IrqAssumption, <1>0
<1> USE DEF TypeOK, Calls, InCall, OneCall, Races, Modifies
<1>1. CASE EnableWrite(t)
  BY <1>1 DEF EnableWrite, WriteEnable, At, Go, Return, Idle, tables, hist
<1>2. CASE DisableWrite(t)
  BY <1>2 DEF DisableWrite, At, Go, Return, Idle, tables, hist
<1>3. CASE UNMASK_IRQ(t)
  BY <1>3 DEF UNMASK_IRQ, Enabled, At, Go, Return, Idle, tables, hist
<1>4. CASE Unmasked(t)
  BY <1>4 DEF Unmasked, Enabled, At, Go, Return, Idle, tables, hist
<1>5. ASSUME NEW i \in Interrupts, irq_enable(t, i) PROVE Races'
  BY <1>5 DEF irq_enable, ReadEnable, Enabling, At
<1>6. ASSUME NEW i \in Interrupts, irq_disable(t, i) PROVE Races'
  BY <1>6 DEF irq_disable, ReadEnable, Enabling, At
<1>7. CASE ~Registers(t)
  <2>1. Quiet(t)
    BY <1>7, QuietSteps
  <2> QED
    BY <2>1 DEF Quiet, Past, At
<1> QED
  BY <1>1, <1>2, <1>3, <1>4, <1>5, <1>6, <1>7 DEF Registers

LEMMA BitKeptStep ==
  ASSUME TypeOK, KernelInv, RegisterInv, NEW t \in Thread, StepOf(t)
  PROVE  BitKept'
<1>0. OneCall /\ Races /\ BitKept /\ EnabledOpen /\ NotEnabled(t)
  BY DEF KernelInv, RegisterInv
<1> USE IrqAssumption, <1>0
<1> USE DEF TypeOK, Calls, InCall, OneCall, Races, BitKept, Written, Modifies, EnabledOpen, NotEnabled, Disabling
<1>1. CASE EnableWrite(t)
  BY <1>1 DEF EnableWrite, WriteEnable, At, Go, Return, Idle, tables, hist
<1>2. CASE DisableWrite(t)
  BY <1>2 DEF DisableWrite, At, Go, Return, Idle, tables, hist
<1>3. CASE UNMASK_IRQ(t)
  BY <1>3 DEF UNMASK_IRQ, Enabled, At, Go, Return, Idle, tables, hist
<1>4. CASE Unmasked(t)
  BY <1>4 DEF Unmasked, Enabled, At, Go, Return, Idle, tables, hist
<1>5. ASSUME NEW i \in Interrupts, irq_enable(t, i) PROVE BitKept'
  BY <1>5 DEF irq_enable, ReadEnable, Enabling, At
<1>6. ASSUME NEW i \in Interrupts, irq_disable(t, i) PROVE BitKept'
  BY <1>6 DEF irq_disable, ReadEnable, Enabling, At
<1>7. CASE ~Registers(t)
  <2>1. Quiet(t)
    BY <1>7, QuietSteps
  <2> QED
    BY <2>1 DEF Quiet, Past, At
<1> QED
  BY <1>1, <1>2, <1>3, <1>4, <1>5, <1>6, <1>7 DEF Registers

LEMMA EnabledOpenStep ==
  ASSUME TypeOK, KernelInv, RegisterInv, NEW t \in Thread, StepOf(t)
  PROVE  EnabledOpen'
<1>0. call[t].irq \in Interrupts \ collided /\ InCall(t, call[t].irq) =>
        call[t].at \in {"unmasked", "masked"} \/ Agree(call[t].irq)
  BY CallerAgrees
<1>00. KnownAt(t) /\ NotEnabled(t) /\ EnabledOpen
  BY DEF KernelInv, RegisterInv
<1> USE IrqAssumption, <1>0, <1>00
<1> USE DEF TypeOK, Calls, At, Go, Return, Idle, tables, hist, InCall, Agree,
            KnownAt, NotEnabled, EnabledOpen, Disabling
<1>1. CASE EnableWrite(t)
  BY <1>1 DEF EnableWrite, WriteEnable
<1>2. CASE DisableWrite(t)
  BY <1>2 DEF DisableWrite
<1>3. CASE UNMASK_IRQ(t)
  BY <1>3 DEF UNMASK_IRQ, Enabled
<1>4. CASE enable_irq(t)
  BY <1>4 DEF enable_irq
<1>5. CASE Unmasked(t)
  BY <1>5 DEF Unmasked, Enabled
<1>6. CASE MASK_IRQ(t)
  BY <1>6 DEF MASK_IRQ
<1>7. CASE disable_irq(t)
  BY <1>7 DEF disable_irq
<1>8. CASE Masked(t)
  BY <1>8 DEF Masked
<1>9. CASE Wake(t)
  BY <1>9 DEF Wake
<1>10. CASE Woken(t)
  BY <1>10 DEF Woken
<1>11. CASE Signal(t)
  BY <1>11 DEF Signal
<1>12. ASSUME NEW i \in Interrupts, irq_enable(t, i) PROVE EnabledOpen'
  BY <1>12 DEF irq_enable, ReadEnable, Enabling
<1>13. ASSUME NEW i \in Interrupts, irq_disable(t, i) PROVE EnabledOpen'
  BY <1>13 DEF irq_disable, ReadEnable, Enabling
<1>14. ASSUME NEW i \in Interrupts, irq_wait(t, i) PROVE EnabledOpen'
  BY <1>14 DEF irq_wait
<1>15. ASSUME NEW i \in Interrupts, irq_cancel(t, i) PROVE EnabledOpen'
  BY <1>15 DEF irq_cancel
<1>16. ASSUME NEW i \in Interrupts, irq_clear(t, i) PROVE EnabledOpen'
  BY <1>16 DEF irq_clear
<1> QED
  BY <1>1, <1>2, <1>3, <1>4, <1>5, <1>6, <1>7, <1>8, <1>9, <1>10,
     <1>11, <1>12, <1>13, <1>14, <1>15, <1>16
  DEF StepOf, Continue, Starts

LEMMA RegisterStep ==
  ASSUME TypeOK, KernelInv, RegisterInv, [Next]_vars
  PROVE  RegisterInv'
<1>1. ASSUME NEW t \in Thread, StepOf(t) PROVE RegisterInv'
  BY <1>1, NotEnabledStep, EnabledOpenStep, RacesStep, BitKeptStep DEF RegisterInv
<1>2. ASSUME NEW i \in Interrupts, Call(i) \/ irqHandler(i) PROVE RegisterInv'
  BY <1>2 DEF Call, irqHandler, RegisterInv, NotEnabled, Disabling, EnabledOpen,
              Races, BitKept, Written, Modifies, At, tables, hist
<1>3. CASE UNCHANGED vars
  BY <1>3 DEF vars, tables, hist, RegisterInv, NotEnabled, Disabling, EnabledOpen,
              Races, BitKept, Written, Modifies, At
<1> QED
  BY <1>1, <1>2, <1>3, StepCases

(* An interrupt stays enabled in the card and in the kernel from the       *)
(* return of irq_enable to irq_disable, whatever the other threads do with *)
(* the other interrupts, races on INT_TAB_ENABLE included, unless an       *)
(* irq_enable of its own raced or two calls for it overlapped.             *)
THEOREM StaysEnabled == Spec => []EnabledUntilDisabled
<1>1. Init => RegisterInv
  <2> SUFFICES ASSUME Init PROVE RegisterInv
    OBVIOUS
  <2>1. enabled = {} /\ \A t \in Thread : call[t].at = "idle"
    BY DEF Init, Idle
  <2> QED
    BY <2>1 DEF RegisterInv, NotEnabled, Disabling, EnabledOpen, Races, BitKept,
                Written, Modifies, At
<1>2. TypeOK /\ KernelInv /\ RegisterInv /\ [Next]_vars => RegisterInv'
  BY RegisterStep
<1>3. TypeOK /\ RegisterInv => EnabledUntilDisabled
  BY DEF TypeOK, RegisterInv, EnabledOpen, BitKept, EnabledUntilDisabled
<1>4. Spec => [](TypeOK /\ KernelInv)
  BY KernelInvariant
<1> QED
  BY <1>1, <1>2, <1>3, <1>4, PTL DEF Spec

=============================================================================
