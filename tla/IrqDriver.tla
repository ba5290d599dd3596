----------------------------- MODULE IrqDriver -----------------------------
(***************************************************************************)
(* Waiting for an interrupt: the irq_* functions of WupperCard.cpp, the    *)
(* ioctls and the handler of the driver (drivers/src/wupper.c) under them, *)
(* and what they take from the kernel and from the interrupt controller.   *)
(*                                                                         *)
(* A thread is in one call at a time, and a call is as many steps as it    *)
(* has accesses to state that other threads, the handler or the card share.*)
(* ALL_IRQS is a sequence of calls, one for each interrupt.                *)
(***************************************************************************)
EXTENDS Integers

CONSTANTS
  Interrupts,
  Thread,    \* the threads of the applications; each may use every interrupt
  After      \* a bound: are interrupts also enabled and disabled after two calls
             \* for one of them have overlapped?

ASSUME IrqAssumption == Interrupts # {} /\ After \in BOOLEAN

VARIABLES
  irqFlag, irqMasked,   \* the driver's tables, as sets of interrupts
  depth,                \* the kernel: how often an interrupt is disabled
  held,                 \* the kernel: interrupts that came while disabled
  INT_TAB_ENABLE,       \* the register of the card
  sent,                 \* messages of the controller that are not handled yet
  call,                 \* what each thread is doing, and for which interrupt
  enabled,              \* history: interrupts outside collided whose irq_enable
                        \* returned, and whose irq_disable was not called
  collided,             \* history: interrupts for which two calls overlapped
  raced                 \* history: interrupts that an irq_enable, since the last
                        \* irq_disable, changed in INT_TAB_ENABLE while another
                        \* thread was between its read and its write, too

tables == <<irqFlag, irqMasked, depth, held>>
hist   == <<enabled, collided, raced>>
vars   == <<tables, INT_TAB_ENABLE, sent, call, hist>>

Idle == [at |-> "idle", irq |-> CHOOSE i \in Interrupts : TRUE, reg |-> {}]

Init ==
  /\ irqFlag = {} /\ irqMasked = Interrupts
  /\ depth = [i \in Interrupts |-> 1] /\ held = {}
  /\ INT_TAB_ENABLE = {} /\ sent = {}
  /\ call = [t \in Thread |-> Idle]
  /\ enabled = {} /\ collided = {} /\ raced = {}

-----------------------------------------------------------------------------
At(t, label) == call[t].at = label
Go(t, label) == call' = [call EXCEPT ![t].at = label, ![t].reg = {}]
Return(t)    == call' = [call EXCEPT ![t] = Idle]

Modifies(t) == At(t, "enable_write") \/ At(t, "disable_write")

\* A call of irq_enable or irq_disable for interrupt i is under way.
InCall(t, i) == call[t].irq = i /\ call[t].at \notin {"idle", "wait", "woken"}

\* The read of INT_TAB_ENABLE |= ... or &= ..., the first access of a call
ReadEnable(t, i, label) ==
  /\ At(t, "idle")
  /\ call' = [call EXCEPT ![t] = [at |-> label, irq |-> i, reg |-> INT_TAB_ENABLE]]
  /\ collided' = IF \E u \in Thread : InCall(u, i) THEN collided \cup {i} ELSE collided
  /\ UNCHANGED <<tables, INT_TAB_ENABLE, sent>>

\* The interrupts that an irq_enable is changing in INT_TAB_ENABLE
Enabling == {call[u].irq : u \in {u \in Thread : At(u, "enable_write")}}

irq_enable(t, i) ==
  LET now == Enabling \cup IF \E u \in Thread : Modifies(u) THEN {i} ELSE {} IN
  /\ ReadEnable(t, i, "enable_write")
  /\ raced' = (raced \cup now) \ collided'
  /\ enabled' = enabled \ collided'

irq_disable(t, i) ==
  /\ ReadEnable(t, i, "disable_write")
  /\ raced' = (raced \cup Enabling) \ (collided' \cup {i})
  /\ enabled' = enabled \ (collided' \cup {i})

\* Slips: the register is written, not modified; the next bit is set.
WriteOne(t)  == INT_TAB_ENABLE' = {call[t].irq}
WriteNext(t) == INT_TAB_ENABLE' = call[t].reg \cup {call[t].irq + 1}

WriteEnable(t) == INT_TAB_ENABLE' = call[t].reg \cup {call[t].irq}

EnableWrite(t) ==
  /\ At(t, "enable_write") /\ WriteEnable(t) /\ Go(t, "unmask")
  /\ UNCHANGED <<tables, sent, hist>>

DisableWrite(t) ==
  /\ At(t, "disable_write")
  /\ INT_TAB_ENABLE' = call[t].reg \ {call[t].irq}
  /\ Go(t, "mask")
  /\ UNCHANGED <<tables, sent, hist>>

\* irq_enable returns.
Enabled(i) == enabled' = (enabled \cup {i}) \ collided

\* UNMASK_IRQ: the check of irqMasked ...
UNMASK_IRQ(t) ==
  LET i == call[t].irq IN
  /\ At(t, "unmask")
  /\ \/ i \in irqMasked /\ Go(t, "enable_irq") /\ UNCHANGED enabled
     \/ i \notin irqMasked /\ Return(t) /\ Enabled(i)
  /\ UNCHANGED <<tables, INT_TAB_ENABLE, sent, collided, raced>>

\* ... enable_irq, at which the kernel replays what it held ...
enable_irq(t) ==
  LET i == call[t].irq IN
  /\ At(t, "enable_irq") /\ Go(t, "unmasked")
  /\ depth' = [depth EXCEPT ![i] = IF @ > 0 THEN @ - 1 ELSE 0]
  /\ held' = IF depth'[i] = 0 THEN held \ {i} ELSE held
  /\ sent' = IF depth'[i] = 0 /\ i \in held THEN sent \cup {i} ELSE sent
  /\ UNCHANGED <<irqFlag, irqMasked, INT_TAB_ENABLE, hist>>

\* ... and the update of irqMasked.
Unmasked(t) ==
  LET i == call[t].irq IN
  /\ At(t, "unmasked") /\ Return(t)
  /\ irqMasked' = irqMasked \ {i} /\ Enabled(i)
  /\ UNCHANGED <<irqFlag, depth, held, INT_TAB_ENABLE, sent, collided, raced>>

\* A slip: the check of irqMasked is left out.
MaskAlways(t) ==
  /\ At(t, "mask") /\ Go(t, "disable_irq")
  /\ UNCHANGED <<tables, INT_TAB_ENABLE, sent, hist>>

MASK_IRQ(t) ==
  /\ At(t, "mask")
  /\ \/ call[t].irq \notin irqMasked /\ Go(t, "disable_irq")
     \/ call[t].irq \in irqMasked /\ Return(t)
  /\ UNCHANGED <<tables, INT_TAB_ENABLE, sent, hist>>

disable_irq(t) ==
  LET i == call[t].irq IN
  /\ At(t, "disable_irq") /\ Go(t, "masked")
  /\ depth' = [depth EXCEPT ![i] = @ + 1]
  /\ UNCHANGED <<irqFlag, irqMasked, held, INT_TAB_ENABLE, sent, hist>>

Masked(t) ==
  /\ At(t, "masked") /\ Return(t)
  /\ irqMasked' = irqMasked \cup {call[t].irq}
  /\ UNCHANGED <<irqFlag, depth, held, INT_TAB_ENABLE, sent, hist>>

\* WAIT_IRQ: wait_event_interruptible ...
irq_wait(t, i) ==
  /\ At(t, "idle")
  /\ call' = [call EXCEPT ![t] = [at |-> "wait", irq |-> i, reg |-> {}]]
  /\ UNCHANGED <<tables, INT_TAB_ENABLE, sent, hist>>

Wake(t) ==
  /\ At(t, "wait") /\ call[t].irq \in irqFlag /\ Go(t, "woken")
  /\ UNCHANGED <<tables, INT_TAB_ENABLE, sent, hist>>

\* A signal ends the wait too: its result is not looked at.
Signal(t) ==
  /\ At(t, "wait") /\ Go(t, "woken")
  /\ UNCHANGED <<tables, INT_TAB_ENABLE, sent, hist>>

\* ... and the reset of irqFlag.
Woken(t) ==
  /\ At(t, "woken") /\ Return(t)
  /\ irqFlag' = irqFlag \ {call[t].irq}
  /\ UNCHANGED <<irqMasked, depth, held, INT_TAB_ENABLE, sent, hist>>

Waiting(i) == \E t \in Thread : At(t, "wait") /\ call[t].irq = i

\* To be called only if an application is blocked (WupperCard.h:770)
irq_cancel(t, i) ==
  /\ At(t, "idle") /\ Waiting(i)
  /\ irqFlag' = irqFlag \cup {i}
  /\ UNCHANGED <<irqMasked, depth, held, INT_TAB_ENABLE, sent, call, hist>>

\* To be called only if no application waits (WupperCard.h:754)
irq_clear(t, i) ==
  /\ At(t, "idle") /\ ~Waiting(i)
  /\ irqFlag' = irqFlag \ {i}
  /\ UNCHANGED <<irqMasked, depth, held, INT_TAB_ENABLE, sent, call, hist>>

-----------------------------------------------------------------------------
\* The controller latches a call of an enabled interrupt.
Call(i) ==
  /\ i \in INT_TAB_ENABLE
  /\ sent' = sent \cup {i}
  /\ UNCHANGED <<tables, INT_TAB_ENABLE, call, hist>>

\* A slip: the interrupt is recorded for a thread that waits already.
HandlerForWaiting(i) ==
  /\ i \in sent /\ sent' = sent \ {i}
  /\ \/ depth[i] = 0 /\ Waiting(i) /\ irqFlag' = irqFlag \cup {i} /\ UNCHANGED held
     \/ depth[i] = 0 /\ ~Waiting(i) /\ UNCHANGED <<irqFlag, held>>
     \/ depth[i] > 0 /\ held' = held \cup {i} /\ UNCHANGED irqFlag
  /\ UNCHANGED <<irqMasked, depth, INT_TAB_ENABLE, call, hist>>

\* Its message reaches the kernel, which runs the handler or holds it.
irqHandler(i) ==
  /\ i \in sent /\ sent' = sent \ {i}
  /\ \/ depth[i] = 0 /\ irqFlag' = irqFlag \cup {i} /\ UNCHANGED held
     \/ depth[i] > 0 /\ held' = held \cup {i} /\ UNCHANGED irqFlag
  /\ UNCHANGED <<irqMasked, depth, INT_TAB_ENABLE, call, hist>>

\* A call that began goes on, unless it waits.
Continue(t) ==
  \/ EnableWrite(t) \/ UNMASK_IRQ(t) \/ enable_irq(t) \/ Unmasked(t)
  \/ DisableWrite(t) \/ MASK_IRQ(t) \/ disable_irq(t) \/ Masked(t)
  \/ Wake(t) \/ Woken(t)

Start(t) == \E i \in Interrupts :
  \/ (collided = {} \/ After) /\ (irq_enable(t, i) \/ irq_disable(t, i))
  \/ irq_wait(t, i) \/ irq_cancel(t, i) \/ irq_clear(t, i)

Next ==
  \/ \E t \in Thread : Continue(t) \/ Start(t) \/ Signal(t)
  \/ \E i \in Interrupts : Call(i) \/ irqHandler(i)

\* The threads run, and messages arrive.
Spec ==
  /\ Init /\ [][Next]_vars
  /\ \A t \in Thread : WF_vars(Continue(t))
  /\ \A i \in Interrupts : WF_vars(irqHandler(i))

-----------------------------------------------------------------------------
Calls ==
  [at  : {"idle", "enable_write", "unmask", "enable_irq", "unmasked",
          "disable_write", "mask", "disable_irq", "masked", "wait", "woken"},
   irq : Interrupts, reg : SUBSET Interrupts]

TypeOK ==
  /\ irqFlag \subseteq Interrupts /\ irqMasked \subseteq Interrupts
  /\ depth \in [Interrupts -> Nat]
  /\ held \subseteq Interrupts /\ sent \subseteq Interrupts
  /\ INT_TAB_ENABLE \subseteq Interrupts /\ enabled \subseteq Interrupts
  /\ collided \subseteq Interrupts /\ raced \subseteq Interrupts
  /\ call \in [Thread -> Calls]

\* A call is changing how the kernel has interrupt i.
Changing(i) ==
  \E t \in Thread : call[t].at \in {"unmasked", "masked"} /\ call[t].irq = i

(* The driver knows whether an interrupt is disabled: "check that          *)
(* interrupt was not already masked" (wupper.c:1234) keeps the kernel's    *)
(* depth at 0 or 1.  The check, the call of the kernel and the update of   *)
(* irqMasked are not locked, so two calls for one interrupt at the same    *)
(* time may break it for that interrupt, and for no other.                 *)
MaskedIsDisabled ==
  \A i \in Interrupts \ collided :
    Changing(i) \/ depth[i] = (IF i \in irqMasked THEN 1 ELSE 0)

(* "If called with interrupt set to the number of an interrupt only this   *)
(* channel will be" enabled or disabled (WupperCard.h:705, 719): from the  *)
(* return of irq_enable until irq_disable, the card and the kernel let the *)
(* interrupt through, whatever others enable and disable, and also when    *)
(* the others race: only an overlap with the change of its own bit, or of  *)
(* two calls for it, may lose it.                                          *)
EnabledUntilDisabled ==
  \A i \in enabled \ raced : i \in INT_TAB_ENABLE /\ depth[i] = 0

(* irq_wait "suspends the execution of a user application until the        *)
(* interrupts [...] has been received by the wupper driver"                *)
(* (WupperCard.h:733): an enabled interrupt is recorded when it is         *)
(* received, whether a thread waits or not, and a thread that waits for a  *)
(* recorded one goes on: no wake-up is lost.                               *)
Delivered ==
  \A i \in Interrupts :
    /\ i \in sent /\ i \in enabled ~> i \in irqFlag \/ i \notin enabled
    /\ i \in irqFlag /\ Waiting(i) ~> i \notin irqFlag

=============================================================================
