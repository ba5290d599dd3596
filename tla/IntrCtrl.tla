------------------------------ MODULE IntrCtrl ------------------------------
(***************************************************************************)
(* The interrupt controller of the firmware                                *)
(* (firmware/sources/pcie/intr_ctrl.vhd) and the data-available interrupts *)
(* that dma_control.vhd raises for it.                                     *)
(*                                                                         *)
(* A step is one clock of the 250 MHz domain; every Ratio-th of them is    *)
(* also an edge of regmap_clk.  Both processes read the registers as they  *)
(* were before the step.                                                   *)
(***************************************************************************)
EXTENDS Integers

CONSTANTS
  NumberOfInterrupts,
  NToHost,   \* ToHost descriptors: interrupt d says that descriptor d has data
  Ratio,     \* clocks of clk in one of regmap_clk: 10
  Timeout,   \* the interrupt timeout in clocks of regmap_clk: 15
  MaxBusy    \* the AXI buses offer two idle clocks within MaxBusy clocks of clk

Interrupts == 0 .. NumberOfInterrupts - 1
ToHost     == 0 .. NToHost - 1

ASSUME SizeAssumption ==
  /\ NumberOfInterrupts \in Nat \ {0} /\ NToHost \in 1 .. NumberOfInterrupts
ASSUME TimeAssumption ==
  Ratio \in Nat \ {0} /\ Timeout \in Nat \ {0} /\ MaxBusy \in Nat \ {0, 1}

VARIABLES
  phase,                \* clocks since the last edge of regmap_clk
  msix_enable,          \* cfg_interrupt_msix_enable is "0001"
  fifo_empty,           \* the last three samples of each FIFO's empty flag
  mask_data_available,  \* the interrupts that wait for a write to BAR0
  interrupt_call,       \* the calls that the controller sees at the next edge
  latch,                \* s_interrupt_latch
  pending, timeout,     \* s_interrupt_pending, v_interrupt_timeout
  fire, int_s,          \* v_cfg_interrupt_msix_int, s_cfg_interrupt_msix_int
  vector,               \* the interrupt whose address and data are selected
  clear_pending, request_int, int_p1, axi_busy_p1,  \* regSync250
  busy_for,             \* clocks since the AXI buses were last idle for two
  msix_int,             \* cfg_interrupt_msix_int: a message is sent
  taken                 \* history: interrupts taken from the latch, not yet sent

regmap == <<msix_enable, fifo_empty, mask_data_available, interrupt_call, latch,
            pending, timeout, fire, int_s, vector>>
sync   == <<clear_pending, request_int, int_p1, axi_busy_p1, busy_for, msix_int>>
vars   == <<phase, regmap, sync, taken>>

Init ==
  /\ phase = 0 /\ msix_enable \in BOOLEAN
  /\ fifo_empty = [d \in ToHost |-> <<TRUE, TRUE, TRUE>>]
  /\ mask_data_available = {} /\ interrupt_call = {} /\ latch = {}
  /\ pending = FALSE /\ timeout = 0 /\ fire = FALSE /\ int_s = FALSE
  /\ vector = 0
  /\ clear_pending = FALSE /\ request_int = FALSE /\ int_p1 = FALSE
  /\ axi_busy_p1 = FALSE /\ busy_for = 0 /\ msix_int = FALSE
  /\ taken = {}

-----------------------------------------------------------------------------
\* FIFO d is not empty any more, and its interrupt is not masked.
Filled(d) ==
  fifo_empty[d][1] /\ ~fifo_empty[d][2] /\ d \notin mask_data_available

\* regSync25: the FIFOs in empty are empty, the user logic or INT_TEST calls
\* the interrupts in calls, bar0_written says that BAR0 is written.
DataAvailable(empty, calls, bar0_written) ==
  LET filled == {d \in ToHost : Filled(d)} IN
  /\ fifo_empty' = [d \in ToHost |->
                      <<fifo_empty[d][2], fifo_empty[d][3], d \in empty>>]
  /\ mask_data_available' =
       (IF bar0_written THEN {} ELSE mask_data_available) \cup filled
  /\ interrupt_call' = filled \cup calls

\* A slip: the message on its way is not waited for.
CanFireAlways == msix_enable /\ latch # {}

CanFire == msix_enable /\ latch # {} /\ ~int_s /\ ~pending

First == CHOOSE i \in latch : \A j \in latch : i <= j

\* intr, while the core has MSI-X enabled: the first latched interrupt is
\* selected, and fires a clock later ...
Fire(called) ==
  /\ CanFire
  /\ latch' = (latch \cup called) \ {First}
  /\ vector' = First
  /\ fire' = TRUE /\ pending' = TRUE /\ timeout' = Timeout - 1

\* Slips: the countdown runs below 0; the clear is a pulse of one clock of clk.
LatchBelow(called) ==
  /\ ~CanFire /\ latch' = latch \cup called /\ fire' = FALSE
  /\ pending' = (pending /\ ~clear_pending /\ timeout # 0)
  /\ timeout' = timeout - 1 /\ UNCHANGED vector

LatchPulse(called) ==
  /\ ~CanFire /\ latch' = latch \cup called /\ fire' = FALSE
  /\ pending' = (pending /\ ~msix_int)
  /\ timeout' = (IF timeout > 0 THEN timeout - 1 ELSE 0) /\ UNCHANGED vector

\* ... once the previous one was sent or timed out.
Latch(called) ==
  /\ ~CanFire
  /\ latch' = latch \cup called
  /\ fire' = FALSE
  /\ pending' = (pending /\ ~clear_pending /\ timeout # 0)
  /\ timeout' = IF timeout > 0 THEN timeout - 1 ELSE 0
  /\ UNCHANGED vector

Intr(interrupt_table_en) ==
  /\ LET called == IF msix_enable THEN interrupt_call \cap interrupt_table_en ELSE {}
     IN Fire(called) \/ Latch(called)
  /\ int_s' = fire

\* Two idle clocks: not in between two TLPs of the DMA
Send(busy) == request_int /\ ~busy /\ ~axi_busy_p1

\* A slip: a request is not taken back when it was answered.
RequestAgain(busy) == request_int \/ (~int_p1 /\ int_s)

Request(busy) == (request_int /\ ~Send(busy)) \/ (~int_p1 /\ int_s)

\* regSync250
SyncClock(busy) ==
  /\ busy => busy_for + 2 <= MaxBusy
  /\ busy_for' = IF busy \/ axi_busy_p1 THEN busy_for + 1 ELSE 0
  /\ msix_int' = Send(busy)
  /\ clear_pending' = (Send(busy) \/ (clear_pending /\ pending))
  /\ request_int' = Request(busy)
  /\ int_p1' = int_s
  /\ axi_busy_p1' = busy

Taken(i) == taken' = (IF msix_int THEN taken \ {vector} ELSE taken) \cup i

\* An edge of regmap_clk
Edge(busy) ==
  /\ phase = 0 /\ phase' = 1 % Ratio
  /\ SyncClock(busy)
  /\ \E empty \in SUBSET ToHost, calls, en \in SUBSET Interrupts, bar0 \in BOOLEAN :
       DataAvailable(empty, calls, bar0) /\ Intr(en)
  /\ msix_enable' \in BOOLEAN
  /\ Taken(IF CanFire THEN {First} ELSE {})

\* A clock between two edges
Between(busy) ==
  /\ phase # 0 /\ phase' = (phase + 1) % Ratio
  /\ SyncClock(busy)
  /\ Taken({})
  /\ UNCHANGED regmap

Clock == \E busy \in BOOLEAN : Edge(busy) \/ Between(busy)

Next == Clock

\* The clocks run.
Spec == Init /\ [][Next]_vars /\ WF_vars(Clock)

-----------------------------------------------------------------------------
TypeOK ==
  /\ phase \in 0 .. Ratio - 1 /\ msix_enable \in BOOLEAN
  /\ fifo_empty \in [ToHost -> BOOLEAN \X BOOLEAN \X BOOLEAN]
  /\ mask_data_available \subseteq ToHost
  /\ interrupt_call \subseteq Interrupts /\ latch \subseteq Interrupts
  /\ pending \in BOOLEAN /\ timeout \in 0 .. Timeout - 1
  /\ fire \in BOOLEAN /\ int_s \in BOOLEAN /\ vector \in Interrupts
  /\ clear_pending \in BOOLEAN /\ request_int \in BOOLEAN /\ int_p1 \in BOOLEAN
  /\ axi_busy_p1 \in BOOLEAN /\ busy_for \in 0 .. MaxBusy
  /\ msix_int \in BOOLEAN /\ taken \subseteq Interrupts

\* The message of the selected vector is still to be sent.
OnItsWay == fire \/ (int_s /\ ~int_p1) \/ request_int \/ msix_int

(* No interrupt is lost, and no message carries another's vector: an       *)
(* interrupt taken from the latch stays selected until its message is sent *)
(* ("All Interrupts are fired when enough data has arrived",               *)
(* design.tex:155).                                                        *)
NoLostInterrupt == taken \subseteq (IF OnItsWay THEN {vector} ELSE {})

(* One message for each: a call "will fire a single interrupt"             *)
(* (design.tex:157), whatever the two clock domains hand back and forth.   *)
NoSpuriousInterrupt == msix_int => vector \in taken

(* A latched interrupt is followed by its message, or by those of more     *)
(* urgent ones for ever, unless MSI-X is disabled: the hand-shake between  *)
(* the clock domains never jams the controller.                            *)
Answered ==
  \A i \in Interrupts : i \in latch ~> (msix_int /\ vector <= i) \/ ~msix_enable

=============================================================================
