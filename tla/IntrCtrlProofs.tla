--------------------------- MODULE IntrCtrlProofs ---------------------------
(***************************************************************************)
(* No interrupt is lost and none is sent twice, for any number of          *)
(* interrupts, any ratio of the clocks and any timeout that is longer than *)
(* the time for which the AXI buses can hold a message back.               *)
(***************************************************************************)
EXTENDS IntrCtrl, WellFoundedInduction, TLAPS

\* Two clocks from fire to the request, one from Send to the message.
Patient == MaxBusy <= Ratio * Timeout - 3

\* Steps before the one that is the next edge of regmap_clk
ToEdge == IF phase = 0 THEN 0 ELSE Ratio - phase

\* Steps before the one that can be the next Fire, if nothing clears pending
FireIn ==
  ToEdge + (IF pending THEN timeout * Ratio + Ratio ELSE IF int_s THEN Ratio ELSE 0)

\* int_s has just gone up, and the other clock domain has not seen it.
Rising == int_s /\ ~int_p1

(***************************************************************************)
(* The life of an interrupt: fire, then Rising, then request_int, then     *)
(* msix_int.  It is in one of these stages at a time; until it is sent the *)
(* controller cannot fire again, and before that the buses must be idle.   *)
(***************************************************************************)
FireInv ==
  fire => /\ pending /\ timeout = Timeout - 1
          /\ ~int_s /\ ~int_p1 /\ ~request_int /\ ~msix_int

RisingInv ==
  Rising => /\ ~fire /\ ~request_int /\ ~msix_int
            /\ FireIn >= MaxBusy + 2

RequestInv ==
  request_int => /\ ~fire /\ ~msix_int
                 /\ FireIn >= MaxBusy - busy_for + 1

MessageInv == msix_int => ~fire

\* What the message clears is what it was sent for.
ClearInv == clear_pending => ~fire /\ ~Rising /\ ~request_int

\* The second of two idle clocks comes before MaxBusy is over.
BusyInv == axi_busy_p1 => busy_for <= MaxBusy - 1

TakenInv == taken = IF OnItsWay THEN {vector} ELSE {}

StageInv ==
  /\ TypeOK /\ FireInv /\ RisingInv /\ RequestInv /\ MessageInv /\ ClearInv
  /\ BusyInv /\ TakenInv

-----------------------------------------------------------------------------
(* Time                                                                    *)

LEMMA NextPhase ==
  ASSUME NEW p \in 0 .. Ratio - 1
  PROVE  (p + 1) % Ratio = IF p + 1 = Ratio THEN 0 ELSE p + 1
<1>1. Ratio \in Nat \ {0} BY TimeAssumption
<1>2. CASE p + 1 = Ratio BY <1>1, <1>2
<1>3. CASE p + 1 # Ratio BY <1>1, <1>3
<1> QED BY <1>2, <1>3

LEMMA Multiples ==
  ASSUME NEW t \in Nat
  PROVE  /\ t * Ratio \in Nat
         /\ t > 0 => (t - 1) * Ratio = t * Ratio - Ratio
BY TimeAssumption

LEMMA TimeTypes ==
  ASSUME TypeOK
  PROVE  /\ ToEdge \in 0 .. Ratio - 1 /\ FireIn \in Nat
         /\ Ratio \in Nat \ {0} /\ Timeout \in Nat \ {0} /\ MaxBusy \in Nat \ {0, 1}
         /\ timeout \in Nat /\ timeout * Ratio \in Nat
<1>1. Ratio \in Nat \ {0} /\ Timeout \in Nat \ {0} /\ MaxBusy \in Nat \ {0, 1}
  BY TimeAssumption
<1>2. phase \in 0 .. Ratio - 1 /\ timeout \in Nat /\ pending \in BOOLEAN
      /\ int_s \in BOOLEAN
  BY <1>1 DEF TypeOK
<1>3. timeout * Ratio \in Nat BY <1>2, Multiples
<1>4. ToEdge \in 0 .. Ratio - 1 BY <1>1, <1>2 DEF ToEdge
<1>5. FireIn \in Nat BY <1>1, <1>2, <1>3, <1>4 DEF FireIn
<1> QED BY <1>1, <1>2, <1>3, <1>4, <1>5

LEMMA SoonerBetween ==
  ASSUME TypeOK, phase # 0, phase' = (phase + 1) % Ratio, UNCHANGED regmap
  PROVE  FireIn' = FireIn - 1
<1>1. /\ phase \in 1 .. Ratio - 1 /\ Ratio \in Nat \ {0} /\ timeout * Ratio \in Nat
      /\ pending \in BOOLEAN /\ int_s \in BOOLEAN
  BY TimeTypes DEF TypeOK
<1>2. phase' = IF phase + 1 = Ratio THEN 0 ELSE phase + 1 BY <1>1, NextPhase
<1>3. ToEdge' = ToEdge - 1 /\ ToEdge \in Int BY <1>1, <1>2 DEF ToEdge
<1>4. UNCHANGED <<pending, timeout, int_s>> BY DEF regmap
<1> QED BY <1>1, <1>3, <1>4 DEF FireIn

LEMMA SoonerEdge ==
  ASSUME TypeOK, FireInv, ~clear_pending, phase = 0, phase' = 1 % Ratio,
         NEW called, Latch(called), int_s' = fire
  PROVE  FireIn' \in Int /\ FireIn' >= FireIn - 1
<1>1. /\ Ratio \in Nat \ {0} /\ timeout \in Nat /\ timeout * Ratio \in Nat
      /\ pending \in BOOLEAN /\ int_s \in BOOLEAN /\ fire \in BOOLEAN
  BY TimeTypes DEF TypeOK
<1>2. ToEdge = 0 /\ ToEdge' = Ratio - 1
  <2>1. 1 % Ratio = IF Ratio = 1 THEN 0 ELSE 1 BY <1>1, NextPhase
  <2> QED BY <2>1, <1>1 DEF ToEdge
<1>3. CASE pending /\ timeout > 0
  <2>0. timeout # 0 BY <1>1, <1>3
  <2>3. pending' BY <1>3, <2>0 DEF Latch
  <2>4. timeout' = timeout - 1 BY <1>3 DEF Latch
  <2>1. pending' /\ timeout' = timeout - 1 BY <2>3, <2>4
  <2>2. (timeout - 1) * Ratio = timeout * Ratio - Ratio BY <1>1, <1>3, Multiples
  <2> QED BY <1>1, <1>2, <1>3, <2>1, <2>2 DEF FireIn
<1>4. CASE pending /\ timeout = 0
  <2>1. ~pending' BY <1>1, <1>4 DEF Latch
  <2> QED BY <1>1, <1>2, <1>4, <2>1 DEF FireIn
<1>5. CASE ~pending
  <2>1. ~pending' BY <1>1, <1>5 DEF Latch
  <2>2. FireIn <= Ratio /\ FireIn \in Int BY <1>1, <1>2, <1>5 DEF FireIn
  <2>3. FireIn' >= Ratio - 1 /\ FireIn' \in Int BY <1>1, <1>2, <2>1 DEF FireIn
  <2> QED BY <1>1, <2>2, <2>3
<1> QED BY <1>1, <1>3, <1>4, <1>5

-----------------------------------------------------------------------------
(* What a clock does to the flags of the other domain, whatever the first  *)
(* one does                                                                *)

LEMMA SyncTypes ==
  ASSUME TypeOK, BusyInv, NEW busy \in BOOLEAN, SyncClock(busy)
  PROVE  /\ clear_pending' \in BOOLEAN /\ request_int' \in BOOLEAN /\ int_p1' \in BOOLEAN
         /\ axi_busy_p1' \in BOOLEAN /\ busy_for' \in 0 .. MaxBusy /\ msix_int' \in BOOLEAN
         /\ BusyInv'
<1>1. /\ MaxBusy \in Nat \ {0, 1} /\ busy_for \in 0 .. MaxBusy
      /\ axi_busy_p1 \in BOOLEAN /\ request_int \in BOOLEAN /\ int_p1 \in BOOLEAN
      /\ int_s \in BOOLEAN /\ clear_pending \in BOOLEAN /\ pending \in BOOLEAN
  BY TimeAssumption DEF TypeOK
<1>2. /\ clear_pending' \in BOOLEAN /\ request_int' \in BOOLEAN /\ int_p1' \in BOOLEAN
      /\ axi_busy_p1' \in BOOLEAN /\ msix_int' \in BOOLEAN
  BY <1>1 DEF SyncClock, Request, Send
<1>3. /\ busy => busy_for + 2 <= MaxBusy
      /\ busy_for' = IF busy \/ axi_busy_p1 THEN busy_for + 1 ELSE 0
      /\ axi_busy_p1' = busy
  BY DEF SyncClock
<1>4. CASE busy
  <2>1. busy_for' \in 0 .. MaxBusy - 1 BY <1>1, <1>3, <1>4
  <2> QED BY <1>1, <1>2, <2>1 DEF BusyInv
<1>5. CASE ~busy
  <2>1. CASE axi_busy_p1
    <3>1. busy_for' \in 0 .. MaxBusy BY <1>1, <1>3, <1>5, <2>1 DEF BusyInv
    <3> QED BY <1>2, <1>3, <1>5, <3>1 DEF BusyInv
  <2>2. CASE ~axi_busy_p1
    <3>1. busy_for' = 0 BY <1>3, <1>5, <2>2
    <3> QED BY <1>1, <1>2, <1>3, <1>5, <3>1 DEF BusyInv
  <2> QED BY <2>1, <2>2
<1> QED BY <1>4, <1>5

\* A message that waits has one clock less to wait.
LEMMA Waiting ==
  ASSUME TypeOK, BusyInv, NEW busy \in BOOLEAN, SyncClock(busy), request_int, ~Send(busy)
  PROVE  busy_for' = busy_for + 1 /\ busy_for' <= MaxBusy
<1>1. busy \/ axi_busy_p1 BY DEF Send
<1> QED BY <1>1, SyncTypes DEF SyncClock, TypeOK

\* The request is up until the message: the stages follow each other.
LEMMA NextStage ==
  ASSUME StageInv, NEW busy \in BOOLEAN, SyncClock(busy)
  PROVE  /\ request_int' <=> Rising \/ (request_int /\ ~Send(busy))
         /\ msix_int' <=> Send(busy)
         /\ Send(busy) => request_int
         /\ int_p1' <=> int_s
         /\ clear_pending' <=> Send(busy) \/ (clear_pending /\ pending)
         /\ Rising => ~request_int
<1>1. /\ request_int' = Request(busy) /\ msix_int' = Send(busy) /\ int_p1' = int_s
      /\ clear_pending' = (Send(busy) \/ (clear_pending /\ pending))
  BY DEF SyncClock
<1>2. Request(busy) <=> Rising \/ (request_int /\ ~Send(busy))
  BY DEF Request, Rising
<1>3. Send(busy) => request_int BY DEF Send
<1>4. Rising => ~request_int BY DEF StageInv, RisingInv
<1> QED BY <1>1, <1>2, <1>3, <1>4

-----------------------------------------------------------------------------
(* Every step keeps the types.                                             *)

LEMMA BetweenTypes ==
  ASSUME TypeOK, BusyInv, NEW busy \in BOOLEAN, Between(busy)
  PROVE  TypeOK' /\ BusyInv'
<1>1. phase' \in 0 .. Ratio - 1
  BY NextPhase, TimeTypes DEF TypeOK, Between
<1>2. taken' \subseteq Interrupts BY DEF Taken, TypeOK, Between
<1>3. /\ clear_pending' \in BOOLEAN /\ request_int' \in BOOLEAN /\ int_p1' \in BOOLEAN
      /\ axi_busy_p1' \in BOOLEAN /\ busy_for' \in 0 .. MaxBusy /\ msix_int' \in BOOLEAN
      /\ BusyInv'
  BY SyncTypes DEF Between
<1>4. UNCHANGED <<msix_enable, fifo_empty, mask_data_available, interrupt_call,
                  latch, pending, timeout, fire, int_s, vector>>
  BY DEF Between, regmap
<1> QED BY <1>1, <1>2, <1>3, <1>4 DEF TypeOK

\* An edge of regmap_clk, whatever the inputs are
EdgeStep(busy, called) ==
  /\ called \in SUBSET Interrupts
  /\ phase = 0 /\ phase' = 1 % Ratio /\ SyncClock(busy)
  /\ fifo_empty' \in [ToHost -> BOOLEAN \X BOOLEAN \X BOOLEAN]
  /\ msix_enable' \in BOOLEAN
  /\ mask_data_available' \subseteq ToHost /\ interrupt_call' \subseteq Interrupts
  /\ Fire(called) \/ Latch(called)
  /\ int_s' = fire
  /\ Taken(IF CanFire THEN {First} ELSE {})

LEMMA EdgeSteps ==
  ASSUME TypeOK, NEW busy \in BOOLEAN, Edge(busy)
  PROVE  \E called : EdgeStep(busy, called)
<1>1. PICK empty \in SUBSET ToHost, calls \in SUBSET Interrupts, en \in SUBSET Interrupts,
           bar0 \in BOOLEAN : DataAvailable(empty, calls, bar0) /\ Intr(en)
  BY DEF Edge
<1> DEFINE called == IF msix_enable THEN interrupt_call \cap en ELSE {}
<1>2. Fire(called) \/ Latch(called) BY <1>1 DEF Intr
<1>3. int_s' = fire BY <1>1 DEF Intr
<1>4. ToHost \subseteq Interrupts BY SizeAssumption DEF ToHost, Interrupts
<1>5. /\ mask_data_available' \subseteq ToHost /\ interrupt_call' \subseteq Interrupts
  BY <1>1, <1>4 DEF DataAvailable, TypeOK
<1>6. fifo_empty' \in [ToHost -> BOOLEAN \X BOOLEAN \X BOOLEAN]
  <2>1. \A d \in ToHost :
          <<fifo_empty[d][2], fifo_empty[d][3], d \in empty>> \in BOOLEAN \X BOOLEAN \X BOOLEAN
    <3> TAKE d \in ToHost
    <3>1. fifo_empty[d] \in BOOLEAN \X BOOLEAN \X BOOLEAN BY DEF TypeOK
    <3>2. fifo_empty[d][2] \in BOOLEAN /\ fifo_empty[d][3] \in BOOLEAN BY <3>1
    <3>3. (d \in empty) \in BOOLEAN OBVIOUS
    <3> QED BY <3>2, <3>3
  <2> QED BY <1>1, <2>1 DEF DataAvailable
<1>7. called \in SUBSET Interrupts BY DEF TypeOK
<1> QED BY <1>2, <1>3, <1>5, <1>6, <1>7 DEF EdgeStep, Edge

LEMMA EdgeTypes ==
  ASSUME TypeOK, BusyInv, NEW busy \in BOOLEAN, NEW called, EdgeStep(busy, called),
         latch' \subseteq Interrupts, pending' \in BOOLEAN, timeout' \in 0 .. Timeout - 1,
         fire' \in BOOLEAN, vector' \in Interrupts, taken' \subseteq Interrupts
  PROVE  TypeOK'
<1>1. phase' \in 0 .. Ratio - 1
  <2>1. 1 % Ratio = IF Ratio = 1 THEN 0 ELSE 1 BY NextPhase, TimeAssumption
  <2> QED BY <2>1, TimeAssumption DEF EdgeStep
<1>2. /\ clear_pending' \in BOOLEAN /\ request_int' \in BOOLEAN /\ int_p1' \in BOOLEAN
      /\ axi_busy_p1' \in BOOLEAN /\ busy_for' \in 0 .. MaxBusy /\ msix_int' \in BOOLEAN
  BY SyncTypes DEF EdgeStep
<1>3. int_s' \in BOOLEAN BY DEF EdgeStep, TypeOK
<1> QED BY <1>1, <1>2, <1>3 DEF TypeOK, EdgeStep

LEMMA NatMin ==
  ASSUME NEW S, S \subseteq Nat, S # {}
  PROVE  \E x \in S : \A y \in S : x <= y
<1>1. \E R : IsWellFoundedOn(R, Nat) /\ \A x, y \in Nat : y < x => <<y, x>> \in R
  <2> DEFINE R == OpToRel(<, Nat)
  <2>1. IsWellFoundedOn(R, Nat) BY NatLessThanWellFounded
  <2>2. \A x, y \in Nat : y < x => <<y, x>> \in R BY DEF OpToRel
  <2> HIDE DEF R
  <2> QED BY <2>1, <2>2
<1>2. PICK R : IsWellFoundedOn(R, Nat) /\ \A x, y \in Nat : y < x => <<y, x>> \in R
  BY <1>1
<1>3. PICK x \in S : \A y \in S : ~(<<y, x>> \in R)
  BY <1>2, WFMin
<1>4. ASSUME NEW y \in S PROVE x <= y
  <2>1. x \in Nat /\ y \in Nat /\ ~(<<y, x>> \in R) BY <1>3, <1>4
  <2>2. ~(y < x) BY <2>1, <1>2
  <2> QED BY <2>1, <2>2
<1> QED BY <1>4

LEMMA FireTypes ==
  ASSUME TypeOK, BusyInv, NEW busy \in BOOLEAN, NEW called, EdgeStep(busy, called),
         Fire(called)
  PROVE  TypeOK'
<1>1. /\ called \subseteq Interrupts /\ CanFire /\ Taken({First})
      /\ fire' = TRUE /\ pending' = TRUE /\ timeout' = Timeout - 1
      /\ latch' = (latch \cup called) \ {First} /\ vector' = First
  BY DEF EdgeStep, Fire
<1>2. First \in Interrupts
  <2>1. latch \subseteq Nat /\ latch # {} BY <1>1 DEF TypeOK, Interrupts, CanFire
  <2>2. First \in latch BY <2>1, NatMin DEF First
  <2> QED BY <2>2 DEF TypeOK
<1>3. taken' \subseteq Interrupts BY <1>1, <1>2 DEF Taken, TypeOK
<1>4. latch' \subseteq Interrupts BY <1>1 DEF TypeOK
<1>5. timeout' \in 0 .. Timeout - 1 BY <1>1, TimeAssumption
<1>6. fire' \in BOOLEAN /\ pending' \in BOOLEAN BY <1>1
<1> QED BY <1>1, <1>2, <1>3, <1>4, <1>5, <1>6, EdgeTypes

LEMMA LatchTypes ==
  ASSUME TypeOK, BusyInv, NEW busy \in BOOLEAN, NEW called, EdgeStep(busy, called),
         Latch(called)
  PROVE  TypeOK'
<1>1. /\ called \subseteq Interrupts /\ Taken({}) /\ vector' = vector
      /\ latch' = latch \cup called
  BY DEF EdgeStep, Latch
<1>2. latch' \subseteq Interrupts /\ taken' \subseteq Interrupts /\ vector' \in Interrupts
  BY <1>1 DEF Taken, TypeOK
<1>3. timeout' \in 0 .. Timeout - 1
  <2>1. timeout' = IF timeout > 0 THEN timeout - 1 ELSE 0 BY DEF Latch
  <2> QED BY <2>1, TimeTypes DEF TypeOK
<1>4. fire' \in BOOLEAN /\ pending' \in BOOLEAN BY DEF Latch
<1> QED BY <1>2, <1>3, <1>4, EdgeTypes

LEMMA InitTypes == Init => TypeOK /\ BusyInv
<1> SUFFICES ASSUME Init PROVE TypeOK /\ BusyInv OBVIOUS
<1>1. vector \in Interrupts BY SizeAssumption DEF Interrupts, Init
<1>2. fifo_empty \in [ToHost -> BOOLEAN \X BOOLEAN \X BOOLEAN] BY DEF Init
<1>3. phase \in 0 .. Ratio - 1 /\ timeout \in 0 .. Timeout - 1 /\ busy_for \in 0 .. MaxBusy
  BY TimeAssumption DEF Init
<1> QED BY <1>1, <1>2, <1>3 DEF Init, TypeOK, BusyInv

LEMMA TypesNext == TypeOK /\ BusyInv /\ [Next]_vars => TypeOK' /\ BusyInv'
<1> SUFFICES ASSUME TypeOK, BusyInv, [Next]_vars PROVE TypeOK' /\ BusyInv' OBVIOUS
<1>1. CASE UNCHANGED vars
  BY <1>1 DEF vars, regmap, sync, TypeOK, BusyInv
<1>2. ASSUME NEW busy \in BOOLEAN, Edge(busy) PROVE TypeOK' /\ BusyInv'
  <2>1. PICK called : EdgeStep(busy, called) BY <1>2, EdgeSteps
  <2>2. BusyInv' BY <2>1, SyncTypes DEF EdgeStep
  <2>3. TypeOK' BY <2>1, FireTypes, LatchTypes DEF EdgeStep
  <2> QED BY <2>2, <2>3
<1>3. ASSUME NEW busy \in BOOLEAN, Between(busy) PROVE TypeOK' /\ BusyInv'
  BY <1>3, BetweenTypes
<1> QED BY <1>1, <1>2, <1>3 DEF Next, Clock

(* The variables keep their types: above all, the countdown does not run   *)
(* below zero, and the buses are idle within MaxBusy clocks.               *)
THEOREM TypeCorrect == Spec => []TypeOK
BY InitTypes, TypesNext, PTL DEF Spec

-----------------------------------------------------------------------------
(* Every step keeps StageInv.                                              *)

LEMMA BetweenOK ==
  ASSUME StageInv, NEW busy \in BOOLEAN, Between(busy)
  PROVE  StageInv'
<1>1. /\ TypeOK /\ FireInv /\ RisingInv /\ RequestInv /\ MessageInv /\ ClearInv
      /\ BusyInv /\ TakenInv
  BY DEF StageInv
<1>2. /\ phase # 0 /\ phase' = (phase + 1) % Ratio /\ SyncClock(busy) /\ Taken({})
      /\ UNCHANGED regmap
  BY DEF Between
<1>3. UNCHANGED <<msix_enable, fifo_empty, mask_data_available, interrupt_call,
                  latch, pending, timeout, fire, int_s, vector>>
  BY <1>2 DEF regmap
<1>4. FireIn' = FireIn - 1 BY <1>1, <1>2, SoonerBetween
<1>5. ~Rising' BY <1>2, <1>3, NextStage DEF Rising
<1>6. TypeOK' BY <1>1, BetweenTypes
<1>7. FireInv'
  BY <1>1, <1>2, <1>3, NextStage DEF FireInv, Rising
<1>8. RisingInv' BY <1>5 DEF RisingInv
<1>9. RequestInv'
  <2> SUFFICES ASSUME request_int'
               PROVE  ~fire' /\ ~msix_int' /\ FireIn' >= MaxBusy - busy_for' + 1
    BY DEF RequestInv
  <2>1. CASE Rising
    <3>1. ~fire' /\ ~msix_int' BY <1>1, <1>2, <1>3, <2>1, NextStage DEF RisingInv
    <3>2. busy_for' \in Nat /\ FireIn >= MaxBusy + 2 BY <1>1, <1>6, <2>1 DEF RisingInv, TypeOK
    <3> QED BY <1>1, <1>4, <3>1, <3>2, TimeTypes
  <2>2. CASE request_int /\ ~Send(busy)
    <3>1. ~fire' /\ ~msix_int' BY <1>1, <1>2, <1>3, <2>2, NextStage DEF RequestInv
    <3>2. FireIn >= MaxBusy - busy_for + 1 /\ busy_for \in Int
      BY <1>1, <2>2 DEF RequestInv, TypeOK
    <3>3. busy_for' = busy_for + 1 BY <1>1, <1>2, <2>2, Waiting
    <3> QED BY <1>1, <1>4, <3>1, <3>2, <3>3, TimeTypes
  <2> QED BY <1>2, <2>1, <2>2, NextStage
<1>10. MessageInv' BY <1>1, <1>2, <1>3, NextStage DEF MessageInv, RequestInv
<1>11. ClearInv'
  <2>1. clear_pending' => ~fire' /\ ~request_int'
    BY <1>1, <1>2, <1>3, NextStage DEF ClearInv, RequestInv
  <2> QED BY <1>5, <2>1 DEF ClearInv
<1>12. BusyInv' BY <1>1, <1>2, SyncTypes
<1>13. TakenInv'
  <2>1. CASE msix_int
    <3>1. ~fire /\ ~Rising /\ ~request_int
      BY <1>1, <2>1 DEF MessageInv, RisingInv, RequestInv
    <3>2. ~OnItsWay'
      BY <1>2, <1>3, <1>5, <3>1, NextStage DEF OnItsWay, Rising
    <3>3. taken = {vector} BY <1>1, <2>1 DEF TakenInv, OnItsWay
    <3>4. taken' = {} BY <1>2, <2>1, <3>3 DEF Taken
    <3> QED BY <3>2, <3>4 DEF TakenInv
  <2>2. CASE ~msix_int
    <3>1. taken' = taken BY <1>2, <2>2 DEF Taken
    <3>2. OnItsWay' <=> OnItsWay
      BY <1>2, <1>3, <1>5, <2>2, NextStage DEF OnItsWay, Rising
    <3> QED BY <1>1, <1>3, <3>1, <3>2 DEF TakenInv
  <2> QED BY <2>1, <2>2
<1> QED BY <1>6, <1>7, <1>8, <1>9, <1>10, <1>11, <1>12, <1>13 DEF StageInv

\* The edge at which the next interrupt is selected: no other is on its way,
\* unless its message is sent in this clock.
LEMMA FireOK ==
  ASSUME StageInv, NEW busy \in BOOLEAN, NEW called, EdgeStep(busy, called), Fire(called)
  PROVE  StageInv'
<1>1. /\ TypeOK /\ FireInv /\ RisingInv /\ RequestInv /\ MessageInv /\ ClearInv
      /\ BusyInv /\ TakenInv
  BY DEF StageInv
<1>2. /\ SyncClock(busy) /\ phase = 0 /\ called \subseteq Interrupts /\ CanFire
      /\ Taken({First}) /\ fire' /\ pending' /\ timeout' = Timeout - 1
      /\ latch' = (latch \cup called) \ {First} /\ vector' = First
  BY DEF EdgeStep, Fire
<1>3. ~int_s /\ ~pending /\ latch # {} BY <1>2 DEF CanFire
<1>5. ~request_int
  <2>1. FireIn = 0 BY <1>2, <1>3 DEF FireIn, ToEdge
  <2>2. MaxBusy - busy_for + 1 >= 1 BY <1>1, TimeTypes DEF TypeOK
  <2> QED BY <1>1, <2>1, <2>2, TimeTypes DEF RequestInv, TypeOK
<1>6. ~fire /\ ~Rising BY <1>1, <1>3 DEF FireInv, Rising
<1>7. ~request_int' /\ ~msix_int' /\ ~int_p1' /\ ~clear_pending'
  BY <1>2, <1>3, <1>5, <1>6, NextStage
<1>8. ~int_s' /\ ~Rising' BY <1>6 DEF EdgeStep, Rising
<1>9. taken' = {First}
  <2>1. CASE msix_int
    <3>1. taken = {vector} BY <1>1, <2>1 DEF TakenInv, OnItsWay
    <3> QED BY <1>2, <2>1, <3>1 DEF Taken
  <2>2. CASE ~msix_int
    <3>1. ~OnItsWay BY <1>5, <1>6, <2>2 DEF OnItsWay, Rising
    <3> QED BY <1>1, <1>2, <2>2, <3>1 DEF Taken, TakenInv
  <2> QED BY <2>1, <2>2
<1>10. TypeOK' BY <1>1, FireTypes
<1>11. FireInv' BY <1>2, <1>7, <1>8 DEF FireInv
<1>12. RisingInv' /\ RequestInv' /\ MessageInv' /\ ClearInv'
  BY <1>7, <1>8 DEF RisingInv, RequestInv, MessageInv, ClearInv
<1>13. BusyInv' BY <1>1, <1>2, SyncTypes
<1>14. TakenInv' BY <1>2, <1>9 DEF TakenInv, OnItsWay
<1> QED BY <1>10, <1>11, <1>12, <1>13, <1>14 DEF StageInv

\* Any other edge: the message that waits comes closer.
LEMMA LatchOK ==
  ASSUME Patient, StageInv, NEW busy \in BOOLEAN, NEW called, EdgeStep(busy, called),
         Latch(called)
  PROVE  StageInv'
<1>1. /\ TypeOK /\ FireInv /\ RisingInv /\ RequestInv /\ MessageInv /\ ClearInv
      /\ BusyInv /\ TakenInv
  BY DEF StageInv
<1>2. /\ SyncClock(busy) /\ phase = 0 /\ phase' = 1 % Ratio /\ called \subseteq Interrupts
      /\ Taken({}) /\ ~fire' /\ vector' = vector /\ latch' = latch \cup called
      /\ int_s' = fire
  BY DEF EdgeStep, Latch
<1>3. ~clear_pending => FireIn' \in Int /\ FireIn' >= FireIn - 1 BY <1>1, <1>2, SoonerEdge
<1>4. Rising' <=> fire
  BY <1>1, <1>2, NextStage DEF FireInv, Rising
<1>5. TypeOK' BY <1>1, LatchTypes
<1>6. FireInv' /\ MessageInv' BY <1>2 DEF FireInv, MessageInv
<1>7. RisingInv'
  <2> SUFFICES ASSUME Rising'
               PROVE  ~request_int' /\ ~msix_int' /\ FireIn' >= MaxBusy + 2
    BY <1>2 DEF RisingInv
  <2>1. /\ pending /\ timeout = Timeout - 1 /\ ~request_int /\ ~Rising
        /\ ~clear_pending
    BY <1>1, <1>4 DEF FireInv, ClearInv, Rising
  <2>2. ~request_int' /\ ~msix_int' BY <1>2, <2>1, NextStage
  <2>3. FireIn >= Timeout * Ratio
    <3>1. (Timeout - 1) * Ratio = Timeout * Ratio - Ratio /\ Timeout * Ratio \in Nat
      BY Multiples, TimeAssumption
    <3> QED BY <1>2, <2>1, <3>1, TimeAssumption DEF FireIn, ToEdge
  <2>4. Timeout * Ratio = Ratio * Timeout /\ Ratio * Timeout \in Int BY TimeAssumption
  <2> QED BY <1>1, <1>3, <1>5, <2>1, <2>2, <2>3, <2>4, TimeTypes DEF Patient
<1>8. RequestInv'
  <2> SUFFICES ASSUME request_int'
               PROVE  ~msix_int' /\ FireIn' >= MaxBusy - busy_for' + 1
    BY <1>2 DEF RequestInv
  <2>1. CASE Rising
    <3>1. ~msix_int' /\ ~clear_pending
      BY <1>1, <1>2, <2>1, NextStage DEF ClearInv
    <3>2. busy_for' \in Nat /\ FireIn >= MaxBusy + 2 BY <1>1, <1>5, <2>1 DEF RisingInv, TypeOK
    <3> QED BY <1>1, <1>3, <1>5, <3>1, <3>2, TimeTypes
  <2>2. CASE request_int /\ ~Send(busy)
    <3>1. ~msix_int' /\ ~clear_pending
      BY <1>1, <1>2, <2>2, NextStage DEF ClearInv
    <3>2. FireIn >= MaxBusy - busy_for + 1 /\ busy_for \in Int
      BY <1>1, <2>2 DEF RequestInv, TypeOK
    <3>3. busy_for' = busy_for + 1 BY <1>1, <1>2, <2>2, Waiting
    <3> QED BY <1>1, <1>3, <1>5, <3>1, <3>2, <3>3, TimeTypes
  <2> QED BY <1>2, <2>1, <2>2, NextStage
<1>9. ClearInv'
  <2> SUFFICES ASSUME clear_pending' PROVE ~Rising' /\ ~request_int'
    BY <1>2 DEF ClearInv
  <2>1. CASE Send(busy)
    <3>1. request_int /\ ~fire /\ ~Rising BY <1>1, <1>2, <2>1, NextStage DEF RequestInv
    <3> QED BY <1>2, <1>4, <2>1, <3>1, NextStage
  <2>2. CASE clear_pending
    BY <1>1, <1>2, <1>4, <2>2, NextStage DEF ClearInv
  <2> QED BY <1>2, <2>1, <2>2, NextStage
<1>10. BusyInv' BY <1>1, <1>2, SyncTypes
<1>11. TakenInv'
  <2>1. CASE msix_int
    <3>1. ~fire /\ ~Rising /\ ~request_int
      BY <1>1, <2>1 DEF MessageInv, RisingInv, RequestInv
    <3>2. ~OnItsWay'
      BY <1>2, <1>4, <3>1, NextStage DEF OnItsWay, Rising
    <3>3. taken = {vector} BY <1>1, <2>1 DEF TakenInv, OnItsWay
    <3>4. taken' = {} BY <1>2, <2>1, <3>3 DEF Taken
    <3> QED BY <3>2, <3>4 DEF TakenInv
  <2>2. CASE ~msix_int
    <3>1. taken' = taken BY <1>2, <2>2 DEF Taken
    <3>2. OnItsWay' <=> OnItsWay
      BY <1>2, <1>4, <2>2, NextStage DEF OnItsWay, Rising
    <3> QED BY <1>1, <1>2, <3>1, <3>2 DEF TakenInv
  <2> QED BY <2>1, <2>2
<1> QED BY <1>5, <1>6, <1>7, <1>8, <1>9, <1>10, <1>11 DEF StageInv

LEMMA InitOK == Init => StageInv
BY InitTypes DEF Init, StageInv, FireInv, RisingInv, RequestInv, MessageInv, ClearInv,
                 TakenInv, Rising, OnItsWay

LEMMA NextOK ==
  ASSUME Patient
  PROVE  StageInv /\ [Next]_vars => StageInv'
<1> SUFFICES ASSUME StageInv, [Next]_vars PROVE StageInv' OBVIOUS
<1>1. CASE UNCHANGED vars
  <2>1. UNCHANGED <<phase, msix_enable, fifo_empty, mask_data_available, interrupt_call,
                    latch, pending, timeout, fire, int_s, vector, clear_pending, request_int, int_p1,
                    axi_busy_p1, busy_for, msix_int, taken>>
    BY <1>1 DEF vars, regmap, sync
  <2> QED BY <2>1 DEF StageInv, TypeOK, FireInv, RisingInv, RequestInv, MessageInv,
                      ClearInv, BusyInv, TakenInv, Rising, OnItsWay, FireIn, ToEdge
<1>2. ASSUME NEW busy \in BOOLEAN, Edge(busy) PROVE StageInv'
  <2>1. PICK called : EdgeStep(busy, called) BY <1>2, EdgeSteps DEF StageInv
  <2>2. CASE Fire(called) BY <2>1, <2>2, FireOK
  <2>3. CASE Latch(called) BY <2>1, <2>3, LatchOK
  <2> QED BY <2>1, <2>2, <2>3 DEF EdgeStep
<1>3. ASSUME NEW busy \in BOOLEAN, Between(busy) PROVE StageInv'
  BY <1>3, BetweenOK
<1> QED BY <1>1, <1>2, <1>3 DEF Next, Clock

-----------------------------------------------------------------------------
(* The results.                                                            *)

(* An interrupt passes the stages in order, and is sent before the next.   *)
THEOREM StagesInOrder ==
  ASSUME Patient
  PROVE  Spec => []StageInv
BY InitOK, NextOK, PTL DEF Spec

(* No interrupt is lost, and no message carries the vector of another.     *)
THEOREM NoneLost ==
  ASSUME Patient
  PROVE  Spec => []NoLostInterrupt
<1>1. StageInv => NoLostInterrupt BY DEF StageInv, TakenInv, NoLostInterrupt
<1> QED BY <1>1, StagesInOrder, PTL

(* Each message is that of an interrupt which was called and has not been  *)
(* sent yet.                                                               *)
THEOREM NoneSpurious ==
  ASSUME Patient
  PROVE  Spec => []NoSpuriousInterrupt
<1>1. StageInv => NoSpuriousInterrupt
  BY DEF StageInv, TakenInv, OnItsWay, NoSpuriousInterrupt
<1> QED BY <1>1, StagesInOrder, PTL

=============================================================================
