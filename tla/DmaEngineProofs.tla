-------------------------- MODULE DmaEngineProofs ---------------------------
(***************************************************************************)
(* Proofs about DmaEngine for any number of descriptors and any size of    *)
(* the buffers: the state machine takes the data from the right FIFO, the  *)
(* enable bits are the host's, and, for a host that keeps to Careful, the  *)
(* engine overruns no buffer, ends a transfer when it is complete, and     *)
(* implements, with the host, a circular queue.                            *)
(*                                                                         *)
(* The second half proves the invariant DmaInv.  Its parts are FormInv     *)
(* (what the variables range over), EngineInv (the phases of the pointer   *)
(* registers, clock by clock) and HostInv (the calls of the host, and that *)
(* the slots in full are those between the engine and the host).           *)
(***************************************************************************)
EXTENDS DmaEngine, FiniteSetTheorems, TLAPS

\* One host call has DMA_DESC_ENABLE at a time, and a descriptor is started
\* and stopped while nothing of it is in the pipeline.
Orderly == ~Unread /\ Writes # "always"

-----------------------------------------------------------------------------
(* The invariant.                                                          *)

Names == {"enable", "pc_pointer", "even_pc", "current", "next", "even_dma", "wait",
          "wait_pc", "wait_next", "wrapped", "at_end", "advance"}

\* The registers are there; what they hold does not matter.
ShapeInv ==
  /\ DOMAIN desc = Descriptors /\ DOMAIN host = Descriptors
  /\ \A d \in Descriptors : DOMAIN desc[d] = Names

\* The FIFO is selected before the state machine leaves IDLE; in CONT_WRITE
\* the next descriptor is chosen while the FIFO still is the last one's.
FifoInv ==
  /\ active \in Descriptors /\ index \in ToHost /\ searching \in 0 .. 2 * NToHost - 1
  /\ rw_state = "START_WRITE" => index = active
  /\ rw_state \in {"IDLE", "DELAY"} /\ active \in ToHost => index = active

\* An endless descriptor that is disabled, or that a write on its way disables,
\* is not about to be enabled by its wrap-around.
EnableInv ==
  \A x \in WrapAround :
    /\ ~desc[x].enable => ~desc[x].at_end /\ ~desc[x].wrapped
    /\ written # NoWrite /\ x \notin written =>
         /\ ~desc[x].at_end /\ ~desc[x].wrapped
         /\ desc[x].enable => desc[x].next # Size

-----------------------------------------------------------------------------
(* The search and the FIFO                                                 *)

LEMMA SearchOK ==
  ASSUME FifoInv
  PROVE  /\ SearchIndex \in Descriptors
         /\ (searching + 1) % (2 * NToHost) \in 0 .. 2 * NToHost - 1
<1>1. NToHost \in Nat \ {0} /\ searching \in 0 .. 2 * NToHost - 1
  BY ShapeAssumption DEF FifoInv
<1>2. searching \div 2 \in 0 .. NToHost - 1 BY <1>1
<1>3. (searching + 1) % (2 * NToHost) \in 0 .. 2 * NToHost - 1
  <2> DEFINE n == 2 * NToHost
  <2>1. n \in Nat \ {0} BY <1>1
  <2> HIDE DEF n
  <2>2. (searching + 1) % n \in 0 .. n - 1 BY <1>1, <2>1
  <2> QED BY <2>2 DEF n
<1> QED BY <1>1, <1>2, <1>3 DEF SearchIndex, FromHost, Descriptors

LEMMA NextActiveOK ==
  ASSUME FifoInv, NEW ready
  PROVE  NextActive(ready) \in Descriptors
BY SearchOK DEF NextActive, FifoInv

LEMMA SelectOK ==
  ASSUME FifoInv, NEW d \in Descriptors, Select(d)
  PROVE  index' \in ToHost /\ (d \in ToHost => index' = d)
BY DEF Select, FifoInv

LEMMA FifoInit == Init => FifoInv
BY ShapeAssumption DEF Init, FifoInv, ToHost, Descriptors

LEMMA FifoNext == FifoInv /\ [Next]_vars => FifoInv'
<1> SUFFICES ASSUME FifoInv, [Next]_vars PROVE FifoInv' OBVIOUS
<1> USE DEF FifoInv
<1>0. \A d \in Descriptors : d # FromHost => d \in ToHost
  BY ShapeAssumption DEF Descriptors, ToHost, FromHost
<1>1. ASSUME NEW ready, IdleStart(ready) PROVE FifoInv'
  BY <1>0, <1>1, SearchOK DEF IdleStart, NextSearch
<1>2. ASSUME NEW ready, IdleSearch(ready) PROVE FifoInv'
  BY <1>2, SearchOK, NextActiveOK, SelectOK DEF IdleSearch, NextSearch
<1>3. ASSUME NEW ready, StartWrite(ready) PROVE FifoInv'
  BY <1>3, NextActiveOK DEF StartWrite
<1>4. CASE ContWrite
  <2>1. CASE UNCHANGED <<rw_state, index>> BY <1>4, <2>1 DEF ContWrite
  <2>2. CASE rw_state' = "IDLE" /\ Select(active)
    BY <1>4, <2>2, SelectOK DEF ContWrite
  <2> QED BY <1>4, <2>1, <2>2 DEF ContWrite
<1>5. ASSUME NEW ready, StartRead(ready) PROVE FifoInv'
  BY <1>5, NextActiveOK, SelectOK DEF StartRead
<1>6. CASE Delay BY <1>6 DEF Delay
<1>7. CASE Stall BY <1>7 DEF Stall
<1>8. CASE ClearWait4k BY <1>8 DEF ClearWait4k
<1>9. CASE SoftReset
  <2>1. 0 \in Descriptors /\ 0 \in ToHost /\ 0 \in 0 .. 2 * NToHost - 1
    BY ShapeAssumption DEF Descriptors, ToHost
  <2> QED BY <1>9, <2>1 DEF SoftReset
<1>10. CASE Host
  BY <1>10 DEF Host, HostStart, HostStop, HostWriteEnable, Advance, HostAdvance, Sync, engine
<1>11. CASE UNCHANGED vars BY <1>11 DEF vars, engine
<1> QED BY <1>1, <1>2, <1>3, <1>4, <1>5, <1>6, <1>7, <1>8, <1>9, <1>10, <1>11
        DEF Next, Clock

(* A ToHost TLP is filled from the FIFO of the descriptor in its header.   *)
THEOREM FifoOfHeader == Spec => []RightFifo
<1>1. FifoInv => RightFifo BY DEF FifoInv, RightFifo
<1> QED BY <1>1, FifoInit, FifoNext, PTL DEF Spec

-----------------------------------------------------------------------------
(* What a step makes of the registers of a descriptor                      *)

LEMMA PointersFields ==
  ASSUME NEW d, NEW a, DOMAIN desc[d] = Names
  PROVE  /\ DOMAIN Pointers(d, a) = Names
         /\ Pointers(d, a).wrapped = Wraps(d)
         /\ Pointers(d, a).at_end =
              (~Wraps(d) /\ (IF Compares(d) THEN AtEnd(d) ELSE desc[d].at_end))
BY DEF Pointers, Names

LEMMA HeldFields ==
  ASSUME NEW d, DOMAIN desc[d] = Names
  PROVE  /\ DOMAIN Held(d) = Names
         /\ Held(d).wrapped = desc[d].wrapped /\ Held(d).at_end = desc[d].at_end
BY DEF Held, Names

LEMMA EnableFields ==
  ASSUME NEW r, NEW e, DOMAIN r = Names
  PROVE  /\ DOMAIN [r EXCEPT !.enable = e] = Names
         /\ [r EXCEPT !.enable = e].enable = e
         /\ [r EXCEPT !.enable = e].at_end = r.at_end
         /\ [r EXCEPT !.enable = e].wrapped = r.wrapped
BY DEF Names

\* Every clock takes the write of DMA_DESC_ENABLE that is on its way.
Ticks ==
  /\ written' = NoWrite /\ DOMAIN desc' = Descriptors
  /\ \A d \in Descriptors :
       /\ DOMAIN desc'[d] = Names /\ desc'[d].enable = Enable(d)
       /\ \/ desc'[d].wrapped = Wraps(d)
             /\ desc'[d].at_end =
                  (~Wraps(d) /\ (IF Compares(d) THEN AtEnd(d) ELSE desc[d].at_end))
          \/ /\ desc'[d].wrapped = desc[d].wrapped \/ ~desc'[d].wrapped
             /\ desc'[d].at_end = desc[d].at_end

LEMMA ClockTicks ==
  ASSUME ShapeInv, NEW sender, ClockRegisters(sender)
  PROVE  Ticks
<1>1. /\ written' = NoWrite
      /\ desc' = [d \in Descriptors |-> [Pointers(d, d = sender) EXCEPT !.enable = Enable(d)]]
  BY DEF ClockRegisters
<1>2. ASSUME NEW d \in Descriptors
      PROVE  /\ DOMAIN desc'[d] = Names /\ desc'[d].enable = Enable(d)
             /\ desc'[d].wrapped = Wraps(d)
             /\ desc'[d].at_end =
                  (~Wraps(d) /\ (IF Compares(d) THEN AtEnd(d) ELSE desc[d].at_end))
  <2> DEFINE r == Pointers(d, d = sender)
  <2>1. desc'[d] = [r EXCEPT !.enable = Enable(d)] BY <1>1
  <2>2. /\ DOMAIN r = Names /\ r.wrapped = Wraps(d)
        /\ r.at_end = (~Wraps(d) /\ (IF Compares(d) THEN AtEnd(d) ELSE desc[d].at_end))
    BY PointersFields DEF ShapeInv
  <2> HIDE DEF r
  <2> QED BY <2>1, <2>2, EnableFields
<1> QED BY <1>1, <1>2 DEF Ticks

LEMMA StallTicks ==
  ASSUME ShapeInv, Stall
  PROVE  Ticks
<1>1. /\ written' = NoWrite
      /\ desc' = [d \in Descriptors |-> [Held(d) EXCEPT !.enable = Enable(d)]]
  BY DEF Stall
<1>2. ASSUME NEW d \in Descriptors
      PROVE  /\ DOMAIN desc'[d] = Names /\ desc'[d].enable = Enable(d)
             /\ desc'[d].wrapped = desc[d].wrapped /\ desc'[d].at_end = desc[d].at_end
  <2> DEFINE r == Held(d)
  <2>1. desc'[d] = [r EXCEPT !.enable = Enable(d)] BY <1>1
  <2>2. DOMAIN r = Names /\ r.wrapped = desc[d].wrapped /\ r.at_end = desc[d].at_end
    BY HeldFields DEF ShapeInv
  <2> HIDE DEF r
  <2> QED BY <2>1, <2>2, EnableFields
<1> QED BY <1>1, <1>2 DEF Ticks

\* The registers r of a descriptor after a reset, with enable bit e.
Cleared(r, e) ==
  [r EXCEPT !.even_dma = 0, !.wait_next = FALSE, !.wrapped = FALSE, !.enable = e]

LEMMA ResetTicks ==
  ASSUME ShapeInv, SoftReset
  PROVE  Ticks
<1>1. /\ written' = NoWrite
      /\ desc' = [d \in Descriptors |-> Cleared(desc[d], Enable(d))]
  BY DEF SoftReset, Cleared
<1>2. ASSUME NEW r, NEW e, DOMAIN r = Names
      PROVE  /\ DOMAIN Cleared(r, e) = Names /\ Cleared(r, e).enable = e
             /\ Cleared(r, e).at_end = r.at_end /\ ~Cleared(r, e).wrapped
  BY <1>2 DEF Names, Cleared
<1> QED BY <1>1, <1>2 DEF ShapeInv, Ticks

\* Nothing else changes the enable bits.
Keeps ==
  /\ DOMAIN desc' = Descriptors
  /\ \A d \in Descriptors :
       /\ DOMAIN desc'[d] = Names
       /\ desc'[d].enable = desc[d].enable /\ desc'[d].at_end = desc[d].at_end
       /\ desc'[d].next = desc[d].next /\ desc'[d].wrapped = desc[d].wrapped

LEMMA KeepsUnchanged ==
  ASSUME ShapeInv, UNCHANGED desc
  PROVE  Keeps
BY DEF ShapeInv, Keeps

LEMMA KeepsHost ==
  ASSUME ShapeInv, NEW e \in Descriptors,
         \E p, q : desc' = [desc EXCEPT ![e].pc_pointer = p, ![e].even_pc = q]
  PROVE  Keeps
<1>1. PICK p, q : desc' = [desc EXCEPT ![e].pc_pointer = p, ![e].even_pc = q]
  OBVIOUS
<1>2. /\ DOMAIN desc' = Descriptors
      /\ \A d \in Descriptors : d # e => desc'[d] = desc[d]
      /\ desc'[e] = [desc[e] EXCEPT !.pc_pointer = p, !.even_pc = q]
  BY <1>1 DEF ShapeInv
<1>3. ASSUME NEW r, DOMAIN r = Names
      PROVE  LET s == [r EXCEPT !.pc_pointer = p, !.even_pc = q]
             IN  /\ DOMAIN s = Names /\ s.enable = r.enable /\ s.at_end = r.at_end
                 /\ s.next = r.next /\ s.wrapped = r.wrapped
  BY <1>3 DEF Names
<1> QED BY <1>2, <1>3 DEF ShapeInv, Keeps

-----------------------------------------------------------------------------
(* A step is a clock, a write of DMA_DESC_ENABLE, or neither.              *)

LEMMA StepKinds ==
  ASSUME ShapeInv, [Next]_vars
  PROVE  /\ DOMAIN host' = Descriptors
         /\ \/ Ticks /\ UNCHANGED host
            \/ Keeps /\ UNCHANGED written
                 /\ \A d \in Descriptors : host[d].op # "idle" => host'[d] = host[d]
            \/ \E d \in Used : HostWriteEnable(d)
<1>0. Used \subseteq Descriptors BY HostAssumption
<1>1. ASSUME NEW ready, Clock(ready) PROVE Ticks /\ UNCHANGED host
  BY <1>1, ClockTicks
     DEF Clock, IdleStart, IdleSearch, StartWrite, ContWrite, StartRead, Delay
<1>2. CASE Stall BY <1>2, StallTicks DEF Stall, ShapeInv
<1>3. CASE ClearWait4k BY <1>3, KeepsUnchanged DEF ClearWait4k, ShapeInv
<1>4. CASE SoftReset BY <1>4, ResetTicks DEF SoftReset, ShapeInv
<1>5. CASE UNCHANGED vars BY <1>5, KeepsUnchanged DEF vars, ShapeInv
<1>6. ASSUME NEW d \in Used, HostStart(d)
      PROVE  /\ Keeps /\ UNCHANGED written /\ DOMAIN host' = Descriptors
             /\ \A x \in Descriptors : host[x].op # "idle" => host'[x] = host[x]
  <2>1. Keeps BY <1>0, <1>6, KeepsHost DEF HostStart
  <2> QED BY <1>6, <2>1 DEF HostStart, ShapeInv
<1>7. ASSUME NEW d \in Used, HostStop(d)
      PROVE  /\ Keeps /\ UNCHANGED written /\ DOMAIN host' = Descriptors
             /\ \A x \in Descriptors : host[x].op # "idle" => host'[x] = host[x]
  BY <1>7, KeepsUnchanged DEF HostStop, ShapeInv
<1>8. ASSUME NEW d \in Used, NEW n, HostAdvance(d, n)
      PROVE  Keeps /\ UNCHANGED <<written, host>>
  BY <1>8, KeepsUnchanged DEF HostAdvance
<1>9. ASSUME NEW d \in Used, Sync(d)
      PROVE  Keeps /\ UNCHANGED <<written, host>>
  BY <1>0, <1>9, KeepsHost DEF Sync
<1>10. ASSUME NEW d \in Used, HostWriteEnable(d) PROVE DOMAIN host' = Descriptors
  BY <1>10 DEF HostWriteEnable, ShapeInv
<1> QED BY <1>1, <1>2, <1>3, <1>4, <1>5, <1>6, <1>7, <1>8, <1>9, <1>10
        DEF Next, Host, Advance, ShapeInv

LEMMA ShapeNext == ShapeInv /\ [Next]_vars => ShapeInv'
<1> SUFFICES ASSUME ShapeInv, [Next]_vars PROVE ShapeInv' OBVIOUS
<1>1. \A d : HostWriteEnable(d) => UNCHANGED desc BY DEF HostWriteEnable
<1> QED BY <1>1, StepKinds DEF ShapeInv, Ticks, Keeps

LEMMA ShapeInit == Init => ShapeInv
BY DEF Init, ShapeInv, Disabled, Names

LEMMA TicksOK ==
  ASSUME EnableInv, Ticks
  PROVE  EnableInv'
<1> SUFFICES ASSUME NEW x \in WrapAround, ~desc'[x].enable
             PROVE  ~desc'[x].at_end /\ ~desc'[x].wrapped
  BY DEF EnableInv, Ticks
<1>1. x \in Descriptors BY HostAssumption
<1>2. ~Enable(x) BY <1>1 DEF Ticks
<1>3. /\ ~desc[x].at_end /\ ~desc[x].wrapped
      /\ desc[x].enable => desc[x].next # Size
  BY <1>2 DEF Enable, EnableInv
<1>4. ~Wraps(x) /\ ~AtEnd(x) /\ Compares(x) BY <1>3 DEF Wraps, AtEnd, Compares
<1> QED BY <1>1, <1>3, <1>4 DEF Ticks

LEMMA WriteOK ==
  ASSUME Orderly, EnableInv, NEW d \in Used, HostWriteEnable(d)
  PROVE  EnableInv'
<1>1. /\ UNCHANGED desc /\ Quiet(d)
      /\ written' = IF host[d].op = "start" THEN Enabled \cup {d} ELSE Enabled \ {d}
  BY DEF HostWriteEnable, Orderly, MayWrite, Seen
<1> SUFFICES ASSUME NEW x \in WrapAround, x \notin written'
             PROVE  /\ ~desc[x].at_end /\ ~desc[x].wrapped
                    /\ desc[x].enable => desc[x].next # Size
  BY <1>1 DEF EnableInv
<1>2. CASE x = d BY <1>1, <1>2 DEF Quiet
<1>3. CASE x # d
  <2>1. x \in Descriptors BY HostAssumption
  <2>2. ~desc[x].enable BY <1>1, <1>3, <2>1 DEF Enabled
  <2> QED BY <2>2 DEF EnableInv
<1> QED BY <1>2, <1>3

LEMMA EnableNext ==
  ASSUME Orderly
  PROVE  ShapeInv /\ EnableInv /\ [Next]_vars => EnableInv'
<1> SUFFICES ASSUME ShapeInv, EnableInv, [Next]_vars PROVE EnableInv' OBVIOUS
<1>1. CASE Keeps /\ UNCHANGED written
  <2> SUFFICES ASSUME NEW x \in WrapAround
               PROVE  /\ ~desc'[x].enable => ~desc'[x].at_end /\ ~desc'[x].wrapped
                      /\ written # NoWrite /\ x \notin written =>
                           /\ ~desc'[x].at_end /\ ~desc'[x].wrapped
                           /\ desc'[x].enable => desc'[x].next # Size
    BY <1>1 DEF EnableInv
  <2> QED BY <1>1, HostAssumption DEF EnableInv, Keeps
<1> QED BY <1>1, StepKinds, TicksOK, WriteOK

LEMMA EnableInit == Init => EnableInv
BY HostAssumption DEF Init, EnableInv, Disabled

-----------------------------------------------------------------------------
(* The enable bits                                                         *)

Decides(d) ==
  /\ ~desc[d].enable /\ desc'[d].enable => d \in written
  /\ written # NoWrite /\ written' = NoWrite /\ d \notin written => ~desc'[d].enable

LEMMA DecidesStep ==
  ASSUME Orderly, ShapeInv, EnableInv, [Next]_vars, NEW d \in Descriptors
  PROVE  Decides(d)
<1>1. CASE Ticks
  <2>1. desc'[d].enable = Enable(d) BY <1>1 DEF Ticks
  <2>2. ~desc[d].enable /\ Enable(d) => d \in written
    BY DEF Enable, EnableInv
  <2>3. written # NoWrite /\ d \notin written => ~Enable(d)
    BY DEF Enable, EnableInv
  <2> QED BY <2>1, <2>2, <2>3 DEF Decides
<1>2. CASE Keeps /\ UNCHANGED written
  BY <1>2 DEF Keeps, Decides
<1>3. ASSUME NEW e \in Used, HostWriteEnable(e) PROVE Decides(d)
  BY <1>3 DEF HostWriteEnable, Decides
<1> QED BY <1>1, <1>2, <1>3, StepKinds

(* Only a write of DMA_DESC_ENABLE starts a descriptor, and one that       *)
(* clears its bit stops it, also when its endless transfer wraps around.   *)
THEOREM BitsAreTheHosts ==
  ASSUME Orderly
  PROVE  Spec => HostDecides
<1>1. ShapeInv /\ EnableInv /\ [Next]_vars => \A d \in Descriptors : Decides(d)
  BY DecidesStep
<1>2. (\A d \in Descriptors : Decides(d)) <=>
      (\A d \in Descriptors :
         /\ ~desc[d].enable /\ desc'[d].enable => d \in written
         /\ written # NoWrite /\ written' = NoWrite /\ d \notin written
              => ~desc'[d].enable)
  BY DEF Decides
<1> QED
  BY <1>1, <1>2, ShapeInit, ShapeNext, EnableInit, EnableNext, PTL DEF Spec, HostDecides

-----------------------------------------------------------------------------
(* What holds of the variables whatever the host does; the two address     *)
(* registers are bounded only while it is careful.                         *)

Form ==
  [enable : BOOLEAN, pc_pointer : Slots, even_pc : Bit, current : Int, next : Int,
   even_dma : Bit, wait : BOOLEAN, wait_pc : BOOLEAN, wait_next : BOOLEAN,
   wrapped : BOOLEAN, at_end : BOOLEAN, advance : BOOLEAN]

Crossing == [value : Slots, ptr : BOOLEAN, even : BOOLEAN]
States == {"IDLE", "START_WRITE", "CONT_WRITE", "START_READ", "DELAY"}
Call == [op : {"idle", "start", "stop"}, seen : SUBSET Descriptors]

FormInv ==
  /\ desc \in [Descriptors -> Form] /\ rw_state \in States
  /\ ToHostWriteCount \in Int /\ wait_4k \in BOOLEAN
  /\ written \in {NoWrite} \cup SUBSET Descriptors
  /\ pointer \in [Descriptors -> Crossing] /\ host \in [Descriptors -> Call]
  /\ full \in [Descriptors -> SUBSET Int]

LEMMA Shape ==
  /\ NToHost \in Nat \ {0} /\ Size \in Nat /\ Size >= 2
  /\ FromHost \in Descriptors /\ 0 \in Descriptors /\ FromHost # 0
  /\ 0 \in Slots /\ -1 \notin Descriptors /\ 0 \in ToHost /\ FromHost \notin ToHost
  /\ \A d \in Descriptors : d # FromHost <=> d \in ToHost
BY ShapeAssumption DEF FromHost, Descriptors, Slots, ToHost

LEMMA Fields ==
  ASSUME NEW r \in Form
  PROVE  /\ r.enable \in BOOLEAN /\ r.pc_pointer \in Slots /\ r.even_pc \in Bit
         /\ r.current \in Int /\ r.next \in Int /\ r.even_dma \in Bit
         /\ r.wait \in BOOLEAN /\ r.wait_pc \in BOOLEAN /\ r.wait_next \in BOOLEAN
         /\ r.wrapped \in BOOLEAN /\ r.at_end \in BOOLEAN /\ r.advance \in BOOLEAN
         /\ DOMAIN r = Names
BY DEF Form, Names

LEMMA AddressForm ==
  ASSUME NEW d, desc[d] \in Form
  PROVE  /\ Address(d) \in Int /\ WaitPc(d) \in BOOLEAN /\ AtEnd(d) \in BOOLEAN
         /\ Wraps(d) \in BOOLEAN /\ WaitNext(d) \in BOOLEAN
         /\ NextAddress(d) \in Int /\ Evencycle(d) \in Bit
         /\ Wait(d) \in BOOLEAN
<1>1. /\ desc[d].enable \in BOOLEAN /\ desc[d].current \in Int /\ desc[d].next \in Int
      /\ desc[d].even_dma \in Bit /\ desc[d].advance \in BOOLEAN
      /\ desc[d].at_end \in BOOLEAN /\ desc[d].wait_pc \in BOOLEAN
      /\ desc[d].wait \in BOOLEAN /\ desc[d].wait_next \in BOOLEAN
  BY Fields
<1>2. Address(d) \in Int BY <1>1 DEF Address
<1>3. WaitPc(d) \in BOOLEAN BY <1>1 DEF WaitPc
<1>4. AtEnd(d) \in BOOLEAN BY <1>1 DEF AtEnd
<1>5. Wraps(d) \in BOOLEAN BY <1>1 DEF Wraps
<1>6. WaitNext(d) \in BOOLEAN BY <1>5 DEF WaitNext
<1>7. NextAddress(d) \in Int BY <1>1, <1>5 DEF NextAddress
<1>8. Evencycle(d) \in Bit BY <1>1, <1>5 DEF Evencycle, Bit
<1>9. Wait(d) \in BOOLEAN BY <1>1, <1>3, <1>4, <1>5 DEF Wait, Compares
<1> QED BY <1>2, <1>3, <1>4, <1>5, <1>6, <1>7, <1>8, <1>9

-----------------------------------------------------------------------------
(* The registers of a descriptor after a clock                             *)

\* With tready = 1; sent says that the header was one of the descriptor.
Clocked(d, sent) ==
  /\ desc'[d] \in Form
  /\ desc'[d].enable = Enable(d)
  /\ desc'[d].pc_pointer = desc[d].pc_pointer /\ desc'[d].even_pc = desc[d].even_pc
  /\ desc'[d].current = (IF desc[d].enable THEN Address(d) ELSE 0)
  /\ desc'[d].next = NextAddress(d) /\ desc'[d].even_dma = Evencycle(d)
  /\ desc'[d].wait = Wait(d) /\ desc'[d].wait_pc = WaitPc(d)
  /\ desc'[d].wait_next = WaitNext(d) /\ desc'[d].wrapped = Wraps(d)
  /\ desc'[d].at_end = (~Wraps(d) /\ (IF Compares(d) THEN AtEnd(d) ELSE desc[d].at_end))
  /\ desc'[d].advance = sent

\* With tready = 0.
Stalled(d) ==
  /\ desc'[d] \in Form
  /\ desc'[d].enable = Enable(d)
  /\ desc'[d].pc_pointer = desc[d].pc_pointer /\ desc'[d].even_pc = desc[d].even_pc
  /\ desc'[d].current = (IF desc[d].enable THEN desc[d].current ELSE 0)
  /\ desc'[d].next = (IF desc[d].enable THEN desc[d].next ELSE 1)
  /\ desc'[d].even_dma = desc[d].even_dma /\ desc'[d].wait = desc[d].wait
  /\ desc'[d].wait_pc = desc[d].wait_pc /\ desc'[d].wait_next = desc[d].wait_next
  /\ desc'[d].wrapped = desc[d].wrapped /\ desc'[d].at_end = desc[d].at_end
  /\ desc'[d].advance = desc[d].advance

LEMMA PointersForm ==
  ASSUME NEW d, desc[d] \in Form, NEW sent \in BOOLEAN, NEW e \in BOOLEAN
  PROVE  LET r == [Pointers(d, sent) EXCEPT !.enable = e]
         IN  /\ r \in Form /\ r.enable = e
             /\ r.pc_pointer = desc[d].pc_pointer /\ r.even_pc = desc[d].even_pc
             /\ r.current = (IF desc[d].enable THEN Address(d) ELSE 0)
             /\ r.next = NextAddress(d) /\ r.even_dma = Evencycle(d)
             /\ r.wait = Wait(d) /\ r.wait_pc = WaitPc(d)
             /\ r.wait_next = WaitNext(d) /\ r.wrapped = Wraps(d)
             /\ r.at_end = (~Wraps(d) /\ (IF Compares(d) THEN AtEnd(d) ELSE desc[d].at_end))
             /\ r.advance = sent
<1> DEFINE c == IF desc[d].enable THEN Address(d) ELSE 0
           x == NextAddress(d)
           m == Evencycle(d)
           p == WaitPc(d)
           a == ~Wraps(d) /\ (IF Compares(d) THEN AtEnd(d) ELSE desc[d].at_end)
           w == Wraps(d)
           t == Wait(d)
           n == WaitNext(d)
           r == [Pointers(d, sent) EXCEPT !.enable = e]
<1>1. /\ c \in Int /\ x \in Int /\ m \in Bit /\ p \in BOOLEAN /\ a \in BOOLEAN
      /\ w \in BOOLEAN /\ t \in BOOLEAN /\ n \in BOOLEAN
  BY AddressForm, Fields
<1>2. r = [[desc[d] EXCEPT !.current = c, !.next = x, !.even_dma = m, !.wait_pc = p,
                           !.at_end = a, !.wrapped = w, !.wait = t, !.wait_next = n,
                           !.advance = sent] EXCEPT !.enable = e]
  BY DEF Pointers
<1> HIDE DEF c, x, m, p, a, w, t, n, r
<1>3. \A o \in Form :
        LET s == [[o EXCEPT !.current = c, !.next = x, !.even_dma = m, !.wait_pc = p,
                            !.at_end = a, !.wrapped = w, !.wait = t, !.wait_next = n,
                            !.advance = sent] EXCEPT !.enable = e]
        IN  /\ s \in Form /\ s.enable = e /\ s.pc_pointer = o.pc_pointer
            /\ s.even_pc = o.even_pc /\ s.current = c /\ s.next = x /\ s.even_dma = m
            /\ s.wait = t /\ s.wait_pc = p /\ s.wait_next = n /\ s.wrapped = w
            /\ s.at_end = a /\ s.advance = sent
  BY <1>1, ZenonT(60) DEF Form
<1>4. /\ r \in Form /\ r.enable = e /\ r.pc_pointer = desc[d].pc_pointer
      /\ r.even_pc = desc[d].even_pc /\ r.current = c /\ r.next = x /\ r.even_dma = m
      /\ r.wait = t /\ r.wait_pc = p /\ r.wait_next = n /\ r.wrapped = w /\ r.at_end = a
      /\ r.advance = sent
  BY <1>2, <1>3
<1> QED BY <1>4 DEF c, x, m, p, a, w, t, n, r

LEMMA EnableForm ==
  ASSUME FormInv, NEW d \in Descriptors
  PROVE  Enable(d) \in BOOLEAN
<1>1. desc[d].enable \in BOOLEAN BY Fields DEF FormInv
<1>2. (d \in WrapAround) \in BOOLEAN /\ (d \in written) \in BOOLEAN OBVIOUS
<1> QED BY <1>1, <1>2, Zenon DEF Enable

LEMMA ClockForm ==
  ASSUME FormInv, NEW sender, ClockRegisters(sender)
  PROVE  /\ desc' \in [Descriptors -> Form] /\ written' = NoWrite
         /\ \A d \in Descriptors : Clocked(d, d = sender)
<1>1. /\ written' = NoWrite
      /\ desc' = [d \in Descriptors |-> [Pointers(d, d = sender) EXCEPT !.enable = Enable(d)]]
  BY DEF ClockRegisters
<1>2. ASSUME NEW d \in Descriptors PROVE Clocked(d, d = sender)
  <2> DEFINE b == (d = sender)
             e == Enable(d)
  <2>1. desc'[d] = [Pointers(d, b) EXCEPT !.enable = e] BY <1>1
  <2>2. desc[d] \in Form /\ b \in BOOLEAN /\ e \in BOOLEAN BY EnableForm DEF FormInv
  <2> HIDE DEF b, e
  <2>3. LET q == [Pointers(d, b) EXCEPT !.enable = e] IN
        /\ q \in Form /\ q.enable = e
        /\ q.pc_pointer = desc[d].pc_pointer /\ q.even_pc = desc[d].even_pc
        /\ q.current = (IF desc[d].enable THEN Address(d) ELSE 0)
        /\ q.next = NextAddress(d) /\ q.even_dma = Evencycle(d)
        /\ q.wait = Wait(d) /\ q.wait_pc = WaitPc(d)
        /\ q.wait_next = WaitNext(d) /\ q.wrapped = Wraps(d)
        /\ q.at_end = (~Wraps(d) /\ (IF Compares(d) THEN AtEnd(d) ELSE desc[d].at_end))
        /\ q.advance = b
    BY <2>2, PointersForm
  <2>4. Clocked(d, b) BY <2>1, <2>3 DEF Clocked, e
  <2> QED BY <2>4 DEF b
<1>3. desc' \in [Descriptors -> Form]
  <2>1. \A d \in Descriptors : desc'[d] \in Form BY <1>2 DEF Clocked
  <2>2. DOMAIN desc' = Descriptors /\ desc' = [d \in DOMAIN desc' |-> desc'[d]] BY <1>1
  <2> QED BY <2>1, <2>2
<1> QED BY <1>1, <1>2, <1>3

LEMMA HeldForm ==
  ASSUME NEW d, desc[d] \in Form, NEW e \in BOOLEAN
  PROVE  LET r == [Held(d) EXCEPT !.enable = e]
         IN  /\ r \in Form /\ r.enable = e
             /\ r.pc_pointer = desc[d].pc_pointer /\ r.even_pc = desc[d].even_pc
             /\ r.current = (IF desc[d].enable THEN desc[d].current ELSE 0)
             /\ r.next = (IF desc[d].enable THEN desc[d].next ELSE 1)
             /\ r.even_dma = desc[d].even_dma /\ r.wait = desc[d].wait
             /\ r.wait_pc = desc[d].wait_pc /\ r.wait_next = desc[d].wait_next
             /\ r.wrapped = desc[d].wrapped /\ r.at_end = desc[d].at_end
             /\ r.advance = desc[d].advance
<1> DEFINE h == Held(d)
           c == IF desc[d].enable THEN desc[d].current ELSE 0
           x == IF desc[d].enable THEN desc[d].next ELSE 1
<1>1. c \in Int /\ x \in Int BY Fields
<1>2. h = [desc[d] EXCEPT !.current = c, !.next = x]
  BY DEF Held, Form
<1> HIDE DEF c, x, h
<1>3. \A o \in Form :
        LET s == [[o EXCEPT !.current = c, !.next = x] EXCEPT !.enable = e]
        IN  /\ s \in Form /\ s.enable = e /\ s.pc_pointer = o.pc_pointer
            /\ s.even_pc = o.even_pc /\ s.current = c /\ s.next = x
            /\ s.even_dma = o.even_dma /\ s.wait = o.wait /\ s.wait_pc = o.wait_pc
            /\ s.wait_next = o.wait_next /\ s.wrapped = o.wrapped
            /\ s.at_end = o.at_end /\ s.advance = o.advance
  BY <1>1 DEF Form
<1>4. LET r == [h EXCEPT !.enable = e] 
      IN  /\ r \in Form /\ r.enable = e /\ r.pc_pointer = desc[d].pc_pointer
          /\ r.even_pc = desc[d].even_pc /\ r.current = c /\ r.next = x
          /\ r.even_dma = desc[d].even_dma /\ r.wait = desc[d].wait
          /\ r.wait_pc = desc[d].wait_pc /\ r.wait_next = desc[d].wait_next
          /\ r.wrapped = desc[d].wrapped /\ r.at_end = desc[d].at_end
          /\ r.advance = desc[d].advance
  BY <1>2, <1>3, ZenonT(60)
<1> QED BY <1>4 DEF c, x, h

LEMMA StallForm ==
  ASSUME FormInv, Stall
  PROVE  /\ desc' \in [Descriptors -> Form] /\ written' = NoWrite
         /\ \A d \in Descriptors : Stalled(d)
<1>1. /\ written' = NoWrite
      /\ desc' = [d \in Descriptors |-> [Held(d) EXCEPT !.enable = Enable(d)]]
  BY DEF Stall
<1>2. ASSUME NEW d \in Descriptors PROVE Stalled(d)
  <2> DEFINE e == Enable(d)
  <2>1. desc'[d] = [Held(d) EXCEPT !.enable = e] BY <1>1
  <2>2. e \in BOOLEAN BY EnableForm
  <2>3. desc[d] \in Form BY DEF FormInv
  <2> HIDE DEF e
  <2> QED BY <2>1, <2>2, <2>3, HeldForm DEF Stalled, e
<1>3. desc' \in [Descriptors -> Form]
  <2>1. \A d \in Descriptors : desc'[d] \in Form BY <1>2 DEF Stalled
  <2>2. DOMAIN desc' = Descriptors /\ desc' = [d \in DOMAIN desc' |-> desc'[d]] BY <1>1
  <2> QED BY <2>1, <2>2
<1> QED BY <1>1, <1>2, <1>3

-----------------------------------------------------------------------------
(* A clock as the invariants see it                                        *)

Starting(d) == active = d /\ rw_state \in {"START_WRITE", "START_READ"}

\* The slots of a buffer after a clock
Moved(d) ==
  IF Starting(d) /\ desc[d].enable
  THEN IF d = FromHost THEN full[d] \ {desc[d].current} ELSE full[d] \cup {desc[d].current}
  ELSE full[d]

Chooses ==
  /\ active' \in Descriptors
  /\ active' # active => desc[active'].enable

\* The state machine
Begins ==
  /\ rw_state = "IDLE" /\ active' = active
  /\ rw_state' = (IF active = FromHost THEN "START_READ" ELSE "START_WRITE")
  /\ desc[active].enable /\ ~desc[active].wait /\ ToHostWriteCount' = Beats
Searches ==
  rw_state = "IDLE" /\ rw_state' = "IDLE" /\ Chooses /\ ToHostWriteCount' = Beats
Writing ==
  /\ rw_state = "START_WRITE" /\ rw_state' = "CONT_WRITE" /\ Chooses
  /\ ToHostWriteCount' = ToHostWriteCount - 1
Continues ==
  /\ rw_state = "CONT_WRITE" /\ active' = active
  /\ rw_state' \in {"CONT_WRITE", "IDLE"} /\ (ToHostWriteCount # 0 => rw_state' = "CONT_WRITE")
  /\ ToHostWriteCount' = (ToHostWriteCount - 1) % 256
Reading ==
  /\ rw_state = "START_READ" /\ rw_state' = "DELAY" /\ Chooses
  /\ UNCHANGED ToHostWriteCount
Delays ==
  /\ rw_state = "DELAY" /\ rw_state' = "IDLE" /\ active' = active
  /\ UNCHANGED ToHostWriteCount

Runs == Begins \/ Searches \/ Writing \/ Continues \/ Reading \/ Delays

ClockStep ==
  /\ desc' \in [Descriptors -> Form] /\ written' = NoWrite /\ wait_4k' \in BOOLEAN
  /\ full' \in [Descriptors -> SUBSET Int]
  /\ \A d \in Descriptors : Clocked(d, Starting(d)) /\ full'[d] = Moved(d)
  /\ Runs /\ UNCHANGED <<pointer, host>>

LEMMA NextActiveEnabled ==
  ASSUME FifoInv, NEW ready, active' = NextActive(ready)
  PROVE  Chooses
BY NextActiveOK, SearchOK DEF NextActive, Chooses

LEMMA TransferredOK ==
  ASSUME FormInv, FifoInv, rw_state \in {"START_WRITE", "START_READ"}
  PROVE  /\ Transferred \in [Descriptors -> SUBSET Int]
         /\ \A d \in Descriptors : Transferred[d] = Moved(d)
<1>1. active \in Descriptors /\ desc[active] \in Form BY DEF FifoInv, FormInv
<1>2. desc[active].current \in Int BY <1>1, Fields
<1>3. full \in [Descriptors -> SUBSET Int] BY DEF FormInv
<1> QED BY <1>1, <1>2, <1>3 DEF Transferred, Moved, Starting

LEMMA UntouchedOK ==
  ASSUME FormInv, rw_state \notin {"START_WRITE", "START_READ"}, UNCHANGED full
  PROVE  /\ full' \in [Descriptors -> SUBSET Int]
         /\ \A d \in Descriptors : full'[d] = Moved(d)
BY DEF FormInv, Moved, Starting

LEMMA Wait4kForm ==
  ASSUME FormInv, ClockWait4k
  PROVE  wait_4k' \in BOOLEAN
BY DEF ClockWait4k

LEMMA RegistersNone ==
  ASSUME FormInv, rw_state \notin {"START_WRITE", "START_READ"}, ClockRegisters(NoTransfer)
  PROVE  /\ desc' \in [Descriptors -> Form] /\ written' = NoWrite
         /\ \A d \in Descriptors : Clocked(d, Starting(d))
<1>1. \A d \in Descriptors : (d = NoTransfer) = Starting(d)
  BY Shape DEF NoTransfer, Starting
<1> QED BY <1>1, ClockForm

LEMMA RegistersSent ==
  ASSUME FormInv, rw_state \in {"START_WRITE", "START_READ"}, ClockRegisters(active)
  PROVE  /\ desc' \in [Descriptors -> Form] /\ written' = NoWrite
         /\ \A d \in Descriptors : Clocked(d, Starting(d))
<1>1. \A d \in Descriptors : (d = active) = Starting(d)
  BY DEF Starting
<1> QED BY <1>1, ClockForm

LEMMA ClockIsStep ==
  ASSUME FormInv, FifoInv, NEW ready, Clock(ready)
  PROVE  ClockStep
<1>1. CASE IdleStart(ready)
  <2>1. Begins BY <1>1 DEF IdleStart, CanStart, Begins
  <2>2. ClockStep
    BY <1>1, <2>1, RegistersNone, UntouchedOK, Wait4kForm DEF IdleStart, ClockStep, Runs
  <2> QED BY <2>2
<1>2. CASE IdleSearch(ready)
  <2>1. Searches BY <1>2, NextActiveEnabled DEF IdleSearch, Searches
  <2> QED BY <1>2, <2>1, RegistersNone, UntouchedOK, Wait4kForm
          DEF IdleSearch, ClockStep, Runs
<1>3. CASE StartWrite(ready)
  <2>1. Writing BY <1>3, NextActiveEnabled DEF StartWrite, Writing
  <2> QED BY <1>3, <2>1, RegistersSent, TransferredOK, Wait4kForm
          DEF StartWrite, ClockStep, Runs
<1>4. CASE ContWrite
  <2>1. Continues BY <1>4 DEF ContWrite, Continues
  <2> QED BY <1>4, <2>1, RegistersNone, UntouchedOK, Wait4kForm
          DEF ContWrite, ClockStep, Runs
<1>5. CASE StartRead(ready)
  <2>1. Reading BY <1>5, NextActiveEnabled DEF StartRead, Reading
  <2> QED BY <1>5, <2>1, RegistersSent, TransferredOK, Wait4kForm
          DEF StartRead, ClockStep, Runs
<1>6. CASE Delay
  <2>1. Delays BY <1>6 DEF Delay, Delays
  <2> QED BY <1>6, <2>1, RegistersNone, UntouchedOK, Wait4kForm
          DEF Delay, ClockStep, Runs
<1> QED BY <1>1, <1>2, <1>3, <1>4, <1>5, <1>6 DEF Clock

\* tready = 0
StallStep ==
  /\ desc' \in [Descriptors -> Form] /\ written' = NoWrite /\ wait_4k' \in BOOLEAN
  /\ \A d \in Descriptors : Stalled(d)
  /\ UNCHANGED <<rw_state, ToHostWriteCount, active, pointer, host, full>>

LEMMA StallIsStep ==
  ASSUME FormInv, Stall
  PROVE  StallStep
BY StallForm DEF Stall, StallStep, Wait4k

\* dma_soft_reset
ResetStep ==
  /\ Resets = "rest" => AtRest
  /\ desc' \in [Descriptors -> Form]
  /\ \A d \in Descriptors :
       /\ desc'[d].enable = Enable(d) /\ desc'[d].at_end = desc[d].at_end
       /\ ~desc'[d].wrapped /\ ~desc'[d].wait_next /\ desc'[d].wait_pc = desc[d].wait_pc
       /\ desc'[d].current = desc[d].current /\ desc'[d].next = desc[d].next
       /\ desc'[d].pc_pointer = desc[d].pc_pointer /\ desc'[d].even_pc = desc[d].even_pc
  /\ rw_state' = "IDLE" /\ ToHostWriteCount' = 0 /\ active' = 0 /\ wait_4k' = FALSE
  /\ written' = NoWrite /\ UNCHANGED <<pointer, host, full>>

LEMMA ClearedForm ==
  ASSUME NEW r \in Form, NEW e \in BOOLEAN
  PROVE  /\ Cleared(r, e) \in Form
         /\ Cleared(r, e).enable = e /\ Cleared(r, e).at_end = r.at_end
         /\ ~Cleared(r, e).wrapped /\ ~Cleared(r, e).wait_next
         /\ Cleared(r, e).wait_pc = r.wait_pc
         /\ Cleared(r, e).current = r.current /\ Cleared(r, e).next = r.next
         /\ Cleared(r, e).pc_pointer = r.pc_pointer
         /\ Cleared(r, e).even_pc = r.even_pc
BY DEF Cleared, Form, Bit

LEMMA ResetIsStep ==
  ASSUME FormInv, SoftReset
  PROVE  ResetStep
<1>1. desc \in [Descriptors -> Form] /\ \A d \in Descriptors : Enable(d) \in BOOLEAN
  BY EnableForm DEF FormInv
<1>2. desc' = [d \in Descriptors |-> Cleared(desc[d], Enable(d))]
  BY DEF SoftReset, Cleared
<1>3. ASSUME NEW d \in Descriptors
      PROVE  /\ desc'[d] \in Form
             /\ desc'[d].enable = Enable(d) /\ desc'[d].at_end = desc[d].at_end
             /\ ~desc'[d].wrapped /\ ~desc'[d].wait_next
             /\ desc'[d].wait_pc = desc[d].wait_pc
             /\ desc'[d].current = desc[d].current /\ desc'[d].next = desc[d].next
             /\ desc'[d].pc_pointer = desc[d].pc_pointer
             /\ desc'[d].even_pc = desc[d].even_pc
  <2>1. desc[d] \in Form /\ Enable(d) \in BOOLEAN BY <1>1
  <2>2. desc'[d] = Cleared(desc[d], Enable(d)) BY <1>2
  <2> QED BY <2>1, <2>2, ClearedForm
<1>4. desc' \in [Descriptors -> Form]
  <2>1. \A d \in Descriptors : desc'[d] \in Form BY <1>3
  <2> QED BY <1>2, <2>1
<1> QED BY <1>3, <1>4 DEF SoftReset, ResetStep

-----------------------------------------------------------------------------
(* The steps of the host                                                   *)

\* Only the registers that the host writes change.
Repointed(d, p, q) ==
  /\ desc'[d] \in Form
  /\ desc'[d].pc_pointer = p /\ desc'[d].even_pc = q
  /\ desc'[d].enable = desc[d].enable /\ desc'[d].current = desc[d].current
  /\ desc'[d].next = desc[d].next /\ desc'[d].even_dma = desc[d].even_dma
  /\ desc'[d].wait = desc[d].wait /\ desc'[d].wait_pc = desc[d].wait_pc
  /\ desc'[d].wait_next = desc[d].wait_next /\ desc'[d].wrapped = desc[d].wrapped
  /\ desc'[d].at_end = desc[d].at_end /\ desc'[d].advance = desc[d].advance

LEMMA RepointedForm ==
  ASSUME FormInv, NEW e \in Descriptors, NEW p \in Slots, NEW q \in Bit,
         desc' = [desc EXCEPT ![e].pc_pointer = p, ![e].even_pc = q]
  PROVE  /\ desc' \in [Descriptors -> Form] /\ Repointed(e, p, q)
         /\ \A d \in Descriptors : d # e => desc'[d] = desc[d]
<1>1. \A r \in Form :
        LET s == [r EXCEPT !.pc_pointer = p, !.even_pc = q]
        IN  /\ s \in Form /\ s.pc_pointer = p /\ s.even_pc = q
            /\ s.enable = r.enable /\ s.current = r.current /\ s.next = r.next
            /\ s.even_dma = r.even_dma /\ s.wait = r.wait /\ s.wait_pc = r.wait_pc
            /\ s.wait_next = r.wait_next /\ s.wrapped = r.wrapped
            /\ s.at_end = r.at_end /\ s.advance = r.advance
  BY DEF Form
<1>2. desc \in [Descriptors -> Form] BY DEF FormInv
<1> DEFINE s == [desc[e] EXCEPT !.pc_pointer = p, !.even_pc = q]
<1>3. /\ s \in Form /\ s.pc_pointer = p /\ s.even_pc = q
      /\ s.enable = desc[e].enable /\ s.current = desc[e].current /\ s.next = desc[e].next
      /\ s.even_dma = desc[e].even_dma /\ s.wait = desc[e].wait /\ s.wait_pc = desc[e].wait_pc
      /\ s.wait_next = desc[e].wait_next /\ s.wrapped = desc[e].wrapped
      /\ s.at_end = desc[e].at_end /\ s.advance = desc[e].advance
  BY <1>1, <1>2
<1>4. desc' = [desc EXCEPT ![e] = s] BY <1>2
<1> HIDE DEF s
<1>5. desc'[e] = s BY <1>2, <1>4
<1>6. desc' \in [Descriptors -> Form] /\ \A d \in Descriptors : d # e => desc'[d] = desc[d]
  BY <1>2, <1>3, <1>4, ZenonT(60)
<1> QED BY <1>3, <1>5, <1>6 DEF Repointed

Initial(d) == IF d = FromHost /\ d \notin WrapAround THEN Slots ELSE {}

StartStep(e) ==
  /\ host[e].op = "idle" /\ written = NoWrite /\ ~desc[e].enable
  /\ desc' \in [Descriptors -> Form] /\ pointer' \in [Descriptors -> Crossing]
  /\ host' \in [Descriptors -> Call] /\ full' \in [Descriptors -> SUBSET Int]
  /\ Repointed(e, 0, 0) /\ host'[e].op = "start" /\ pointer'[e] = Settled
  /\ full'[e] = Initial(e)
  /\ \A d \in Descriptors : d # e =>
       /\ desc'[d] = desc[d] /\ host'[d] = host[d] /\ pointer'[d] = pointer[d]
       /\ full'[d] = full[d]
  /\ UNCHANGED <<engine, written>>

LEMMA SettledForm == Settled \in Crossing
BY Shape DEF Settled, Crossing

LEMMA EnabledForm == Enabled \subseteq Descriptors
BY DEF Enabled

LEMMA StartIsStep ==
  ASSUME FormInv, NEW e \in Descriptors, HostStart(e)
  PROVE  StartStep(e)
<1>1. /\ desc' = [desc EXCEPT ![e].pc_pointer = 0, ![e].even_pc = 0]
      /\ 0 \in Slots /\ 0 \in Bit
  BY Shape DEF HostStart, Bit
<1>2. /\ desc' \in [Descriptors -> Form] /\ Repointed(e, 0, 0)
      /\ \A d \in Descriptors : d # e => desc'[d] = desc[d]
  BY <1>1, RepointedForm
<1>3. /\ host' \in [Descriptors -> Call] /\ host'[e].op = "start"
      /\ \A d \in Descriptors : d # e => host'[d] = host[d]
  BY EnabledForm DEF HostStart, FormInv, Call
<1>4. /\ pointer' \in [Descriptors -> Crossing] /\ pointer'[e] = Settled
      /\ \A d \in Descriptors : d # e => pointer'[d] = pointer[d]
  BY SettledForm DEF HostStart, FormInv
<1>5. /\ full' \in [Descriptors -> SUBSET Int] /\ full'[e] = Initial(e)
      /\ \A d \in Descriptors : d # e => full'[d] = full[d]
  <2>1. full' = [full EXCEPT ![e] = Initial(e)] BY DEF HostStart, Initial
  <2>2. Initial(e) \in SUBSET Int BY DEF Initial, Slots
  <2> QED BY <2>1, <2>2 DEF FormInv
<1> QED BY <1>2, <1>3, <1>4, <1>5 DEF HostStart, StartStep

StopStep(e) ==
  /\ host[e].op = "idle" /\ written = NoWrite /\ desc[e].enable /\ Writes # "starts"
  /\ host' \in [Descriptors -> Call] /\ host'[e].op = "stop"
  /\ \A d \in Descriptors : d # e => host'[d] = host[d]
  /\ UNCHANGED <<desc, engine, written, pointer, full>>

LEMMA StopIsStep ==
  ASSUME FormInv, NEW e \in Descriptors, HostStop(e)
  PROVE  StopStep(e)
BY EnabledForm DEF HostStop, StopStep, FormInv, Call

WriteStep(e) ==
  /\ host[e].op # "idle" /\ written = NoWrite /\ MayWrite(e)
  /\ host' \in [Descriptors -> Call] /\ host'[e].op = "idle"
  /\ \A d \in Descriptors : d # e => host'[d] = host[d]
  /\ written' = IF host[e].op = "start" THEN Seen(e) \cup {e} ELSE Seen(e) \ {e}
  /\ written' \in SUBSET Descriptors
  /\ UNCHANGED <<desc, engine, pointer, full>>

LEMMA WriteIsStep ==
  ASSUME FormInv, NEW e \in Descriptors, HostWriteEnable(e)
  PROVE  WriteStep(e)
<1>1. host \in [Descriptors -> Call] /\ HostIdle \in Call /\ HostIdle.op = "idle"
  BY DEF FormInv, Call, HostIdle
<1>2. Seen(e) \in SUBSET Descriptors BY <1>1, EnabledForm DEF Seen, Call
<1>3. /\ host' \in [Descriptors -> Call] /\ host'[e].op = "idle"
      /\ \A d \in Descriptors : d # e => host'[d] = host[d]
  BY <1>1 DEF HostWriteEnable
<1> QED BY <1>2, <1>3 DEF HostWriteEnable, WriteStep

\* The next slot n further on
After(p, n) == IF p + n >= Size THEN p + n - Size ELSE p + n
\* The n slots from p on
Ahead(p, n) == {(p + i) % Size : i \in 0 .. n - 1}

AdvanceStep(e, n) ==
  LET p == desc[e].pc_pointer
      new == After(p, n)
  IN
  /\ desc[e].enable /\ e \in WrapAround /\ ~pointer[e].ptr
  /\ Ahead(p, n) \subseteq Slots
  /\ IF e \in ToHost
     THEN Ahead(p, n) \subseteq full[e] /\ full'[e] = full[e] \ Ahead(p, n)
     ELSE Ahead(p, n) \cap full[e] = {} /\ full'[e] = full[e] \cup Ahead(p, n)
  /\ full' \in [Descriptors -> SUBSET Int]
  /\ pointer' \in [Descriptors -> Crossing]
  /\ new \in Slots
  /\ pointer'[e] = [value |-> new, ptr |-> TRUE, even |-> p > new + Gap]
  /\ \A d \in Descriptors : d # e => pointer'[d] = pointer[d] /\ full'[d] = full[d]
  /\ UNCHANGED <<desc, engine, written, host>>

LEMMA AfterForm ==
  ASSUME NEW p \in Slots, NEW n \in 1 .. Size
  PROVE  After(p, n) \in Slots
BY ShapeAssumption DEF After, Slots

LEMMA AheadForm ==
  ASSUME NEW p \in Slots, NEW n \in Nat
  PROVE  Ahead(p, n) \subseteq Slots
<1>1. \A m \in Int : m % Size \in Slots BY ShapeAssumption DEF Slots
<1>2. p \in Int BY DEF Slots
<1> QED BY <1>1, <1>2 DEF Ahead

LEMMA AdvanceIsStep ==
  ASSUME FormInv, NEW e \in Descriptors, NEW n \in Steps, HostAdvance(e, n)
  PROVE  AdvanceStep(e, n)
<1> DEFINE p == desc[e].pc_pointer
           new == After(p, n)
           slots == Ahead(p, n)
<1>1. n \in 1 .. Size BY HostAssumption
<1>2. p \in Slots BY Fields DEF FormInv
<1>3. new \in Slots /\ slots \subseteq Slots BY <1>1, <1>2, AfterForm, AheadForm
<1>4. /\ desc[e].enable /\ e \in WrapAround /\ ~pointer[e].ptr
      /\ IF e \in ToHost
         THEN slots \subseteq full[e] /\ full' = [full EXCEPT ![e] = @ \ slots]
         ELSE slots \cap full[e] = {} /\ full' = [full EXCEPT ![e] = @ \cup slots]
      /\ pointer' = [pointer EXCEPT ![e] = [value |-> new, ptr |-> TRUE, even |-> p > new + Gap]]
      /\ UNCHANGED <<desc, engine, written, host>>
  BY DEF HostAdvance, After, Ahead
<1>5. (p > new + Gap) \in BOOLEAN /\ Slots \subseteq Int
  BY DEF Slots
<1> HIDE DEF p, new, slots
<1>6. full \in [Descriptors -> SUBSET Int] /\ pointer \in [Descriptors -> Crossing]
  BY DEF FormInv
<1>7. /\ full' \in [Descriptors -> SUBSET Int]
      /\ \A d \in Descriptors : d # e => full'[d] = full[d]
      /\ IF e \in ToHost
         THEN slots \subseteq full[e] /\ full'[e] = full[e] \ slots
         ELSE slots \cap full[e] = {} /\ full'[e] = full[e] \cup slots
  <2>1. slots \subseteq Int BY <1>3, <1>5
  <2>2. full[e] \ slots \in SUBSET Int /\ full[e] \cup slots \in SUBSET Int
    BY <2>1, <1>6
  <2> QED BY <1>4, <1>6, <2>2
<1>8. [value |-> new, ptr |-> TRUE, even |-> p > new + Gap] \in Crossing
  BY <1>3, <1>5 DEF Crossing
<1>9. /\ pointer' \in [Descriptors -> Crossing]
      /\ pointer'[e] = [value |-> new, ptr |-> TRUE, even |-> p > new + Gap]
      /\ \A d \in Descriptors : d # e => pointer'[d] = pointer[d]
  BY <1>4, <1>6, <1>8
<1> QED BY <1>3, <1>4, <1>7, <1>9 DEF AdvanceStep, p, new, slots

SyncStep(e) ==
  /\ pointer[e].ptr
  /\ desc' \in [Descriptors -> Form] /\ pointer' \in [Descriptors -> Crossing]
  /\ Repointed(e, pointer[e].value,
               IF pointer[e].even THEN 1 - desc[e].even_pc ELSE desc[e].even_pc)
  /\ pointer'[e] = Settled
  /\ \A d \in Descriptors : d # e => desc'[d] = desc[d] /\ pointer'[d] = pointer[d]
  /\ UNCHANGED <<engine, written, host, full>>

LEMMA SyncIsStep ==
  ASSUME FormInv, NEW e \in Descriptors, Sync(e)
  PROVE  SyncStep(e)
<1> DEFINE p == pointer[e].value
           q == IF pointer[e].even THEN 1 - desc[e].even_pc ELSE desc[e].even_pc
<1>1. desc' = [desc EXCEPT ![e].pc_pointer = p, ![e].even_pc = q]
  BY DEF Sync, FormInv, Form
<1>2. p \in Slots BY DEF FormInv, Crossing
<1>3. q \in Bit
  <2>1. desc[e].even_pc \in Bit BY Fields DEF FormInv
  <2>2. \A b \in Bit : 1 - b \in Bit BY DEF Bit
  <2> QED BY <2>1, <2>2
<1>4. /\ pointer' \in [Descriptors -> Crossing] /\ pointer'[e] = Settled
      /\ \A d \in Descriptors : d # e => pointer'[d] = pointer[d]
  BY SettledForm DEF Sync, FormInv
<1> HIDE DEF p, q
<1>5. /\ desc' \in [Descriptors -> Form] /\ Repointed(e, p, q)
      /\ \A d \in Descriptors : d # e => desc'[d] = desc[d]
  BY <1>1, <1>2, <1>3, RepointedForm
<1> QED BY <1>4, <1>5 DEF Sync, SyncStep, p, q

-----------------------------------------------------------------------------
(* Every step is one of these.                                             *)

HostStep(e) ==
  \/ StartStep(e) \/ StopStep(e) \/ WriteStep(e)
  \/ (\E n \in Steps : AdvanceStep(e, n)) \/ SyncStep(e)

LEMMA StepIs ==
  ASSUME FormInv, FifoInv, [Next]_vars
  PROVE  \/ ClockStep \/ StallStep
         \/ wait_4k' \in BOOLEAN /\ UNCHANGED <<desc, rw_state, ToHostWriteCount, active,
                                               written, pointer, host, full>>
         \/ ResetStep
         \/ \E e \in Used : e \in Descriptors /\ HostStep(e)
<1>0. Used \subseteq Descriptors BY HostAssumption
<1>1. ASSUME NEW ready, Clock(ready) PROVE ClockStep BY <1>1, ClockIsStep
<1>2. CASE Stall BY <1>2, StallIsStep
<1>3. CASE ClearWait4k BY <1>3 DEF ClearWait4k
<1>4. CASE SoftReset BY <1>4, ResetIsStep
<1>5. ASSUME NEW e \in Used,
             HostStart(e) \/ HostStop(e) \/ HostWriteEnable(e) \/ Advance(e) \/ Sync(e)
      PROVE  HostStep(e)
  BY <1>0, <1>5, StartIsStep, StopIsStep, WriteIsStep, AdvanceIsStep, SyncIsStep
     DEF HostStep, Advance
<1>6. CASE UNCHANGED vars BY <1>6 DEF vars, engine, FormInv
<1> QED BY <1>0, <1>1, <1>2, <1>3, <1>4, <1>5, <1>6 DEF Next, Host

LEMMA FormInit == Init => FormInv
<1> SUFFICES ASSUME Init PROVE FormInv OBVIOUS
<1>1. Disabled \in Form BY Shape DEF Disabled, Form, Bit
<1>2. HostIdle \in Call BY DEF HostIdle, Call
<1>3. /\ desc \in [Descriptors -> Form] /\ pointer \in [Descriptors -> Crossing]
      /\ host \in [Descriptors -> Call]
  <2> DEFINE a == Disabled
             b == Settled
             c == HostIdle
  <2>1. a \in Form /\ b \in Crossing /\ c \in Call BY <1>1, <1>2, SettledForm
  <2>2. /\ desc = [d \in Descriptors |-> a] /\ pointer = [d \in Descriptors |-> b]
        /\ host = [d \in Descriptors |-> c]
    BY DEF Init
  <2> HIDE DEF a, b, c
  <2> QED BY <2>1, <2>2
<1>4. full \in [Descriptors -> SUBSET Int] BY DEF Init
<1>5. /\ rw_state \in States
      /\ ToHostWriteCount \in Int
      /\ wait_4k \in BOOLEAN
  <2>1. rw_state = "IDLE" /\ ToHostWriteCount = 0 /\ wait_4k = FALSE BY DEF Init
  <2>2. rw_state \in States BY <2>1 DEF States
  <2>3. ToHostWriteCount \in Int BY <2>1
  <2> QED BY <2>1, <2>2, <2>3
<1>6. written = NoWrite BY DEF Init
<1> QED BY <1>3, <1>4, <1>5, <1>6 DEF FormInv

LEMMA FormNext == FormInv /\ FifoInv /\ [Next]_vars => FormInv'
<1> SUFFICES ASSUME FormInv, FifoInv, [Next]_vars PROVE FormInv' OBVIOUS
<1> USE DEF FormInv
<1>1. CASE ClockStep
  <2>1. rw_state' \in States
    BY <1>1 DEF ClockStep, Runs, Begins, Searches, Writing, Continues, Reading, Delays, States
  <2>2. ToHostWriteCount' \in Int
    <3>1. \A t \in Int : (t - 1) \in Int /\ (t - 1) % 256 \in Int OBVIOUS
    <3>2. Beats \in Int BY PageAssumption
    <3> QED BY <1>1, <3>1, <3>2
            DEF ClockStep, Runs, Begins, Searches, Writing, Continues, Reading, Delays
  <2> QED BY <1>1, <2>1, <2>2 DEF ClockStep
<1>2. CASE StallStep BY <1>2 DEF StallStep
<1>3. CASE wait_4k' \in BOOLEAN /\ UNCHANGED <<desc, rw_state, ToHostWriteCount, active,
                                               written, pointer, host, full>>
  BY <1>3
<1>4. CASE ResetStep
  <2>1. rw_state' \in States
    <3>1. rw_state' = "IDLE" BY <1>4 DEF ResetStep
    <3> QED BY <3>1 DEF States
  <2>4. ToHostWriteCount' \in Int
    <3>1. ToHostWriteCount' = 0 BY <1>4 DEF ResetStep
    <3> QED BY <3>1
  <2>5. wait_4k' \in BOOLEAN BY <1>4 DEF ResetStep
  <2>2. desc' \in [Descriptors -> Form] BY <1>4 DEF ResetStep
  <2>3. written' = NoWrite /\ UNCHANGED <<pointer, host, full>> BY <1>4 DEF ResetStep
  <2> QED BY <2>1, <2>2, <2>3, <2>4, <2>5
<1>5. ASSUME NEW e \in Descriptors, HostStep(e) PROVE FormInv'
  <2>1. CASE StartStep(e) BY <2>1 DEF StartStep, engine
  <2>2. CASE StopStep(e) BY <2>2 DEF StopStep, engine
  <2>3. CASE WriteStep(e) BY <2>3 DEF WriteStep, engine
  <2>4. ASSUME NEW n \in Steps, AdvanceStep(e, n) PROVE FormInv'
    BY <2>4 DEF AdvanceStep, engine
  <2>5. CASE SyncStep(e) BY <2>5 DEF SyncStep, engine
  <2> QED BY <1>5, <2>1, <2>2, <2>3, <2>4, <2>5 DEF HostStep
<1> QED BY <1>1, <1>2, <1>3, <1>4, <1>5, StepIs

-----------------------------------------------------------------------------
(* The arithmetic of a circular buffer.  A place is a slot and a bit that  *)
(* turns with each lap; a reader at <<r, rb>> follows a writer at <<w, wb>>*)

TurnAfter(p, n, b) == IF p + n >= Size THEN 1 - b ELSE b

\* The writer is less than a lap ahead of the reader, or a lap.
Lap(r, rb, w, wb) == IF wb = rb THEN r <= w ELSE w <= r

\* The slots between them, and how many they are
Filled(r, rb, w, wb) ==
  IF wb = rb THEN r .. w - 1 ELSE (r .. Size - 1) \cup (0 .. w - 1)
Load(r, rb, w, wb) == IF wb = rb THEN w - r ELSE (Size - r) + w

LEMMA SlotInt ==
  ASSUME NEW p \in Slots
  PROVE  p \in Nat /\ p < Size /\ p <= Size - 1
BY ShapeAssumption DEF Slots

LEMMA BitFlip ==
  ASSUME NEW a \in Bit, NEW b \in Bit
  PROVE  1 - a \in Bit /\ 1 - a # a /\ (a # b <=> 1 - a = b) /\ 1 - (1 - a) = a
BY DEF Bit

LEMMA TurnForm ==
  ASSUME NEW p \in Slots, NEW n \in Nat, NEW b \in Bit
  PROVE  TurnAfter(p, n, b) \in Bit
BY DEF TurnAfter, Bit

LEMMA ModSize ==
  ASSUME NEW m \in Nat, m < 2 * Size
  PROVE  m % Size = IF m < Size THEN m ELSE m - Size
<1>1. Size \in Nat /\ Size > 0 BY Shape
<1> DEFINE q == m \div Size
           r == m % Size
<1>2. q \in Nat /\ r \in 0 .. Size - 1 /\ m = Size * q + r BY <1>1
<1> HIDE DEF q, r
<1>3. CASE q = 0 BY <1>1, <1>2, <1>3 DEF r
<1>4. CASE q = 1 BY <1>1, <1>2, <1>4 DEF r
<1>5. CASE q >= 2
  <2>1. Size * q >= Size * 2 BY <1>1, <1>2, <1>5
  <2> QED BY <1>1, <1>2, <2>1
<1> QED BY <1>2, <1>3, <1>4, <1>5

LEMMA AheadIs ==
  ASSUME NEW p \in Slots, NEW n \in 1 .. Size - 1
  PROVE  Ahead(p, n) = IF p + n <= Size THEN p .. (p + n) - 1
                       ELSE (p .. Size - 1) \cup (0 .. ((p + n) - Size) - 1)
<1>1. p \in Nat /\ p < Size /\ Size \in Nat /\ Size >= 2 /\ n \in Nat BY SlotInt, Shape
<1>2. \A i \in 0 .. n - 1 : (p + i) % Size = IF p + i < Size THEN p + i ELSE (p + i) - Size
  BY <1>1, ModSize
<1>3. CASE p + n <= Size
  <2>1. \A i \in 0 .. n - 1 : (p + i) % Size = p + i BY <1>1, <1>2, <1>3
  <2>2. \A k \in p .. (p + n) - 1 : k - p \in 0 .. n - 1 /\ p + (k - p) = k BY <1>1
  <2>3. Ahead(p, n) \subseteq p .. (p + n) - 1 BY <1>1, <2>1 DEF Ahead
  <2>4. p .. (p + n) - 1 \subseteq Ahead(p, n)
    <3> SUFFICES ASSUME NEW k \in p .. (p + n) - 1 PROVE k \in Ahead(p, n) OBVIOUS
    <3> DEFINE i == k - p
    <3>1. i \in 0 .. n - 1 /\ p + i = k BY <2>2
    <3> HIDE DEF i
    <3>2. (p + i) % Size = k BY <3>1, <2>1
    <3> QED BY <3>1, <3>2 DEF Ahead
  <2> QED BY <1>3, <2>3, <2>4
<1>4. CASE p + n > Size
  <2> DEFINE S == (p .. Size - 1) \cup (0 .. ((p + n) - Size) - 1)
  <2>1. Ahead(p, n) \subseteq S
    <3> SUFFICES ASSUME NEW i \in 0 .. n - 1 PROVE (p + i) % Size \in S BY DEF Ahead
    <3>1. i \in Int /\ 0 <= i /\ i <= n - 1 BY <1>1
    <3>2. CASE p + i < Size
      <4>1. (p + i) % Size = p + i BY <1>2, <3>2
      <4> QED BY <1>1, <3>1, <3>2, <4>1
    <3>3. CASE ~(p + i < Size)
      <4>1. (p + i) % Size = (p + i) - Size BY <1>2, <3>3
      <4> QED BY <1>1, <3>1, <3>3, <4>1
    <3> QED BY <3>2, <3>3
  <2>2. S \subseteq Ahead(p, n)
    <3> SUFFICES ASSUME NEW k \in S PROVE k \in Ahead(p, n) OBVIOUS
    <3>1. CASE k \in p .. Size - 1
      <4> DEFINE i == k - p
      <4>1. i \in 0 .. n - 1 /\ p + i = k /\ p + i < Size BY <1>1, <1>4, <3>1
      <4> HIDE DEF i
      <4>2. (p + i) % Size = k BY <1>2, <4>1
      <4> QED BY <4>1, <4>2 DEF Ahead
    <3>2. CASE k \in 0 .. ((p + n) - Size) - 1
      <4> DEFINE i == k + (Size - p)
      <4>1. i \in 0 .. n - 1 /\ (p + i) - Size = k /\ ~(p + i < Size) BY <1>1, <1>4, <3>2
      <4> HIDE DEF i
      <4>2. (p + i) % Size = k BY <1>2, <4>1
      <4> QED BY <4>1, <4>2 DEF Ahead
    <3> QED BY <3>1, <3>2
  <2>3. ~(p + n <= Size) BY <1>1, <1>4
  <2> QED BY <2>1, <2>2, <2>3
<1> QED BY <1>1, <1>3, <1>4

\* A slot moves by less than a lap.
LEMMA AfterIs ==
  ASSUME NEW p \in Slots, NEW n \in 1 .. Size - 1
  PROVE  /\ After(p, n) \in Slots
         /\ p + n < Size => After(p, n) = p + n /\ \A b : TurnAfter(p, n, b) = b
         /\ p + n >= Size => After(p, n) = (p + n) - Size /\ \A b : TurnAfter(p, n, b) = 1 - b
BY ShapeAssumption DEF After, TurnAfter, Slots

LEMMA WriterMoves ==
  ASSUME NEW r \in Slots, NEW w \in Slots, NEW rb \in Bit, NEW wb \in Bit,
         NEW n \in 1 .. Size - 1,
         Lap(r, rb, w, wb), Ahead(w, n) \cap Filled(r, rb, w, wb) = {}
  PROVE  /\ Lap(r, rb, After(w, n), TurnAfter(w, n, wb))
         /\ Filled(r, rb, After(w, n), TurnAfter(w, n, wb))
              = Filled(r, rb, w, wb) \cup Ahead(w, n)
         /\ Load(r, rb, After(w, n), TurnAfter(w, n, wb)) = Load(r, rb, w, wb) + n
         /\ Load(r, rb, w, wb) + n <= Size
<1>1. /\ r \in Nat /\ r < Size /\ w \in Nat /\ w < Size /\ Size \in Nat /\ n \in Nat
      /\ 1 <= n /\ n < Size
  BY SlotInt, Shape
<1>2. CASE wb = rb
  <2>1. r <= w /\ Filled(r, rb, w, wb) = r .. w - 1 BY <1>2 DEF Lap, Filled
  <2>2. CASE w + n < Size
    <3>1. /\ After(w, n) = w + n /\ TurnAfter(w, n, wb) = wb
          /\ Ahead(w, n) = w .. (w + n) - 1
      BY <1>1, <2>2, AfterIs, AheadIs
    <3>2. Filled(r, rb, w + n, wb) = r .. (w + n) - 1 BY <1>2 DEF Filled
    <3>3. r .. (w + n) - 1 = (r .. w - 1) \cup (w .. (w + n) - 1) BY <1>1, <2>1
    <3>4. Lap(r, rb, w + n, wb) BY <1>1, <1>2, <2>1 DEF Lap
    <3>5. Load(r, rb, w + n, wb) = Load(r, rb, w, wb) + n /\ Load(r, rb, w, wb) + n <= Size
      BY <1>1, <1>2, <2>2 DEF Load
    <3> QED BY <2>1, <3>1, <3>2, <3>3, <3>4, <3>5
  <2>3. CASE w + n >= Size
    <3> DEFINE w2 == (w + n) - Size
    <3>1. /\ After(w, n) = w2 /\ TurnAfter(w, n, wb) = 1 - wb
          /\ Ahead(w, n) = (w .. Size - 1) \cup (0 .. w2 - 1)
          /\ w2 \in Nat /\ w2 < w
      <4>1. CASE w + n = Size
        <5>1. w .. (w + n) - 1 = (w .. Size - 1) \cup (0 .. w2 - 1) BY <1>1, <4>1
        <5> QED BY <1>1, <4>1, <5>1, AfterIs, AheadIs
      <4>2. CASE w + n > Size
        BY <1>1, <4>2, AfterIs, AheadIs
      <4> QED BY <1>1, <2>3, <4>1, <4>2
    <3> HIDE DEF w2
    <3>2. w2 <= r
      <4> SUFFICES ASSUME r < w2 PROVE FALSE BY <1>1, <3>1
      <4>1. r \in Ahead(w, n) /\ r \in r .. w - 1 BY <1>1, <3>1
      <4> QED BY <2>1, <4>1
    <3>3. 1 - wb # rb BY <1>2, BitFlip
    <3>4. Lap(r, rb, w2, 1 - wb) BY <3>2, <3>3 DEF Lap
    <3>5. Filled(r, rb, w2, 1 - wb) = (r .. Size - 1) \cup (0 .. w2 - 1) BY <3>3 DEF Filled
    <3>6. r .. Size - 1 = (r .. w - 1) \cup (w .. Size - 1) BY <1>1, <2>1
    <3>7. Load(r, rb, w2, 1 - wb) = (Size - r) + w2 /\ Load(r, rb, w, wb) = w - r
      BY <1>2, <3>3 DEF Load
    <3>8. (Size - r) + w2 = (w - r) + n /\ (w - r) + n <= Size BY <1>1, <3>1, <3>2 DEF w2
    <3> QED BY <2>1, <3>1, <3>4, <3>5, <3>6, <3>7, <3>8
  <2> QED BY <1>1, <2>2, <2>3
<1>3. CASE wb # rb
  <2>1. w <= r /\ Filled(r, rb, w, wb) = (r .. Size - 1) \cup (0 .. w - 1)
    BY <1>3 DEF Lap, Filled
  <2>2. w + n <= r
    <3> SUFFICES ASSUME r < w + n PROVE FALSE BY <1>1
    <3>1. r \in Ahead(w, n) BY <1>1, <2>1, AheadIs
    <3>2. r \in r .. Size - 1 BY <1>1
    <3> QED BY <2>1, <3>1, <3>2
  <2>3. /\ After(w, n) = w + n /\ TurnAfter(w, n, wb) = wb
        /\ Ahead(w, n) = w .. (w + n) - 1
    BY <1>1, <2>2, AfterIs, AheadIs
  <2>4. Lap(r, rb, w + n, wb) BY <1>3, <2>2 DEF Lap
  <2>5. Filled(r, rb, w + n, wb) = (r .. Size - 1) \cup (0 .. (w + n) - 1)
    BY <1>3 DEF Filled
  <2>6. 0 .. (w + n) - 1 = (0 .. w - 1) \cup (w .. (w + n) - 1) BY <1>1
  <2>7. Load(r, rb, w + n, wb) = (Size - r) + (w + n) /\ Load(r, rb, w, wb) = (Size - r) + w
    BY <1>3 DEF Load
  <2>8. (Size - r) + (w + n) = ((Size - r) + w) + n /\ ((Size - r) + w) + n <= Size
    BY <1>1, <2>2
  <2> QED BY <2>1, <2>3, <2>4, <2>5, <2>6, <2>7, <2>8
<1> QED BY <1>2, <1>3

LEMMA ReaderMoves ==
  ASSUME NEW r \in Slots, NEW w \in Slots, NEW rb \in Bit, NEW wb \in Bit,
         NEW n \in 1 .. Size - 1,
         Lap(r, rb, w, wb), Ahead(r, n) \subseteq Filled(r, rb, w, wb)
  PROVE  /\ Lap(After(r, n), TurnAfter(r, n, rb), w, wb)
         /\ Filled(After(r, n), TurnAfter(r, n, rb), w, wb)
              = Filled(r, rb, w, wb) \ Ahead(r, n)
         /\ Load(After(r, n), TurnAfter(r, n, rb), w, wb) = Load(r, rb, w, wb) - n
         /\ n <= Load(r, rb, w, wb)
<1>1. /\ r \in Nat /\ r < Size /\ w \in Nat /\ w < Size /\ Size \in Nat /\ n \in Nat
      /\ 1 <= n /\ n < Size
  BY SlotInt, Shape
<1>2. CASE wb = rb
  <2>1. r <= w /\ Filled(r, rb, w, wb) = r .. w - 1 BY <1>2 DEF Lap, Filled
  <2>2. r + n <= w
    <3> SUFFICES ASSUME w < r + n PROVE FALSE BY <1>1
    <3>1. w \in Ahead(r, n) BY <1>1, <2>1, AheadIs
    <3> QED BY <1>1, <2>1, <3>1
  <2>3. /\ After(r, n) = r + n /\ TurnAfter(r, n, rb) = rb
        /\ Ahead(r, n) = r .. (r + n) - 1
    BY <1>1, <2>2, AfterIs, AheadIs
  <2>4. Lap(r + n, rb, w, wb) BY <1>2, <2>2 DEF Lap
  <2>5. Filled(r + n, rb, w, wb) = r + n .. w - 1 BY <1>2 DEF Filled
  <2>6. r + n .. w - 1 = (r .. w - 1) \ (r .. (r + n) - 1) BY <1>1, <2>2
  <2>7. Load(r + n, rb, w, wb) = w - (r + n) /\ Load(r, rb, w, wb) = w - r
    BY <1>2 DEF Load
  <2>8. w - (r + n) = (w - r) - n /\ n <= w - r BY <1>1, <2>2
  <2> QED BY <2>1, <2>3, <2>4, <2>5, <2>6, <2>7, <2>8
<1>3. CASE wb # rb
  <2>1. w <= r /\ Filled(r, rb, w, wb) = (r .. Size - 1) \cup (0 .. w - 1)
    BY <1>3 DEF Lap, Filled
  <2>2. CASE r + n < Size
    <3>1. /\ After(r, n) = r + n /\ TurnAfter(r, n, rb) = rb
          /\ Ahead(r, n) = r .. (r + n) - 1
      BY <1>1, <2>2, AfterIs, AheadIs
    <3>2. Lap(r + n, rb, w, wb) BY <1>1, <1>3, <2>1 DEF Lap
    <3>3. Filled(r + n, rb, w, wb) = (r + n .. Size - 1) \cup (0 .. w - 1)
      BY <1>3 DEF Filled
    <3>4. (r + n .. Size - 1) \cup (0 .. w - 1)
            = ((r .. Size - 1) \cup (0 .. w - 1)) \ (r .. (r + n) - 1)
      BY <1>1, <2>1, <2>2
    <3>5. Load(r + n, rb, w, wb) = (Size - (r + n)) + w /\ Load(r, rb, w, wb) = (Size - r) + w
      BY <1>3 DEF Load
    <3>6. (Size - (r + n)) + w = ((Size - r) + w) - n /\ n <= (Size - r) + w BY <1>1, <2>2
    <3> QED BY <2>1, <3>1, <3>2, <3>3, <3>4, <3>5, <3>6
  <2>3. CASE r + n >= Size
    <3> DEFINE r2 == (r + n) - Size
    <3>1. /\ After(r, n) = r2 /\ TurnAfter(r, n, rb) = 1 - rb
          /\ Ahead(r, n) = (r .. Size - 1) \cup (0 .. r2 - 1)
          /\ r2 \in Nat /\ r2 < r
      <4>1. CASE r + n = Size
        <5>1. r .. (r + n) - 1 = (r .. Size - 1) \cup (0 .. r2 - 1) BY <1>1, <4>1
        <5> QED BY <1>1, <4>1, <5>1, AfterIs, AheadIs
      <4>2. CASE r + n > Size
        BY <1>1, <4>2, AfterIs, AheadIs
      <4> QED BY <1>1, <2>3, <4>1, <4>2
    <3> HIDE DEF r2
    <3>2. r2 <= w
      <4> SUFFICES ASSUME w < r2 PROVE FALSE BY <1>1, <3>1
      <4>1. w \in Ahead(r, n) BY <1>1, <3>1
      <4>2. w \notin (r .. Size - 1) \cup (0 .. w - 1) BY <1>1, <3>1
      <4> QED BY <2>1, <4>1, <4>2
    <3>3. wb = 1 - rb BY <1>3, BitFlip
    <3>4. Lap(r2, 1 - rb, w, wb) BY <3>2, <3>3 DEF Lap
    <3>5. Filled(r2, 1 - rb, w, wb) = r2 .. w - 1 BY <3>3 DEF Filled
    <3>6. r2 .. w - 1 = ((r .. Size - 1) \cup (0 .. w - 1)) \ ((r .. Size - 1) \cup (0 .. r2 - 1))
      BY <1>1, <2>1, <3>1, <3>2
    <3>7. Load(r2, 1 - rb, w, wb) = w - r2 /\ Load(r, rb, w, wb) = (Size - r) + w
      BY <1>3, <3>3 DEF Load
    <3>8. w - r2 = ((Size - r) + w) - n /\ n <= (Size - r) + w BY <1>1, <3>1, <3>2 DEF r2
    <3> QED BY <2>1, <3>1, <3>4, <3>5, <3>6, <3>7, <3>8
  <2> QED BY <1>1, <2>2, <2>3
<1> QED BY <1>2, <1>3

\* A writer may write unless it has caught up with the reader, ...
LEMMA MayFill ==
  ASSUME NEW r \in Slots, NEW w \in Slots, NEW rb \in Bit, NEW wb \in Bit,
         Lap(r, rb, w, wb), ~(w = r /\ wb # rb)
  PROVE  w \notin Filled(r, rb, w, wb)
BY SlotInt, Shape DEF Lap, Filled

\* ... and a reader may read unless it has.
LEMMA MayTake ==
  ASSUME NEW r \in Slots, NEW w \in Slots, NEW rb \in Bit, NEW wb \in Bit,
         Lap(r, rb, w, wb), ~(r = w /\ rb = wb)
  PROVE  r \in Filled(r, rb, w, wb)
BY SlotInt, Shape, BitFlip DEF Lap, Filled

LEMMA AheadOne ==
  ASSUME NEW p \in Slots
  PROVE  Ahead(p, 1) = {p} /\ 1 \in 1 .. Size - 1
<1>1. p \in Nat /\ p < Size /\ Size \in Nat /\ Size >= 2 BY SlotInt, Shape
<1>2. 1 \in 1 .. Size - 1 /\ p + 1 <= Size /\ p .. (p + 1) - 1 = {p} BY <1>1
<1> QED BY <1>2, AheadIs

\* A pointer that crosses to <<q, qb>> finds nobody there.
LEMMA NewPlace ==
  ASSUME NEW p \in Slots, NEW q \in Slots, NEW a \in Slots,
         NEW b \in Bit, NEW qb \in Bit, NEW t \in Bit,
         (qb = b /\ q > p) \/ (qb # b /\ q < p)
  PROVE  /\ Lap(p, b, a, t) => ~(a = q /\ t # qb)
         /\ Lap(a, t, p, b) => ~(a = q /\ t = qb)
BY SlotInt, BitFlip DEF Lap

LEMMA FilledForm ==
  ASSUME NEW r \in Slots, NEW w \in Slots, NEW rb \in Bit, NEW wb \in Bit, Lap(r, rb, w, wb)
  PROVE  /\ Filled(r, rb, w, wb) \subseteq Slots
         /\ Load(r, rb, w, wb) \in 0 .. Size
         /\ IsFiniteSet(Filled(r, rb, w, wb))
         /\ Cardinality(Filled(r, rb, w, wb)) = Load(r, rb, w, wb)
<1>1. r \in Nat /\ r < Size /\ w \in Nat /\ w < Size /\ Size \in Nat BY SlotInt, Shape
<1>2. CASE wb = rb
  <2>1. r <= w /\ Filled(r, rb, w, wb) = r .. w - 1 /\ Load(r, rb, w, wb) = w - r
    BY <1>2 DEF Lap, Filled, Load
  <2>2. IsFiniteSet(r .. w - 1) /\ Cardinality(r .. w - 1) = w - r
    <3>1. r \in Int /\ w - 1 \in Int BY <1>1
    <3>2. /\ IsFiniteSet(r .. w - 1)
          /\ Cardinality(r .. w - 1) = IF r > w - 1 THEN 0 ELSE ((w - 1) - r) + 1
      BY <3>1, FS_Interval
    <3> QED BY <1>1, <2>1, <3>2
  <2>3. w - r \in 0 .. Size BY <1>1, <2>1
  <2>4. r .. w - 1 \subseteq Slots BY <1>1 DEF Slots
  <2> QED BY <2>1, <2>2, <2>3, <2>4
<1>3. CASE wb # rb
  <2> DEFINE S == r .. Size - 1
             T == 0 .. w - 1
  <2>1. /\ w <= r /\ Filled(r, rb, w, wb) = S \cup T /\ Load(r, rb, w, wb) = (Size - r) + w
    BY <1>3 DEF Lap, Filled, Load
  <2>2. IsFiniteSet(S) /\ Cardinality(S) = Size - r
    <3>1. r \in Int /\ Size - 1 \in Int BY <1>1
    <3>2. /\ IsFiniteSet(r .. Size - 1)
          /\ Cardinality(r .. Size - 1) = IF r > Size - 1 THEN 0 ELSE ((Size - 1) - r) + 1
      BY <3>1, FS_Interval
    <3> QED BY <1>1, <3>2
  <2>3. IsFiniteSet(T) /\ Cardinality(T) = w
    <3>1. 0 \in Int /\ w - 1 \in Int BY <1>1
    <3>2. /\ IsFiniteSet(0 .. w - 1)
          /\ Cardinality(0 .. w - 1) = IF 0 > w - 1 THEN 0 ELSE ((w - 1) - 0) + 1
      BY <3>1, FS_Interval
    <3> QED BY <1>1, <3>2
  <2>4. S \cap T = {} BY <1>1, <2>1
  <2>5. S \cup T \subseteq Slots BY <1>1 DEF Slots
  <2> HIDE DEF S, T
  <2>6. IsFiniteSet(S \cup T) BY <2>2, <2>3, FS_Union
  <2>7. Cardinality(S \cup T) = Cardinality(S) + Cardinality(T) - Cardinality(S \cap T)
    BY <2>2, <2>3, FS_Union
  <2>8. Cardinality(S \cap T) = 0 BY <2>4, FS_EmptySet
  <2>9. Cardinality(S \cup T) = (Size - r) + w BY <1>1, <2>2, <2>3, <2>7, <2>8
  <2>10. (Size - r) + w \in 0 .. Size BY <1>1, <2>1
  <2> QED BY <2>1, <2>5, <2>6, <2>9, <2>10
<1> QED BY <1>2, <1>3

-----------------------------------------------------------------------------
(* The phases of the address registers of an enabled descriptor: c and x   *)
(* are current_address and next_address, v says that the last clock sent a *)
(* header, e that the end was seen, w that the host was not ready, s that  *)
(* a header is about to be sent.                                           *)

EndlessAt(c, x, v, e, w, s) ==
  \/ x = c + 1 /\ c >= 0 /\ x < Size /\ ~e
  \/ c = Size - 1 /\ x = Size /\ ~v /\ (IF e THEN ~w ELSE ~s)
  \/ c = Size - 1 /\ x = 0 /\ ~e

\* A transfer that is not endless: q says that the descriptor wraps around,
\* which disables it, o that nothing can be started for it.
SingleAt(c, x, v, e, q, s, o) ==
  \/ x = c + 1 /\ c >= 0 /\ x <= Size /\ ~e /\ ~q
  \/ c = Size /\ x = Size + 1 /\ e /\ ~q /\ ~v /\ ~s /\ o
  \/ c = Size /\ x = 0 /\ ~e /\ q /\ ~v /\ ~s /\ o

At(c, x, v) == IF v THEN x ELSE c

\* next_address is 0 as soon as the transfer has wrapped around, and the
\* address becomes 0 with the next header.
TurnOf(x, v, m) == IF x = 0 /\ ~v THEN 1 - m ELSE m

LEMMA EndlessNext ==
  ASSUME NEW c \in Int, NEW x \in Int, NEW v \in BOOLEAN, NEW e \in BOOLEAN, NEW w \in BOOLEAN,
         NEW s \in BOOLEAN, NEW w2 \in BOOLEAN, NEW s2 \in BOOLEAN,
         NEW c2, NEW x2, NEW e2,
         EndlessAt(c, x, v, e, w, s), v => ~s /\ ~s2,
         c2 = At(c, x, v), c2 = Size - 1 => ~w2,
         x2 = IF e /\ ~w THEN 0 ELSE IF v THEN x + 1 ELSE x,
         e2 = (~(e /\ ~w) /\ x = Size)
  PROVE  EndlessAt(c2, x2, s, e2, w2, s2)
BY Shape DEF EndlessAt, At

\* A header moves the address by one slot.
LEMMA EndlessMoves ==
  ASSUME NEW c \in Int, NEW x \in Int, NEW v \in BOOLEAN, NEW e \in BOOLEAN, NEW w \in BOOLEAN,
         NEW s \in BOOLEAN, NEW m \in Bit, NEW c2, NEW x2, NEW m2,
         EndlessAt(c, x, v, e, w, s), v => ~s,
         c2 = At(c, x, v),
         x2 = IF e /\ ~w THEN 0 ELSE IF v THEN x + 1 ELSE x,
         m2 = IF e /\ ~w THEN 1 - m ELSE m
  PROVE  /\ At(c, x, v) \in Slots /\ TurnOf(x, v, m) \in Bit
         /\ s => /\ c = At(c, x, v)
                 /\ At(c2, x2, s) = After(At(c, x, v), 1)
                 /\ TurnOf(x2, s, m2) = TurnAfter(At(c, x, v), 1, TurnOf(x, v, m))
         /\ ~s => At(c2, x2, s) = At(c, x, v) /\ TurnOf(x2, s, m2) = TurnOf(x, v, m)
BY Shape DEF EndlessAt, At, TurnOf, After, TurnAfter, Slots, Bit

LEMMA SingleNext ==
  ASSUME NEW c \in Int, NEW x \in Int, NEW v \in BOOLEAN, NEW e \in BOOLEAN,
         NEW q \in BOOLEAN, NEW s \in BOOLEAN, NEW o \in BOOLEAN,
         NEW s2 \in BOOLEAN, NEW o2 \in BOOLEAN, NEW c2, NEW x2, NEW e2,
         SingleAt(c, x, v, e, q, s, o), ~q, v => ~s /\ ~s2, o => ~s2,
         e \/ (v /\ x = Size) => o2,
         c2 = At(c, x, v), x2 = IF e THEN 0 ELSE IF v THEN x + 1 ELSE x,
         e2 = (~e /\ (IF v THEN x = Size ELSE e))
  PROVE  SingleAt(c2, x2, s, e2, e, s2, o2)
BY Shape DEF SingleAt, At

LEMMA SingleMoves ==
  ASSUME NEW c \in Int, NEW x \in Int, NEW v \in BOOLEAN, NEW e \in BOOLEAN,
         NEW q \in BOOLEAN, NEW s \in BOOLEAN, NEW o \in BOOLEAN, NEW c2, NEW x2,
         SingleAt(c, x, v, e, q, s, o), v => ~s,
         c2 = At(c, x, v), x2 = IF e THEN 0 ELSE IF v THEN x + 1 ELSE x
  PROVE  /\ At(c, x, v) \in 0 .. Size
         /\ s => c = At(c, x, v) /\ c < Size /\ ~q /\ At(c2, x2, s) = c + 1
         /\ ~s => At(c2, x2, s) = At(c, x, v)
         /\ q => At(c, x, v) = Size
BY Shape DEF SingleAt, At

LEMMA PhaseBounds ==
  ASSUME NEW c \in Int, NEW x \in Int, NEW v, NEW e, NEW w, NEW q, NEW s, NEW o,
         EndlessAt(c, x, v, e, w, s) \/ SingleAt(c, x, v, e, q, s, o)
  PROVE  c \in 0 .. Size /\ x \in 0 .. Size + 1
BY Shape DEF EndlessAt, SingleAt

-----------------------------------------------------------------------------
(* The host this is for                                                    *)

\* The host's pointer stands at these places only, and never at the last one.
Stands(S) ==
  /\ S \subseteq Slots /\ 0 \in S /\ Size - 1 \notin S
  /\ \A p \in S, n \in Steps : After(p, n) \in S

Careful ==
  /\ Orderly /\ Beats \in 2 .. 255 /\ Resets = "rest"
  /\ FromHost \in WrapAround => Writes = "starts" /\ WrapAround = {FromHost}
  /\ \A n \in Steps : n + Gap < Size
  /\ \E S \in SUBSET Slots : Stands(S)

Posts == CHOOSE S \in SUBSET Slots : Stands(S)

LEMMA PostsStand == Careful => Stands(Posts)
BY DEF Careful, Posts

-----------------------------------------------------------------------------
(* The invariant                                                           *)

AnyWaitNext == \E i \in Descriptors : desc[i].wait_next

\* The state machine starts a transfer of the active descriptor only; an
\* endless FromHost descriptor, once it is active, has been enabled for good.
MachineInv ==
  /\ rw_state = "START_WRITE" => active \in ToHost /\ ToHostWriteCount = Beats
  /\ rw_state = "START_READ" => active = FromHost
  /\ FromHost \in WrapAround /\ ~desc[FromHost].enable => active # FromHost
  /\ ToHostWriteCount \in 0 .. 255

\* After its header a descriptor is out of reach for two clocks.
Sent(d) ==
  desc[d].enable /\ desc[d].advance =>
    IF d = FromHost THEN rw_state = "DELAY"
    ELSE rw_state = "CONT_WRITE" /\ ToHostWriteCount = Beats - 1

Plain(d) == d \notin WrapAround => ~desc[d].wait_pc /\ ~desc[d].wait_next

\* Nothing can be started for a descriptor: it waits, or it will in a clock
\* and the state machine is busy.
Kept(d) ==
  desc[d].wait \/ (d # FromHost /\ rw_state = "CONT_WRITE" /\ ~AnyWaitNext)

Endless(d) ==
  EndlessAt(desc[d].current, desc[d].next, desc[d].advance, desc[d].at_end,
            desc[d].wait_pc, Starting(d))
Single(d) ==
  SingleAt(desc[d].current, desc[d].next, desc[d].advance, desc[d].at_end,
           desc[d].wrapped, Starting(d), Kept(d))
Off(d) ==
  /\ ~desc[d].at_end /\ (d \in WrapAround => ~desc[d].wrapped)
  /\ desc[d].current \in 0 .. Size /\ desc[d].next \in 0 .. Size + 1

Phase(d) ==
  IF desc[d].enable THEN IF d \in WrapAround THEN Endless(d) ELSE Single(d) ELSE Off(d)

\* An endless ToHost descriptor wraps around while a payload is sent or the
\* state machine searches.
Over(d) ==
  d \in WrapAround /\ d # FromHost =>
    /\ desc[d].enable /\ desc[d].next = Size =>
         rw_state = "CONT_WRITE" \/ (desc[d].at_end /\ rw_state = "IDLE")
    /\ desc[d].wait_next => rw_state # "DELAY"

EngineInv == MachineInv /\ \A d \in Descriptors : Sent(d) /\ Plain(d) /\ Phase(d) /\ Over(d)

\* A descriptor as the host sets it up, and one that is nowhere in the pipeline
Fresh(d) ==
  /\ desc[d].pc_pointer = 0 /\ desc[d].even_pc = 0 /\ pointer[d] = Settled
  /\ full[d] = Initial(d)
Resting(d) ==
  ~desc[d].at_end /\ ~desc[d].wrapped /\ ~desc[d].advance /\ ~Starting(d)

\* The calls of the host and the write of DMA_DESC_ENABLE on its way
Calls(d) ==
  /\ desc[d].enable => d \in Used
  /\ d \in written => d \in Used
  /\ host[d].op = "start" => ~desc[d].enable /\ Fresh(d) /\ d \notin written
  /\ d \in written /\ ~desc[d].enable => Fresh(d) /\ Resting(d) /\ desc[d].even_dma = 0
  /\ written # NoWrite /\ d \notin written /\ desc[d].enable =>
       Resting(d) /\ desc[d].next # Size
  /\ Writes = "starts" =>
       /\ host[d].op # "stop"
       /\ written # NoWrite /\ desc[d].enable => d \in written

\* The write of pc_pointer on its way
Pointed(d) ==
  /\ desc[d].pc_pointer \in Posts /\ pointer[d].value \in Posts
  /\ pointer[d].ptr => IF pointer[d].even THEN pointer[d].value < desc[d].pc_pointer
                       ELSE pointer[d].value > desc[d].pc_pointer
  /\ ~pointer[d].ptr => ~pointer[d].even

Turn(d) == TurnOf(desc[d].next, desc[d].advance, desc[d].even_dma)
HostTurn(d) == IF pointer[d].even THEN 1 - desc[d].even_pc ELSE desc[d].even_pc

\* Engine and host follow each other around the buffer, the host as the engine
\* sees it and the host as it is, and full is what lies between them.
Holds(d) ==
  LET a == Address(d)
      t == Turn(d)
      p == desc[d].pc_pointer
      b == desc[d].even_pc
      h == HostSlot(d)
      u == HostTurn(d)
  IN  IF d \in WrapAround
      THEN IF d = FromHost
           THEN Lap(a, t, p, b) /\ Lap(a, t, h, u) /\ full[d] = Filled(a, t, h, u)
           ELSE Lap(p, b, a, t) /\ Lap(h, u, a, t) /\ full[d] = Filled(h, u, a, t)
      ELSE full[d] = IF d = FromHost THEN a .. Size - 1 ELSE 0 .. a - 1

\* The engine has caught up with the host, ...
Blocked(d) ==
  /\ Address(d) = desc[d].pc_pointer
  /\ IF d = FromHost THEN Turn(d) = desc[d].even_pc ELSE Turn(d) # desc[d].even_pc

\* ... so it waits, or it will before the state machine comes to it.
Waits(d) ==
  Blocked(d) =>
    /\ ~Starting(d)
    /\ \/ desc[d].wait \/ desc[d].advance
       \/ IF d = FromHost THEN active # d ELSE rw_state = "CONT_WRITE" /\ ~AnyWaitNext

HostInv ==
  \A d \in Descriptors :
    /\ Calls(d) /\ full[d] \subseteq Slots
    /\ d \in WrapAround => Pointed(d)
    /\ desc[d].enable => Holds(d)
    /\ desc[d].enable /\ d \in WrapAround => Waits(d)

DmaInv == FormInv /\ FifoInv /\ EngineInv /\ HostInv

-----------------------------------------------------------------------------
(* The engine's part, when no clock is taken                               *)

\* What the engine uses of the registers stays.
Alike(d) ==
  /\ desc'[d].enable = desc[d].enable /\ desc'[d].current = desc[d].current
  /\ desc'[d].next = desc[d].next /\ desc'[d].wait = desc[d].wait
  /\ desc'[d].even_dma = desc[d].even_dma
  /\ desc'[d].wait_pc = desc[d].wait_pc /\ desc'[d].wait_next = desc[d].wait_next
  /\ desc'[d].wrapped = desc[d].wrapped /\ desc'[d].at_end = desc[d].at_end
  /\ desc'[d].advance = desc[d].advance

LEMMA EngineAlike ==
  ASSUME EngineInv, \A d \in Descriptors : Alike(d),
         UNCHANGED <<rw_state, ToHostWriteCount, active>>
  PROVE  EngineInv'
<1>1. MachineInv' BY Shape DEF EngineInv, MachineInv, Alike
<1>2. AnyWaitNext' = AnyWaitNext BY DEF AnyWaitNext, Alike
<1>3. ASSUME NEW d \in Descriptors PROVE Sent(d)' /\ Plain(d)' /\ Phase(d)' /\ Over(d)'
  <2>1. Sent(d) /\ Plain(d) /\ Phase(d) /\ Over(d) /\ Alike(d) BY DEF EngineInv
  <2>2. Starting(d)' = Starting(d) BY DEF Starting
  <2>3. Sent(d)' /\ Plain(d)' /\ Over(d)' BY <2>1 DEF Sent, Plain, Over, Alike
  <2>4. Kept(d)' = Kept(d) BY <1>2, <2>1 DEF Kept, Alike
  <2>5. Phase(d)'
    BY <2>1, <2>2, <2>4 DEF Phase, Endless, Single, Off, Alike
  <2> QED BY <2>3, <2>5
<1> QED BY <1>1, <1>3 DEF EngineInv

LEMMA HostStepAlike ==
  ASSUME FormInv, NEW e \in Descriptors, HostStep(e)
  PROVE  /\ \A d \in Descriptors : Alike(d)
         /\ UNCHANGED <<rw_state, ToHostWriteCount, active>>
<1>1. CASE StartStep(e) BY <1>1 DEF StartStep, Repointed, Alike, engine
<1>2. CASE StopStep(e) BY <1>2 DEF StopStep, Alike, engine
<1>3. CASE WriteStep(e) BY <1>3 DEF WriteStep, Alike, engine
<1>4. ASSUME NEW n \in Steps, AdvanceStep(e, n)
      PROVE  (\A d \in Descriptors : Alike(d)) /\ UNCHANGED <<rw_state, ToHostWriteCount, active>>
  <2>1. UNCHANGED <<desc, engine>> BY <1>4 DEF AdvanceStep
  <2> QED BY <2>1 DEF Alike, engine
<1>5. CASE SyncStep(e) BY <1>5 DEF SyncStep, Repointed, Alike, engine
<1> QED BY <1>1, <1>2, <1>3, <1>4, <1>5 DEF HostStep

LEMMA ResetRests ==
  ASSUME EngineInv, Careful, ResetStep
  PROVE  /\ UNCHANGED written /\ \A d \in Descriptors : host[d].op = "idle"
         /\ \A d \in Descriptors : ~desc[d].enable /\ ~desc'[d].enable
<1>1. AtRest BY DEF ResetStep, Careful
<1>2. ASSUME NEW d \in Descriptors PROVE ~Enable(d)
  <2>1. Off(d) BY <1>1 DEF AtRest, EngineInv, Phase
  <2> QED BY <1>1, <2>1 DEF Off, AtRest, Enable
<1> QED BY <1>1, <1>2 DEF AtRest, ResetStep

LEMMA EngineReset ==
  ASSUME EngineInv, Careful, ResetStep
  PROVE  EngineInv'
<1>1. MachineInv'
  BY Shape DEF ResetStep, MachineInv
<1>2. ASSUME NEW d \in Descriptors PROVE Sent(d)' /\ Plain(d)' /\ Phase(d)' /\ Over(d)'
  <2>1. Plain(d) /\ Phase(d) BY DEF EngineInv
  <2>2. ~desc[d].enable /\ ~desc'[d].enable /\ rw_state' = "IDLE"
    BY ResetRests DEF ResetStep
  <2>3. Sent(d)' BY <2>2 DEF Sent
  <2>4. Plain(d)' BY <2>1 DEF ResetStep, Plain
  <2>5. Over(d)' BY <2>2 DEF Over
  <2>6. Off(d)'
    BY <2>1, <2>2 DEF ResetStep, Phase, Off
  <2> QED BY <2>2, <2>3, <2>4, <2>5, <2>6 DEF Phase
<1> QED BY <1>1, <1>2 DEF EngineInv

\* The host enables a descriptor at rest, and disables one too.
LEMMA Enables ==
  ASSUME FormInv, EngineInv, HostInv, NEW d \in Descriptors
  PROVE  /\ ~desc[d].enable /\ Enable(d) =>
              d \in written /\ Fresh(d) /\ Resting(d) /\ desc[d].even_dma = 0 /\ d \in Used
         /\ desc[d].enable /\ ~Enable(d) =>
              \/ d \notin WrapAround /\ desc[d].wrapped
              \/ written # NoWrite /\ d \notin written /\ Resting(d) /\ desc[d].next # Size
         /\ desc[d].enable /\ Enable(d) => d \in WrapAround \/ ~desc[d].wrapped
         /\ Writes = "starts" /\ d \in WrapAround /\ desc[d].enable => Enable(d)
<1>1. Calls(d) /\ Phase(d) BY DEF HostInv, EngineInv
<1>2. d \in written => written # NoWrite BY Shape DEF NoWrite
<1> QED BY <1>1, <1>2 DEF Enable, Calls, Phase, Off

LEMMA FromHostStays ==
  ASSUME FormInv, EngineInv, HostInv, FromHost \in WrapAround, Careful,
         desc'[FromHost].enable = Enable(FromHost), ~desc'[FromHost].enable
  PROVE  ~desc[FromHost].enable /\ active # FromHost
BY Shape, Enables DEF Careful, EngineInv, MachineInv

LEMMA EngineStall ==
  ASSUME FormInv, EngineInv, HostInv, Careful, StallStep
  PROVE  EngineInv'
<1>1. MachineInv'
  <2>1. FromHost \in WrapAround /\ ~desc'[FromHost].enable => active # FromHost
    BY FromHostStays, Shape DEF StallStep, Stalled
  <2> QED BY <2>1 DEF StallStep, EngineInv, MachineInv
<1>2. AnyWaitNext' = AnyWaitNext BY DEF AnyWaitNext, StallStep, Stalled
<1>3. ASSUME NEW d \in Descriptors PROVE Sent(d)' /\ Plain(d)' /\ Phase(d)' /\ Over(d)'
  <2>1. Sent(d) /\ Plain(d) /\ Phase(d) /\ Over(d) /\ Stalled(d)
        /\ UNCHANGED <<rw_state, ToHostWriteCount, active>>
    BY DEF EngineInv, StallStep
  <2>2. Starting(d)' = Starting(d) BY <2>1 DEF Starting
  <2>3. Plain(d)' BY <2>1 DEF Plain, Stalled
  <2>4. Sent(d)' BY <2>1, Enables DEF Sent, Stalled, Resting
  <2>5. Over(d)'
    <3>1. desc'[d].enable /\ desc'[d].next = Size => desc[d].enable /\ desc[d].next = Size
      BY <2>1, Shape DEF Stalled
    <3> QED BY <2>1, <3>1 DEF Over, Stalled
  <2>6. Kept(d)' = Kept(d) BY <1>2, <2>1 DEF Kept, Stalled
  <2>7. CASE desc[d].enable /\ desc'[d].enable
    <3>1. Alike(d) BY <2>1, <2>7 DEF Stalled, Alike
    <3> QED BY <2>1, <2>2, <2>3, <2>4, <2>5, <2>6, <2>7, <3>1
            DEF Phase, Endless, Single, Alike
  <2>8. CASE ~desc[d].enable /\ desc'[d].enable
    <3>1. Resting(d) BY <2>1, <2>8, Enables DEF Stalled
    <3>2. desc'[d].current = 0 /\ desc'[d].next = 1 /\ ~desc'[d].at_end /\ ~desc'[d].wrapped
      BY <2>1, <2>8, <3>1 DEF Stalled, Resting
    <3>3. \A c, x, v, e, w, s, q, o : c = 0 /\ x = 1 /\ ~e /\ ~q =>
            EndlessAt(c, x, v, e, w, s) /\ SingleAt(c, x, v, e, q, s, o)
      BY Shape DEF EndlessAt, SingleAt
    <3>4. Endless(d)' /\ Single(d)' BY <3>2, <3>3 DEF Endless, Single
    <3> QED BY <2>3, <2>4, <2>5, <2>8, <3>4 DEF Phase
  <2>9. CASE ~desc'[d].enable
    <3>1. ~desc'[d].at_end /\ (d \in WrapAround => ~desc'[d].wrapped)
      <4>1. CASE ~desc[d].enable BY <2>1, <4>1 DEF Phase, Off, Stalled
      <4>2. CASE desc[d].enable /\ d \notin WrapAround /\ desc[d].wrapped
        <5>1. ~desc[d].at_end BY <2>1, <4>2 DEF Phase, Single, SingleAt
        <5> QED BY <2>1, <4>2, <5>1 DEF Stalled
      <4>3. CASE desc[d].enable /\ Resting(d) BY <2>1, <4>3 DEF Resting, Stalled
      <4> QED BY <2>1, <2>9, <4>1, <4>2, <4>3, Enables DEF Stalled
    <3>2. desc'[d].current \in 0 .. Size /\ desc'[d].next \in 0 .. Size + 1
      <4>1. CASE ~desc[d].enable
        <5>1. desc'[d].current = 0 /\ desc'[d].next = 1 BY <2>1, <4>1 DEF Stalled
        <5>2. \A c, x : c = 0 /\ x = 1 => c \in 0 .. Size /\ x \in 0 .. Size + 1 BY Shape
        <5> QED BY <5>1, <5>2
      <4>2. CASE desc[d].enable
        <5>1. desc[d].current \in Int /\ desc[d].next \in Int BY Fields DEF FormInv
        <5>2. desc[d].current \in 0 .. Size /\ desc[d].next \in 0 .. Size + 1
          BY <2>1, <4>2, <5>1, PhaseBounds DEF Phase, Endless, Single
        <5>3. desc'[d].current = desc[d].current /\ desc'[d].next = desc[d].next
          BY <2>1, <4>2 DEF Stalled
        <5> QED BY <5>2, <5>3
      <4> QED BY <4>1, <4>2
    <3> QED BY <2>3, <2>4, <2>5, <2>9, <3>1, <3>2 DEF Phase, Off
  <2> QED BY <2>7, <2>8, <2>9
<1> QED BY <1>1, <1>3 DEF EngineInv

LEMMA EngineInit ==
  ASSUME Careful, Init
  PROVE  EngineInv
<1>1. MachineInv BY Shape DEF Init, MachineInv
<1>2. ASSUME NEW d \in Descriptors PROVE Sent(d) /\ Plain(d) /\ Phase(d) /\ Over(d)
  <2>1. desc[d] = Disabled BY DEF Init
  <2>2. \A c, x : c = 0 /\ x = 1 => c \in 0 .. Size /\ x \in 0 .. Size + 1 BY Shape
  <2>3. Off(d) BY <2>1, <2>2 DEF Off, Disabled
  <2> QED BY <2>1, <2>3 DEF Sent, Plain, Phase, Over, Disabled
<1> QED BY <1>1, <1>2 DEF EngineInv

-----------------------------------------------------------------------------
(* The engine's part, when a clock is taken                                *)

LEMMA Sequence ==
  ASSUME FormInv, EngineInv, Careful, ClockStep, NEW d \in Descriptors
  PROVE  /\ Starting(d)' => /\ ~Starting(d) /\ rw_state = "IDLE" /\ active = d
                            /\ desc[d].enable /\ ~desc[d].wait
         /\ desc[d].enable /\ desc[d].advance => ~Starting(d) /\ ~Starting(d)'
         /\ Starting(d) => IF d = FromHost THEN rw_state' = "DELAY"
                           ELSE rw_state' = "CONT_WRITE" /\ ToHostWriteCount' = Beats - 1
         /\ desc[d].enable /\ desc[d].advance /\ d # FromHost =>
              rw_state = "CONT_WRITE" /\ rw_state' = "CONT_WRITE"
<1>1. MachineInv /\ Sent(d) BY DEF EngineInv
<1>2. Runs BY DEF ClockStep
<1>3. Starting(d)' => Begins
  BY <1>2 DEF Runs, Begins, Searches, Writing, Continues, Reading, Delays, Starting
<1>4. Starting(d)' => /\ ~Starting(d) /\ rw_state = "IDLE" /\ active = d
                      /\ desc[d].enable /\ ~desc[d].wait
  BY <1>3 DEF Begins, Starting
<1>5. desc[d].enable /\ desc[d].advance => rw_state \in {"DELAY", "CONT_WRITE"}
  BY <1>1 DEF Sent
<1>6. Starting(d) => IF d = FromHost THEN rw_state' = "DELAY"
                     ELSE rw_state' = "CONT_WRITE" /\ ToHostWriteCount' = Beats - 1
  BY <1>1, <1>2, Shape
     DEF Runs, Begins, Searches, Writing, Continues, Reading, Delays, Starting, MachineInv
<1>7. Beats - 1 # 0 BY DEF Careful
<1>8. desc[d].enable /\ desc[d].advance /\ d # FromHost =>
        rw_state = "CONT_WRITE" /\ rw_state' = "CONT_WRITE"
  BY <1>1, <1>2, <1>7
     DEF Sent, Runs, Begins, Searches, Writing, Continues, Reading, Delays
<1> QED BY <1>4, <1>5, <1>6, <1>8 DEF Starting

LEMMA MachineClock ==
  ASSUME FormInv, FifoInv, EngineInv, HostInv, Careful, ClockStep
  PROVE  MachineInv'
<1>1. MachineInv /\ Runs /\ active \in Descriptors BY DEF EngineInv, ClockStep, FifoInv
<1>2. rw_state' = "START_WRITE" => Begins
  BY <1>1 DEF Runs, Begins, Searches, Writing, Continues, Reading, Delays
<1>3. rw_state' = "START_READ" => Begins
  BY <1>1 DEF Runs, Begins, Searches, Writing, Continues, Reading, Delays
<1>4. FromHost \in WrapAround /\ ~desc'[FromHost].enable => active' # FromHost
  <2> SUFFICES ASSUME FromHost \in WrapAround, ~desc'[FromHost].enable
               PROVE  active' # FromHost
    OBVIOUS
  <2>1. ~desc[FromHost].enable /\ active # FromHost
    BY FromHostStays, Shape DEF ClockStep, Clocked
  <2> QED BY <1>1, <2>1
          DEF Runs, Begins, Searches, Writing, Continues, Reading, Delays, Chooses
<1>5. ToHostWriteCount' \in 0 .. 255
  <2>1. Beats \in 2 .. 255 BY DEF Careful
  <2>2. \A t \in 0 .. 255 : (t - 1) % 256 \in 0 .. 255 OBVIOUS
  <2>3. \A t : t = Beats => t - 1 \in 0 .. 255 BY <2>1
  <2>4. ToHostWriteCount \in 0 .. 255 BY <1>1 DEF MachineInv
  <2>5. Beats \in 0 .. 255 BY <2>1
  <2>6. Writing => ToHostWriteCount = Beats /\ ToHostWriteCount' = ToHostWriteCount - 1
    BY <1>1 DEF Writing, MachineInv
  <2>7. CASE Writing BY <2>3, <2>6, <2>7
  <2>8. CASE ~Writing
    BY <1>1, <2>2, <2>4, <2>5, <2>8 DEF Runs, Begins, Searches, Continues, Reading, Delays
  <2> QED BY <2>7, <2>8
<1>6. Begins => active' \in Descriptors /\ (active' # FromHost => active' \in ToHost)
  BY <1>1, Shape DEF Begins, EngineInv
<1> QED BY <1>2, <1>3, <1>4, <1>5, <1>6 DEF MachineInv, Begins

LEMMA NoneAfter ==
  ASSUME ClockStep, AnyWaitNext
  PROVE  ~AnyWaitNext'
<1>1. \A d \in Descriptors : ~WaitNext(d) BY DEF AnyWaitNext, WaitNext
<1> QED BY <1>1 DEF AnyWaitNext, ClockStep, Clocked

\* A descriptor at its end waits from the clock in which the end is seen.
LEMMA KeptNext ==
  ASSUME FormInv, EngineInv, Careful, ClockStep, NEW d \in Descriptors,
         d \notin WrapAround, desc[d].enable, Single(d),
         desc[d].at_end \/ (desc[d].advance /\ desc[d].next = Size)
  PROVE  Kept(d)'
<1>1. /\ Sent(d) /\ Plain(d) /\ Clocked(d, Starting(d))
      /\ \A i \in Descriptors : Plain(i) /\ Over(i)
  BY DEF EngineInv, ClockStep
<1>2. CASE ~AnyWaitNext
  <2>1. Wraps(d) \/ (Compares(d) /\ AtEnd(d))
    BY <1>1 DEF Wraps, Plain, Compares, AtEnd
  <2>2. Wait(d) BY <1>2, <2>1 DEF Wait, AnyWaitNext
  <2> QED BY <1>1, <2>2 DEF Clocked, Kept
<1>3. CASE AnyWaitNext /\ desc[d].at_end
  <2>1. desc[d].wait BY <1>3 DEF Single, SingleAt, Kept
  <2>2. Wait(d) BY <1>3, <2>1 DEF Wait, AnyWaitNext
  <2> QED BY <1>1, <2>2 DEF Clocked, Kept
<1>4. CASE AnyWaitNext /\ desc[d].advance
  <2>1. PICK i \in Descriptors : desc[i].wait_next BY <1>4 DEF AnyWaitNext
  <2>2. i \in WrapAround BY <1>1, <2>1 DEF Plain
  <2>3. CASE d = FromHost
    <3>1. rw_state = "DELAY" BY <1>1, <1>4, <2>3 DEF Sent
    <3> QED BY <1>1, <2>1, <2>2, <2>3, <3>1 DEF Over
  <2>4. CASE d # FromHost
    <3>1. rw_state' = "CONT_WRITE" BY <1>4, <2>4, Sequence
    <3> QED BY <1>4, <2>4, <3>1, NoneAfter DEF Kept
  <2> QED BY <2>3, <2>4
<1> QED BY <1>2, <1>3, <1>4

LEMMA EndlessClock ==
  ASSUME FormInv, EngineInv, HostInv, Careful, ClockStep, NEW d \in Descriptors,
         d \in WrapAround, desc[d].enable
  PROVE  Endless(d)'
<1> DEFINE c == desc[d].current
           x == desc[d].next
           v == desc[d].advance
           e == desc[d].at_end
           w == desc[d].wait_pc
           s == Starting(d)
           c2 == desc'[d].current
           x2 == desc'[d].next
           e2 == desc'[d].at_end
           w2 == desc'[d].wait_pc
           s2 == Starting(d)'
<1>1. c \in Int /\ x \in Int /\ v \in BOOLEAN /\ e \in BOOLEAN /\ w \in BOOLEAN
  BY Fields DEF FormInv
<1>2. s \in BOOLEAN /\ s2 \in BOOLEAN BY DEF Starting
<1>3. w2 \in BOOLEAN BY Fields DEF ClockStep
<1>4. EndlessAt(c, x, v, e, w, s) BY DEF EngineInv, Phase, Endless
<1>5. v => ~s /\ ~s2 BY Sequence
<1>6. Clocked(d, s) BY DEF ClockStep
<1>7. c2 = At(c, x, v) BY <1>6 DEF Clocked, Address, At
<1>8. x2 = IF e /\ ~w THEN 0 ELSE IF v THEN x + 1 ELSE x
  BY <1>6 DEF Clocked, NextAddress, Wraps
<1>9. e2 = (~(e /\ ~w) /\ x = Size)
  BY <1>6 DEF Clocked, Wraps, Compares, AtEnd
<1>10. c2 = Size - 1 => ~w2
  <2>1. w2 = WaitPc(d) /\ c2 = Address(d) BY <1>6 DEF Clocked
  <2>2. desc[d].pc_pointer \in Posts BY DEF HostInv, Pointed
  <2>3. Size - 1 \notin Posts BY PostsStand DEF Stands
  <2> QED BY <2>1, <2>2, <2>3 DEF WaitPc
<1>11. desc'[d].advance = s BY <1>6 DEF Clocked
<1> HIDE DEF c, x, v, e, w, s, c2, x2, e2, w2, s2
<1>12. EndlessAt(c2, x2, s, e2, w2, s2)
  BY <1>1, <1>2, <1>3, <1>4, <1>5, <1>7, <1>8, <1>9, <1>10, EndlessNext
<1> QED BY <1>11, <1>12 DEF Endless, c2, x2, s, e2, w2, s2

LEMMA SingleClock ==
  ASSUME FormInv, EngineInv, HostInv, Careful, ClockStep, NEW d \in Descriptors,
         d \notin WrapAround, desc[d].enable, ~desc[d].wrapped
  PROVE  Single(d)'
<1> DEFINE c == desc[d].current
           x == desc[d].next
           v == desc[d].advance
           e == desc[d].at_end
           q == desc[d].wrapped
           s == Starting(d)
           o == Kept(d)
           c2 == desc'[d].current
           x2 == desc'[d].next
           e2 == desc'[d].at_end
           s2 == Starting(d)'
           o2 == Kept(d)'
<1>1. /\ c \in Int /\ x \in Int /\ v \in BOOLEAN /\ e \in BOOLEAN /\ q \in BOOLEAN
      /\ desc[d].wait \in BOOLEAN
  BY Fields DEF FormInv
<1>2. s \in BOOLEAN /\ s2 \in BOOLEAN BY DEF Starting
<1>3. o \in BOOLEAN BY <1>1 DEF Kept
<1>4. o2 \in BOOLEAN
  <2>1. desc'[d].wait \in BOOLEAN BY Fields DEF ClockStep
  <2> QED BY <2>1 DEF Kept
<1>5. Plain(d) /\ Single(d) BY DEF EngineInv, Phase
<1>16. SingleAt(c, x, v, e, q, s, o) BY <1>5 DEF Single
<1>17. c \in Int /\ x \in Int /\ v \in BOOLEAN /\ e \in BOOLEAN /\ q \in BOOLEAN
  BY <1>1
<1>6. v => ~s /\ ~s2 BY Sequence
<1>7. o => ~s2
  <2>1. s2 => rw_state = "IDLE" /\ ~desc[d].wait BY Sequence
  <2> QED BY <2>1 DEF Kept
<1>8. e \/ (v /\ x = Size) => o2 BY <1>5, KeptNext
<1>9. Clocked(d, s) BY DEF ClockStep
<1>10. c2 = At(c, x, v) BY <1>9 DEF Clocked, Address, At
<1>11. x2 = IF e THEN 0 ELSE IF v THEN x + 1 ELSE x
  BY <1>5, <1>9 DEF Clocked, NextAddress, Wraps, Plain
<1>12. e2 = (~e /\ (IF v THEN x = Size ELSE e))
  BY <1>5, <1>9 DEF Clocked, Wraps, Compares, AtEnd, Plain
<1>13. desc'[d].advance = s /\ desc'[d].wrapped = e
  BY <1>1, <1>5, <1>9 DEF Clocked, Wraps, Plain
<1>14. ~q OBVIOUS
<1> HIDE DEF c, x, v, e, q, s, o, c2, x2, e2, s2, o2
<1>15. SingleAt(c2, x2, s, e2, e, s2, o2)
  BY <1>2, <1>3, <1>4, <1>16, <1>17, <1>6, <1>7, <1>8, <1>10, <1>11, <1>12, <1>14, SingleNext, SMTT(30)
<1> QED BY <1>13, <1>15 DEF Single, c2, x2, s, e, e2, s2, o2

LEMMA OffClock ==
  ASSUME FormInv, EngineInv, HostInv, Careful, ClockStep, NEW d \in Descriptors,
         ~desc'[d].enable
  PROVE  Off(d)'
<1>1. Phase(d) /\ Plain(d) /\ Clocked(d, Starting(d)) BY DEF EngineInv, ClockStep
<1>2. CASE ~desc[d].enable
  <2>1. ~desc[d].at_end BY <1>1, <1>2 DEF Phase, Off
  <2>2. ~Wraps(d) /\ ~AtEnd(d) BY <1>2, <2>1 DEF Wraps, AtEnd
  <2>3. ~desc'[d].at_end /\ ~desc'[d].wrapped BY <1>1, <2>1, <2>2 DEF Clocked
  <2>4. desc'[d].current = 0 /\ desc'[d].next = 1
    BY <1>1, <1>2 DEF Clocked, NextAddress
  <2>5. \A c, x : c = 0 /\ x = 1 => c \in 0 .. Size /\ x \in 0 .. Size + 1 BY Shape
  <2> QED BY <2>3, <2>4, <2>5 DEF Off
<1>3. CASE desc[d].enable /\ ~Enable(d)
  <2>1. /\ ~desc[d].at_end /\ ~desc[d].advance
        /\ d \in WrapAround => desc[d].next # Size
    <3>1. CASE d \notin WrapAround /\ desc[d].wrapped
      BY <1>1, <1>3, <3>1 DEF Phase, Single, SingleAt
    <3>2. CASE Resting(d) /\ desc[d].next # Size BY <3>2 DEF Resting
    <3> QED BY <1>3, <3>1, <3>2, Enables
  <2>2. ~Wraps(d) /\ ~(Compares(d) /\ AtEnd(d)) BY <2>1 DEF Wraps, Compares, AtEnd
  <2>3. ~desc'[d].at_end /\ ~desc'[d].wrapped BY <1>1, <2>1, <2>2 DEF Clocked
  <2>4. desc'[d].current = desc[d].current /\ desc'[d].next = desc[d].next
    BY <1>1, <1>3, <2>1, <2>2 DEF Clocked, NextAddress, Address
  <2>5. desc[d].current \in Int /\ desc[d].next \in Int BY Fields DEF FormInv
  <2>6. desc[d].current \in 0 .. Size /\ desc[d].next \in 0 .. Size + 1
    BY <1>1, <1>3, <2>5, PhaseBounds DEF Phase, Endless, Single
  <2> QED BY <2>3, <2>4, <2>6 DEF Off
<1> QED BY <1>1, <1>2, <1>3 DEF Clocked

LEMMA OnClock ==
  ASSUME FormInv, EngineInv, HostInv, Careful, ClockStep, NEW d \in Descriptors,
         ~desc[d].enable
  PROVE  /\ desc'[d].current = 0 /\ desc'[d].next = 1 /\ desc'[d].even_dma = 0
         /\ ~desc'[d].at_end /\ ~desc'[d].wrapped /\ ~Starting(d)'
         /\ desc'[d].enable => ~desc'[d].advance
<1>1. Phase(d) /\ Clocked(d, Starting(d)) BY DEF EngineInv, ClockStep
<1>2. ~desc[d].at_end BY <1>1 DEF Phase, Off
<1>3. ~Wraps(d) /\ ~AtEnd(d) BY <1>2 DEF Wraps, AtEnd
<1>4. Enable(d) => ~Starting(d) BY Enables DEF Resting
<1>5. ~Starting(d)' BY Sequence
<1> QED BY <1>1, <1>2, <1>3, <1>4, <1>5 DEF Clocked, NextAddress, Evencycle

LEMMA PhaseClock ==
  ASSUME FormInv, EngineInv, HostInv, Careful, ClockStep, NEW d \in Descriptors
  PROVE  Phase(d)'
<1>1. desc'[d].enable = Enable(d) BY DEF ClockStep, Clocked
<1>2. CASE ~desc'[d].enable BY <1>2, OffClock DEF Phase
<1>3. CASE desc'[d].enable /\ ~desc[d].enable
  <2>1. \A c, x, v, e, w, s, q, o : c = 0 /\ x = 1 /\ ~e /\ ~q =>
          EndlessAt(c, x, v, e, w, s) /\ SingleAt(c, x, v, e, q, s, o)
    BY Shape DEF EndlessAt, SingleAt
  <2>2. Endless(d)' /\ Single(d)' BY <1>3, <2>1, OnClock DEF Endless, Single
  <2> QED BY <1>3, <2>2 DEF Phase
<1>4. CASE desc'[d].enable /\ desc[d].enable
  <2>1. d \in WrapAround => Endless(d)' BY <1>4, EndlessClock
  <2>2. d \notin WrapAround => ~desc[d].wrapped BY <1>1, <1>4, Enables
  <2>3. d \notin WrapAround => Single(d)' BY <1>4, <2>2, SingleClock
  <2> QED BY <1>4, <2>1, <2>3 DEF Phase
<1> QED BY <1>2, <1>3, <1>4

LEMMA OverClock ==
  ASSUME FormInv, EngineInv, HostInv, Careful, ClockStep, NEW d \in Descriptors
  PROVE  Over(d)'
<1> SUFFICES ASSUME d \in WrapAround, d # FromHost
             PROVE  /\ desc'[d].enable /\ desc'[d].next = Size =>
                         rw_state' = "CONT_WRITE" \/ (desc'[d].at_end /\ rw_state' = "IDLE")
                    /\ desc'[d].wait_next => rw_state' # "DELAY"
  BY DEF Over
<1>1. Phase(d) /\ Over(d) /\ Clocked(d, Starting(d)) /\ Runs BY DEF EngineInv, ClockStep
<1>2. desc[d].current \in Int /\ desc[d].next \in Int BY Fields DEF FormInv
<1>3. CASE ~desc[d].enable
  <2>1. desc'[d].next # Size BY <1>3, OnClock, Shape
  <2>2. ~WaitNext(d) BY <1>1, <1>3 DEF WaitNext, Wraps, Phase, Off
  <2> QED BY <1>1, <2>1, <2>2 DEF Clocked
<1>4. CASE desc[d].enable
  <2>1. Endless(d) BY <1>1, <1>4 DEF Phase
  <2>2. desc[d].at_end => desc[d].next = Size BY <1>2, <2>1, Shape DEF Endless, EndlessAt
  <2>3. rw_state' = "DELAY" => rw_state = "START_READ"
    BY <1>1 DEF Runs, Begins, Searches, Writing, Continues, Reading, Delays
  <2>4. desc'[d].wait_next => rw_state' # "DELAY"
    BY <1>1, <1>4, <2>2, <2>3 DEF Clocked, WaitNext, Wraps, Over
  <2>5. ASSUME desc'[d].next = Size
        PROVE  rw_state' = "CONT_WRITE" \/ (desc'[d].at_end /\ rw_state' = "IDLE")
    <3>1. ~Wraps(d) BY <1>1, <1>4, <2>5, Shape DEF Clocked, NextAddress
    <3>2. CASE desc[d].advance BY <1>4, <3>2, Sequence
    <3>3. CASE ~desc[d].advance
      <4>1. desc[d].next = Size BY <1>1, <1>4, <2>5, <3>1, <3>3 DEF Clocked, NextAddress
      <4>2. ~desc[d].at_end BY <2>1, <3>1, <4>1, <1>2, Shape DEF Wraps, Endless, EndlessAt
      <4>3. desc'[d].at_end BY <1>1, <1>4, <3>1, <4>1 DEF Clocked, Compares, AtEnd
      <4>4. rw_state = "CONT_WRITE" BY <1>1, <1>4, <4>1, <4>2 DEF Over
      <4>5. rw_state' \in {"CONT_WRITE", "IDLE"}
        BY <1>1, <4>4 DEF Runs, Begins, Searches, Writing, Continues, Reading, Delays
      <4> QED BY <4>3, <4>5
    <3> QED BY <3>2, <3>3
  <2> QED BY <2>4, <2>5
<1> QED BY <1>3, <1>4

LEMMA EngineClock ==
  ASSUME FormInv, FifoInv, EngineInv, HostInv, Careful, ClockStep
  PROVE  EngineInv'
<1>1. ASSUME NEW d \in Descriptors PROVE Sent(d)' /\ Plain(d)'
  <2>1. Clocked(d, Starting(d)) BY DEF ClockStep
  <2>2. Sent(d)' BY <2>1, Sequence DEF Sent, Clocked
  <2>3. Plain(d)' BY <2>1 DEF Plain, Clocked, WaitPc, WaitNext
  <2> QED BY <2>2, <2>3
<1> QED BY <1>1, MachineClock, PhaseClock, OverClock DEF EngineInv

LEMMA EngineNext ==
  ASSUME FormInv, FifoInv, EngineInv, HostInv, Careful, [Next]_vars
  PROVE  EngineInv'
<1>1. CASE UNCHANGED <<desc, rw_state, ToHostWriteCount, active, written, pointer, host, full>>
  BY <1>1, EngineAlike DEF Alike
<1>2. ASSUME NEW e \in Descriptors, HostStep(e) PROVE EngineInv'
  BY <1>2, HostStepAlike, EngineAlike
<1> QED BY <1>1, <1>2, StepIs, EngineClock, EngineStall, EngineReset

-----------------------------------------------------------------------------
(* Where engine and host are in an endless buffer                          *)

LEMMA Places ==
  ASSUME FormInv, EngineInv, HostInv, NEW d \in Descriptors, d \in WrapAround, desc[d].enable
  PROVE  /\ Address(d) \in Slots /\ Turn(d) \in Bit
         /\ desc[d].pc_pointer \in Slots /\ desc[d].even_pc \in Bit
         /\ HostSlot(d) \in Slots /\ HostTurn(d) \in Bit
         /\ pointer[d].value \in Slots
<1>1. Address(d) \in Slots /\ Turn(d) \in Bit
  <2> DEFINE c == desc[d].current
             x == desc[d].next
             v == desc[d].advance
             e == desc[d].at_end
             w == desc[d].wait_pc
             s == Starting(d)
             m == desc[d].even_dma
             q == e /\ ~w
             c2 == At(c, x, v)
             x2 == IF e /\ ~w THEN 0 ELSE IF v THEN x + 1 ELSE x
             m2 == IF e /\ ~w THEN 1 - m ELSE m
  <2>1. /\ c \in Int /\ x \in Int /\ v \in BOOLEAN /\ e \in BOOLEAN /\ w \in BOOLEAN
        /\ m \in Bit
    BY Fields DEF FormInv
  <2>2. s \in BOOLEAN BY DEF Starting
  <2>3. EndlessAt(c, x, v, e, w, s) BY DEF EngineInv, Phase, Endless
  <2>4. v => ~s BY DEF EngineInv, Sent, Starting
  <2>5. /\ c2 = At(c, x, v)
        /\ x2 = IF e /\ ~w THEN 0 ELSE IF v THEN x + 1 ELSE x
        /\ m2 = IF e /\ ~w THEN 1 - m ELSE m
    OBVIOUS
  <2>6. Address(d) = At(c, x, v) /\ Turn(d) = TurnOf(x, v, m) BY DEF Address, At, Turn
  <2> HIDE DEF c, x, v, e, w, s, m, c2, x2, m2
  <2>7. At(c, x, v) \in Slots /\ TurnOf(x, v, m) \in Bit
    BY <2>1, <2>2, <2>3, <2>4, <2>5, EndlessMoves
  <2> QED BY <2>6, <2>7
<1>2. desc[d].pc_pointer \in Slots /\ desc[d].even_pc \in Bit BY Fields DEF FormInv
<1>3. pointer[d].value \in Slots BY DEF FormInv, Crossing
<1>4. HostSlot(d) \in Slots BY <1>2, <1>3 DEF HostSlot
<1>5. HostTurn(d) \in Bit BY <1>2, BitFlip DEF HostTurn
<1> QED BY <1>1, <1>2, <1>3, <1>4, <1>5

\* The engine has not caught up with a pointer that is crossing.
LEMMA CrossingFree ==
  ASSUME FormInv, EngineInv, HostInv, NEW d \in Descriptors, d \in WrapAround, desc[d].enable,
         pointer[d].ptr
  PROVE  ~ (/\ Address(d) = HostSlot(d)
            /\ IF d = FromHost THEN Turn(d) = HostTurn(d) ELSE Turn(d) # HostTurn(d))
<1> DEFINE p == desc[d].pc_pointer
           b == desc[d].even_pc
           q == HostSlot(d)
           u == HostTurn(d)
           a == Address(d)
           t == Turn(d)
<1>1. p \in Slots /\ b \in Bit /\ q \in Slots /\ u \in Bit /\ a \in Slots /\ t \in Bit
  BY Places
<1>2. Pointed(d) /\ Holds(d) BY DEF HostInv
<1>3. (u = b /\ q > p) \/ (u # b /\ q < p)
  BY <1>1, <1>2, BitFlip DEF Pointed, HostSlot, HostTurn
<1>4. IF d = FromHost THEN Lap(a, t, p, b) ELSE Lap(p, b, a, t) BY <1>2 DEF Holds
<1> HIDE DEF p, b, q, u, a, t
<1>5. (Lap(p, b, a, t) => ~(a = q /\ t # u)) /\ (Lap(a, t, p, b) => ~(a = q /\ t = u))
  BY <1>1, <1>3, NewPlace
<1> QED BY <1>4, <1>5 DEF q, u, a, t

\* An engine that has caught up with the host sees so.
LEMMA MeetsBlocked ==
  ASSUME FormInv, EngineInv, HostInv, NEW d \in Descriptors, d \in WrapAround, desc[d].enable,
         ~Blocked(d)
  PROVE  ~ (/\ Address(d) = HostSlot(d)
            /\ IF d = FromHost THEN Turn(d) = HostTurn(d) ELSE Turn(d) # HostTurn(d))
<1>1. CASE pointer[d].ptr BY <1>1, CrossingFree
<1>2. CASE ~pointer[d].ptr
  <2>1. ~pointer[d].even BY <1>2 DEF HostInv, Pointed
  <2> QED BY <1>2, <2>1 DEF HostSlot, HostTurn, Blocked
<1> QED BY <1>1, <1>2

LEMMA StartingFree ==
  ASSUME FormInv, EngineInv, HostInv, NEW d \in Descriptors, d \in WrapAround, desc[d].enable,
         Starting(d)
  PROVE  /\ desc[d].current = Address(d) /\ desc[d].current \in Slots
         /\ IF d = FromHost
            THEN /\ Address(d) \in Filled(Address(d), Turn(d), HostSlot(d), HostTurn(d))
                 /\ Address(d) \in Filled(Address(d), Turn(d), desc[d].pc_pointer, desc[d].even_pc)
            ELSE /\ Address(d) \notin Filled(HostSlot(d), HostTurn(d), Address(d), Turn(d))
                 /\ Address(d) \notin Filled(desc[d].pc_pointer, desc[d].even_pc,
                                            Address(d), Turn(d))
<1> DEFINE p == desc[d].pc_pointer
           b == desc[d].even_pc
           q == HostSlot(d)
           u == HostTurn(d)
           a == Address(d)
           t == Turn(d)
<1>1. p \in Slots /\ b \in Bit /\ q \in Slots /\ u \in Bit /\ a \in Slots /\ t \in Bit
  BY Places
<1>2. Holds(d) BY DEF HostInv
<1>3. ~Blocked(d) BY DEF HostInv, Waits
<1>4. IF d = FromHost THEN ~(a = q /\ t = u) ELSE ~(a = q /\ t # u)
  BY <1>3, MeetsBlocked
<1>5. IF d = FromHost THEN ~(a = p /\ t = b) ELSE ~(a = p /\ t # b)
  BY <1>3 DEF Blocked
<1>6. IF d = FromHost THEN Lap(a, t, p, b) /\ Lap(a, t, q, u)
      ELSE Lap(p, b, a, t) /\ Lap(q, u, a, t)
  BY <1>2 DEF Holds
<1>7. desc[d].current = a
  <2>1. ~desc[d].advance BY DEF EngineInv, Sent, Starting
  <2> QED BY <2>1 DEF Address
<1> HIDE DEF p, b, q, u, a, t
<1>8. CASE d = FromHost
  <2>1. a \in Filled(a, t, q, u) /\ a \in Filled(a, t, p, b)
    BY <1>1, <1>4, <1>5, <1>6, <1>8, MayTake
  <2> QED BY <1>1, <1>7, <1>8, <2>1 DEF p, b, q, u, a, t
<1>9. CASE d # FromHost
  <2>1. a \notin Filled(q, u, a, t) /\ a \notin Filled(p, b, a, t)
    BY <1>1, <1>4, <1>5, <1>6, <1>9, MayFill
  <2> QED BY <1>1, <1>7, <1>9, <2>1 DEF p, b, q, u, a, t
<1> QED BY <1>8, <1>9

\* What a clock makes of the engine's place
LEMMA EnginePlace ==
  ASSUME FormInv, EngineInv, HostInv, Careful, ClockStep, NEW d \in Descriptors,
         d \in WrapAround, desc[d].enable
  PROVE  /\ Starting(d) => /\ Address(d)' = After(Address(d), 1)
                           /\ Turn(d)' = TurnAfter(Address(d), 1, Turn(d))
         /\ ~Starting(d) => Address(d)' = Address(d) /\ Turn(d)' = Turn(d)
<1> DEFINE c == desc[d].current
           x == desc[d].next
           v == desc[d].advance
           e == desc[d].at_end
           w == desc[d].wait_pc
           s == Starting(d)
           m == desc[d].even_dma
           c2 == desc'[d].current
           x2 == desc'[d].next
           m2 == desc'[d].even_dma
<1>1. /\ c \in Int /\ x \in Int /\ v \in BOOLEAN /\ e \in BOOLEAN /\ w \in BOOLEAN
      /\ m \in Bit
  BY Fields DEF FormInv
<1>2. s \in BOOLEAN BY DEF Starting
<1>3. EndlessAt(c, x, v, e, w, s) BY DEF EngineInv, Phase, Endless
<1>4. v => ~s BY Sequence
<1>5. Clocked(d, s) BY DEF ClockStep
<1>6. c2 = At(c, x, v) BY <1>5 DEF Clocked, Address, At
<1>7. x2 = IF e /\ ~w THEN 0 ELSE IF v THEN x + 1 ELSE x
  BY <1>5 DEF Clocked, NextAddress, Wraps
<1>8. m2 = IF e /\ ~w THEN 1 - m ELSE m BY <1>5 DEF Clocked, Evencycle, Wraps
<1>9. desc'[d].advance = s BY <1>5 DEF Clocked
<1>10. /\ Address(d) = At(c, x, v) /\ Turn(d) = TurnOf(x, v, m)
       /\ Address(d)' = At(c2, x2, s) /\ Turn(d)' = TurnOf(x2, s, m2)
  BY <1>9 DEF Address, At, Turn
<1> HIDE DEF c, x, v, e, w, s, m, c2, x2, m2
<1>11. /\ s => /\ At(c2, x2, s) = After(At(c, x, v), 1)
               /\ TurnOf(x2, s, m2) = TurnAfter(At(c, x, v), 1, TurnOf(x, v, m))
       /\ ~s => At(c2, x2, s) = At(c, x, v) /\ TurnOf(x2, s, m2) = TurnOf(x, v, m)
  BY <1>1, <1>2, <1>3, <1>4, <1>6, <1>7, <1>8, EndlessMoves
<1> QED BY <1>10, <1>11 DEF s

\* A clock of an endless descriptor that stays enabled
LEMMA EngineFills ==
  ASSUME FormInv, EngineInv, HostInv, Careful, ClockStep, NEW d \in Descriptors,
         d \in WrapAround, desc[d].enable, Starting(d), d # FromHost
  PROVE  /\ Lap(desc[d].pc_pointer, desc[d].even_pc, Address(d)', Turn(d)')
         /\ Lap(HostSlot(d), HostTurn(d), Address(d)', Turn(d)')
         /\ full'[d] = Filled(HostSlot(d), HostTurn(d), Address(d)', Turn(d)')
         /\ Load(HostSlot(d), HostTurn(d), Address(d)', Turn(d)')
              = Load(HostSlot(d), HostTurn(d), Address(d), Turn(d)) + 1
         /\ Load(HostSlot(d), HostTurn(d), Address(d), Turn(d)) + 1 <= Size
<1> DEFINE p == desc[d].pc_pointer
           b == desc[d].even_pc
           q == HostSlot(d)
           u == HostTurn(d)
           a == Address(d)
           t == Turn(d)
<1>1. p \in Slots /\ b \in Bit /\ q \in Slots /\ u \in Bit /\ a \in Slots /\ t \in Bit
  BY Places
<1>2. /\ desc[d].current = a
      /\ a \notin Filled(q, u, a, t) /\ a \notin Filled(p, b, a, t)
  BY StartingFree
<1>3. Lap(p, b, a, t) /\ Lap(q, u, a, t) /\ full[d] = Filled(q, u, a, t)
  BY DEF HostInv, Holds
<1>4. full'[d] = full[d] \cup {a} BY <1>2 DEF ClockStep, Moved
<1>5. Address(d)' = After(a, 1) /\ Turn(d)' = TurnAfter(a, 1, t) BY EnginePlace
<1> HIDE DEF p, b, q, u, a, t
<1>6. Ahead(a, 1) = {a} /\ 1 \in 1 .. Size - 1 BY <1>1, AheadOne
<1>7. Ahead(a, 1) \cap Filled(q, u, a, t) = {} /\ Ahead(a, 1) \cap Filled(p, b, a, t) = {}
  BY <1>2, <1>6
<1>8. Lap(p, b, After(a, 1), TurnAfter(a, 1, t)) BY <1>1, <1>3, <1>6, <1>7, WriterMoves
<1>9. /\ Lap(q, u, After(a, 1), TurnAfter(a, 1, t))
      /\ Filled(q, u, After(a, 1), TurnAfter(a, 1, t)) = Filled(q, u, a, t) \cup Ahead(a, 1)
      /\ Load(q, u, After(a, 1), TurnAfter(a, 1, t)) = Load(q, u, a, t) + 1
      /\ Load(q, u, a, t) + 1 <= Size
  BY <1>1, <1>3, <1>6, <1>7, WriterMoves
<1> QED BY <1>3, <1>4, <1>5, <1>6, <1>8, <1>9 DEF p, b, q, u, a, t

LEMMA EngineTakes ==
  ASSUME FormInv, EngineInv, HostInv, Careful, ClockStep, NEW d \in Descriptors,
         d \in WrapAround, desc[d].enable, Starting(d), d = FromHost
  PROVE  /\ Lap(Address(d)', Turn(d)', desc[d].pc_pointer, desc[d].even_pc)
         /\ Lap(Address(d)', Turn(d)', HostSlot(d), HostTurn(d))
         /\ full'[d] = Filled(Address(d)', Turn(d)', HostSlot(d), HostTurn(d))
         /\ Load(Address(d)', Turn(d)', HostSlot(d), HostTurn(d))
              = Load(Address(d), Turn(d), HostSlot(d), HostTurn(d)) - 1
         /\ 1 <= Load(Address(d), Turn(d), HostSlot(d), HostTurn(d))
<1> DEFINE p == desc[d].pc_pointer
           b == desc[d].even_pc
           q == HostSlot(d)
           u == HostTurn(d)
           a == Address(d)
           t == Turn(d)
<1>1. p \in Slots /\ b \in Bit /\ q \in Slots /\ u \in Bit /\ a \in Slots /\ t \in Bit
  BY Places
<1>2. /\ desc[d].current = a
      /\ a \in Filled(a, t, q, u) /\ a \in Filled(a, t, p, b)
  BY StartingFree
<1>3. Lap(a, t, p, b) /\ Lap(a, t, q, u) /\ full[d] = Filled(a, t, q, u)
  BY DEF HostInv, Holds
<1>4. full'[d] = full[d] \ {a} BY <1>2 DEF ClockStep, Moved
<1>5. Address(d)' = After(a, 1) /\ Turn(d)' = TurnAfter(a, 1, t) BY EnginePlace
<1> HIDE DEF p, b, q, u, a, t
<1>6. Ahead(a, 1) = {a} /\ 1 \in 1 .. Size - 1 BY <1>1, AheadOne
<1>7. Ahead(a, 1) \subseteq Filled(a, t, q, u) /\ Ahead(a, 1) \subseteq Filled(a, t, p, b)
  BY <1>2, <1>6
<1>8. Lap(After(a, 1), TurnAfter(a, 1, t), p, b) BY <1>1, <1>3, <1>6, <1>7, ReaderMoves
<1>9. /\ Lap(After(a, 1), TurnAfter(a, 1, t), q, u)
      /\ Filled(After(a, 1), TurnAfter(a, 1, t), q, u) = Filled(a, t, q, u) \ Ahead(a, 1)
      /\ Load(After(a, 1), TurnAfter(a, 1, t), q, u) = Load(a, t, q, u) - 1
      /\ 1 <= Load(a, t, q, u)
  BY <1>1, <1>3, <1>6, <1>7, ReaderMoves
<1> QED BY <1>3, <1>4, <1>5, <1>6, <1>8, <1>9 DEF p, b, q, u, a, t

-----------------------------------------------------------------------------
(* The host's part, when a clock is taken                                  *)

\* What a clock makes of the address of a descriptor that is not endless
LEMMA SinglePlace ==
  ASSUME FormInv, EngineInv, HostInv, Careful, ClockStep, NEW d \in Descriptors,
         d \notin WrapAround, desc[d].enable
  PROVE  /\ Address(d) \in 0 .. Size
         /\ Starting(d) => /\ desc[d].current = Address(d) /\ Address(d) < Size
                           /\ Address(d)' = Address(d) + 1 /\ ~desc[d].wrapped
         /\ ~Starting(d) => Address(d)' = Address(d)
         /\ desc[d].wrapped => Address(d) = Size
<1> DEFINE c == desc[d].current
           x == desc[d].next
           v == desc[d].advance
           e == desc[d].at_end
           q == desc[d].wrapped
           s == Starting(d)
           o == Kept(d)
           c2 == desc'[d].current
           x2 == desc'[d].next
<1>1. c \in Int /\ x \in Int /\ v \in BOOLEAN /\ e \in BOOLEAN /\ q \in BOOLEAN
  BY Fields DEF FormInv
<1>2. s \in BOOLEAN BY DEF Starting
<1>3. o \in BOOLEAN
  <2>1. desc[d].wait \in BOOLEAN BY Fields DEF FormInv
  <2> QED BY <2>1 DEF Kept
<1>4. Plain(d) /\ Single(d) BY DEF EngineInv, Phase
<1>5. SingleAt(c, x, v, e, q, s, o) BY <1>4 DEF Single
<1>6. v => ~s BY Sequence
<1>7. Clocked(d, s) BY DEF ClockStep
<1>8. c2 = At(c, x, v) BY <1>7 DEF Clocked, Address, At
<1>9. x2 = IF e THEN 0 ELSE IF v THEN x + 1 ELSE x
  BY <1>4, <1>7 DEF Clocked, NextAddress, Wraps, Plain
<1>10. desc'[d].advance = s BY <1>7 DEF Clocked
<1>11. Address(d) = At(c, x, v) /\ Address(d)' = At(c2, x2, s)
  BY <1>10 DEF Address, At
<1> HIDE DEF c, x, v, e, q, s, o, c2, x2
<1>12. /\ At(c, x, v) \in 0 .. Size
       /\ s => c = At(c, x, v) /\ c < Size /\ ~q /\ At(c2, x2, s) = c + 1
       /\ ~s => At(c2, x2, s) = At(c, x, v)
       /\ q => At(c, x, v) = Size
  BY <1>1, <1>2, <1>3, <1>5, <1>6, <1>8, <1>9, SingleMoves
<1> QED BY <1>11, <1>12 DEF c, q, s

LEMMA HoldsFresh ==
  ASSUME FormInv, EngineInv, HostInv, Careful, NEW d \in Descriptors,
         ~desc[d].enable, Enable(d),
         desc'[d].pc_pointer = desc[d].pc_pointer, desc'[d].even_pc = desc[d].even_pc,
         desc'[d].current = 0, desc'[d].next = 1, desc'[d].even_dma = 0, ~desc'[d].advance,
         pointer'[d] = pointer[d], full'[d] = full[d]
  PROVE  Holds(d)' /\ (Blocked(d)' => d = FromHost)
<1>1. Fresh(d) BY Enables
<1>2. /\ Address(d)' = 0 /\ Turn(d)' = 0 /\ desc'[d].pc_pointer = 0 /\ desc'[d].even_pc = 0
      /\ HostSlot(d)' = 0 /\ HostTurn(d)' = 0
  BY <1>1 DEF Fresh, Settled, Address, Turn, TurnOf, HostSlot, HostTurn
<1>3. Lap(0, 0, 0, 0) BY DEF Lap
<1>4. Filled(0, 0, 0, 0) = {} BY DEF Filled
<1>5. 0 .. 0 - 1 = {} OBVIOUS
<1>6. full'[d] = Initial(d) BY <1>1 DEF Fresh
<1>7. CASE d \in WrapAround
  BY <1>2, <1>3, <1>4, <1>6, <1>7 DEF Holds, Blocked, Initial
<1>8. CASE d \notin WrapAround
  BY <1>2, <1>5, <1>6, <1>8 DEF Holds, Blocked, Initial, Slots
<1> QED BY <1>7, <1>8

LEMMA HoldsClock ==
  ASSUME FormInv, EngineInv, HostInv, Careful, ClockStep, NEW d \in Descriptors,
         desc'[d].enable
  PROVE  Holds(d)'
<1>1. /\ Clocked(d, Starting(d)) /\ full'[d] = Moved(d) /\ UNCHANGED pointer
  BY DEF ClockStep
<1>2. CASE ~desc[d].enable
  <2>1. full'[d] = full[d] BY <1>1, <1>2 DEF Moved
  <2>2. Enable(d) BY <1>1 DEF Clocked
  <2> QED BY <1>1, <1>2, <2>1, <2>2, OnClock, HoldsFresh DEF Clocked
<1>3. CASE desc[d].enable /\ d \in WrapAround
  <2>1. /\ desc'[d].pc_pointer = desc[d].pc_pointer /\ desc'[d].even_pc = desc[d].even_pc
        /\ HostSlot(d)' = HostSlot(d) /\ HostTurn(d)' = HostTurn(d)
    BY <1>1 DEF Clocked, HostSlot, HostTurn
  <2>2. CASE Starting(d) /\ d = FromHost
    BY <1>3, <2>1, <2>2, EngineTakes DEF Holds
  <2>3. CASE Starting(d) /\ d # FromHost
    BY <1>3, <2>1, <2>3, EngineFills DEF Holds
  <2>4. CASE ~Starting(d)
    <3>1. Address(d)' = Address(d) /\ Turn(d)' = Turn(d) BY <1>3, <2>4, EnginePlace
    <3>2. full'[d] = full[d] BY <1>1, <2>4 DEF Moved
    <3>3. Holds(d) BY <1>3 DEF HostInv
    <3> QED BY <1>3, <2>1, <3>1, <3>2, <3>3 DEF Holds
  <2> QED BY <2>2, <2>3, <2>4
<1>4. CASE desc[d].enable /\ d \notin WrapAround
  <2>1. Holds(d) BY <1>4 DEF HostInv
  <2>2. CASE ~Starting(d)
    <3>1. Address(d)' = Address(d) /\ full'[d] = full[d]
      BY <1>1, <1>4, <2>2, SinglePlace DEF Moved
    <3> QED BY <1>4, <2>1, <3>1 DEF Holds
  <2>3. CASE Starting(d)
    <3> DEFINE a == Address(d)
    <3>1. /\ desc[d].current = a /\ a \in 0 .. Size /\ a < Size /\ Address(d)' = a + 1
      BY <1>4, <2>3, SinglePlace
    <3>2. full'[d] = IF d = FromHost THEN full[d] \ {a} ELSE full[d] \cup {a}
      BY <1>1, <1>4, <2>3, <3>1 DEF Moved
    <3>3. full[d] = IF d = FromHost THEN a .. Size - 1 ELSE 0 .. a - 1
      BY <1>4, <2>1 DEF Holds
    <3> HIDE DEF a
    <3>4. (a .. Size - 1) \ {a} = a + 1 .. Size - 1 /\ (0 .. a - 1) \cup {a} = 0 .. (a + 1) - 1
      BY <3>1, Shape
    <3> QED BY <1>4, <3>1, <3>2, <3>3, <3>4 DEF Holds
  <2> QED BY <2>2, <2>3
<1> QED BY <1>2, <1>3, <1>4

\* An endless descriptor that has caught up with the host waits in a clock.
LEMMA BlockedWaits ==
  ASSUME FormInv, EngineInv, HostInv, Careful, ClockStep, NEW d \in Descriptors,
         d \in WrapAround, desc[d].enable, Blocked(d)
  PROVE  WaitPc(d)
<1> DEFINE m == desc[d].even_dma
           b == desc[d].even_pc
<1>1. m \in Bit /\ b \in Bit BY Fields DEF FormInv
<1>2. Address(d) = desc[d].pc_pointer /\ desc[d].pc_pointer \in Posts
  BY DEF Blocked, HostInv, Pointed
<1>3. Address(d) # Size - 1 BY <1>2, PostsStand DEF Stands
<1>4. Turn(d) = m
  <2>1. desc[d].current \in Int /\ desc[d].next \in Int BY Fields DEF FormInv
  <2>2. Endless(d) BY DEF EngineInv, Phase
  <2>3. desc[d].next = 0 /\ ~desc[d].advance => desc[d].current = Size - 1
    BY <2>1, <2>2, Shape DEF Endless, EndlessAt
  <2> QED BY <1>3, <2>3 DEF Turn, TurnOf, Address
<1>5. IF d = FromHost THEN m = b ELSE m # b BY <1>4 DEF Blocked
<1>6. (m + ReadNotWrite(d)) % 2 # b
  <2> HIDE DEF m, b
  <2>1. CASE d = FromHost
    <3>1. ReadNotWrite(d) = 1 BY <2>1 DEF ReadNotWrite
    <3>2. \A i, j \in Bit : i = j => (i + 1) % 2 # j BY DEF Bit
    <3> QED BY <1>1, <1>5, <2>1, <3>1, <3>2
  <2>2. CASE d # FromHost
    <3>1. ReadNotWrite(d) = 0 BY <2>2 DEF ReadNotWrite
    <3>2. \A i, j \in Bit : i # j => (i + 0) % 2 # j BY DEF Bit
    <3> QED BY <1>1, <1>5, <2>2, <3>1, <3>2
  <2> QED BY <2>1, <2>2
<1> QED BY <1>2, <1>6 DEF WaitPc

LEMMA WaitsClock ==
  ASSUME FormInv, EngineInv, HostInv, Careful, ClockStep, NEW d \in Descriptors,
         d \in WrapAround, desc'[d].enable
  PROVE  Waits(d)'
<1>1. /\ Clocked(d, Starting(d)) /\ Runs /\ MachineInv /\ full'[d] = Moved(d)
      /\ UNCHANGED pointer
  BY DEF ClockStep, EngineInv
<1>2. CASE ~desc[d].enable
  <2>1. full'[d] = full[d] BY <1>1, <1>2 DEF Moved
  <2>2. Enable(d) BY <1>1 DEF Clocked
  <2>3. Blocked(d)' => d = FromHost
    BY <1>1, <1>2, <2>1, <2>2, OnClock, HoldsFresh DEF Clocked
  <2>4. d = FromHost => active' # d
    BY <1>1, <1>2
       DEF Runs, Begins, Searches, Writing, Continues, Reading, Delays, Chooses, MachineInv
  <2>5. ~Starting(d)' BY <1>2, OnClock
  <2> QED BY <2>3, <2>4, <2>5 DEF Waits
<1>3. CASE desc[d].enable /\ Starting(d)
  <2>1. ~Starting(d)' BY <1>3, Sequence
  <2>2. desc'[d].advance BY <1>1, <1>3 DEF Clocked
  <2> QED BY <2>1, <2>2 DEF Waits
<1>4. CASE desc[d].enable /\ ~Starting(d)
  <2> SUFFICES ASSUME Blocked(d)'
               PROVE  /\ ~Starting(d)'
                      /\ \/ desc'[d].wait \/ desc'[d].advance
                         \/ IF d = FromHost THEN active' # d
                            ELSE rw_state' = "CONT_WRITE" /\ ~AnyWaitNext'
    BY DEF Waits
  <2>1. Address(d)' = Address(d) /\ Turn(d)' = Turn(d) BY <1>4, EnginePlace
  <2>2. Blocked(d) BY <1>1, <2>1 DEF Blocked, Clocked
  <2>3. Waits(d) BY <1>4 DEF HostInv
  <2>4. WaitPc(d) BY <1>4, <2>2, BlockedWaits
  <2>5. ~AnyWaitNext => desc'[d].wait BY <1>1, <2>4 DEF Clocked, Wait, AnyWaitNext
  <2>6. desc[d].wait \/ desc[d].wait_next => desc'[d].wait
    BY <1>1, <2>4 DEF Clocked, Wait, AnyWaitNext
  <2>7. CASE desc[d].wait
    <3>1. ~Starting(d)' BY <2>7, Sequence
    <3> QED BY <2>6, <2>7, <3>1
  <2>8. CASE d = FromHost /\ ~desc[d].wait
    <3>1. WrapAround = {FromHost} BY <2>8 DEF Careful
    <3>2. AnyWaitNext => desc[d].wait_next
      BY <2>8, <3>1 DEF AnyWaitNext, EngineInv, Plain
    <3>3. desc'[d].wait BY <2>5, <2>6, <3>2
    <3>4. ~Starting(d)'
      <4>1. CASE desc[d].advance BY <1>4, <4>1, Sequence
      <4>2. CASE active # d BY <4>2, Sequence
      <4> QED BY <2>2, <2>3, <2>8, <4>1, <4>2 DEF Waits
    <3> QED BY <3>3, <3>4
  <2>9. CASE d # FromHost /\ ~desc[d].wait
    <3>1. CASE desc[d].advance
      <4>1. ~Starting(d)' /\ rw_state' = "CONT_WRITE" BY <1>4, <2>9, <3>1, Sequence
      <4> QED BY <2>5, <2>9, <4>1, NoneAfter
    <3>2. CASE rw_state = "CONT_WRITE" /\ ~AnyWaitNext
      <4>1. ~Starting(d)' BY <3>2, Sequence
      <4> QED BY <2>5, <3>2, <4>1
    <3> QED BY <2>2, <2>3, <2>9, <3>1, <3>2 DEF Waits
  <2> QED BY <2>7, <2>8, <2>9
<1> QED BY <1>2, <1>3, <1>4

\* A transfer stays inside the buffer, and in the part that is its own.
LEMMA SendFree ==
  ASSUME FormInv, EngineInv, HostInv, NEW d \in Descriptors, desc[d].enable, Starting(d)
  PROVE  /\ desc[d].current \in Slots
         /\ IF d = FromHost THEN desc[d].current \in full[d]
            ELSE desc[d].current \notin full[d]
<1>1. Holds(d) BY DEF HostInv
<1>2. CASE d \in WrapAround
  BY <1>1, <1>2, StartingFree DEF Holds
<1>3. CASE d \notin WrapAround
  <2>1. ~desc[d].advance BY DEF EngineInv, Sent, Starting
  <2>2. Address(d) = desc[d].current BY <2>1 DEF Address
  <2>3. Single(d) BY <1>3 DEF EngineInv, Phase
  <2>4. desc[d].current \in Int /\ desc[d].next \in Int BY Fields DEF FormInv
  <2>5. desc[d].current >= 0 /\ desc[d].current < Size
    BY <2>3, <2>4, Shape DEF Single, SingleAt
  <2>6. \A a \in Int : a >= 0 /\ a < Size =>
          a \in Slots /\ a \in a .. Size - 1 /\ a \notin 0 .. a - 1
    BY Shape DEF Slots
  <2> QED BY <1>1, <1>3, <2>2, <2>4, <2>5, <2>6 DEF Holds
<1> QED BY <1>2, <1>3

-----------------------------------------------------------------------------
(* The host's part                                                         *)

HostPart(d) ==
  /\ Calls(d) /\ full[d] \subseteq Slots
  /\ d \in WrapAround => Pointed(d)
  /\ desc[d].enable => Holds(d)
  /\ desc[d].enable /\ d \in WrapAround => Waits(d)

LEMMA NoneWritten ==
  ASSUME NEW d \in Descriptors
  PROVE  d \notin NoWrite
BY Shape DEF NoWrite

\* What a clock leaves of the calls, with or without tready
LEMMA CallsClock ==
  ASSUME FormInv, EngineInv, HostInv, NEW d \in Descriptors,
         desc'[d].enable = Enable(d), written' = NoWrite,
         desc'[d].pc_pointer = desc[d].pc_pointer, desc'[d].even_pc = desc[d].even_pc,
         UNCHANGED <<pointer, host>>, desc[d].enable \/ full'[d] = full[d]
  PROVE  Calls(d)' /\ (d \in WrapAround => Pointed(d)')
<1>1. Calls(d) BY DEF HostInv
<1>2. d \notin written' BY NoneWritten
<1>3. desc'[d].enable => d \in Used BY <1>1, Enables DEF Calls
<1>4. host'[d].op = "start" => ~desc'[d].enable /\ Fresh(d)'
  BY <1>1, Enables DEF Calls, Fresh
<1>5. d \in WrapAround => Pointed(d)' BY DEF HostInv, Pointed
<1> QED BY <1>1, <1>2, <1>3, <1>4, <1>5 DEF Calls

LEMMA HostClock ==
  ASSUME FormInv, EngineInv, HostInv, Careful, ClockStep
  PROVE  HostInv'
<1> SUFFICES ASSUME NEW d \in Descriptors PROVE HostPart(d)' BY DEF HostInv, HostPart
<1>1. /\ Clocked(d, Starting(d)) /\ full'[d] = Moved(d) /\ written' = NoWrite
      /\ UNCHANGED <<pointer, host>>
  BY DEF ClockStep
<1>2. Calls(d)' /\ (d \in WrapAround => Pointed(d)')
  BY <1>1, CallsClock DEF Clocked, Moved
<1>3. full'[d] \subseteq Slots BY <1>1, SendFree DEF Moved, HostInv
<1> QED BY <1>2, <1>3, HoldsClock, WaitsClock DEF HostPart

LEMMA HostStall ==
  ASSUME FormInv, EngineInv, HostInv, Careful, StallStep
  PROVE  HostInv'
<1> SUFFICES ASSUME NEW d \in Descriptors PROVE HostPart(d)' BY DEF HostInv, HostPart
<1>1. /\ Stalled(d) /\ written' = NoWrite
      /\ UNCHANGED <<rw_state, active, pointer, host, full>>
  BY DEF StallStep
<1>2. HostPart(d) BY DEF HostInv, HostPart
<1>3. Calls(d)' /\ (d \in WrapAround => Pointed(d)') BY <1>1, CallsClock DEF Stalled
<1>4. full'[d] \subseteq Slots BY <1>1, <1>2 DEF HostPart
<1>5. AnyWaitNext' = AnyWaitNext BY DEF AnyWaitNext, StallStep, Stalled
<1>6. Starting(d)' = Starting(d) BY <1>1 DEF Starting
<1>7. CASE desc[d].enable
  <2>1. /\ Address(d)' = Address(d) /\ Turn(d)' = Turn(d)
        /\ HostSlot(d)' = HostSlot(d) /\ HostTurn(d)' = HostTurn(d)
        /\ desc'[d].pc_pointer = desc[d].pc_pointer /\ desc'[d].even_pc = desc[d].even_pc
    BY <1>1, <1>7 DEF Stalled, Address, Turn, HostSlot, HostTurn
  <2>2. Holds(d)' BY <1>1, <1>2, <1>7, <2>1 DEF HostPart, Holds
  <2>3. d \in WrapAround => Waits(d)'
    BY <1>1, <1>2, <1>5, <1>6, <1>7, <2>1 DEF HostPart, Waits, Blocked, Stalled
  <2> QED BY <1>3, <1>4, <2>2, <2>3 DEF HostPart
<1>8. CASE ~desc[d].enable /\ desc'[d].enable
  <2>1. Enable(d) BY <1>1, <1>8 DEF Stalled
  <2>2. Resting(d) /\ desc[d].even_dma = 0 BY <1>8, <2>1, Enables
  <2>3. Holds(d)' /\ (Blocked(d)' => d = FromHost)
    BY <1>1, <1>8, <2>1, <2>2, HoldsFresh DEF Stalled, Resting
  <2>4. d \in WrapAround => Waits(d)'
    BY <1>1, <1>6, <1>8, <2>2, <2>3 DEF Waits, Resting, EngineInv, MachineInv
  <2> QED BY <1>3, <1>4, <2>3, <2>4 DEF HostPart
<1>9. CASE ~desc'[d].enable BY <1>3, <1>4, <1>9 DEF HostPart
<1> QED BY <1>7, <1>8, <1>9

LEMMA HostReset ==
  ASSUME FormInv, EngineInv, HostInv, Careful, ResetStep
  PROVE  HostInv'
<1> SUFFICES ASSUME NEW d \in Descriptors PROVE HostPart(d)' BY DEF HostInv, HostPart
<1>1. HostPart(d) BY DEF HostInv, HostPart
<1>2. /\ ~desc'[d].enable /\ host'[d].op = "idle" /\ written' = NoWrite
      /\ desc'[d].pc_pointer = desc[d].pc_pointer /\ UNCHANGED <<pointer, full>>
  BY ResetRests DEF ResetStep
<1>3. Calls(d)' BY <1>2, NoneWritten DEF Calls
<1>4. d \in WrapAround => Pointed(d)' BY <1>1, <1>2 DEF HostPart, Pointed
<1> QED BY <1>1, <1>2, <1>3, <1>4 DEF HostPart

\* A step of the host does not touch the descriptors of others.
LEMMA HostOther ==
  ASSUME HostInv, NEW d \in Descriptors, desc'[d] = desc[d], pointer'[d] = pointer[d],
         full'[d] = full[d], \A i \in Descriptors : Alike(i),
         UNCHANGED <<rw_state, ToHostWriteCount, active>>
  PROVE  /\ full'[d] \subseteq Slots /\ (d \in WrapAround => Pointed(d)')
         /\ desc'[d].enable => Holds(d)'
         /\ desc'[d].enable /\ d \in WrapAround => Waits(d)'
         /\ host'[d] = host[d] /\ UNCHANGED written => HostPart(d)'
<1>1. HostPart(d) BY DEF HostInv, HostPart
<1>2. AnyWaitNext' = AnyWaitNext BY DEF AnyWaitNext, Alike
<1>3. Starting(d)' = Starting(d) BY DEF Starting
<1>4. full'[d] \subseteq Slots /\ (d \in WrapAround => Pointed(d)')
  BY <1>1 DEF HostPart, Pointed
<1>5. /\ Address(d)' = Address(d) /\ Turn(d)' = Turn(d)
      /\ HostSlot(d)' = HostSlot(d) /\ HostTurn(d)' = HostTurn(d)
  BY DEF Address, Turn, HostSlot, HostTurn
<1>6. desc'[d].enable => Holds(d)' BY <1>1, <1>5 DEF HostPart, Holds
<1>7. desc'[d].enable /\ d \in WrapAround => Waits(d)'
  BY <1>1, <1>2, <1>3, <1>5 DEF HostPart, Waits, Blocked
<1>8. host'[d] = host[d] /\ UNCHANGED written => Calls(d)'
  BY <1>1, <1>3 DEF HostPart, Calls, Fresh, Resting
<1> QED BY <1>4, <1>6, <1>7, <1>8 DEF HostPart

LEMMA HostStarts ==
  ASSUME FormInv, EngineInv, HostInv, Careful, NEW e \in Descriptors, StartStep(e)
  PROVE  HostInv'
<1> SUFFICES ASSUME NEW d \in Descriptors PROVE HostPart(d)' BY DEF HostInv, HostPart
<1>1. /\ \A i \in Descriptors : Alike(i)
      /\ UNCHANGED <<rw_state, ToHostWriteCount, active, written>>
  BY HostStepAlike DEF HostStep, StartStep
<1>2. CASE d # e BY <1>1, <1>2, HostOther DEF StartStep
<1>3. CASE d = e
  <2>1. /\ ~desc'[d].enable /\ desc'[d].pc_pointer = 0 /\ desc'[d].even_pc = 0
        /\ pointer'[d] = Settled /\ full'[d] = Initial(d) /\ written' = NoWrite
        /\ host'[d].op = "start"
    BY <1>3 DEF StartStep, Repointed
  <2>2. Calls(d)' BY <2>1, NoneWritten DEF Calls, Fresh
  <2>3. Pointed(d)' BY <2>1, PostsStand DEF Pointed, Settled, Stands
  <2> QED BY <2>1, <2>2, <2>3 DEF HostPart, Initial
<1> QED BY <1>2, <1>3

LEMMA HostStops ==
  ASSUME FormInv, EngineInv, HostInv, Careful, NEW e \in Descriptors, StopStep(e)
  PROVE  HostInv'
<1> SUFFICES ASSUME NEW d \in Descriptors PROVE HostPart(d)' BY DEF HostInv, HostPart
<1>1. /\ \A i \in Descriptors : Alike(i)
      /\ UNCHANGED <<desc, rw_state, ToHostWriteCount, active, written, pointer, full>>
  BY HostStepAlike DEF HostStep, StopStep, engine
<1>2. CASE d # e BY <1>1, <1>2, HostOther DEF StopStep
<1>3. CASE d = e
  <2>1. /\ full'[d] \subseteq Slots /\ (d \in WrapAround => Pointed(d)')
        /\ desc'[d].enable => Holds(d)'
        /\ desc'[d].enable /\ d \in WrapAround => Waits(d)'
    BY <1>1, HostOther
  <2>2. Calls(d) BY DEF HostInv
  <2>3. desc[d].enable /\ host'[d].op = "stop" /\ written = NoWrite /\ Writes # "starts"
    BY <1>3 DEF StopStep
  <2>4. Calls(d)' BY <1>1, <2>2, <2>3, NoneWritten DEF Calls
  <2> QED BY <2>1, <2>4 DEF HostPart
<1> QED BY <1>2, <1>3

LEMMA HostWrites ==
  ASSUME FormInv, EngineInv, HostInv, Careful, NEW e \in Descriptors, e \in Used, WriteStep(e)
  PROVE  HostInv'
<1> SUFFICES ASSUME NEW d \in Descriptors PROVE HostPart(d)' BY DEF HostInv, HostPart
<1>1. /\ \A i \in Descriptors : Alike(i)
      /\ UNCHANGED <<desc, rw_state, ToHostWriteCount, active, pointer, full>>
  BY HostStepAlike DEF HostStep, WriteStep, engine
<1>2. /\ full'[d] \subseteq Slots /\ (d \in WrapAround => Pointed(d)')
      /\ desc'[d].enable => Holds(d)'
      /\ desc'[d].enable /\ d \in WrapAround => Waits(d)'
  BY <1>1, HostOther
<1>3. Calls(d) /\ Calls(e) BY DEF HostInv
<1>4. Quiet(e) BY DEF WriteStep, MayWrite, Careful, Orderly
<1>5. written' = IF host[e].op = "start" THEN Enabled \cup {e} ELSE Enabled \ {e}
  BY DEF WriteStep, Seen, Careful, Orderly
<1>6. host[e].op \in {"start", "stop"} BY DEF WriteStep, FormInv, Call
<1>7. host'[d].op # "idle" => d # e /\ host'[d] = host[d] BY DEF WriteStep
<1>8. d \in Enabled <=> desc[d].enable BY DEF Enabled
<1>9. /\ Fresh(d)' = Fresh(d) /\ Resting(d)' = Resting(d)
      /\ desc'[d].enable = desc[d].enable /\ desc'[d].next = desc[d].next
      /\ desc'[d].even_dma = desc[d].even_dma
  BY <1>1 DEF Fresh, Resting, Starting
<1>10. d \in written' => d \in Used BY <1>3, <1>5, <1>8 DEF Calls
<1>11. host'[d].op = "start" => ~desc[d].enable /\ Fresh(d) /\ d \notin written'
  BY <1>3, <1>5, <1>7, <1>8 DEF Calls
<1>12. d \in written' /\ ~desc[d].enable => Fresh(d) /\ Resting(d) /\ desc[d].even_dma = 0
  <2> SUFFICES ASSUME d \in written', ~desc[d].enable
               PROVE  Fresh(d) /\ Resting(d) /\ desc[d].even_dma = 0
    OBVIOUS
  <2>1. d = e /\ host[d].op = "start" BY <1>5, <1>8
  <2>2. Fresh(d) BY <1>3, <2>1 DEF Calls
  <2>3. Resting(d) /\ desc[d].even_dma = 0
    BY <1>4, <2>1 DEF Quiet, Resting, Starting
  <2> QED BY <2>2, <2>3
<1>13. d \notin written' /\ desc[d].enable => Resting(d) /\ desc[d].next # Size
  BY <1>4, <1>5, <1>8 DEF Quiet, Resting, Starting
<1>14. Writes = "starts" => /\ host'[d].op # "stop"
                            /\ desc[d].enable => d \in written'
  BY <1>3, <1>5, <1>6, <1>7, <1>8 DEF Calls
<1>15. Calls(d)' BY <1>3, <1>9, <1>10, <1>11, <1>12, <1>13, <1>14 DEF Calls
<1> QED BY <1>2, <1>15 DEF HostPart

\* The even bit that dma_advance_ptr writes turns when the pointer wraps around.
LEMMA EvenTurns ==
  ASSUME Careful, NEW p \in Slots, NEW n \in Steps
  PROVE  /\ n \in 1 .. Size - 1
         /\ \A b : (IF p > After(p, n) + Gap THEN 1 - b ELSE b) = TurnAfter(p, n, b)
         /\ IF p > After(p, n) + Gap THEN After(p, n) < p ELSE After(p, n) > p
<1>1. p \in Nat /\ p < Size /\ Size \in Nat /\ Gap \in Nat BY SlotInt, Shape, PageAssumption
<1>2. n \in 1 .. Size /\ n + Gap < Size BY HostAssumption DEF Careful
<1>3. n \in 1 .. Size - 1 BY <1>1, <1>2
<1>4. CASE p + n >= Size
  <2>1. After(p, n) = (p + n) - Size /\ \A b : TurnAfter(p, n, b) = 1 - b
    BY <1>3, <1>4, AfterIs
  <2>2. p > ((p + n) - Size) + Gap /\ (p + n) - Size < p BY <1>1, <1>2
  <2> QED BY <1>3, <2>1, <2>2
<1>5. CASE p + n < Size
  <2>1. After(p, n) = p + n /\ \A b : TurnAfter(p, n, b) = b BY <1>3, <1>5, AfterIs
  <2>2. ~(p > (p + n) + Gap) /\ p + n > p BY <1>1, <1>2
  <2> QED BY <1>3, <2>1, <2>2
<1> QED BY <1>1, <1>2, <1>4, <1>5

\* The host frees (ToHost) or fills (FromHost) the slots ahead of it.
LEMMA HostMoves ==
  ASSUME FormInv, EngineInv, HostInv, Careful, NEW d \in Descriptors, NEW n \in Steps,
         AdvanceStep(d, n)
  PROVE  LET h == HostSlot(d)
             u == HostTurn(d)
             a == Address(d)
             t == Turn(d)
         IN  /\ HostSlot(d)' = After(h, n) /\ HostTurn(d)' = TurnAfter(h, n, u)
             /\ Address(d)' = a /\ Turn(d)' = t
             /\ d # FromHost =>
                  /\ Lap(HostSlot(d)', HostTurn(d)', a, t)
                  /\ full'[d] = Filled(HostSlot(d)', HostTurn(d)', a, t)
                  /\ Load(HostSlot(d)', HostTurn(d)', a, t) = Load(h, u, a, t) - n
                  /\ n <= Load(h, u, a, t)
             /\ d = FromHost =>
                  /\ Lap(a, t, HostSlot(d)', HostTurn(d)')
                  /\ full'[d] = Filled(a, t, HostSlot(d)', HostTurn(d)')
                  /\ Load(a, t, HostSlot(d)', HostTurn(d)') = Load(a, t, h, u) + n
                  /\ Load(a, t, h, u) + n <= Size
<1> DEFINE h == HostSlot(d)
           u == HostTurn(d)
           a == Address(d)
           t == Turn(d)
           h2 == HostSlot(d)'
           u2 == HostTurn(d)'
<1>1. desc[d].enable /\ d \in WrapAround /\ ~pointer[d].ptr BY DEF AdvanceStep
<1>2. h \in Slots /\ u \in Bit /\ a \in Slots /\ t \in Bit BY <1>1, Places
<1>3. Pointed(d) /\ Holds(d) BY <1>1 DEF HostInv
<1>4. h = desc[d].pc_pointer /\ u = desc[d].even_pc
  BY <1>1, <1>3 DEF Pointed, HostSlot, HostTurn
<1>5. pointer'[d] = [value |-> After(h, n), ptr |-> TRUE, even |-> h > After(h, n) + Gap]
  BY <1>4 DEF AdvanceStep
<1>6. h2 = After(h, n) BY <1>5 DEF HostSlot
<1>7. u2 = IF h > After(h, n) + Gap THEN 1 - u ELSE u
  <2>1. desc'[d].even_pc = u BY <1>4 DEF AdvanceStep
  <2>2. u2 = IF pointer'[d].even THEN 1 - desc'[d].even_pc ELSE desc'[d].even_pc
    BY DEF HostTurn
  <2>3. pointer'[d].even = (h > After(h, n) + Gap) BY <1>5
  <2> HIDE DEF h, u, u2
  <2> QED BY <2>1, <2>2, <2>3
<1>8. Address(d)' = a /\ Turn(d)' = t BY DEF AdvanceStep, Address, Turn
<1>9. IF d = FromHost THEN Lap(a, t, h, u) /\ full[d] = Filled(a, t, h, u)
      ELSE Lap(h, u, a, t) /\ full[d] = Filled(h, u, a, t)
  BY <1>1, <1>3 DEF Holds
<1>10. IF d \in ToHost
       THEN Ahead(h, n) \subseteq full[d] /\ full'[d] = full[d] \ Ahead(h, n)
       ELSE Ahead(h, n) \cap full[d] = {} /\ full'[d] = full[d] \cup Ahead(h, n)
  BY <1>4 DEF AdvanceStep
<1> HIDE DEF h, u, a, t, h2, u2
<1>11. n \in 1 .. Size - 1 /\ u2 = TurnAfter(h, n, u) BY <1>2, <1>7, EvenTurns
<1>12. CASE d # FromHost
  <2>1. Ahead(h, n) \subseteq Filled(h, u, a, t) /\ full'[d] = Filled(h, u, a, t) \ Ahead(h, n)
    BY <1>9, <1>10, <1>12, Shape
  <2>2. /\ Lap(h2, u2, a, t) /\ Filled(h2, u2, a, t) = Filled(h, u, a, t) \ Ahead(h, n)
        /\ Load(h2, u2, a, t) = Load(h, u, a, t) - n /\ n <= Load(h, u, a, t)
    BY <1>2, <1>6, <1>9, <1>11, <1>12, <2>1, ReaderMoves
  <2> QED BY <1>6, <1>8, <1>11, <1>12, <2>1, <2>2 DEF h, u, a, t, h2, u2
<1>13. CASE d = FromHost
  <2>1. Ahead(h, n) \cap Filled(a, t, h, u) = {} /\ full'[d] = Filled(a, t, h, u) \cup Ahead(h, n)
    BY <1>9, <1>10, <1>13, Shape
  <2>2. /\ Lap(a, t, h2, u2) /\ Filled(a, t, h2, u2) = Filled(a, t, h, u) \cup Ahead(h, n)
        /\ Load(a, t, h2, u2) = Load(a, t, h, u) + n /\ Load(a, t, h, u) + n <= Size
    BY <1>2, <1>6, <1>9, <1>11, <1>13, <2>1, WriterMoves
  <2> QED BY <1>6, <1>8, <1>11, <1>13, <2>1, <2>2 DEF h, u, a, t, h2, u2
<1> QED BY <1>12, <1>13

LEMMA HostAdvances ==
  ASSUME FormInv, EngineInv, HostInv, Careful, NEW e \in Descriptors, NEW n \in Steps,
         AdvanceStep(e, n)
  PROVE  HostInv'
<1> SUFFICES ASSUME NEW d \in Descriptors PROVE HostPart(d)' BY DEF HostInv, HostPart
<1>1. /\ \A i \in Descriptors : Alike(i)
      /\ UNCHANGED <<desc, rw_state, ToHostWriteCount, active, written, host>>
  <2>1. HostStep(e) BY DEF HostStep
  <2> QED BY <2>1, HostStepAlike DEF AdvanceStep
<1>2. CASE d # e BY <1>1, <1>2, HostOther DEF AdvanceStep
<1>3. CASE d = e
  <2> DEFINE p == desc[d].pc_pointer
  <2>1. HostPart(d) BY DEF HostInv, HostPart
  <2>2. /\ desc[d].enable /\ d \in WrapAround /\ ~pointer[d].ptr /\ Ahead(p, n) \subseteq Slots
        /\ full'[d] = full[d] \ Ahead(p, n) \/ full'[d] = full[d] \cup Ahead(p, n)
        /\ pointer'[d] = [value |-> After(p, n), ptr |-> TRUE, even |-> p > After(p, n) + Gap]
    BY <1>3 DEF AdvanceStep
  <2>3. full'[d] \subseteq Slots BY <2>1, <2>2 DEF HostPart
  <2>4. Starting(d)' = Starting(d) /\ AnyWaitNext' = AnyWaitNext
    BY <1>1 DEF Starting, AnyWaitNext
  <2>5. Calls(d)'
    BY <1>1, <2>1, <2>2, <2>4 DEF HostPart, Calls, Resting
  <2>6. p \in Slots /\ p \in Posts BY <2>1, <2>2, Places DEF HostPart, Pointed
  <2>7. Pointed(d)'
    <3>1. After(p, n) \in Posts BY <2>6, PostsStand DEF Stands
    <3>2. IF p > After(p, n) + Gap THEN After(p, n) < p ELSE After(p, n) > p
      BY <2>6, EvenTurns
    <3>3. /\ desc'[d].pc_pointer = p /\ pointer'[d].value = After(p, n) /\ pointer'[d].ptr
          /\ pointer'[d].even = (p > After(p, n) + Gap)
      BY <1>1, <2>2
    <3> HIDE DEF p
    <3> QED BY <2>6, <3>1, <3>2, <3>3 DEF Pointed
  <2>8. Address(d)' = Address(d) /\ Turn(d)' = Turn(d) BY <1>1 DEF Address, Turn
  <2>9. Holds(d)'
    <3>1. Holds(d) /\ AdvanceStep(d, n) BY <1>3, <2>1, <2>2 DEF HostPart
    <3>2. CASE d = FromHost
      <4>1. /\ Lap(Address(d), Turn(d), HostSlot(d)', HostTurn(d)')
            /\ full'[d] = Filled(Address(d), Turn(d), HostSlot(d)', HostTurn(d)')
        BY <3>1, <3>2, HostMoves
      <4> QED BY <1>1, <2>2, <2>8, <3>1, <3>2, <4>1 DEF Holds
    <3>3. CASE d # FromHost
      <4>1. /\ Lap(HostSlot(d)', HostTurn(d)', Address(d), Turn(d))
            /\ full'[d] = Filled(HostSlot(d)', HostTurn(d)', Address(d), Turn(d))
        BY <3>1, <3>3, HostMoves
      <4> QED BY <1>1, <2>2, <2>8, <3>1, <3>3, <4>1 DEF Holds
    <3> QED BY <3>2, <3>3
  <2>10. Waits(d)'
    BY <1>1, <2>1, <2>2, <2>4, <2>8 DEF HostPart, Waits, Blocked
  <2> QED BY <2>2, <2>3, <2>5, <2>7, <2>9, <2>10 DEF HostPart
<1> QED BY <1>2, <1>3

LEMMA HostSyncs ==
  ASSUME FormInv, EngineInv, HostInv, Careful, NEW e \in Descriptors, SyncStep(e)
  PROVE  HostInv'
<1> SUFFICES ASSUME NEW d \in Descriptors PROVE HostPart(d)' BY DEF HostInv, HostPart
<1>1. /\ \A i \in Descriptors : Alike(i)
      /\ UNCHANGED <<rw_state, ToHostWriteCount, active, written, host, full>>
  BY HostStepAlike DEF HostStep, SyncStep
<1>2. CASE d # e BY <1>1, <1>2, HostOther DEF SyncStep
<1>3. CASE d = e
  <2>1. HostPart(d) /\ pointer[d].ptr /\ Alike(d) BY <1>1, <1>3 DEF HostInv, HostPart, SyncStep
  <2>2. /\ desc'[d].pc_pointer = HostSlot(d) /\ desc'[d].even_pc = HostTurn(d)
        /\ HostSlot(d)' = HostSlot(d) /\ HostTurn(d)' = HostTurn(d)
        /\ pointer'[d] = Settled
    BY <1>3, <2>1 DEF SyncStep, Repointed, HostSlot, HostTurn, Settled
  <2>3. Address(d)' = Address(d) /\ Turn(d)' = Turn(d) BY <2>1 DEF Address, Turn, Alike
  <2>4. Starting(d)' = Starting(d) BY <1>1 DEF Starting
  <2>5. Calls(d)'
    <3>1. ~Fresh(d) BY <2>1 DEF Fresh, Settled
    <3> QED BY <1>1, <2>1, <2>4, <3>1 DEF HostPart, Calls, Resting, Alike
  <2>6. d \in WrapAround => Pointed(d)'
    BY <2>1, <2>2, PostsStand DEF HostPart, Pointed, HostSlot, Settled, Stands
  <2>7. desc'[d].enable => Holds(d)'
    BY <1>1, <2>1, <2>2, <2>3 DEF HostPart, Holds, Alike
  <2>8. desc'[d].enable /\ d \in WrapAround => Waits(d)'
    <3>1. desc[d].enable /\ d \in WrapAround => ~Blocked(d)'
      BY <2>1, <2>2, <2>3, CrossingFree DEF Blocked
    <3> QED BY <2>1, <3>1 DEF Waits, Alike
  <2> QED BY <1>1, <2>1, <2>5, <2>6, <2>7, <2>8 DEF HostPart
<1> QED BY <1>2, <1>3

LEMMA HostNext ==
  ASSUME FormInv, FifoInv, EngineInv, HostInv, Careful, [Next]_vars
  PROVE  HostInv'
<1>1. CASE UNCHANGED <<desc, rw_state, ToHostWriteCount, active, written, pointer, host, full>>
  BY <1>1, HostOther DEF HostInv, HostPart, Alike
<1>2. ASSUME NEW e \in Used, e \in Descriptors, HostStep(e) PROVE HostInv'
  BY <1>2, HostStarts, HostStops, HostWrites, HostAdvances, HostSyncs DEF HostStep
<1> QED BY <1>1, <1>2, StepIs, HostClock, HostStall, HostReset

LEMMA HostInit ==
  ASSUME Careful, Init
  PROVE  HostInv
<1> SUFFICES ASSUME NEW d \in Descriptors PROVE HostPart(d) BY DEF HostInv, HostPart
<1>1. /\ desc[d] = Disabled /\ host[d] = HostIdle /\ pointer[d] = Settled /\ full[d] = {}
      /\ written = NoWrite
  BY DEF Init
<1>2. Calls(d) BY <1>1, NoneWritten DEF Calls, Disabled, HostIdle
<1>3. Pointed(d) BY <1>1, PostsStand DEF Pointed, Disabled, Settled, Stands
<1> QED BY <1>1, <1>2, <1>3 DEF HostPart, Disabled

-----------------------------------------------------------------------------
(* The theorems                                                            *)

LEMMA DmaInit == Careful => (Init => DmaInv)
BY FormInit, FifoInit, EngineInit, HostInit DEF DmaInv

LEMMA DmaNext == Careful => (DmaInv /\ [Next]_vars => DmaInv')
BY FormNext, FifoNext, EngineNext, HostNext DEF DmaInv

LEMMA TypesHold ==
  ASSUME DmaInv
  PROVE  TypeOK
<1>1. /\ FormInv /\ MachineInv
      /\ active \in Descriptors /\ index \in ToHost /\ searching \in 0 .. 2 * NToHost - 1
  BY DEF DmaInv, FifoInv, EngineInv
<1>2. ASSUME NEW d \in Descriptors PROVE desc[d] \in Registers
  <2>1. desc[d] \in Form /\ Phase(d) BY <1>1 DEF DmaInv, EngineInv, FormInv
  <2>2. desc[d].current \in Int /\ desc[d].next \in Int BY <2>1, Fields
  <2>3. desc[d].current \in 0 .. Size /\ desc[d].next \in 0 .. Size + 1
    BY <2>1, <2>2, PhaseBounds DEF Phase, Endless, Single, Off
  <2>4. \A r \in Form : r.current \in 0 .. Size /\ r.next \in 0 .. Size + 1 => r \in Registers
    BY DEF Form, Registers
  <2> QED BY <2>1, <2>3, <2>4
<1>3. desc \in [Descriptors -> Registers] BY <1>1, <1>2 DEF FormInv
<1>4. full \in [Descriptors -> SUBSET Slots]
  <2>1. \A d \in Descriptors : full[d] \subseteq Slots BY DEF DmaInv, HostInv
  <2> QED BY <1>1, <2>1 DEF FormInv
<1>5. /\ rw_state \in {"IDLE", "START_WRITE", "CONT_WRITE", "START_READ", "DELAY"}
      /\ wait_4k \in BOOLEAN /\ written \in {NoWrite} \cup SUBSET Descriptors
  BY <1>1 DEF FormInv, States
<1>6. /\ pointer \in [Descriptors -> [value : Slots, ptr : BOOLEAN, even : BOOLEAN]]
      /\ host \in [Descriptors -> [op : {"idle", "start", "stop"}, seen : SUBSET Descriptors]]
  BY <1>1 DEF FormInv, Crossing, Call
<1>7. ToHostWriteCount \in 0 .. 255 BY <1>1 DEF MachineInv
<1> QED BY <1>1, <1>3, <1>4, <1>5, <1>6, <1>7 DEF TypeOK

(* The registers stay in their ranges: current_address never goes beyond   *)
(* the end of the buffer, and the byte that counts the words of a payload  *)
(* never runs over while it counts.                                        *)
THEOREM TypeCorrect ==
  ASSUME Careful
  PROVE  Spec => []TypeOK
<1>1. DmaInv => TypeOK BY TypesHold
<1> QED BY <1>1, DmaInit, DmaNext, PTL DEF Spec

LEMMA NoOverrunHolds ==
  ASSUME DmaInv
  PROVE  NoOverrun
<1>1. FormInv /\ EngineInv /\ HostInv /\ active \in Descriptors BY DEF DmaInv, FifoInv
<1>2. rw_state = "START_WRITE" => Starting(active) /\ active # FromHost
  BY <1>1, Shape DEF EngineInv, MachineInv, Starting
<1>3. rw_state = "START_READ" => Starting(active) /\ active = FromHost
  BY <1>1 DEF EngineInv, MachineInv, Starting
<1> QED BY <1>1, <1>2, <1>3, SendFree DEF NoOverrun

(* No TLP lands on data that the host has not read or fetches a slot that  *)
(* it has not filled, for any number of descriptors, any size of buffer    *)
(* and any order of starts, stops, stalls and moves of the pointers.       *)
THEOREM NothingOverwritten ==
  ASSUME Careful
  PROVE  Spec => []NoOverrun
<1>1. DmaInv => NoOverrun BY NoOverrunHolds
<1> QED BY <1>1, DmaInit, DmaNext, PTL DEF Spec

LEMMA FilledHere ==
  ASSUME NEW p \in Slots, NEW i \in Bit, NEW j \in Bit
  PROVE  Filled(p, i, p, j) = IF i = j THEN {} ELSE Slots
<1>1. p \in Nat /\ p <= Size - 1 /\ Size \in Nat BY SlotInt, Shape
<1>2. p .. p - 1 = {} BY <1>1
<1>3. (p .. Size - 1) \cup (0 .. p - 1) = 0 .. Size - 1 BY <1>1
<1> QED BY <1>2, <1>3 DEF Filled, Slots

LEMMA EvenBitsHold ==
  ASSUME DmaInv, Careful
  PROVE  EvenBitsTellFull
<1>1. FormInv /\ EngineInv /\ HostInv BY DEF DmaInv
<1> SUFFICES ASSUME NEW d \in Descriptors, Still(d), desc[d].current = desc[d].pc_pointer
             PROVE  full[d] = IF desc[d].even_dma = desc[d].even_pc THEN {} ELSE Slots
  BY DEF EvenBitsTellFull
<1> DEFINE p == desc[d].pc_pointer
           b == desc[d].even_pc
           m == desc[d].even_dma
<1>2. desc[d].enable /\ d \in WrapAround /\ ~desc[d].advance /\ ~pointer[d].ptr BY DEF Still
<1>3. Pointed(d) /\ Holds(d) /\ Endless(d)
  BY <1>1, <1>2 DEF HostInv, EngineInv, Phase
<1>4. p \in Slots /\ b \in Bit /\ m \in Bit /\ desc[d].current \in Int /\ desc[d].next \in Int
  BY <1>1, Fields DEF FormInv
<1>5. Address(d) = p /\ HostSlot(d) = p /\ HostTurn(d) = b
  BY <1>2, <1>3 DEF Address, HostSlot, HostTurn, Pointed
<1>6. p # Size - 1 BY <1>3, PostsStand DEF Pointed, Stands
<1>7. desc[d].next # 0
  BY <1>2, <1>3, <1>4, <1>6, Shape DEF Endless, EndlessAt
<1>8. Turn(d) = m BY <1>7 DEF Turn, TurnOf
<1>9. full[d] = Filled(p, m, p, b) \/ full[d] = Filled(p, b, p, m)
  BY <1>2, <1>3, <1>5, <1>8 DEF Holds
<1> HIDE DEF p, b, m
<1>10. \A i, j \in Bit : Filled(p, i, p, j) = IF i = j THEN {} ELSE Slots
  BY <1>4, FilledHere
<1>11. full[d] = IF m = b THEN {} ELSE Slots BY <1>4, <1>9, <1>10
<1> QED BY <1>11 DEF m, b

(* With the two pointers of an endless transfer equal, the even bits tell  *)
(* a full buffer from an empty one.                                        *)
LEMMA EvenBitsSuffice ==
  ASSUME Careful
  PROVE  Spec => []EvenBitsTellFull
<1>1. DmaInv => EvenBitsTellFull BY EvenBitsHold
<1> QED BY <1>1, DmaInit, DmaNext, PTL DEF Spec

Completes(d) ==
  desc[d].enable /\ ~desc'[d].enable /\ written = NoWrite
    => full'[d] = IF d \in ToHost THEN Slots ELSE {}

LEMMA CompletesStep ==
  ASSUME DmaInv, Careful, [Next]_vars, NEW d \in Descriptors
  PROVE  Completes(d)
<1>1. FormInv /\ FifoInv /\ EngineInv /\ HostInv BY DEF DmaInv
<1>2. ASSUME desc[d].enable, desc'[d].enable = Enable(d), ~desc'[d].enable, written = NoWrite
      PROVE  d \notin WrapAround /\ desc[d].wrapped /\ full[d] = IF d \in ToHost THEN Slots ELSE {}
  <2>1. d \notin WrapAround /\ desc[d].wrapped BY <1>1, <1>2, Enables
  <2>2. Single(d) /\ Holds(d) BY <1>1, <1>2, <2>1 DEF EngineInv, Phase, HostInv
  <2>3. desc[d].current = Size /\ ~desc[d].advance BY <2>1, <2>2 DEF Single, SingleAt
  <2>4. Address(d) = Size BY <2>3 DEF Address
  <2>5. Size .. Size - 1 = {} /\ 0 .. Size - 1 = Slots BY Shape DEF Slots
  <2> QED BY <2>1, <2>2, <2>4, <2>5, Shape DEF Holds
<1>3. CASE ClockStep
  <2> SUFFICES ASSUME desc[d].enable, ~desc'[d].enable, written = NoWrite
               PROVE  full'[d] = IF d \in ToHost THEN Slots ELSE {}
    BY DEF Completes
  <2>1. desc'[d].enable = Enable(d) /\ full'[d] = Moved(d) BY <1>3 DEF ClockStep, Clocked
  <2>2. d \notin WrapAround /\ desc[d].wrapped /\ full[d] = IF d \in ToHost THEN Slots ELSE {}
    BY <1>2, <2>1
  <2>3. ~Starting(d) BY <1>1, <1>3, <2>2, SinglePlace
  <2> QED BY <2>1, <2>2, <2>3 DEF Moved
<1>4. CASE StallStep
  <2>1. desc'[d].enable = Enable(d) /\ full'[d] = full[d] BY <1>4 DEF StallStep, Stalled
  <2> QED BY <1>2, <2>1 DEF Completes
<1>5. CASE desc'[d].enable = desc[d].enable BY <1>5 DEF Completes
<1>6. CASE ResetStep BY <1>1, <1>6, ResetRests DEF Completes
<1>7. ASSUME NEW e \in Descriptors, HostStep(e) PROVE Completes(d)
  BY <1>1, <1>5, <1>7, HostStepAlike DEF Alike
<1> QED BY <1>1, <1>3, <1>4, <1>5, <1>6, <1>7, StepIs

(* A transfer that hardware ends is complete: when the enable bit goes     *)
(* without a write of it, all slots have been written, or all been read.   *)
THEOREM EndsComplete ==
  ASSUME Careful
  PROVE  Spec => SingleShotComplete
<1>1. DmaInv /\ [Next]_vars => \A d \in Descriptors : Completes(d) BY CompletesStep
<1>2. (\A d \in Descriptors : Completes(d)) <=>
      (\A d \in Descriptors :
         desc[d].enable /\ ~desc'[d].enable /\ written = NoWrite
           => full'[d] = IF d \in ToHost THEN Slots ELSE {})
  BY DEF Completes
<1> QED BY <1>1, <1>2, DmaInit, DmaNext, PTL DEF Spec, SingleShotComplete

-----------------------------------------------------------------------------
(* The circular queue                                                      *)

RingHead(d)  == On(d, IF d = FromHost THEN EngineSlot(d) ELSE HostSlot(d))
RingTail(d)  == On(d, IF d = FromHost THEN HostSlot(d) ELSE EngineSlot(d))
RingCount(d) == On(d, Cardinality(full[d]))

RingSteps(d) == [Ring(d)!Next]_(Ring(d)!vars)

LEMMA RingStays ==
  ASSUME NEW d, RingHead(d)' = RingHead(d), RingTail(d)' = RingTail(d),
         RingCount(d)' = RingCount(d)
  PROVE  RingSteps(d)
BY DEF RingSteps, Ring!vars, RingHead, RingTail, RingCount

LEMMA RingResets ==
  ASSUME NEW d, RingHead(d)' = 0, RingTail(d)' = 0, RingCount(d)' = 0
  PROVE  RingSteps(d)
BY DEF RingSteps, Ring!Next, Ring!Reset, RingHead, RingTail, RingCount

LEMMA RingFills ==
  ASSUME NEW d, NEW n \in 1 .. Size, RingHead(d)' = RingHead(d),
         RingTail(d)' = (RingTail(d) + n) % Size, RingCount(d)' = RingCount(d) + n,
         RingCount(d) + n <= Size
  PROVE  RingSteps(d)
BY DEF RingSteps, Ring!Next, Ring!Fill, RingHead, RingTail, RingCount

LEMMA RingEmpties ==
  ASSUME NEW d, NEW n \in 1 .. Size, RingTail(d)' = RingTail(d),
         RingHead(d)' = (RingHead(d) + n) % Size, RingCount(d)' = RingCount(d) - n,
         n <= RingCount(d)
  PROVE  RingSteps(d)
BY DEF RingSteps, Ring!Next, Ring!Empty, RingHead, RingTail, RingCount

LEMMA SlotMod ==
  ASSUME NEW p \in Slots
  PROVE  /\ p % Size = p
         /\ \A n \in 1 .. Size - 1 : After(p, n) = (p + n) % Size
<1>1. p \in Nat /\ p < Size /\ Size \in Nat /\ Size >= 2 BY SlotInt, Shape
<1>2. p % Size = p BY <1>1, ModSize
<1>3. ASSUME NEW n \in 1 .. Size - 1 PROVE After(p, n) = (p + n) % Size
  <2>1. p + n \in Nat /\ p + n < 2 * Size BY <1>1
  <2>2. (p + n) % Size = IF p + n < Size THEN p + n ELSE (p + n) - Size
    BY <2>1, ModSize
  <2> QED BY <1>1, <2>2, AfterIs
<1> QED BY <1>2, <1>3

Running(d) == FormInv /\ EngineInv /\ HostInv /\ desc[d].enable

\* What the queue of a running descriptor is
RingAt(d) ==
  IF d = FromHost
  THEN /\ RingHead(d) = Address(d) /\ RingTail(d) = HostSlot(d)
       /\ RingCount(d) = Load(Address(d), Turn(d), HostSlot(d), HostTurn(d))
  ELSE /\ RingHead(d) = HostSlot(d) /\ RingTail(d) = Address(d)
       /\ RingCount(d) = Load(HostSlot(d), HostTurn(d), Address(d), Turn(d))

LEMMA RingIs ==
  ASSUME NEW d \in WrapAround, d \in Descriptors, Running(d)
  PROVE  RingAt(d)
<1>1. /\ Address(d) \in Slots /\ Turn(d) \in Bit /\ HostSlot(d) \in Slots /\ HostTurn(d) \in Bit
  BY Places DEF Running
<1>2. EngineSlot(d) = Address(d) BY <1>1, SlotMod DEF EngineSlot
<1>3. Holds(d) BY DEF Running, HostInv
<1>4. CASE d = FromHost
  <2>1. /\ Lap(Address(d), Turn(d), HostSlot(d), HostTurn(d))
        /\ full[d] = Filled(Address(d), Turn(d), HostSlot(d), HostTurn(d))
    BY <1>3, <1>4 DEF Holds
  <2>2. Cardinality(full[d]) = Load(Address(d), Turn(d), HostSlot(d), HostTurn(d))
    BY <1>1, <2>1, FilledForm
  <2> QED BY <1>2, <1>4, <2>2 DEF RingHead, RingTail, RingCount, On, RingAt, Running
<1>5. CASE d # FromHost
  <2>1. /\ Lap(HostSlot(d), HostTurn(d), Address(d), Turn(d))
        /\ full[d] = Filled(HostSlot(d), HostTurn(d), Address(d), Turn(d))
    BY <1>3, <1>5 DEF Holds
  <2>2. Cardinality(full[d]) = Load(HostSlot(d), HostTurn(d), Address(d), Turn(d))
    BY <1>1, <2>1, FilledForm
  <2> QED BY <1>2, <1>5, <2>2 DEF RingHead, RingTail, RingCount, On, RingAt, Running
<1> QED BY <1>4, <1>5 DEF RingAt

LEMMA RingWillBe ==
  ASSUME NEW d \in WrapAround, d \in Descriptors
  PROVE  (Running(d) => RingAt(d))'
<1>1. Running(d) => RingAt(d) BY RingIs
<1> QED BY <1>1, PTL

LEMMA RingClock ==
  ASSUME NEW d \in WrapAround, d \in Descriptors, Running(d), Running(d)', Careful, ClockStep
  PROVE  RingSteps(d)
<1> FormInv /\ EngineInv /\ HostInv /\ desc[d].enable /\ desc'[d].enable BY DEF Running
<1>1. /\ Address(d) \in Slots /\ HostSlot(d) \in Slots BY Places
<1>2. UNCHANGED pointer /\ Clocked(d, Starting(d)) /\ full'[d] = Moved(d) BY DEF ClockStep
<1>3. HostSlot(d)' = HostSlot(d) /\ HostTurn(d)' = HostTurn(d)
  BY <1>2 DEF HostSlot, HostTurn, Clocked
<1>4. 1 \in 1 .. Size /\ 1 \in 1 .. Size - 1 BY Shape
<1>5. CASE ~Starting(d)
  <2>1. Address(d)' = Address(d) BY <1>5, EnginePlace
  <2>2. full'[d] = full[d] BY <1>2, <1>5 DEF Moved
  <2> QED BY <1>3, <2>1, <2>2, RingStays DEF RingHead, RingTail, RingCount, On, EngineSlot
<1>6. CASE Starting(d) /\ d # FromHost
  <2>1. Address(d)' = (Address(d) + 1) % Size BY <1>1, <1>4, <1>6, SlotMod, EnginePlace
  <2>2. /\ RingHead(d) = HostSlot(d) /\ RingTail(d) = Address(d)
        /\ RingCount(d) = Load(HostSlot(d), HostTurn(d), Address(d), Turn(d))
    BY <1>6, RingIs DEF RingAt
  <2>3. /\ RingHead(d)' = HostSlot(d)' /\ RingTail(d)' = Address(d)'
        /\ RingCount(d)' = Load(HostSlot(d)', HostTurn(d)', Address(d)', Turn(d)')
    BY <1>6, RingWillBe DEF RingAt
  <2>4. /\ Load(HostSlot(d), HostTurn(d), Address(d)', Turn(d)')
             = Load(HostSlot(d), HostTurn(d), Address(d), Turn(d)) + 1
        /\ Load(HostSlot(d), HostTurn(d), Address(d), Turn(d)) + 1 <= Size
    BY <1>6, EngineFills
  <2> QED BY <1>3, <1>4, <2>1, <2>2, <2>3, <2>4, RingFills
<1>7. CASE Starting(d) /\ d = FromHost
  <2>1. Address(d)' = (Address(d) + 1) % Size BY <1>1, <1>4, <1>7, SlotMod, EnginePlace
  <2>2. /\ RingHead(d) = Address(d) /\ RingTail(d) = HostSlot(d)
        /\ RingCount(d) = Load(Address(d), Turn(d), HostSlot(d), HostTurn(d))
    BY <1>7, RingIs DEF RingAt
  <2>3. /\ RingHead(d)' = Address(d)' /\ RingTail(d)' = HostSlot(d)'
        /\ RingCount(d)' = Load(Address(d)', Turn(d)', HostSlot(d)', HostTurn(d)')
    BY <1>7, RingWillBe DEF RingAt
  <2>4. /\ Load(Address(d)', Turn(d)', HostSlot(d), HostTurn(d))
             = Load(Address(d), Turn(d), HostSlot(d), HostTurn(d)) - 1
        /\ 1 <= Load(Address(d), Turn(d), HostSlot(d), HostTurn(d))
    BY <1>7, EngineTakes
  <2> QED BY <1>3, <1>4, <2>1, <2>2, <2>3, <2>4, RingEmpties
<1> QED BY <1>5, <1>6, <1>7

LEMMA RingAdvance ==
  ASSUME NEW d \in WrapAround, d \in Descriptors, Running(d), Running(d)', Careful,
         NEW n \in Steps, AdvanceStep(d, n)
  PROVE  RingSteps(d)
<1> FormInv /\ EngineInv /\ HostInv /\ desc[d].enable /\ desc'[d].enable BY DEF Running
<1>1. /\ Address(d) \in Slots /\ HostSlot(d) \in Slots BY Places
<1>2. n \in 1 .. Size - 1 BY <1>1, EvenTurns
<1>3. n \in 1 .. Size BY <1>2, Shape
<1>4. HostSlot(d)' = (HostSlot(d) + n) % Size BY <1>1, <1>2, SlotMod, HostMoves
<1>5. Address(d)' = Address(d) /\ Turn(d)' = Turn(d) BY HostMoves
<1>6. CASE d # FromHost
  <2>2. /\ RingHead(d) = HostSlot(d) /\ RingTail(d) = Address(d)
        /\ RingCount(d) = Load(HostSlot(d), HostTurn(d), Address(d), Turn(d))
    BY <1>6, RingIs DEF RingAt
  <2>3. /\ RingHead(d)' = HostSlot(d)' /\ RingTail(d)' = Address(d)'
        /\ RingCount(d)' = Load(HostSlot(d)', HostTurn(d)', Address(d)', Turn(d)')
    BY <1>6, RingWillBe DEF RingAt
  <2>4. /\ Load(HostSlot(d)', HostTurn(d)', Address(d), Turn(d))
             = Load(HostSlot(d), HostTurn(d), Address(d), Turn(d)) - n
        /\ n <= Load(HostSlot(d), HostTurn(d), Address(d), Turn(d))
    BY <1>6, HostMoves
  <2> QED BY <1>3, <1>4, <1>5, <2>2, <2>3, <2>4, RingEmpties
<1>7. CASE d = FromHost
  <2>2. /\ RingHead(d) = Address(d) /\ RingTail(d) = HostSlot(d)
        /\ RingCount(d) = Load(Address(d), Turn(d), HostSlot(d), HostTurn(d))
    BY <1>7, RingIs DEF RingAt
  <2>3. /\ RingHead(d)' = Address(d)' /\ RingTail(d)' = HostSlot(d)'
        /\ RingCount(d)' = Load(Address(d)', Turn(d)', HostSlot(d)', HostTurn(d)')
    BY <1>7, RingWillBe DEF RingAt
  <2>4. /\ Load(Address(d), Turn(d), HostSlot(d)', HostTurn(d)')
             = Load(Address(d), Turn(d), HostSlot(d), HostTurn(d)) + n
        /\ Load(Address(d), Turn(d), HostSlot(d), HostTurn(d)) + n <= Size
    BY <1>7, HostMoves
  <2> QED BY <1>3, <1>4, <1>5, <2>2, <2>3, <2>4, RingFills
<1> QED BY <1>6, <1>7

\* A step that leaves the places alone
LEMMA RingIdle ==
  ASSUME NEW d, desc'[d].enable = desc[d].enable, desc[d].enable =>
           Address(d)' = Address(d) /\ HostSlot(d)' = HostSlot(d) /\ full'[d] = full[d]
  PROVE  RingSteps(d)
<1>1. CASE desc[d].enable
  BY <1>1, RingStays DEF RingHead, RingTail, RingCount, On, EngineSlot
<1>2. CASE ~desc[d].enable
  BY <1>2, RingStays DEF RingHead, RingTail, RingCount, On, EngineSlot
<1> QED BY <1>1, <1>2

LEMMA RingOff ==
  ASSUME NEW d, ~desc'[d].enable
  PROVE  RingSteps(d)
BY RingResets DEF RingHead, RingTail, RingCount, On

LEMMA RingOn ==
  ASSUME NEW d, ~desc[d].enable, Address(d)' = 0, HostSlot(d)' = 0, full'[d] = {}
  PROVE  RingSteps(d)
<1>1. 0 % Size = 0 BY Shape, ModSize
<1>2. Cardinality({}) = 0 BY FS_EmptySet
<1> QED BY <1>1, <1>2, RingStays DEF RingHead, RingTail, RingCount, On, EngineSlot

LEMMA RingStart ==
  ASSUME FormInv, EngineInv, HostInv, Careful, NEW d \in WrapAround, d \in Descriptors,
         ~desc[d].enable, desc'[d].enable, ClockStep \/ StallStep
  PROVE  RingSteps(d)
<1>1. desc'[d].enable = Enable(d) BY DEF ClockStep, StallStep, Clocked, Stalled
<1>2. d \in written /\ Fresh(d) /\ Resting(d) /\ desc[d].even_dma = 0
  BY <1>1, Enables
<1>3. ~Starting(d) /\ ~desc[d].advance BY <1>2 DEF Resting
<1>4. /\ full[d] = {} /\ pointer[d] = Settled /\ desc[d].pc_pointer = 0
  BY <1>2 DEF Fresh, Initial
<1>5. /\ desc'[d].current = 0 /\ desc'[d].next = 1 /\ ~desc'[d].advance
      /\ desc'[d].pc_pointer = 0 /\ pointer'[d] = Settled /\ full'[d] = {}
  <2>1. CASE ClockStep
    BY <1>3, <1>4, <2>1, OnClock DEF ClockStep, Clocked, Moved
  <2>2. CASE StallStep
    BY <1>3, <1>4, <2>2 DEF StallStep, Stalled
  <2> QED BY <2>1, <2>2
<1>6. Address(d)' = 0 /\ HostSlot(d)' = 0
  BY <1>5 DEF Address, HostSlot, Settled
<1> QED BY <1>5, <1>6, RingOn

\* With tready = 0 the registers of an enabled descriptor stay.
LEMMA RingStall ==
  ASSUME NEW d \in Descriptors, StallStep, desc[d].enable
  PROVE  RingSteps(d)
<1>1. Stalled(d) /\ UNCHANGED <<pointer, full>> BY DEF StallStep
<1>2. Address(d)' = Address(d) /\ HostSlot(d)' = HostSlot(d) /\ full'[d] = full[d]
  BY <1>1 DEF Stalled, Address, HostSlot
<1>3. CASE desc'[d].enable BY <1>2, <1>3, RingIdle
<1> QED BY <1>3, RingOff

LEMMA RingHost ==
  ASSUME DmaInv, DmaInv', Careful, NEW d \in WrapAround, NEW e \in Descriptors, HostStep(e)
  PROVE  RingSteps(d)
<1>1. d \in Descriptors BY HostAssumption
<1>2. \A i \in Descriptors : Alike(i) BY HostStepAlike DEF DmaInv
<1>3. desc'[d].enable = desc[d].enable /\ Address(d)' = Address(d)
  BY <1>1, <1>2 DEF Alike, Address
<1>4. CASE ~desc[d].enable BY <1>3, <1>4, RingOff
<1>5. CASE desc[d].enable
  <2>1. Running(d) /\ Running(d)' BY <1>3, <1>5 DEF Running, DmaInv
  <2>2. ASSUME NEW n \in Steps, AdvanceStep(e, n) PROVE RingSteps(d)
    <3>1. CASE d = e BY <1>1, <2>1, <2>2, <3>1, RingAdvance
    <3>2. CASE d # e
      <4>1. pointer'[d] = pointer[d] /\ full'[d] = full[d] /\ desc' = desc
        BY <1>1, <2>2, <3>2 DEF AdvanceStep
      <4> QED BY <1>3, <4>1, RingIdle DEF HostSlot
    <3> QED BY <3>1, <3>2
  <2>3. CASE StartStep(e)
    <3>1. d # e BY <1>5, <2>3 DEF StartStep
    <3>2. pointer'[d] = pointer[d] /\ full'[d] = full[d] /\ desc'[d] = desc[d]
      BY <1>1, <2>3, <3>1 DEF StartStep
    <3> QED BY <1>3, <3>2, RingIdle DEF HostSlot
  <2>4. CASE StopStep(e) \/ WriteStep(e)
    <3>1. UNCHANGED <<desc, pointer, full>> BY <2>4 DEF StopStep, WriteStep
    <3> QED BY <1>3, <3>1, RingIdle DEF HostSlot
  <2>5. CASE SyncStep(e)
    <3>1. HostSlot(d)' = HostSlot(d)
      BY <1>1, <2>5 DEF SyncStep, Repointed, HostSlot, Settled
    <3>2. full'[d] = full[d] BY <2>5 DEF SyncStep
    <3> QED BY <1>3, <3>1, <3>2, RingIdle
  <2> QED BY <2>2, <2>3, <2>4, <2>5 DEF HostStep
<1> QED BY <1>4, <1>5

LEMMA RingNext ==
  ASSUME DmaInv, DmaInv', Careful, [Next]_vars, NEW d \in WrapAround
  PROVE  RingSteps(d)
<1>1. d \in Descriptors /\ FormInv /\ FifoInv /\ EngineInv /\ HostInv
  BY HostAssumption DEF DmaInv
<1>2. CASE ClockStep \/ StallStep
  <2>1. CASE ~desc'[d].enable BY <2>1, RingOff
  <2>2. CASE ~desc[d].enable /\ desc'[d].enable BY <1>1, <1>2, <2>2, RingStart
  <2>3. CASE desc[d].enable /\ desc'[d].enable
    <3>1. Running(d) /\ Running(d)' BY <1>1, <2>3 DEF Running, DmaInv
    <3> QED BY <1>1, <1>2, <2>3, <3>1, RingClock, RingStall
  <2> QED BY <2>1, <2>2, <2>3
<1>3. CASE UNCHANGED <<desc, pointer, full>>
  BY <1>3, RingIdle DEF Address, HostSlot
<1>4. CASE ResetStep
  <2>1. ~desc'[d].enable BY <1>1, <1>4, ResetRests
  <2> QED BY <2>1, RingOff
<1>5. ASSUME NEW e \in Descriptors, HostStep(e) PROVE RingSteps(d) BY <1>5, RingHost
<1> QED BY <1>1, <1>2, <1>3, <1>4, <1>5, StepIs

(* An endless transfer and its host implement a circular queue: nothing is *)
(* overwritten, skipped or read twice, in either direction.                *)
THEOREM RefinesRing ==
  ASSUME Careful
  PROVE  Spec => ImplementsRingBuffer
<1>1. Init => \A d \in WrapAround : Ring(d)!Init
  <2> SUFFICES ASSUME Init, NEW d \in WrapAround PROVE Ring(d)!Init OBVIOUS
  <2>1. ~desc[d].enable BY HostAssumption DEF Init, Disabled
  <2> QED BY <2>1 DEF Ring!Init, On
<1>2. DmaInv /\ DmaInv' /\ [Next]_vars => \A d \in WrapAround : [Ring(d)!Next]_(Ring(d)!vars)
  BY RingNext DEF RingSteps
<1>3. DmaInv /\ [Next]_vars => DmaInv' BY DmaNext
<1>4. Init => DmaInv BY DmaInit
<1> QED BY <1>1, <1>2, <1>3, <1>4, PTL DEF Spec, ImplementsRingBuffer

=============================================================================
