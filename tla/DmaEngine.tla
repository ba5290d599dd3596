----------------------------- MODULE DmaEngine -----------------------------
(***************************************************************************)
(* The DMA engine of the firmware, one clock of the 250 MHz domain a step: *)
(* the add_header process of firmware/sources/pcie/dma_read_write.vhd,     *)
(* with the enable bits kept by dma_control.vhd and the host that starts,  *)
(* stops and follows the transfers (WupperCard.cpp).                       *)
(*                                                                         *)
(* Addresses are counted in TLPs from start_address, so dword_count*4 is 1 *)
(* and end_address is Size.  A FIFO is only the condition the engine reads *)
(* of it: a descriptor is ready when its ToHost FIFO is not prog_empty, or *)
(* the FromHost FIFO is not prog_full.                                     *)
(***************************************************************************)
EXTENDS Integers, FiniteSets

CONSTANTS
  NToHost,     \* ToHost descriptors; descriptor NToHost is the FromHost one
  Used,        \* the descriptors the host starts
  WrapAround,  \* the descriptors started with wrap_around = 1
  Size,        \* TLPs in a host buffer
  Page,        \* TLPs in 4 KiB
  Beats,       \* FIFO words in a TLP
  Gap,         \* PC_PTR_GAP
  Steps,       \* by how many TLPs the host advances its pointer
  Unread,      \* FALSE: the host reads DMA_DESC_ENABLE and writes it at once
  Writes,      \* the host starts and stops a descriptor "always", only when it
               \* is "quiet", or never stops it and "starts" it when it is quiet
  Resets       \* dma_soft_reset comes at "any" time, or when all are at "rest"

FromHost    == NToHost
Descriptors == 0 .. NToHost
ToHost      == 0 .. NToHost - 1
Slots       == 0 .. Size - 1
NoWrite     == {-1}  \* no write of DMA_DESC_ENABLE on its way

ASSUME ShapeAssumption == NToHost \in Nat \ {0} /\ Size \in Nat \ {0, 1}
ASSUME PageAssumption == Page \in Nat \ {0} /\ Gap \in Nat /\ Beats \in Nat \ {0}
ASSUME HostAssumption ==
  /\ Used \subseteq Descriptors /\ WrapAround \subseteq Used
  /\ Steps \subseteq 1 .. Size
  /\ Unread \in BOOLEAN
  /\ Writes \in {"starts", "quiet", "always"} /\ Resets \in {"rest", "any"}

VARIABLES
  desc,      \* the registers of each descriptor
  rw_state, ToHostWriteCount,           \* the state machine,
  active, index, searching, wait_4k,    \* and what it works on
  written,   \* a write of DMA_DESC_ENABLE that dma_control has not taken yet
  pointer,   \* a write of pc_pointer that is crossing the clock domains
  host,      \* the read-modify-write of DMA_DESC_ENABLE by a descriptor's process
  full       \* history: slots with data that the other side has not taken

engine == <<rw_state, ToHostWriteCount, active, index, searching, wait_4k>>
vars   == <<desc, engine, written, pointer, host, full>>

Disabled ==
  [enable |-> FALSE, pc_pointer |-> 0, even_pc |-> 0, current |-> 0, next |-> 1,
   even_dma |-> 0, wait |-> FALSE, wait_pc |-> FALSE, wait_next |-> FALSE,
   wrapped |-> FALSE, at_end |-> FALSE, advance |-> FALSE]

Settled == [value |-> 0, ptr |-> FALSE, even |-> FALSE]
HostIdle == [op |-> "idle", seen |-> {}]

Init ==
  /\ desc = [d \in Descriptors |-> Disabled]
  /\ rw_state = "IDLE" /\ ToHostWriteCount = 0
  /\ active = 0 /\ index = 0 /\ searching = 0
  /\ wait_4k = FALSE
  /\ written = NoWrite
  /\ pointer = [d \in Descriptors |-> Settled]
  /\ host = [d \in Descriptors |-> HostIdle]
  /\ full = [d \in Descriptors |-> {}]

-----------------------------------------------------------------------------
(* RoundRobinLookup: every second search is for the FromHost descriptor.   *)
SearchIndex == IF searching % 2 = 1 THEN FromHost ELSE searching \div 2

\* The descriptor that the state machine will look at next
NextActive(ready) ==
  LET s == SearchIndex IN
  IF s # active /\ desc[s].enable /\ ~desc[s].wait /\ s \in ready
  THEN s ELSE active

\* A slip: the comparison of the even bits is not inverted for FromHost.
ReadNotWriteSame(d) == 0

ReadNotWrite(d) == IF d = FromHost THEN 1 ELSE 0

(* The pointer registers after a clock with tready = 1.  A register holds  *)
(* what it had before the clock: advance says that the clock before this   *)
(* one sent a header of the descriptor.                                    *)
Address(d) == IF desc[d].advance THEN desc[d].next ELSE desc[d].current

\* The PC is not ready to accept data.
WaitPc(d) ==
  LET r == desc[d] IN
  /\ d \in WrapAround /\ r.enable
  /\ (r.even_dma + ReadNotWrite(d)) % 2 # r.even_pc
  /\ Address(d) = r.pc_pointer

\* A slip: the end is seen a TLP early.
AtEndEarly(d) == desc[d].enable /\ desc[d].next = Size - 1

AtEnd(d) == desc[d].enable /\ desc[d].next = Size

Compares(d) == desc[d].advance \/ d \in WrapAround

Wraps(d) == desc[d].at_end /\ ~desc[d].wait_pc

\* dma_wait_next, when it is set for any descriptor, overrides this clock's
\* dma_wait of every descriptor.
Wait(d) ==
  IF \E i \in Descriptors : desc[i].wait_next
  THEN desc[d].wait \/ desc[d].wait_next
  ELSE WaitPc(d) \/ (Compares(d) /\ AtEnd(d)) \/ Wraps(d)

WaitNext(d) ==
  /\ \A i \in Descriptors : ~desc[i].wait_next
  /\ Wraps(d) /\ d \in WrapAround

NextAddress(d) ==
  CASE ~desc[d].enable -> 1
    [] desc[d].enable /\ Wraps(d) -> 0
    [] desc[d].enable /\ ~Wraps(d) /\ desc[d].advance -> desc[d].next + 1
    [] OTHER -> desc[d].next

Evencycle(d) ==
  IF Wraps(d) THEN (IF d \in WrapAround THEN 1 - desc[d].even_dma ELSE 0)
  ELSE IF desc[d].enable THEN desc[d].even_dma ELSE 0

Pointers(d, advanced) ==
  [desc[d] EXCEPT
     !.current   = IF desc[d].enable THEN Address(d) ELSE 0,
     !.next      = NextAddress(d),
     !.even_dma  = Evencycle(d),
     !.wait_pc   = WaitPc(d),
     !.at_end    = ~Wraps(d) /\ (IF Compares(d) THEN AtEnd(d) ELSE @),
     !.wrapped   = Wraps(d),
     !.wait      = Wait(d),
     !.wait_next = WaitNext(d),
     !.advance   = advanced]

\* A clock with tready = 0 leaves all but a disabled descriptor alone.
Held(d) == IF desc[d].enable THEN desc[d]
           ELSE [desc[d] EXCEPT !.current = 0, !.next = 1]

\* A slip: a write of DMA_DESC_ENABLE only sets bits.
EnableSets(d) ==
  IF desc[d].wrapped THEN d \in WrapAround
  ELSE (written # NoWrite /\ d \in written) \/ desc[d].enable

(* dma_control: a wrapped descriptor gets enable = wrap_around, whatever   *)
(* was just written to DMA_DESC_ENABLE, which otherwise sets all of them.  *)
Enable(d) ==
  IF desc[d].wrapped THEN d \in WrapAround
  ELSE IF written # NoWrite THEN d \in written ELSE desc[d].enable

ClockRegisters(sender) ==
  /\ desc' = [d \in Descriptors |->
                [Pointers(d, d = sender) EXCEPT !.enable = Enable(d)]]
  /\ written' = NoWrite

Wait4k == wait_4k /\ desc[FromHost].enable

\* After the header of the last TLP of a page, reads wait for its data.
ClockWait4k ==
  LET r == desc[FromHost] IN
  wait_4k' = (Wait4k \/ (r.advance /\ r.enable /\ r.next % Page = 0))

\* A slip: dma_wait is not looked at.
CanStartNoWait(d, ready) == desc[d].enable /\ d \in ready

CanStart(d, ready) ==
  /\ desc[d].enable /\ ~desc[d].wait /\ d \in ready
  /\ d = FromHost => ~Wait4k

\* Slips: the search does not go on, or goes on one position too far.
NextSearchStuck == UNCHANGED searching
NextSearchFar == searching' = (searching + 1) % (2 * NToHost + 1)

NextSearch == searching' = (searching + 1) % (2 * NToHost)

NoTransfer == -1

\* IDLE: start a transfer of the active descriptor ...
IdleStart(ready) ==
  /\ rw_state = "IDLE" /\ CanStart(active, ready)
  /\ rw_state' = IF active = FromHost THEN "START_READ" ELSE "START_WRITE"
  /\ ToHostWriteCount' = Beats
  /\ NextSearch /\ ClockRegisters(NoTransfer) /\ ClockWait4k
  /\ UNCHANGED <<active, index, pointer, host, full>>

\* A slip: toHostFifoIndex stays.
SelectNone(d) == UNCHANGED index

\* toHostFifoIndex follows a descriptor d that is about to be active.
Select(d) == index' = IF d \in ToHost THEN d ELSE index

\* ... or go on to another one.
IdleSearch(ready) ==
  /\ rw_state = "IDLE" /\ ~CanStart(active, ready)
  /\ active' = NextActive(ready) /\ Select(NextActive(ready))
  /\ ToHostWriteCount' = Beats
  /\ NextSearch /\ ClockRegisters(NoTransfer) /\ ClockWait4k
  /\ UNCHANGED <<rw_state, pointer, host, full>>

\* The slots of the active buffer when a TLP at current_address puts data
\* there (ToHost) or takes data from there (FromHost)
Transferred ==
  LET r == desc[active] IN
  IF ~r.enable THEN full
  ELSE [full EXCEPT ![active] = IF active = FromHost THEN @ \ {r.current}
                                ELSE @ \cup {r.current}]

\* The header of a memory write
StartWrite(ready) ==
  /\ rw_state = "START_WRITE" /\ rw_state' = "CONT_WRITE"
  /\ ToHostWriteCount' = ToHostWriteCount - 1
  /\ full' = Transferred
  /\ active' = NextActive(ready)
  /\ ClockRegisters(active) /\ ClockWait4k
  /\ UNCHANGED <<index, searching, pointer, host>>

\* Its payload
ContWrite ==
  /\ rw_state = "CONT_WRITE"
  /\ \/ ToHostWriteCount # 0 /\ UNCHANGED <<rw_state, index>>
     \/ ToHostWriteCount = 0 /\ rw_state' = "IDLE" /\ Select(active)
  /\ ToHostWriteCount' = (ToHostWriteCount - 1) % 256
  /\ ClockRegisters(NoTransfer) /\ ClockWait4k
  /\ UNCHANGED <<active, searching, pointer, host, full>>

\* A memory read request
StartRead(ready) ==
  /\ rw_state = "START_READ" /\ rw_state' = "DELAY"
  /\ full' = Transferred
  /\ active' = NextActive(ready) /\ Select(NextActive(ready))
  /\ ClockRegisters(active) /\ ClockWait4k
  /\ UNCHANGED <<ToHostWriteCount, searching, pointer, host>>

Delay ==
  /\ rw_state = "DELAY" /\ rw_state' = "IDLE"
  /\ ClockRegisters(NoTransfer) /\ ClockWait4k
  /\ UNCHANGED <<ToHostWriteCount, active, index, searching, pointer, host, full>>

\* tready = 0: the PCIe core does not take the TLP.
Stall ==
  /\ desc' = [d \in Descriptors |-> [Held(d) EXCEPT !.enable = Enable(d)]]
  /\ written' = NoWrite
  /\ wait_4k' = Wait4k
  /\ UNCHANGED <<rw_state, ToHostWriteCount, active, index, searching, pointer,
                 host, full>>

\* strip_hdr has handed the data of the page to the FIFO.
ClearWait4k ==
  /\ wait_4k /\ wait_4k' = FALSE
  /\ UNCHANGED <<desc, rw_state, ToHostWriteCount, active, index, searching,
                 written, pointer, host, full>>

(* dma_soft_reset clears the registers of the state machine, which takes   *)
(* no part in this clock, and of the descriptors three; dma_control goes   *)
(* on, with the enable bits.                                               *)
AtRest == written = NoWrite /\ \A d \in Descriptors : ~desc[d].enable /\ host[d].op = "idle"

SoftReset ==
  /\ Resets = "rest" => AtRest
  /\ rw_state' = "IDLE" /\ ToHostWriteCount' = 0 /\ active' = 0 /\ index' = 0 /\ searching' = 0
  /\ wait_4k' = FALSE
  /\ desc' = [d \in Descriptors |-> [desc[d] EXCEPT !.even_dma = 0, !.wait_next = FALSE,
                                       !.wrapped = FALSE, !.enable = Enable(d)]]
  /\ written' = NoWrite
  /\ UNCHANGED <<pointer, host, full>>

-----------------------------------------------------------------------------
Enabled == {d \in Descriptors : desc[d].enable}

\* Nothing of the descriptor is on its way through the engine's registers.
Quiet(d) ==
  /\ ~desc[d].at_end /\ ~desc[d].wrapped /\ ~desc[d].advance
  /\ desc[d].next # Size
  /\ rw_state = "IDLE" \/ active # d
  /\ desc[d].enable \/ desc[d].even_dma = 0

MayWrite(d) == Writes = "always" \/ Quiet(d)

(* dma_to_host and dma_from_host set the descriptor up, then read          *)
(* DMA_DESC_ENABLE in order to set its bit.  dma_control keeps             *)
(* evencycle_pc of a disabled descriptor at 0: that dma_to_host decrements *)
(* and increments read_ptr when the even bits are equal changes nothing.   *)
(* Each descriptor has a lock bit, so each may be used by a process of its *)
(* own.                                                                    *)
HostStart(d) ==
  /\ host[d].op = "idle" /\ written = NoWrite
  /\ ~desc[d].enable /\ MayWrite(d)
  /\ host' = [host EXCEPT ![d] = [op |-> "start", seen |-> Enabled]]
  /\ desc' = [desc EXCEPT ![d].pc_pointer = 0, ![d].even_pc = 0]
  /\ pointer' = [pointer EXCEPT ![d] = Settled]
  /\ full' = [full EXCEPT ![d] = IF d = FromHost /\ d \notin WrapAround
                                 THEN Slots ELSE {}]
  /\ UNCHANGED <<engine, written>>

\* dma_stop reads DMA_DESC_ENABLE in order to clear a bit.
HostStop(d) ==
  /\ host[d].op = "idle" /\ written = NoWrite /\ desc[d].enable
  /\ Writes # "starts" /\ MayWrite(d)
  /\ host' = [host EXCEPT ![d] = [op |-> "stop", seen |-> Enabled]]
  /\ UNCHANGED <<desc, engine, written, pointer, full>>

Seen(d) == IF Unread THEN host[d].seen ELSE Enabled

HostWriteEnable(d) ==
  /\ host[d].op # "idle" /\ written = NoWrite
  /\ MayWrite(d)
  /\ written' = IF host[d].op = "start" THEN Seen(d) \cup {d}
                ELSE Seen(d) \ {d}
  /\ host' = [host EXCEPT ![d] = HostIdle]
  /\ UNCHANGED <<desc, engine, pointer, full>>

(* dma_advance_ptr: the host has read n TLPs of a ToHost buffer, or has    *)
(* filled n of a FromHost buffer.                                          *)
HostAdvance(d, n) ==
  LET p     == desc[d].pc_pointer
      new   == IF p + n >= Size THEN p + n - Size ELSE p + n
      slots == {(p + i) % Size : i \in 0 .. n - 1}
  IN
  /\ desc[d].enable /\ d \in WrapAround
  /\ host[d].op # "stop"
  /\ ~pointer[d].ptr
  /\ IF d \in ToHost
     THEN slots \subseteq full[d] /\ full' = [full EXCEPT ![d] = @ \ slots]
     ELSE slots \cap full[d] = {} /\ full' = [full EXCEPT ![d] = @ \cup slots]
  /\ pointer' = [pointer EXCEPT ![d] =
                   [value |-> new, ptr |-> TRUE, even |-> p > new + Gap]]
  /\ UNCHANGED <<desc, engine, written, host>>

\* A slip: pc_pointer is not delayed, and evencycle_pc comes after it.
SyncApart(d) ==
  /\ pointer[d].ptr \/ pointer[d].even
  /\ IF pointer[d].ptr
     THEN /\ desc' = [desc EXCEPT ![d].pc_pointer = pointer[d].value]
          /\ pointer' = [pointer EXCEPT ![d].ptr = FALSE]
     ELSE /\ desc' = [desc EXCEPT ![d].even_pc = 1 - @]
          /\ pointer' = [pointer EXCEPT ![d].even = FALSE]
  /\ UNCHANGED <<engine, written, host, full>>

(* pc_pointer and evencycle_pc reach the 250 MHz domain together: they     *)
(* change at one edge of regmap_clk, which is made from clk.               *)
Sync(d) ==
  /\ pointer[d].ptr
  /\ desc' = [desc EXCEPT ![d].pc_pointer = pointer[d].value,
                          ![d].even_pc = IF pointer[d].even THEN 1 - @ ELSE @]
  /\ pointer' = [pointer EXCEPT ![d] = Settled]
  /\ UNCHANGED <<engine, written, host, full>>

Clock(ready) ==
  \/ IdleStart(ready) \/ IdleSearch(ready) \/ StartWrite(ready)
  \/ ContWrite \/ StartRead(ready) \/ Delay

Advance(d) == \E n \in Steps : HostAdvance(d, n)

Host ==
  \E d \in Used :
    HostStart(d) \/ HostStop(d) \/ HostWriteEnable(d) \/ Advance(d) \/ Sync(d)

Next ==
  \/ \E ready \in SUBSET Used : Clock(ready)
  \/ Stall \/ ClearWait4k \/ SoftReset \/ Host

Spec == Init /\ [][Next]_vars

(* Traffic that never stops: no FIFO is ever empty or full, the PCIe core  *)
(* takes every TLP, and each process goes on advancing its pointer.        *)
Traffic == Clock(Used) \/ ClearWait4k \/ Host

TrafficSpec ==
  /\ Init /\ [][Traffic]_vars
  /\ WF_vars(Clock(Used)) /\ WF_vars(ClearWait4k)
  /\ \A d \in Used :
       WF_vars(HostWriteEnable(d)) /\ WF_vars(Advance(d)) /\ WF_vars(Sync(d))

-----------------------------------------------------------------------------
Bit == {0, 1}
Registers ==
  [enable : BOOLEAN, pc_pointer : Slots, even_pc : Bit, current : 0 .. Size,
   next : 0 .. Size + 1, even_dma : Bit, wait : BOOLEAN, wait_pc : BOOLEAN,
   wait_next : BOOLEAN, wrapped : BOOLEAN, at_end : BOOLEAN, advance : BOOLEAN]

TypeOK ==
  /\ desc \in [Descriptors -> Registers]
  /\ rw_state \in {"IDLE", "START_WRITE", "CONT_WRITE", "START_READ", "DELAY"}
  /\ ToHostWriteCount \in 0 .. 255
  /\ active \in Descriptors /\ index \in ToHost
  /\ searching \in 0 .. 2 * NToHost - 1 /\ wait_4k \in BOOLEAN
  /\ written \in {NoWrite} \cup SUBSET Descriptors
  /\ pointer \in [Descriptors -> [value : Slots, ptr : BOOLEAN, even : BOOLEAN]]
  /\ host \in [Descriptors -> [op : {"idle", "start", "stop"},
                              seen : SUBSET Descriptors]]
  /\ full \in [Descriptors -> SUBSET Slots]

(* "After wrapping around the DMA core will transfer To Host memory until  *)
(* the PC_read_pointer is reached" (design.tex:83): a ToHost TLP never     *)
(* lands on data the host has not read, a FromHost request never fetches a *)
(* slot the host has not filled, and none leaves the buffer.               *)
NoOverrun ==
  LET r == desc[active] IN
  r.enable =>
    /\ rw_state = "START_WRITE" => r.current \in Slots \ full[active]
    /\ rw_state = "START_READ"  => r.current \in full[active]

(* The state machine takes the data of a ToHost TLP from the FIFO of the   *)
(* descriptor whose address the header carries.                            *)
RightFifo == rw_state = "START_WRITE" => index = active

(* A descriptor that hardware disables has transferred the whole buffer:   *)
(* the host polls the enable bit to learn that (dma_wait).                 *)
SingleShotComplete ==
  [][\A d \in Descriptors :
       desc[d].enable /\ ~desc'[d].enable /\ written = NoWrite
         => full'[d] = IF d \in ToHost THEN Slots ELSE {}]_vars

Still(d) ==
  /\ desc[d].enable /\ d \in WrapAround
  /\ ~desc[d].advance /\ ~pointer[d].ptr

(* When the two pointers are equal, the even bits say whether the buffer   *)
(* is full or empty: the DMA stops only when the buffer is full (ToHost)   *)
(* or empty (FromHost), and dma_cmp_even_bits tells the host the same.     *)
EvenBitsTellFull ==
  \A d \in Descriptors :
    Still(d) /\ desc[d].current = desc[d].pc_pointer
      => full[d] = IF desc[d].even_dma = desc[d].even_pc THEN {} ELSE Slots

(* Only a write of DMA_DESC_ENABLE starts a descriptor, and one that       *)
(* clears its bit stops it: "This method clears the DMA channel identified *)
(* by dma_id" (WupperCard.h:512).                                          *)
HostDecides ==
  [][\A d \in Descriptors :
       /\ ~desc[d].enable /\ desc'[d].enable => d \in written
       /\ written # NoWrite /\ written' = NoWrite /\ d \notin written
            => ~desc'[d].enable]_vars

(* While the host keeps up and the data does not stop, no endless DMA is   *)
(* stalled or starved: each goes on transferring (design.tex:73-105).      *)
NeverStalls ==
  \A d \in WrapAround :
    desc[d].enable ~> active = d /\ rw_state \in {"START_WRITE", "START_READ"}

(* An endless DMA and its host implement a circular queue: the engine      *)
(* works at its address, the host at the pointer it wrote last.            *)
HostSlot(d)   == IF pointer[d].ptr THEN pointer[d].value ELSE desc[d].pc_pointer
EngineSlot(d) == Address(d) % Size
On(d, slot)   == IF desc[d].enable THEN slot ELSE 0

Ring(d) == INSTANCE RingBuffer WITH
  head  <- On(d, IF d = FromHost THEN EngineSlot(d) ELSE HostSlot(d)),
  tail  <- On(d, IF d = FromHost THEN HostSlot(d) ELSE EngineSlot(d)),
  count <- On(d, Cardinality(full[d]))

ImplementsRingBuffer ==
  /\ \A d \in WrapAround : Ring(d)!Init
  /\ [][\A d \in WrapAround : [Ring(d)!Next]_(Ring(d)!vars)]_vars

=============================================================================
