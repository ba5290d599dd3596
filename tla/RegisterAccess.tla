--------------------------- MODULE RegisterAccess ---------------------------
(***************************************************************************)
(* A register access of the host: the completer of dma_control.vhd takes a *)
(* request at 250 MHz and hands it to the registers, which run at 25 MHz,  *)
(* by levels that cross between the clocks through two or four registers.  *)
(* A write first reads the whole line of registers, because only the words *)
(* it names are replaced.                                                  *)
(*                                                                         *)
(* One step is one edge of the fast clock; every Ratio-th is an edge of    *)
(* the slow clock too.  All registers take the values from before the      *)
(* edge.  The open request, the answers and the strobes are kept as        *)
(* history, for what the host can see of an access.                        *)
(***************************************************************************)
EXTENDS Integers

CONSTANTS
    Ratio,      \* fast clocks in one slow clock (10 in the firmware)
    Lines,      \* the 128-bit lines of the register map
    Words,      \* the words of a line
    Values,     \* what a word may hold
    Zero,       \* the value of every word after a reset
    Apart,      \* slow clocks between two accesses, as counted in since
    Requests,   \* what the host may ask for
    Hasty,      \* TRUE: a request may follow an unknown one at once
    Stalls      \* TRUE: the PCIe core may be busy when an answer is given

ASSUME RatioAssumption == Ratio \in Nat \ {0}
ASSUME ValuesAssumption == Zero \in Values
ASSUME ApartAssumption == Apart \in Nat \ {0}
ASSUME FlagsAssumption == Hasty \in BOOLEAN /\ Stalls \in BOOLEAN

AllRequests ==
    [kind : {"read", "write", "reset", "unknown"}, line : Lines, word : Words, value : Values]

ASSUME RequestsAssumption == Requests \subseteq AllRequests

None == [kind |-> "none", line |-> "none", word |-> "none", value |-> "none"]

\* What lies in the pipelines before the first request.
Cleared == [kind |-> "read", line |-> CHOOSE l \in Lines : TRUE,
            word |-> CHOOSE w \in Words : TRUE, value |-> Zero]

ZeroLine == [w \in Words |-> Zero]
Start == [l \in Lines |-> ZeroLine]

States == {"idle", "read_register", "write_register_read",
           "write_register_modifywrite", "wait_rw_done", "send_unknown"}

VARIABLES
    phase,      \* fast clocks since the last slow edge
    state,      \* completer_state
    request,    \* the request in the completer's registers
    target,     \* the request whose address is in register_write_address
    enable,     \* the read and write enables: as set, and one clock later
    tvalid,     \* an answer lies on the completion stream
    tdata,      \* and this is its value
    readDone,   \* the four registers the read-done level comes up through
    writeDone,  \* the two of the write-done level
    readData,   \* and the two of the data
    down1, down2, \* the two registers the request goes down through
    done25,     \* the done levels at the slow side
    data25,     \* register_read_data_25_s
    regs,       \* the registers
    reset,      \* reset_register_map: as set, and one clock later
    trigger,    \* line -> its write strobe is up
    open, answer, strobe, since   \* history

fast == <<state, request, target, enable, tvalid, tdata>>
up   == <<readDone, writeDone, readData>>
slow == <<down1, down2, done25, data25, regs, reset, trigger, strobe, since>>
vars == <<phase, fast, up, slow, open, answer>>

Pair(S) == [1..2 -> S]
Level == [read : BOOLEAN, write : BOOLEAN]
Off == [read |-> FALSE, write |-> FALSE]
Down == [enable : Level, request : AllRequests, target : AllRequests]

TypeOK ==
    /\ phase \in 0..(Ratio - 1)
    /\ state \in States
    /\ request \in AllRequests /\ target \in AllRequests
    /\ enable \in Pair(Level)
    /\ tvalid \in BOOLEAN
    /\ tdata \in Values \cup {"unsupported"}
    /\ readDone \in [1..4 -> BOOLEAN] /\ writeDone \in Pair(BOOLEAN)
    /\ readData \in Pair([Words -> Values])
    /\ down1 \in Down /\ down2 \in Down
    /\ done25 \in Level
    /\ data25 \in [Words -> Values]
    /\ regs \in [Lines -> [Words -> Values]]
    /\ reset \in Pair(BOOLEAN)
    /\ trigger \in [Lines -> BOOLEAN]
    /\ open \in Requests \cup {None}
    /\ answer \in [parity : 0..1, value : Values \cup {"none", "unsupported"}]
    /\ strobe \in [Lines -> 0..1]
    /\ since \in 0..Apart

Quiet == [enable |-> Off, request |-> Cleared, target |-> Cleared]

Init ==
    /\ phase = 0
    /\ state = "idle"
    /\ request = Cleared /\ target = Cleared
    /\ enable = [i \in 1..2 |-> Off]
    /\ tvalid = FALSE /\ tdata = Zero
    /\ readDone = [i \in 1..4 |-> FALSE]
    /\ writeDone = [i \in 1..2 |-> FALSE]
    /\ readData = [i \in 1..2 |-> ZeroLine]
    /\ down1 = Quiet /\ down2 = Quiet
    /\ done25 = Off
    /\ data25 = ZeroLine
    /\ regs = Start
    /\ reset = <<FALSE, FALSE>>
    /\ trigger = [l \in Lines |-> FALSE]
    /\ open = None
    /\ answer = [parity |-> 0, value |-> "none"]
    /\ strobe = [l \in Lines |-> 0]
    /\ since = Apart

(***************************************************************************)
(* The completer.  An enable that no state sets is down, as is tvalid.     *)
(***************************************************************************)
ReadDone == readDone[4]
WriteDone == writeDone[2]

Enable(read, write) ==
    enable' = <<[read |-> read, write |-> write], enable[1]>>

\* register_read_enable goes up for every request, an unknown one included.
Accept(r) ==
    /\ state = "idle"
    /\ request' = r
    /\ Enable(TRUE, FALSE)
    /\ state' = CASE r.kind = "read"               -> "read_register"
                  [] r.kind \in {"write", "reset"} -> "write_register_read"
                  [] OTHER                         -> "send_unknown"
    /\ tvalid' = FALSE
    /\ UNCHANGED <<target, tdata>>

Idle ==
    /\ state = "idle"
    /\ Enable(FALSE, FALSE)
    /\ tvalid' = FALSE
    /\ UNCHANGED <<state, request, target, tdata>>

\* a slip: the enable is a pulse, not a level
ReadRegisterPulse(ready) ==
    /\ state = "read_register"
    /\ Enable(FALSE, FALSE)
    /\ tvalid' = ReadDone
    /\ tdata' = readData[2][request.word]
    /\ state' = IF ReadDone /\ ready THEN "wait_rw_done" ELSE state
    /\ UNCHANGED <<request, target>>

ReadRegister(ready) ==
    /\ state = "read_register"
    /\ Enable(~ReadDone, FALSE)
    /\ tvalid' = ReadDone
    /\ tdata' = readData[2][request.word]
    /\ state' = IF ReadDone /\ ready THEN "wait_rw_done" ELSE state
    /\ UNCHANGED <<request, target>>

WriteRegisterRead ==
    /\ state = "write_register_read"
    /\ Enable(~ReadDone, FALSE)
    /\ tvalid' = FALSE
    /\ state' = IF ReadDone THEN "write_register_modifywrite" ELSE state
    /\ UNCHANGED <<request, target, tdata>>

\* a slip: the address is that of a request that may be over
ModifyWriteUnlatched(ready) ==
    /\ state = "write_register_modifywrite"
    /\ target' = open
    /\ Enable(FALSE, TRUE)
    /\ tvalid' = FALSE
    /\ state' = IF WriteDone /\ ready THEN "wait_rw_done" ELSE state
    /\ UNCHANGED <<request, tdata>>

\* A memory write is posted: no answer, but the core has to be ready for one.
WriteRegisterModifyWrite(ready) ==
    /\ state = "write_register_modifywrite"
    /\ target' = request
    /\ Enable(FALSE, TRUE)
    /\ tvalid' = FALSE
    /\ state' = IF WriteDone /\ ready THEN "wait_rw_done" ELSE state
    /\ UNCHANGED <<request, tdata>>

\* a slip: waits for the end of a read only
WaitReadDone ==
    /\ state = "wait_rw_done"
    /\ Enable(FALSE, FALSE)
    /\ tvalid' = FALSE
    /\ state' = IF ReadDone THEN state ELSE "idle"
    /\ UNCHANGED <<request, target, tdata>>

WaitRwDone ==
    /\ state = "wait_rw_done"
    /\ Enable(FALSE, FALSE)
    /\ tvalid' = FALSE
    /\ state' = IF ReadDone \/ WriteDone THEN state ELSE "idle"
    /\ UNCHANGED <<request, target, tdata>>

SendUnknownRequest(ready) ==
    /\ state = "send_unknown"
    /\ Enable(FALSE, FALSE)
    /\ tvalid' = TRUE
    /\ tdata' = "unsupported"
    /\ state' = IF ready THEN "idle" ELSE state
    /\ UNCHANGED <<request, target>>

(***************************************************************************)
(* The levels on their way up, at every fast edge (regSync250), and the    *)
(* slow side: regSync25, and the registers themselves (regrw).  A write is *)
(* done anew, with the same data, in every slow clock in which its enable  *)
(* is up.                                                                  *)
(***************************************************************************)
RegSync250 ==
    /\ readDone' = <<done25.read, readDone[1], readDone[2], readDone[3]>>
    /\ writeDone' = <<done25.write, writeDone[1]>>
    /\ readData' = <<data25, readData[1]>>

RegSync25 ==
    /\ down1' = [enable |-> enable[2], request |-> request, target |-> target]
    /\ down2' = down1

\* a slip: the words that are not written are cleared
WriteDataOnly == [ZeroLine EXCEPT ![down2.target.word] = down2.request.value]

WriteData == [data25 EXCEPT ![down2.target.word] = down2.request.value]

\* The slow clock in which an access takes effect first.
TakesEffect ==
    \/ down2.enable.read /\ ~done25.read /\ down2.request.kind = "read"
    \/ down2.enable.write /\ ~done25.write

Update ==
    LET write == down2.enable.write /\ down2.request.kind = "write"
        line  == down2.target.line
    IN  /\ done25' = down2.enable
        /\ data25' = IF down2.enable.read THEN regs[down2.request.line] ELSE data25
        /\ regs' = IF write THEN [regs EXCEPT ![line] = WriteData] ELSE regs
        /\ trigger' = [l \in Lines |-> write /\ l = line]
        /\ reset' = <<reset[1] \/ (down2.enable.write /\ ~write), reset[1]>>

\* reset_register_map ends itself, one clock late, and raises both levels.
ResetRegisterMap ==
    /\ done25' = [read |-> TRUE, write |-> TRUE]
    /\ data25' = ZeroLine
    /\ regs' = Start
    /\ reset' = <<FALSE, reset[1]>>
    /\ UNCHANGED trigger

Rises(l) == trigger'[l] /\ ~trigger[l]

RegRw ==
    /\ IF reset[2] THEN ResetRegisterMap ELSE Update
    /\ strobe' = [l \in Lines |-> IF Rises(l) THEN 1 - strobe[l] ELSE strobe[l]]
    /\ since' = IF TakesEffect THEN 1 ELSE IF since < Apart THEN since + 1 ELSE since

Slow ==
    IF phase = 0 THEN RegSync25 /\ RegRw ELSE UNCHANGED slow

(***************************************************************************)
(* The host: its next request, and what it has seen of the last one.  An   *)
(* answer is taken in a clock in which it is valid and the core is ready.  *)
(***************************************************************************)
Transferred(ready) == tvalid /\ ready

Seen(ready) ==
    answer' = IF Transferred(ready)
                 THEN [parity |-> 1 - answer.parity, value |-> tdata]
                 ELSE answer

\* The open request is served by the answer, the strobe of its line, or the
\* reset of the registers.
Served(ready) ==
    \/ Transferred(ready)
    \/ open # None /\ open.kind = "write" /\ strobe'[open.line] # strobe[open.line]
    \/ open # None /\ open.kind = "reset" /\ phase = 0 /\ reset[2]

Rest(ready) ==
    /\ Seen(ready)
    /\ RegSync250
    /\ Slow
    /\ phase' = (phase + 1) % Ratio

Carry(ready) == open' = IF Served(ready) THEN None ELSE open

Ready == IF Stalls THEN BOOLEAN ELSE {TRUE}

\* No level of an earlier access is on its way to the slow side or back.
Calm ==
    /\ Off = enable[1] /\ Off = enable[2]
    /\ Off = down1.enable /\ Off = down2.enable /\ Off = done25
    /\ \A i \in 1..4 : ~readDone[i]

MayFollow == request.kind = "unknown" => Hasty \/ Calm

Take ==
    MayFollow /\ \E ready \in Ready, r \in Requests :
        Accept(r) /\ Rest(ready) /\ open' = r

Work ==
    \E ready \in Ready :
        /\ \/ Idle
           \/ ReadRegister(ready)
           \/ WriteRegisterRead
           \/ WriteRegisterModifyWrite(ready)
           \/ WaitRwDone
           \/ SendUnknownRequest(ready)
        /\ Rest(ready)
        /\ Carry(ready)

Next == Take \/ Work

\* The clocks run: the edge comes, whether or not there is a request.
Spec == Init /\ [][Next]_vars /\ WF_vars(Work)

-----------------------------------------------------------------------------
(***************************************************************************)
(* Properties.                                                             *)
(***************************************************************************)

\* The path is a register file: every access sees its own address and its
\* own data, although the done levels of one access are still up when it is
\* over; a write keeps the other words of its line, changes it once for the
\* host and gives one strobe, although its enable is up for several slow
\* clocks; every read is answered once (dma_control.vhd:347, :494, :609).
File == INSTANCE RegisterFile
            WITH file <- regs, Start <- Start

ImplementsRegisterFile == File!Spec

\* Two accesses take effect at least Apart slow clocks after each other,
\* which the Wishbone bridge behind the registers relies on.
AccessesApart == TakesEffect /\ phase = 0 => since = Apart

\* No request keeps the completer for ever: the level it waits for comes,
\* and goes (dma_control.vhd:420, :497).
EveryRequestServed == open # None ~> open = None
=============================================================================
