--------------------------- MODULE WishboneBridge ---------------------------
(***************************************************************************)
(* The Wishbone bridge (wupper_to_wb.vhd) with the crossbar and the memory *)
(* behind it, and the tool wupper-wishbone in front of it.  Requests and   *)
(* answers pass through a queue each.  A tool writes the address, the      *)
(* direction and the data, which pushes a request; for a read it polls the *)
(* registers until there is an answer, pops it and reads it.               *)
(*                                                                         *)
(* A Tick is one clock of the register map, which the bus uses too.  An    *)
(* access of a tool takes effect between two clocks, Apart clocks or more  *)
(* after the one before it, and a strobe pushes or pops once: both are     *)
(* what RegisterAccess shows of the way from the host to the registers.    *)
(* Of the data, only the address that an answer belongs to is kept.        *)
(***************************************************************************)
EXTENDS Integers, Sequences

CONSTANTS
    Tools,      \* processes that run wupper-wishbone
    Mapped,     \* addresses of the memory
    Unmapped,   \* addresses that the crossbar gives to its error device
    Depth,      \* words in a queue (32)
    Latency,    \* clocks until a queue shows its other side what was pushed
    Apart,      \* clocks between two accesses of the host
    Together,   \* TRUE: calls of two tools may overlap
    Killable    \* the points of a call at which a tool may be killed

ASSUME DepthAssumption == Depth \in Nat \ {0}
ASSUME TimesAssumption == Latency \in Nat /\ Apart \in Nat
ASSUME TogetherAssumption == Together \in BOOLEAN
ASSUME AddressAssumption == Mapped \cap Unmapped = {}

Addresses == Mapped \cup Unmapped

\* What an output holds: the word of an address, or zero after a reset
Words == Addresses \cup {"zero"}

ASSUME OutcomeAssumption == Addresses \cap {"none", "zero", "ok", "error"} = {}

Requests == [adr : Addresses, write : BOOLEAN]
Queue(S) == {q \in Seq([item : S, age : 0..Latency]) : Len(q) <= Depth}

VARIABLES
    control,    \* WISHBONE_CONTROL
    toBus,      \* wupper_to_wb_fifo0
    fromBus,    \* wb_to_wupper_fifo0
    data,       \* the word last popped: WISHBONE_READ_DATA
    prs,        \* state of the bridge
    current,    \* the request at the output of toBus
    stb_p1, ack, err,   \* the memory's delay of stb, its ack; the device's err
    dout,       \* the address whose word lies at the memory's output
    master,     \* err of the bus, as seen one clock later
    error,      \* WISHBONE_STATUS.ERROR
    since,      \* clocks since the last access
    call,       \* what each tool is at
    outcome,    \* how its last call ended
    torn        \* the tools whose read has met a soft reset: a history variable

bus  == <<prs, current, stb_p1, ack, err, dout, master, error>>
host == <<control, data, call, outcome>>
vars == <<bus, toBus, fromBus, since, host, torn>>

Calls == {"idle", "address", "direction", "write", "empty", "error", "pop", "get",
          "check"}
NoOutcome == [adr |-> "none", write |-> FALSE, result |-> "none"]

TypeOK ==
    /\ control \in Requests
    /\ toBus \in Queue(Requests) /\ fromBus \in Queue(Words)
    /\ data \in Words /\ dout \in Words
    /\ prs \in {"wb_idle", "wb_start"}
    /\ current \in Requests
    /\ {stb_p1, ack, err, master, error} \subseteq BOOLEAN
    /\ since \in 0..Apart
    /\ call \in [Tools -> [pc : Calls, adr : Addresses, write : BOOLEAN, empty : BOOLEAN]]
    /\ outcome \in [Tools -> [adr : Addresses \cup {"none"}, write : BOOLEAN,
                              result : Words \cup {"none", "ok", "error"}]]
    /\ torn \subseteq Tools

Some == CHOOSE a \in Mapped : TRUE
Read(a) == [adr |-> a, write |-> FALSE]

Init ==
    /\ control = Read(Some) /\ current = Read(Some)
    /\ toBus = <<>> /\ fromBus = <<>>
    /\ data = "zero" /\ dout = "zero"
    /\ prs = "wb_idle"
    /\ stb_p1 = FALSE /\ ack = FALSE /\ err = FALSE /\ master = FALSE
    /\ error = FALSE
    /\ since = Apart
    /\ call = [t \in Tools |-> [pc |-> "idle", adr |-> Some, write |-> FALSE,
                                empty |-> TRUE]]
    /\ outcome = [t \in Tools |-> NoOutcome]
    /\ torn = {}

(***************************************************************************)
(* The queues.  What does not fit is lost.                                 *)
(***************************************************************************)
Visible(q) == q # <<>> /\ Head(q).age = Latency

Push(q, x) == IF Len(q) < Depth THEN Append(q, [item |-> x, age |-> 0]) ELSE q

Aged(q) == [i \in DOMAIN q |->
               [q[i] EXCEPT !.age = IF @ < Latency THEN @ + 1 ELSE @]]

(***************************************************************************)
(* One clock of the bus.  The memory acknowledges two clocks after stb,    *)
(* and goes on for two clocks after stb is down.                           *)
(***************************************************************************)
Stb  == prs = "wb_start"
Hits == current.adr \in Mapped
Acknowledged == Stb /\ Hits /\ ack
Failed == Stb /\ ~Hits /\ err

\* a slip: the answer of a write, and of a failed read, is kept
AnswersAll == Acknowledged \/ Failed

\* What the bridge puts into the answers: only those of reads.
Answers == Acknowledged /\ ~current.write

WbIdle ==
    /\ prs = "wb_idle"
    /\ IF Visible(toBus)
          THEN /\ prs' = "wb_start"
               /\ current' = Head(toBus).item
               /\ toBus' = Aged(Tail(toBus))
          ELSE toBus' = Aged(toBus) /\ UNCHANGED <<prs, current>>
    /\ fromBus' = Aged(fromBus)

WbStart ==
    /\ prs = "wb_start"
    /\ fromBus' = IF Answers THEN Push(Aged(fromBus), dout) ELSE Aged(fromBus)
    /\ prs' = IF Acknowledged \/ Failed THEN "wb_idle" ELSE prs
    /\ toBus' = Aged(toBus)
    /\ UNCHANGED current

Slaves ==
    /\ ack' = stb_p1
    /\ stb_p1' = (Stb /\ Hits)
    /\ err' = (Stb /\ ~Hits)
    /\ dout' = IF Stb /\ Hits THEN current.adr ELSE dout

\* The error flag stays up until the next request is seen.
\* a slip: the flag is not kept
MonitorLive ==
    /\ master' = Failed
    /\ error' = master

Monitor ==
    /\ master' = Failed
    /\ error' = IF master THEN TRUE ELSE IF Visible(toBus) THEN FALSE ELSE error

Tick ==
    /\ WbIdle \/ WbStart
    /\ Slaves
    /\ Monitor
    /\ since' = IF since < Apart THEN since + 1 ELSE since
    /\ UNCHANGED <<host, torn>>

(***************************************************************************)
(* wupper-wishbone: one register access after the other.                   *)
(***************************************************************************)
Free(t) == Together \/ \A u \in Tools \ {t} : call[u].pc = "idle"

Start(t) ==
    /\ call[t].pc = "idle" /\ Free(t)
    /\ \E r \in Requests :
          call' = [call EXCEPT ![t] = [pc |-> "address", adr |-> r.adr,
                                       write |-> r.write, empty |-> TRUE]]
    /\ outcome' = [outcome EXCEPT ![t] = NoOutcome]
    /\ torn' = torn \ {t}
    /\ UNCHANGED <<bus, toBus, fromBus, since, control, data>>

Access(t, pc) ==
    /\ call[t].pc = pc
    /\ since = Apart
    /\ since' = 0
    /\ UNCHANGED <<bus, torn>>

Goto(t, pc) == call' = [call EXCEPT ![t].pc = pc]

Return(t, result) ==
    /\ Goto(t, "idle")
    /\ outcome' = [outcome EXCEPT ![t] = [adr |-> call[t].adr,
                                          write |-> call[t].write, result |-> result]]

SetAddress(t) ==
    /\ Access(t, "address")
    /\ control' = [control EXCEPT !.adr = call[t].adr]
    /\ Goto(t, "direction")
    /\ UNCHANGED <<toBus, fromBus, data, outcome>>

SetDirection(t) ==
    /\ Access(t, "direction")
    /\ control' = [control EXCEPT !.write = call[t].write]
    /\ Goto(t, "write")
    /\ UNCHANGED <<toBus, fromBus, data, outcome>>

\* Writing the data pushes the request, for a read as well.
WriteData(t) ==
    /\ Access(t, "write")
    /\ toBus' = Push(toBus, control)
    /\ Goto(t, IF call[t].write THEN "check" ELSE "empty")
    /\ UNCHANGED <<fromBus, control, data, outcome>>

GetEmpty(t) ==
    /\ Access(t, "empty")
    /\ call' = [call EXCEPT ![t].pc = "error", ![t].empty = ~Visible(fromBus)]
    /\ UNCHANGED <<toBus, fromBus, control, data, outcome>>

GetError(t) ==
    /\ Access(t, "error")
    /\ IF error
          THEN Return(t, "error")
          ELSE /\ Goto(t, IF call[t].empty THEN "empty" ELSE "pop")
               /\ UNCHANGED outcome
    /\ UNCHANGED <<toBus, fromBus, control, data>>

ReadTrigger(t) ==
    /\ Access(t, "pop")
    /\ IF Visible(fromBus)
          THEN data' = Head(fromBus).item /\ fromBus' = Tail(fromBus)
          ELSE UNCHANGED <<data, fromBus>>
    /\ Goto(t, "get")
    /\ UNCHANGED <<toBus, control, outcome>>

GetData(t) ==
    /\ Access(t, "get")
    /\ Return(t, data)
    /\ UNCHANGED <<toBus, fromBus, control, data>>

\* A write looks at the error flag once, and does not wait for the bus.
CheckWrite(t) ==
    /\ Access(t, "check")
    /\ Return(t, IF error THEN "error" ELSE "ok")
    /\ UNCHANGED <<toBus, fromBus, control, data>>

\* A read that a reset has left without its answer hangs until it is killed.
Kill(t) ==
    /\ call[t].pc \in Killable \/ (t \in torn /\ call[t].pc # "idle")
    /\ Goto(t, "idle")
    /\ UNCHANGED <<bus, toBus, fromBus, since, control, data, outcome, torn>>

\* A read that has sent its request and has not returned
Reading(t) == call[t].pc \in {"empty", "error", "pop", "get"}

\* A soft reset, at any moment: the queues are emptied and their outputs, and
\* that of the memory, go to zero.  What runs on the two sides goes on.
SoftReset ==
    /\ toBus' = <<>> /\ fromBus' = <<>>
    /\ prs' = "wb_idle" /\ current' = Read(Some)
    /\ data' = "zero" /\ dout' = "zero"
    /\ torn' = torn \cup {t \in Tools : Reading(t)}
    /\ UNCHANGED <<stb_p1, ack, err, master, error, since, control, call, outcome>>

Step(t) ==
    \/ SetAddress(t) \/ SetDirection(t) \/ WriteData(t)
    \/ GetEmpty(t) \/ GetError(t) \/ ReadTrigger(t) \/ GetData(t)
    \/ CheckWrite(t)

Next == Tick \/ SoftReset \/ \E t \in Tools : Start(t) \/ Step(t) \/ Kill(t)

\* The clock runs, and a tool that has started goes on.
Spec == Init /\ [][Next]_vars /\ WF_vars(Tick) /\ \A t \in Tools : WF_vars(Step(t))

-----------------------------------------------------------------------------
(***************************************************************************)
(* Properties.                                                             *)
(***************************************************************************)

\* A read that returns a word returns that of its own address, and one that
\* reports "Wishbone error" had an address that is "not mapped by the
\* crossbar" (dma_control.vhd:1126): neither an answer nor an error flag of
\* an earlier call, nor one from before a soft reset, is taken for it
\* (wupper-wishbone.cpp:103-119).  A reset while the read is under way takes
\* its answer away, and a read that then goes on may return zero.
OwnOutcome ==
    \A t \in Tools \ torn : LET o == outcome[t] IN
        /\ o.result \in Words => o.result = o.adr
        /\ o.result = "error" /\ ~o.write => o.adr \in Unmapped

\* The same of the error flag that a write looks at.
WriteReports ==
    \A t \in Tools : LET o == outcome[t] IN
        o.write => (o.result = "error" <=> o.adr \in Unmapped)

\* "Wait for fifo to contain data" (wupper-wishbone.cpp:106): every call ends,
\* a read of an address that nothing answers as well, unless a soft reset
\* takes its request or its answer away.
CallsEnd ==
    \A t \in Tools : call[t].pc # "idle" ~> call[t].pc = "idle" \/ t \in torn
=============================================================================
