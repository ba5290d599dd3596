------------------------ MODULE WishboneBridgeProofs ------------------------
(***************************************************************************)
(* Proofs about WishboneBridge for any number of tools and addresses and   *)
(* any depth of the queues: the types, whatever the tools do, and that a   *)
(* read returns what belongs to it when the calls do not overlap and the   *)
(* accesses of the host are far enough apart.                              *)
(***************************************************************************)
EXTENDS WishboneBridge, SequenceTheorems, TLAPS

-----------------------------------------------------------------------------
(***************************************************************************)
(* The queues.                                                             *)
(***************************************************************************)
Entry(S) == [item : S, age : 0..Latency]

LEMMA TailIs ==
    ASSUME NEW S, NEW q \in Queue(S), q # <<>>
    PROVE  /\ Tail(q) \in Queue(S) /\ Head(q) \in Entry(S)
           /\ Len(q) \in Nat /\ Len(q) >= 1
           /\ Len(q) = 1 => Tail(q) = <<>>
<1>1. q \in Seq(Entry(S)) /\ Len(q) <= Depth BY DEF Queue, Entry
<1>2. Len(q) \in Nat /\ Len(q) >= 1 BY <1>1
<1>3. Head(q) \in Entry(S) BY <1>1
<1>4. Tail(q) \in Seq(Entry(S)) /\ Len(Tail(q)) = Len(q) - 1 BY <1>1
<1>5. Len(Tail(q)) <= Depth BY <1>1, <1>2, <1>4, DepthAssumption
<1>6. ASSUME Len(q) = 1 PROVE Tail(q) = <<>>
    <2>1. Len(Tail(q)) = 0 BY <1>4, <1>6
    <2>2. Tail(q) # <<>> => Len(Tail(q)) \in Nat \ {0} BY <1>4, EmptySeq
    <2> QED BY <2>1, <2>2
<1> QED BY <1>2, <1>3, <1>4, <1>5, <1>6 DEF Queue, Entry

LEMMA AgedIs ==
    ASSUME NEW S, NEW q \in Queue(S)
    PROVE  /\ Aged(q) \in Queue(S) /\ Len(Aged(q)) = Len(q)
           /\ Aged(q) = <<>> <=> q = <<>>
           /\ q # <<>> =>
                /\ Head(Aged(q)).item = Head(q).item
                /\ Head(Aged(q)).age = IF Head(q).age < Latency THEN Head(q).age + 1
                                       ELSE Head(q).age
<1> DEFINE f(e) == [e EXCEPT !.age = IF @ < Latency THEN @ + 1 ELSE @]
<1>1. q \in Seq(Entry(S)) /\ Len(q) <= Depth BY DEF Queue, Entry
<1>2. DOMAIN q = 1..Len(q) /\ Len(q) \in Nat /\ \A i \in DOMAIN q : q[i] \in Entry(S) BY <1>1
<1>3. ASSUME NEW e \in Entry(S)
      PROVE  /\ f(e) \in Entry(S) /\ f(e).item = e.item
             /\ f(e).age = IF e.age < Latency THEN e.age + 1 ELSE e.age
    <2>1. e.age \in 0..Latency /\ Latency \in Nat BY TimesAssumption DEF Entry
    <2>2. (IF e.age < Latency THEN e.age + 1 ELSE e.age) \in 0..Latency BY <2>1
    <2> QED BY <2>2 DEF Entry
<1>4. Aged(q) = [i \in 1..Len(q) |-> f(q[i])] BY <1>2 DEF Aged
<1> HIDE DEF f
<1>5. \A i \in 1..Len(q) : f(q[i]) \in Entry(S) BY <1>2, <1>3
<1>6. Aged(q) \in Seq(Entry(S)) /\ Len(Aged(q)) = Len(q) BY <1>2, <1>4, <1>5
<1>7. Aged(q) = <<>> <=> q = <<>> BY <1>1, <1>6
<1>8. ASSUME q # <<>> PROVE Head(Aged(q)) = f(Head(q))
    <2>1. 1 \in 1..Len(q) BY <1>1, <1>8
    <2>2. Aged(q)[1] = f(q[1]) BY <1>4, <2>1
    <2> QED BY <1>1, <1>6, <2>1, <2>2
<1>9. q # <<>> => Head(q) \in Entry(S) BY TailIs
<1> QED BY <1>1, <1>3, <1>6, <1>7, <1>8, <1>9 DEF Queue, Entry

LEMMA PushIs ==
    ASSUME NEW S, NEW q \in Queue(S), NEW x \in S
    PROVE  /\ Push(q, x) \in Queue(S)
           /\ q = <<>> => /\ Push(q, x) # <<>> /\ Len(Push(q, x)) = 1
                          /\ Head(Push(q, x)).item = x /\ Head(Push(q, x)).age = 0
<1> DEFINE e == [item |-> x, age |-> 0]
<1>1. q \in Seq(Entry(S)) /\ Len(q) <= Depth /\ Depth \in Nat /\ Depth >= 1
    BY DepthAssumption DEF Queue, Entry
<1>2. e \in Entry(S) /\ e.item = x /\ e.age = 0 BY TimesAssumption DEF Entry
<1> HIDE DEF e
<1>3. Append(q, e) \in Seq(Entry(S)) /\ Len(Append(q, e)) = Len(q) + 1 BY <1>1, <1>2
<1>4. Push(q, x) = IF Len(q) < Depth THEN Append(q, e) ELSE q BY DEF Push, e
<1>5. Push(q, x) \in Queue(S) BY <1>1, <1>3, <1>4 DEF Queue, Entry
<1>6. ASSUME q = <<>>
      PROVE  Push(q, x) # <<>> /\ Len(Push(q, x)) = 1 /\ Head(Push(q, x)) = e
    <2>1. Len(q) = 0 BY <1>6
    <2>2. Push(q, x) = Append(q, e) BY <1>1, <1>4, <2>1
    <2>3. Append(q, e) = <<e>> BY <1>6
    <2> QED BY <2>2, <2>3
<1> QED BY <1>2, <1>5, <1>6

-----------------------------------------------------------------------------
(***************************************************************************)
(* The types.                                                              *)
(***************************************************************************)
CallForm == [pc : Calls, adr : Addresses, write : BOOLEAN, empty : BOOLEAN]
OutcomeForm ==
    [adr : Addresses \cup {"none"}, write : BOOLEAN,
     result : Words \cup {"none", "ok", "error"}]

LEMMA CallFields ==
    ASSUME NEW c \in CallForm, NEW pc \in Calls
    PROVE  /\ c.pc \in Calls /\ c.adr \in Addresses /\ c.write \in BOOLEAN
           /\ c.empty \in BOOLEAN
           /\ [c EXCEPT !.pc = pc] \in CallForm
           /\ \A e \in BOOLEAN : [c EXCEPT !.pc = pc, !.empty = e] \in CallForm
BY DEF CallForm

\* What an access and its Return or Goto do to the calls
LEMMA GotoType ==
    ASSUME TypeOK, NEW t \in Tools, NEW pc \in Calls, Goto(t, pc)
    PROVE  call' \in [Tools -> CallForm]
<1>1. call \in [Tools -> CallForm] BY DEF TypeOK, CallForm
<1> QED BY <1>1, CallFields DEF Goto

LEMMA ReturnType ==
    ASSUME TypeOK, NEW t \in Tools, NEW r \in Words \cup {"ok", "error"}, Return(t, r)
    PROVE  call' \in [Tools -> CallForm] /\ outcome' \in [Tools -> OutcomeForm]
<1>1. "idle" \in Calls BY DEF Calls
<1>2. call' \in [Tools -> CallForm] BY <1>1, GotoType DEF Return
<1>3. call[t].adr \in Addresses /\ call[t].write \in BOOLEAN BY DEF TypeOK
<1>4. [adr |-> call[t].adr, write |-> call[t].write, result |-> r] \in OutcomeForm
    BY <1>3 DEF OutcomeForm
<1>5. outcome \in [Tools -> OutcomeForm] BY DEF TypeOK, OutcomeForm
<1> QED BY <1>2, <1>4, <1>5 DEF Return

LEMMA TickType ==
    ASSUME TypeOK, Tick
    PROVE  TypeOK'
<1>1. /\ toBus \in Queue(Requests) /\ fromBus \in Queue(Words)
      /\ dout \in Words /\ prs \in {"wb_idle", "wb_start"} /\ current \in Requests
      /\ {stb_p1, ack, err, master, error} \subseteq BOOLEAN
      /\ since \in 0..Apart
    BY DEF TypeOK
<1>2. since' \in 0..Apart
    <2>1. since' = IF since < Apart THEN since + 1 ELSE since BY DEF Tick
    <2> QED BY <1>1, <2>1, TimesAssumption
<1>3. dout' \in Words
    <2>1. dout' = IF Stb /\ Hits THEN current.adr ELSE dout BY DEF Tick, Slaves
    <2> QED BY <1>1, <2>1 DEF Requests, Words
<1>4. {stb_p1', ack', err', master', error'} \subseteq BOOLEAN
    BY <1>1 DEF Tick, Slaves, Monitor, Stb, Hits, Failed
<1>5. Aged(toBus) \in Queue(Requests) /\ Aged(fromBus) \in Queue(Words)
    BY <1>1, AgedIs
<1>6. /\ toBus' \in Queue(Requests) /\ fromBus' \in Queue(Words)
      /\ prs' \in {"wb_idle", "wb_start"} /\ current' \in Requests
    <2>1. CASE WbIdle
        <3>1. CASE Visible(toBus)
            <4>1. toBus # <<>> BY <3>1 DEF Visible
            <4>2. Tail(toBus) \in Queue(Requests) /\ Head(toBus) \in Entry(Requests)
                BY <1>1, <4>1, TailIs
            <4>3. Head(toBus).item \in Requests BY <4>2 DEF Entry
            <4>4. Aged(Tail(toBus)) \in Queue(Requests) BY <4>2, AgedIs
            <4> QED BY <1>5, <2>1, <3>1, <4>3, <4>4 DEF WbIdle
        <3>2. CASE ~Visible(toBus) BY <1>1, <1>5, <2>1, <3>2 DEF WbIdle
        <3> QED BY <3>1, <3>2
    <2>2. CASE WbStart
        <3>1. Push(Aged(fromBus), dout) \in Queue(Words) BY <1>1, <1>5, PushIs
        <3> QED BY <1>1, <1>5, <2>2, <3>1 DEF WbStart
    <2> QED BY <2>1, <2>2 DEF Tick
<1>7. UNCHANGED <<control, data, call, outcome, torn>> BY DEF Tick, host
<1> QED BY <1>2, <1>3, <1>4, <1>6, <1>7 DEF TypeOK

LEMMA StepType ==
    ASSUME TypeOK, NEW t \in Tools, Step(t)
    PROVE  TypeOK'
<1>1. /\ control \in Requests /\ data \in Words
      /\ toBus \in Queue(Requests) /\ fromBus \in Queue(Words)
      /\ call \in [Tools -> CallForm] /\ outcome \in [Tools -> OutcomeForm]
      /\ call[t].adr \in Addresses /\ call[t].write \in BOOLEAN
    BY DEF TypeOK, CallForm, OutcomeForm
<1>2. /\ "idle" \in Calls /\ "direction" \in Calls /\ "write" \in Calls /\ "empty" \in Calls
      /\ "error" \in Calls /\ "pop" \in Calls /\ "get" \in Calls /\ "check" \in Calls
    BY DEF Calls
<1>3. since' = 0 /\ UNCHANGED <<bus, torn>>
    BY DEF Step, Access, SetAddress, SetDirection, WriteData, GetEmpty, GetError,
           ReadTrigger, GetData, CheckWrite
<1> DEFINE Rest ==
             /\ control' \in Requests /\ data' \in Words
             /\ toBus' \in Queue(Requests) /\ fromBus' \in Queue(Words)
             /\ call' \in [Tools -> CallForm] /\ outcome' \in [Tools -> OutcomeForm]
<1>4. ASSUME SetAddress(t) PROVE Rest
    <2>1. [control EXCEPT !.adr = call[t].adr] \in Requests BY <1>1 DEF Requests
    <2>2. call' \in [Tools -> CallForm] BY <1>2, <1>4, GotoType DEF SetAddress
    <2> QED BY <1>1, <1>4, <2>1, <2>2 DEF SetAddress
<1>5. ASSUME SetDirection(t) PROVE Rest
    <2>1. [control EXCEPT !.write = call[t].write] \in Requests BY <1>1 DEF Requests
    <2>2. call' \in [Tools -> CallForm] BY <1>2, <1>5, GotoType DEF SetDirection
    <2> QED BY <1>1, <1>5, <2>1, <2>2 DEF SetDirection
<1>6. ASSUME WriteData(t) PROVE Rest
    <2>1. Push(toBus, control) \in Queue(Requests) BY <1>1, PushIs
    <2>2. (IF call[t].write THEN "check" ELSE "empty") \in Calls BY <1>2
    <2>3. call' \in [Tools -> CallForm] BY <1>6, <2>2, GotoType DEF WriteData
    <2> QED BY <1>1, <1>6, <2>1, <2>3 DEF WriteData
<1>7. ASSUME GetEmpty(t) PROVE Rest
    <2>1. (~Visible(fromBus)) \in BOOLEAN BY DEF Visible
    <2>2. [call[t] EXCEPT !.pc = "error", !.empty = ~Visible(fromBus)] \in CallForm
        BY <1>1, <1>2, <2>1, CallFields
    <2>3. call' = [call EXCEPT ![t] =
                     [call[t] EXCEPT !.pc = "error", !.empty = ~Visible(fromBus)]]
        BY <1>1, <1>7 DEF GetEmpty
    <2>4. call' \in [Tools -> CallForm] BY <1>1, <2>2, <2>3
    <2> QED BY <1>1, <1>7, <2>4 DEF GetEmpty
<1>8. ASSUME GetError(t) PROVE Rest
    <2>1. (IF call[t].empty THEN "empty" ELSE "pop") \in Calls BY <1>2
    <2>2. CASE error BY <1>1, <1>8, <2>2, ReturnType DEF GetError
    <2>3. CASE ~error
        <3>1. call' \in [Tools -> CallForm] BY <1>8, <2>1, <2>3, GotoType DEF GetError
        <3> QED BY <1>1, <1>8, <2>3, <3>1 DEF GetError
    <2> QED BY <2>2, <2>3
<1>9. ASSUME ReadTrigger(t) PROVE Rest
    <2>1. call' \in [Tools -> CallForm] BY <1>2, <1>9, GotoType DEF ReadTrigger
    <2>2. data' \in Words /\ fromBus' \in Queue(Words)
        <3>1. CASE Visible(fromBus)
            <4>1. fromBus # <<>> BY <3>1 DEF Visible
            <4>2. Tail(fromBus) \in Queue(Words) /\ Head(fromBus) \in Entry(Words)
                BY <1>1, <4>1, TailIs
            <4> QED BY <1>9, <3>1, <4>2 DEF ReadTrigger, Entry
        <3>2. CASE ~Visible(fromBus) BY <1>1, <1>9, <3>2 DEF ReadTrigger
        <3> QED BY <3>1, <3>2
    <2> QED BY <1>1, <1>9, <2>1, <2>2 DEF ReadTrigger
<1>10. ASSUME GetData(t) PROVE Rest
    <2>1. call' \in [Tools -> CallForm] /\ outcome' \in [Tools -> OutcomeForm]
        BY <1>1, <1>10, ReturnType DEF GetData
    <2> QED BY <1>1, <1>10, <2>1 DEF GetData
<1>11. ASSUME CheckWrite(t) PROVE Rest
    <2>1. call' \in [Tools -> CallForm] /\ outcome' \in [Tools -> OutcomeForm]
        BY <1>11, ReturnType DEF CheckWrite
    <2> QED BY <1>1, <1>11, <2>1 DEF CheckWrite
<1>12. Rest BY <1>4, <1>5, <1>6, <1>7, <1>8, <1>9, <1>10, <1>11 DEF Step
<1>13. since' \in 0..Apart BY <1>3, TimesAssumption
<1> QED BY <1>3, <1>12, <1>13 DEF TypeOK, bus, CallForm, OutcomeForm

LEMMA StartType ==
    ASSUME TypeOK, NEW t \in Tools, Start(t)
    PROVE  TypeOK'
<1>1. call \in [Tools -> CallForm] BY DEF TypeOK, CallForm
<1>2. PICK r \in Requests :
        call' = [call EXCEPT ![t] = [pc |-> "address", adr |-> r.adr,
                                     write |-> r.write, empty |-> TRUE]]
    BY DEF Start
<1>3. [pc |-> "address", adr |-> r.adr, write |-> r.write, empty |-> TRUE] \in CallForm
    BY DEF Requests, CallForm, Calls
<1>4. call' \in [Tools -> CallForm] BY <1>1, <1>2, <1>3
<1>5. UNCHANGED <<bus, toBus, fromBus, since, control, data>> BY DEF Start
<1>6. outcome' \in [Tools -> OutcomeForm] /\ torn' \subseteq Tools
    BY DEF Start, TypeOK, OutcomeForm, NoOutcome
<1> QED BY <1>4, <1>5, <1>6 DEF TypeOK, bus, CallForm, OutcomeForm

LEMMA KillType ==
    ASSUME TypeOK, NEW t \in Tools, Kill(t)
    PROVE  TypeOK'
<1>1. "idle" \in Calls BY DEF Calls
<1>2. call' \in [Tools -> CallForm] BY <1>1, GotoType DEF Kill
<1>3. UNCHANGED <<bus, toBus, fromBus, since, control, data, outcome, torn>> BY DEF Kill
<1> QED BY <1>2, <1>3 DEF TypeOK, bus, CallForm

LEMMA EmptyQueue ==
    ASSUME NEW S
    PROVE  <<>> \in Queue(S)
<1>1. <<>> \in Seq(Entry(S)) /\ Len(<<>>) = 0 BY EmptySeq
<1> QED BY <1>1, DepthAssumption DEF Queue, Entry

LEMMA SomeIs ==
    ASSUME Mapped # {}
    PROVE  Some \in Addresses /\ Read(Some) \in Requests
<1>1. Some \in Addresses BY DEF Some, Addresses
<1> QED BY <1>1 DEF Read, Requests

LEMMA ResetType ==
    ASSUME TypeOK, SoftReset, Mapped # {}
    PROVE  TypeOK'
<1>1. toBus' \in Queue(Requests) /\ fromBus' \in Queue(Words)
    BY EmptyQueue DEF SoftReset
<1>2. current' \in Requests /\ prs' \in {"wb_idle", "wb_start"}
    BY SomeIs DEF SoftReset
<1>3. data' \in Words /\ dout' \in Words BY DEF SoftReset, Words
<1>4. torn' \subseteq Tools BY DEF SoftReset, TypeOK
<1>5. UNCHANGED <<stb_p1, ack, err, master, error, since, control, call, outcome>>
    BY DEF SoftReset
<1> QED BY <1>1, <1>2, <1>3, <1>4, <1>5 DEF TypeOK

LEMMA TypeNext ==
    ASSUME Mapped # {}
    PROVE  TypeOK /\ [Next]_vars => TypeOK'
<1>1. SUFFICES ASSUME TypeOK, [Next]_vars PROVE TypeOK' OBVIOUS
<1>2. CASE UNCHANGED vars BY <1>1, <1>2 DEF TypeOK, vars, bus, host
<1> QED BY <1>1, <1>2, TickType, ResetType, StartType, StepType, KillType DEF Next

LEMMA TypeInit ==
    ASSUME Mapped # {}, Init
    PROVE  TypeOK
<1>1. Some \in Addresses /\ Read(Some) \in Requests BY SomeIs
<1>2. call \in [Tools -> CallForm] BY <1>1 DEF Init, CallForm, Calls
<1>3. outcome \in [Tools -> OutcomeForm] BY DEF Init, OutcomeForm, NoOutcome
<1>4. since \in 0..Apart BY TimesAssumption DEF Init
<1>5. toBus \in Queue(Requests) /\ fromBus \in Queue(Words) BY EmptyQueue DEF Init
<1>6. {stb_p1, ack, err, master, error} \subseteq BOOLEAN /\ torn \subseteq Tools
    BY DEF Init
<1>7. data \in Words /\ dout \in Words BY DEF Init, Words
<1> QED BY <1>1, <1>2, <1>3, <1>4, <1>5, <1>6, <1>7 DEF TypeOK, Init, CallForm, OutcomeForm

(* Whatever the tools do, wherever they are killed, and whenever the bridge *)
(* is reset, the registers, the queues and the calls keep their types; no   *)
(* queue holds more than Depth.                                             *)
THEOREM TypeCorrect ==
    ASSUME Mapped # {}
    PROVE  Spec => []TypeOK
<1> QED BY TypeInit, TypeNext, PTL DEF Spec

-----------------------------------------------------------------------------
(***************************************************************************)
(* One call at a time.                                                     *)
(***************************************************************************)

\* A call is not killed while its answer is on the way, and the error flag of
\* the call before it is down when it first looks at the flag: the request has
\* left the queue.  When it pushes its request, the bus has come to rest.
Alone ==
    /\ ~Together /\ Killable \cap {"empty", "error", "pop"} = {}
    /\ Latency < 2 * Apart /\ Latency + 5 < 3 * Apart

\* Clocks that a call has let pass at least since the last request was pushed,
\* before its last access
Spent(pc) ==
    CASE pc \in {"direction", "error"} -> Apart
      [] pc = "write" -> 2 * Apart
      [] OTHER -> 0

\* A request may have been pushed no more than n clocks ago.
Within(n) == \A t \in Tools : since + Spent(call[t].pc) <= n

Waiting(t) == call[t].pc \in {"empty", "error"}
Asking(t)  == call[t].pc \in {"empty", "error", "pop"}

\* The calls, and what they have found or left in the registers
CallAt(t) ==
    /\ Asking(t) \/ call[t].pc = "get" => ~call[t].write
    /\ call[t].pc = "check" => call[t].write
    /\ call[t].pc \in {"direction", "write"} => control.adr = call[t].adr
    /\ call[t].pc = "write" => control.write = call[t].write
    /\ t \notin torn /\ (call[t].pc = "pop" \/ (call[t].pc = "error" /\ ~call[t].empty)) =>
         Visible(fromBus)
    /\ t \notin torn /\ call[t].pc = "get" => data = call[t].adr

\* Nothing is under way for a tool whose read has met a reset.
TornAt(t) ==
    t \in torn =>
      /\ call[t].pc = "idle" \/ Reading(t)
      /\ Reading(t) => toBus = <<>> /\ fromBus = <<>> /\ prs = "wb_idle"

CallInv ==
    /\ \A t, u \in Tools : call[t].pc # "idle" /\ call[u].pc # "idle" => t = u
    /\ \A t \in Tools : CallAt(t) /\ TornAt(t)

\* A request is in the queue, on the bus, or done, and how long ago that was.
QueuedInv ==
    /\ Len(toBus) <= 1
    /\ toBus # <<>> =>
         /\ prs = "wb_idle" /\ ~stb_p1 /\ ~ack /\ ~err /\ ~master
         /\ Within(Head(toBus).age)
StartInv ==
    prs = "wb_start" =>
      /\ ~error /\ ~master
      /\ Hits =>
           /\ ~err /\ (ack => stb_p1) /\ (stb_p1 => dout = current.adr)
           /\ Within(Latency + 3) /\ (~ack => Within(Latency + 2))
           /\ ~stb_p1 => Within(Latency + 1)
      /\ ~Hits =>
           /\ ~stb_p1 /\ ~ack /\ Within(Latency + 2)
           /\ ~err => Within(Latency + 1)
IdleInv ==
    prs = "wb_idle" =>
      /\ stb_p1 => Within(Latency + 4)
      /\ ack => Within(Latency + 5)
      /\ err \/ master => Within(Latency + 3)

\* A tool waits for each read that is under way, and for each answer.
AnswerInv ==
    /\ fromBus # <<>> =>
         /\ Len(fromBus) = 1 /\ toBus = <<>> /\ prs = "wb_idle"
         /\ Head(fromBus).item \in Mapped
         /\ \E t \in Tools : Asking(t) /\ Head(fromBus).item = call[t].adr
    /\ prs = "wb_start" =>
         current.write \/ \E t \in Tools : Waiting(t) /\ current = Read(call[t].adr)
    /\ toBus # <<>> =>
         Head(toBus).item.write
         \/ \E t \in Tools : Waiting(t) /\ Head(toBus).item = Read(call[t].adr)

\* What is under way for a tool that waits is its own.
OwnAt(t) ==
    Waiting(t) /\ t \notin torn =>
      /\ toBus # <<>> => Head(toBus).item = Read(call[t].adr)
      /\ prs = "wb_start" => current = Read(call[t].adr)
      /\ master \/ (error /\ toBus = <<>>) => call[t].adr \in Unmapped
OwnInv == \A t \in Tools : OwnAt(t)

BridgeInv ==
    /\ TypeOK /\ CallInv /\ QueuedInv /\ StartInv /\ IdleInv
    /\ AnswerInv /\ OwnInv /\ OwnOutcome

-----------------------------------------------------------------------------
(***************************************************************************)
(* The clocks.                                                             *)
(***************************************************************************)
LEMMA Times == Latency \in Nat /\ Apart \in Nat
BY TimesAssumption

LEMMA SpentIs ==
    /\ Spent("idle") = 0 /\ Spent("address") = 0 /\ Spent("empty") = 0 /\ Spent("pop") = 0
    /\ Spent("get") = 0 /\ Spent("check") = 0
    /\ Spent("direction") = Apart /\ Spent("error") = Apart /\ Spent("write") = 2 * Apart
    /\ \A pc \in Calls : Spent(pc) \in Nat
BY Times DEF Spent, Calls

LEMMA SinceNat ==
    ASSUME TypeOK, NEW t \in Tools
    PROVE  since \in Nat /\ since <= Apart /\ call[t].pc \in Calls /\ Spent(call[t].pc) \in Nat
<1>1. since \in 0..Apart /\ call[t].pc \in Calls BY DEF TypeOK
<1> QED BY <1>1, Times, SpentIs

LEMMA WithinLess ==
    ASSUME TypeOK, NEW m \in Int, NEW n \in Int, m <= n, Within(m)
    PROVE  Within(n)
<1> SUFFICES ASSUME NEW t \in Tools PROVE since + Spent(call[t].pc) <= n BY DEF Within
<1>1. since + Spent(call[t].pc) <= m BY DEF Within
<1> QED BY <1>1, SinceNat

LEMMA WithinTick ==
    ASSUME TypeOK, Tick, NEW n \in Int, Within(n)
    PROVE  Within(n + 1)'
<1>1. UNCHANGED call /\ since' = IF since < Apart THEN since + 1 ELSE since
    BY DEF Tick, host
<1> SUFFICES ASSUME NEW t \in Tools PROVE since' + Spent(call[t].pc) <= n + 1
    BY <1>1 DEF Within
<1>2. since + Spent(call[t].pc) <= n BY DEF Within
<1> DEFINE s == Spent(call[t].pc)
<1>3. s \in Nat /\ since \in Nat BY SinceNat
<1> HIDE DEF s
<1>4. since + s <= n BY <1>2 DEF s
<1>5. since' + s <= n + 1 BY <1>1, <1>3, <1>4, Times
<1> QED BY <1>5 DEF s

LEMMA WithinLonger ==
    ASSUME TypeOK, Tick, NEW m \in Int, NEW n \in Int, m < n, Within(m)
    PROVE  Within(n)'
<1>1. m + 1 <= n BY Times
<1>2. ASSUME NEW t \in Tools PROVE since' + Spent(call'[t].pc) <= n
    <2>1. since' + Spent(call'[t].pc) <= m + 1 BY WithinTick DEF Within
    <2>2. TypeOK' BY TickType
    <2>3. since' \in Nat /\ Spent(call'[t].pc) \in Nat
        <3>1. since' \in 0..Apart /\ call'[t].pc \in Calls BY <2>2 DEF TypeOK
        <3> QED BY <3>1, SpentIs, Times
    <2> QED BY <1>1, <2>1, <2>3
<1> QED BY <1>2 DEF Within

LEMMA SinceTick ==
    ASSUME TypeOK, Tick, NEW n \in Int, Within(n)
    PROVE  \A t \in Tools : since' + Spent(call'[t].pc) <= n + 1
BY WithinTick DEF Within

\* An access that does not push a request
LEMMA WithinStep ==
    ASSUME TypeOK, NEW t \in Tools, Step(t), call[t].pc # "write", NEW n \in Int, Within(n)
    PROVE  Within(n)'
<1>1. since' = 0 /\ since = Apart
    BY DEF Step, Access, SetAddress, SetDirection, WriteData, GetEmpty, GetError,
           ReadTrigger, GetData, CheckWrite
<1>2. call \in [Tools -> CallForm] BY DEF TypeOK, CallForm
<1>3. ASSUME NEW u \in Tools, u # t PROVE call'[u] = call[u]
    BY <1>2, <1>3 DEF Step, SetAddress, SetDirection, WriteData, GetEmpty, GetError,
           ReadTrigger, GetData, CheckWrite, Return, Goto
<1>4. /\ call[t].pc = "address" => call'[t].pc = "direction"
      /\ call[t].pc = "direction" => call'[t].pc = "write"
      /\ call[t].pc = "empty" => call'[t].pc = "error"
      /\ call[t].pc = "error" => call'[t].pc \in {"idle", "empty", "pop"}
      /\ call[t].pc = "pop" => call'[t].pc = "get"
      /\ call[t].pc \in {"get", "check"} => call'[t].pc = "idle"
      /\ call[t].pc \in {"address", "direction", "empty", "error", "pop", "get", "check"}
    BY <1>2 DEF Step, Access, SetAddress, SetDirection, WriteData, GetEmpty, GetError,
           ReadTrigger, GetData, CheckWrite, Return, Goto, CallForm
<1>5. Spent(call'[t].pc) <= Apart + Spent(call[t].pc) BY <1>4, SpentIs, Times
<1> SUFFICES ASSUME NEW u \in Tools PROVE 0 + Spent(call'[u].pc) <= n
    BY <1>1 DEF Within
<1>6. since + Spent(call[u].pc) <= n BY DEF Within
<1>7. CASE u # t
    <2>1. call'[u] = call[u] BY <1>3, <1>7
    <2> QED BY <1>6, <2>1, SinceNat
<1>8. CASE u = t
    <2>1. Spent(call'[t].pc) \in Nat BY <1>4, SpentIs, Times
    <2>2. Apart + Spent(call[t].pc) <= n BY <1>1, <1>6, <1>8
    <2>3. Spent(call[t].pc) \in Nat BY SinceNat
    <2> QED BY <1>5, <1>8, <2>1, <2>2, <2>3, Times
<1> QED BY <1>7, <1>8

\* What Within says of a call that makes an access
LEMMA WithinCall ==
    ASSUME TypeOK, NEW t \in Tools, since = Apart, NEW n \in Int, Within(n)
    PROVE  /\ call[t].pc = "write" => 3 * Apart <= n
           /\ call[t].pc = "error" => 2 * Apart <= n
<1>1. since + Spent(call[t].pc) <= n BY DEF Within
<1> QED BY <1>1, SpentIs, Times

-----------------------------------------------------------------------------
(***************************************************************************)
(* A clock of the bus.                                                     *)
(***************************************************************************)
LEMMA QueueIs ==
    ASSUME TypeOK
    PROVE  /\ toBus \in Queue(Requests) /\ fromBus \in Queue(Words)
           /\ toBus # <<>> =>
                Head(toBus).age \in 0..Latency /\ Head(toBus).item \in Requests
           /\ fromBus # <<>> => Head(fromBus).age \in 0..Latency
<1>1. toBus \in Queue(Requests) /\ fromBus \in Queue(Words) BY DEF TypeOK
<1> QED BY <1>1, TailIs DEF Entry

\* The four ways in which the state of the bridge goes on
Waits == prs = "wb_idle" /\ ~Visible(toBus)
Takes == prs = "wb_idle" /\ Visible(toBus)
Works == prs = "wb_start" /\ ~Acknowledged /\ ~Failed
Ends  == prs = "wb_start" /\ (Acknowledged \/ Failed)

LEMMA TickIs ==
    ASSUME TypeOK, QueuedInv, Tick
    PROVE  /\ Waits \/ Takes \/ Works \/ Ends
           /\ Waits => /\ toBus' = Aged(toBus) /\ fromBus' = Aged(fromBus)
                       /\ UNCHANGED <<prs, current>>
           /\ Takes => /\ toBus # <<>> /\ Head(toBus).age = Latency /\ toBus' = <<>>
                       /\ fromBus' = Aged(fromBus)
                       /\ prs' = "wb_start" /\ current' = Head(toBus).item
           /\ Works => /\ toBus' = Aged(toBus) /\ fromBus' = Aged(fromBus)
                       /\ UNCHANGED <<prs, current>>
           /\ Ends => /\ toBus' = Aged(toBus) /\ prs' = "wb_idle" /\ UNCHANGED current
                      /\ fromBus' = IF Answers THEN Push(Aged(fromBus), dout)
                                    ELSE Aged(fromBus)
<1>1. prs \in {"wb_idle", "wb_start"} BY DEF TypeOK
<1>2. Visible(toBus) => toBus # <<>> /\ Head(toBus).age = Latency BY DEF Visible
<1>3. ASSUME Visible(toBus) PROVE Aged(Tail(toBus)) = <<>>
    <2>1. toBus # <<>> /\ Len(toBus) <= 1 BY <1>2, <1>3 DEF QueuedInv
    <2>2. Tail(toBus) = <<>> BY <2>1, QueueIs, TailIs
    <2> QED BY <2>2, EmptyQueue, AgedIs
<1>4. WbIdle \/ WbStart BY DEF Tick
<1> QED BY <1>1, <1>2, <1>3, <1>4
        DEF Waits, Takes, Works, Ends, WbIdle, WbStart, Answers, Acknowledged

LEMMA WiresAre ==
    ASSUME Tick
    PROVE  /\ ack' = stb_p1 /\ stb_p1' = (prs = "wb_start" /\ Hits)
           /\ err' = (prs = "wb_start" /\ ~Hits)
           /\ dout' = (IF prs = "wb_start" /\ Hits THEN current.adr ELSE dout)
           /\ master' = Failed
           /\ error' = IF master THEN TRUE ELSE IF Visible(toBus) THEN FALSE ELSE error
           /\ UNCHANGED <<control, data, call, outcome, torn>>
BY DEF Tick, Slaves, Monitor, Stb, host

\* The queue as the clock leaves it when no request is taken
LEMMA QueueTick ==
    ASSUME TypeOK, toBus' = Aged(toBus)
    PROVE  /\ Len(toBus') = Len(toBus) /\ (toBus' = <<>> <=> toBus = <<>>)
           /\ toBus # <<>> =>
                /\ Head(toBus').item = Head(toBus).item
                /\ Head(toBus').age = IF Head(toBus).age < Latency THEN Head(toBus).age + 1
                                      ELSE Head(toBus).age
BY QueueIs, AgedIs

LEMMA QueuedTick ==
    ASSUME BridgeInv, Alone, Tick
    PROVE  QueuedInv'
<1>1. TypeOK /\ QueuedInv BY DEF BridgeInv
<1>2. toBus = <<>> => Len(toBus) = 0 OBVIOUS
<1>3. CASE Takes BY <1>1, <1>3, TickIs DEF QueuedInv
<1>4. CASE toBus' = Aged(toBus)
    <2>1. Len(toBus') <= 1 BY <1>1, <1>4, QueueTick DEF QueuedInv
    <2>2. ASSUME toBus' # <<>>
          PROVE  /\ prs' = "wb_idle" /\ ~stb_p1' /\ ~ack' /\ ~err' /\ ~master'
                 /\ Within(Head(toBus).age)
        <3>1. toBus # <<>> BY <1>1, <1>4, <2>2, QueueTick
        <3>2. /\ prs = "wb_idle" /\ ~stb_p1 /\ ~ack /\ ~err /\ ~master
              /\ Within(Head(toBus).age)
            BY <1>1, <3>1 DEF QueuedInv
        <3>3. prs' = "wb_idle" BY <1>1, <1>4, <2>2, <3>2, TickIs DEF Waits, Takes, Works, Ends
        <3>4. ~stb_p1' /\ ~err' /\ ~master' BY <3>2, WiresAre DEF Failed, Stb
        <3>5. ~ack' BY <3>2, WiresAre
        <3> QED BY <3>2, <3>3, <3>4, <3>5
    <2>3. ASSUME toBus' # <<>> PROVE Within(Head(toBus).age)'
        <3>1. toBus # <<>> BY <1>1, <1>4, <2>3, QueueTick
        <3>2. Within(Head(toBus).age) /\ Head(toBus).age \in 0..Latency
            BY <1>1, <2>2, <2>3, <3>1, QueueIs
        <3>3. prs = "wb_idle" BY <1>1, <3>1 DEF QueuedInv
        <3>4. Head(toBus).age # Latency
            <4>1. SUFFICES ASSUME Head(toBus).age = Latency PROVE FALSE OBVIOUS
            <4>2. Takes BY <3>1, <3>3, <4>1 DEF Takes, Visible
            <4> QED BY <1>1, <2>3, <4>2, TickIs
        <3>5. Head(toBus').age = Head(toBus).age + 1
            BY <1>1, <1>4, <3>1, <3>2, <3>4, QueueTick, Times
        <3>6. Head(toBus).age \in Int BY <3>2, Times
        <3>7. \A t \in Tools : since' + Spent(call'[t].pc) <= Head(toBus).age + 1
            BY <1>1, <3>2, <3>6, SinceTick
        <3> QED BY <3>5, <3>7 DEF Within
    <2> QED BY <2>1, <2>2, <2>3 DEF QueuedInv
<1> QED BY <1>1, <1>3, <1>4, TickIs

LEMMA StartTick ==
    ASSUME BridgeInv, Alone, Tick
    PROVE  StartInv'
<1>1. TypeOK /\ QueuedInv /\ StartInv BY DEF BridgeInv
<1>2. CASE Takes
    <2>1. /\ toBus # <<>> /\ Head(toBus).age = Latency /\ prs = "wb_idle" /\ Visible(toBus)
        BY <1>1, <1>2, TickIs DEF Takes
    <2>2. /\ ~stb_p1 /\ ~ack /\ ~err /\ ~master /\ Within(Latency)
        BY <1>1, <2>1 DEF QueuedInv
    <2>3. ~stb_p1' /\ ~err' /\ ~master' BY <2>1, WiresAre DEF Failed, Stb
    <2>4. ~ack' /\ ~error' BY <2>1, <2>2, WiresAre
    <2>5. Within(Latency + 1)' BY <1>1, <2>2, WithinTick, Times
    <2>6. Within(Latency + 2)' /\ Within(Latency + 3)'
        BY <1>1, <2>2, WithinLonger, Times
    <2> QED BY <2>3, <2>4, <2>5, <2>6 DEF StartInv
<1>3. CASE Works
    <2>1. UNCHANGED <<prs, current>> /\ prs = "wb_start" BY <1>1, <1>3, TickIs DEF Works
    <2>2. Hits' <=> Hits BY <2>1 DEF Hits
    <2>3. ~error /\ ~master BY <1>1, <2>1 DEF StartInv
    <2>4. ~master' BY <1>3, WiresAre DEF Works
    <2>5. ~error' BY <2>3, WiresAre
    <2>6. CASE Hits
        <3>1. /\ ~err /\ (ack => stb_p1) /\ (~ack => Within(Latency + 2))
              /\ (~stb_p1 => Within(Latency + 1))
            BY <1>1, <2>1, <2>6 DEF StartInv
        <3>2. ~ack BY <1>3, <2>1, <2>6 DEF Works, Acknowledged, Stb
        <3>3. ~err' /\ stb_p1' BY <2>1, <2>6, WiresAre
        <3>4. ack' = stb_p1 BY WiresAre
        <3>5. dout' = current.adr BY <2>1, <2>6, WiresAre
        <3>6. Within(Latency + 3)' BY <1>1, <3>1, <3>2, WithinLonger, Times
        <3>7. ~ack' => Within(Latency + 2)'
            <4>1. ~ack' => Within(Latency + 1) BY <3>1, <3>4
            <4> QED BY <1>1, <4>1, WithinLonger, Times
        <3> QED BY <2>1, <2>2, <2>4, <2>5, <2>6, <3>3, <3>5, <3>6, <3>7 DEF StartInv
    <2>7. CASE ~Hits
        <3>1. ~stb_p1 /\ ~ack /\ (~err => Within(Latency + 1))
            BY <1>1, <2>1, <2>7 DEF StartInv
        <3>2. ~err BY <1>3, <2>1, <2>7 DEF Works, Failed, Stb
        <3>3. err' /\ ~stb_p1' BY <2>1, <2>7, WiresAre
        <3>4. ~ack' BY <3>1, WiresAre
        <3>5. Within(Latency + 2)' BY <1>1, <3>1, <3>2, WithinLonger, Times
        <3> QED BY <2>2, <2>4, <2>5, <2>7, <3>3, <3>4, <3>5 DEF StartInv
    <2> QED BY <2>6, <2>7
<1>4. CASE Waits \/ Ends BY <1>1, <1>4, TickIs DEF StartInv, Waits, Ends
<1> QED BY <1>1, <1>2, <1>3, <1>4, TickIs

LEMMA IdleTick ==
    ASSUME BridgeInv, Alone, Tick
    PROVE  IdleInv'
<1>1. TypeOK /\ QueuedInv /\ StartInv /\ IdleInv BY DEF BridgeInv
<1>2. CASE Waits
    <2>1. prs = "wb_idle" BY <1>2 DEF Waits
    <2>2. ~stb_p1' /\ ~err' /\ ~master' BY <2>1, WiresAre DEF Failed, Stb
    <2>3. ack' => Within(Latency + 4) BY <1>1, <2>1, WiresAre DEF IdleInv
    <2>4. ack' => Within(Latency + 5)' BY <1>1, <2>3, WithinLonger, Times
    <2> QED BY <2>2, <2>4 DEF IdleInv
<1>3. CASE Ends
    <2>1. prs = "wb_start" /\ (Acknowledged \/ Failed) BY <1>3 DEF Ends
    <2>2. CASE Hits
        <3>1. Within(Latency + 3) BY <1>1, <2>1, <2>2 DEF StartInv
        <3>2. Within(Latency + 4)' /\ Within(Latency + 5)'
            BY <1>1, <3>1, WithinLonger, Times
        <3>3. ~err' /\ ~master' BY <2>1, <2>2, WiresAre DEF Failed
        <3> QED BY <3>2, <3>3 DEF IdleInv
    <2>3. CASE ~Hits
        <3>1. Within(Latency + 2) /\ ~stb_p1 BY <1>1, <2>1, <2>3 DEF StartInv
        <3>2. Within(Latency + 3)' BY <1>1, <3>1, WithinLonger, Times
        <3>3. ~stb_p1' BY <2>3, WiresAre
        <3>4. ~ack' BY <3>1, WiresAre
        <3> QED BY <3>2, <3>3, <3>4 DEF IdleInv
    <2> QED BY <2>2, <2>3
<1>4. CASE Takes \/ Works BY <1>1, <1>4, TickIs DEF IdleInv, Takes, Works
<1> QED BY <1>1, <1>2, <1>3, <1>4, TickIs

LEMMA CallTick ==
    ASSUME BridgeInv, Alone, Tick
    PROVE  CallInv' /\ OwnOutcome'
<1>1. TypeOK /\ QueuedInv /\ CallInv /\ AnswerInv /\ OwnOutcome BY DEF BridgeInv
<1>2. UNCHANGED <<control, data, call, outcome, torn>> BY WiresAre
<1>3. OwnOutcome' BY <1>1, <1>2 DEF OwnOutcome
<1>4. ASSUME Visible(fromBus) PROVE Visible(fromBus)'
    <2>1. fromBus # <<>> /\ Head(fromBus).age = Latency BY <1>4 DEF Visible
    <2>2. prs = "wb_idle" BY <1>1, <2>1 DEF AnswerInv
    <2>3. fromBus' = Aged(fromBus) BY <1>1, <2>2, TickIs DEF Works, Ends
    <2>4. Aged(fromBus) # <<>> /\ Head(Aged(fromBus)).age = Latency
        BY <1>1, <2>1, QueueIs, AgedIs, Times
    <2> QED BY <2>3, <2>4 DEF Visible
<1>5. ASSUME NEW t \in Tools PROVE CallAt(t)'
    BY <1>1, <1>2, <1>4 DEF CallInv, CallAt, Asking
<1>6. ASSUME NEW t \in Tools PROVE TornAt(t)'
    <2>1. SUFFICES ASSUME t \in torn, Reading(t)
                   PROVE  toBus' = <<>> /\ fromBus' = <<>> /\ prs' = "wb_idle"
        BY <1>1, <1>2 DEF CallInv, TornAt, Reading
    <2>2. toBus = <<>> /\ fromBus = <<>> /\ prs = "wb_idle"
        BY <1>1, <2>1 DEF CallInv, TornAt
    <2>3. Waits BY <2>2 DEF Waits, Visible
    <2>4. toBus' = Aged(toBus) /\ fromBus' = Aged(fromBus) /\ prs' = prs
        BY <1>1, <2>3, TickIs
    <2> QED BY <1>1, <2>2, <2>4, QueueIs, AgedIs
<1> QED BY <1>1, <1>2, <1>3, <1>5, <1>6 DEF CallInv

LEMMA AnswerTick ==
    ASSUME BridgeInv, Alone, Tick
    PROVE  AnswerInv'
<1>1. TypeOK /\ QueuedInv /\ StartInv /\ AnswerInv BY DEF BridgeInv
<1>2. UNCHANGED call /\ \A t : (Waiting(t)' <=> Waiting(t)) /\ (Asking(t)' <=> Asking(t))
    BY WiresAre DEF Waiting, Asking
<1>3. ASSUME toBus' # <<>>
      PROVE  Head(toBus').item.write
             \/ \E t \in Tools : Waiting(t)' /\ Head(toBus').item = Read(call'[t].adr)
    <2>1. toBus' = Aged(toBus) BY <1>1, <1>3, TickIs
    <2>2. toBus # <<>> /\ Head(toBus').item = Head(toBus).item
        BY <1>1, <1>3, <2>1, QueueTick
    <2> QED BY <1>1, <1>2, <2>2 DEF AnswerInv
<1>4. ASSUME prs' = "wb_start"
      PROVE  current'.write
             \/ \E t \in Tools : Waiting(t)' /\ current' = Read(call'[t].adr)
    <2>1. CASE Takes
        <3>1. toBus # <<>> /\ current' = Head(toBus).item BY <1>1, <2>1, TickIs
        <3> QED BY <1>1, <1>2, <3>1 DEF AnswerInv
    <2>2. CASE Works
        <3>1. prs = "wb_start" /\ current' = current BY <1>1, <2>2, TickIs DEF Works
        <3> QED BY <1>1, <1>2, <3>1 DEF AnswerInv
    <2> QED BY <1>1, <1>4, <2>1, <2>2, TickIs DEF Waits
<1>5. ASSUME fromBus' # <<>>
      PROVE  /\ Len(fromBus') = 1 /\ toBus' = <<>> /\ prs' = "wb_idle"
             /\ Head(fromBus').item \in Mapped
             /\ \E t \in Tools : Asking(t)' /\ Head(fromBus').item = call'[t].adr
    <2>1. CASE fromBus # <<>>
        <3>1. /\ Len(fromBus) = 1 /\ toBus = <<>> /\ prs = "wb_idle"
              /\ Head(fromBus).item \in Mapped
              /\ \E t \in Tools : Asking(t) /\ Head(fromBus).item = call[t].adr
            BY <1>1, <2>1 DEF AnswerInv
        <3>2. Waits BY <3>1 DEF Waits, Visible
        <3>3. toBus' = Aged(toBus) /\ fromBus' = Aged(fromBus) /\ prs' = prs
            BY <1>1, <3>2, TickIs
        <3>4. toBus' = <<>> BY <1>1, <3>1, <3>3, QueueTick
        <3>5. Len(fromBus') = 1 /\ Head(fromBus').item = Head(fromBus).item
            BY <1>1, <2>1, <3>1, <3>3, QueueIs, AgedIs
        <3> QED BY <1>2, <3>1, <3>3, <3>4, <3>5
    <2>2. CASE fromBus = <<>>
        <3>1. Aged(fromBus) = <<>> BY <1>1, <2>2, QueueIs, AgedIs
        <3>2. Ends /\ Answers /\ fromBus' = Push(Aged(fromBus), dout)
            BY <1>1, <1>5, <3>1, TickIs
        <3>3. prs = "wb_start" /\ prs' = "wb_idle" /\ toBus' = Aged(toBus)
            BY <1>1, <3>2, TickIs DEF Ends
        <3>4. Hits /\ ack /\ ~current.write BY <3>2 DEF Answers, Acknowledged
        <3>5. dout = current.adr BY <1>1, <3>3, <3>4 DEF StartInv
        <3>6. dout \in Words BY <1>1 DEF TypeOK
        <3>7. Len(fromBus') = 1 /\ Head(fromBus').item = dout
            BY <1>1, <3>1, <3>2, <3>6, QueueIs, EmptyQueue, PushIs
        <3>8. toBus = <<>> BY <1>1, <3>3 DEF QueuedInv
        <3>9. toBus' = <<>> BY <1>1, <3>3, <3>8, QueueTick
        <3>10. PICK t \in Tools : Waiting(t) /\ current = Read(call[t].adr)
            BY <1>1, <3>3, <3>4 DEF AnswerInv
        <3>11. current.adr = call[t].adr BY <3>10 DEF Read
        <3>12. Asking(t) BY <3>10 DEF Asking, Waiting
        <3>13. dout \in Mapped BY <3>4, <3>5 DEF Hits
        <3> QED BY <1>2, <3>3, <3>5, <3>7, <3>9, <3>11, <3>12, <3>13
    <2> QED BY <2>1, <2>2
<1> QED BY <1>3, <1>4, <1>5 DEF AnswerInv

LEMMA OwnTick ==
    ASSUME BridgeInv, Alone, Tick
    PROVE  OwnInv'
<1>1. TypeOK /\ QueuedInv /\ StartInv /\ OwnInv BY DEF BridgeInv
<1> SUFFICES ASSUME NEW t \in Tools, Waiting(t)', t \notin torn'
               PROVE  OwnAt(t)' BY DEF OwnInv, OwnAt
<1>2. UNCHANGED call /\ Waiting(t) /\ t \notin torn /\ OwnAt(t)
    BY <1>1, WiresAre DEF Waiting, OwnInv
<1>3. ASSUME toBus' # <<>> PROVE Head(toBus').item = Read(call'[t].adr)
    <2>1. toBus' = Aged(toBus) BY <1>1, <1>3, TickIs
    <2>2. toBus # <<>> /\ Head(toBus').item = Head(toBus).item
        BY <1>1, <1>3, <2>1, QueueTick
    <2> QED BY <1>2, <2>2 DEF OwnAt
<1>4. ASSUME prs' = "wb_start" PROVE current' = Read(call'[t].adr)
    <2>1. CASE Takes
        <3>1. toBus # <<>> /\ current' = Head(toBus).item BY <1>1, <2>1, TickIs
        <3> QED BY <1>2, <3>1 DEF OwnAt
    <2>2. CASE Works
        <3>1. prs = "wb_start" /\ current' = current BY <1>1, <2>2, TickIs DEF Works
        <3> QED BY <1>2, <3>1 DEF OwnAt
    <2> QED BY <1>1, <1>4, <2>1, <2>2, TickIs DEF Waits
<1>5. ASSUME master' PROVE call'[t].adr \in Unmapped
    <2>1. prs = "wb_start" /\ ~Hits BY <1>5, WiresAre DEF Failed, Stb
    <2>2. current = Read(call[t].adr) BY <1>2, <2>1 DEF OwnAt
    <2>3. call[t].adr \notin Mapped BY <2>1, <2>2 DEF Hits, Read
    <2>4. call[t].adr \in Addresses BY <1>1 DEF TypeOK
    <2> QED BY <1>2, <2>3, <2>4 DEF Addresses
<1>6. ASSUME error', toBus' = <<>> PROVE call'[t].adr \in Unmapped
    <2>1. CASE master BY <1>2, <2>1 DEF OwnAt
    <2>2. CASE ~master
        <3>1. ~Visible(toBus) /\ error BY <1>6, <2>2, WiresAre
        <3>2. toBus' = Aged(toBus) BY <1>1, <3>1, TickIs DEF Takes
        <3>3. toBus = <<>> BY <1>1, <1>6, <3>2, QueueTick
        <3> QED BY <1>2, <3>1, <3>3 DEF OwnAt
    <2> QED BY <2>1, <2>2
<1> QED BY <1>3, <1>4, <1>5, <1>6 DEF OwnAt

LEMMA BridgeTick ==
    ASSUME BridgeInv, Alone, Tick
    PROVE  BridgeInv'
<1>1. TypeOK' BY TickType DEF BridgeInv
<1> QED BY <1>1, QueuedTick, StartTick, IdleTick, CallTick, AnswerTick, OwnTick DEF BridgeInv

-----------------------------------------------------------------------------
(***************************************************************************)
(* The other steps.                                                        *)
(***************************************************************************)

\* What the bus has to do with the calls, after a step that leaves it alone
LEMMA BusStays ==
    ASSUME QueuedInv, StartInv, IdleInv, UNCHANGED bus, UNCHANGED toBus,
           \A n \in Int : Within(n) => Within(n)',
           toBus # <<>> => Head(toBus).age \in Int
    PROVE  QueuedInv' /\ StartInv' /\ IdleInv'
<1>1. /\ Latency + 1 \in Int /\ Latency + 2 \in Int /\ Latency + 3 \in Int
      /\ Latency + 4 \in Int /\ Latency + 5 \in Int
    BY Times
<1>2. /\ UNCHANGED <<current, stb_p1, ack, err, dout, master, error, prs, toBus>>
      /\ Hits' <=> Hits
    BY DEF bus, Hits
<1>3. toBus # <<>> => (Within(Head(toBus).age) => Within(Head(toBus).age)')
    <2>1. ASSUME toBus # <<>>, Within(Head(toBus).age) PROVE Within(Head(toBus).age)'
        <3>1. PICK n \in Int : n = Head(toBus).age BY <2>1
        <3>2. Within(n) BY <2>1, <3>1 DEF Within
        <3>3. Within(n)' BY <3>2
        <3>4. Head(toBus').age = n BY <1>2, <3>1
        <3> QED BY <3>3, <3>4 DEF Within
    <2> QED BY <2>1
<1>4. QueuedInv' BY <1>2, <1>3 DEF QueuedInv
<1>5. StartInv' BY <1>1, <1>2 DEF StartInv
<1>6. IdleInv' BY <1>1, <1>2 DEF IdleInv
<1> QED BY <1>4, <1>5, <1>6

LEMMA BridgeStart ==
    ASSUME BridgeInv, Alone, NEW t \in Tools, Start(t)
    PROVE  BridgeInv'
<1>1. /\ TypeOK /\ CallInv /\ QueuedInv /\ StartInv /\ IdleInv
      /\ AnswerInv /\ OwnInv /\ OwnOutcome
    BY DEF BridgeInv
<1>2. TypeOK' BY <1>1, StartType
<1>3. /\ UNCHANGED <<bus, toBus, fromBus, since, control, data>>
      /\ call[t].pc = "idle" /\ \A u \in Tools \ {t} : call[u].pc = "idle"
    BY DEF Start, Free, Alone
<1>4. /\ call'[t].pc = "address" /\ outcome'[t] = NoOutcome
      /\ \A u \in Tools : u # t => call'[u] = call[u] /\ outcome'[u] = outcome[u]
      /\ torn' = torn \ {t}
    BY <1>1 DEF Start, TypeOK
<1>5. \A n \in Int : Within(n) => Within(n)'
    BY <1>3, <1>4, SpentIs DEF Within
<1>6. toBus # <<>> => Head(toBus).age \in Int BY <1>1, QueueIs, Times
<1>7. QueuedInv' /\ StartInv' /\ IdleInv' BY <1>1, <1>3, <1>5, <1>6, BusStays
<1>8. \A u \in Tools : ~Waiting(u) /\ ~Asking(u) /\ ~Waiting(u)' /\ ~Asking(u)'
    BY <1>3, <1>4 DEF Waiting, Asking
<1>9. CallInv'
    <2>1. \A u, v \in Tools : call'[u].pc # "idle" /\ call'[v].pc # "idle" => u = v
        BY <1>3, <1>4
    <2>2. \A u \in Tools : CallAt(u)'
        BY <1>3, <1>4, <1>8 DEF CallAt
    <2>3. \A u \in Tools : TornAt(u)'
        BY <1>3, <1>4 DEF TornAt, Reading
    <2> QED BY <2>1, <2>2, <2>3 DEF CallInv
<1>10. AnswerInv' BY <1>1, <1>3, <1>8 DEF AnswerInv, bus
<1>11. OwnInv' BY <1>8 DEF OwnInv, OwnAt
<1>12. OwnOutcome'
    <2>1. NoOutcome.result = "none" BY DEF NoOutcome
    <2> QED BY <1>1, <1>4, <2>1, OutcomeAssumption DEF OwnOutcome, Words
<1> QED BY <1>2, <1>7, <1>9, <1>10, <1>11, <1>12 DEF BridgeInv

LEMMA BridgeKill ==
    ASSUME BridgeInv, Alone, NEW t \in Tools, Kill(t)
    PROVE  BridgeInv'
<1>1. /\ TypeOK /\ CallInv /\ QueuedInv /\ StartInv /\ IdleInv
      /\ AnswerInv /\ OwnInv /\ OwnOutcome
    BY DEF BridgeInv
<1>2. TypeOK' BY <1>1, KillType
<1>3. /\ UNCHANGED <<bus, toBus, fromBus, since, control, data, outcome, torn>>
      /\ \/ ~Asking(t)
         \/ t \in torn /\ Reading(t)
    BY <1>1 DEF Kill, Alone, Asking, CallInv, TornAt
<1>4. call'[t].pc = "idle" /\ \A u \in Tools : u # t => call'[u] = call[u]
    BY <1>1 DEF Kill, Goto, TypeOK
<1>5. \A n \in Int : Within(n) => Within(n)'
    <2> SUFFICES ASSUME NEW n \in Int, Within(n), NEW u \in Tools
                 PROVE since + Spent(call'[u].pc) <= n
        BY <1>3 DEF Within
    <2>1. since + Spent(call[u].pc) <= n BY DEF Within
    <2>2. CASE u = t BY <1>1, <1>4, <2>1, <2>2, SpentIs, SinceNat
    <2>3. CASE u # t BY <1>4, <2>1, <2>3
    <2> QED BY <2>2, <2>3
<1>6. toBus # <<>> => Head(toBus).age \in Int BY <1>1, QueueIs, Times
<1>7. QueuedInv' /\ StartInv' /\ IdleInv' BY <1>1, <1>3, <1>5, <1>6, BusStays
<1>8. CallInv'
    <2>1. \A u, v \in Tools : call'[u].pc # "idle" /\ call'[v].pc # "idle" => u = v
        BY <1>1, <1>4 DEF CallInv
    <2>2. ASSUME NEW u \in Tools PROVE CallAt(u)' /\ TornAt(u)'
        <3>1. CallAt(u) /\ TornAt(u) BY <1>1 DEF CallInv
        <3>2. Visible(fromBus)' <=> Visible(fromBus) BY <1>3 DEF Visible
        <3>3. CASE u = t BY <1>4, <3>3 DEF CallAt, Asking, TornAt, Reading
        <3>4. CASE u # t
            <4>1. CallAt(u)' BY <1>3, <1>4, <3>1, <3>2, <3>4 DEF CallAt, Asking
            <4>2. TornAt(u)' BY <1>3, <1>4, <3>1, <3>4 DEF TornAt, Reading, bus
            <4> QED BY <4>1, <4>2
        <3> QED BY <3>3, <3>4
    <2> QED BY <2>1, <2>2 DEF CallInv
<1>9. AnswerInv' /\ OwnInv'
    <2>1. CASE ~Asking(t)
        <3>1. \A u \in Tools : Waiting(u) => Asking(u) BY DEF Waiting, Asking
        <3>2. \A u \in Tools : /\ Waiting(u)' <=> Waiting(u)
                               /\ Asking(u)' <=> Asking(u)
                               /\ Asking(u) => call'[u] = call[u]
            BY <1>4, <2>1 DEF Waiting, Asking
        <3>3. AnswerInv' BY <1>1, <1>3, <3>1, <3>2 DEF AnswerInv, bus
        <3>4. OwnInv' BY <1>1, <1>3, <3>1, <3>2 DEF OwnInv, OwnAt, bus
        <3> QED BY <3>3, <3>4
    <2>2. CASE t \in torn /\ Reading(t)
        <3>1. toBus = <<>> /\ fromBus = <<>> /\ prs = "wb_idle"
            BY <1>1, <2>2 DEF CallInv, TornAt
        <3>2. toBus' = <<>> /\ fromBus' = <<>> /\ prs' = "wb_idle" BY <1>3, <3>1 DEF bus
        <3>3. \A u \in Tools : ~Waiting(u)'
            <4>1. \A u \in Tools : u # t => call[u].pc = "idle"
                BY <1>1, <2>2 DEF CallInv, Reading
            <4> QED BY <1>4, <4>1 DEF Waiting
        <3> QED BY <3>2, <3>3 DEF AnswerInv, OwnInv, OwnAt
    <2> QED BY <1>3, <2>1, <2>2
<1>10. OwnOutcome' BY <1>1, <1>3 DEF OwnOutcome
<1> QED BY <1>2, <1>7, <1>8, <1>9, <1>10 DEF BridgeInv

\* A reset leaves nothing on the way, but the wires and the error flag of the
\* last request are still up for the clocks that they would have been.
LEMMA BridgeReset ==
    ASSUME BridgeInv, Alone, Mapped # {}, SoftReset
    PROVE  BridgeInv'
<1>1. TypeOK /\ CallInv /\ OwnOutcome /\ StartInv /\ IdleInv BY DEF BridgeInv
<1>2. TypeOK' BY <1>1, ResetType
<1>3. /\ toBus' = <<>> /\ fromBus' = <<>> /\ prs' = "wb_idle"
      /\ torn' = torn \cup {t \in Tools : Reading(t)}
      /\ UNCHANGED <<stb_p1, ack, err, master, error, since, control, call, outcome>>
    BY DEF SoftReset
<1>4. \A n : Within(n)' <=> Within(n) BY <1>3 DEF Within
<1>5. QueuedInv'
    <2>1. Len(<<>>) = 0 OBVIOUS
    <2> QED BY <1>3, <2>1 DEF QueuedInv
<1>6. StartInv' BY <1>3 DEF StartInv
<1>7. IdleInv'
    <2>1. CASE prs = "wb_idle" BY <1>1, <1>3, <1>4, <2>1 DEF IdleInv
    <2>2. CASE prs = "wb_start"
        <3>1. /\ stb_p1 => Within(Latency + 3)
              /\ ack => Within(Latency + 3)
              /\ err => Within(Latency + 2)
              /\ ~master
            BY <1>1, <2>2 DEF StartInv
        <3>2. Within(Latency + 3) => Within(Latency + 4) /\ Within(Latency + 5)
            BY <1>1, WithinLess, Times
        <3>3. Within(Latency + 2) => Within(Latency + 3) BY <1>1, WithinLess, Times
        <3> QED BY <1>3, <1>4, <3>1, <3>2, <3>3 DEF IdleInv
    <2> QED BY <1>1, <2>1, <2>2 DEF TypeOK
<1>8. CallInv'
    <2>1. ASSUME NEW t \in Tools PROVE CallAt(t)' /\ TornAt(t)'
        <3>1. CallAt(t) /\ TornAt(t) BY <1>1 DEF CallInv
        <3>2. Reading(t)' <=> Reading(t) BY <1>3 DEF Reading
        <3>3. t \notin torn' => t \notin torn /\ ~Reading(t) BY <1>3
        <3>4. CallAt(t)' BY <1>3, <3>1, <3>3 DEF CallAt, Asking, Reading
        <3>5. TornAt(t)' BY <1>3, <3>1, <3>2 DEF TornAt
        <3> QED BY <3>4, <3>5
    <2> QED BY <1>1, <1>3, <2>1 DEF CallInv
<1>9. AnswerInv' BY <1>3 DEF AnswerInv
<1>10. OwnInv'
    <2>1. \A t \in Tools : Waiting(t)' => t \in torn' BY <1>3 DEF Waiting, Reading
    <2> QED BY <2>1 DEF OwnInv, OwnAt
<1>11. OwnOutcome' BY <1>1, <1>3 DEF OwnOutcome
<1> QED BY <1>2, <1>5, <1>6, <1>7, <1>8, <1>9, <1>10, <1>11 DEF BridgeInv

-----------------------------------------------------------------------------
(***************************************************************************)
(* The accesses.                                                           *)
(***************************************************************************)
LEMMA StepIs ==
    ASSUME BridgeInv, NEW t \in Tools, Step(t)
    PROVE  /\ since = Apart /\ since' = 0 /\ UNCHANGED <<bus, torn>>
           /\ call[t].pc # "idle"
           /\ \A u \in Tools : u # t => call'[u] = call[u] /\ call[u].pc = "idle"
           /\ call'[t].adr = call[t].adr /\ call'[t].write = call[t].write
<1>1. call \in [Tools -> CallForm] /\ CallInv BY DEF BridgeInv, TypeOK, CallForm
<1>2. since = Apart /\ since' = 0 /\ UNCHANGED <<bus, torn>> /\ call[t].pc # "idle"
    BY DEF Step, Access, SetAddress, SetDirection, WriteData, GetEmpty, GetError,
           ReadTrigger, GetData, CheckWrite
<1>3. \A u \in Tools : u # t => call'[u] = call[u]
    BY <1>1 DEF Step, SetAddress, SetDirection, WriteData, GetEmpty, GetError,
           ReadTrigger, GetData, CheckWrite, Return, Goto
<1>4. \A u \in Tools : u # t => call[u].pc = "idle" BY <1>1, <1>2 DEF CallInv
<1>5. call'[t].adr = call[t].adr /\ call'[t].write = call[t].write
    BY <1>1 DEF Step, SetAddress, SetDirection, WriteData, GetEmpty, GetError,
           ReadTrigger, GetData, CheckWrite, Return, Goto, CallForm
<1> QED BY <1>2, <1>3, <1>4, <1>5

LEMMA TornStep ==
    ASSUME BridgeInv, NEW t \in Tools, Step(t)
    PROVE  TornAt(t)'
<1>1. TypeOK /\ TornAt(t) /\ UNCHANGED <<bus, torn>> /\ call[t].pc # "idle"
    BY StepIs DEF BridgeInv, CallInv
<1> SUFFICES ASSUME t \in torn PROVE TornAt(t)' BY <1>1 DEF TornAt
<1>2. Reading(t) /\ toBus = <<>> /\ fromBus = <<>> /\ prs = "wb_idle" BY <1>1 DEF TornAt
<1>3. GetEmpty(t) \/ GetError(t) \/ ReadTrigger(t) \/ GetData(t)
    BY <1>2 DEF Reading, Step, SetAddress, SetDirection, WriteData, CheckWrite, Access
<1>4. toBus' = <<>> /\ fromBus' = <<>>
    BY <1>2, <1>3 DEF GetEmpty, GetError, ReadTrigger, GetData, Visible
<1>5. call'[t].pc = "idle" \/ Reading(t)'
    BY <1>1, <1>3 DEF GetEmpty, GetError, ReadTrigger, GetData, Return, Goto, Reading, TypeOK
<1> QED BY <1>1, <1>2, <1>4, <1>5 DEF TornAt, bus

\* The part of CallInv, and of what the others have to do with the bus, that
\* holds after any access
LEMMA OthersIdle ==
    ASSUME BridgeInv, NEW t \in Tools, Step(t), CallAt(t)'
    PROVE  CallInv'
<1>1. \A u \in Tools : u # t => call'[u].pc = "idle" BY StepIs
<1>2. \A u, v \in Tools : call'[u].pc # "idle" /\ call'[v].pc # "idle" => u = v BY <1>1
<1>3. ASSUME NEW u \in Tools PROVE CallAt(u)' /\ TornAt(u)'
    <2>1. CASE u # t BY <1>1, <2>1 DEF CallAt, Asking, TornAt, Reading
    <2> QED BY <2>1, TornStep
<1> QED BY <1>2, <1>3 DEF CallInv

LEMMA StepBus ==
    ASSUME BridgeInv, NEW t \in Tools, Step(t), call[t].pc # "write"
    PROVE  /\ QueuedInv' /\ StartInv' /\ IdleInv' /\ UNCHANGED toBus
<1>1. TypeOK /\ QueuedInv /\ StartInv /\ IdleInv BY DEF BridgeInv
<1>2. UNCHANGED toBus
    BY DEF Step, Access, SetAddress, SetDirection, WriteData, GetEmpty, GetError,
           ReadTrigger, GetData, CheckWrite
<1>3. \A n \in Int : Within(n) => Within(n)' BY <1>1, WithinStep
<1>4. toBus # <<>> => Head(toBus).age \in Int BY <1>1, QueueIs, Times
<1> QED BY <1>1, <1>2, <1>3, <1>4, StepIs, BusStays

\* After a step of a tool that is not waiting, before or after
LEMMA QuietStep ==
    ASSUME BridgeInv, NEW t \in Tools, Step(t), call[t].pc # "write",
           ~Asking(t), ~Asking(t)', UNCHANGED fromBus, OwnOutcome', CallAt(t)', TypeOK'
    PROVE  BridgeInv'
<1>1. AnswerInv BY DEF BridgeInv
<1>2. /\ UNCHANGED bus /\ QueuedInv' /\ StartInv' /\ IdleInv' /\ UNCHANGED toBus
    BY StepIs, StepBus
<1>3. \A u \in Tools : ~Asking(u) /\ ~Waiting(u) /\ ~Waiting(u)'
    BY StepIs DEF Asking, Waiting
<1>4. AnswerInv' BY <1>1, <1>2, <1>3 DEF AnswerInv, bus
<1>5. OwnInv' BY <1>3 DEF OwnInv, OwnAt
<1> QED BY <1>2, <1>4, <1>5, OthersIdle DEF BridgeInv

LEMMA OutcomeStays == OwnOutcome /\ UNCHANGED <<outcome, torn>> => OwnOutcome'
BY DEF OwnOutcome

LEMMA BridgeSetUp ==
    ASSUME BridgeInv, NEW t \in Tools, SetAddress(t) \/ SetDirection(t), TypeOK'
    PROVE  BridgeInv'
<1>1. TypeOK /\ CallAt(t) /\ OwnOutcome /\ Step(t) BY DEF BridgeInv, CallInv, Step
<1>2. call[t].pc \in {"address", "direction"}
    BY DEF SetAddress, SetDirection, Access
<1>3. call \in [Tools -> CallForm] /\ control \in Requests BY <1>1 DEF TypeOK, CallForm
<1>4. OwnOutcome' /\ UNCHANGED fromBus
    BY <1>1, OutcomeStays, StepIs DEF SetAddress, SetDirection
<1>5. call'[t].pc \in {"direction", "write"}
    BY <1>3 DEF SetAddress, SetDirection, Goto, CallForm
<1>6. control'.adr = call[t].adr /\ (call'[t].pc = "write" => control'.write = call[t].write)
    <2>1. CASE SetAddress(t)
        <3>1. call'[t].pc = "direction" BY <1>3, <2>1 DEF SetAddress, Goto, CallForm
        <3>2. control'.adr = call[t].adr BY <1>3, <2>1 DEF SetAddress, Requests
        <3> QED BY <3>1, <3>2
    <2>2. CASE SetDirection(t)
        <3>1. control.adr = call[t].adr BY <1>1, <2>2 DEF SetDirection, Access, CallAt
        <3>2. control'.adr = control.adr /\ control'.write = call[t].write
            BY <1>3, <2>2 DEF SetDirection, Requests
        <3> QED BY <3>1, <3>2
    <2> QED BY <2>1, <2>2
<1>7. CallAt(t)' BY <1>1, <1>5, <1>6, StepIs DEF CallAt, Asking
<1>8. ~Asking(t) /\ ~Asking(t)' /\ call[t].pc # "write" BY <1>2, <1>5 DEF Asking
<1> QED BY <1>1, <1>4, <1>7, <1>8, QuietStep

LEMMA BridgeReturn ==
    ASSUME BridgeInv, NEW t \in Tools, GetData(t) \/ CheckWrite(t), TypeOK'
    PROVE  BridgeInv'
<1>1. TypeOK /\ CallAt(t) /\ OwnOutcome /\ Step(t) BY DEF BridgeInv, CallInv, Step
<1>2. call[t].pc \in {"get", "check"} BY DEF GetData, CheckWrite, Access
<1>3. call \in [Tools -> CallForm] /\ outcome \in [Tools -> OutcomeForm] /\ data \in Words
    BY <1>1 DEF TypeOK, CallForm, OutcomeForm
<1>4. call'[t].pc = "idle" /\ UNCHANGED fromBus
    BY <1>3 DEF GetData, CheckWrite, Return, Goto, CallForm
<1>5. ~Asking(t) /\ ~Asking(t)' /\ CallAt(t)' /\ call[t].pc # "write"
    BY <1>2, <1>4 DEF Asking, CallAt
<1>6. \A u \in Tools : u # t => outcome'[u] = outcome[u]
    BY <1>3 DEF GetData, CheckWrite, Return
<1>7. /\ outcome'[t].adr = call[t].adr /\ outcome'[t].write = call[t].write
      /\ call[t].pc = "get" => outcome'[t].result = data
      /\ torn' = torn
      /\ call[t].pc = "check" => outcome'[t].result \in {"ok", "error"}
    BY <1>1, <1>3, StepIs DEF GetData, CheckWrite, Return, Access
<1>8. /\ call[t].pc = "get" /\ t \notin torn => data = call[t].adr
      /\ call[t].pc = "check" => call[t].write
    BY <1>1 DEF CallAt
<1>9. OwnOutcome'
    <2> SUFFICES ASSUME NEW u \in Tools \ torn'
                 PROVE  /\ outcome'[u].result \in Words => outcome'[u].result = outcome'[u].adr
                        /\ outcome'[u].result = "error" /\ ~outcome'[u].write =>
                             outcome'[u].adr \in Unmapped
        BY DEF OwnOutcome
    <2>1. CASE u # t BY <1>1, <1>6, <1>7, <2>1 DEF OwnOutcome
    <2>2. CASE u = t /\ call[t].pc = "get"
        BY <1>3, <1>7, <1>8, <2>2, OutcomeAssumption DEF Words
    <2>3. CASE u = t /\ call[t].pc = "check"
        BY <1>7, <1>8, <2>3, OutcomeAssumption DEF Words
    <2> QED BY <1>2, <2>1, <2>2, <2>3
<1> QED BY <1>1, <1>4, <1>5, <1>9, QuietStep

LEMMA BridgePoll ==
    ASSUME BridgeInv, NEW t \in Tools, GetEmpty(t), TypeOK'
    PROVE  BridgeInv'
<1>1. TypeOK /\ CallAt(t) /\ OwnOutcome /\ AnswerInv /\ OwnInv /\ Step(t)
    BY DEF BridgeInv, CallInv, Step
<1>2. call[t].pc = "empty" BY DEF GetEmpty, Access
<1>3. call \in [Tools -> CallForm] BY <1>1 DEF TypeOK, CallForm
<1>4. /\ call'[t].pc = "error" /\ call'[t].empty = ~Visible(fromBus)
      /\ UNCHANGED <<fromBus, outcome, torn>>
    BY <1>1, <1>3, StepIs DEF GetEmpty, CallForm
<1>5. CallAt(t)'
    <2>1. ~call'[t].empty => Visible(fromBus)' BY <1>4 DEF Visible
    <2> QED BY <1>1, <1>2, <1>4, <2>1, StepIs DEF CallAt, Asking
<1>6. /\ UNCHANGED bus /\ QueuedInv' /\ StartInv' /\ IdleInv' /\ UNCHANGED toBus
    BY <1>1, <1>2, StepIs, StepBus
<1>7. \A u \in Tools : /\ Asking(u)' <=> Asking(u)
                       /\ Waiting(u)' <=> Waiting(u)
                       /\ call'[u].adr = call[u].adr
    BY <1>2, <1>4, <1>1, StepIs DEF Asking, Waiting
<1>8. AnswerInv' BY <1>1, <1>4, <1>6, <1>7 DEF AnswerInv, bus
<1>9. OwnInv' BY <1>1, <1>4, <1>6, <1>7 DEF OwnInv, OwnAt, bus
<1>10. OwnOutcome' BY <1>1, <1>4, OutcomeStays
<1> QED BY <1>1, <1>5, <1>6, <1>8, <1>9, <1>10, OthersIdle DEF BridgeInv

LEMMA BridgeError ==
    ASSUME BridgeInv, Alone, NEW t \in Tools, GetError(t), TypeOK'
    PROVE  BridgeInv'
<1>1. /\ TypeOK /\ CallAt(t) /\ OwnOutcome /\ AnswerInv /\ OwnInv /\ QueuedInv /\ StartInv
      /\ Step(t)
    BY DEF BridgeInv, CallInv, Step
<1>2. call[t].pc = "error" /\ since = Apart BY DEF GetError, Access
<1>3. call \in [Tools -> CallForm] /\ outcome \in [Tools -> OutcomeForm]
    BY <1>1 DEF TypeOK, CallForm, OutcomeForm
<1>4. UNCHANGED <<fromBus, torn>> BY <1>1, StepIs DEF GetError
<1>5. /\ UNCHANGED bus /\ QueuedInv' /\ StartInv' /\ IdleInv' /\ UNCHANGED toBus
    BY <1>1, <1>2, StepIs, StepBus
<1>6. Asking(t) /\ Waiting(t) /\ OwnAt(t) BY <1>1, <1>2 DEF Asking, Waiting, OwnInv
<1>7. \A u \in Tools : u # t =>
        ~Asking(u) /\ ~Waiting(u) /\ ~Asking(u)' /\ ~Waiting(u)'
    BY <1>1, StepIs DEF Asking, Waiting
<1>8. toBus = <<>>
    <2>1. SUFFICES ASSUME toBus # <<>> PROVE FALSE OBVIOUS
    <2>2. Within(Head(toBus).age) /\ Head(toBus).age \in 0..Latency
        BY <1>1, <2>1, QueueIs DEF QueuedInv
    <2>3. 2 * Apart <= Head(toBus).age BY <1>1, <1>2, <2>2, WithinCall, Times
    <2> QED BY <2>2, <2>3, Times DEF Alone
<1>9. TornAt(t) /\ Reading(t) BY <1>1, <1>2 DEF Reading, BridgeInv, CallInv
<1>10. CASE error
    <2>1. call'[t].pc = "idle" /\ (t \notin torn => call[t].adr \in Unmapped)
        <3>1. call'[t].pc = "idle" BY <1>3, <1>10 DEF GetError, Return, Goto, CallForm
        <3> QED BY <1>6, <1>8, <1>10, <3>1 DEF OwnAt
    <2>2. prs = "wb_idle" BY <1>1, <1>10 DEF StartInv, TypeOK
    <2>3. fromBus = <<>>
        <3>1. SUFFICES ASSUME fromBus # <<>>, t \notin torn PROVE FALSE
            BY <1>9 DEF TornAt
        <3>2. PICK u \in Tools : Asking(u) /\ Head(fromBus).item = call[u].adr
            BY <1>1, <3>1 DEF AnswerInv
        <3>3. Head(fromBus).item \in Mapped BY <1>1, <3>1 DEF AnswerInv
        <3>4. u = t BY <1>7, <3>2
        <3>5. call[t].adr \in Unmapped BY <2>1, <3>1
        <3> QED BY <3>2, <3>3, <3>4, <3>5, AddressAssumption
    <2>4. \A u \in Tools : ~Waiting(u)' BY <1>7, <2>1 DEF Waiting
    <2>5. prs' = "wb_idle" BY <1>5, <2>2 DEF bus
    <2>6. AnswerInv' BY <1>4, <1>5, <1>8, <2>3, <2>5 DEF AnswerInv
    <2>7. OwnInv' BY <2>4 DEF OwnInv, OwnAt
    <2>8. CallAt(t)' BY <2>1 DEF CallAt, Asking
    <2>9. OwnOutcome'
        <3>1. \A u \in Tools : u # t => outcome'[u] = outcome[u]
            BY <1>3, <1>10 DEF GetError, Return
        <3>2. outcome'[t].adr = call[t].adr /\ outcome'[t].result = "error"
            BY <1>3, <1>10 DEF GetError, Return
        <3> QED BY <1>1, <1>4, <2>1, <3>1, <3>2, OutcomeAssumption DEF OwnOutcome, Words
    <2> QED BY <1>1, <1>5, <2>6, <2>7, <2>8, <2>9, OthersIdle DEF BridgeInv
<1>11. CASE ~error
    <2>1. call'[t].pc = (IF call[t].empty THEN "empty" ELSE "pop") /\ UNCHANGED outcome
        BY <1>3, <1>11 DEF GetError, Goto, CallForm
    <2>2. Asking(t)' /\ (Waiting(t)' => call[t].empty) BY <2>1 DEF Asking, Waiting
    <2>3. OwnOutcome' BY <1>1, <1>4, <2>1, OutcomeStays
    <2>4. ~call[t].empty /\ t \notin torn => Visible(fromBus) BY <1>1, <1>2 DEF CallAt
    <2>5. CallAt(t)'
        <3>1. Visible(fromBus)' <=> Visible(fromBus) BY <1>4 DEF Visible
        <3> QED BY <1>1, <1>2, <1>4, <2>1, <2>4, <3>1, StepIs DEF CallAt, Asking
    <2>6. ~call[t].empty => prs = "wb_idle" BY <1>1, <1>9, <2>4 DEF Visible, AnswerInv, TornAt
    <2>7. AnswerInv'
        <3>1. \A u \in Tools : Asking(u)' <=> Asking(u) BY <1>6, <1>7, <2>2
        <3>2. \A u \in Tools : call'[u].adr = call[u].adr BY <1>1, StepIs
        <3>3. call[t].empty => \A u \in Tools : Waiting(u)' <=> Waiting(u)
            BY <1>6, <1>7, <2>1 DEF Waiting
        <3>4. /\ UNCHANGED <<prs, current, toBus, fromBus>> BY <1>4, <1>5 DEF bus
        <3> QED BY <1>1, <1>8, <2>6, <3>1, <3>2, <3>3, <3>4 DEF AnswerInv
    <2>8. OwnInv'
        <3>1. \A u \in Tools : Waiting(u)' => u = t BY <1>7
        <3>2. OwnAt(t)' BY <1>1, <1>4, <1>5, <1>6, StepIs DEF OwnAt, bus
        <3> QED BY <3>1, <3>2 DEF OwnInv, OwnAt
    <2> QED BY <1>1, <1>5, <2>3, <2>5, <2>7, <2>8, OthersIdle DEF BridgeInv
<1> QED BY <1>10, <1>11

LEMMA BridgePop ==
    ASSUME BridgeInv, NEW t \in Tools, ReadTrigger(t), TypeOK'
    PROVE  BridgeInv'
<1>1. /\ TypeOK /\ CallAt(t) /\ TornAt(t) /\ OwnOutcome /\ AnswerInv /\ OwnInv /\ Step(t)
    BY DEF BridgeInv, CallInv, Step
<1>2. call[t].pc = "pop" BY DEF ReadTrigger, Access
<1>3. call \in [Tools -> CallForm] BY <1>1 DEF TypeOK, CallForm
<1>4. call'[t].pc = "get" /\ UNCHANGED <<outcome, torn>>
    BY <1>1, <1>3, StepIs DEF ReadTrigger, Goto
<1>5. /\ UNCHANGED bus /\ QueuedInv' /\ StartInv' /\ IdleInv' /\ UNCHANGED toBus
    BY <1>1, <1>2, StepIs, StepBus
<1>6. toBus = <<>> /\ prs = "wb_idle" /\ fromBus' = <<>> /\ CallAt(t)'
    <2>1. CASE t \in torn
        <3>1. toBus = <<>> /\ prs = "wb_idle" /\ fromBus = <<>>
            BY <1>1, <1>2, <2>1 DEF TornAt, Reading
        <3>2. fromBus' = <<>> BY <3>1 DEF ReadTrigger, Visible
        <3>3. CallAt(t)' BY <1>1, <1>2, <1>4, <2>1, StepIs DEF CallAt, Asking
        <3> QED BY <3>1, <3>2, <3>3
    <2>2. CASE t \notin torn
        <3>1. Visible(fromBus) /\ fromBus # <<>> BY <1>1, <1>2, <2>2 DEF CallAt, Visible
        <3>2. data' = Head(fromBus).item /\ fromBus' = Tail(fromBus)
            BY <3>1 DEF ReadTrigger
        <3>3. /\ Len(fromBus) = 1 /\ toBus = <<>> /\ prs = "wb_idle"
            BY <1>1, <3>1 DEF AnswerInv
        <3>4. PICK u \in Tools : Asking(u) /\ Head(fromBus).item = call[u].adr
            BY <1>1, <3>1 DEF AnswerInv
        <3>5. u = t BY <1>1, <3>4, StepIs DEF Asking
        <3>6. fromBus' = <<>> BY <1>1, <3>1, <3>2, <3>3, QueueIs, TailIs
        <3>7. CallAt(t)' BY <1>1, <1>2, <1>4, <3>2, <3>4, <3>5, StepIs DEF CallAt, Asking
        <3> QED BY <3>3, <3>6, <3>7
    <2> QED BY <2>1, <2>2
<1>7. AnswerInv' BY <1>5, <1>6 DEF AnswerInv, bus
<1>8. OwnInv'
    <2>1. \A v \in Tools : ~Waiting(v)' BY <1>1, <1>4, StepIs DEF Waiting
    <2> QED BY <2>1 DEF OwnInv, OwnAt
<1>9. OwnOutcome' BY <1>1, <1>4, OutcomeStays
<1> QED BY <1>1, <1>5, <1>6, <1>7, <1>8, <1>9, OthersIdle DEF BridgeInv

\* When a request is pushed, the bus has come to rest.
LEMMA AtRest ==
    ASSUME BridgeInv, Alone, NEW t \in Tools, WriteData(t)
    PROVE  /\ toBus = <<>> /\ fromBus = <<>> /\ prs = "wb_idle"
           /\ ~stb_p1 /\ ~ack /\ ~err /\ ~master
<1>1. TypeOK /\ QueuedInv /\ StartInv /\ IdleInv /\ AnswerInv /\ Step(t)
    BY DEF BridgeInv, Step
<1>2. call[t].pc = "write" /\ since = Apart BY DEF WriteData, Access
<1>3. ASSUME NEW n \in Int, n <= Latency + 5, Within(n) PROVE FALSE
    <2>1. 3 * Apart <= n BY <1>1, <1>2, <1>3, WithinCall
    <2> QED BY <1>3, <2>1, Times DEF Alone
<1>4. toBus = <<>>
    <2>1. toBus # <<>> => Head(toBus).age \in 0..Latency BY <1>1, QueueIs
    <2>2. toBus # <<>> => Head(toBus).age \in Int /\ Head(toBus).age <= Latency + 5
        BY <2>1, Times
    <2> QED BY <1>1, <1>3, <2>2 DEF QueuedInv
<1>5. /\ \A k \in 1..5 : ~Within(Latency + k) BY <1>3, Times
<1>6. prs = "wb_idle"
    <2>1. ~Within(Latency + 3) /\ ~Within(Latency + 2) BY <1>5
    <2> QED BY <1>1, <2>1 DEF StartInv, TypeOK
<1>7. ~stb_p1 /\ ~ack /\ ~err /\ ~master
    <2>1. ~Within(Latency + 3) /\ ~Within(Latency + 4) /\ ~Within(Latency + 5) BY <1>5
    <2> QED BY <1>1, <1>6, <2>1 DEF IdleInv
<1>8. fromBus = <<>>
    <2>1. \A u \in Tools : ~Asking(u) BY <1>1, <1>2, StepIs DEF Asking
    <2> QED BY <1>1, <2>1 DEF AnswerInv
<1> QED BY <1>4, <1>6, <1>7, <1>8

LEMMA BridgePush ==
    ASSUME BridgeInv, Alone, NEW t \in Tools, WriteData(t), TypeOK'
    PROVE  BridgeInv'
<1>1. /\ TypeOK /\ CallAt(t) /\ OwnOutcome /\ Step(t) BY DEF BridgeInv, CallInv, Step
<1>2. call[t].pc = "write" BY DEF WriteData, Access
<1>3. call \in [Tools -> CallForm] /\ control \in Requests BY <1>1 DEF TypeOK, CallForm
<1>4. /\ call'[t].pc = (IF call[t].write THEN "check" ELSE "empty")
      /\ toBus' = Push(toBus, control) /\ UNCHANGED <<fromBus, outcome, torn>>
    BY <1>1, <1>3, StepIs DEF WriteData, Goto
<1>5. /\ toBus = <<>> /\ fromBus = <<>> /\ prs = "wb_idle"
      /\ ~stb_p1 /\ ~ack /\ ~err /\ ~master
    BY AtRest
<1>6. UNCHANGED <<bus, torn>> /\ since' = 0 /\ \A u \in Tools : u # t => call'[u].pc = "idle"
    BY <1>1, StepIs
<1>7. toBus' # <<>> /\ Len(toBus') = 1 /\ Head(toBus').item = control /\ Head(toBus').age = 0
    BY <1>1, <1>3, <1>4, <1>5, QueueIs, PushIs
<1>8. /\ prs' = "wb_idle" /\ ~stb_p1' /\ ~ack' /\ ~err' /\ ~master' BY <1>5, <1>6 DEF bus
<1>9. QueuedInv'
    <2>1. \A u \in Tools : since' + Spent(call'[u].pc) <= 0 BY <1>4, <1>6, SpentIs
    <2> QED BY <1>7, <1>8, <2>1 DEF QueuedInv, Within
<1>10. StartInv' BY <1>8 DEF StartInv
<1>11. IdleInv' BY <1>8 DEF IdleInv
<1>12. CallAt(t)' BY <1>1, <1>4, StepIs DEF CallAt, Asking
<1>13. control.adr = call[t].adr /\ control.write = call[t].write BY <1>1, <1>2 DEF CallAt
<1>14. ~call[t].write => control = Read(call[t].adr)
    <2>1. control = [adr |-> control.adr, write |-> control.write] BY <1>3 DEF Requests
    <2>2. call[t].write \in BOOLEAN BY <1>1 DEF TypeOK
    <2> QED BY <1>13, <2>1, <2>2 DEF Read
<1>15. call'[t].adr = call[t].adr BY <1>1, StepIs
<1>16. AnswerInv'
    <2>1. ~call[t].write => Waiting(t)' BY <1>4 DEF Waiting
    <2> QED BY <1>4, <1>5, <1>7, <1>8, <1>13, <1>14, <1>15, <2>1 DEF AnswerInv
<1>17. OwnInv'
    <2>1. \A u \in Tools : Waiting(u)' => u = t BY <1>6 DEF Waiting
    <2>2. OwnAt(t)'
        <3>1. Waiting(t)' => ~call[t].write BY <1>4 DEF Waiting
        <3> QED BY <1>7, <1>8, <1>14, <1>15, <3>1 DEF OwnAt
    <2> QED BY <2>1, <2>2 DEF OwnInv, OwnAt
<1>18. OwnOutcome' BY <1>1, <1>4, OutcomeStays
<1> QED BY <1>1, <1>9, <1>10, <1>11, <1>12, <1>16, <1>17, <1>18, OthersIdle DEF BridgeInv

LEMMA BridgeNext ==
    ASSUME Alone, Mapped # {}
    PROVE  BridgeInv /\ [Next]_vars => BridgeInv'
<1> SUFFICES ASSUME BridgeInv, [Next]_vars PROVE BridgeInv' OBVIOUS
<1>1. TypeOK' BY TypeNext DEF BridgeInv
<1>2. CASE UNCHANGED vars
    BY <1>2, <1>1 DEF BridgeInv, CallInv, CallAt, TornAt, Reading, Asking, Waiting, QueuedInv, StartInv,
        IdleInv, AnswerInv, OwnInv, OwnAt, OwnOutcome, Within, Hits, Visible, vars, bus, host
<1>3. ASSUME NEW t \in Tools, Step(t) PROVE BridgeInv'
    BY <1>1, <1>3, BridgeSetUp, BridgePush, BridgePoll, BridgeError, BridgePop, BridgeReturn
       DEF Step
<1> QED BY <1>2, <1>3, BridgeTick, BridgeReset, BridgeStart, BridgeKill DEF Next

LEMMA BridgeInit ==
    ASSUME Mapped # {}, Init
    PROVE  BridgeInv
<1>1. TypeOK BY TypeInit
<1>2. /\ \A t \in Tools : call[t].pc = "idle" /\ outcome[t] = NoOutcome
      /\ toBus = <<>> /\ fromBus = <<>> /\ prs = "wb_idle"
      /\ ~stb_p1 /\ ~ack /\ ~err /\ ~master /\ torn = {}
    BY DEF Init
<1>3. CallInv BY <1>2 DEF CallInv, CallAt, TornAt, Asking
<1>4. QueuedInv BY <1>2, EmptySeq DEF QueuedInv
<1>5. StartInv /\ IdleInv /\ AnswerInv BY <1>2 DEF StartInv, IdleInv, AnswerInv
<1>6. OwnInv BY <1>2 DEF OwnInv, OwnAt, Waiting
<1>7. OwnOutcome
    <2>1. NoOutcome.result = "none" BY DEF NoOutcome
    <2> QED BY <1>2, <2>1, OutcomeAssumption DEF OwnOutcome, Words
<1> QED BY <1>1, <1>3, <1>4, <1>5, <1>6, <1>7 DEF BridgeInv

(* When calls follow each other, and a call is not killed while its answer *)
(* is on the way, a read returns the word of its own address, or the bus   *)
(* error of its own request: for any number of tools and addresses, any    *)
(* depth of the queues, with kills between the calls and resets at any     *)
(* moment.  Only the read that a reset meets may return something else.    *)
THEOREM ReadsTheirOwn ==
    ASSUME Alone, Mapped # {}
    PROVE  Spec => []OwnOutcome
<1>1. BridgeInv => OwnOutcome BY DEF BridgeInv
<1> QED BY <1>1, BridgeInit, BridgeNext, PTL DEF Spec
=============================================================================
