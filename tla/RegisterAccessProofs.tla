------------------------ MODULE RegisterAccessProofs ------------------------
(***************************************************************************)
(* Proofs about a register access: its types, that the effects of two      *)
(* accesses are apart, and that the path implements a register file.       *)
(*                                                                         *)
(* The levels of an access are followed from register to register: they    *)
(* are set, or cleared, up to some place on the way (ReadUp, ReadDown,     *)
(* WriteUp, WriteDown), what goes with them is the request in hand         *)
(* (PassInv), and the state of the completer says which of them are where  *)
(* (StateInv).  The end of a reset has an order of its own (ResetInv).     *)
(***************************************************************************)
EXTENDS RegisterAccess, TLAPS

USE RatioAssumption, ValuesAssumption, ApartAssumption, FlagsAssumption, RequestsAssumption

\* What lies in the pipelines at first is a request, and the registers a table.
LEMMA ClearedForm ==
    ASSUME Lines # {}, Words # {}
    PROVE  Cleared \in AllRequests
<1> DEFINE aLine == CHOOSE l \in Lines : TRUE
           aWord == CHOOSE w \in Words : TRUE
<1>1. aLine \in Lines
  OBVIOUS
<1>2. aWord \in Words
  OBVIOUS
<1> HIDE DEF aLine, aWord
<1>3. Cleared = [kind |-> "read", line |-> aLine, word |-> aWord, value |-> Zero]
  BY DEF Cleared, aLine, aWord
<1> QED
  BY <1>1, <1>2, <1>3 DEF AllRequests

LEMMA StartForm == ZeroLine \in [Words -> Values] /\ Start \in [Lines -> [Words -> Values]]
  BY DEF ZeroLine, Start

LEMMA PairOf == ASSUME NEW S, NEW a \in S, NEW b \in S PROVE <<a, b>> \in Pair(S)
  BY DEF Pair

LEMMA TypeAtStart == ASSUME Lines # {}, Words # {}, Init PROVE TypeOK
<1>1. Cleared \in AllRequests
  BY ClearedForm
<1>2. ZeroLine \in [Words -> Values] /\ Start \in [Lines -> [Words -> Values]]
  BY StartForm
<1>3. Off \in Level
  BY DEF Off, Level
<1>4. Quiet \in Down
  BY <1>1, <1>3 DEF Quiet, Down
<1>5. /\ enable \in Pair(Level) /\ writeDone \in Pair(BOOLEAN)
      /\ readData \in Pair([Words -> Values])
  BY <1>2, <1>3 DEF Init, Pair
<1>9. reset \in Pair(BOOLEAN)
  <2>1. FALSE \in BOOLEAN
    OBVIOUS
  <2>2. <<FALSE, FALSE>> \in Pair(BOOLEAN)
    BY <2>1, PairOf
  <2> QED
    BY <2>2 DEF Init
<1>6. /\ readDone \in [1..4 -> BOOLEAN] /\ trigger \in [Lines -> BOOLEAN]
      /\ strobe \in [Lines -> 0..1]
      /\ answer \in [parity : 0..1, value : Values \cup {"none", "unsupported"}]
  BY DEF Init
<1>7. phase \in 0..(Ratio - 1) /\ since \in 0..Apart
  BY DEF Init
<1>10. /\ state \in States
       /\ tvalid \in BOOLEAN /\ tdata \in Values \cup {"unsupported"}
       /\ open \in Requests \cup {None}
  BY DEF Init, States
<1>8. /\ request \in AllRequests /\ target \in AllRequests
      /\ down1 \in Down /\ down2 \in Down /\ done25 \in Level
      /\ data25 \in [Words -> Values] /\ regs \in [Lines -> [Words -> Values]]
  BY <1>1, <1>2, <1>3, <1>4 DEF Init
<1> QED
  BY <1>5, <1>6, <1>7, <1>8, <1>9, <1>10 DEF TypeOK

\* A step of the completer leaves its registers well formed.
LEMMA TypeOfFast ==
    ASSUME TypeOK, NEW ready \in BOOLEAN,
           \/ \E r \in Requests : Accept(r)
           \/ Idle
           \/ ReadRegister(ready)
           \/ WriteRegisterRead
           \/ WriteRegisterModifyWrite(ready)
           \/ WaitRwDone
           \/ SendUnknownRequest(ready)
    PROVE  /\ state' \in States
           /\ request' \in AllRequests /\ target' \in AllRequests
           /\ enable' \in Pair(Level)
           /\ tvalid' \in BOOLEAN
           /\ tdata' \in Values \cup {"unsupported"}
<1> DEFINE Goal ==
        /\ state' \in States
        /\ request' \in AllRequests /\ target' \in AllRequests
        /\ enable' \in Pair(Level)
        /\ tvalid' \in BOOLEAN
        /\ tdata' \in Values \cup {"unsupported"}
<1> USE DEF TypeOK
<1>0. /\ ReadDone \in BOOLEAN /\ WriteDone \in BOOLEAN
      /\ enable[1] \in Level
      /\ request.word \in Words /\ readData[2][request.word] \in Values
  BY DEF ReadDone, WriteDone, Pair, AllRequests
<1>e. ASSUME NEW a \in BOOLEAN, NEW b \in BOOLEAN, Enable(a, b)
      PROVE  enable' \in Pair(Level)
  <2>1. [read |-> a, write |-> b] \in Level
    BY DEF Level
  <2> QED
    BY <1>0, <1>e, <2>1 DEF Enable, Pair
<1>1. ASSUME NEW r \in Requests, Accept(r) PROVE Goal
  <2>1. enable' \in Pair(Level)
    BY <1>1, <1>e DEF Accept
  <2> QED
    BY <1>1, <2>1 DEF Accept, States
<1>2. ASSUME Idle PROVE Goal
  <2>1. enable' \in Pair(Level)
    BY <1>2, <1>e DEF Idle
  <2> QED
    BY <1>2, <2>1 DEF Idle, States
<1>3. ASSUME ReadRegister(ready) PROVE Goal
  <2>1. enable' \in Pair(Level)
    BY <1>3, <1>e, <1>0 DEF ReadRegister
  <2> QED
    BY <1>0, <1>3, <2>1 DEF ReadRegister, States
<1>4. ASSUME WriteRegisterRead PROVE Goal
  <2>1. enable' \in Pair(Level)
    BY <1>4, <1>e, <1>0 DEF WriteRegisterRead
  <2> QED
    BY <1>4, <2>1 DEF WriteRegisterRead, States
<1>5. ASSUME WriteRegisterModifyWrite(ready) PROVE Goal
  <2>1. enable' \in Pair(Level)
    BY <1>5, <1>e DEF WriteRegisterModifyWrite
  <2> QED
    BY <1>5, <2>1 DEF WriteRegisterModifyWrite, States
<1>6. ASSUME WaitRwDone PROVE Goal
  <2>1. enable' \in Pair(Level)
    BY <1>6, <1>e DEF WaitRwDone
  <2> QED
    BY <1>6, <2>1 DEF WaitRwDone, States
<1>7. ASSUME SendUnknownRequest(ready) PROVE Goal
  <2>1. enable' \in Pair(Level)
    BY <1>7, <1>e DEF SendUnknownRequest
  <2> QED
    BY <1>7, <2>1 DEF SendUnknownRequest, States
<1> HIDE DEF TypeOK
<1>8. Goal
  BY <1>1, <1>2, <1>3, <1>4, <1>5, <1>6, <1>7
<1> QED
  BY <1>8

LEMMA TypeOfUp ==
    ASSUME TypeOK, RegSync250
    PROVE  /\ readDone' \in [1..4 -> BOOLEAN] /\ writeDone' \in Pair(BOOLEAN)
           /\ readData' \in Pair([Words -> Values])
<1>1. done25.read \in BOOLEAN /\ done25.write \in BOOLEAN
  BY DEF TypeOK, Level
<1>2. readDone' \in [1..4 -> BOOLEAN]
  BY <1>1 DEF TypeOK, RegSync250
<1>3. writeDone' \in Pair(BOOLEAN)
  BY <1>1 DEF TypeOK, RegSync250, Pair
<1>4. readData' \in Pair([Words -> Values])
  BY DEF TypeOK, RegSync250, Pair
<1> QED
  BY <1>2, <1>3, <1>4

\* An edge of the slow clock leaves its registers well formed, and so does
\* a fast clock without one.
LEMMA TypeOfSlow ==
    ASSUME TypeOK, Slow
    PROVE  /\ down1' \in Down /\ down2' \in Down
           /\ done25' \in Level
           /\ data25' \in [Words -> Values]
           /\ regs' \in [Lines -> [Words -> Values]]
           /\ reset' \in Pair(BOOLEAN)
           /\ trigger' \in [Lines -> BOOLEAN]
           /\ strobe' \in [Lines -> 0..1]
           /\ since' \in 0..Apart
<1> USE DEF TypeOK
<1>1. CASE phase # 0
  BY <1>1 DEF Slow, slow
<1>2. CASE phase = 0
  <2>1. RegSync25 /\ RegRw
    BY <1>2 DEF Slow
  <2>2. down1' \in Down /\ down2' \in Down
    BY <2>1 DEF RegSync25, Down, Pair
  <2>3. strobe' \in [Lines -> 0..1]
    BY <2>1 DEF RegRw
  <2>4. since' \in 0..Apart
    BY <2>1 DEF RegRw
  <2>5. CASE reset[2]
    <3>1. ResetRegisterMap
      BY <2>1, <2>5 DEF RegRw
    <3>2. done25' \in Level
      BY <3>1 DEF ResetRegisterMap, Level
    <3>3. data25' \in [Words -> Values] /\ regs' \in [Lines -> [Words -> Values]]
      BY <3>1, StartForm DEF ResetRegisterMap
    <3>0. reset[1] \in BOOLEAN
      BY DEF Pair
    <3>4. reset' \in Pair(BOOLEAN)
      <4>1. FALSE \in BOOLEAN
        OBVIOUS
      <4>2. <<FALSE, reset[1]>> \in Pair(BOOLEAN)
        BY <3>0, <4>1, PairOf
      <4> QED
        BY <3>1, <4>2 DEF ResetRegisterMap
    <3>5. trigger' \in [Lines -> BOOLEAN]
      BY <3>1 DEF ResetRegisterMap
    <3> QED
      BY <2>2, <2>3, <2>4, <3>2, <3>3, <3>4, <3>5
  <2>6. CASE ~reset[2]
    <3>1. Update
      BY <2>1, <2>6 DEF RegRw
    <3>0. /\ down2.enable \in Level /\ down2.enable.write \in BOOLEAN
          /\ down2.target.line \in Lines /\ down2.target.word \in Words
          /\ down2.request.line \in Lines /\ down2.request.value \in Values
      BY DEF Down, Level, AllRequests
    <3>2. done25' \in Level
      BY <3>0, <3>1 DEF Update
    <3>3. data25' \in [Words -> Values]
      BY <3>0, <3>1 DEF Update
    <3>4. WriteData \in [Words -> Values]
      BY <3>0 DEF WriteData
    <3>5. regs' \in [Lines -> [Words -> Values]]
      BY <3>0, <3>1, <3>4 DEF Update
    <3>6. reset' \in Pair(BOOLEAN)
      BY <3>0, <3>1 DEF Update, Pair
    <3>7. trigger' \in [Lines -> BOOLEAN]
      BY <3>0, <3>1 DEF Update
    <3> QED
      BY <2>2, <2>3, <2>4, <3>2, <3>3, <3>5, <3>6, <3>7
  <2> QED
    BY <2>5, <2>6
<1> QED
  BY <1>1, <1>2

LEMMA PhaseForm == ASSUME phase \in 0..(Ratio - 1) PROVE (phase + 1) % Ratio \in 0..(Ratio - 1)
  OBVIOUS

LEMMA ReadyForm == Ready \subseteq BOOLEAN
  BY DEF Ready

LEMMA TypeOfSeen ==
    ASSUME TypeOK, NEW ready \in BOOLEAN, Seen(ready)
    PROVE  answer' \in [parity : 0..1, value : Values \cup {"none", "unsupported"}]
  BY DEF TypeOK, Seen, Transferred

LEMMA TypeStep == ASSUME TypeOK, [Next]_vars PROVE TypeOK'
<1>1. CASE Take
  <2>1. PICK ready \in Ready, r \in Requests : Accept(r) /\ Rest(ready) /\ open' = r
    BY <1>1 DEF Take
  <2>2. ready \in BOOLEAN
    BY ReadyForm
  <2>3. Seen(ready) /\ RegSync250 /\ Slow /\ phase' = (phase + 1) % Ratio
    BY <2>1 DEF Rest
  <2>4. phase' \in 0..(Ratio - 1)
    BY <2>3, PhaseForm DEF TypeOK
  <2> QED
    BY <2>1, <2>2, <2>3, <2>4, TypeOfFast, TypeOfUp, TypeOfSlow, TypeOfSeen DEF TypeOK
<1>2. CASE Work
  <2>1. PICK ready \in Ready :
          /\ \/ Idle
             \/ ReadRegister(ready)
             \/ WriteRegisterRead
             \/ WriteRegisterModifyWrite(ready)
             \/ WaitRwDone
             \/ SendUnknownRequest(ready)
          /\ Rest(ready)
          /\ Carry(ready)
    BY <1>2 DEF Work
  <2>2. ready \in BOOLEAN
    BY ReadyForm
  <2>3. Seen(ready) /\ RegSync250 /\ Slow /\ phase' = (phase + 1) % Ratio
    BY <2>1 DEF Rest
  <2>4. phase' \in 0..(Ratio - 1)
    BY <2>3, PhaseForm DEF TypeOK
  <2>5. open' \in Requests \cup {None}
    BY <2>1 DEF Carry, TypeOK
  <2> QED
    BY <2>1, <2>2, <2>3, <2>4, <2>5, TypeOfFast, TypeOfUp, TypeOfSlow, TypeOfSeen DEF TypeOK
<1>3. CASE UNCHANGED vars
  BY <1>3 DEF vars, fast, up, slow, TypeOK
<1> QED
  BY <1>1, <1>2, <1>3 DEF Next

\* Every register holds a value of its kind.
THEOREM TypeCorrect == ASSUME Lines # {}, Words # {} PROVE Spec => []TypeOK
<1>1. Init => TypeOK
  BY TypeAtStart
<1>2. TypeOK /\ [Next]_vars => TypeOK'
  BY TypeStep
<1> QED
  BY <1>1, <1>2, PTL DEF Spec

-----------------------------------------------------------------------------
(***************************************************************************)
(* The access.  The clocks are far enough from each other for the levels   *)
(* of one slow clock to have passed up before the next (six fast clocks),  *)
(* the core takes every answer at once, and a request does not follow an   *)
(* unknown one before its levels are down.                                 *)
(***************************************************************************)
Paced == ~Hasty /\ ~Stalls /\ Ratio >= 6 /\ Apart <= 6

\* The level of the read is set, and has come so far; or it is cleared, and
\* has gone down so far.
ReadUp ==
    /\ enable[1].read
    /\ down1.enable.read => enable[2].read
    /\ down2.enable.read => down1.enable.read
    /\ done25.read => down2.enable.read
    /\ readDone[1] => done25.read
    /\ readDone[2] => readDone[1]
    /\ readDone[3] => readDone[2]
    /\ readDone[4] => readDone[3]

ReadDown ==
    /\ ~enable[1].read
    /\ enable[2].read => down1.enable.read
    /\ down1.enable.read => down2.enable.read
    /\ down2.enable.read => done25.read
    /\ done25.read => readDone[1]
    /\ readDone[1] => readDone[2]
    /\ readDone[2] => readDone[3]
    /\ readDone[3] => readDone[4]

\* The same for the level of the write.
WriteUp ==
    /\ enable[2].write => enable[1].write
    /\ down1.enable.write => enable[2].write
    /\ down2.enable.write => down1.enable.write
    /\ done25.write => down2.enable.write
    /\ writeDone[1] => done25.write
    /\ writeDone[2] => writeDone[1]

WriteDown ==
    /\ enable[1].write => enable[2].write
    /\ enable[2].write => down1.enable.write
    /\ down1.enable.write => down2.enable.write
    /\ down2.enable.write => done25.write
    /\ done25.write => writeDone[1]
    /\ writeDone[1] => writeDone[2]

ReadOff ==
    /\ ~enable[1].read /\ ~enable[2].read
    /\ ~down1.enable.read /\ ~down2.enable.read /\ ~done25.read
    /\ ~readDone[1] /\ ~readDone[2] /\ ~readDone[3] /\ ~readDone[4]

WriteOff ==
    /\ ~enable[1].write /\ ~enable[2].write
    /\ ~down1.enable.write /\ ~down2.enable.write /\ ~done25.write
    /\ ~writeDone[1] /\ ~writeDone[2]

\* The two levels of a write do not overlap on the way.
Separate ==
    /\ enable[1].write => ~enable[1].read
    /\ enable[2].write => ~enable[2].read
    /\ down1.enable.write => ~down1.enable.read
    /\ down2.enable.write => ~down2.enable.read
    /\ done25.write => ~done25.read

\* At least n slow clocks since the last access took effect, or at least n
\* fast clocks since the last slow edge.
Since(n) == since >= n \/ since >= Apart
Past(n) == phase >= n \/ phase = 0

NoReset == ~reset[1] /\ ~reset[2]

\* What goes with the levels is the request in hand.
PassInv ==
    /\ Since(1)
    /\ down1.enable.read \/ down1.enable.write => down1.request = request
    /\ down2.enable.read \/ down2.enable.write => down2.request = request
    /\ enable[1].write \/ enable[2].write => target = request
    /\ down1.enable.write => down1.target = request
    /\ down2.enable.write => down2.target = request
    /\ \A l \in Lines : trigger[l] <=> done25.write /\ request.kind = "write" /\ l = request.line
    /\ request.kind # "reset" => NoReset
    /\ request.kind \notin {"write", "reset"} => WriteOff

Stored == regs[request.line] = [data25 EXCEPT ![request.word] = request.value]

IdleInv ==
    state = "idle" =>
        /\ WriteOff /\ NoReset /\ Since(4)
        /\ request.kind # "unknown" => ReadOff /\ open = None /\ ~tvalid
        /\ request.kind = "unknown" /\ tvalid => open = request /\ tdata = "unsupported"
        /\ request.kind = "unknown" /\ ~tvalid => open = None

UnknownInv ==
    state = "send_unknown" =>
        request.kind = "unknown" /\ WriteOff /\ NoReset /\ Since(4) /\ ~tvalid /\ open = request

\* The line is on its way to the completer.
Gather ==
    /\ ReadUp /\ WriteOff /\ NoReset /\ ~tvalid /\ open = request
    /\ done25.read => data25 = regs[request.line]
    /\ ~done25.read => Since(4) /\ (down1.enable.read => Since(5))
    /\ ~done25.read /\ down2.enable.read => Since(6)

ReadInv ==
    state = "read_register" =>
        /\ request.kind = "read" /\ Gather
        /\ readDone[1] => readData[1] = regs[request.line]
        /\ readDone[2] => readData[2] = regs[request.line]

FetchInv ==
    state = "write_register_read" =>
        /\ request.kind \in {"write", "reset"} /\ Gather
        /\ down2.enable.read => Since(6)

\* The write is on its way to the registers.
Before ==
    /\ ReadDown /\ WriteUp /\ Separate /\ NoReset /\ open = request
    /\ data25 = regs[request.line] /\ Since(6)

StoreInv ==
    state = "write_register_modifywrite" =>
        /\ request.kind \in {"write", "reset"} /\ ~tvalid
        /\ ~done25.write => Before
        /\ done25.write /\ request.kind = "write" =>
             ReadDown /\ WriteUp /\ Separate /\ open = None /\ Stored
        /\ done25.write /\ request.kind = "reset" => WriteUp /\ reset[1] /\ ~reset[2]

\* The levels go down.
DoneRead ==
    /\ ReadDown /\ WriteOff
    /\ ~down1.enable.read => Since(2)
    /\ ~down2.enable.read => Since(3)
    /\ ~done25.read => Since(4)
    /\ tvalid => open = request /\ readDone[4] /\ tdata = regs[request.line][request.word]
    /\ ~tvalid => open = None

DoneWrite ==
    /\ ReadDown /\ WriteDown /\ Separate /\ open = None /\ ~tvalid
    /\ down2.enable.write => Stored
    /\ ~down1.enable.write => Since(2)
    /\ ~down2.enable.write => Since(3)
    /\ ~done25.write => Since(4)

DoneReset ==
    /\ ~tvalid
    /\ NoReset => /\ ReadDown /\ WriteDown /\ open = None /\ Since(4)
                  /\ ~down2.enable.write /\ ~down2.enable.read

DoneInv ==
    state = "wait_rw_done" =>
        /\ request.kind # "unknown"
        /\ request.kind = "read" => DoneRead
        /\ request.kind = "write" => DoneWrite
        /\ request.kind = "reset" => DoneReset

(***************************************************************************)
(* The reset of the registers, slow clock by slow clock: it is set, it is  *)
(* set and seen, and it is cleared and still seen.                         *)
(***************************************************************************)
ResetSet ==
    /\ state \in {"write_register_modifywrite", "wait_rw_done"} /\ open = request
    /\ ~enable[1].read /\ ~enable[2].read /\ ~down1.enable.read /\ ~down2.enable.read
    /\ down2.enable.write /\ done25.write
    /\ Past(2) => writeDone[1]
    /\ Past(3) => writeDone[2]
    /\ state = "wait_rw_done" => writeDone[1] /\ writeDone[2]
    /\ Past(4) => state = "wait_rw_done"
    /\ Past(5) => ~enable[1].write
    /\ Past(6) => ~enable[2].write

ResetSeen ==
    /\ state = "wait_rw_done"
    /\ ~enable[1].read /\ ~enable[2].read /\ ~down1.enable.read /\ ~down2.enable.read
    /\ ~enable[1].write /\ ~enable[2].write /\ ~down1.enable.write
    /\ done25.write /\ writeDone[1] /\ writeDone[2]

ResetOver ==
    /\ open = None /\ regs = Start /\ ~down2.enable.write /\ done25.read /\ Since(3)
    /\ Past(2) => readDone[1]
    /\ Past(3) => readDone[2]
    /\ Past(4) => readDone[3]
    /\ Past(5) => readDone[4]

ResetInv ==
    request.kind = "reset" =>
        /\ reset[1] /\ ~reset[2] => ResetSet
        /\ reset[2] => ResetSeen
        /\ reset[1] /\ reset[2] => open = request /\ Since(2)
        /\ ~reset[1] /\ reset[2] => ResetOver

StateInv == IdleInv /\ UnknownInv /\ ReadInv /\ FetchInv /\ StoreInv /\ DoneInv

AccessInv == TypeOK /\ PassInv /\ StateInv /\ ResetInv

-----------------------------------------------------------------------------
(***************************************************************************)
(* What one edge does, level by level.                                     *)
(***************************************************************************)
FastLevels(read, write) ==
    /\ enable'[1].read = read /\ enable'[1].write = write
    /\ enable'[2].read = enable[1].read /\ enable'[2].write = enable[1].write
    /\ readDone'[1] = done25.read /\ readDone'[2] = readDone[1]
    /\ readDone'[3] = readDone[2] /\ readDone'[4] = readDone[3]
    /\ writeDone'[1] = done25.write /\ writeDone'[2] = writeDone[1]
    /\ readData'[1] = data25 /\ readData'[2] = readData[1]

Stay ==
    /\ phase # 0
    /\ down1' = down1 /\ down2' = down2 /\ done25' = done25 /\ data25' = data25
    /\ regs' = regs /\ reset' = reset /\ trigger' = trigger /\ strobe' = strobe
    /\ since' = since
    /\ \A n \in 2..6 : Past(n)' => Past(n - 1)

Moved ==
    /\ phase = 0 /\ phase' = 1
    /\ down1'.enable.read = enable[2].read /\ down1'.enable.write = enable[2].write
    /\ down1'.request = request /\ down1'.target = target
    /\ down2'.enable.read = down1.enable.read /\ down2'.enable.write = down1.enable.write
    /\ down2'.request = down1.request /\ down2'.target = down1.target
    /\ TakesEffect => since' = 1
    /\ ~TakesEffect => \A n \in 1..6 : Since(n) => Since(n)' /\ Since(n + 1)'
    /\ \A l \in Lines : strobe'[l] = IF Rises(l) THEN 1 - strobe[l] ELSE strobe[l]

Plain ==
    /\ Moved /\ ~reset[2]
    /\ done25'.read = down2.enable.read /\ done25'.write = down2.enable.write
    /\ data25' = IF down2.enable.read THEN regs[down2.request.line] ELSE data25
    /\ regs' = IF down2.enable.write /\ down2.request.kind = "write"
                  THEN [regs EXCEPT ![down2.target.line] = WriteData] ELSE regs
    /\ \A l \in Lines :
          trigger'[l] <=> down2.enable.write /\ down2.request.kind = "write" /\ l = down2.target.line
    /\ reset'[1] <=> reset[1] \/ (down2.enable.write /\ down2.request.kind # "write")
    /\ reset'[2] <=> reset[1]

Forced ==
    /\ Moved /\ reset[2]
    /\ done25'.read /\ done25'.write
    /\ data25' = ZeroLine /\ regs' = Start /\ trigger' = trigger
    /\ ~reset'[1] /\ (reset'[2] <=> reset[1])

LEMMA FastEdge ==
    ASSUME TypeOK, NEW a \in BOOLEAN, NEW b \in BOOLEAN, Enable(a, b), RegSync250
    PROVE  FastLevels(a, b)
<1>1. enable'[1] = [read |-> a, write |-> b] /\ enable'[2] = enable[1]
  BY DEF Enable
<1>2. /\ readDone'[1] = done25.read /\ readDone'[2] = readDone[1]
      /\ readDone'[3] = readDone[2] /\ readDone'[4] = readDone[3]
  BY DEF RegSync250
<1>3. /\ writeDone'[1] = done25.write /\ writeDone'[2] = writeDone[1]
      /\ readData'[1] = data25 /\ readData'[2] = readData[1]
  BY DEF RegSync250
<1> QED
  BY <1>1, <1>2, <1>3 DEF FastLevels

LEMMA SinceStep ==
    ASSUME NEW s \in 0..Apart, NEW t, t = IF s < Apart THEN s + 1 ELSE s,
           NEW n \in 1..6, s >= n \/ s >= Apart
    PROVE  (t >= n \/ t >= Apart) /\ (t >= n + 1 \/ t >= Apart)
<1>1. s \in Int /\ Apart \in Int /\ n \in Int
  OBVIOUS
<1>2. CASE s < Apart
  BY <1>1, <1>2
<1>3. CASE ~(s < Apart)
  BY <1>1, <1>3
<1> QED
  BY <1>2, <1>3

LEMMA PhaseStep ==
    ASSUME NEW p \in 0..(Ratio - 1), Ratio >= 6
    PROVE  (p + 1) % Ratio = IF p + 1 < Ratio THEN p + 1 ELSE 0
<1> DEFINE q == (p + 1) \div Ratio
           r == (p + 1) % Ratio
<1>1. q \in Int /\ r \in 0..(Ratio - 1) /\ p + 1 = Ratio * q + r
  OBVIOUS
<1> HIDE DEF q, r
<1>2. q = 0 \/ q = 1 \/ q <= -1 \/ q >= 2
  BY <1>1
<1>3. q <= -1 => Ratio * q <= Ratio * (-1)
  BY <1>1
<1>4. q >= 2 => Ratio * q >= Ratio * 2
  BY <1>1
<1>5. q = 0 \/ q = 1
  BY <1>1, <1>2, <1>3, <1>4
<1> QED
  BY <1>1, <1>5 DEF r

LEMMA SlowEdge ==
    ASSUME TypeOK, Ratio >= 6, Slow, phase' = (phase + 1) % Ratio
    PROVE  Stay \/ Plain \/ Forced
<1>p. phase \in 0..(Ratio - 1) /\ since \in 0..Apart
  BY DEF TypeOK
<1>1. ASSUME phase # 0 PROVE Stay
  <2>1. UNCHANGED slow
    BY <1>1 DEF Slow
  <2>2. \A n \in 2..6 : Past(n)' => Past(n - 1)
    BY <1>1, <1>p, PhaseStep DEF Past
  <2> QED
    BY <1>1, <2>1, <2>2 DEF Stay, slow
<1>2. ASSUME phase = 0 PROVE Plain \/ Forced
  <2>1. RegSync25 /\ RegRw
    BY <1>2 DEF Slow
  <2>2. Moved
    <3>1. phase' = 1
      BY <1>2, <1>p, PhaseStep
    <3>2. /\ down1'.enable = enable[2] /\ down1'.request = request /\ down1'.target = target
          /\ down2' = down1
      BY <2>1 DEF RegSync25
    <3>3. TakesEffect => since' = 1
      BY <2>1 DEF RegRw
    <3>4. ~TakesEffect => \A n \in 1..6 : Since(n) => Since(n)' /\ Since(n + 1)'
      BY <2>1, <1>p, SinceStep DEF RegRw, Since
    <3>5. \A l \in Lines : strobe'[l] = IF Rises(l) THEN 1 - strobe[l] ELSE strobe[l]
      BY <2>1 DEF RegRw
    <3> QED
      BY <1>2, <3>1, <3>2, <3>3, <3>4, <3>5 DEF Moved
  <2>3. ASSUME ~reset[2] PROVE Plain
    <3>1. Update
      BY <2>1, <2>3 DEF RegRw
    <3>2. reset[1] \in BOOLEAN /\ down2.enable.write \in BOOLEAN
      BY DEF TypeOK, Pair, Down, Level
    <3>3. (reset'[1] <=> reset[1] \/ (down2.enable.write /\ down2.request.kind # "write"))
          /\ (reset'[2] <=> reset[1])
      BY <3>1, <3>2 DEF Update
    <3> QED
      BY <2>2, <2>3, <3>1, <3>3 DEF Update, Plain
  <2>4. ASSUME reset[2] PROVE Forced
    <3>1. ResetRegisterMap
      BY <2>1, <2>4 DEF RegRw
    <3> QED
      BY <2>2, <2>4, <3>1 DEF ResetRegisterMap, Forced
  <2> QED
    BY <2>3, <2>4
<1> QED
  BY <1>1, <1>2

-----------------------------------------------------------------------------
(***************************************************************************)
(* The levels of an access, at an edge that is not the end of a reset.     *)
(***************************************************************************)
LEMMA ReadUpOn ==
    ASSUME ReadUp, NEW b, FastLevels(TRUE, b), Stay \/ Plain
    PROVE  ReadUp'
  BY DEF ReadUp, FastLevels, Stay, Plain, Moved

LEMMA ReadTurns ==
    ASSUME ReadUp, readDone[4], NEW b, FastLevels(FALSE, b), Stay \/ Plain
    PROVE  ReadDown'
  BY DEF ReadUp, ReadDown, FastLevels, Stay, Plain, Moved

LEMMA ReadDownOn ==
    ASSUME ReadDown, NEW b, FastLevels(FALSE, b), Stay \/ Plain
    PROVE  ReadDown'
  BY DEF ReadDown, FastLevels, Stay, Plain, Moved

LEMMA ReadOffOn ==
    ASSUME ReadOff, NEW b, FastLevels(FALSE, b), Stay \/ Plain
    PROVE  ReadOff'
  BY DEF ReadOff, FastLevels, Stay, Plain, Moved

LEMMA ReadStarts ==
    ASSUME ReadOff, NEW b, FastLevels(TRUE, b), Stay \/ Plain
    PROVE  ReadUp' /\ ~down1'.enable.read /\ ~down2'.enable.read /\ ~done25'.read
  BY DEF ReadOff, ReadUp, FastLevels, Stay, Plain, Moved

LEMMA WriteOffOn ==
    ASSUME WriteOff, NEW a, FastLevels(a, FALSE), Stay \/ Plain
    PROVE  WriteOff'
  BY DEF WriteOff, FastLevels, Stay, Plain, Moved

LEMMA WriteOffUp == WriteOff => WriteUp /\ Separate
  BY DEF WriteOff, WriteUp, Separate

LEMMA WriteUpOn ==
    ASSUME WriteUp, NEW a, FastLevels(a, TRUE), Stay \/ Plain
    PROVE  WriteUp'
  BY DEF WriteUp, FastLevels, Stay, Plain, Moved

LEMMA WriteTurns ==
    ASSUME WriteUp, writeDone[2], NEW a, FastLevels(a, TRUE), Stay \/ Plain
    PROVE  WriteDown' /\ down1'.enable.write /\ down2'.enable.write /\ done25'.write
  BY DEF WriteUp, WriteDown, FastLevels, Stay, Plain, Moved

LEMMA WriteDownOn ==
    ASSUME WriteDown, NEW a, FastLevels(a, FALSE), Stay \/ Plain
    PROVE  WriteDown'
  BY DEF WriteDown, FastLevels, Stay, Plain, Moved

LEMMA SeparateOn ==
    ASSUME Separate, NEW b, FastLevels(FALSE, b), Stay \/ Plain
    PROVE  Separate'
  BY DEF Separate, FastLevels, Stay, Plain, Moved

LEMMA NoResetOn ==
    ASSUME NoReset, WriteOff, Stay \/ Plain
    PROVE  NoReset'
  BY DEF NoReset, WriteOff, Stay, Plain, Moved

-----------------------------------------------------------------------------
\* What becomes of the open request.
LEMMA CarryNone == ASSUME open = None, Carry(TRUE) PROVE open' = None
  BY DEF Carry

LEMMA CarryAnswered == ASSUME tvalid, Carry(TRUE) PROVE open' = None
  BY DEF Carry, Served, Transferred

LEMMA CarryKept ==
    ASSUME ~tvalid, open = request, request.kind \notin {"write", "reset"}, Carry(TRUE)
    PROVE  open' = request
  BY DEF Carry, Served, Transferred

LEMMA CarryReset ==
    ASSUME ~tvalid, open = request, request.kind = "reset", Carry(TRUE)
    PROVE  open' = IF phase = 0 /\ reset[2] THEN None ELSE request
<1>1. request # None
  BY DEF None
<1> QED
  BY <1>1 DEF Carry, Served, Transferred

LEMMA CarryWrite ==
    ASSUME ~tvalid, open = request, request.kind = "write", Carry(TRUE)
    PROVE  open' = IF strobe'[request.line] # strobe[request.line] THEN None ELSE request
<1>1. request # None
  BY DEF None
<1> QED
  BY <1>1 DEF Carry, Served, Transferred

LEMMA RequestForm ==
    ASSUME TypeOK
    PROVE  /\ request.kind \in {"read", "write", "reset", "unknown"}
           /\ request.line \in Lines /\ request.word \in Words
  BY DEF TypeOK, AllRequests

\* What goes with the levels stays the request in hand.
LEMMA PassOn ==
    ASSUME TypeOK, PassInv, request' = request,
           NEW a \in BOOLEAN, NEW b \in BOOLEAN, FastLevels(a, b), Stay \/ Plain \/ Forced,
           target' = request \/ (target' = target /\ ~b),
           b => request.kind \in {"write", "reset"}
    PROVE  PassInv'
<1>1. Since(1)'
  <2>1. since' = 1 => Since(1)'
    BY DEF Since
  <2> QED
    BY <2>1 DEF PassInv, Stay, Plain, Forced, Moved, Since
<1>2. /\ down1'.enable.read \/ down1'.enable.write => down1'.request = request'
      /\ down2'.enable.read \/ down2'.enable.write => down2'.request = request'
  BY DEF PassInv, Stay, Plain, Forced, Moved
<1>3. /\ enable'[1].write \/ enable'[2].write => target' = request'
      /\ down1'.enable.write => down1'.target = request'
      /\ down2'.enable.write => down2'.target = request'
  BY DEF PassInv, FastLevels, Stay, Plain, Forced, Moved
<1>4. request'.kind # "reset" => NoReset'
  <2>1. down2.enable.write => down2.request.kind = request.kind
    BY DEF PassInv
  <2>2. request.kind \notin {"write", "reset"} => ~down2.enable.write
    BY DEF PassInv, WriteOff
  <2>3. SUFFICES ASSUME request.kind # "reset" PROVE NoReset'
    OBVIOUS
  <2>4. ~reset[1] /\ ~reset[2]
    BY <2>3 DEF PassInv, NoReset
  <2>5. CASE Stay
    BY <2>4, <2>5 DEF Stay, NoReset
  <2>6. CASE Plain
    BY <2>1, <2>2, <2>3, <2>4, <2>6 DEF Plain, NoReset
  <2> QED
    BY <2>4, <2>5, <2>6 DEF Forced
<1>5. request'.kind \notin {"write", "reset"} => WriteOff'
  <2>1. SUFFICES ASSUME request.kind \notin {"write", "reset"} PROVE WriteOff'
    OBVIOUS
  <2>2. WriteOff /\ ~b /\ (Stay \/ Plain)
    BY <2>1 DEF PassInv, NoReset, Forced
  <2> QED
    BY <2>2, WriteOffOn
<1>6. \A l \in Lines :
        trigger'[l] <=> done25'.write /\ request'.kind = "write" /\ l = request'.line
  <2>1. SUFFICES ASSUME NEW l \in Lines
                 PROVE  trigger'[l] <=> done25'.write /\ request.kind = "write" /\ l = request.line
    OBVIOUS
  <2>2. trigger[l] <=> done25.write /\ request.kind = "write" /\ l = request.line
    BY DEF PassInv
  <2>3. CASE Stay
    BY <2>2, <2>3 DEF Stay
  <2>4. CASE Plain
    <3>1. down2.enable.write => down2.request = request /\ down2.target = request
      BY DEF PassInv
    <3> QED
      BY <2>4, <3>1 DEF Plain
  <2>5. CASE Forced
    <3>1. request.kind = "reset"
      BY <2>5 DEF Forced, PassInv, NoReset
    <3> QED
      BY <2>2, <2>5, <3>1 DEF Forced
  <2> QED
    BY <2>3, <2>4, <2>5
<1> QED
  BY <1>1, <1>2, <1>3, <1>4, <1>5, <1>6 DEF PassInv

\* A slow edge without an effect adds one to the distance.
LEMMA SinceOn ==
    ASSUME NEW n \in 1..6, Since(n), Stay \/ ((Plain \/ Forced) /\ ~TakesEffect)
    PROVE  Since(n)'
  BY DEF Since, Stay, Plain, Forced, Moved

LEMMA SinceMore ==
    ASSUME NEW n \in 1..6, Since(n), Plain \/ Forced, ~TakesEffect
    PROVE  Since(n + 1)'
  BY DEF Plain, Forced, Moved

-----------------------------------------------------------------------------
(***************************************************************************)
(* The completer, state by state.                                          *)
(***************************************************************************)
Keeps == PassInv' /\ StateInv' /\ ResetInv'

LEMMA IdleOn ==
    ASSUME AccessInv, Idle, FastLevels(FALSE, FALSE), Stay \/ Plain \/ Forced, Carry(TRUE),
           request' = request, target' = target, ~tvalid', tdata' = tdata
    PROVE  Keeps
<1>1. /\ state = "idle" /\ state' = "idle"
      /\ WriteOff /\ NoReset /\ Since(4)
      /\ request.kind # "unknown" => ReadOff /\ open = None /\ ~tvalid
      /\ request.kind = "unknown" /\ ~tvalid => open = None
  BY DEF Idle, AccessInv, StateInv, IdleInv
<1>2. Stay \/ Plain
  BY <1>1 DEF NoReset, Forced
<1>3. PassInv'
  BY PassOn DEF AccessInv
<1>4. WriteOff' /\ NoReset'
  BY <1>1, <1>2, WriteOffOn, NoResetOn
<1>5. ~TakesEffect
  <2>1. down2.enable.read => request.kind = "unknown"
    BY <1>1 DEF ReadOff
  <2>2. down2.enable.read => down2.request = request
    BY DEF AccessInv, PassInv
  <2> QED
    BY <1>1, <2>1, <2>2 DEF TakesEffect, WriteOff
<1>6. Since(4)'
  BY <1>1, <1>2, <1>5, SinceOn
<1>7. request.kind # "unknown" => ReadOff'
  BY <1>1, <1>2, ReadOffOn
<1>8. open' = None
  BY <1>1, CarryNone, CarryAnswered
<1>9. IdleInv'
  BY <1>4, <1>6, <1>7, <1>8 DEF IdleInv
<1>10. StateInv'
  BY <1>1, <1>9 DEF StateInv, UnknownInv, ReadInv, FetchInv, StoreInv, DoneInv
<1>11. ResetInv'
  BY <1>4 DEF NoReset, ResetInv
<1> QED
  BY <1>3, <1>10, <1>11 DEF Keeps

LEMMA SendOn ==
    ASSUME AccessInv, state = "send_unknown", state' = "idle",
           FastLevels(FALSE, FALSE), Stay \/ Plain \/ Forced, Carry(TRUE),
           request' = request, target' = target, tvalid', tdata' = "unsupported"
    PROVE  Keeps
<1>1. request.kind = "unknown" /\ WriteOff /\ NoReset /\ Since(4) /\ ~tvalid /\ open = request
  BY DEF AccessInv, StateInv, UnknownInv
<1>2. Stay \/ Plain
  BY <1>1 DEF NoReset, Forced
<1>3. PassInv'
  BY PassOn DEF AccessInv
<1>4. WriteOff' /\ NoReset'
  BY <1>1, <1>2, WriteOffOn, NoResetOn
<1>5. ~TakesEffect
  <2>1. down2.enable.read => down2.request = request
    BY DEF AccessInv, PassInv
  <2> QED
    BY <1>1, <2>1 DEF TakesEffect, WriteOff
<1>6. Since(4)'
  BY <1>1, <1>2, <1>5, SinceOn
<1>7. open' = request
  BY <1>1, CarryKept
<1>8. IdleInv'
  BY <1>1, <1>4, <1>6, <1>7 DEF IdleInv
<1>9. StateInv'
  BY <1>8 DEF StateInv, UnknownInv, ReadInv, FetchInv, StoreInv, DoneInv
<1>10. ResetInv'
  BY <1>4 DEF NoReset, ResetInv
<1> QED
  BY <1>3, <1>9, <1>10 DEF Keeps

\* A new request meets no level of the last one.
LEMMA AcceptOn ==
    ASSUME AccessInv, NEW r \in Requests, Accept(r), MayFollow, ~Hasty,
           FastLevels(TRUE, FALSE), Stay \/ Plain \/ Forced, open' = r
    PROVE  Keeps
<1>1. /\ state = "idle" /\ request' = r /\ target' = target /\ tvalid' = FALSE
      /\ r.kind = "read" => state' = "read_register"
      /\ r.kind \in {"write", "reset"} => state' = "write_register_read"
      /\ r.kind \notin {"read", "write", "reset"} => state' = "send_unknown"
  BY DEF Accept
<1>2. r.kind \in {"read", "write", "reset", "unknown"}
  BY DEF AllRequests
<1>3. WriteOff /\ NoReset /\ Since(4)
  BY <1>1 DEF AccessInv, StateInv, IdleInv
<1>4. ReadOff
  <2>1. CASE request.kind # "unknown"
    BY <1>1, <2>1 DEF AccessInv, StateInv, IdleInv
  <2>2. CASE request.kind = "unknown"
    <3>1. Calm
      BY <2>2 DEF MayFollow
    <3>2. /\ ~enable[1].read /\ ~enable[2].read /\ ~down1.enable.read
          /\ ~down2.enable.read /\ ~done25.read
      <4>1. ~Off.read
        BY DEF Off
      <4> QED
        BY <3>1, <4>1 DEF Calm
    <3>3. ~readDone[1] /\ ~readDone[2] /\ ~readDone[3] /\ ~readDone[4]
      BY <3>1 DEF Calm
    <3> QED
      BY <3>2, <3>3 DEF ReadOff
  <2> QED
    BY <2>1, <2>2
<1>5. Stay \/ Plain
  BY <1>3 DEF NoReset, Forced
<1>6. ReadUp' /\ ~down1'.enable.read /\ ~down2'.enable.read /\ ~done25'.read
  BY <1>4, <1>5, ReadStarts
<1>7. WriteOff' /\ NoReset'
  BY <1>3, <1>5, WriteOffOn, NoResetOn
<1>8. ~TakesEffect
  BY <1>3, <1>4 DEF TakesEffect, ReadOff, WriteOff
<1>9. Since(4)'
  BY <1>3, <1>5, <1>8, SinceOn
<1>10. PassInv'
  <2>1. Since(1)'
    BY <1>5, <1>8, SinceOn DEF AccessInv, PassInv
  <2>2. /\ ~enable'[1].write /\ ~enable'[2].write /\ ~down1'.enable.write
        /\ ~down2'.enable.write /\ ~done25'.write
    BY <1>7 DEF WriteOff
  <2>3. \A l \in Lines : ~trigger'[l]
    <3>1. \A l \in Lines : ~trigger[l]
      BY <1>3 DEF AccessInv, PassInv, WriteOff
    <3> QED
      BY <1>3, <1>5, <3>1 DEF Stay, Plain, WriteOff
  <2> QED
    BY <1>6, <1>7, <2>1, <2>2, <2>3 DEF PassInv
<1>11. Gather'
  BY <1>1, <1>6, <1>7, <1>9 DEF Gather
<1>12. ReadInv'
  <2>1. ~readDone'[1] /\ ~readDone'[2]
    BY <1>6 DEF ReadUp
  <2> QED
    BY <1>1, <1>2, <1>11, <2>1 DEF ReadInv
<1>13. FetchInv'
  BY <1>1, <1>2, <1>6, <1>11 DEF FetchInv
<1>14. UnknownInv'
  BY <1>1, <1>2, <1>7, <1>9 DEF UnknownInv
<1>15. StateInv'
  BY <1>1, <1>2, <1>12, <1>13, <1>14 DEF StateInv, IdleInv, StoreInv, DoneInv
<1>16. ResetInv'
  BY <1>7 DEF NoReset, ResetInv
<1> QED
  BY <1>10, <1>15, <1>16 DEF Keeps

\* The line comes closer to the completer.
LEMMA GatherOn ==
    ASSUME TypeOK, PassInv, Gather, FastLevels(TRUE, FALSE), Stay \/ Plain,
           request' = request, ~tvalid', open' = request
    PROVE  Gather'
<1>1. ReadUp /\ WriteOff /\ NoReset
  BY DEF Gather
<1>2. ReadUp' /\ WriteOff' /\ NoReset'
  BY <1>1, ReadUpOn, WriteOffOn, NoResetOn
<1>3. /\ down2.enable.read => down2.request = request
      /\ down1.enable.read => enable[2].read
      /\ down2.enable.read => down1.enable.read
      /\ done25.read => down2.enable.read
      /\ ~down2.enable.write
  BY <1>1 DEF PassInv, ReadUp, WriteOff
<1>4. done25'.read => data25' = regs'[request'.line]
  BY <1>3 DEF Gather, Stay, Plain
<1>5. CASE Stay
  BY <1>2, <1>4, <1>5 DEF Gather, Stay, Since
<1>6. CASE Plain
  <2>1. TakesEffect => done25'.read
    BY <1>3, <1>6 DEF TakesEffect, Plain
  <2>2. ~done25'.read => ~done25.read /\ ~down2.enable.read /\ ~TakesEffect
    BY <1>3, <1>6, <2>1 DEF Plain
  <2>3. ~done25'.read => Since(4)' /\ Since(5)'
    BY <1>6, <2>2, SinceOn, SinceMore DEF Gather
  <2>4. ~done25'.read /\ down2'.enable.read => Since(6)'
    BY <1>6, <2>2, SinceMore DEF Gather, Plain, Moved
  <2> QED
    BY <1>2, <1>4, <2>3, <2>4 DEF Gather
<1> QED
  BY <1>5, <1>6

LEMMA ReadOn ==
    ASSUME AccessInv, state = "read_register", state' = IF ReadDone THEN "wait_rw_done" ELSE state,
           FastLevels(~ReadDone, FALSE), Stay \/ Plain \/ Forced, Carry(TRUE),
           request' = request, target' = target,
           tvalid' = ReadDone, tdata' = readData[2][request.word]
    PROVE  Keeps
<1>1. /\ request.kind = "read" /\ Gather
      /\ readDone[1] => readData[1] = regs[request.line]
      /\ readDone[2] => readData[2] = regs[request.line]
  BY DEF AccessInv, StateInv, ReadInv
<1>2. ReadUp /\ WriteOff /\ NoReset /\ ~tvalid /\ open = request
  BY <1>1 DEF Gather
<1>3. Stay \/ Plain
  BY <1>2 DEF NoReset, Forced
<1>4. ReadDone \in BOOLEAN /\ ReadDone = readDone[4]
  BY DEF AccessInv, TypeOK, ReadDone
<1>5. PassInv'
  BY <1>4, PassOn DEF AccessInv
<1>6. WriteOff' /\ NoReset'
  BY <1>2, <1>3, WriteOffOn, NoResetOn
<1>7. open' = request
  BY <1>1, <1>2, CarryKept
<1>8. regs' = regs
  BY <1>2, <1>3 DEF Stay, Plain, WriteOff
<1>9. ResetInv'
  BY <1>6 DEF NoReset, ResetInv
<1>10. ASSUME ~readDone[4] PROVE StateInv'
  <2>1. FastLevels(TRUE, FALSE) /\ ~tvalid'
    BY <1>4, <1>10
  <2>2. Gather'
    BY <1>1, <1>3, <1>7, <2>1, GatherOn DEF AccessInv
  <2>3. readDone'[1] => readData'[1] = regs'[request'.line]
    BY <1>1, <1>8, <2>1 DEF FastLevels, Gather
  <2>4. readDone'[2] => readData'[2] = regs'[request'.line]
    BY <1>1, <1>8, <2>1 DEF FastLevels
  <2>5. ReadInv'
    BY <1>1, <2>2, <2>3, <2>4 DEF ReadInv
  <2>6. state' = "read_register"
    BY <1>4, <1>10
  <2> QED
    BY <2>5, <2>6 DEF StateInv, IdleInv, UnknownInv, FetchInv, StoreInv, DoneInv
<1>11. ASSUME readDone[4] PROVE StateInv'
  <2>1. FastLevels(FALSE, FALSE) /\ tvalid' /\ state' = "wait_rw_done"
    BY <1>4, <1>11
  <2>2. ReadDown'
    BY <1>2, <1>3, <1>11, <2>1, ReadTurns
  <2>3. readDone[3] /\ readDone[2] /\ readDone[1] /\ done25.read /\ down2.enable.read
        /\ down1.enable.read /\ enable[2].read /\ enable[1].read
    BY <1>2, <1>11 DEF ReadUp
  <2>4. down1'.enable.read /\ down2'.enable.read /\ done25'.read /\ readDone'[4]
    BY <1>3, <2>1, <2>3 DEF FastLevels, Stay, Plain, Moved
  <2>5. tdata' = regs'[request'.line][request'.word]
    BY <1>1, <1>8, <2>3
  <2>6. DoneRead'
    BY <1>6, <1>7, <2>1, <2>2, <2>4, <2>5 DEF DoneRead
  <2>7. DoneInv'
    BY <1>1, <2>6 DEF DoneInv
  <2> QED
    BY <2>1, <2>7 DEF StateInv, IdleInv, UnknownInv, ReadInv, FetchInv, StoreInv
<1> QED
  BY <1>5, <1>9, <1>10, <1>11 DEF Keeps

LEMMA FetchOn ==
    ASSUME AccessInv, state = "write_register_read",
           state' = IF ReadDone THEN "write_register_modifywrite" ELSE state,
           FastLevels(~ReadDone, FALSE), Stay \/ Plain \/ Forced, Carry(TRUE),
           request' = request, target' = target, ~tvalid'
    PROVE  Keeps
<1>1. /\ request.kind \in {"write", "reset"} /\ Gather
      /\ down2.enable.read => Since(6)
  BY DEF AccessInv, StateInv, FetchInv
<1>2. ReadUp /\ WriteOff /\ NoReset /\ ~tvalid /\ open = request
  BY <1>1 DEF Gather
<1>3. Stay \/ Plain
  BY <1>2 DEF NoReset, Forced
<1>4. ReadDone \in BOOLEAN /\ ReadDone = readDone[4]
  BY DEF AccessInv, TypeOK, ReadDone
<1>5. PassInv'
  BY <1>4, PassOn DEF AccessInv
<1>6. WriteOff' /\ NoReset'
  BY <1>2, <1>3, WriteOffOn, NoResetOn
<1>7. open' = request
  <2>1. CASE request.kind = "reset"
    BY <1>2, <2>1, CarryReset DEF NoReset
  <2>2. CASE request.kind = "write"
    <3>1. request.line \in Lines
      BY RequestForm DEF AccessInv
    <3>2. strobe'[request.line] = strobe[request.line]
      <4>1. CASE Stay
        BY <4>1 DEF Stay
      <4>2. CASE Plain
        <5>1. ~Rises(request.line)
          BY <1>2, <3>1, <4>2 DEF Plain, Rises, WriteOff
        <5> QED
          BY <3>1, <4>2, <5>1 DEF Plain, Moved
      <4> QED
        BY <1>3, <4>1, <4>2
    <3> QED
      BY <1>2, <2>2, <3>2, CarryWrite
  <2> QED
    BY <1>1, <2>1, <2>2
<1>8. regs' = regs
  BY <1>2, <1>3 DEF Stay, Plain, WriteOff
<1>9. ResetInv'
  BY <1>6 DEF NoReset, ResetInv
<1>e. ~TakesEffect
  <2>1. down2.enable.read => down2.request.kind # "read"
    BY <1>1 DEF AccessInv, PassInv
  <2> QED
    BY <1>2, <2>1 DEF TakesEffect, WriteOff
<1>10. ASSUME ~readDone[4] PROVE StateInv'
  <2>1. FastLevels(TRUE, FALSE)
    BY <1>4, <1>10
  <2>2. Gather'
    BY <1>1, <1>3, <1>7, <2>1, GatherOn DEF AccessInv
  <2>3. down2'.enable.read => Since(6)'
    <3>1. CASE Stay
      BY <1>1, <3>1 DEF Stay, Since
    <3>2. CASE Plain
      <4>1. ASSUME down1.enable.read PROVE Since(6)'
        <5>1. CASE down2.enable.read
          BY <1>1, <1>3, <1>e, <5>1, SinceOn
        <5>2. CASE ~down2.enable.read
          <6>1. ~done25.read
            BY <1>2, <5>2 DEF ReadUp
          <6>2. Since(5)
            BY <1>1, <4>1, <6>1 DEF Gather
          <6> QED
            BY <3>2, <1>e, <6>2, SinceMore
        <5> QED
          BY <5>1, <5>2
      <4> QED
        BY <3>2, <4>1 DEF Plain, Moved
    <3> QED
      BY <1>3, <3>1, <3>2
  <2>4. FetchInv'
    BY <1>1, <2>2, <2>3 DEF FetchInv
  <2>5. state' = "write_register_read"
    BY <1>4, <1>10
  <2> QED
    BY <2>4, <2>5 DEF StateInv, IdleInv, UnknownInv, ReadInv, StoreInv, DoneInv
<1>11. ASSUME readDone[4] PROVE StateInv'
  <2>1. FastLevels(FALSE, FALSE) /\ state' = "write_register_modifywrite"
    BY <1>4, <1>11
  <2>2. ReadDown'
    BY <1>2, <1>3, <1>11, <2>1, ReadTurns
  <2>3. done25.read /\ down2.enable.read /\ down2.request = request
    BY <1>2, <1>11 DEF ReadUp, AccessInv, PassInv
  <2>4. Since(6)'
    BY <1>1, <1>3, <1>e, <2>3, SinceOn
  <2>5. data25' = regs'[request'.line]
    BY <1>1, <1>3, <1>8, <2>3 DEF Gather, Stay, Plain
  <2>6. WriteUp' /\ Separate' /\ ~done25'.write
    BY <1>6 DEF WriteOff, WriteUp, Separate
  <2>7. Before'
    BY <1>6, <1>7, <2>2, <2>4, <2>5, <2>6 DEF Before
  <2>8. StoreInv'
    BY <1>1, <2>6, <2>7 DEF StoreInv
  <2> QED
    BY <2>1, <2>8 DEF StateInv, IdleInv, UnknownInv, ReadInv, FetchInv, DoneInv
<1> QED
  BY <1>5, <1>9, <1>10, <1>11 DEF Keeps

\* The word of the request is put into the line that was read.
LEMMA WriteIs ==
    ASSUME TypeOK, PassInv, Plain, down2.enable.write, request.kind = "write"
    PROVE  regs'[request.line] = [data25 EXCEPT ![request.word] = request.value]
<1>1. down2.request = request /\ down2.target = request
  BY DEF PassInv
<1>2. regs' = [regs EXCEPT ![request.line] = WriteData]
  BY <1>1 DEF Plain
<1>3. WriteData = [data25 EXCEPT ![request.word] = request.value]
  BY <1>1 DEF WriteData
<1>4. regs \in [Lines -> [Words -> Values]] /\ request.line \in Lines
  BY RequestForm DEF TypeOK
<1> QED
  BY <1>2, <1>3, <1>4

StoreStep ==
    /\ state = "write_register_modifywrite"
    /\ state' = IF WriteDone THEN "wait_rw_done" ELSE state
    /\ FastLevels(FALSE, TRUE) /\ (Stay \/ Plain \/ Forced) /\ Carry(TRUE)
    /\ request' = request /\ target' = request /\ ~tvalid'

\* The write is still on its way, or it reaches the registers.
LEMMA StoreBefore ==
    ASSUME AccessInv, StoreStep, ~done25.write
    PROVE  StateInv' /\ ResetInv'
<1> USE DEF StoreStep
<1>1. request.kind \in {"write", "reset"} /\ ~tvalid /\ Before
  BY DEF AccessInv, StateInv, StoreInv
<1>2. /\ ReadDown /\ WriteUp /\ Separate /\ NoReset /\ open = request
      /\ data25 = regs[request.line] /\ Since(6)
  BY <1>1 DEF Before
<1>3. Stay \/ Plain
  BY <1>2 DEF NoReset, Forced
<1>4. ReadDown' /\ WriteUp' /\ Separate'
  BY <1>2, <1>3, ReadDownOn, WriteUpOn, SeparateOn
<1>5. state' = "write_register_modifywrite"
  BY <1>2 DEF WriteUp, WriteDone
<1>6. request.line \in Lines /\ strobe[request.line] \in 0..1
  BY RequestForm DEF AccessInv, TypeOK
<1>7. ASSUME Stay \/ ~down2.enable.write PROVE StateInv' /\ ResetInv'
  <2>1. ~TakesEffect \/ Stay
    <3>1. down2.enable.read => done25.read
      BY <1>2 DEF ReadDown
    <3> QED
      BY <1>7, <3>1 DEF TakesEffect
  <2>2. Since(6)'
    BY <1>2, <1>3, <2>1, SinceOn
  <2>3. regs' = regs /\ NoReset' /\ ~done25'.write
    BY <1>2, <1>3, <1>7 DEF Stay, Plain, NoReset
  <2>4. data25' = regs'[request'.line]
    <3>1. down2.enable.read => down2.request = request
      BY DEF AccessInv, PassInv
    <3> QED
      BY <1>2, <1>3, <2>3, <3>1 DEF Stay, Plain
  <2>5. strobe'[request.line] = strobe[request.line]
    <3>1. CASE Stay
      BY <3>1 DEF Stay
    <3>2. CASE Plain /\ ~down2.enable.write
      <4>1. ~Rises(request.line)
        BY <1>6, <3>2 DEF Plain, Rises
      <4> QED
        BY <1>6, <3>2, <4>1 DEF Plain, Moved
    <3> QED
      BY <1>3, <1>7, <3>1, <3>2
  <2>6. open' = request
    <3>1. CASE request.kind = "reset"
      BY <1>1, <1>2, <3>1, CarryReset DEF NoReset
    <3>2. CASE request.kind = "write"
      BY <1>1, <1>2, <2>5, <3>2, CarryWrite
    <3> QED
      BY <1>1, <3>1, <3>2
  <2>7. Before'
    BY <1>4, <2>2, <2>3, <2>4, <2>6 DEF Before
  <2>8. StoreInv'
    BY <1>1, <2>3, <2>7 DEF StoreInv
  <2> QED
    BY <1>5, <2>3, <2>8
    DEF StateInv, IdleInv, UnknownInv, ReadInv, FetchInv, DoneInv, NoReset, ResetInv
<1>8. ASSUME Plain, down2.enable.write, request.kind = "write" PROVE StateInv' /\ ResetInv'
  <2>1. ~down2.enable.read /\ data25' = data25
    BY <1>2, <1>8 DEF Separate, Plain
  <2>2. regs'[request.line] = [data25 EXCEPT ![request.word] = request.value]
    BY <1>8, WriteIs DEF AccessInv
  <2>3. Stored'
    BY <2>1, <2>2 DEF Stored
  <2>4. strobe'[request.line] # strobe[request.line]
    <3>1. ~trigger[request.line]
      BY <1>6 DEF AccessInv, PassInv
    <3>2. trigger'[request.line]
      <4>1. down2.request = request /\ down2.target = request
        BY <1>8 DEF AccessInv, PassInv
      <4> QED
        BY <1>6, <1>8, <4>1 DEF Plain
    <3>3. strobe'[request.line] = 1 - strobe[request.line]
      BY <1>6, <1>8, <3>1, <3>2 DEF Plain, Moved, Rises
    <3> QED
      BY <1>6, <3>3
  <2>5. open' = None
    BY <1>1, <1>2, <1>8, <2>4, CarryWrite
  <2>6. NoReset' /\ done25'.write
    <3>1. down2.request = request
      BY <1>8 DEF AccessInv, PassInv
    <3> QED
      BY <1>2, <1>8, <3>1 DEF Plain, NoReset
  <2>7. StoreInv'
    BY <1>4, <1>8, <2>3, <2>5, <2>6 DEF StoreInv
  <2> QED
    BY <1>5, <2>6, <2>7
    DEF StateInv, IdleInv, UnknownInv, ReadInv, FetchInv, DoneInv, NoReset, ResetInv
<1>9. ASSUME Plain, down2.enable.write, request.kind = "reset" PROVE StateInv' /\ ResetInv'
  <2>1. down2.request = request
    BY <1>9 DEF AccessInv, PassInv
  <2>2. reset'[1] /\ ~reset'[2] /\ done25'.write
    BY <1>2, <1>9, <2>1 DEF Plain, NoReset
  <2>3. open' = request
    BY <1>1, <1>2, <1>9, CarryReset DEF NoReset
  <2>4. ~enable[1].read /\ ~enable[2].read /\ ~down1.enable.read /\ ~down2.enable.read
    BY <1>2, <1>9 DEF Separate, ReadDown
  <2>5. /\ ~enable'[1].read /\ ~enable'[2].read
        /\ ~down1'.enable.read /\ ~down2'.enable.read
    BY <1>9, <2>4 DEF FastLevels, Plain, Moved
  <2>6. down2'.enable.write
    BY <1>2, <1>9 DEF WriteUp, Plain, Moved
  <2>7. \A n \in 2..6 : ~Past(n)'
    BY <1>9 DEF Plain, Moved, Past
  <2>8. ResetSet'
    BY <1>5, <2>2, <2>3, <2>5, <2>6, <2>7 DEF ResetSet
  <2>9. ResetInv'
    BY <2>2, <2>8 DEF ResetInv
  <2>10. StoreInv'
    BY <1>4, <1>9, <2>2 DEF StoreInv
  <2> QED
    BY <1>5, <2>9, <2>10 DEF StateInv, IdleInv, UnknownInv, ReadInv, FetchInv, DoneInv
<1> QED
  BY <1>1, <1>3, <1>7, <1>8, <1>9

\* The write is done anew, with the same data.
LEMMA StoreAgain ==
    ASSUME AccessInv, StoreStep, done25.write, request.kind = "write"
    PROVE  StateInv' /\ ResetInv'
<1> USE DEF StoreStep
<1>1. ReadDown /\ WriteUp /\ Separate /\ open = None /\ Stored /\ NoReset
  BY DEF AccessInv, StateInv, StoreInv, PassInv
<1>2. Stay \/ Plain
  BY <1>1 DEF NoReset, Forced
<1>3. ReadDown' /\ WriteUp' /\ Separate' /\ open' = None
  BY <1>1, <1>2, ReadDownOn, WriteUpOn, SeparateOn, CarryNone
<1>4. down2.enable.write /\ ~down2.enable.read
  BY <1>1 DEF WriteUp, Separate
<1>5. Stored' /\ done25'.write /\ NoReset'
  <2>1. CASE Stay
    BY <1>1, <2>1 DEF Stay, Stored, NoReset
  <2>2. CASE Plain
    <3>1. regs'[request.line] = [data25 EXCEPT ![request.word] = request.value]
      BY <1>4, <2>2, WriteIs DEF AccessInv
    <3>2. data25' = data25 /\ done25'.write
      BY <1>4, <2>2 DEF Plain
    <3>3. down2.request = request
      BY <1>4 DEF AccessInv, PassInv
    <3>4. NoReset'
      BY <1>1, <2>2, <3>3 DEF Plain, NoReset
    <3> QED
      BY <3>1, <3>2, <3>4 DEF Stored
  <2> QED
    BY <1>2, <2>1, <2>2
<1>6. ResetInv'
  BY <1>5 DEF NoReset, ResetInv
<1>7. ASSUME ~WriteDone PROVE StateInv'
  <2>1. StoreInv'
    BY <1>3, <1>5 DEF StoreInv
  <2> QED
    BY <1>7, <2>1 DEF StateInv, IdleInv, UnknownInv, ReadInv, FetchInv, DoneInv
<1>8. ASSUME WriteDone PROVE StateInv'
  <2>1. WriteDown' /\ down1'.enable.write /\ down2'.enable.write
    BY <1>1, <1>2, <1>8, WriteTurns DEF WriteDone
  <2>2. DoneWrite'
    BY <1>3, <1>5, <2>1 DEF DoneWrite
  <2>3. DoneInv'
    BY <2>2 DEF DoneInv
  <2> QED
    BY <1>8, <2>3 DEF StateInv, IdleInv, UnknownInv, ReadInv, FetchInv, StoreInv
<1> QED
  BY <1>6, <1>7, <1>8

LEMMA StoreReset ==
    ASSUME AccessInv, StoreStep, done25.write, request.kind = "reset"
    PROVE  StateInv' /\ ResetInv'
<1> USE DEF StoreStep
<1>1. WriteUp /\ reset[1] /\ ~reset[2] /\ ~tvalid /\ ResetSet
  BY DEF AccessInv, StateInv, StoreInv, ResetInv
<1>2. Stay
  <2>1. phase # 0
    BY <1>1 DEF ResetSet, Past
  <2> QED
    BY <2>1 DEF Plain, Forced, Moved
<1>3. WriteUp' /\ reset'[1] /\ ~reset'[2] /\ done25'.write
  BY <1>1, <1>2, WriteUpOn DEF Stay
<1>4. open' = request
  BY <1>1, CarryReset DEF ResetSet
<1>5. ResetSet'
  <2>1. /\ ~enable'[1].read /\ ~enable'[2].read /\ ~down1'.enable.read /\ ~down2'.enable.read
        /\ down2'.enable.write /\ done25'.write
    BY <1>1, <1>2 DEF ResetSet, FastLevels, Stay
  <2>2. writeDone'[1]
    BY DEF FastLevels
  <2>3. writeDone'[2] = writeDone[1]
    BY DEF FastLevels
  <2>4. Past(3)' => writeDone'[2]
    BY <1>1, <1>2, <2>3 DEF ResetSet, Stay
  <2>5. Past(4)' => state' = "wait_rw_done"
    BY <1>1, <1>2 DEF ResetSet, Stay, WriteDone
  <2>6. ~Past(5)' /\ ~Past(6)'
    <3>1. ~Past(4)
      BY <1>1 DEF ResetSet
    <3>2. ~Past(5)
      BY <3>1, <1>2 DEF Past, AccessInv, TypeOK
    <3> QED
      BY <3>1, <3>2, <1>2 DEF Stay
  <2>7. state' = "wait_rw_done" => writeDone'[2]
    BY <1>1, <2>3 DEF WriteDone, WriteUp
  <2> QED
    BY <1>4, <2>1, <2>2, <2>4, <2>5, <2>6, <2>7 DEF ResetSet
<1>6. ResetInv'
  BY <1>3, <1>5 DEF ResetInv
<1>7. StoreInv'
  BY <1>3 DEF StoreInv
<1>8. DoneInv'
  BY <1>3 DEF DoneInv, DoneReset, NoReset
<1> QED
  BY <1>6, <1>7, <1>8 DEF StateInv, IdleInv, UnknownInv, ReadInv, FetchInv

LEMMA StoreOn == ASSUME AccessInv, StoreStep PROVE Keeps
<1>1. request.kind \in {"write", "reset"}
  BY DEF AccessInv, StateInv, StoreInv, StoreStep
<1>2. PassInv'
  BY <1>1, PassOn DEF AccessInv, StoreStep
<1> QED
  BY <1>1, <1>2, StoreBefore, StoreAgain, StoreReset DEF Keeps

WaitStep ==
    /\ state = "wait_rw_done"
    /\ state' = IF ReadDone \/ WriteDone THEN state ELSE "idle"
    /\ FastLevels(FALSE, FALSE) /\ (Stay \/ Plain \/ Forced) /\ Carry(TRUE)
    /\ request' = request /\ target' = target /\ ~tvalid'

LEMMA WaitRead ==
    ASSUME AccessInv, WaitStep, request.kind = "read"
    PROVE  StateInv' /\ ResetInv'
<1> USE DEF WaitStep
<1>1. DoneRead /\ NoReset
  BY DEF AccessInv, StateInv, DoneInv, PassInv
<1>2. /\ ReadDown /\ WriteOff
      /\ ~down1.enable.read => Since(2)
      /\ ~down2.enable.read => Since(3)
      /\ ~done25.read => Since(4)
      /\ tvalid => readDone[4]
      /\ ~tvalid => open = None
  BY <1>1 DEF DoneRead
<1>3. Stay \/ Plain
  BY <1>1 DEF NoReset, Forced
<1>4. ReadDown' /\ WriteOff' /\ NoReset'
  BY <1>1, <1>2, <1>3, ReadDownOn, WriteOffOn, NoResetOn
<1>5. open' = None
  BY <1>2, CarryNone, CarryAnswered
<1>6. ~TakesEffect
  BY <1>2 DEF ReadDown, WriteOff, TakesEffect
<1>7. /\ ~down1'.enable.read => Since(2)'
      /\ ~down2'.enable.read => Since(3)'
      /\ ~done25'.read => Since(4)'
  <2>1. CASE Stay
    BY <1>2, <2>1 DEF Stay, Since
  <2>2. CASE Plain
    <3>1. Since(2)'
      BY <1>6, <2>2, SinceMore DEF AccessInv, PassInv
    <3>2. ~down1.enable.read => Since(3)'
      BY <1>2, <1>6, <2>2, SinceMore
    <3>3. ~down2.enable.read => Since(4)'
      BY <1>2, <1>6, <2>2, SinceMore
    <3> QED
      BY <2>2, <3>1, <3>2, <3>3 DEF Plain, Moved
  <2> QED
    BY <1>3, <2>1, <2>2
<1>8. ResetInv'
  BY <1>4 DEF NoReset, ResetInv
<1>9. ASSUME ReadDone \/ WriteDone PROVE StateInv'
  <2>1. DoneRead'
    BY <1>4, <1>5, <1>7 DEF DoneRead
  <2>2. DoneInv'
    BY <2>1 DEF DoneInv
  <2> QED
    BY <1>9, <2>2 DEF StateInv, IdleInv, UnknownInv, ReadInv, FetchInv, StoreInv
<1>10. ASSUME ~ReadDone PROVE ReadOff /\ Since(4)
  BY <1>2, <1>10 DEF ReadDone, ReadDown, ReadOff
<1>11. ASSUME ~ReadDone, ~WriteDone PROVE StateInv'
  <2>0. ReadOff /\ Since(4)
    BY <1>10, <1>11
  <2>1. ReadOff'
    BY <1>3, <2>0, ReadOffOn
  <2>2. Since(4)'
    BY <1>3, <1>6, <2>0, SinceOn
  <2>3. IdleInv'
    BY <1>4, <1>5, <2>1, <2>2 DEF IdleInv
  <2> QED
    BY <1>11, <2>3 DEF StateInv, UnknownInv, ReadInv, FetchInv, StoreInv, DoneInv
<1> QED
  BY <1>8, <1>9, <1>11

LEMMA WaitWrite ==
    ASSUME AccessInv, WaitStep, request.kind = "write"
    PROVE  StateInv' /\ ResetInv'
<1> USE DEF WaitStep
<1>1. DoneWrite /\ NoReset
  BY DEF AccessInv, StateInv, DoneInv, PassInv
<1>2. /\ ReadDown /\ WriteDown /\ Separate /\ open = None /\ ~tvalid
      /\ down2.enable.write => Stored
      /\ ~down1.enable.write => Since(2)
      /\ ~down2.enable.write => Since(3)
      /\ ~done25.write => Since(4)
  BY <1>1 DEF DoneWrite
<1>3. Stay \/ Plain
  BY <1>1 DEF NoReset, Forced
<1>4. ReadDown' /\ WriteDown' /\ Separate' /\ open' = None
  BY <1>2, <1>3, ReadDownOn, WriteDownOn, SeparateOn, CarryNone
<1>5. NoReset'
  <2>1. down2.enable.write => down2.request = request
    BY DEF AccessInv, PassInv
  <2> QED
    BY <1>1, <1>3, <2>1 DEF NoReset, Stay, Plain
<1>6. ~TakesEffect
  BY <1>2 DEF ReadDown, WriteDown, TakesEffect
<1>7. /\ ~down1'.enable.write => Since(2)'
      /\ ~down2'.enable.write => Since(3)'
      /\ ~done25'.write => Since(4)'
  <2>1. CASE Stay
    BY <1>2, <2>1 DEF Stay, Since
  <2>2. CASE Plain
    <3>1. Since(2)'
      BY <1>6, <2>2, SinceMore DEF AccessInv, PassInv
    <3>2. ~down1.enable.write => Since(3)'
      BY <1>2, <1>6, <2>2, SinceMore
    <3>3. ~down2.enable.write => Since(4)'
      BY <1>2, <1>6, <2>2, SinceMore
    <3> QED
      BY <2>2, <3>1, <3>2, <3>3 DEF Plain, Moved
  <2> QED
    BY <1>3, <2>1, <2>2
<1>8. down2'.enable.write => Stored'
  <2>1. CASE Stay
    BY <1>2, <2>1 DEF Stay, Stored
  <2>2. ASSUME Plain, down1.enable.write PROVE Stored'
    <3>1. down2.enable.write /\ ~down2.enable.read
      BY <1>2, <2>2 DEF WriteDown, Separate
    <3>2. regs'[request.line] = [data25 EXCEPT ![request.word] = request.value]
      BY <2>2, <3>1, WriteIs DEF AccessInv
    <3>3. data25' = data25
      BY <2>2, <3>1 DEF Plain
    <3> QED
      BY <3>2, <3>3 DEF Stored
  <2> QED
    BY <1>3, <2>1, <2>2 DEF Plain, Moved
<1>9. ResetInv'
  BY <1>5 DEF NoReset, ResetInv
<1>10. ASSUME ReadDone \/ WriteDone PROVE StateInv'
  <2>1. DoneWrite'
    BY <1>4, <1>7, <1>8 DEF DoneWrite
  <2>2. DoneInv'
    BY <2>1 DEF DoneInv
  <2> QED
    BY <1>10, <2>2 DEF StateInv, IdleInv, UnknownInv, ReadInv, FetchInv, StoreInv
<1>11. ASSUME ~ReadDone, ~WriteDone PROVE ReadOff /\ WriteOff /\ Since(4)
  BY <1>2, <1>11 DEF ReadDone, WriteDone, ReadDown, WriteDown, ReadOff, WriteOff
<1>12. ASSUME ~ReadDone, ~WriteDone PROVE StateInv'
  <2>0. ReadOff /\ WriteOff /\ Since(4)
    BY <1>11, <1>12
  <2>1. ReadOff' /\ WriteOff'
    BY <1>3, <2>0, ReadOffOn, WriteOffOn
  <2>2. Since(4)'
    BY <1>3, <1>6, <2>0, SinceOn
  <2>3. IdleInv'
    BY <1>4, <1>5, <2>1, <2>2 DEF IdleInv
  <2> QED
    BY <1>12, <2>3 DEF StateInv, UnknownInv, ReadInv, FetchInv, StoreInv, DoneInv
<1> QED
  BY <1>9, <1>10, <1>12

\* The reset of the registers ends itself, and the completer with it.
LEMMA WaitReset ==
    ASSUME AccessInv, WaitStep, request.kind = "reset"
    PROVE  StateInv' /\ ResetInv'
<1> USE DEF WaitStep
<1>1. DoneReset /\ ResetInv
  BY DEF AccessInv, StateInv, DoneInv
<1>0. ~tvalid /\ Since(1)
  BY <1>1 DEF DoneReset, AccessInv, PassInv
<1>i. ASSUME DoneReset', WriteDone \/ ReadDone PROVE StateInv'
  <2>1. DoneInv'
    BY <1>i DEF DoneInv
  <2> QED
    BY <1>i, <2>1 DEF StateInv, IdleInv, UnknownInv, ReadInv, FetchInv, StoreInv
<1>2. ASSUME NoReset PROVE StateInv' /\ ResetInv'
  <2>1. ReadDown /\ WriteDown /\ open = None /\ Since(4)
        /\ ~down2.enable.write /\ ~down2.enable.read
    BY <1>1, <1>2 DEF DoneReset
  <2>2. Stay \/ Plain
    BY <1>2 DEF NoReset, Forced
  <2>3. ReadDown' /\ WriteDown' /\ open' = None
    BY <2>1, <2>2, ReadDownOn, WriteDownOn, CarryNone
  <2>4. NoReset'
    BY <1>2, <2>1, <2>2 DEF NoReset, Stay, Plain
  <2>5. Since(4)'
    BY <2>1, <2>2, SinceOn DEF TakesEffect
  <2>6. ~down2'.enable.write /\ ~down2'.enable.read
    BY <2>1, <2>2 DEF ReadDown, WriteDown, Stay, Plain, Moved
  <2>7. ResetInv'
    BY <2>4 DEF NoReset, ResetInv
  <2>8. DoneReset'
    BY <2>3, <2>5, <2>6 DEF DoneReset
  <2>9. ASSUME ~ReadDone, ~WriteDone PROVE StateInv'
    <3>1. ReadOff /\ WriteOff
      BY <2>1, <2>9 DEF ReadDone, WriteDone, ReadDown, WriteDown, ReadOff, WriteOff
    <3>2. ReadOff' /\ WriteOff'
      BY <2>2, <3>1, ReadOffOn, WriteOffOn
    <3>3. IdleInv'
      BY <2>3, <2>4, <2>5, <3>2 DEF IdleInv
    <3> QED
      BY <2>9, <3>3 DEF StateInv, UnknownInv, ReadInv, FetchInv, StoreInv, DoneInv
  <2> QED
    BY <1>i, <2>7, <2>8, <2>9
<1>3. ASSUME reset[1], ~reset[2] PROVE StateInv' /\ ResetInv'
  <2>1. ResetSet
    BY <1>1, <1>3 DEF ResetInv
  <2>2. /\ open = request /\ writeDone[1] /\ writeDone[2]
        /\ ~enable[1].read /\ ~enable[2].read /\ ~down1.enable.read /\ ~down2.enable.read
        /\ down2.enable.write /\ done25.write
        /\ Past(5) => ~enable[1].write
        /\ Past(6) => ~enable[2].write
    BY <2>1 DEF ResetSet
  <2>3. open' = request
    BY <1>0, <1>3, <2>2, CarryReset
  <2>4. WriteDone /\ state' = "wait_rw_done"
    BY <2>2 DEF WriteDone
  <2>5. CASE Stay
    <3>1. /\ ~enable'[1].read /\ ~enable'[2].read
          /\ ~down1'.enable.read /\ ~down2'.enable.read
          /\ down2'.enable.write /\ done25'.write /\ reset'[1] /\ ~reset'[2]
          /\ writeDone'[1] /\ writeDone'[2] /\ ~enable'[1].write
      BY <1>3, <2>2, <2>5 DEF FastLevels, Stay
    <3>2. Past(6)' => ~enable'[2].write
      BY <2>2, <2>5 DEF FastLevels, Stay
    <3>3. ResetSet'
      BY <2>3, <2>4, <3>1, <3>2 DEF ResetSet
    <3>4. ResetInv'
      BY <3>1, <3>3 DEF ResetInv
    <3>5. DoneReset'
      BY <3>1 DEF DoneReset, NoReset
    <3> QED
      BY <1>i, <2>4, <3>4, <3>5
  <2>6. CASE Plain
    <3>0. ~enable[1].write /\ ~enable[2].write
      BY <2>2, <2>6 DEF Plain, Moved, Past
    <3>1. /\ ~enable'[1].read /\ ~enable'[2].read
          /\ ~down1'.enable.read /\ ~down2'.enable.read
          /\ ~enable'[1].write /\ ~enable'[2].write /\ ~down1'.enable.write
          /\ done25'.write /\ writeDone'[1] /\ writeDone'[2]
          /\ reset'[1] /\ reset'[2]
      BY <1>3, <2>2, <2>6, <3>0 DEF FastLevels, Plain, Moved
    <3>2. Since(2)'
      BY <1>0, <2>2, <2>6, SinceMore DEF TakesEffect
    <3>3. ResetInv'
      BY <2>3, <2>4, <3>1, <3>2 DEF ResetInv, ResetSeen
    <3>4. DoneReset'
      BY <3>1 DEF DoneReset, NoReset
    <3> QED
      BY <1>i, <2>4, <3>3, <3>4
  <2> QED
    BY <1>3, <2>5, <2>6 DEF Forced
<1>4. ASSUME reset[2] PROVE StateInv' /\ ResetInv'
  <2>1. /\ ~enable[1].read /\ ~enable[2].read /\ ~down1.enable.read /\ ~down2.enable.read
        /\ ~enable[1].write /\ ~enable[2].write /\ ~down1.enable.write
        /\ done25.write /\ writeDone[1] /\ writeDone[2]
    BY <1>1, <1>4 DEF ResetInv, ResetSeen
  <2>2. WriteDone /\ state' = "wait_rw_done"
    BY <2>1 DEF WriteDone
  <2>3. ~TakesEffect
    BY <2>1 DEF TakesEffect
  <2>4. /\ ~enable'[1].read /\ ~enable'[2].read
        /\ ~enable'[1].write /\ ~enable'[2].write
        /\ writeDone'[1] /\ writeDone'[2] /\ readDone'[1] = done25.read
        /\ readDone'[2] = readDone[1] /\ readDone'[3] = readDone[2] /\ readDone'[4] = readDone[3]
    BY <2>1 DEF FastLevels
  <2>5. ~down1'.enable.read /\ ~down2'.enable.read /\ ~down1'.enable.write /\ done25'.write
    BY <1>4, <2>1 DEF Stay, Plain, Forced, Moved
  <2>6. ResetSeen'
    BY <2>2, <2>4, <2>5 DEF ResetSeen
  <2>7. CASE Stay
    <3>1. reset' = reset /\ regs' = regs /\ down2' = down2 /\ done25' = done25
      BY <2>7 DEF Stay
    <3>2. open' = open
      BY <1>0, <1>1, <1>4, <2>7, CarryReset, CarryNone DEF ResetInv, ResetOver, Stay
    <3>3. \A n \in 2..3 : Since(n) => Since(n)'
      BY <2>7, SinceOn
    <3>4. reset[1] => open' = request' /\ Since(2)'
      BY <1>1, <1>4, <3>2, <3>3 DEF ResetInv
    <3>5. ASSUME ~reset[1] PROVE ResetOver'
      <4>1. ResetOver
        BY <1>1, <1>4, <3>5 DEF ResetInv
      <4>2. open' = None /\ regs' = Start /\ ~down2'.enable.write /\ done25'.read /\ Since(3)'
        BY <3>1, <3>2, <3>3, <4>1 DEF ResetOver
      <4>3. /\ readDone'[1]
            /\ Past(3)' => readDone'[2]
            /\ Past(4)' => readDone'[3]
            /\ Past(5)' => readDone'[4]
        BY <2>4, <2>7, <4>1 DEF ResetOver, Stay
      <4> QED
        BY <4>2, <4>3 DEF ResetOver
    <3>6. ResetInv'
      BY <1>4, <2>6, <3>1, <3>4, <3>5 DEF ResetInv
    <3>7. DoneReset'
      BY <1>4, <3>1 DEF DoneReset, NoReset
    <3> QED
      BY <1>i, <2>2, <3>6, <3>7
  <2>8. CASE Forced /\ reset[1]
    <3>1. ~reset'[1] /\ reset'[2] /\ regs' = Start /\ done25'.read /\ ~down2'.enable.write
      BY <2>1, <2>8 DEF Forced, Moved
    <3>2. open = request /\ Since(2)
      BY <1>1, <1>4, <2>8 DEF ResetInv
    <3>3. open' = None
      BY <1>0, <1>4, <2>8, <3>2, CarryReset DEF Forced, Moved
    <3>4. Since(3)'
      BY <2>3, <2>8, <3>2, SinceMore
    <3>5. \A n \in 2..5 : ~Past(n)'
      BY <2>8 DEF Forced, Moved, Past
    <3>6. ResetOver'
      BY <3>1, <3>3, <3>4, <3>5 DEF ResetOver
    <3>7. ResetInv'
      BY <2>6, <3>1, <3>6 DEF ResetInv
    <3>8. DoneReset'
      BY <3>1 DEF DoneReset, NoReset
    <3> QED
      BY <1>i, <2>2, <3>7, <3>8
  <2>9. CASE Forced /\ ~reset[1]
    <3>1. NoReset' /\ done25'.read /\ ~down2'.enable.write
      BY <2>1, <2>9 DEF Forced, Moved, NoReset
    <3>2. ResetOver
      BY <1>1, <1>4, <2>9 DEF ResetInv
    <3>3. readDone[1] /\ readDone[2] /\ readDone[3] /\ readDone[4] /\ done25.read
      BY <2>9, <3>2 DEF ResetOver, Forced, Moved, Past
    <3>4. open' = None
      BY <3>2, CarryNone DEF ResetOver
    <3>5. Since(4)'
      BY <2>3, <2>9, <3>2, SinceMore DEF ResetOver
    <3>6. ReadDown' /\ WriteDown'
      BY <2>4, <2>5, <3>1, <3>3 DEF ReadDown, WriteDown
    <3>7. DoneReset'
      BY <2>5, <3>1, <3>4, <3>5, <3>6 DEF DoneReset
    <3>8. ResetInv'
      BY <3>1 DEF NoReset, ResetInv
    <3> QED
      BY <1>i, <2>2, <3>7, <3>8
  <2> QED
    BY <1>4, <2>7, <2>8, <2>9 DEF Plain
<1>5. NoReset \/ (reset[1] /\ ~reset[2]) \/ reset[2]
  BY DEF NoReset
<1> QED
  BY <1>2, <1>3, <1>4, <1>5

LEMMA WaitOn == ASSUME AccessInv, WaitStep PROVE Keeps
<1>1. request.kind \in {"read", "write", "reset"}
  BY RequestForm DEF AccessInv, StateInv, DoneInv, WaitStep
<1>2. PassInv'
  BY PassOn DEF AccessInv, WaitStep
<1> QED
  BY <1>1, <1>2, WaitRead, WaitWrite, WaitReset DEF Keeps

LEMMA AccessAtStart == ASSUME Lines # {}, Words # {}, Init PROVE AccessInv
<1>1. TypeOK
  BY TypeAtStart
<1>2. request.kind = "read"
  BY DEF Init, Cleared
<1>3. ~Off.read /\ ~Off.write
  BY DEF Off
<1>4. down1.enable = Off /\ down2.enable = Off /\ enable[1] = Off /\ enable[2] = Off /\ done25 = Off
  BY DEF Init, Quiet
<1>5. ReadOff /\ WriteOff
  BY <1>3, <1>4 DEF Init, ReadOff, WriteOff
<1>6. NoReset
  BY DEF Init, NoReset
<1>7. Since(1) /\ Since(4)
  BY DEF Init, Since
<1>8. PassInv
  BY <1>5, <1>6, <1>7 DEF Init, PassInv, ReadOff, WriteOff
<1>9. IdleInv
  BY <1>2, <1>5, <1>6, <1>7 DEF Init, IdleInv
<1>10. StateInv
  BY <1>9 DEF Init, StateInv, UnknownInv, ReadInv, FetchInv, StoreInv, DoneInv
<1> QED
  BY <1>1, <1>6, <1>8, <1>10 DEF AccessInv, NoReset, ResetInv

\* The parts of a step that do not depend on the state of the completer.
LEMMA RestIs ==
    ASSUME TypeOK, Paced, Rest(TRUE)
    PROVE  RegSync250 /\ (Stay \/ Plain \/ Forced)
<1>1. RegSync250 /\ Slow /\ phase' = (phase + 1) % Ratio
  BY DEF Rest
<1> QED
  BY <1>1, SlowEdge DEF Paced

LEMMA TakeOn ==
    ASSUME AccessInv, Paced, NEW r \in Requests,
           MayFollow, Accept(r), Rest(TRUE), open' = r
    PROVE  Keeps
<1>1. TypeOK
  BY DEF AccessInv
<1>2. RegSync250 /\ (Stay \/ Plain \/ Forced)
  BY <1>1, RestIs
<1>3. FastLevels(TRUE, FALSE)
  <2>1. Enable(TRUE, FALSE)
    BY DEF Accept
  <2> QED
    BY <1>1, <1>2, <2>1, FastEdge
<1> QED
  BY <1>2, <1>3, AcceptOn DEF Paced

LEMMA WorkOn ==
    ASSUME AccessInv, Paced, Rest(TRUE), Carry(TRUE),
           \/ Idle
           \/ ReadRegister(TRUE)
           \/ WriteRegisterRead
           \/ WriteRegisterModifyWrite(TRUE)
           \/ WaitRwDone
           \/ SendUnknownRequest(TRUE)
    PROVE  Keeps
<1>1. TypeOK
  BY DEF AccessInv
<1>2. RegSync250 /\ (Stay \/ Plain \/ Forced)
  BY <1>1, RestIs
<1>3. ReadDone \in BOOLEAN
  BY <1>1 DEF TypeOK, ReadDone
<1>f. ASSUME NEW a \in BOOLEAN, NEW b \in BOOLEAN, Enable(a, b) PROVE FastLevels(a, b)
  BY <1>1, <1>2, <1>f, FastEdge
<1>4. ASSUME Idle PROVE Keeps
  <2>1. FastLevels(FALSE, FALSE)
    BY <1>4, <1>f DEF Idle
  <2>2. request' = request /\ target' = target /\ ~tvalid' /\ tdata' = tdata
    BY <1>4 DEF Idle
  <2> QED
    BY <1>2, <1>4, <2>1, <2>2, IdleOn
<1>5. ASSUME ReadRegister(TRUE) PROVE Keeps
  <2>1. FastLevels(~ReadDone, FALSE)
    BY <1>3, <1>5, <1>f DEF ReadRegister
  <2>2. /\ request' = request /\ target' = target
        /\ tvalid' = ReadDone /\ tdata' = readData[2][request.word]
        /\ state = "read_register" /\ state' = IF ReadDone THEN "wait_rw_done" ELSE state
    BY <1>5 DEF ReadRegister
  <2> QED
    BY <1>2, <2>1, <2>2, ReadOn
<1>6. ASSUME WriteRegisterRead PROVE Keeps
  <2>1. FastLevels(~ReadDone, FALSE)
    BY <1>3, <1>6, <1>f DEF WriteRegisterRead
  <2>2. /\ request' = request /\ target' = target /\ ~tvalid'
        /\ state = "write_register_read"
        /\ state' = IF ReadDone THEN "write_register_modifywrite" ELSE state
    BY <1>6 DEF WriteRegisterRead
  <2> QED
    BY <1>2, <2>1, <2>2, FetchOn
<1>7. ASSUME WriteRegisterModifyWrite(TRUE) PROVE Keeps
  <2>1. FastLevels(FALSE, TRUE)
    BY <1>7, <1>f DEF WriteRegisterModifyWrite
  <2>2. StoreStep
    BY <1>2, <1>7, <2>1 DEF WriteRegisterModifyWrite, StoreStep
  <2> QED
    BY <2>2, StoreOn
<1>8. ASSUME WaitRwDone PROVE Keeps
  <2>1. FastLevels(FALSE, FALSE)
    BY <1>8, <1>f DEF WaitRwDone
  <2>2. WaitStep
    BY <1>2, <1>8, <2>1 DEF WaitRwDone, WaitStep
  <2> QED
    BY <2>2, WaitOn
<1>9. ASSUME SendUnknownRequest(TRUE) PROVE Keeps
  <2>1. FastLevels(FALSE, FALSE)
    BY <1>9, <1>f DEF SendUnknownRequest
  <2>2. /\ request' = request /\ target' = target /\ tvalid' /\ tdata' = "unsupported"
        /\ state = "send_unknown" /\ state' = "idle"
    BY <1>9 DEF SendUnknownRequest
  <2> QED
    BY <1>2, <2>1, <2>2, SendOn
<1> QED
  BY <1>4, <1>5, <1>6, <1>7, <1>8, <1>9

LEMMA AccessStep == ASSUME AccessInv, Paced, [Next]_vars PROVE AccessInv'
<1>1. TypeOK'
  BY TypeStep DEF AccessInv
<1>0. Ready = {TRUE}
  BY DEF Paced, Ready
<1>2. ASSUME Take PROVE Keeps
  <2>1. PICK r \in Requests : Accept(r) /\ Rest(TRUE) /\ open' = r
    BY <1>0, <1>2 DEF Take
  <2> QED
    BY <1>2, <2>1, TakeOn DEF Take
<1>3. ASSUME Work PROVE Keeps
  BY <1>0, <1>3, WorkOn DEF Work
<1>4. ASSUME UNCHANGED vars PROVE Keeps
  <2>1. PassInv'
    BY <1>4 DEF AccessInv, PassInv, Since, NoReset, WriteOff, vars, fast, up, slow
  <2>2. IdleInv' /\ UnknownInv'
    BY <1>4 DEF AccessInv, StateInv, IdleInv, UnknownInv, Since, NoReset, WriteOff, ReadOff,
                vars, fast, up, slow
  <2>3. Gather => Gather'
    BY <1>4 DEF Gather, ReadUp, WriteOff, NoReset, Since, vars, fast, up, slow
  <2>4. ReadInv' /\ FetchInv'
    BY <1>4, <2>3 DEF AccessInv, StateInv, ReadInv, FetchInv, Since, vars, fast, up, slow
  <2>5. StoreInv'
    BY <1>4 DEF AccessInv, StateInv, StoreInv, Before, ReadDown, WriteUp, Separate, NoReset,
                Since, Stored, vars, fast, up, slow
  <2>6. DoneInv'
    BY <1>4 DEF AccessInv, StateInv, DoneInv, DoneRead, DoneWrite, DoneReset, ReadDown,
                WriteDown, WriteOff, Separate, NoReset, Since, Stored, vars, fast, up, slow
  <2>7. ResetInv'
    BY <1>4 DEF AccessInv, ResetInv, ResetSet, ResetSeen, ResetOver, Past, Since,
                vars, fast, up, slow
  <2> QED
    BY <2>1, <2>2, <2>4, <2>5, <2>6, <2>7 DEF Keeps, StateInv
<1>5. Keeps
  BY <1>2, <1>3, <1>4 DEF Next
<1> QED
  BY <1>1, <1>5 DEF AccessInv, Keeps

\* The level of a write is up before its effect only in the state that set
\* it, and that of a read has been up for a slow clock.
LEMMA AccessApart == ASSUME AccessInv, Paced PROVE AccessesApart
<1>1. SUFFICES ASSUME TakesEffect, phase = 0 PROVE since = Apart
  BY DEF AccessesApart
<1>2. since \in 0..Apart /\ state \in States
  BY DEF AccessInv, TypeOK
<1>3. Since(6) => since = Apart
  BY <1>2 DEF Since, Paced
<1>4. down2.enable.read \/ down2.enable.write => down2.request = request
  BY DEF AccessInv, PassInv
<1>5. ASSUME down2.enable.read, ~done25.read, request.kind = "read" PROVE Since(6)
  <2>1. CASE state = "idle"
    BY <1>5, <2>1 DEF AccessInv, StateInv, IdleInv, ReadOff
  <2>2. CASE state = "read_register"
    BY <1>5, <2>2 DEF AccessInv, StateInv, ReadInv, Gather
  <2>3. CASE state = "wait_rw_done"
    BY <1>5, <2>3 DEF AccessInv, StateInv, DoneInv, DoneRead, ReadDown
  <2>4. state \notin {"write_register_read", "write_register_modifywrite", "send_unknown"}
    BY <1>5 DEF AccessInv, StateInv, FetchInv, StoreInv, UnknownInv
  <2> QED
    BY <1>2, <2>1, <2>2, <2>3, <2>4 DEF States
<1>6. ASSUME down2.enable.write, ~done25.write PROVE Since(6)
  <2>1. request.kind \in {"write", "reset"}
    BY <1>6 DEF AccessInv, PassInv, WriteOff
  <2>2. CASE state = "write_register_modifywrite"
    BY <1>6, <2>2 DEF AccessInv, StateInv, StoreInv, Before
  <2>3. CASE state = "wait_rw_done"
    <3>1. CASE request.kind = "write"
      BY <1>6, <2>3, <3>1 DEF AccessInv, StateInv, DoneInv, DoneWrite, WriteDown
    <3>2. CASE request.kind = "reset"
      <4>1. CASE NoReset
        BY <1>6, <2>3, <3>2, <4>1 DEF AccessInv, StateInv, DoneInv, DoneReset
      <4>2. CASE ~NoReset
        BY <1>6, <3>2, <4>2 DEF AccessInv, ResetInv, ResetSet, ResetSeen, NoReset
      <4> QED
        BY <4>1, <4>2
    <3> QED
      BY <2>1, <3>1, <3>2
  <2>4. state # "idle"
    BY <1>6 DEF AccessInv, StateInv, IdleInv, WriteOff
  <2>5. state \notin {"read_register", "write_register_read", "send_unknown"}
    BY <1>6 DEF AccessInv, StateInv, ReadInv, FetchInv, UnknownInv, Gather, WriteOff
  <2> QED
    BY <1>2, <2>2, <2>3, <2>4, <2>5 DEF States
<1> QED
  BY <1>1, <1>3, <1>4, <1>5, <1>6 DEF TakesEffect

\* Two accesses take effect at least Apart slow clocks after each other: the
\* levels of the first have to come up, and down again, before the second
\* (dma_control.vhd:488-498, regSync25).
THEOREM EffectsApart ==
    ASSUME Paced, Lines # {}, Words # {}
    PROVE  Spec => []AccessesApart
<1>1. Init => AccessInv
  BY AccessAtStart
<1>2. AccessInv /\ [Next]_vars => AccessInv'
  BY AccessStep
<1>3. AccessInv => AccessesApart
  BY AccessApart
<1> QED
  BY <1>1, <1>2, <1>3, PTL DEF Spec

-----------------------------------------------------------------------------
(***************************************************************************)
(* The path is a register file: what an edge does to the table, and what   *)
(* the host sees of it.                                                    *)
(***************************************************************************)
LEMMA OpenForm == ASSUME AccessInv, open = request PROVE open # None
  BY RequestForm DEF AccessInv, None

LEMMA StrobesStay ==
    ASSUME TypeOK, TypeOK', Plain \/ Forced, \A l \in Lines : ~Rises(l)
    PROVE  strobe' = strobe
<1>1. \A l \in Lines : strobe'[l] = strobe[l]
  BY DEF Plain, Forced, Moved
<1>2. strobe \in [Lines -> 0..1] /\ strobe' \in [Lines -> 0..1]
  BY DEF TypeOK
<1> QED
  BY <1>1, <1>2

\* A write that is done anew leaves the table as it is, and its strobe up.
LEMMA TableStays ==
    ASSUME AccessInv, TypeOK',
           Stay \/ (Plain /\ (~down2.enable.write \/ done25.write \/ request.kind # "write"))
    PROVE  regs' = regs /\ strobe' = strobe
<1>0. TypeOK /\ PassInv
  BY DEF AccessInv
<1>1. CASE Stay
  BY <1>1 DEF Stay
<1>2. ASSUME Plain, ~down2.enable.write \/ request.kind # "write" PROVE regs' = regs /\ strobe' = strobe
  <2>1. down2.enable.write => down2.request = request
    BY <1>0 DEF PassInv
  <2>2. \A l \in Lines : ~Rises(l)
    BY <1>2, <2>1 DEF Plain, Rises
  <2> QED
    BY <1>0, <1>2, <2>1, <2>2, StrobesStay DEF Plain
<1>3. ASSUME Plain, down2.enable.write, done25.write, request.kind = "write"
      PROVE  regs' = regs /\ strobe' = strobe
  <2>1. down2.request = request /\ down2.target = request
    BY <1>0, <1>3 DEF PassInv
  <2>2. \A l \in Lines : ~Rises(l)
    BY <1>0, <1>3, <2>1 DEF PassInv, Plain, Rises
  <2>3. Stored
    <3>1. state \in {"write_register_modifywrite", "wait_rw_done"}
      <4>1. state \in States
        BY <1>0 DEF TypeOK
      <4>2. state # "idle"
        BY <1>3 DEF AccessInv, StateInv, IdleInv, WriteOff
      <4> QED
        BY <1>3, <4>1, <4>2
        DEF States, AccessInv, StateInv, UnknownInv, ReadInv, FetchInv, Gather, WriteOff
    <3> QED
      BY <1>3, <3>1 DEF AccessInv, StateInv, StoreInv, DoneInv, DoneWrite
  <2>4. regs' = [regs EXCEPT ![request.line] = regs[request.line]]
    <3>1. WriteData = [data25 EXCEPT ![request.word] = request.value]
      BY <2>1 DEF WriteData
    <3> QED
      BY <1>3, <2>1, <2>3, <3>1 DEF Plain, Stored
  <2>5. regs' = regs
    BY <1>0, <2>4 DEF TypeOK
  <2> QED
    BY <1>0, <1>3, <2>2, <2>5, StrobesStay
<1> QED
  BY <1>1, <1>2, <1>3

LEMMA TableWrites ==
    ASSUME AccessInv, TypeOK', Plain, down2.enable.write, ~done25.write, request.kind = "write"
    PROVE  /\ open = request
           /\ regs' = [regs EXCEPT ![request.line][request.word] = request.value]
           /\ strobe' = [strobe EXCEPT ![request.line] = 1 - @]
<1>0. TypeOK /\ PassInv /\ request.line \in Lines /\ request.word \in Words
  BY RequestForm DEF AccessInv
<1>1. down2.request = request /\ down2.target = request
  BY <1>0 DEF PassInv
<1>2. state = "write_register_modifywrite"
  <2>1. state \in States
    BY <1>0 DEF TypeOK
  <2>2. state # "idle"
    BY DEF AccessInv, StateInv, IdleInv, WriteOff
  <2>3. state # "wait_rw_done"
    BY DEF AccessInv, StateInv, DoneInv, DoneWrite, WriteDown
  <2> QED
    BY <2>1, <2>2, <2>3
    DEF States, AccessInv, StateInv, UnknownInv, ReadInv, FetchInv, Gather, WriteOff
<1>3. open = request /\ data25 = regs[request.line]
  BY <1>2 DEF AccessInv, StateInv, StoreInv, Before
<1>4. WriteData = [regs[request.line] EXCEPT ![request.word] = request.value]
  BY <1>1, <1>3 DEF WriteData
<1>5. regs' = [regs EXCEPT ![request.line][request.word] = request.value]
  <2>1. regs' = [regs EXCEPT ![request.line] = WriteData]
    BY <1>1 DEF Plain
  <2> QED
    BY <1>0, <1>4, <2>1 DEF TypeOK
<1>6. \A l \in Lines : Rises(l) <=> l = request.line
  BY <1>0, <1>1 DEF PassInv, Plain, Rises
<1>7. \A l \in Lines : strobe'[l] = IF l = request.line THEN 1 - strobe[l] ELSE strobe[l]
  BY <1>6 DEF Plain, Moved
<1>8. strobe \in [Lines -> 0..1] /\ strobe' \in [Lines -> 0..1]
  BY <1>0 DEF TypeOK
<1>9. strobe' = [strobe EXCEPT ![request.line] = 1 - @]
  BY <1>0, <1>7, <1>8
<1> QED
  BY <1>3, <1>5, <1>9

LEMMA TableClears ==
    ASSUME AccessInv, TypeOK', Forced
    PROVE  /\ request.kind = "reset" /\ regs' = Start /\ strobe' = strobe
           /\ open = request \/ (open = None /\ regs = Start)
<1>1. reset[2] /\ request.kind = "reset"
  BY DEF Forced, AccessInv, PassInv, NoReset
<1>2. open = request \/ (open = None /\ regs = Start)
  BY <1>1 DEF AccessInv, ResetInv, ResetOver
<1>3. \A l \in Lines : ~Rises(l)
  BY DEF Forced, Rises
<1>4. strobe' = strobe
  BY <1>3, StrobesStay DEF AccessInv
<1> QED
  BY <1>1, <1>2, <1>4 DEF Forced

\* An answer is that of the open request.
LEMMA AnswerIs ==
    ASSUME AccessInv, tvalid
    PROVE  /\ open = request /\ WriteOff /\ NoReset
           /\ \/ request.kind = "unknown" /\ tdata = "unsupported"
              \/ request.kind = "read" /\ tdata = regs[request.line][request.word]
<1>1. state \in States
  BY DEF AccessInv, TypeOK
<1>2. CASE state = "idle"
  BY <1>2 DEF AccessInv, StateInv, IdleInv
<1>3. CASE state = "wait_rw_done"
  <2>1. request.kind = "read"
    BY <1>3, RequestForm DEF AccessInv, StateInv, DoneInv, DoneWrite, DoneReset
  <2> QED
    BY <1>3, <2>1 DEF AccessInv, PassInv, StateInv, DoneInv, DoneRead
<1>4. state \notin {"read_register", "write_register_read", "write_register_modifywrite",
                    "send_unknown"}
  BY DEF AccessInv, StateInv, UnknownInv, ReadInv, FetchInv, StoreInv, Gather
<1> QED
  BY <1>1, <1>2, <1>3, <1>4 DEF States

LEMMA TakeMaps ==
    ASSUME AccessInv, Paced, TypeOK', NEW r \in Requests, Accept(r), Rest(TRUE), open' = r
    PROVE  File!Next
<1>1. state = "idle"
  BY DEF Accept
<1>2. WriteOff /\ NoReset
  BY <1>1 DEF AccessInv, StateInv, IdleInv
<1>3. Stay \/ Plain
  BY <1>2, RestIs DEF AccessInv, NoReset, Forced
<1>4. regs' = regs /\ strobe' = strobe
  BY <1>2, <1>3, TableStays DEF WriteOff
<1>5. answer' = IF tvalid THEN [parity |-> 1 - answer.parity, value |-> tdata] ELSE answer
  BY DEF Rest, Seen, Transferred
<1>6. CASE tvalid
  <2>1. open = request /\ request.kind = "unknown" /\ tdata = "unsupported"
    BY <1>1, <1>6 DEF AccessInv, StateInv, IdleInv
  <2> QED
    BY <1>4, <1>5, <1>6, <2>1, OpenForm DEF File!Next, File!Refuse, File!Reply, File!Leave
<1>7. CASE ~tvalid
  <2>1. open = None
    BY <1>1, <1>7 DEF AccessInv, StateInv, IdleInv
  <2> QED
    BY <1>4, <1>5, <1>7, <2>1 DEF File!Next, File!Ask
<1> QED
  BY <1>6, <1>7

LEMMA WorkMaps ==
    ASSUME AccessInv, Paced, TypeOK', Rest(TRUE), Carry(TRUE)
    PROVE  File!Next \/ UNCHANGED File!vars
<1>1. Stay \/ Plain \/ Forced
  BY RestIs DEF AccessInv
<1>2. answer' = IF tvalid THEN [parity |-> 1 - answer.parity, value |-> tdata] ELSE answer
  BY DEF Rest, Seen, Transferred
<1>3. CASE tvalid
  <2>1. /\ open = request /\ WriteOff /\ NoReset
        /\ \/ request.kind = "unknown" /\ tdata = "unsupported"
           \/ request.kind = "read" /\ tdata = regs[request.line][request.word]
    BY <1>3, AnswerIs
  <2>2. Stay \/ Plain
    BY <1>1, <2>1 DEF NoReset, Forced
  <2>3. regs' = regs /\ strobe' = strobe
    BY <2>1, <2>2, TableStays DEF WriteOff
  <2>4. open' = None /\ open # None
    BY <1>3, <2>1, CarryAnswered, OpenForm
  <2>5. CASE request.kind = "unknown" /\ tdata = "unsupported"
    BY <1>2, <1>3, <2>1, <2>3, <2>4, <2>5 DEF File!Next, File!Refuse, File!Reply, File!Leave
  <2>6. CASE request.kind = "read" /\ tdata = regs[request.line][request.word]
    BY <1>2, <1>3, <2>1, <2>3, <2>4, <2>6 DEF File!Next, File!Read, File!Reply, File!Leave
  <2> QED
    BY <2>1, <2>5, <2>6
<1>4. ASSUME ~tvalid, Plain, down2.enable.write, ~done25.write, request.kind = "write"
      PROVE  File!Next
  <2>1. /\ open = request
        /\ regs' = [regs EXCEPT ![request.line][request.word] = request.value]
        /\ strobe' = [strobe EXCEPT ![request.line] = 1 - @]
    BY <1>4, TableWrites
  <2>2. strobe'[request.line] # strobe[request.line]
    <3>1. strobe \in [Lines -> 0..1] /\ request.line \in Lines
      BY RequestForm DEF AccessInv, TypeOK
    <3> QED
      BY <2>1, <3>1
  <2>3. open' = None /\ open # None
    BY <1>4, <2>1, <2>2, CarryWrite, OpenForm
  <2> QED
    BY <1>2, <1>4, <2>1, <2>3 DEF File!Next, File!Write, File!Leave
<1>5. ASSUME ~tvalid, Forced PROVE File!Next \/ UNCHANGED File!vars
  <2>1. /\ request.kind = "reset" /\ regs' = Start /\ strobe' = strobe
        /\ open = request \/ (open = None /\ regs = Start)
    BY <1>5, TableClears
  <2>2. CASE open = request
    <3>1. open' = None /\ open # None
      BY <1>5, <2>1, <2>2, CarryReset, OpenForm DEF Forced, Moved
    <3> QED
      BY <1>2, <1>5, <2>1, <2>2, <3>1 DEF File!Next, File!Clear, File!Leave
  <2>3. CASE open = None /\ regs = Start
    BY <1>2, <1>5, <2>1, <2>3, CarryNone DEF File!vars
  <2> QED
    BY <2>1, <2>2, <2>3
<1>6. ASSUME ~tvalid, Stay \/ (Plain /\ (~down2.enable.write \/ done25.write \/ request.kind # "write"))
      PROVE  UNCHANGED File!vars
  <2>1. regs' = regs /\ strobe' = strobe
    BY <1>6, TableStays
  <2>2. ~(phase = 0 /\ reset[2])
    BY <1>6 DEF Stay, Plain
  <2>3. open' = open
    BY <1>6, <2>1, <2>2 DEF Carry, Served, Transferred
  <2> QED
    BY <1>2, <1>6, <2>1, <2>3 DEF File!vars
<1> QED
  BY <1>1, <1>3, <1>4, <1>5, <1>6

LEMMA StepMaps ==
    ASSUME AccessInv, Paced, TypeOK', [Next]_vars
    PROVE  File!Next \/ UNCHANGED File!vars
<1>0. Ready = {TRUE}
  BY DEF Paced, Ready
<1>1. ASSUME Take PROVE File!Next
  <2>1. PICK r \in Requests : Accept(r) /\ Rest(TRUE) /\ open' = r
    BY <1>0, <1>1 DEF Take
  <2> QED
    BY <2>1, TakeMaps
<1>2. ASSUME Work PROVE File!Next \/ UNCHANGED File!vars
  BY <1>0, <1>2, WorkMaps DEF Work
<1>3. ASSUME UNCHANGED vars PROVE UNCHANGED File!vars
  BY <1>3 DEF vars, fast, up, slow, File!vars
<1> QED
  BY <1>1, <1>2, <1>3 DEF Next

\* Every access sees its own address and its own data, a write keeps the
\* other words of its line and gives one strobe, a read has one answer, and a
\* reset clears the table once for the host: the path is a register file.
THEOREM RefinesFile ==
    ASSUME Paced, Lines # {}, Words # {}
    PROVE  Spec => ImplementsRegisterFile
<1>1. Init => AccessInv /\ File!Init
  <2>1. DOMAIN Start = Lines
    BY DEF Start
  <2> QED
    BY <2>1, AccessAtStart DEF Init, File!Init
<1>2. AccessInv /\ [Next]_vars => AccessInv'
  BY AccessStep
<1>3. AccessInv /\ AccessInv' /\ [Next]_vars => [File!Next]_(File!vars)
  BY StepMaps DEF AccessInv
<1> QED
  BY <1>1, <1>2, <1>3, PTL DEF Spec, ImplementsRegisterFile, File!Spec
=============================================================================
