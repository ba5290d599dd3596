------------------------ MODULE ResourceLocksProofs ------------------------
(***************************************************************************)
(* Proofs about ResourceLocks for every set of objects, processes, cards   *)
(* and lock bits.  The first two parts need nothing of the environment:    *)
(* SETCARDs overlap, files have no lock, kmalloc returns stale memory and  *)
(* "clearlock" comes at any moment.  They are about the lock tables, and   *)
(* about the tables and the files: whose is a locked bit, who frees it,    *)
(* what get_lock_mask says of it, and that the driver implements           *)
(* LockManager.  The third is about the conditions in which locks exclude  *)
(* (Orderly); SETCARDs still overlap in it.                                *)
(***************************************************************************)
EXTENDS ResourceLocks, TLAPS

USE DEF NoPid, NoTag, NoSlot, NoCard

(* The constants that the initial values and the bounds need.              *)
LEMMA ConstantFacts ==
  /\ \A o \in Objects : PidOf[o] \in Nat /\ PidOf[o] # NoPid
  /\ NoRequest \in Requests
  /\ NoFile \in FileData
  /\ Constructed \in Members
  /\ 0 \in Tags /\ 1 \in Tags /\ MaxTag \in Nat
  /\ StaleTags \subseteq Tags
<1>1. MaxTag \in Nat /\ StaleTags \subseteq Tags
  BY TagAssumption DEF Tags
<1>2. 0 \in Tags /\ 1 \in Tags
  BY <1>1 DEF Tags
<1>3. \A o \in Objects : PidOf[o] \in Nat /\ PidOf[o] # NoPid
  BY ObjectsAssumption
<1>4. (CHOOSE c \in Cards : TRUE) \in Cards
  BY CardsAssumption
<1>5. NoRequest \in Requests
  BY <1>4 DEF NoRequest, Requests
<1>6. NoFile \in FileData /\ Constructed \in Members
  BY <1>2 DEF NoFile, FileData, Constructed, Members
<1> QED
  BY <1>1, <1>2, <1>3, <1>5, <1>6

(* Making bits free keeps the types of the three tables.                   *)
LEMMA FreeBitsTypes ==
  ASSUME TypeOK, NEW c, NEW S, FreeBits(c, S)
  PROVE  /\ global_locks' \in [Cards -> SUBSET Bits]
         /\ lock_pid' \in [Cards -> [Bits -> Nat]]
         /\ lock_tags' \in [Cards -> [Bits -> Tags]]
<1>1. global_locks' \in [Cards -> SUBSET Bits]
  BY DEF TypeOK, FreeBits
<1>2. lock_pid' \in [Cards -> [Bits -> Nat]]
  BY DEF TypeOK, FreeBits
<1>3. lock_tags' \in [Cards -> [Bits -> Tags]]
  BY ConstantFacts DEF TypeOK, FreeBits
<1> QED
  BY <1>1, <1>2, <1>3

(* Type correctness of a step, one action at a time.                       *)
LEMMA TypeStep ==
  ASSUME TypeOK, [Next]_vars
  PROVE  TypeOK'
<1> USE ConstantFacts
<1> USE DEF TypeOK, vars, table
<1>1. ASSUME NEW o \in Objects, Open(o) PROVE TypeOK'
  <2>1. PICK r \in Requests, t \in StaleTags :
          /\ request' = [request EXCEPT ![o] = r]
          /\ file' = [file EXCEPT ![o] = [slot |-> NoSlot, lock_tag |-> t]]
    BY <1>1 DEF Open
  <2>2. request' \in [Objects -> Requests] /\ file' \in [Objects -> FileData]
    BY <2>1 DEF FileData
  <2>3. pc' \in [Objects -> PCs]
    BY <1>1 DEF Open, Goto, PCs
  <2> QED
    BY <1>1, <2>2, <2>3 DEF Open
<1>2. ASSUME NEW o \in Objects, SetCardConflict(o) PROVE TypeOK'
  <2>1. request[o].card \in Cards /\ global_locks[request[o].card] \subseteq Bits
    BY DEF Requests
  <2>2. devices' \in [Cards -> Results]
    BY <1>2, <2>1 DEF SetCardConflict, Results
  <2>3. pc' \in [Objects -> PCs]
    BY <1>2 DEF SetCardConflict, Goto, PCs
  <2> QED
    BY <1>2, <2>2, <2>3 DEF SetCardConflict
<1>3. ASSUME NEW o \in Objects, SetCardGrant(o) PROVE TypeOK'
  <2>1. request[o].card \in Cards /\ request[o].mask \subseteq Bits
    BY DEF Requests
  <2>2. lock_tag + 1 \in Tags
    BY <1>3 DEF SetCardGrant, Tags
  <2>3. global_locks' \in [Cards -> SUBSET Bits]
    BY <1>3, <2>1 DEF SetCardGrant
  <2>4. lock_pid' \in [Cards -> [Bits -> Nat]]
    BY <1>3, <2>1 DEF SetCardGrant
  <2>5. lock_tags' \in [Cards -> [Bits -> Tags]]
    BY <1>3, <2>1 DEF SetCardGrant
  <2>6. file' \in [Objects -> FileData] /\ devices' \in [Cards -> Results]
    BY <1>3, <2>1 DEF SetCardGrant, FileData, Results
  <2>7. pc' \in [Objects -> PCs]
    BY <1>3 DEF SetCardGrant, Goto, PCs
  <2> QED
    BY <1>3, <2>2, <2>3, <2>4, <2>5, <2>6, <2>7 DEF SetCardGrant
<1>4. ASSUME NEW o \in Objects, SetCardNoLock(o) PROVE TypeOK'
  <2>1. file' \in [Objects -> FileData]
    BY <1>4 DEF SetCardNoLock, FileData
  <2>2. pc' \in [Objects -> PCs]
    BY <1>4 DEF SetCardNoLock, Goto, PCs
  <2> QED
    BY <1>4, <2>1, <2>2 DEF SetCardNoLock
<1>5. ASSUME NEW o \in Objects, ClearResult(o) PROVE TypeOK'
  <2>1. devices' \in [Cards -> Results]
    BY <1>5 DEF ClearResult, Results, Requests
  <2>2. pc' \in [Objects -> PCs]
    BY <1>5 DEF ClearResult, Goto, PCs
  <2> QED
    BY <1>5, <2>1, <2>2 DEF ClearResult
<1>6. ASSUME NEW o \in Objects, CopyToUser(o) PROVE TypeOK'
  <2>1. request[o].card \in Cards /\ request[o].mask \subseteq Bits
    BY DEF Requests
  <2>2. file' \in [Objects -> FileData]
    BY <1>6, <2>1 DEF CopyToUser, FileData
  <2>3. devices[request[o].card].lock_tag \in Tags
    BY <2>1 DEF Results
  <2>4. object' \in [Objects -> Members]
    BY <1>6, <2>1, <2>3 DEF CopyToUser, Members
  <2>5. pc' \in [Objects -> PCs]
    BY <1>6 DEF CopyToUser, Goto, PCs
  <2> QED
    BY <1>6, <2>2, <2>4, <2>5 DEF CopyToUser
<1>7. ASSUME NEW o \in Objects, NEW c \in Cards, GetLock(o, c) PROVE TypeOK'
  <2>1. OtherLocks(o, c) \subseteq Bits
    BY DEF OtherLocks, Believed, Members
  <2>2. pc' \in [Objects -> PCs]
    BY <1>7 DEF GetLock, Goto, PCs
  <2> QED
    BY <1>7, <2>1, <2>2 DEF GetLock
<1>8. ASSUME NEW o \in Objects, ReleaseLock(o) PROVE TypeOK'
  <2>1. pc' \in [Objects -> PCs]
    BY <1>8 DEF ReleaseLock, Goto, PCs
  <2> QED
    BY <1>8, <2>1, FreeBitsTypes DEF ReleaseLock
<1>9. ASSUME NEW o \in Objects, Release(o) PROVE TypeOK'
  <2>1. pc' \in [Objects -> PCs]
    BY <1>9 DEF Release, Goto, PCs
  <2>2. /\ global_locks' \in [Cards -> SUBSET Bits]
        /\ lock_pid' \in [Cards -> [Bits -> Nat]]
        /\ lock_tags' \in [Cards -> [Bits -> Tags]]
    BY <1>9, FreeBitsTypes DEF Release
  <2> QED
    BY <1>9, <2>1, <2>2 DEF Release
<1>10. ASSUME NEW p, Exit(p) PROVE TypeOK'
  <2>1. pc' \in [Objects -> PCs]
    BY <1>10 DEF Exit, PCs
  <2>2. object' \in [Objects -> Members]
    BY <1>10 DEF Exit
  <2> QED
    BY <1>10, <2>1, <2>2 DEF Exit
<1>11. ASSUME ClearLocks PROVE TypeOK'
  BY <1>11 DEF ClearLocks
<1>12. ASSUME UNCHANGED vars PROVE TypeOK'
  BY <1>12
<1> QED
  BY <1>1, <1>2, <1>3, <1>4, <1>5, <1>6, <1>7, <1>8, <1>9, <1>10, <1>11, <1>12
  DEF Next, SetCard

(* Whatever the callers do, every variable keeps its type: in particular a *)
(* refused or dying object never leaves a card number or a tag behind that *)
(* the tables do not have.                                                 *)
THEOREM TypeCorrect == Spec => []TypeOK
<1>1. Init => TypeOK
  BY ConstantFacts DEF Init, TypeOK, Results, PCs
<1>2. TypeOK /\ [Next]_vars => TypeOK'
  BY TypeStep
<1> QED
  BY <1>1, <1>2, PTL DEF Spec

-----------------------------------------------------------------------------
(* The lock tables and TablesAgree.  It is inductive together with TypeOK: *)
(* each of the four places that write the tables writes all three.         *)

(* Making bits free keeps the tables in agreement.                         *)
LEMMA FreeBitsAgree ==
  ASSUME TypeOK, TablesAgree, NEW c, NEW S, FreeBits(c, S)
  PROVE  TablesAgree'
<1> USE DEF TypeOK, FreeBits
<1> SUFFICES ASSUME NEW k \in Cards
             PROVE  /\ global_locks'[k] = {b \in Bits : lock_pid'[k][b] # NoPid}
                    /\ \A b \in Bits : lock_pid'[k][b] = NoPid => lock_tags'[k][b] = NoTag
  BY DEF TablesAgree
<1>1. /\ global_locks[k] = {b \in Bits : lock_pid[k][b] # NoPid}
      /\ \A b \in Bits : lock_pid[k][b] = NoPid => lock_tags[k][b] = NoTag
  BY DEF TablesAgree
<1>2. CASE k = c
  <2>1. global_locks'[k] = global_locks[k] \ S
    BY <1>2
  <2>2. \A b \in Bits : /\ lock_pid'[k][b] = IF b \in S THEN NoPid ELSE lock_pid[k][b]
                        /\ lock_tags'[k][b] = IF b \in S THEN NoTag ELSE lock_tags[k][b]
    BY <1>2
  <2> QED
    BY <1>1, <2>1, <2>2
<1>3. CASE k # c
  BY <1>1, <1>3
<1> QED
  BY <1>2, <1>3

(* A grant keeps the tables in agreement: its pid is not NoPid.            *)
LEMMA GrantAgree ==
  ASSUME TypeOK, TablesAgree, NEW o \in Objects, SetCardGrant(o)
  PROVE  TablesAgree'
<1> USE DEF TypeOK, SetCardGrant
<1> DEFINE c == request[o].card
           S == request[o].mask
<1>0. c \in Cards /\ S \subseteq Bits /\ PidOf[o] \in Nat /\ PidOf[o] # NoPid
  BY ConstantFacts DEF Requests
<1> SUFFICES ASSUME NEW k \in Cards
             PROVE  /\ global_locks'[k] = {b \in Bits : lock_pid'[k][b] # NoPid}
                    /\ \A b \in Bits : lock_pid'[k][b] = NoPid => lock_tags'[k][b] = NoTag
  BY DEF TablesAgree
<1>1. /\ global_locks[k] = {b \in Bits : lock_pid[k][b] # NoPid}
      /\ \A b \in Bits : lock_pid[k][b] = NoPid => lock_tags[k][b] = NoTag
  BY DEF TablesAgree
<1>2. CASE k = c
  <2>1. global_locks'[k] = global_locks[k] \cup S
    BY <1>2
  <2>2. \A b \in Bits : /\ lock_pid'[k][b] = IF b \in S THEN PidOf[o] ELSE lock_pid[k][b]
                        /\ lock_tags'[k][b] = IF b \in S THEN lock_tag ELSE lock_tags[k][b]
    BY <1>2
  <2> QED
    BY <1>0, <1>1, <2>1, <2>2
<1>3. CASE k # c
  BY <1>1, <1>3
<1> QED
  BY <1>2, <1>3

(* The steps that leave the three tables alone.                            *)
LEMMA OtherStepsKeepTables ==
  ASSUME [Next]_vars
  PROVE  \/ UNCHANGED <<global_locks, lock_pid, lock_tags>>
         \/ \E o \in Objects : SetCardGrant(o)
         \/ \E c, S : FreeBits(c, S)
         \/ ClearLocks
<1>1. ASSUME NEW o \in Objects, ReleaseLock(o) PROVE \E c, S : FreeBits(c, S)
  BY <1>1 DEF ReleaseLock
<1>2. ASSUME NEW o \in Objects, Release(o)
      PROVE  (\E c, S : FreeBits(c, S)) \/ UNCHANGED <<global_locks, lock_pid, lock_tags>>
  BY <1>2 DEF Release
<1>3. ASSUME NEW o \in Objects, SetCard(o)
      PROVE  SetCardGrant(o) \/ UNCHANGED <<global_locks, lock_pid, lock_tags>>
  BY <1>3 DEF SetCard, SetCardConflict, SetCardNoLock, ClearResult, table
<1>4. ASSUME NEW o \in Objects, Open(o) \/ CopyToUser(o) \/ \E c \in Cards : GetLock(o, c)
      PROVE  UNCHANGED <<global_locks, lock_pid, lock_tags>>
  BY <1>4 DEF Open, CopyToUser, GetLock, table
<1>5. ASSUME NEW p, Exit(p) PROVE UNCHANGED <<global_locks, lock_pid, lock_tags>>
  BY <1>5 DEF Exit, table
<1>6. CASE UNCHANGED vars
  BY <1>6 DEF vars, table
<1> QED
  BY <1>1, <1>2, <1>3, <1>4, <1>5, <1>6 DEF Next

LEMMA AgreeStep ==
  ASSUME TypeOK, TablesAgree, [Next]_vars
  PROVE  TablesAgree'
<1>1. CASE UNCHANGED <<global_locks, lock_pid, lock_tags>>
  BY <1>1 DEF TablesAgree
<1>2. ASSUME NEW o \in Objects, SetCardGrant(o) PROVE TablesAgree'
  BY <1>2, GrantAgree
<1>3. ASSUME NEW c, NEW S, FreeBits(c, S) PROVE TablesAgree'
  BY <1>3, FreeBitsAgree
<1>4. CASE ClearLocks
  BY <1>4 DEF ClearLocks, TablesAgree
<1> QED
  BY <1>1, <1>2, <1>3, <1>4, OtherStepsKeepTables

(* global_locks, the mask that SETCARD tests, is the set of bits that have *)
(* an owner in lock_pid, in every environment.                             *)
THEOREM TablesAlwaysAgree == Spec => []TablesAgree
<1>1. Init => TablesAgree
  BY DEF Init, TablesAgree
<1>2. TypeOK /\ TablesAgree /\ [Next]_vars => TablesAgree'
  BY AgreeStep
<1> QED
  BY <1>1, <1>2, TypeCorrect, PTL DEF Spec

(* The step of NoTakeOver for one bit of one card.                         *)
TakesOver(c, b) ==
  /\ lock_pid[c][b] # NoPid /\ lock_pid'[c][b] # NoPid
  /\ ~(lock_pid'[c][b] = lock_pid[c][b] /\ lock_tags'[c][b] = lock_tags[c][b])

LEMMA NoTakeOverStep ==
  ASSUME TypeOK, TablesAgree, [Next]_vars, NEW k \in Cards, NEW b \in Bits
  PROVE  ~TakesOver(k, b)
<1> USE DEF TypeOK, TakesOver
<1>1. CASE UNCHANGED <<global_locks, lock_pid, lock_tags>>
  BY <1>1
<1>2. ASSUME NEW o \in Objects, SetCardGrant(o) PROVE ~TakesOver(k, b)
  <2>1. request[o].card \in Cards /\ request[o].mask \subseteq Bits
    BY DEF Requests
  <2>2. CASE k = request[o].card /\ b \in request[o].mask
    <3>1. b \notin global_locks[k]
      BY <1>2, <2>2 DEF SetCardGrant, Taken
    <3> QED
      BY <3>1 DEF TablesAgree
  <2>3. CASE ~(k = request[o].card /\ b \in request[o].mask)
    BY <1>2, <2>1, <2>3 DEF SetCardGrant
  <2> QED
    BY <2>2, <2>3
<1>3. ASSUME NEW c, NEW S, FreeBits(c, S) PROVE ~TakesOver(k, b)
  BY <1>3 DEF FreeBits
<1>4. CASE ClearLocks
  BY <1>4 DEF ClearLocks
<1> QED
  BY <1>1, <1>2, <1>3, <1>4, OtherStepsKeepTables

(* No SETCARD takes over a bit that another one holds, in every            *)
(* environment: the test of global_locks is made under lock_lock.          *)
THEOREM NeverTakenOver == Spec => NoTakeOver
<1>1. TypeOK /\ TablesAgree /\ [Next]_vars
        => \A c \in Cards, b \in Bits : ~TakesOver(c, b)
  BY NoTakeOverStep
<1>2. (\A c \in Cards, b \in Bits : ~TakesOver(c, b))
        <=> (\A c \in Cards, b \in Bits :
               lock_pid[c][b] # NoPid /\ lock_pid'[c][b] # NoPid
                 => lock_pid'[c][b] = lock_pid[c][b] /\ lock_tags'[c][b] = lock_tags[c][b])
  BY DEF TakesOver
<1> QED
  BY <1>1, <1>2, TypeCorrect, TablesAlwaysAgree, PTL DEF Spec, NoTakeOver

-----------------------------------------------------------------------------
(***************************************************************************)
(* Whose a locked bit is.  got says to which open file SETCARD granted it; *)
(* the driver itself knows only the tag.                                   *)
(***************************************************************************)

(* The driver's tables and the file of object o agree that it has b of c.  *)
Has(o, c, b) ==
  /\ c = request[o].card /\ b \in got[o]
  /\ b \in global_locks[c] /\ lock_tags[c][b] = file[o].lock_tag

(* What the calls of an object know, whatever the others do                *)
CallInv(o) ==
  /\ got[o] \subseteq request[o].mask
  /\ got[o] # {} => /\ pc[o] \in {"copy", "refused", "open", "unlocked", "exiting"}
                    /\ file[o].lock_tag < lock_tag
                    /\ pc[o] # "copy" => file[o].slot = request[o].card
  /\ pc[o] = "open" => /\ object[o].m_deviceNumber = request[o].card
                       /\ object[o].m_myLocks = request[o].mask
                       /\ file[o].slot = request[o].card
  /\ request[o].query => request[o].mask = {}
  /\ pc[o] = "query" => request[o].query

(* A tag is granted to one file.                                           *)
TagInv ==
  \A o, x \in Objects :
    o # x /\ got[o] # {} /\ got[x] # {} => file[o].lock_tag # file[x].lock_tag

(* A locked bit is that of a file, of the process that lock_pid names.     *)
OwnedInv ==
  \A c \in Cards : \A b \in global_locks[c] :
    \E o \in Objects : Has(o, c, b) /\ lock_pid[c][b] = PidOf[o]

HistoryInv == (\A o \in Objects : CallInv(o)) /\ TagInv /\ OwnedInv

(* A step may free bits, but what stays locked stays with its file.        *)
Shrinks ==
  \A c \in Cards, b \in Bits :
    b \in global_locks'[c] =>
      /\ b \in global_locks[c] /\ lock_pid'[c][b] = lock_pid[c][b]
      /\ \A x \in Objects : Has(x, c, b) => Has(x, c, b)'

(* A step that grants o the bits it asks for                               *)
Grants(o) ==
  LET k == request[o].card IN
  /\ k \in Cards /\ request[o].mask \subseteq Bits /\ request[o].mask # {}
  /\ request' = request
  /\ \A b \in request[o].mask : b \notin global_locks[k]
  /\ \A c \in Cards, b \in Bits :
       /\ ~Has(o, c, b)
       /\ Has(o, c, b)' <=> c = k /\ b \in request[o].mask
       /\ Has(o, c, b)' => lock_pid'[c][b] = PidOf[o]
       /\ ~Has(o, c, b)' => /\ b \in global_locks'[c] <=> b \in global_locks[c]
                            /\ lock_pid'[c][b] = lock_pid[c][b]
       /\ \A x \in Objects \ {o} : Has(x, c, b)' <=> Has(x, c, b)

(* An object that a step leaves alone                                      *)
Untouched(x) ==
  /\ pc'[x] = pc[x] /\ file'[x] = file[x] /\ got'[x] = got[x]
  /\ request'[x] = request[x] /\ object'[x] = object[x]

LEMMA UntouchedCall ==
  ASSUME NEW x \in Objects, CallInv(x), Untouched(x),
         lock_tag' = lock_tag \/ got[x] = {} \/ file[x].lock_tag < lock_tag'
  PROVE  CallInv(x)'
BY DEF CallInv, Untouched

(* Steps that leave the tables alone: each file keeps what it has.         *)
LEMMA OpenHistory ==
  ASSUME TypeOK, HistoryInv, NEW o \in Objects, Open(o)
  PROVE  /\ \A x \in Objects : CallInv(x)'
         /\ TagInv'
         /\ UNCHANGED table
         /\ \A x \in Objects, c \in Cards, b \in Bits : Has(x, c, b)' <=> Has(x, c, b)
<1>1. PICK r \in Requests :
        /\ r.query => r.mask = {}
        /\ request' = [request EXCEPT ![o] = r]
        /\ pc[o] = "closed" /\ pc' = [pc EXCEPT ![o] = "opened"]
        /\ UNCHANGED <<table, object, got>>
  BY DEF Open, Goto
<1>2. \A x \in Objects \ {o} : Untouched(x)
  BY <1>1 DEF Open, Untouched, TypeOK
<1>3. got[o] = {} /\ got'[o] = {}
  BY <1>1 DEF HistoryInv, CallInv
<1>4. ASSUME NEW x \in Objects \ {o} PROVE CallInv(x)'
  BY <1>1, <1>2, UntouchedCall DEF HistoryInv, table
<1>5. CallInv(o)'
  <2>1. pc'[o] = "opened" /\ request'[o] = r
    BY <1>1 DEF TypeOK
  <2> QED
    BY <1>1, <1>3, <2>1 DEF CallInv
<1>6. TagInv'
  BY <1>2, <1>3 DEF HistoryInv, TagInv, Untouched
<1>7. ASSUME NEW x \in Objects, NEW c \in Cards, NEW b \in Bits
      PROVE  Has(x, c, b)' <=> Has(x, c, b)
  <2>1. CASE x = o
    BY <1>3, <2>1 DEF Has
  <2>2. CASE x # o
    <3>1. Untouched(x)
      BY <1>2, <2>2
    <3> QED
      BY <1>1, <3>1 DEF Has, Untouched, table
  <2> QED
    BY <2>1, <2>2
<1> QED
  BY <1>1, <1>4, <1>5, <1>6, <1>7

(* SETCARD but for a grant                                                 *)
LEMMA SetCardHistory ==
  ASSUME TypeOK, HistoryInv, NEW o \in Objects,
         SetCardConflict(o) \/ SetCardNoLock(o) \/ ClearResult(o)
  PROVE  /\ \A x \in Objects : CallInv(x)'
         /\ TagInv'
         /\ UNCHANGED table
         /\ \A x \in Objects, c \in Cards, b \in Bits : Has(x, c, b)' <=> Has(x, c, b)
<1> USE DEF SetCardConflict, SetCardNoLock, ClearResult, Goto
<1>1. /\ pc[o] \in {"opened", "nolock"} /\ pc'[o] \in {"copy", "nolock"}
      /\ UNCHANGED <<table, request, object, got>>
  BY DEF TypeOK
<1>2. \A x \in Objects \ {o} : Untouched(x)
  BY DEF Untouched, TypeOK
<1> HIDE DEF SetCardConflict, SetCardNoLock, ClearResult, Goto
<1>3. got[o] = {} /\ got'[o] = {}
  BY <1>1 DEF HistoryInv, CallInv
<1>4. ASSUME NEW x \in Objects \ {o} PROVE CallInv(x)'
  BY <1>1, <1>2, UntouchedCall DEF HistoryInv, table
<1>5. CallInv(o)'
  BY <1>1, <1>3 DEF HistoryInv, CallInv
<1>6. TagInv'
  BY <1>2, <1>3 DEF HistoryInv, TagInv, Untouched
<1>7. ASSUME NEW x \in Objects, NEW c \in Cards, NEW b \in Bits
      PROVE  Has(x, c, b)' <=> Has(x, c, b)
  <2>1. CASE x = o
    BY <1>3, <2>1 DEF Has
  <2>2. CASE x # o
    <3>1. Untouched(x)
      BY <1>2, <2>2
    <3> QED
      BY <1>1, <3>1 DEF Has, Untouched, table
  <2> QED
    BY <2>1, <2>2
<1> QED
  BY <1>1, <1>4, <1>5, <1>6, <1>7

LEMMA CopyHistory ==
  ASSUME TypeOK, HistoryInv, NEW o \in Objects, CopyToUser(o)
  PROVE  /\ \A x \in Objects : CallInv(x)'
         /\ TagInv'
         /\ UNCHANGED table
         /\ \A x \in Objects, c \in Cards, b \in Bits : Has(x, c, b)' <=> Has(x, c, b)
<1> USE DEF CopyToUser, Goto
<1>1. /\ pc[o] = "copy" /\ pc'[o] \in {"query", "open", "refused"}
      /\ file'[o].slot = request[o].card /\ file'[o].lock_tag = file[o].lock_tag
      /\ UNCHANGED <<table, request, got>>
      /\ pc'[o] = "query" => request[o].query
  BY DEF TypeOK
<1>2. \A x \in Objects \ {o} : Untouched(x)
  BY DEF Untouched, TypeOK
<1>3. pc'[o] = "open" => /\ object'[o].m_deviceNumber = request[o].card
                         /\ object'[o].m_myLocks = request[o].mask
  BY DEF TypeOK
<1> HIDE DEF CopyToUser, Goto
<1>4. ASSUME NEW x \in Objects \ {o} PROVE CallInv(x)'
  BY <1>1, <1>2, UntouchedCall DEF HistoryInv, table
<1>5. CallInv(o)'
  <2>1. CallInv(o)
    BY DEF HistoryInv
  <2>2. got[o] # {} => pc'[o] # "query"
    BY <1>1, <2>1 DEF CallInv
  <2> QED
    BY <1>1, <1>3, <2>1, <2>2 DEF CallInv, table
<1>6. \A x \in Objects : file'[x].lock_tag = file[x].lock_tag
  BY <1>1, <1>2 DEF Untouched
<1>7. TagInv'
  BY <1>1, <1>6 DEF HistoryInv, TagInv
<1>8. ASSUME NEW x \in Objects, NEW c \in Cards, NEW b \in Bits
      PROVE  Has(x, c, b)' <=> Has(x, c, b)
  BY <1>1, <1>6 DEF Has, table
<1> QED
  BY <1>1, <1>4, <1>5, <1>7, <1>8

LEMMA GetLockHistory ==
  ASSUME TypeOK, HistoryInv, NEW o \in Objects, NEW k \in Cards, GetLock(o, k)
  PROVE  /\ \A x \in Objects : CallInv(x)'
         /\ TagInv'
         /\ UNCHANGED table
         /\ \A x \in Objects, c \in Cards, b \in Bits : Has(x, c, b)' <=> Has(x, c, b)
<1>1. /\ UNCHANGED <<table, devices, file, request, object, got>>
      /\ \A x \in Objects \ {o} : pc'[x] = pc[x]
      /\ pc'[o] = pc[o] \/ (pc[o] = "query" /\ pc'[o] = "answered")
  BY DEF GetLock, Goto, TypeOK
<1>2. ASSUME NEW x \in Objects PROVE CallInv(x)'
  <2>1. CallInv(x)
    BY DEF HistoryInv
  <2> QED
    BY <1>1, <2>1 DEF CallInv, table
<1>3. TagInv'
  BY <1>1 DEF HistoryInv, TagInv
<1> QED
  BY <1>1, <1>2, <1>3 DEF Has, table

LEMMA ExitHistory ==
  ASSUME TypeOK, HistoryInv, NEW p, Exit(p)
  PROVE  /\ \A x \in Objects : CallInv(x)'
         /\ TagInv'
         /\ UNCHANGED table
         /\ \A x \in Objects, c \in Cards, b \in Bits : Has(x, c, b)' <=> Has(x, c, b)
<1>1. UNCHANGED <<table, devices, file, request, got>>
  BY DEF Exit
<1>2. ASSUME NEW x \in Objects PROVE CallInv(x)'
  <2>0. CallInv(x)
    BY DEF HistoryInv
  <2>1. CASE PidOf[x] = p /\ pc[x] # "closed"
    <3>1. pc'[x] = "exiting" /\ ~InSetCard(x)
      BY <2>1 DEF Exit
    <3> QED
      BY <1>1, <2>0, <3>1 DEF CallInv, InSetCard, table
  <2>2. CASE PidOf[x] = p /\ pc[x] = "closed"
    <3>1. pc'[x] = "closed"
      BY <2>2 DEF Exit
    <3> QED
      BY <1>1, <2>0, <2>2, <3>1 DEF CallInv, table
  <2>3. CASE PidOf[x] # p
    <3>1. pc'[x] = pc[x] /\ object'[x] = object[x]
      BY <2>3 DEF Exit
    <3> QED
      BY <1>1, <2>0, <3>1 DEF CallInv, table
  <2> QED
    BY <2>1, <2>2, <2>3
<1>3. TagInv'
  BY <1>1 DEF HistoryInv, TagInv
<1> QED
  BY <1>1, <1>2, <1>3 DEF Has, table

(* A grant: its tag is new, and its bits were free.                        *)
LEMMA GrantHistory ==
  ASSUME TypeOK, HistoryInv, NEW o \in Objects, SetCardGrant(o)
  PROVE  /\ \A x \in Objects : CallInv(x)'
         /\ TagInv'
         /\ Grants(o)
<1> DEFINE k == request[o].card
<1> USE DEF SetCardGrant, Goto
<1>1. /\ pc[o] = "opened" /\ pc'[o] = "copy" /\ request' = request /\ object' = object
      /\ k \in Cards /\ request[o].mask \subseteq Bits /\ request[o].mask # {}
      /\ file'[o].lock_tag = lock_tag /\ got'[o] = request[o].mask
  BY DEF TypeOK, Requests
<1>2. \A x \in Objects \ {o} : Untouched(x)
  BY DEF Untouched, TypeOK
<1>3. \A b \in request[o].mask : b \notin global_locks[k]
  BY DEF Taken
<1>4. lock_tag \in Nat /\ lock_tag' = lock_tag + 1
      /\ \A x \in Objects : file[x].lock_tag \in Nat
  BY ConstantFacts DEF TypeOK, FileData, Tags
<1>5. \A c \in Cards, b \in Bits :
        /\ c = k /\ b \in request[o].mask
             => b \in global_locks'[c] /\ lock_tags'[c][b] = lock_tag /\ lock_pid'[c][b] = PidOf[o]
        /\ ~(c = k /\ b \in request[o].mask)
             => /\ b \in global_locks'[c] <=> b \in global_locks[c]
                /\ lock_tags'[c][b] = lock_tags[c][b] /\ lock_pid'[c][b] = lock_pid[c][b]
  BY <1>1 DEF TypeOK
<1> HIDE DEF SetCardGrant, Goto
<1>6. got[o] = {}
  BY <1>1 DEF HistoryInv, CallInv
<1>7. \A x \in Objects : got[x] # {} => file[x].lock_tag < lock_tag
  BY DEF HistoryInv, CallInv
<1>8. ASSUME NEW x \in Objects \ {o} PROVE CallInv(x)'
  <2>1. got[x] = {} \/ file[x].lock_tag < lock_tag'
    BY <1>4, <1>7
  <2> QED
    BY <1>2, <2>1, UntouchedCall DEF HistoryInv
<1>9. CallInv(o)'
  BY <1>1, <1>4 DEF HistoryInv, CallInv
<1>10. TagInv'
  BY <1>1, <1>2, <1>4, <1>7 DEF HistoryInv, TagInv, Untouched
<1>11. ASSUME NEW c \in Cards, NEW b \in Bits
       PROVE  /\ ~Has(o, c, b)
              /\ Has(o, c, b)' <=> c = k /\ b \in request[o].mask
              /\ Has(o, c, b)' => lock_pid'[c][b] = PidOf[o]
              /\ ~Has(o, c, b)' => /\ b \in global_locks'[c] <=> b \in global_locks[c]
                                   /\ lock_pid'[c][b] = lock_pid[c][b]
              /\ \A x \in Objects \ {o} : Has(x, c, b)' <=> Has(x, c, b)
  <2>1. ~Has(o, c, b)
    BY <1>6 DEF Has
  <2>2. Has(o, c, b)' <=> c = k /\ b \in request[o].mask
    BY <1>1, <1>5 DEF Has
  <2>3. ASSUME NEW x \in Objects \ {o} PROVE Has(x, c, b)' <=> Has(x, c, b)
    <3>1. Untouched(x)
      BY <1>2
    <3>2. CASE c = k /\ b \in request[o].mask
      <4>1. ~Has(x, c, b)
        BY <1>3, <3>2 DEF Has
      <4>2. ~Has(x, c, b)'
        BY <1>4, <1>5, <1>7, <3>1, <3>2 DEF Has, Untouched
      <4> QED
        BY <4>1, <4>2
    <3>3. CASE ~(c = k /\ b \in request[o].mask)
      BY <1>5, <3>1, <3>3 DEF Has, Untouched
    <3> QED
      BY <3>2, <3>3
  <2> QED
    BY <1>5, <2>1, <2>2, <2>3
<1> QED
  BY <1>1, <1>3, <1>8, <1>9, <1>10, <1>11 DEF Grants

(* Making bits free                                                        *)
LEMMA FreeBitsIs ==
  ASSUME TypeOK, NEW k \in Cards, NEW S, FreeBits(k, S), NEW c \in Cards, NEW b \in Bits
  PROVE  /\ c = k /\ b \in S => b \notin global_locks'[c]
         /\ ~(c = k /\ b \in S)
              => /\ b \in global_locks'[c] <=> b \in global_locks[c]
                 /\ lock_tags'[c][b] = lock_tags[c][b] /\ lock_pid'[c][b] = lock_pid[c][b]
<1>1. CASE c = k
  BY <1>1 DEF FreeBits, TypeOK
<1>2. CASE c # k
  BY <1>2 DEF FreeBits, TypeOK
<1> QED
  BY <1>1, <1>2

LEMMA ReleaseLockHistory ==
  ASSUME TypeOK, HistoryInv, NEW o \in Objects, ReleaseLock(o)
  PROVE  /\ \A x \in Objects : CallInv(x)'
         /\ TagInv'
         /\ Shrinks
<1> DEFINE k == request[o].card
<1>1. /\ pc[o] = "open" /\ pc'[o] = "unlocked" /\ \A x \in Objects \ {o} : pc'[x] = pc[x]
      /\ UNCHANGED <<lock_tag, devices, file, request, object, got>>
      /\ FreeBits(object[o].m_deviceNumber, CloseBits(o))
  BY DEF ReleaseLock, Goto, TypeOK
<1>2. CallInv(o)
  BY DEF HistoryInv
<1>3. k \in Cards /\ FreeBits(k, CloseBits(o))
  BY <1>1, <1>2 DEF CallInv, TypeOK, Requests
<1>4. ASSUME NEW x \in Objects \ {o} PROVE CallInv(x)'
  <2>1. Untouched(x)
    BY <1>1 DEF Untouched
  <2> QED
    BY <1>1, <2>1, UntouchedCall DEF HistoryInv
<1>5. CallInv(o)'
  BY <1>1, <1>2 DEF CallInv
<1>6. TagInv'
  BY <1>1 DEF HistoryInv, TagInv
<1>7. Shrinks
  BY <1>1, <1>3, FreeBitsIs DEF Shrinks, Has
<1> QED
  BY <1>4, <1>5, <1>6, <1>7

(* close() takes all that its file has.                                    *)
LEMMA ReleaseHistory ==
  ASSUME TypeOK, HistoryInv, NEW o \in Objects, Release(o)
  PROVE  /\ \A x \in Objects : CallInv(x)'
         /\ TagInv'
         /\ Shrinks
         /\ \A c \in Cards, b \in Bits : ~Has(o, c, b)'
<1>1. /\ pc[o] \in {"refused", "answered", "unlocked", "exiting"} /\ pc'[o] = "closed"
      /\ request'[o] = NoRequest /\ got'[o] = {} /\ UNCHANGED <<lock_tag, object>>
  BY DEF Release, Goto, TypeOK
<1>2. \A x \in Objects \ {o} : Untouched(x)
  BY DEF Release, Goto, Untouched, TypeOK
<1>3. CallInv(o)
  BY DEF HistoryInv
<1>4. ASSUME NEW x \in Objects \ {o} PROVE CallInv(x)'
  BY <1>1, <1>2, UntouchedCall DEF HistoryInv
<1>5. CallInv(o)'
  BY <1>1 DEF CallInv, NoRequest
<1>6. TagInv'
  BY <1>1, <1>2 DEF HistoryInv, TagInv, Untouched
<1>7. Shrinks
  <2>1. CASE file[o].slot = NoSlot
    <3>1. UNCHANGED <<global_locks, lock_pid, lock_tags>>
      BY <2>1 DEF Release
    <3>2. \A c \in Cards, b \in Bits : ~Has(o, c, b)
      BY <1>1, <1>3, <2>1, CardsAssumption DEF CallInv, Has, TypeOK, Requests
    <3>3. \A x \in Objects \ {o}, c \in Cards, b \in Bits : Has(x, c, b) => Has(x, c, b)'
      BY <1>2, <3>1 DEF Has, Untouched
    <3> QED
      BY <3>1, <3>2, <3>3 DEF Shrinks
  <2>2. CASE file[o].slot # NoSlot
    <3> DEFINE k == file[o].slot
    <3>1. k \in Cards /\ FreeBits(k, FileBits(o))
      BY <2>2 DEF Release, TypeOK, FileData
    <3> SUFFICES ASSUME NEW c \in Cards, NEW b \in Bits, b \in global_locks'[c]
                 PROVE  /\ b \in global_locks[c] /\ lock_pid'[c][b] = lock_pid[c][b]
                        /\ \A x \in Objects : Has(x, c, b) => Has(x, c, b)'
      BY DEF Shrinks
    <3>2. ~(c = k /\ b \in FileBits(o))
      BY <3>1, FreeBitsIs
    <3>3. /\ b \in global_locks[c] /\ lock_pid'[c][b] = lock_pid[c][b]
          /\ lock_tags'[c][b] = lock_tags[c][b]
      BY <3>1, <3>2, FreeBitsIs
    <3>4. ~Has(o, c, b)
      <4> SUFFICES ASSUME Has(o, c, b) PROVE FALSE
        OBVIOUS
      <4>1. c = k
        BY <1>1, <1>3 DEF CallInv, Has
      <4> QED
        BY <3>2, <4>1 DEF Has, FileBits
    <3>5. \A x \in Objects \ {o} : Has(x, c, b) => Has(x, c, b)'
      BY <1>2, <3>3 DEF Has, Untouched
    <3> QED
      BY <3>3, <3>4, <3>5
  <2> QED
    BY <2>1, <2>2
<1> QED
  BY <1>1, <1>4, <1>5, <1>6, <1>7 DEF Has

LEMMA ClearHistory ==
  ASSUME TypeOK, HistoryInv, ClearLocks
  PROVE  /\ \A x \in Objects : CallInv(x)'
         /\ TagInv'
         /\ Shrinks
<1>1. /\ \A x \in Objects : got'[x] = {}
      /\ UNCHANGED <<file, request, pc, object>>
      /\ \A c \in Cards : global_locks'[c] = {}
  BY DEF ClearLocks
<1> QED
  BY <1>1 DEF HistoryInv, CallInv, TagInv, Shrinks

LEMMA NoStepHistory ==
  ASSUME HistoryInv, UNCHANGED vars
  PROVE  /\ \A x \in Objects : CallInv(x)'
         /\ TagInv'
         /\ UNCHANGED table
         /\ \A x \in Objects, c \in Cards, b \in Bits : Has(x, c, b)' <=> Has(x, c, b)
BY DEF HistoryInv, CallInv, TagInv, Has, vars, table

(* A step that moves no bit                                                *)
Keeps ==
  /\ UNCHANGED table
  /\ \A x \in Objects, c \in Cards, b \in Bits : Has(x, c, b)' <=> Has(x, c, b)

LEMMA KeepsShrinks ==
  ASSUME Keeps
  PROVE  Shrinks
BY DEF Keeps, Shrinks, table

(* Every step keeps, grants or frees, and the calls know what they should. *)
LEMMA HistoryKinds ==
  ASSUME TypeOK, HistoryInv, [Next]_vars
  PROVE  /\ \A x \in Objects : CallInv(x)'
         /\ TagInv'
         /\ Shrinks \/ \E o \in Objects : Grants(o)
<1>1. ASSUME NEW o \in Objects,
             Open(o) \/ SetCardConflict(o) \/ SetCardNoLock(o) \/ ClearResult(o)
             \/ CopyToUser(o) \/ \E c \in Cards : GetLock(o, c)
      PROVE  Keeps /\ TagInv' /\ \A x \in Objects : CallInv(x)'
  BY <1>1, OpenHistory, SetCardHistory, CopyHistory, GetLockHistory DEF Keeps
<1>2. ASSUME NEW p, Exit(p)
      PROVE  Keeps /\ TagInv' /\ \A x \in Objects : CallInv(x)'
  BY <1>2, ExitHistory DEF Keeps
<1>3. CASE UNCHANGED vars
  BY <1>3, NoStepHistory, KeepsShrinks DEF Keeps
<1> QED
  BY <1>1, <1>2, <1>3, KeepsShrinks, GrantHistory, ReleaseLockHistory, ReleaseHistory,
     ClearHistory DEF Next, SetCard

LEMMA HistoryStep ==
  ASSUME TypeOK, TypeOK', HistoryInv, [Next]_vars
  PROVE  HistoryInv'
<1>1. \A c \in Cards : global_locks'[c] \subseteq Bits
  BY DEF TypeOK
<1>2. CASE Shrinks
  BY <1>1, <1>2, HistoryKinds DEF HistoryInv, OwnedInv, Shrinks
<1>3. ASSUME NEW o \in Objects, Grants(o) PROVE HistoryInv'
  <2> SUFFICES ASSUME NEW c \in Cards, NEW b \in global_locks'[c]
               PROVE  \E x \in Objects : Has(x, c, b)' /\ lock_pid'[c][b] = PidOf[x]
    BY HistoryKinds DEF HistoryInv, OwnedInv
  <2>1. b \in Bits
    BY <1>1
  <2>2. CASE Has(o, c, b)'
    BY <1>3, <2>1, <2>2 DEF Grants
  <2>3. CASE ~Has(o, c, b)'
    <3>1. b \in global_locks[c] /\ lock_pid'[c][b] = lock_pid[c][b] /\ ~Has(o, c, b)
      BY <1>3, <2>1, <2>3 DEF Grants
    <3>2. PICK x \in Objects : Has(x, c, b) /\ lock_pid[c][b] = PidOf[x]
      BY <3>1 DEF HistoryInv, OwnedInv
    <3>3. Has(x, c, b)'
      BY <1>3, <2>1, <3>1, <3>2 DEF Grants
    <3> QED
      BY <3>1, <3>2, <3>3
  <2> QED
    BY <2>2, <2>3
<1> QED
  BY <1>2, <1>3, HistoryKinds

LEMMA History == Spec => []HistoryInv
<1>1. Init => HistoryInv
  BY DEF Init, HistoryInv, CallInv, TagInv, OwnedInv, NoRequest
<1>2. TypeOK /\ TypeOK' /\ HistoryInv /\ [Next]_vars => HistoryInv'
  BY HistoryStep
<1> QED
  BY <1>1, <1>2, TypeCorrect, PTL DEF Spec

LEMMA GrantedIs ==
  ASSUME NEW o \in Objects
  PROVE  granted[o] = {cb \in Cards \X Bits : Has(o, cb[1], cb[2])}
BY DEF granted, Has

(* In every environment, each locked bit was granted to a file that is     *)
(* still open, of the process that /proc/wupper shows.                     *)
THEOREM NoneOrphaned == Spec => []NoOrphanedLock
<1>1. TypeOK /\ HistoryInv => NoOrphanedLock
  <2> SUFFICES ASSUME TypeOK, HistoryInv, NEW c \in Cards, NEW b \in global_locks[c]
               PROVE  \E o \in Objects : /\ pc[o] # "closed" /\ <<c, b>> \in granted[o]
                                         /\ lock_pid[c][b] = PidOf[o]
    BY DEF NoOrphanedLock
  <2>1. PICK o \in Objects : Has(o, c, b) /\ lock_pid[c][b] = PidOf[o]
    BY DEF HistoryInv, OwnedInv
  <2>2. pc[o] # "closed"
    BY <2>1 DEF HistoryInv, CallInv, Has
  <2>3. b \in Bits
    BY DEF TypeOK
  <2> QED
    BY <2>1, <2>2, <2>3, GrantedIs
<1> QED
  BY <1>1, History, TypeCorrect, PTL

(* The ways to lose a bit that o has                                       *)
Lost(o) ==
  \/ ReleaseLock(o) \/ Release(o)
  \/ ClearLocks
  \/ \E x \in Objects \ {o} :
       \/ Release(x) /\ got[x] = {}
       \/ /\ ReleaseLock(x)
          /\ got[x] = {} \/ object[x].m_myLockTag # file[x].lock_tag

LEMMA LossIs ==
  ASSUME TypeOK, HistoryInv, [Next]_vars, NEW o \in Objects, ~Lost(o),
         NEW c \in Cards, NEW b \in Bits, Has(o, c, b)
  PROVE  Has(o, c, b)'
<1>0. got[o] # {}
  BY DEF Has
<1>1. CASE Keeps
  BY <1>1 DEF Keeps
<1>2. ASSUME NEW x \in Objects, Grants(x) PROVE Has(o, c, b)'
  BY <1>2 DEF Grants
<1>3. ASSUME NEW x \in Objects \ {o}, ReleaseLock(x) PROVE Has(o, c, b)'
  <2>1. got[x] # {} /\ object[x].m_myLockTag = file[x].lock_tag
    BY <1>3 DEF Lost
  <2>2. file[x].lock_tag # file[o].lock_tag
    BY <1>0, <2>1 DEF HistoryInv, TagInv
  <2>3. /\ object[x].m_deviceNumber \in Cards
        /\ FreeBits(object[x].m_deviceNumber, CloseBits(x))
        /\ UNCHANGED <<file, request, got>>
    BY <1>3 DEF ReleaseLock, HistoryInv, CallInv, TypeOK, Requests
  <2>4. ~(c = object[x].m_deviceNumber /\ b \in CloseBits(x))
    BY <2>1, <2>2 DEF Has, CloseBits
  <2> QED
    BY <2>3, <2>4, FreeBitsIs DEF Has
<1>4. ASSUME NEW x \in Objects \ {o}, Release(x) PROVE Has(o, c, b)'
  <2>1. got[x] # {}
    BY <1>4 DEF Lost
  <2>2. file[x].lock_tag # file[o].lock_tag
    BY <1>0, <2>1 DEF HistoryInv, TagInv
  <2>3. file'[o] = file[o] /\ request'[o] = request[o] /\ got'[o] = got[o]
    BY <1>4 DEF Release, TypeOK
  <2>4. CASE file[x].slot = NoSlot
    BY <1>4, <2>3, <2>4 DEF Release, Has
  <2>5. CASE file[x].slot # NoSlot
    <3>1. file[x].slot \in Cards /\ FreeBits(file[x].slot, FileBits(x))
      BY <1>4, <2>5 DEF Release, TypeOK, FileData
    <3>2. ~(c = file[x].slot /\ b \in FileBits(x))
      BY <2>2 DEF Has, FileBits
    <3> QED
      BY <2>3, <3>1, <3>2, FreeBitsIs DEF Has
  <2> QED
    BY <2>4, <2>5
<1>5. ASSUME NEW x \in Objects,
             Open(x) \/ SetCardConflict(x) \/ SetCardNoLock(x) \/ ClearResult(x)
             \/ CopyToUser(x) \/ \E k \in Cards : GetLock(x, k)
      PROVE  Keeps
  BY <1>5, OpenHistory, SetCardHistory, CopyHistory, GetLockHistory DEF Keeps
<1>6. ASSUME NEW p, Exit(p) PROVE Keeps
  BY <1>6, ExitHistory DEF Keeps
<1>7. CASE UNCHANGED vars
  BY <1>7, NoStepHistory DEF Keeps
<1>8. ASSUME NEW x \in Objects, SetCardGrant(x) PROVE Grants(x)
  BY <1>8, GrantHistory
<1> QED
  BY <1>1, <1>2, <1>3, <1>4, <1>5, <1>6, <1>7, <1>8 DEF Next, SetCard, Lost

(* In every environment a bit is taken from its holder only by its own     *)
(* close, by clearlock, or through a tag that the closing object was not   *)
(* given: no holder of a lock frees the lock of another one.               *)
THEOREM LocksHeld == Spec => HeldUntilClose
<1>1. TypeOK /\ HistoryInv /\ [Next]_vars
        => \A o \in Objects : ~(granted[o] \subseteq granted'[o]) => Lost(o)
  <2> SUFFICES ASSUME TypeOK, HistoryInv, [Next]_vars, NEW o \in Objects, ~Lost(o)
               PROVE  granted[o] \subseteq granted'[o]
    OBVIOUS
  <2>1. granted[o] = {cb \in Cards \X Bits : Has(o, cb[1], cb[2])}
    BY GrantedIs
  <2>2. granted'[o] = {cb \in Cards \X Bits : Has(o, cb[1], cb[2])'}
    BY DEF granted, Has
  <2> QED
    BY <2>1, <2>2, LossIs
<1> QED
  BY <1>1, History, TypeCorrect, PTL DEF Spec, HeldUntilClose, Lost

LEMMA MaskStep ==
  ASSUME TypeOK, HistoryInv, NEW o \in Objects, NEW c \in Cards, GetLock(o, c),
         NEW b \in Bits \ Believed(o, c)
  PROVE  b \in answer'[o] <=> \E x \in Objects \ {o} : <<c, b>> \in granted[x]
<1>1. b \in answer'[o] <=> b \in global_locks[c]
  BY DEF GetLock, OtherLocks, TypeOK
<1>2. ~Has(o, c, b)
  <2>1. CallInv(o) /\ pc[o] \in {"query", "open"}
    BY DEF GetLock, HistoryInv
  <2>2. CASE pc[o] = "query"
    BY <2>1, <2>2 DEF CallInv, Has
  <2>3. CASE pc[o] = "open"
    BY <2>1, <2>3 DEF CallInv, Has, Believed
  <2> QED
    BY <2>1, <2>2, <2>3
<1>3. \A x \in Objects : <<c, b>> \in granted[x] <=> Has(x, c, b)
  BY GrantedIs
<1>4. b \in global_locks[c] => \E x \in Objects : Has(x, c, b)
  BY DEF HistoryInv, OwnedInv
<1>5. \A x \in Objects : Has(x, c, b) => b \in global_locks[c]
  BY DEF Has
<1> QED
  BY <1>1, <1>2, <1>3, <1>4, <1>5

(* In every environment get_lock_mask names the bits that others have and  *)
(* no other bit, save for those that the object believes its own.          *)
THEOREM MaskNamesOthers == Spec => LockMaskIsOfOthers
<1>1. TypeOK /\ HistoryInv =>
        \A o \in Objects, c \in Cards : GetLock(o, c) =>
          \A b \in Bits \ Believed(o, c) :
            b \in answer'[o] <=> \E x \in Objects \ {o} : <<c, b>> \in granted[x]
  BY MaskStep
<1> QED
  BY <1>1, History, TypeCorrect, PTL DEF Spec, LockMaskIsOfOthers

-----------------------------------------------------------------------------
(***************************************************************************)
(* The refinement: in every environment the driver and its callers         *)
(* implement LockManager.                                                  *)
(***************************************************************************)

(* A step that frees the bits of o                                         *)
Frees(o) ==
  \A c \in Cards, b \in Bits :
    /\ ~Has(o, c, b)'
    /\ \A x \in Objects \ {o} : Has(x, c, b)' <=> Has(x, c, b)

(* A step that changes nothing that LockManager knows                      *)
Stutters ==
  \A x \in Objects, c \in Cards, b \in Bits : Has(x, c, b)' <=> Has(x, c, b)

(* lock_pid names the process of the object that has the bit.              *)
LEMMA PidOfHolder ==
  ASSUME HistoryInv, NEW o \in Objects, NEW c \in Cards, NEW b, Has(o, c, b)
  PROVE  lock_pid[c][b] = PidOf[o]
<1>1. PICK x \in Objects : Has(x, c, b) /\ lock_pid[c][b] = PidOf[x]
  BY DEF HistoryInv, OwnedInv, Has
<1>2. x = o
  BY <1>1 DEF Has, HistoryInv, TagInv
<1> QED
  BY <1>1, <1>2

(* Freeing bits of one tag takes them from at most one file, and that one  *)
(* loses all it has, if S is closed: no file has bits in and out of it.    *)
LEMMA FreeKind ==
  ASSUME TypeOK, HistoryInv, NEW k \in Cards, NEW S, NEW t, FreeBits(k, S),
         \A b \in Bits : b \in S => lock_tags[k][b] = t,
         \A x \in Objects, b \in Bits, d \in Bits :
           Has(x, k, b) /\ Has(x, k, d) /\ b \in S => d \in S,
         \A x \in Objects :
           \/ file'[x] = file[x] /\ request'[x] = request[x] /\ got'[x] = got[x]
           \/ got[x] = {} /\ got'[x] = {}
  PROVE  Stutters \/ \E x \in Objects : Frees(x)
<1>1. ASSUME NEW x \in Objects, NEW c \in Cards, NEW b \in Bits
      PROVE  Has(x, c, b)' <=> Has(x, c, b) /\ ~(c = k /\ b \in S)
  <2>1. CASE got[x] = {} /\ got'[x] = {}
    BY <2>1 DEF Has
  <2>2. CASE file'[x] = file[x] /\ request'[x] = request[x] /\ got'[x] = got[x]
    BY <2>2, FreeBitsIs DEF Has
  <2> QED
    BY <2>1, <2>2
<1>2. CASE \A x \in Objects, b \in Bits : Has(x, k, b) => b \notin S
  BY <1>1, <1>2 DEF Stutters
<1>3. ASSUME NEW x \in Objects, NEW b \in Bits, Has(x, k, b), b \in S PROVE Frees(x)
  <2>1. file[x].lock_tag = t /\ got[x] # {}
    BY <1>3 DEF Has
  <2>2. ASSUME NEW c \in Cards, NEW d \in Bits, Has(x, c, d) PROVE c = k /\ d \in S
    <3>1. c = k
      BY <1>3, <2>2 DEF Has
    <3> QED
      BY <1>3, <2>2, <3>1
  <2>3. ASSUME NEW y \in Objects \ {x}, NEW c \in Cards, NEW d \in Bits, Has(y, c, d)
        PROVE  ~(c = k /\ d \in S)
    BY <2>1, <2>3 DEF Has, HistoryInv, TagInv
  <2> QED
    BY <1>1, <2>2, <2>3 DEF Frees
<1> QED
  BY <1>2, <1>3

LEMMA ReleaseLockKind ==
  ASSUME TypeOK, HistoryInv, NEW o \in Objects, ReleaseLock(o)
  PROVE  Stutters \/ \E x \in Objects : Frees(x)
<1> DEFINE k == object[o].m_deviceNumber
<1>1. k \in Cards /\ FreeBits(k, CloseBits(o)) /\ UNCHANGED <<file, request, got>>
  BY DEF ReleaseLock, HistoryInv, CallInv, TypeOK, Requests
<1>2. \A b \in Bits : b \in CloseBits(o) => lock_tags[k][b] = object[o].m_myLockTag
  BY DEF CloseBits
<1>3. ASSUME NEW x \in Objects, NEW b \in Bits, NEW d \in Bits,
             Has(x, k, b), Has(x, k, d), b \in CloseBits(o)
      PROVE  d \in CloseBits(o)
  <2>1. lock_pid[k][b] = lock_pid[k][d]
    BY <1>1, <1>3, PidOfHolder
  <2>2. lock_tags[k][b] = lock_tags[k][d]
    BY <1>3 DEF Has
  <2> QED
    BY <1>3, <2>1, <2>2 DEF CloseBits
<1> HIDE DEF k
<1> QED
  BY <1>1, <1>2, <1>3, FreeKind

LEMMA ReleaseKind ==
  ASSUME TypeOK, HistoryInv, NEW o \in Objects, Release(o)
  PROVE  Stutters \/ \E x \in Objects : Frees(x)
<1> DEFINE k == file[o].slot
<1>1. \A x \in Objects \ {o} : Untouched(x)
  BY DEF Release, Goto, Untouched, TypeOK
<1>2. got'[o] = {} /\ \A c \in Cards, b \in Bits : ~Has(o, c, b)'
  BY ReleaseHistory DEF Release, TypeOK
<1>3. CASE k = NoSlot
  <2>1. UNCHANGED <<global_locks, lock_pid, lock_tags>>
    BY <1>3 DEF Release
  <2>2. ASSUME NEW x \in Objects \ {o}, NEW c \in Cards, NEW b \in Bits
        PROVE  Has(x, c, b)' <=> Has(x, c, b)
    BY <1>1, <2>1 DEF Has, Untouched
  <2> QED
    BY <1>2, <2>2 DEF Frees
<1>4. CASE k # NoSlot /\ got[o] = {}
  <2>1. k \in Cards /\ FreeBits(k, FileBits(o))
    BY <1>4 DEF Release, TypeOK, FileData
  <2>2. \A b \in Bits : b \in FileBits(o) => lock_tags[k][b] = file[o].lock_tag
    BY DEF FileBits
  <2>3. \A x \in Objects, b \in Bits, d \in Bits :
          Has(x, k, b) /\ Has(x, k, d) /\ b \in FileBits(o) => d \in FileBits(o)
    BY DEF Has, FileBits
  <2>4. \A x \in Objects :
          \/ file'[x] = file[x] /\ request'[x] = request[x] /\ got'[x] = got[x]
          \/ got[x] = {} /\ got'[x] = {}
    BY <1>1, <1>2, <1>4 DEF Untouched
  <2> HIDE DEF k
  <2> QED
    BY <2>1, <2>2, <2>3, <2>4, FreeKind
<1>5. CASE k # NoSlot /\ got[o] # {}
  <2>1. k \in Cards /\ FreeBits(k, FileBits(o))
    BY <1>5 DEF Release, TypeOK, FileData
  <2>2. ASSUME NEW x \in Objects \ {o}, NEW c \in Cards, NEW b \in Bits
        PROVE  Has(x, c, b)' <=> Has(x, c, b)
    <3>1. Untouched(x)
      BY <1>1
    <3>2. Has(x, c, b) => ~(c = k /\ b \in FileBits(o))
      BY <1>5 DEF Has, FileBits, HistoryInv, TagInv
    <3> QED
      BY <2>1, <3>1, <3>2, FreeBitsIs DEF Has, Untouched
  <2> QED
    BY <1>2, <2>2 DEF Frees
<1> QED
  BY <1>3, <1>4, <1>5

(* Every step stutters, grants or frees.                                   *)
LEMMA StepKinds ==
  ASSUME TypeOK, HistoryInv, [Next]_vars
  PROVE  \/ Stutters \/ ClearLocks
         \/ \E o \in Objects : Grants(o)
         \/ \E o \in Objects : Frees(o)
<1>1. ASSUME NEW o \in Objects,
             Open(o) \/ SetCardConflict(o) \/ SetCardNoLock(o) \/ ClearResult(o)
             \/ CopyToUser(o) \/ \E c \in Cards : GetLock(o, c)
      PROVE  Stutters
  BY <1>1, OpenHistory, SetCardHistory, CopyHistory, GetLockHistory DEF Stutters
<1>2. ASSUME NEW p, Exit(p) PROVE Stutters
  BY <1>2, ExitHistory DEF Stutters
<1>3. CASE UNCHANGED vars
  BY <1>3, NoStepHistory DEF Stutters
<1>4. ASSUME NEW o \in Objects, SetCardGrant(o) PROVE Grants(o)
  BY <1>4, GrantHistory
<1> QED
  BY <1>1, <1>2, <1>3, <1>4, ReleaseLockKind, ReleaseKind DEF Next, SetCard

LEMMA StuttersGranted ==
  ASSUME Stutters
  PROVE  granted' = granted
<1>1. \A x \in Objects :
        {cb \in Cards \X Bits : Has(x, cb[1], cb[2])'}
          = {cb \in Cards \X Bits : Has(x, cb[1], cb[2])}
  BY DEF Stutters
<1> QED
  BY <1>1 DEF granted, Has

LEMMA GrantsGranted ==
  ASSUME NEW o \in Objects, Grants(o)
  PROVE  Abstract!Grant(o, request[o].card, request[o].mask)
<1> DEFINE k == request[o].card
           H(x) == {cb \in Cards \X Bits : Has(x, cb[1], cb[2])}
<1>1. granted = [x \in Objects |-> H(x)] /\ granted' = [x \in Objects |-> H(x)']
  BY DEF granted, Has
<1>2. H(o) = {} /\ H(o)' = {k} \X request[o].mask
  BY DEF Grants
<1>3. \A x \in Objects \ {o} : H(x)' = H(x)
  <2> SUFFICES ASSUME NEW x \in Objects \ {o} PROVE H(x)' = H(x)
    OBVIOUS
  <2>1. \A cb \in Cards \X Bits : Has(x, cb[1], cb[2])' <=> Has(x, cb[1], cb[2])
    BY DEF Grants
  <2> QED BY <2>1
<1>4. \A x \in Objects : H(x) \cap ({k} \X request[o].mask) = {}
  BY DEF Grants, Has
<1>5. granted' = [granted EXCEPT ![o] = {k} \X request[o].mask]
  <2> DEFINE G == {k} \X request[o].mask
  <2>1. \A x \in Objects : H(x)' = IF x = o THEN G ELSE H(x)
    BY <1>2, <1>3
  <2> HIDE DEF G, H
  <2>2. granted' = [granted EXCEPT ![o] = G]
    BY <1>1, <2>1
  <2> QED BY <2>2 DEF G
<1> QED
  BY <1>1, <1>2, <1>4, <1>5 DEF Abstract!Grant, Grants

LEMMA FreesGranted ==
  ASSUME NEW o \in Objects, Frees(o)
  PROVE  Abstract!Release(o) \/ granted' = granted
<1> DEFINE H(x) == {cb \in Cards \X Bits : Has(x, cb[1], cb[2])}
<1>1. granted = [x \in Objects |-> H(x)] /\ granted' = [x \in Objects |-> H(x)']
  BY DEF granted, Has
<1>2. H(o)' = {} /\ \A x \in Objects \ {o} : H(x)' = H(x)
  BY DEF Frees
<1>3. granted' = [granted EXCEPT ![o] = {}]
  BY <1>1, <1>2
<1>4. CASE granted[o] = {}
  BY <1>1, <1>2, <1>4
<1>5. CASE granted[o] # {}
  BY <1>3, <1>5 DEF Abstract!Release
<1> QED
  BY <1>4, <1>5

LEMMA ClearGranted ==
  ASSUME ClearLocks
  PROVE  Abstract!Clear
BY DEF ClearLocks, granted, Abstract!Clear

(* The initial state and each step of the driver and its callers are one   *)
(* of LockManager, or change nothing that it knows.                        *)
THEOREM DriverImplementsLockManager == Spec => ImplementsLockManager
<1>1. Init => Abstract!Init
  BY DEF Init, granted, Abstract!Init
<1>2. TypeOK /\ HistoryInv /\ [Next]_vars => [Abstract!Next]_granted
  <2> SUFFICES ASSUME TypeOK, HistoryInv, [Next]_vars
               PROVE  Abstract!Next \/ granted' = granted
    OBVIOUS
  <2>1. CASE Stutters
    BY <2>1, StuttersGranted
  <2>2. ASSUME NEW o \in Objects, Grants(o) PROVE Abstract!Next
    BY <2>2, GrantsGranted DEF Abstract!Next, Grants
  <2>3. ASSUME NEW o \in Objects, Frees(o) PROVE Abstract!Next \/ granted' = granted
    BY <2>3, FreesGranted DEF Abstract!Next
  <2>4. CASE ClearLocks
    BY <2>4, ClearGranted DEF Abstract!Next
  <2> QED
    BY <2>1, <2>2, <2>3, <2>4, StepKinds
<1> QED
  BY <1>1, <1>2, History, TypeCorrect, PTL
  DEF Spec, ImplementsLockManager, Abstract!Spec

-----------------------------------------------------------------------------
(***************************************************************************)
(* Exclusion.  Every file is attached with a lock, kmalloc returns no      *)
(* stale tag and nobody writes "clearlock"; SETCARDs may overlap.          *)
(***************************************************************************)
Orderly == ~NoLockOpens /\ StaleTags = {NoTag} /\ Clearlock = "never"

(* t is the tag of a grant, and that of no other object of the process.    *)
NotOfAnother(o, t) ==
  /\ t # NoTag /\ t < lock_tag
  /\ \A x \in Objects \ {o} : PidOf[x] = PidOf[o] => file[x].lock_tag # t

NotOfAnotherNext(o, t) ==
  /\ t # NoTag /\ t < lock_tag'
  /\ \A x \in Objects \ {o} : PidOf[x] = PidOf[o] => file'[x].lock_tag # t

\* What o is about to be told, and what it was told
Answered(o) ==
  pc[o] = "copy" /\ devices[request[o].card].lock_error = {}
    => NotOfAnother(o, devices[request[o].card].lock_tag)
Told(o) == pc[o] = "open" => NotOfAnother(o, object[o].m_myLockTag)

OrderlyCall(o) ==
  /\ pc[o] \notin {"nolock", "query", "answered"}
  /\ pc[o] # "closed" => request[o].mask # {} /\ ~request[o].query
  /\ got[o] = {} => file[o].lock_tag = NoTag
  /\ got[o] # {} => file[o].lock_tag # NoTag /\ got[o] = request[o].mask
  /\ Answered(o) /\ Told(o)
  /\ pc[o] \in {"copy", "open"} =>
       \A c \in Cards, b \in got[o] : c = request[o].card => Has(o, c, b)

(* A process makes one call at a time.                                     *)
OneCall ==
  \A o, x \in Objects :
    o # x /\ PidOf[o] = PidOf[x] /\ pc[o] \in {"opened", "copy"}
      => pc[x] \in {"closed", "open"}

OrderlyInv == lock_tag # NoTag /\ OneCall /\ \A o \in Objects : OrderlyCall(o)

Inv == TypeOK /\ TypeOK' /\ HistoryInv /\ OrderlyInv

(* Under these conditions only the close of an object takes its bits.      *)
LEMMA OthersKeep ==
  ASSUME Inv, Orderly, [Next]_vars, NEW o \in Objects, ~ReleaseLock(o), ~Release(o),
         NEW c \in Cards, NEW b \in Bits, Has(o, c, b)
  PROVE  Has(o, c, b)'
<1>0. /\ file[o].lock_tag # NoTag /\ lock_tags[c][b] = file[o].lock_tag
      /\ lock_pid[c][b] = PidOf[o]
  BY PidOfHolder DEF Inv, OrderlyInv, OrderlyCall, Has
<1>1. ~ClearLocks
  BY DEF ClearLocks, Orderly
<1>2. CASE ~Lost(o)
  BY <1>2, LossIs DEF Inv
<1>3. ASSUME NEW x \in Objects \ {o}, Release(x), got[x] = {} PROVE Has(o, c, b)'
  <2>1. file[x].lock_tag = NoTag
    BY <1>3 DEF Inv, OrderlyInv, OrderlyCall
  <2>2. file'[o] = file[o] /\ request'[o] = request[o] /\ got'[o] = got[o]
    BY <1>3 DEF Release, Inv, TypeOK
  <2>3. CASE file[x].slot = NoSlot
    BY <1>3, <2>2, <2>3 DEF Release, Has
  <2>4. CASE file[x].slot # NoSlot
    <3>1. file[x].slot \in Cards /\ FreeBits(file[x].slot, FileBits(x))
      BY <1>3, <2>4 DEF Release, Inv, TypeOK, FileData
    <3>2. ~(c = file[x].slot /\ b \in FileBits(x))
      BY <1>0, <2>1 DEF FileBits
    <3> QED
      BY <2>2, <3>1, <3>2, FreeBitsIs DEF Has, Inv
  <2> QED
    BY <2>3, <2>4
<1>4. ASSUME NEW x \in Objects \ {o}, ReleaseLock(x) PROVE Has(o, c, b)'
  <2>1. /\ object[x].m_deviceNumber \in Cards
        /\ FreeBits(object[x].m_deviceNumber, CloseBits(x))
        /\ UNCHANGED <<file, request, got>> /\ pc[x] = "open"
    BY <1>4 DEF ReleaseLock, Inv, HistoryInv, CallInv, TypeOK, Requests
  <2>2. PidOf[x] = PidOf[o] => object[x].m_myLockTag # file[o].lock_tag
    BY <2>1 DEF Inv, OrderlyInv, OrderlyCall, Told, NotOfAnother
  <2>3. ~(c = object[x].m_deviceNumber /\ b \in CloseBits(x))
    BY <1>0, <2>2 DEF CloseBits
  <2> QED
    BY <2>1, <2>3, FreeBitsIs DEF Has, Inv
<1> QED
  BY <1>1, <1>2, <1>3, <1>4 DEF Lost

(* An object that a step leaves alone keeps what it knows, if the answers  *)
(* and the tags of the others stay.                                        *)
LEMMA UntouchedOrderly ==
  ASSUME Inv, Orderly, [Next]_vars, NEW x \in Objects, Untouched(x),
         ~ReleaseLock(x), ~Release(x),
         Answered(x)', Told(x)'
  PROVE  OrderlyCall(x)'
<1>1. OrderlyCall(x) /\ CallInv(x) /\ got[x] \subseteq Bits
  BY DEF Inv, OrderlyInv, HistoryInv, TypeOK
<1>2. \A c \in Cards, b \in Bits : Has(x, c, b) => Has(x, c, b)'
  BY OthersKeep
<1> QED
  BY <1>1, <1>2 DEF OrderlyCall, Untouched

(* When no file gets a tag, an object still knows none of another.         *)
LEMMA SameFiles ==
  ASSUME NEW x \in Objects, Untouched(x), lock_tag' = lock_tag,
         \A y \in Objects : file'[y].lock_tag \in {NoTag, file[y].lock_tag}
  PROVE  /\ Told(x) => Told(x)'
         /\ Answered(x) /\ devices'[request[x].card] = devices[request[x].card]
              => Answered(x)'
<1>1. \A t : NotOfAnother(x, t) => NotOfAnotherNext(x, t)
  BY DEF NotOfAnother, NotOfAnotherNext
<1> QED
  BY <1>1 DEF Told, Answered, NotOfAnother, NotOfAnotherNext, Untouched

LEMMA OpenOrderly ==
  ASSUME Inv, Orderly, [Next]_vars, NEW o \in Objects, Open(o)
  PROVE  OrderlyInv'
<1>1. PICK r \in Requests :
        /\ r.mask # {} /\ ~r.query
        /\ request' = [request EXCEPT ![o] = r]
        /\ file' = [file EXCEPT ![o] = [slot |-> NoSlot, lock_tag |-> NoTag]]
        /\ pc[o] = "closed" /\ pc' = [pc EXCEPT ![o] = "opened"] /\ Free(o)
        /\ UNCHANGED <<table, devices, object, got>>
  BY DEF Open, Orderly, Goto, Requests
<1>2. \A x \in Objects \ {o} : Untouched(x)
  BY <1>1 DEF Untouched, Inv, TypeOK
<1>3. /\ request'[o] = r /\ file'[o].lock_tag = NoTag /\ pc'[o] = "opened"
      /\ got'[o] = {} /\ UNCHANGED <<lock_tag, devices, object>>
  BY <1>1 DEF Inv, TypeOK, HistoryInv, CallInv, table
<1>4. \A y \in Objects : file'[y].lock_tag \in {NoTag, file[y].lock_tag}
  BY <1>2, <1>3 DEF Untouched
<1>5. ASSUME NEW x \in Objects \ {o} PROVE OrderlyCall(x)'
  <2>1. pc[x] # "closed" => ~Release(x) /\ ~ReleaseLock(x)
    BY <1>1, <1>2 DEF Release, ReleaseLock, Goto, Inv, TypeOK, Untouched
  <2>2. ~Release(x) /\ ~ReleaseLock(x)
    BY <2>1 DEF Release, ReleaseLock
  <2>3. OrderlyCall(x)
    BY DEF Inv, OrderlyInv
  <2> QED
    BY <1>2, <1>3, <1>4, <2>2, <2>3, SameFiles, UntouchedOrderly DEF OrderlyCall
<1>6. OrderlyCall(o)'
  BY <1>1, <1>3 DEF OrderlyCall, Answered, Told
<1>7. OneCall'
  BY <1>1, <1>2, <1>3 DEF Inv, OrderlyInv, OneCall, Free, Untouched
<1> QED
  BY <1>3, <1>5, <1>6, <1>7 DEF Inv, OrderlyInv

LEMMA ConflictOrderly ==
  ASSUME Inv, Orderly, [Next]_vars, NEW o \in Objects, SetCardConflict(o)
  PROVE  OrderlyInv'
<1> USE DEF SetCardConflict, Goto
<1>1. /\ pc[o] = "opened" /\ pc'[o] = "copy" /\ request[o].card \in Cards
      /\ UNCHANGED <<table, file, request, object, got>>
      /\ devices'[request[o].card].lock_error # {}
      /\ \A c \in Cards \ {request[o].card} : devices'[c] = devices[c]
  BY DEF Inv, TypeOK, Requests, Taken
<1>2. \A x \in Objects \ {o} : Untouched(x)
  BY DEF Untouched, Inv, TypeOK
<1> HIDE DEF SetCardConflict, Goto
<1>3. UNCHANGED lock_tag
  BY <1>1 DEF table
<1>4. ASSUME NEW x \in Objects \ {o} PROVE OrderlyCall(x)'
  <2>2. ~Release(x) /\ ~ReleaseLock(x)
    BY <1>2 DEF Release, ReleaseLock, Goto, Inv, TypeOK, Untouched
  <2>3. OrderlyCall(x) /\ request[x].card \in Cards
    BY DEF Inv, OrderlyInv, TypeOK, Requests
  <2>4. Untouched(x)
    BY <1>2
  <2>5. Answered(x)'
    <3>1. CASE request[x].card = request[o].card
      BY <1>1, <3>1 DEF Answered
    <3>2. CASE request[x].card # request[o].card
      BY <1>1, <1>3, <2>3, <2>4, <3>2, SameFiles DEF OrderlyCall
    <3> QED
      BY <3>1, <3>2
  <2>6. Told(x)'
    BY <1>1, <1>3, <2>3, <2>4, SameFiles DEF OrderlyCall
  <2> QED
    BY <2>2, <2>4, <2>5, <2>6, UntouchedOrderly
<1>5. OrderlyCall(o)'
  <2>1. OrderlyCall(o) /\ got[o] = {}
    BY <1>1 DEF Inv, OrderlyInv, HistoryInv, CallInv
  <2> QED
    BY <1>1, <2>1 DEF OrderlyCall, Answered, Told
<1>6. OneCall'
  BY <1>1, <1>2 DEF Inv, OrderlyInv, OneCall, Untouched
<1> QED
  BY <1>3, <1>4, <1>5, <1>6 DEF Inv, OrderlyInv

LEMMA GrantOrderly ==
  ASSUME Inv, Orderly, [Next]_vars, NEW o \in Objects, SetCardGrant(o)
  PROVE  OrderlyInv'
<1> DEFINE k == request[o].card
<1> USE DEF SetCardGrant, Goto
<1>1. /\ pc[o] = "opened" /\ pc'[o] = "copy" /\ k \in Cards
      /\ request' = request /\ object' = object
      /\ request[o].mask # {} /\ request[o].mask \subseteq Bits
      /\ file'[o].lock_tag = lock_tag /\ got'[o] = request[o].mask
      /\ devices'[k] = [lock_tag |-> lock_tag, lock_error |-> {}]
      /\ \A c \in Cards \ {k} : devices'[c] = devices[c]
      /\ lock_tag' = lock_tag + 1
  BY DEF Inv, TypeOK, Requests
<1>2. \A x \in Objects \ {o} : Untouched(x)
  BY DEF Untouched, Inv, TypeOK
<1> HIDE DEF SetCardGrant, Goto
<1>3. lock_tag \in Nat /\ lock_tag # NoTag /\ \A x \in Objects : file[x].lock_tag \in Nat
  BY ConstantFacts DEF Inv, TypeOK, FileData, Tags, OrderlyInv
<1>4. \A x \in Objects : file[x].lock_tag < lock_tag
  BY <1>3 DEF Inv, OrderlyInv, OrderlyCall, HistoryInv, CallInv
<1>5. \A x \in Objects \ {o} : PidOf[x] = PidOf[o] => pc[x] \in {"closed", "open"}
  BY <1>1 DEF Inv, OrderlyInv, OneCall
<1>6. \A x \in Objects \ {o}, t \in Nat : NotOfAnother(x, t) => NotOfAnotherNext(x, t)
  <2> SUFFICES ASSUME NEW x \in Objects \ {o}, NEW t \in Nat, NotOfAnother(x, t)
               PROVE  NotOfAnotherNext(x, t)
    OBVIOUS
  <2>1. \A y \in Objects \ {o} : file'[y].lock_tag = file[y].lock_tag
    BY <1>2 DEF Untouched
  <2>2. t # NoTag /\ t < lock_tag
    BY DEF NotOfAnother
  <2>3. t < lock_tag' /\ file'[o].lock_tag # t
    BY <1>1, <1>3, <2>2
  <2> QED
    BY <2>1, <2>2, <2>3 DEF NotOfAnother, NotOfAnotherNext
<1>7. \A x \in Objects : x = o \/ PidOf[x] # PidOf[o] => NotOfAnotherNext(x, lock_tag)
  <2>1. \A y \in Objects \ {o} : file'[y].lock_tag # lock_tag
    BY <1>2, <1>3, <1>4 DEF Untouched
  <2>2. lock_tag # NoTag /\ lock_tag < lock_tag'
    BY <1>1, <1>3
  <2> QED
    BY <2>1, <2>2 DEF NotOfAnotherNext
<1>8. ASSUME NEW x \in Objects \ {o} PROVE OrderlyCall(x)'
  <2>2. ~Release(x) /\ ~ReleaseLock(x)
    BY <1>2 DEF Release, ReleaseLock, Goto, Inv, TypeOK, Untouched
  <2>3. OrderlyCall(x) /\ request[x].card \in Cards
        /\ devices[request[x].card].lock_tag \in Nat /\ object[x].m_myLockTag \in Nat
    BY ConstantFacts DEF Inv, OrderlyInv, TypeOK, Requests, Results, Members, Tags
  <2>4. Untouched(x)
    BY <1>2
  <2>5. Answered(x)'
    <3> SUFFICES ASSUME pc[x] = "copy", devices'[request[x].card].lock_error = {}
                 PROVE  NotOfAnotherNext(x, devices'[request[x].card].lock_tag)
      BY <2>4 DEF Answered, NotOfAnother, NotOfAnotherNext, Untouched
    <3>1. CASE request[x].card = k
      BY <1>1, <1>5, <1>7, <3>1
    <3>2. CASE request[x].card # k
      <4>1. devices'[request[x].card] = devices[request[x].card]
        BY <1>1, <2>3, <3>2
      <4>2. NotOfAnother(x, devices[request[x].card].lock_tag)
        BY <2>3, <4>1 DEF OrderlyCall, Answered
      <4> QED
        BY <1>6, <2>3, <4>1, <4>2
    <3> QED
      BY <3>1, <3>2
  <2>6. Told(x)'
    <3> SUFFICES ASSUME pc[x] = "open"
                 PROVE  NotOfAnotherNext(x, object[x].m_myLockTag)
      BY <2>4 DEF Told, NotOfAnother, NotOfAnotherNext, Untouched
    <3> QED
      BY <1>6, <2>3 DEF OrderlyCall, Told
  <2> QED
    BY <2>2, <2>4, <2>5, <2>6, UntouchedOrderly
<1>9. OrderlyCall(o)'
  <2>1. OrderlyCall(o)
    BY DEF Inv, OrderlyInv
  <2>2. Answered(o)' /\ Told(o)'
    <3>1. NotOfAnotherNext(o, devices'[request[o].card].lock_tag)
      BY <1>1, <1>7
    <3> QED
      BY <1>1, <3>1 DEF Answered, Told, NotOfAnother, NotOfAnotherNext
  <2>3. \A c \in Cards, b \in got'[o] : c = request'[o].card => Has(o, c, b)'
    BY <1>1, GrantHistory DEF Grants, Inv
  <2> QED
    BY <1>1, <1>3, <2>1, <2>2, <2>3 DEF OrderlyCall
<1>10. OneCall'
  BY <1>1, <1>2 DEF Inv, OrderlyInv, OneCall, Untouched
<1> QED
  BY <1>1, <1>3, <1>8, <1>9, <1>10 DEF Inv, OrderlyInv

LEMMA CopyOrderly ==
  ASSUME Inv, Orderly, [Next]_vars, NEW o \in Objects, CopyToUser(o)
  PROVE  OrderlyInv'
<1>0. OrderlyCall(o) /\ request[o].card \in Cards
  BY DEF Inv, OrderlyInv, TypeOK, Requests
<1> USE DEF CopyToUser, Goto
<1>1. /\ pc[o] = "copy" /\ pc'[o] \in {"open", "refused"}
      /\ file'[o].lock_tag = file[o].lock_tag
      /\ UNCHANGED <<table, devices, request, got>>
  BY <1>0 DEF Inv, TypeOK, OrderlyCall
<1>2. \A x \in Objects \ {o} : Untouched(x)
  BY DEF Untouched, Inv, TypeOK
<1>3. pc'[o] = "open" => /\ devices[request[o].card].lock_error = {}
                         /\ object'[o].m_myLockTag = devices[request[o].card].lock_tag
  BY <1>0 DEF Inv, TypeOK, OrderlyCall
<1> HIDE DEF CopyToUser, Goto
<1>4. UNCHANGED lock_tag /\ \A y \in Objects : file'[y].lock_tag \in {NoTag, file[y].lock_tag}
  BY <1>1, <1>2 DEF table, Untouched
<1>5. ASSUME NEW x \in Objects \ {o} PROVE OrderlyCall(x)'
  <2>2. ~Release(x) /\ ~ReleaseLock(x)
    BY <1>2 DEF Release, ReleaseLock, Goto, Inv, TypeOK, Untouched
  <2>3. OrderlyCall(x)
    BY DEF Inv, OrderlyInv
  <2> QED
    BY <1>1, <1>2, <1>4, <2>2, <2>3, SameFiles, UntouchedOrderly DEF OrderlyCall
<1>6. OrderlyCall(o)'
  <2>1. Answered(o)'
    BY <1>1 DEF Answered
  <2>2. Told(o)'
    <3> SUFFICES ASSUME pc'[o] = "open"
                 PROVE  NotOfAnotherNext(o, object'[o].m_myLockTag)
      BY DEF Told, NotOfAnother, NotOfAnotherNext
    <3>1. NotOfAnother(o, devices[request[o].card].lock_tag)
      BY <1>0, <1>1, <1>3 DEF OrderlyCall, Answered
    <3> QED
      BY <1>3, <1>4, <3>1 DEF NotOfAnother, NotOfAnotherNext
  <2>3. \A c \in Cards, b \in got[o] : c = request[o].card => Has(o, c, b)'
    <3>1. \A c \in Cards, b \in got[o] : c = request[o].card => Has(o, c, b) /\ b \in Bits
      BY <1>0, <1>1 DEF OrderlyCall, Inv, TypeOK
    <3> QED
      BY <3>1, CopyHistory DEF Inv
  <2> QED
    BY <1>0, <1>1, <2>1, <2>2, <2>3 DEF OrderlyCall
<1>7. OneCall'
  BY <1>1, <1>2 DEF Inv, OrderlyInv, OneCall, Untouched
<1> QED
  BY <1>4, <1>5, <1>6, <1>7 DEF Inv, OrderlyInv

LEMMA GetLockOrderly ==
  ASSUME Inv, Orderly, NEW o \in Objects, NEW c \in Cards, GetLock(o, c)
  PROVE  OrderlyInv'
<1>1. UNCHANGED <<table, devices, file, request, pc, object, got>>
  BY DEF GetLock, Inv, OrderlyInv, OrderlyCall
<1> QED
  BY <1>1 DEF Inv, OrderlyInv, OrderlyCall, OneCall, Answered, Told, NotOfAnother, Has, table

LEMMA ReleaseLockOrderly ==
  ASSUME Inv, Orderly, [Next]_vars, NEW o \in Objects, ReleaseLock(o)
  PROVE  OrderlyInv'
<1>1. /\ pc[o] = "open" /\ pc'[o] = "unlocked" /\ Free(o)
      /\ UNCHANGED <<lock_tag, devices, file, request, object, got>>
  BY DEF ReleaseLock, Goto, Inv, TypeOK
<1>2. \A x \in Objects \ {o} : Untouched(x)
  BY <1>1 DEF Untouched, Inv, TypeOK, ReleaseLock, Goto
<1>3. ASSUME NEW x \in Objects \ {o} PROVE OrderlyCall(x)'
  <2>2. ~Release(x) /\ ~ReleaseLock(x)
    BY <1>2 DEF Release, ReleaseLock, Goto, Inv, TypeOK, Untouched
  <2>3. OrderlyCall(x)
    BY DEF Inv, OrderlyInv
  <2> QED
    BY <1>1, <1>2, <2>2, <2>3, SameFiles, UntouchedOrderly DEF OrderlyCall
<1>4. OrderlyCall(o)'
  BY <1>1 DEF Inv, OrderlyInv, OrderlyCall, Answered, Told
<1>5. OneCall'
  BY <1>1, <1>2 DEF Inv, OrderlyInv, OneCall, Untouched, Free
<1> QED
  BY <1>1, <1>3, <1>4, <1>5 DEF Inv, OrderlyInv

LEMMA ReleaseOrderly ==
  ASSUME Inv, Orderly, [Next]_vars, NEW o \in Objects, Release(o)
  PROVE  OrderlyInv'
<1>1. /\ pc[o] \in {"refused", "unlocked", "exiting"} /\ pc'[o] = "closed"
      /\ got'[o] = {} /\ file'[o].lock_tag = NoTag
      /\ UNCHANGED <<lock_tag, devices, object>>
  BY DEF Release, Goto, Inv, OrderlyInv, OrderlyCall, TypeOK, NoFile
<1>2. \A x \in Objects \ {o} : Untouched(x)
  BY DEF Release, Goto, Untouched, Inv, TypeOK
<1>3. \A y \in Objects : file'[y].lock_tag \in {NoTag, file[y].lock_tag}
  BY <1>1, <1>2 DEF Untouched
<1>4. ASSUME NEW x \in Objects \ {o} PROVE OrderlyCall(x)'
  <2>2. ~Release(x) /\ ~ReleaseLock(x)
    BY <1>2 DEF Release, ReleaseLock, Goto, Inv, TypeOK, Untouched
  <2>3. OrderlyCall(x)
    BY DEF Inv, OrderlyInv
  <2> QED
    BY <1>1, <1>2, <1>3, <2>2, <2>3, SameFiles, UntouchedOrderly DEF OrderlyCall
<1>5. OrderlyCall(o)'
  BY <1>1 DEF OrderlyCall, Answered, Told
<1>6. OneCall'
  BY <1>1, <1>2 DEF Inv, OrderlyInv, OneCall, Untouched
<1> QED
  BY <1>1, <1>4, <1>5, <1>6 DEF Inv, OrderlyInv

LEMMA ExitOrderly ==
  ASSUME Inv, Orderly, [Next]_vars, NEW p, Exit(p)
  PROVE  OrderlyInv'
<1>1. UNCHANGED <<table, devices, file, request, got>>
  BY DEF Exit
<1>2. \A x \in Objects : PidOf[x] # p => pc'[x] = pc[x] /\ object'[x] = object[x]
  BY DEF Exit
<1>3. \A x \in Objects : PidOf[x] = p => pc'[x] \in {"closed", "exiting"}
                                        /\ (pc'[x] = "exiting" => pc[x] # "closed")
  BY DEF Exit
<1>4. ASSUME NEW x \in Objects PROVE OrderlyCall(x)'
  <2>1. OrderlyCall(x)
    BY DEF Inv, OrderlyInv
  <2> QED
    BY <1>1, <1>2, <1>3, <2>1 DEF OrderlyCall, Answered, Told, NotOfAnother, Has, table
<1>5. OneCall'
  BY <1>2, <1>3 DEF Inv, OrderlyInv, OneCall
<1> QED
  BY <1>1, <1>4, <1>5 DEF Inv, OrderlyInv, table

LEMMA OrderlyStep ==
  ASSUME Inv, Orderly, [Next]_vars
  PROVE  OrderlyInv'
<1>1. ASSUME NEW o \in Objects, SetCardNoLock(o) \/ ClearResult(o) PROVE FALSE
  BY <1>1 DEF SetCardNoLock, ClearResult, Inv, OrderlyInv, OrderlyCall
<1>2. ~ClearLocks
  BY DEF ClearLocks, Orderly
<1>3. CASE UNCHANGED vars
  BY <1>3 DEF vars, table, Inv, OrderlyInv, OrderlyCall, OneCall, Answered, Told,
     NotOfAnother, Has
<1> QED
  BY <1>1, <1>2, <1>3, OpenOrderly, ConflictOrderly, GrantOrderly, CopyOrderly,
     GetLockOrderly, ReleaseLockOrderly, ReleaseOrderly, ExitOrderly DEF Next, SetCard

LEMMA OrderlyInvariant == Orderly /\ Spec => []OrderlyInv
<1> SUFFICES ASSUME Orderly
             PROVE  Spec => []OrderlyInv
  OBVIOUS
<1>1. Init => OrderlyInv
  BY DEF Init, OrderlyInv, OrderlyCall, OneCall, Answered, Told, NoFile
<1>2. TypeOK /\ TypeOK' /\ HistoryInv /\ OrderlyInv /\ [Next]_vars => OrderlyInv'
  BY OrderlyStep DEF Inv
<1> QED
  BY <1>1, <1>2, TypeCorrect, History, PTL DEF Spec

(* No two open WupperCard objects have a lock on the same resource, unless *)
(* one of them was given the answer to another call.                       *)
THEOREM LocksExclude == Orderly /\ Spec => []MutualExclusion
<1>1. TypeOK /\ HistoryInv /\ OrderlyInv => MutualExclusion
  <2> SUFFICES ASSUME TypeOK, HistoryInv, OrderlyInv,
                      NEW o \in Objects, NEW x \in Objects,
                      o # x, pc[o] = "open", pc[x] = "open",
                      object[o].m_deviceNumber = object[x].m_deviceNumber,
                      object[o].m_myLockTag = file[o].lock_tag,
                      object[x].m_myLockTag = file[x].lock_tag,
                      NEW b \in object[o].m_myLocks \cap object[x].m_myLocks
               PROVE  FALSE
    BY DEF MutualExclusion
  <2>1. ASSUME NEW y \in {o, x}
        PROVE  got[y] # {} /\ Has(y, object[o].m_deviceNumber, b)
    <3>1. OrderlyCall(y) /\ CallInv(y) /\ pc[y] = "open" /\ b \in object[y].m_myLocks
          /\ object[y].m_myLockTag = file[y].lock_tag
          /\ object[y].m_deviceNumber = object[o].m_deviceNumber
      BY <2>1 DEF OrderlyInv, HistoryInv
    <3>2. got[y] # {} /\ got[y] = request[y].mask
      BY <3>1 DEF OrderlyCall, Told, NotOfAnother
    <3>3. object[y].m_deviceNumber = request[y].card /\ b \in got[y]
      BY <3>1, <3>2 DEF CallInv
    <3>4. request[y].card \in Cards
      BY <2>1 DEF TypeOK, Requests
    <3> QED
      BY <3>1, <3>2, <3>3, <3>4 DEF OrderlyCall
  <2>2. file[o].lock_tag = file[x].lock_tag
    BY <2>1 DEF Has
  <2> QED
    BY <2>1, <2>2 DEF HistoryInv, TagInv
<1> QED
  BY <1>1, OrderlyInvariant, History, TypeCorrect, PTL

=============================================================================
