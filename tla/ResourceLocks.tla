--------------------------- MODULE ResourceLocks ---------------------------
(***************************************************************************)
(* The resource lock bits of the wupper driver and the WupperCard objects  *)
(* that use them: the SETCARD, GETLOCK and RELEASELOCK ioctls,             *)
(* wupper_open, wupper_Release and the "clearlock" command of /proc/wupper *)
(* (software/drivers/src/wupper.c), called by card_open, get_lock_mask and *)
(* card_close (software/wupper_tools/src/WupperCard.cpp).                  *)
(*                                                                         *)
(* A step is what the driver does under lock_lock, or one access to the    *)
(* table devices[], which SETCARD reads and writes outside that lock.      *)
(***************************************************************************)
EXTENDS Integers

CONSTANTS
  Objects,     \* WupperCard objects
  PidOf,       \* the process (thread) that owns an object
  Cards,       \* device numbers
  Bits,        \* lock bits of a device
  MaxTag,      \* bound on lock_tag
  StaleTags,   \* what kmalloc can leave in card_params_t.lock_tag
  NoLockOpens, \* may a file be attached without requesting a lock?
  Clearlock    \* may root write "clearlock" to /proc/wupper: "never", "always"
               \* or only when the processes that hold locks are "closed"

NoPid  == 0    \* lock_pid of a free bit
NoTag  == 0    \* lock_tags of a free bit
NoSlot == 99   \* card_params_t.slot of a file that no SETCARD attached
NoCard == -1   \* m_deviceNumber of an object that was never opened

ASSUME ObjectsAssumption == PidOf \in [Objects -> Nat \ {NoPid}]
ASSUME CardsAssumption == Cards # {} /\ Cards \subseteq Nat /\ NoSlot \notin Cards
ASSUME TagAssumption == MaxTag \in Nat /\ StaleTags \subseteq 0 .. MaxTag + 1
ASSUME FlagAssumption ==
  NoLockOpens \in BOOLEAN /\ Clearlock \in {"never", "closed", "always"}

VARIABLES
  global_locks, \* [card -> set of locked bits]
  lock_pid,     \* [card -> [bit -> pid]]
  lock_tags,    \* [card -> [bit -> tag]]
  lock_tag,     \* the tag of the next grant
  devices,      \* [card -> lock_tag and lock_error, shared by every SETCARD]
  file,         \* private_data of the file an object has open
  request,      \* the arguments of the object's current call
  pc,           \* where the object's call has got to
  object,       \* m_deviceNumber, m_myLocks and m_myLockTag
  answer,       \* what get_lock_mask returned to the object
  got           \* history: the bits that SETCARD granted to the open file of an
                \* object, and that no clearlock has taken back

table  == <<global_locks, lock_pid, lock_tags, lock_tag>>
vars   == <<table, devices, file, request, pc, object, answer, got>>

PCs == {"closed", "opened", "nolock", "copy", "refused", "open", "query",
        "answered", "unlocked", "exiting"}

Tags     == 0 .. MaxTag + 1
Results  == [lock_tag : Tags, lock_error : SUBSET Bits]
FileData == [slot : Cards \cup {NoSlot}, lock_tag : Tags]
Requests == [card : Cards, mask : SUBSET Bits, query : BOOLEAN]
Members  == [m_deviceNumber : Cards \cup {NoCard}, m_myLocks : SUBSET Bits,
             m_myLockTag : Tags]

\* WupperCard::WupperCard()
Constructed == [m_deviceNumber |-> NoCard, m_myLocks |-> {}, m_myLockTag |-> 0]

\* An object without a file, or between two calls
NoFile    == [slot |-> NoSlot, lock_tag |-> 0]
NoRequest == [card |-> CHOOSE c \in Cards : TRUE, mask |-> {}, query |-> FALSE]

Init ==
  /\ global_locks = [c \in Cards |-> {}]
  /\ lock_pid     = [c \in Cards |-> [b \in Bits |-> NoPid]]
  /\ lock_tags    = [c \in Cards |-> [b \in Bits |-> NoTag]]
  /\ lock_tag     = 1
  /\ devices      = [c \in Cards |-> [lock_tag |-> 0, lock_error |-> {}]]
  /\ file         = [o \in Objects |-> NoFile]
  /\ request      = [o \in Objects |-> NoRequest]
  /\ pc           = [o \in Objects |-> "closed"]
  /\ object       = [o \in Objects |-> Constructed]
  /\ answer       = [o \in Objects |-> {}]
  /\ got          = [o \in Objects |-> {}]

-----------------------------------------------------------------------------
\* A thread makes one call at a time.
Free(o) ==
  \A x \in Objects \ {o} : PidOf[x] = PidOf[o] => pc[x] \in {"closed", "open"}

InSetCard(x) == pc[x] \in {"nolock", "copy"}

Goto(o, label) == pc' = [pc EXCEPT ![o] = label]

(* Slips that the runs must notice: a test that asks whether all the bits  *)
(* are taken, or that is left out; bits freed whatever their tag, or not   *)
(* at all; a table that is not cleaned.                                    *)
TakenAll(r)      == r.mask \subseteq global_locks[r.card]
TakenNever(r)    == FALSE
FileBitsNone(o)  == {}
FileBitsAnyTag(o) == {b \in Bits : lock_tags[file[o].slot][b] # NoTag}
FreeBitsKeepTags(c, S) ==
  /\ global_locks' = [global_locks EXCEPT ![c] = @ \ S]
  /\ lock_pid'  = [lock_pid EXCEPT ![c] =
                     [b \in Bits |-> IF b \in S THEN NoPid ELSE @[b]]]
  /\ UNCHANGED lock_tags

\* SETCARD refuses a lock_mask of which any bit is taken.
Taken(r) == r.mask \cap global_locks[r.card] # {}

\* The bits that close() frees, and those that card_close() frees before
FileBits(o) == {b \in Bits : lock_tags[file[o].slot][b] = file[o].lock_tag}
CloseBits(o) ==
  LET c == object[o].m_deviceNumber IN
  {b \in Bits : lock_pid[c][b] = PidOf[o] /\ lock_tags[c][b] = object[o].m_myLockTag}

\* The three lock tables of card c with the bits of S made free.
FreeBits(c, S) ==
  /\ global_locks' = [global_locks EXCEPT ![c] = @ \ S]
  /\ lock_pid'  = [lock_pid EXCEPT ![c] =
                     [b \in Bits |-> IF b \in S THEN NoPid ELSE @[b]]]
  /\ lock_tags' = [lock_tags EXCEPT ![c] =
                     [b \in Bits |-> IF b \in S THEN NoTag ELSE @[b]]]

(* open() of the device node by card_open (query FALSE) or by              *)
(* get_lock_mask on an object that is not open (query TRUE).  wupper_open  *)
(* leaves lock_tag as kmalloc returned it.                                 *)
Open(o) ==
  /\ pc[o] = "closed" /\ Free(o)
  /\ \E r \in Requests, t \in StaleTags :
       /\ r.query => r.mask = {}
       /\ r.mask = {} => NoLockOpens
       /\ request' = [request EXCEPT ![o] = r]
       /\ file' = [file EXCEPT ![o] = [slot |-> NoSlot, lock_tag |-> t]]
  /\ Goto(o, "opened")
  /\ UNCHANGED <<table, devices, object, answer, got>>

\* SETCARD with a lock_mask of which a bit is taken
SetCardConflict(o) ==
  LET r == request[o] IN
  /\ pc[o] = "opened"
  /\ Taken(r)
  /\ devices' = [devices EXCEPT ![r.card] =
                   [lock_tag |-> @.lock_tag, lock_error |-> global_locks[r.card]]]
  /\ Goto(o, "copy")
  /\ UNCHANGED <<table, file, request, object, answer, got>>

\* SETCARD with a lock_mask whose bits are all free
SetCardGrant(o) ==
  LET r == request[o] IN
  /\ pc[o] = "opened"
  /\ r.mask # {} /\ ~Taken(r)
  /\ lock_tag <= MaxTag
  /\ global_locks' = [global_locks EXCEPT ![r.card] = @ \cup r.mask]
  /\ lock_pid'  = [lock_pid EXCEPT ![r.card] =
                     [b \in Bits |-> IF b \in r.mask THEN PidOf[o] ELSE @[b]]]
  /\ lock_tags' = [lock_tags EXCEPT ![r.card] =
                     [b \in Bits |-> IF b \in r.mask THEN lock_tag ELSE @[b]]]
  /\ file' = [file EXCEPT ![o] = [slot |-> @.slot, lock_tag |-> lock_tag]]
  /\ devices' = [devices EXCEPT ![r.card] =
                   [lock_tag |-> lock_tag, lock_error |-> {}]]
  /\ lock_tag' = lock_tag + 1
  /\ got' = [got EXCEPT ![o] = r.mask]
  /\ Goto(o, "copy")
  /\ UNCHANGED <<request, object, answer>>

\* SETCARD without a lock_mask, outside lock_lock: the file takes the tag
\* that the next grant will use ...
SetCardNoLock(o) ==
  /\ pc[o] = "opened"
  /\ request[o].mask = {}
  /\ file' = [file EXCEPT ![o] = [slot |-> @.slot, lock_tag |-> lock_tag]]
  /\ Goto(o, "nolock")
  /\ UNCHANGED <<table, devices, request, object, answer, got>>

\* ... and the shared result is cleared.
ClearResult(o) ==
  /\ pc[o] = "nolock"
  /\ devices' = [devices EXCEPT ![request[o].card] =
                   [lock_tag |-> 0, lock_error |-> {}]]
  /\ Goto(o, "copy")
  /\ UNCHANGED <<table, file, request, object, answer, got>>

(* The end of SETCARD, outside lock_lock: the file is attached and the     *)
(* shared result is copied to the caller, who acts on its lock_error.  The *)
(* object knows its locks when card_open gives up after that, because of   *)
(* GET_TLP or of the register map version, and closes the file.            *)
CopyToUser(o) ==
  LET r == request[o]
      d == devices[r.card] IN
  /\ pc[o] = "copy"
  /\ file' = [file EXCEPT ![o] = [slot |-> r.card, lock_tag |-> @.lock_tag]]
  /\ \/ /\ r.query
        /\ Goto(o, "query")
        /\ UNCHANGED object
     \/ /\ ~r.query /\ d.lock_error # {}
        /\ Goto(o, "refused")
        /\ UNCHANGED object
     \/ /\ ~r.query /\ d.lock_error = {}
        /\ Goto(o, "open") \/ Goto(o, "refused")
        /\ object' = [object EXCEPT ![o] = [m_deviceNumber |-> r.card,
                                            m_myLocks      |-> r.mask,
                                            m_myLockTag    |-> d.lock_tag]]
  /\ UNCHANGED <<table, devices, request, answer, got>>

(* GETLOCK and the rest of get_lock_mask(c): an unlocked read, then the    *)
(* object's own bits are removed with an exclusive or.                     *)
Believed(o, c) == IF object[o].m_deviceNumber = c THEN object[o].m_myLocks ELSE {}
OtherLocks(o, c) ==
  (global_locks[c] \ Believed(o, c)) \cup (Believed(o, c) \ global_locks[c])

GetLock(o, c) ==
  /\ \/ pc[o] = "query" /\ c = request[o].card /\ Goto(o, "answered")
     \/ pc[o] = "open" /\ Free(o) /\ UNCHANGED pc
  /\ answer' = [answer EXCEPT ![o] = OtherLocks(o, c)]
  /\ UNCHANGED <<table, devices, file, request, object, got>>

\* RELEASELOCK, called by card_close
ReleaseLock(o) ==
  /\ pc[o] = "open" /\ Free(o)
  /\ FreeBits(object[o].m_deviceNumber, CloseBits(o))
  /\ Goto(o, "unlocked")
  /\ UNCHANGED <<lock_tag, devices, file, request, object, answer, got>>

\* close() of the file, by the object or by the kernel at exit: wupper_Release
Release(o) ==
  /\ pc[o] \in {"refused", "answered", "unlocked", "exiting"}
  /\ IF file[o].slot = NoSlot
     THEN UNCHANGED <<global_locks, lock_pid, lock_tags>>
     ELSE FreeBits(file[o].slot, FileBits(o))
  /\ Goto(o, "closed")
  /\ file' = [file EXCEPT ![o] = NoFile]
  /\ request' = [request EXCEPT ![o] = NoRequest]
  /\ answer' = [answer EXCEPT ![o] = {}]
  /\ got' = [got EXCEPT ![o] = {}]
  /\ UNCHANGED <<lock_tag, devices, object>>

\* A process ends outside a system call; the kernel will close its files.
Exit(p) ==
  LET mine == {o \in Objects : PidOf[o] = p} IN
  /\ \A o \in mine : ~InSetCard(o) /\ pc[o] # "exiting"
  /\ \E o \in mine : pc[o] # "closed"
  /\ pc' = [o \in Objects |-> IF o \in mine /\ pc[o] # "closed"
                              THEN "exiting" ELSE pc[o]]
  /\ object' = [o \in Objects |-> IF o \in mine THEN Constructed ELSE object[o]]
  /\ UNCHANGED <<table, devices, file, request, answer, got>>

\* A slip: the tag counter is reset to -1.
ClearLocksNoTag ==
  /\ Clearlock = "always"
  /\ global_locks' = [c \in Cards |-> {}]
  /\ lock_tag' = NoCard
  /\ got' = [o \in Objects |-> {}]
  /\ UNCHANGED <<lock_pid, lock_tags, devices, file, request, pc, object, answer>>

\* echo clearlock > /proc/wupper
ClearLocks ==
  /\ \/ Clearlock = "always"
     \/ Clearlock = "closed" /\ \A o \in Objects : pc[o] = "closed"
  /\ global_locks' = [c \in Cards |-> {}]
  /\ lock_pid'     = [c \in Cards |-> [b \in Bits |-> NoPid]]
  /\ lock_tags'    = [c \in Cards |-> [b \in Bits |-> NoTag]]
  /\ lock_tag'     = 0
  /\ got'          = [o \in Objects |-> {}]
  /\ UNCHANGED <<devices, file, request, pc, object, answer>>

SetCard(o) ==
  SetCardConflict(o) \/ SetCardGrant(o) \/ SetCardNoLock(o) \/ ClearResult(o)

Next ==
  \/ \E o \in Objects :
       \/ Open(o) \/ SetCard(o) \/ CopyToUser(o)
       \/ ReleaseLock(o) \/ Release(o)
       \/ \E c \in Cards : GetLock(o, c)
  \/ \E p \in {PidOf[o] : o \in Objects} : Exit(p)
  \/ ClearLocks

Spec == Init /\ [][Next]_vars

\* The kernel closes the files of a process that ended.
Fairness == \A o \in Objects : WF_vars(pc[o] = "exiting" /\ Release(o))
FairSpec == Spec /\ Fairness

-----------------------------------------------------------------------------
TypeOK ==
  /\ global_locks \in [Cards -> SUBSET Bits]
  /\ lock_pid \in [Cards -> [Bits -> Nat]]
  /\ lock_tags \in [Cards -> [Bits -> Tags]]
  /\ lock_tag \in Tags
  /\ devices \in [Cards -> Results]
  /\ file \in [Objects -> FileData]
  /\ request \in [Objects -> Requests]
  /\ pc \in [Objects -> PCs]
  /\ object \in [Objects -> Members]
  /\ answer \in [Objects -> SUBSET Bits]
  /\ got \in [Objects -> SUBSET Bits]

(* Whatever the callers do, the bit mask that SETCARD tests and the pid    *)
(* table that /proc/wupper shows agree: "Using global_locks is just for    *)
(* convenience. We could also search lock_pid bit by bit"                  *)
(* (wupper.c:1308).  Four places update the two.                           *)
TablesAgree ==
  \A c \in Cards :
    /\ global_locks[c] = {b \in Bits : lock_pid[c][b] # NoPid}
    /\ \A b \in Bits : lock_pid[c][b] = NoPid => lock_tags[c][b] = NoTag

(* A bit never passes from one owner to the next without having been free: *)
(* no SETCARD takes over a bit that another one still holds.               *)
NoTakeOver ==
  [][\A c \in Cards, b \in Bits :
       lock_pid[c][b] # NoPid /\ lock_pid'[c][b] # NoPid
         => lock_pid'[c][b] = lock_pid[c][b] /\ lock_tags'[c][b] = lock_tags[c][b]]_vars

\* The bits that the driver's tables and the file of object o agree it has
granted == [o \in Objects |->
  {cb \in Cards \X Bits :
     /\ cb[1] = request[o].card /\ cb[2] \in got[o]
     /\ cb[2] \in global_locks[cb[1]]
     /\ lock_tags[cb[1]][cb[2]] = file[o].lock_tag}]

(* No two WupperCard objects are open with a lock on the same resource:    *)
(* "the driver will refuse other processes that request access to the same *)
(* resource" (WupperCard.h:293), also when their SETCARDs overlap.  The    *)
(* exception is an object that was given the answer to another call for    *)
(* its card, the result being shared: it knows another tag than its file.  *)
MutualExclusion ==
  \A o, x \in Objects :
    /\ o # x /\ pc[o] = "open" /\ pc[x] = "open"
    /\ object[o].m_deviceNumber = object[x].m_deviceNumber
    /\ object[o].m_myLockTag = file[o].lock_tag
    /\ object[x].m_myLockTag = file[x].lock_tag
    => object[o].m_myLocks \cap object[x].m_myLocks = {}

(* "The lock will be held until the owning process calls card_close()"     *)
(* (WupperCard.h:311).  The driver takes a granted bit away only when its  *)
(* own file closes, by clearlock, or through a tag that the closing object *)
(* was not given: its file has no lock (any more), or it knows the tag of  *)
(* another.  No holder of a lock ever frees the lock of another one.       *)
HeldUntilClose ==
  [][\A o \in Objects : ~(granted[o] \subseteq granted'[o]) =>
       \/ ReleaseLock(o) \/ Release(o)
       \/ ClearLocks
       \/ \E x \in Objects \ {o} :
            \/ Release(x) /\ got[x] = {}
            \/ /\ ReleaseLock(x)
               /\ got[x] = {} \/ object[x].m_myLockTag # file[x].lock_tag]_vars

(* No orphaned lock: each locked bit was granted to the file of an object  *)
(* that is still open, so some wupper_Release will free it (wupper.c:679). *)
NoOrphanedLock ==
  \A c \in Cards : \A b \in global_locks[c] :
    \E o \in Objects :
      pc[o] # "closed" /\ <<c, b>> \in granted[o] /\ lock_pid[c][b] = PidOf[o]

(* "If a process terminates with an error the driver will release the      *)
(* resources that were locked by that process" (WupperCard.h:311).         *)
LocksOfTheDeadFreed ==
  \A c \in Cards, b \in Bits, o \in Objects :
    (pc[o] = "exiting" /\ <<c, b>> \in granted[o]) ~> b \notin global_locks[c]

(* get_lock_mask returns the bits "locked by other instances of WupperCard *)
(* objects" (WupperCard.h:386), all of them and no other bit, as far as    *)
(* the object does not believe a bit its own.                              *)
LockMaskIsOfOthers ==
  [][\A o \in Objects, c \in Cards : GetLock(o, c) =>
       \A b \in Bits \ Believed(o, c) :
         b \in answer'[o] <=> \E x \in Objects \ {o} : <<c, b>> \in granted[x]]_vars

\* The driver and its callers, whatever they do, implement the abstract lock
\* manager.
Abstract == INSTANCE LockManager
ImplementsLockManager == Abstract!Spec

=============================================================================
