---------------------------- MODULE CmemBuffers ----------------------------
(***************************************************************************)
(* The driver for contiguous memory (software/drivers/src/cmem_rcc.c): the *)
(* buffer table, the marks that say which file got which buffer, and the   *)
(* pool of pages with its free and used lists; called through              *)
(* CMEM_SegmentAllocate, CMEM_GFPBPASegmentAllocate, CMEM_SegmentLock,     *)
(* CMEM_SegmentUnlock and CMEM_SegmentFree (lib/cmem_rcc_lib.cpp).         *)
(*                                                                         *)
(* A step is what runs without sleeping and without the end of a critical  *)
(* section of slock.  membpa_alloc_pages takes no lock and sleeps in       *)
(* kmalloc between its search of the free list and its change of it.       *)
(* Memory is counted in cells: a page of the pool, or one block that the   *)
(* kernel's page allocator returns.                                        *)
(***************************************************************************)
EXTENDS Integers

CONSTANTS
  Files,     \* open files of /dev/cmem_rcc, one thread each
  MaxBuffs,  \* entries of buffer_table
  Nodes,     \* range_t structures that kmalloc can return
  PoolSize,  \* pages in the pool (gfpbpa_size)
  Blocks,    \* blocks that alloc_pages can return
  Counts,    \* how many pages of the pool a caller asks for
  Serial,    \* TRUE: nothing touches the pool while a file allocates from it
  Foreign,   \* do threads lock, unlock or free the handles of other files?
  Freelock   \* does root write "freelock" to /proc/cmem_rcc: "never",
             \* while all files are "closed", or "always"

Handles == 0 .. MaxBuffs - 1
NULL    == -1
Pages   == 0 .. PoolSize - 1
Cells   == 0 .. PoolSize + Blocks - 1
Types   == {"none", "GFP", "BPA"}

ASSUME TableAssumption ==
  MaxBuffs \in Nat \ {0} /\ PoolSize \in Nat \ {0} /\ Blocks \in Nat
ASSUME NodesAssumption == Nodes # {} /\ Nodes \subseteq Nat
ASSUME CountsAssumption == Counts \subseteq Nat \ {0}
ASSUME CallersAssumption ==
  /\ Serial \in BOOLEAN /\ Foreign \in BOOLEAN
  /\ Freelock \in {"never", "closed", "always"}

VARIABLES
  buffer_table, \* [handle -> entry]
  buffer,       \* [file -> the handles it is marked to own] (private_data)
  pool,         \* the two lists of ranges, and the ranges
  kernel,       \* blocks that the kernel's allocator has given out
  call,         \* where the file's current call has got to
  got           \* [file -> [handle -> the memory its owner may use]]

vars == <<buffer_table, buffer, pool, kernel, call, got>>

Empty   == [used |-> FALSE, locked |-> FALSE, type |-> "none",
            kaddr |-> NULL, size |-> 0]
NoRange == [base |-> NULL, size |-> 0]
Closed  == [pc |-> "closed", h |-> 0, type |-> "none", count |-> 0,
            base |-> NULL, range |-> NULL, spare |-> FALSE]
Idle    == [Closed EXCEPT !.pc = "idle"]
First   == CHOOSE n \in Nodes : \A m \in Nodes : n <= m

Init ==
  /\ buffer_table = [h \in Handles |-> Empty]
  /\ buffer = [f \in Files |-> {}]
  /\ pool = [free |-> {First}, used |-> {},
             rng |-> [n \in Nodes |-> IF n = First
                        THEN [base |-> 0, size |-> PoolSize] ELSE NoRange]]
  /\ kernel = {}
  /\ call = [f \in Files |-> Closed]
  /\ got = [f \in Files |-> [h \in Handles |-> {}]]

-----------------------------------------------------------------------------
Memory(e)  == e.kaddr .. e.kaddr + e.size - 1
End(r)     == r.base + r.size
Lowest(S)  == CHOOSE x \in S : \A y \in S : x <= y

SlockHeld  == \E f \in Files : call[f].pc = "release"
Allocating == \E f \in Files : call[f].pc = "found"

\* Only where the callers see to it do the lists have one user at a time.
PoolIsFree == Serial => ~Allocating

(* The list of free ranges is sorted by address, so the first fit is the   *)
(* lowest one.  A slip takes a range that is a page too small.             *)
FitsAlmost(n, count) == pool.rng[n].size + 1 >= count
Fits(n, count)       == pool.rng[n].size >= count
Fitting(count)       == {n \in pool.free : Fits(n, count)}
FirstFit(count)      ==
  CHOOSE n \in Fitting(count) :
    \A m \in Fitting(count) : pool.rng[n].base <= pool.rng[m].base

SpareNodes == Nodes \ (pool.free \cup pool.used)

\* A slip: the range is not joined with its neighbours.
NotJoined(r) ==
  [free |-> pool.free \cup {r}, used |-> pool.used \ {r}, rng |-> pool.rng]

(* membpa_free_pages: the range goes back to the free list and is joined   *)
(* with the free range after it, then with the one before it.              *)
Joined(r) ==
  LET rng  == pool.rng
      next == {n \in pool.free : rng[n].base = End(rng[r])}
      prev == {n \in pool.free : End(rng[n]) = rng[r].base}
      head == IF prev = {} THEN r ELSE Lowest(prev)
      end  == IF next = {} THEN End(rng[r]) ELSE End(rng[Lowest(next)])
      gone == (next \cup {r}) \ {head}
  IN [free |-> (pool.free \ next) \cup {head},
      used |-> pool.used \ {r},
      rng  |-> [n \in Nodes |->
                  IF n = head THEN [base |-> rng[n].base, size |-> end - rng[n].base]
                  ELSE IF n \in gone THEN NoRange ELSE rng[n]]]

Based(kaddr) == {n \in pool.used : pool.rng[n].base = kaddr}

\* What FREE, the end of a file and "freelock" do with the memory of an entry
ReturnMemory(e) ==
  /\ kernel' = IF e.type = "GFP" THEN kernel \ {e.kaddr} ELSE kernel
  /\ pool' = IF e.type = "BPA" /\ Based(e.kaddr) # {}
               THEN Joined(Lowest(Based(e.kaddr))) ELSE pool

-----------------------------------------------------------------------------
Goto(f, c) == call' = [call EXCEPT ![f] = c]

Open(f) ==
  /\ call[f].pc = "closed"
  /\ Goto(f, Idle)
  /\ UNCHANGED <<buffer_table, buffer, pool, kernel, got>>

Unused == {h \in Handles : ~buffer_table[h].used}

\* CMEM_RCC_GET reserves the first entry that is not in use.
GetReserve(f, type, count) ==
  /\ call[f].pc = "idle" /\ ~SlockHeld /\ Unused # {}
  /\ LET h == Lowest(Unused) IN
       /\ buffer_table' = [buffer_table EXCEPT ![h].used = TRUE]
       /\ buffer' = [buffer EXCEPT ![f] = @ \cup {h}]
       /\ Goto(f, [Idle EXCEPT !.pc = "reserved", !.h = h,
                               !.type = type, !.count = count])
  /\ UNCHANGED <<pool, kernel, got>>

\* A type that is not defined: the entry stays reserved until the file ends.
GetUndefined(f) ==
  /\ call[f].pc = "reserved" /\ call[f].type = "none"
  /\ Goto(f, Idle)
  /\ UNCHANGED <<buffer_table, buffer, pool, kernel, got>>

\* alloc_pages
GetKernel(f, b) ==
  /\ call[f].pc = "reserved" /\ call[f].type = "GFP"
  /\ b \notin kernel
  /\ kernel' = kernel \cup {b}
  /\ Goto(f, [call[f] EXCEPT !.pc = "allocated", !.base = b, !.count = 1])
  /\ UNCHANGED <<buffer_table, buffer, pool, got>>

\* membpa_alloc_pages, until kmalloc: a range that is large enough
Search(f) ==
  /\ call[f].pc = "reserved" /\ call[f].type = "BPA"
  /\ PoolIsFree /\ (Serial => ~SlockHeld)
  /\ Fitting(call[f].count) # {}
  /\ LET n == FirstFit(call[f].count) IN
       Goto(f, [call[f] EXCEPT
                  !.pc = "found", !.range = n, !.base = pool.rng[n].base,
                  !.spare = call[f].count < pool.rng[n].size])
  /\ UNCHANGED <<buffer_table, buffer, pool, kernel, got>>

(* The rest of membpa_alloc_pages.  When the range no longer begins where  *)
(* it did, what was cut off at its beginning becomes a range of its own,   *)
(* of negative size, and the range begins there again.                     *)
Moved(f)  == pool.rng[call[f].range].base # call[f].base
AlignNode == Lowest(SpareNodes)
NewNodes(f) == IF Moved(f) THEN SpareNodes \ {AlignNode} ELSE SpareNodes

Realigned(f) ==
  LET c == call[f] r == pool.rng[c.range] IN
  IF ~Moved(f) THEN pool
  ELSE [pool EXCEPT !.free = @ \cup {AlignNode},
                    !.rng = [@ EXCEPT
                       ![AlignNode] = [base |-> r.base, size |-> c.base - r.base],
                       ![c.range] = [base |-> c.base, size |-> End(r) - c.base]]]

\* A slip: the range stays in the free list.
CarveAllListed(f) ==
  LET n == call[f].range IN
  /\ ~call[f].spare
  /\ pool' = [Realigned(f) EXCEPT !.used = @ \cup {n}]

\* A range that fits leaves the free list for the used list.
CarveAll(f) ==
  LET n == call[f].range IN
  /\ ~call[f].spare
  /\ pool' = [Realigned(f) EXCEPT !.free = @ \ {n}, !.used = @ \cup {n}]

\* A range that is larger gives its first pages to a new one.
CarveFirst(f) ==
  LET c == call[f] r == Realigned(f).rng[c.range] new == Lowest(NewNodes(f)) IN
  /\ c.spare /\ NewNodes(f) # {}
  /\ pool' = [Realigned(f) EXCEPT
       !.used = @ \cup {new},
       !.rng = [@ EXCEPT
          ![new] = [base |-> c.base, size |-> c.count],
          ![c.range] = [base |-> c.base + c.count, size |-> End(r) - c.base - c.count]]]

Carve(f) ==
  /\ call[f].pc = "found"
  /\ Moved(f) => SpareNodes # {}
  /\ CarveAll(f) \/ CarveFirst(f)
  /\ Goto(f, [call[f] EXCEPT !.pc = "allocated", !.range = NULL, !.spare = FALSE])
  /\ UNCHANGED <<buffer_table, buffer, kernel, got>>

\* No memory, or memory above 4 GB: the reservation is taken back.
GetFails(f) ==
  /\ \/ call[f].pc = "reserved" /\ call[f].type = "GFP"
     \/ /\ call[f].pc = "reserved" /\ call[f].type = "BPA"
        /\ PoolIsFree /\ Fitting(call[f].count) = {}
     \/ call[f].pc = "found"
  /\ ~SlockHeld
  /\ buffer_table' = [buffer_table EXCEPT ![call[f].h].used = FALSE]
  /\ buffer' = [buffer EXCEPT ![f] = @ \ {call[f].h}]
  /\ Goto(f, Idle)
  /\ UNCHANGED <<pool, kernel, got>>

(* The entry is completed without slock, and without a look at used.  The  *)
(* caller learns the handle unless copy_to_user fails.                     *)
Fill(f, copied) ==
  LET c == call[f]
      e == [used |-> buffer_table[c.h].used, locked |-> FALSE, type |-> c.type,
            kaddr |-> c.base, size |-> c.count]
  IN
  /\ c.pc = "allocated"
  /\ buffer_table' = [buffer_table EXCEPT ![c.h] = e]
  /\ got' = IF copied THEN [got EXCEPT ![f][c.h] = Memory(e)] ELSE got
  /\ Goto(f, Idle)
  /\ UNCHANGED <<buffer, pool, kernel>>

-----------------------------------------------------------------------------
Known(f) == {h \in Handles : Foreign \/ got[f][h] # {}}

(* LOCK and UNLOCK look at the entry and then change it; CMEM_SegmentFree  *)
(* looks with GETPARAMS, unmaps the buffer, and calls FREE unless locked.  *)
Ask(f, h, op) ==
  /\ call[f].pc = "idle" /\ h \in Known(f)
  /\ buffer_table[h].used
  /\ op = "free" => ~SlockHeld /\ ~buffer_table[h].locked
  /\ got' = IF op = "free" THEN [got EXCEPT ![f][h] = {}] ELSE got
  /\ Goto(f, [Idle EXCEPT !.pc = op, !.h = h])
  /\ UNCHANGED <<buffer_table, buffer, pool, kernel>>

(* CMEM_SegmentFree of a locked buffer unmaps it and leaves it with the    *)
(* driver; the handle is not used again.                                   *)
FreeLocked(f, h) ==
  /\ call[f].pc = "idle" /\ h \in Known(f) /\ ~SlockHeld
  /\ buffer_table[h].used /\ buffer_table[h].locked
  /\ got' = [got EXCEPT ![f][h] = {}]
  /\ UNCHANGED <<buffer_table, buffer, pool, kernel, call>>

SetLock(f) ==
  /\ call[f].pc \in {"lock", "unlock"}
  /\ buffer_table' = [buffer_table EXCEPT ![call[f].h].locked = (call[f].pc = "lock")]
  /\ Goto(f, Idle)
  /\ UNCHANGED <<buffer, pool, kernel, got>>

\* A slip: the mark of the file stays.
StillMarked(f, h) == buffer

Unmarked(f, h) == [buffer EXCEPT ![f] = @ \ {h}]

\* CMEM_RCC_FREE clears the mark of the calling file, whoever owns the buffer.
Free(f) ==
  LET h == call[f].h IN
  /\ call[f].pc = "free" /\ ~SlockHeld /\ PoolIsFree
  /\ IF buffer_table[h].used
       THEN /\ ReturnMemory(buffer_table[h])
            /\ buffer_table' = [buffer_table EXCEPT ![h] = Empty]
            /\ buffer' = Unmarked(f, h)
       ELSE UNCHANGED <<buffer_table, buffer, pool, kernel>>
  /\ Goto(f, Idle)
  /\ UNCHANGED got

-----------------------------------------------------------------------------
\* At the end of the process, which may have been killed before it called
\* FREE, cmem_rcc_release takes slock, ...
Close(f) ==
  /\ call[f].pc \in {"idle", "free"} /\ ~SlockHeld /\ PoolIsFree
  /\ got' = [got EXCEPT ![f] = [h \in Handles |-> {}]]
  /\ Goto(f, [Idle EXCEPT !.pc = "release"])
  /\ UNCHANGED <<buffer_table, buffer, pool, kernel>>

Cleared(h) == [Empty EXCEPT !.locked = buffer_table[h].locked]

\* A slip: locked buffers are freed with their file.
OrphanedAll(f) == buffer[f]

Orphaned(f) == {h \in buffer[f] : ~buffer_table[h].locked}

\* ... frees the marked buffers that are not locked, one by one, ...
ReleaseEntry(f) ==
  LET h == Lowest(Orphaned(f)) IN
  /\ call[f].pc = "release" /\ Orphaned(f) # {}
  /\ ReturnMemory(buffer_table[h])
  /\ buffer_table' = [buffer_table EXCEPT ![h] = Cleared(h)]
  /\ buffer' = Unmarked(f, h)
  /\ UNCHANGED <<call, got>>

\* ... and gives slock and the marks back.
ReleaseDone(f) ==
  /\ call[f].pc = "release" /\ Orphaned(f) = {}
  /\ buffer' = [buffer EXCEPT ![f] = {}]
  /\ Goto(f, Closed)
  /\ UNCHANGED <<buffer_table, pool, kernel, got>>

\* "freelock" frees a locked buffer without slock, and leaves the marks.
FreelockEntry(h) ==
  /\ \/ Freelock = "always"
     \/ Freelock = "closed" /\ \A f \in Files : call[f].pc = "closed"
  /\ PoolIsFree
  /\ buffer_table[h].used /\ buffer_table[h].locked
  /\ ReturnMemory(buffer_table[h])
  /\ buffer_table' = [buffer_table EXCEPT ![h] = Cleared(h)]
  /\ UNCHANGED <<buffer, call, got>>

Get(f) ==
  \/ \E count \in Counts : GetReserve(f, "BPA", count)
  \/ \E type \in {"none", "GFP"} : GetReserve(f, type, 0)
  \/ \E b \in PoolSize .. PoolSize + Blocks - 1 : GetKernel(f, b)
  \/ \E copied \in BOOLEAN : Fill(f, copied)
  \/ GetUndefined(f) \/ Search(f) \/ Carve(f) \/ GetFails(f)

Next ==
  \/ \E f \in Files :
       \/ Open(f) \/ Get(f) \/ SetLock(f) \/ Free(f)
       \/ \E h \in Handles, op \in {"lock", "unlock", "free"} : Ask(f, h, op)
       \/ \E h \in Handles : FreeLocked(f, h)
       \/ Close(f) \/ ReleaseEntry(f) \/ ReleaseDone(f)
  \/ \E h \in Handles : FreelockEntry(h)

Spec == Init /\ [][Next]_vars

-----------------------------------------------------------------------------
PCs == {"closed", "idle", "reserved", "found", "allocated", "lock", "unlock",
        "free", "release"}

TypeOK ==
  /\ buffer_table \in
       [Handles -> [used : BOOLEAN, locked : BOOLEAN, type : Types,
                    kaddr : Cells \cup {NULL}, size : Nat]]
  /\ buffer \in [Files -> SUBSET Handles]
  /\ pool.free \subseteq Nodes /\ pool.used \subseteq Nodes
  /\ pool.free \cap pool.used = {}
  /\ pool.rng \in [Nodes -> [base : Int, size : Int]]
  /\ kernel \subseteq Cells \ Pages
  /\ call \in [Files -> [pc : PCs, h : Handles, type : Types, count : Nat,
                         base : Int, range : Nodes \cup {NULL}, spare : BOOLEAN]]
  /\ got \in [Files -> [Handles -> SUBSET Cells]]

(* "Its purpose is to provide user applications with contiguous data       *)
(* buffers for DMA operations" (cmem_rcc.c:4): no two buffers that         *)
(* applications got share memory.                                          *)
NoSharedMemory ==
  \A f, g \in Files : \A h, k \in Handles :
    <<f, h>> # <<g, k>> => got[f][h] \cap got[g][k] = {}

(* "Remember which file this buffer will belong to" (cmem_rcc.c:502): a    *)
(* buffer that an application got and has not freed is in the table, with  *)
(* its memory, marked as its own, whatever other files are closed.         *)
KeepsBuffer ==
  \A f \in Files, h \in Handles :
    got[f][h] # {} =>
      /\ buffer_table[h].used /\ Memory(buffer_table[h]) = got[f][h]
      /\ h \in buffer[f]

HasMemory(base, size) ==
  \/ \E h \in Handles : LET e == buffer_table[h] IN
       e.used /\ e.type = "BPA" /\ e.kaddr = base /\ e.size = size
  \/ \E f \in Files :
       /\ call[f].pc = "allocated" /\ call[f].type = "BPA"
       /\ call[f].base = base /\ call[f].count = size

(* The pool never loses a page: the ranges of the two lists partition it,  *)
(* each used one is the memory of an entry or of a GET under way, and two  *)
(* free ranges never touch, so a request is refused only when no run of    *)
(* free pages is long enough.                                              *)
PoolConserved ==
  /\ \A p \in Pages : \E n \in pool.free \cup pool.used :
       /\ pool.rng[n].base <= p /\ p < End(pool.rng[n])
       /\ \A m \in (pool.free \cup pool.used) \ {n} :
            ~(pool.rng[m].base <= p /\ p < End(pool.rng[m]))
  /\ \A n \in pool.used : HasMemory(pool.rng[n].base, pool.rng[n].size)
  /\ \A m, n \in pool.free : End(pool.rng[m]) # pool.rng[n].base

\* The memory of an entry as BufferPool sees it
Filled == {h \in Handles : buffer_table[h].used /\ buffer_table[h].type # "none"}
Has(f, c) == \E h \in Filled \cap buffer[f] : c \in Memory(buffer_table[h])

owner == [c \in Cells |->
  IF \E f \in Files : Has(f, c) THEN CHOOSE f \in Files : Has(f, c)
  ELSE IF \E h \in Filled : c \in Memory(buffer_table[h]) THEN "kept"
  ELSE "free"]

locked == {c \in Cells :
  \E h \in Filled : buffer_table[h].locked /\ c \in Memory(buffer_table[h])}

(* The driver implements the abstract pool: memory goes from free to one   *)
(* file, and from the file to free or, when it is locked, to the driver.   *)
Abstract == INSTANCE BufferPool
ImplementsBufferPool == Abstract!Spec

=============================================================================
