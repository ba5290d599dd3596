# TLA+ models of wupper

Wupper is a DMA engine for PCIe cards: VHDL firmware that moves data between FIFOs
on the card and circular buffers in the memory of a PC, a Linux driver (`wupper`)
that gives processes access to the cards, a second driver (`cmem_rcc`) for physically
contiguous buffers, and the class `WupperCard` through which applications use both.

Most of what can go wrong is between these parts: registers that cross clock domains,
a pointer that two sides follow, one enable register that several processes modify,
tables of the kernel that are read outside their lock. A test bench with one card and
one program meets almost none of these cases. This directory holds TLA+ modules of
those parts, translated from the sources, the TLC configurations that check them, and
proofs for the TLA+ proof system (TLAPS) of what holds for every size of the system.

Contents

1. [The system](#1-the-system): components, their state and operations, how they
   interact, what makes each one correct
2. [The models](#2-the-models): module by module, state and actions against the code
3. [The checks](#3-the-checks): each run, its bounds, its fairness
4. [Findings](#4-findings): where the code and its documentation disagree
5. [Where the properties end](#5-where-the-properties-end): assumptions that the runs
   make, and what happens without them
6. [The proofs](#6-the-proofs)
7. [Not modelled](#7-not-modelled)
8. [Plan](#8-plan)
9. [Running it](#9-running-it)

All paths are relative to the root of the repository; `WupperCard.cpp` is
`software/wupper_tools/src/WupperCard.cpp`, `WupperCard.h` is
`software/wupper_tools/wuppercard/WupperCard.h`, `wupper.c` and `cmem_rcc.c` are in
`software/drivers/src/`, the `dma_*.vhd` and `intr_ctrl.vhd` in
`firmware/sources/pcie/`, and `design.tex` is in `documentation/`.

## 1. The system

```
   applications and tools:  wupper-throughput, wupper-dma-transfer, wupper-irq-test, ...
            |  calls
   WupperCard (C++)         one object per card and process
            |  ioctl, open, close            |  loads and stores (BAR0, BAR1, BAR2)
   wupper.c     cmem_rcc.c                   |
   locks, IRQs  buffers                      |
   - - - - - - - - - - - PCIe - - - - - - - -|- - - - - - - - - - - - - - - - - -
            ^ MSI-X                          v  read and write requests
   intr_ctrl.vhd            dma_control.vhd: completer, DMA registers, register map
            ^ data available     | enable, pc_pointer, evencycle_pc
            |                    v
            |               dma_read_write.vhd: add_header (requests), strip_hdr (answers)
            |                    |
            +--------- FIFOs: toHost[], fromHost ------- user logic, Wishbone, I2C
```

The firmware has two clock domains: `clk` (250 MHz: the PCIe core, the DMA state
machine, the interrupt message) and `regmap_clk` (25 MHz, made from `clk`: the
registers). The host has processes and threads that may each open the card, and the
kernel, which runs the interrupt handler and closes the files of a process that ends.

### 1.1 Inventory

| component | source | state | operations | status |
|---|---|---|---|---|
| Resource locks of the driver | `wupper.c` (SETCARD, GETLOCK, RELEASELOCK, open, release, `clearlock`), `WupperCard.cpp` (`card_open`, `get_lock_mask`, `card_close`) | `global_locks`, `lock_pid`, `lock_tags`, `lock_tag`; `devices[]`, the answer that all calls for a card share; `private_data` of each file; `m_myLocks`, `m_myLockTag` of each object | take locks with `card_open`, ask for the mask of taken locks, close, die, clear all locks as root | modelled, proved |
| DMA engine | `dma_read_write.vhd` (`add_header`), `dma_control.vhd` (enable bits, `evencycle_pc`), `WupperCard.cpp` (`dma_to_host`, `dma_from_host`, `dma_stop`, `dma_advance_ptr`) | per descriptor: enable, `pc_pointer`, `current_address`, next address, two even bits, wait flags; the state machine; the round-robin search | start, stop, advance the pointer, one TLP to or from the host, wrap around, soft reset | modelled (without `dma_wait`), safety proved |
| Interrupt controller | `intr_ctrl.vhd`, `dma_control.vhd` (data-available calls) | latch, pending flag, timeout, selected vector; request and clear in the other clock domain | latch a call, select the most urgent, send it when the buses are idle, time out | modelled, proved (safety) |
| Interrupts on the host | `wupper.c` (WAIT_IRQ, CANCEL_IRQ_WAIT, CLEAR_IRQ, MASK_IRQ, UNMASK_IRQ, `irqHandler`), `WupperCard.cpp` (`irq_*`) | `irqFlag`, `irqMasked`, the kernel's disable depth, `INT_TAB_ENABLE` of the card | enable, disable, wait, cancel, clear; the handler | modelled, proved (safety) |
| FromHost reassembly | `dma_read_write.vhd` (`strip_hdr`) | a memory of 4 KiB, a flag for each of its words (and its value a clock ago), the write and the read address, `reading_mem` | write a completion at its address, hand on words in order, end a page; start, stop, soft reset | modelled, proved (safety) |
| Register access | `dma_control.vhd` (completer, `regSync25`, `regSync250`, `regrw`) | state of the completer, request and done levels in both clock domains, the lines of registers | read a register; read, modify and write a line; refuse what it does not know; reset the register map | modelled (without hardware-changed registers), proved (safety) |
| Busy threshold | `dma_control.vhd` (`dma_busy_proc`) | `tohost_busy`, a latched copy | assert above one threshold, clear below another | |
| FIFOs | `WupperFifos.vhd` | vendor FIFOs with thresholds computed from the TLP size | push, pop, `prog_empty`, `prog_full` | flags are inputs of DmaEngine; thresholds planned |
| Contiguous memory | `cmem_rcc.c`, `lib/cmem_rcc_lib.cpp` | `buffer_table`, the mark of each file's buffers, free and used lists of the page pool, one spinlock | GET, FREE, LOCK, UNLOCK, GETPARAMS, SETUADDR, DUMP, mmap, release of a file, `freelock` | modelled (without mmap, SETUADDR, DUMP), proved |
| Probe and remove | `wupper.c` | `deviceNumberIndex`, `devices[]`, `msixblock`, a mapping for each card | probe, remove, `/proc/wupper` | |
| Wishbone bridge | `firmware/sources/Wishbone/`, `wupper-wishbone.cpp` | two FIFOs, a bus master of two states, the error flag; memory and error device of the bus; the call of the tool | push a request, run a bus cycle, pop an answer, poll | modelled, proved (safety) |
| I2C and housekeeping | `firmware/sources/housekeeping/` | request and answer FIFOs, a bit-level bus master, monitor registers | queue a transfer, read its answer | planned in part |
| PCIe end point and clocks | `pcie_ep_wrap.vhd`, `pcie_clocking.vhd`, `wupper_core.vhd`, `wupper.vhd`, ... | none beyond registers | wiring of vendor cores | not modelled |
| Tools | `software/wupper_tools/src/wupper-*.cpp` | local variables | sequences of WupperCard calls | environments of the models; `wupper-wishbone` modelled |
| Register map and generator | `software/regmap/`, `software/wuppercodegen/` | generated tables | generation of text | not modelled |
| Logging, error packages | `software/DFDebug/`, `software/rcc_error/` | none | formatting | not modelled |
| HTML manual of the generator | `software/wuppercodegen/doc/manual/html/` | none of Wupper's | jQuery, Underscore, the search page of Sphinx | not modelled (vendored, generated) |

`PROJECT.json` names the files and modules of each component.

### 1.2 What makes each component correct, and what makes that hard

**Resource locks.** A card has up to 32 lock bits (one for each DMA channel, I2C, ...).
`card_open(device, lock_mask)` gets all the bits it asks for or throws; a bit has one
owner until `card_close`, or until the process ends. The tables are changed by four
paths under `lock_lock`, but the answer of SETCARD goes through `devices[]`, outside
the lock, and a file is identified by a tag that other calls can share. Processes die
at any step, and root clears everything with `echo clearlock > /proc/wupper`.

**DMA engine.** A buffer that both sides follow by address only: when the two addresses
are equal the buffer is full or empty, and two even bits, one kept by each side, decide
which. They live in different clock domains and toggle when a side wraps around. Eight
descriptors share one state machine, one register of enable bits that hardware and
several processes write, and one pipeline whose comparisons are a clock late. Correct:
no TLP overwrites unread data or reads data not yet written, each TLP takes its payload
from its own FIFO, a single-shot transfer ends after exactly one buffer, an endless one
neither stops by itself nor is starved.

**Interrupt controller.** A message must be sent once for each interrupt taken from the
latch, with its own vector, although the request crosses into the 250 MHz domain, the
answer crosses back, the message must wait for two idle clocks of two AXI buses, and a
timeout ends the wait.

**Interrupts on the host.** An interrupt received before, during or after the call of
`irq_wait` must wake it. `irq_enable` and `irq_disable` of one thread must not undo
those of another: they share a register of the card, a table of the driver, and the
disable depth of the kernel.

**FromHost reassembly.** Completions of one page arrive in any order and in parts; the
FIFO must get each word once, in order of address, and no word of the next page before
the last one of this page.

**Register access.** A read or write of a register from BAR0 to BAR2 takes effect once in
the register domain and is answered once, although the hand-shake is by levels that
need several clocks of both domains to fall again.

**Busy threshold.** Between the two thresholds the flag keeps its value; it must go up
before the buffer is full and come down after the host has read.

**Contiguous memory.** A buffer belongs to the file that got it: freed when the file is
closed unless it is locked, never handed out twice, never freed twice. GET reserves an
entry of the table under the spinlock and fills it after it; the pool of pages is
searched and changed without it, and may sleep in between; LOCK, UNLOCK and SETUADDR
use none.

**Probe and remove.** Two cards never have one number, whatever the order of removal.

**Wishbone bridge.** Answers come in the order of the questions; a full FIFO must not
shift them. The tool polls two registers that belong to no request in particular: a word
or an error flag left by an earlier call must not be taken for the answer to this one.

### 1.3 Interactions

* An application that starts a DMA calls `dma_to_host`: it writes the descriptor, then
  reads `DMA_DESC_ENABLE` and writes it back with one more bit. Lock bits LOCK_DMA0 to
  LOCK_DMA7 say which process may use which descriptor, and nothing says who may write
  the shared register (hazard at `WupperCard.cpp:616`).
* The host follows `current_address` and writes `pc_pointer`; `dma_control` compares it
  with the last one and toggles `evencycle_pc`, then both reach `dma_read_write` at the
  same clock.
* A FIFO that becomes non-empty raises a data-available call; the controller sends
  MSI-X; the driver's handler sets `irqFlag` and wakes `irq_wait`; the application reads
  the data and writes `pc_pointer`, which is a write of BAR0 and takes the mask of the
  data-available call away.
* The end of a process makes the kernel close its files, which frees its locks
  (`wupper_Release`) and its buffers (`cmem_rcc_release`), but stops no DMA.

* Every access of a WupperCard method to a register goes through the completer, which
  takes one request at a time; what `RegisterAccess` shows of it (an access takes effect
  at one instant, six slow clocks after the last one or later) is what `DmaEngine`,
  `IrqDriver` and `WishboneBridge` take for granted of each access.
* A FromHost descriptor of `add_header` waits at each page for `strip_hdr`, which ends the
  page when the last word of its memory was handed on. `DmaEngine` has that signal as an
  input that always comes (`ClearWait4k`); `FromHostReassembly` shows when it does.

The hazards, each at its line and with the properties that cover it, are listed in
`PROJECT.json`; those that no property covers yet are in the plan below.

## 2. The models

| module | what it is | checked by | proved in |
|---|---|---|---|
| `LockManager` | abstract: what `WupperCard.h` promises of lock bits | `locks_any` | `ResourceLocksProofs` |
| `ResourceLocks` | the lock ioctls, close, exit, `clearlock` and their callers | `locks_*` | `ResourceLocksProofs` |
| `MCResourceLocks` | instances of it for TLC | | |
| `RingBuffer` | abstract: a circular queue | `dma_tohost` | `DmaEngineProofs` |
| `DmaEngine` | the request side of the DMA engine, clock by clock, with its hosts | `dma_*` | `DmaEngineProofs` |
| `FromHostReassembly` | `strip_hdr`: completions in any order, sorted in a memory of one page | `fromhost_*` | `FromHostReassemblyProofs` |
| `IntrCtrl` | the interrupt controller in two clock domains | `irq_idle` | `IntrCtrlProofs` |
| `IrqDriver` | `irq_*` of WupperCard, the ioctls and the handler | `irq_driver` | `IrqDriverProofs` |
| `RegisterFile` | abstract: a table of registers used by one access at a time | `registers` | `RegisterAccessProofs` |
| `RegisterAccess` | the completer and the way to the registers and back, in two clock domains | `registers` | `RegisterAccessProofs` |
| `MCRegisterAccess` | the requests of the host for TLC | | |
| `WishboneBridge` | the bridge, its bus and the tool in front of it | `wishbone` | `WishboneBridgeProofs` |
| `BufferPool` | abstract: memory has one owner | `cmem_serial` | `CmemBuffersProofs` |
| `CmemBuffers` | the buffer table, the page pool and the files of `cmem_rcc` | `cmem_*` | `CmemBuffersProofs` |
| `MCCmemBuffers` | the symmetry of its files | | |

Definitions named "a slip" in a comment are not part of a specification: each is a
plausible mistake in the definition after it, used to see that a property notices it
(`mutants` in `PROJECT.json`). `map` in `PROJECT.json` gives the lines that each
definition translates.

### 2.1 ResourceLocks

A WupperCard object belongs to a process (`PidOf`; the driver knows a caller by
`current->pid`, which is the thread), which makes one call at a time (`Free`). A step is
one critical section of the driver, or one access to state that other calls share.

| code | model |
|---|---|
| `global_locks[]`, `lock_pid[][]`, `lock_tags[][]`, `lock_tag` | the same names; an int of bits is a set of bits |
| `devices[card].lock_tag`, `.lock_error` | `devices[card]`: one record for all calls of the card |
| `private_data` of a file (`slot`, `lock_tag`) | `file[o]`; `NoSlot` until SETCARD attaches it |
| `m_deviceNumber`, `m_myLocks`, `m_myLockTag` | `object[o]` |
| where a call has got to | `pc[o]` and `request[o]` |
| `wupper_open` | `Open`: `lock_tag` is what `kmalloc` left there, one of `StaleTags` |
| SETCARD under `lock_lock`: refused, granted | `SetCardConflict`, `SetCardGrant` |
| SETCARD without a lock_mask, outside the lock | `SetCardNoLock`, `ClearResult` |
| end of SETCARD: `slot`, `copy_to_user`; then `card_open` looks at `lock_error`, and may give up for another reason | `CopyToUser` |
| GETLOCK and the exclusive-or of `get_lock_mask` | `GetLock` |
| RELEASELOCK (by `card_close`), then `close()` | `ReleaseLock`, `Release` |
| end of a process at any step outside a system call | `Exit`, then `Release` by the kernel |
| `echo clearlock > /proc/wupper` | `ClearLocks` |

SETCARDs of one card overlap at any step, as nothing in the driver keeps them apart.
Three constants open or close what else the callers may do: `NoLockOpens` (files attached
without a lock: tools that ask for none, and `get_lock_mask` of an object that is not
open), `StaleTags`, `Clearlock`. `got`, a history variable, holds what SETCARD granted to
the open file of an object, so that a property can tell what an object was given from
what it believes to have and from what the tables say.

`LockManager` has one variable, `granted`. `ResourceLocks` implements it under the
mapping "a bit is granted to the object whose file was given it and carries its tag in
the table", a state function that does not look at `object`, so that the grant of a
process that dies before it knows of it is a grant all the same. A file that closes with the tag
of another makes that one give up its bits, which is a `Release`; `clearlock` is `Clear`.
Whether an owner may be made to is what `HeldUntilClose` says.

### 2.2 DmaEngine

A step is one clock of `clk`, or one access of a host. Signals of VHDL keep the value
from before the clock, so each clock computes all registers from the old ones: the
pipeline that makes the waits a clock late is in the model as it is in the code.
Addresses are counted in TLPs from `start_address`; the payload is not modelled, but
`full[d]`, a history variable, records the slots of each buffer that hold data which the
other side has not taken.

| code | model |
|---|---|
| the records `dma_descriptors_s`, `dma_status_s`, `dma_wait_s`, ... of a descriptor | `desc[d]`, one record |
| `rw_state`, `ToHostWriteCount`, `active_descriptor_s`, `toHostFifoIndex_s`, round-robin index, `wait_for_4k_boundary_s` | `rw_state`, `ToHostWriteCount`, `active`, `index`, `searching`, `wait_4k` |
| the clocked part that every state shares (addresses, even bits, waits) | `Pointers`, `ClockRegisters`, `ClockWait4k`, with `WaitPc`, `AtEnd`, `Wraps`, `Wait`, `NextAddress`, `Evencycle` |
| `IDLE`, `START_WRITE`, `CONT_WRITE`, `START_READ`, `DELAY` | `IdleStart`, `IdleSearch`, `StartWrite`, `ContWrite`, `StartRead`, `Delay` |
| `tready = 0` | `Stall` |
| `clear_wait_for_4k_boundary` from `strip_hdr` | `ClearWait4k` |
| `dma_soft_reset` | `SoftReset` |
| enable bits in `dma_control`: cleared by a wrap-around of a single-shot transfer, else written | `Enable`, `written` |
| `pc_pointer` and `evencycle_pc` crossing the domains | `pointer[d]`, `Sync` |
| `dma_to_host`, `dma_from_host`: set up, read the enable register, write it | `HostStart`, `HostWriteEnable` |
| `dma_stop` | `HostStop`, `HostWriteEnable` |
| `dma_advance_ptr` | `HostAdvance` |

The flags of the FIFOs are an input (`ready`) that changes freely at each clock. `Writes`
says when a host starts and stops a descriptor: at any time, only when nothing of it is
in the pipeline, or also without ever stopping it. `Unread` says whether the enable
register may change between the read and the write of one `|=`. `Resets` says whether
`dma_soft_reset` comes at any clock, as in the code, or only when every descriptor is
disabled and no host is in the middle of a call (`AtRest`).

`RingBuffer` has a head, a tail and a count. The refinement mapping takes the position of
the engine from `current_address` with the header of the last clock taken into account
(`Address`), and the position of the host from the pointer it wrote last.

### 2.3 IntrCtrl

A step is one clock of `clk`; every `Ratio`-th is an edge of `regmap_clk` too, and the
two processes then read each other's registers as they were before it. Inputs at each
edge: which FIFOs are empty, which interrupts the user logic or INT_TEST calls, what
INT_TAB_ENABLE lets through, whether BAR0 is written, whether the core has MSI-X enabled
(`msix_enable`; without it no call is latched and nothing fires). Input at each clock:
whether an AXI bus is busy. `MaxBusy` bounds how long the buses may withhold two idle clocks.
`taken`, a history variable, holds the interrupts taken from the latch whose message is
not sent.

| code | model |
|---|---|
| `data_available_interrupt_v`, `mask_data_available_interrupt` (`regSync25`) | `fifo_empty`, `mask_data_available`, `DataAvailable` |
| `intr`: latch, `s_interrupt_pending`, `v_interrupt_timeout`, selected vector | `Intr` = `Fire` or `Latch`, with `latch`, `pending`, `timeout`, `vector` |
| `regSync250`: request, clear, two idle clocks | `SyncClock`, with `request_int`, `clear_pending`, `axi_busy_p1`, `Send` |

### 2.4 IrqDriver

Any thread calls `irq_enable`, `irq_disable`, `irq_wait`, ... for any interrupt at any
time; a call is as many steps as it has accesses to state that others share: the read and the write of `INT_TAB_ENABLE`, and in the ioctls
the test of `irqMasked`, the call of `enable_irq` or `disable_irq`, and the assignment.
From the kernel come the disable depth (`enable_irq` of a depth of 0 changes nothing),
and that an interrupt which arrives while disabled is held and replayed at the last
`enable_irq`. `Call` stands for the controller, which latches only calls that
INT_TAB_ENABLE lets through; `sent` for messages on their way.
`wait_event_interruptible` is `Wake` when the flag is set, or `Signal` at any time,
after which the ioctl resets the flag and returns.

Nothing in the code keeps two calls for one interrupt apart, nor two modifications of
`INT_TAB_ENABLE`. Three history variables say where that can do harm: `collided` has the
interrupts for which two calls have overlapped; `raced` those whose own bit an
`irq_enable` changed while another thread was between its read and its write; `enabled`
those outside `collided` that an application has enabled. The properties are about the
other interrupts: the races of some threads must not touch what the others rely on.

### 2.5 FromHostReassembly

A step is one clock of `clk`, in which `strip_hdr` writes, reads, and sets or clears flags,
all from the values before the clock. A word of the memory is a number: the page it was
requested from and its place there, so that a word handed on too early, twice, or from
another page is seen. `due`, a history variable, holds the words requested and not handed
on. The host's memory answers a request in order and in any parts, several requests in
any order (`Completion`). A soft reset comes at any clock, also in the middle of a
completion; `torn` counts the clocks since the first one that met words on their way or
an enabled descriptor, and what is followed of it is bounded by `Follow`. `add_header` is only what `strip_hdr` and it share: the next
address, and the wait for the page boundary. A patient host (`Patient`) acts when nothing is
due; its next write of a register also comes after the pulse of `clear`, which lasts one
clock of 4 ns (`Quiet`). Without that last condition a page that is one request long
(`TlpWords = Words`) would lose its wait, in a time that no access of the host can hit.

| code | model |
|---|---|
| `strip_state`, `receive_word_count`, the data of the next beat | `strip_state`, `rwc`, `word` |
| `IDLE`, `PUSH_DATA`; a clock without `tvalid` in a completion | `NoCompletion`, `Header`; `Push`, `Pause` |
| port A of the memory, written a clock later; port B | `mem_wea`, `mem_addra`, `mem_dina`, `mem`; `mem_addrb` |
| `mem_full`, `mem_full_p1`, `reading_mem` | the same names, sets of addresses |
| `clear_wait_for_4k_boundary`, `wait_for_4k_boundary_s` | `clear`, `wait` |
| "if address 0 is written, go back immediately" | `GoesBack` |
| `dma_from_host`, `dma_stop`, `dma_soft_reset` | `HostStart`, `HostStop`, `SoftReset` |

### 2.6 RegisterAccess

A step is one edge of `clk`; every `Ratio`-th is an edge of `regmap_clk` too. The request
goes down through two registers of the slow clock, the done levels come up through four
(read) and two (write) of the fast one, and each end waits for the level of the other.

| code | model |
|---|---|
| the six states of the completer | `Accept` and `Idle`, `ReadRegister`, `WriteRegisterRead`, `WriteRegisterModifyWrite`, `WaitRwDone`, `SendUnknownRequest` |
| `register_read_enable_250_s`, `register_write_enable_250_s` and their pipe | `enable` |
| `register_read_address_250_s`, data and keep; `register_write_address_250_s` | `request`, `target` |
| `regSync25`, `regSync250` | `down1`, `down2`; `readDone`, `writeDone`, `readData` |
| `regrw`: a read line, a written line, its strobe, `reset_register_map` | `Update`, `ResetRegisterMap`, `trigger`, `reset` |

A line is 128 bits, the words it holds are what one access names: a write replaces its
word in the line that was read before it. `open`, `answer`, `strobe` and `since` are
history: the request not served yet, what the host has seen of answers, the rises of
each strobe, the slow clocks since an access took effect. `RegisterFile` is the promise:
one access at a time, at one instant. The mapping serves a read when its answer is
transferred, and a write when the strobe of its line rises, which is the first of the
three slow clocks in which the line is written with the same data.

### 2.7 WishboneBridge

A `Tick` is one clock of `regmap_clk`, which the bus uses as well; a `Step` is one
register access of the tool, at least `Apart` clocks after the last one, which is what
`AccessesApart` of `RegisterAccess` says. A queue shows what was pushed `Latency` clocks
later. Of a word only the address it belongs to is kept.

| code | model |
|---|---|
| `wupper_to_wb_fifo0`, `wb_to_wupper_fifo0` | `toBus`, `fromBus`, `Push`, `Visible` |
| `next_state_decoder`, `output_decoder`, `state_register` | `WbIdle`, `WbStart` |
| `monitor_proc` | `Monitor`, `error` |
| `wb_memory`, the error device of the crossbar | `Slaves` |
| `wupper-wishbone` | `SetAddress`, `SetDirection`, `WriteData`, then `GetEmpty`, `GetError`, `ReadTrigger`, `GetData` or `CheckWrite`; `Kill` |
| `rst_i`: both queues, the state of the master, the data of the memory | `SoftReset`, at any clock |

`torn`, a history variable, holds the tools whose read met a reset. Its answer is gone:
such a tool polls until somebody ends it (`Kill`), or, if it had seen the queue filled
before the reset, returns the zero that an empty queue shows.

### 2.8 CmemBuffers

A file has one thread. A step is what runs without sleeping and without the end of a
critical section of `slock`: GET is up to four steps (the reservation of an entry; the
search of the pool; after `kmalloc` the change of the pool; the completion of the entry),
LOCK, UNLOCK and FREE are two (the look at the entry, the change), the release of a file
is one per buffer, all under `slock`. Memory is counted in cells: pages of the pool, and
blocks that the kernel's allocator returns.

| code | model |
|---|---|
| `buffer_table[]`: `used`, `locked`, `type`, `kaddr`, size | `buffer_table[h]` |
| `private_data->buffer[]` | `buffer[f]` |
| `usedList`, `freeList` of `range_t` | `pool.used`, `pool.free`, `pool.rng`; a node outside both is what `kmalloc` may return |
| CMEM_RCC_GET | `GetReserve`, `GetKernel` or `Search` and `Carve`, `GetFails`, `Fill` |
| `membpa_alloc_pages` before and after `kmalloc` | `Search`; `Carve` = `CarveAll` or `CarveFirst`, with `Realigned` |
| `membpa_free_pages` | `Joined` |
| LOCK, UNLOCK; `CMEM_SegmentFree` and FREE | `Ask`, `SetLock`; `Ask`, `Free` |
| `CMEM_SegmentFree` of a locked buffer, which unmaps it only | `FreeLocked` |
| `cmem_rcc_release`, also of a process killed between GETPARAMS and FREE | `Close`, `ReleaseEntry`, `ReleaseDone` |
| `echo freelock > /proc/cmem_rcc` | `FreelockEntry` |

`got`, a history variable, is the memory each application may use, handle by handle: it
compares what callers were told with what the tables say. `Serial`, `Foreign` and
`Freelock` open or close what the callers may do. `BufferPool` has an owner for each cell
("free", a file, or "kept" by the driver), and `locked`; the mapping reads both from the
filled entries of the table and the marks.

Two things are as they are in the code. CMEM_SegmentUnlockAndFree asks for an ioctl that
the driver does not have, and always fails, so no step stands for it. And UNLOCK of a
buffer whose file is gone leaves it in the table, where nothing frees it.

## 3. The checks

| run | states | asks |
|---|---|---|
| `locks_any` | 1 998 393 | Whatever the callers do: do the three tables agree, is a held bit never taken over, who can take a bit from its holder, is each bit somebody's who will free it, what does `get_lock_mask` name, is LockManager implemented? |
| `locks_locked` | 205 150 | When every file has a lock, with SETCARDs that overlap: exclusion, freed at death? |
| `dma_tohost` | 248 868 | An endless and a single-shot ToHost descriptor, two processes: the properties of the engine |
| `dma_traffic` | 6 739 | An endless FromHost beside a ToHost descriptor under full load: does it go on for ever, and never past the other side's pointer? |
| `fromhost_pages` | 1 148 400 | Three requests outstanding, completions in any order and parts, whole pages, resets at any clock: is each word handed on once and in order, and does every page end? |
| `fromhost_partial` | violation | And when transfers end within a page? No. |
| `irq_idle` | 130 560 | With buses that pause: is every interrupt sent once, with its vector, and does the hand-shake never jam? |
| `irq_driver` | 424 104 | Two threads that use two interrupts as they like: do masks and depth agree, does what is enabled stay enabled, is no wake-up lost, where the threads' own calls did not collide? |
| `registers` | 427 887 | Reads, writes, unknown requests and resets as fast as the completer takes them: is the path a register file, is every request served, how close do two accesses come? |
| `wishbone` | 30 504 | Calls of the tool one after the other, kills, soft resets at any clock: does each call get its own outcome, and end? |
| `cmem_serial` | 71 089 | Two files, the pool used by one at a time: is memory never shared or lost, do buffers stay, is BufferPool implemented? |
| `cmem_race` | violation | And when two files allocate at once? Two buffers share memory. |

### 3.1 Properties

*Locks.* `TablesAgree` (the mask that SETCARD tests against the pids and tags),
`NoTakeOver` (a bit is free between two owners), `MutualExclusion` (of what the objects
believe, not of the tables, with overlapping SETCARDs; one exception, section 5),
`HeldUntilClose` (who can take a bit from its holder: its own close, `clearlock`, and
objects that close with a tag they were not given, no holder of a lock),
`NoOrphanedLock` (each locked bit was granted to a file that is still open, of the
process in `lock_pid`), `LockMaskIsOfOthers` (`get_lock_mask` names the bits granted to
others, all of them and no other, save for those the object believes its own),
`LocksOfTheDeadFreed` (liveness), `ImplementsLockManager`.

*DMA.* `NoOverrun` (a TLP against the data the other side has not taken), `RightFifo`
(header against payload), `EvenBitsTellFull` (the even bits against the slots),
`SingleShotComplete` (hardware clears an enable bit only after a whole buffer),
`HostDecides` (who may change an enable bit), `NeverStalls` (liveness),
`ImplementsRingBuffer`.

*Interrupt controller.* `NoLostInterrupt`, `NoSpuriousInterrupt`, `Answered` (liveness).

*FromHost.* `InOrder` (each word handed on against the order of the requests), `Delivered`
(liveness: every word requested is handed on, and every wait for a page ends).

*Registers.* `ImplementsRegisterFile` (every access has its own address, data, answer and
strobe), `AccessesApart` (the distance that the parts behind the registers rely on),
`EveryRequestServed` (liveness).

*Wishbone.* `OwnOutcome` (what a call returns against its own address), `CallsEnd`
(liveness).

*Contiguous memory.* `NoSharedMemory` (between what applications were told), `KeepsBuffer`
(applications against tables and marks), `PoolConserved` (the lists against the pages,
and against the table), `ImplementsBufferPool`.

*Interrupts on the host.* `MaskedIsDisabled` (driver against kernel),
`EnabledUntilDisabled` (card and kernel against what the application was told), both
while other threads race, `Delivered` (liveness).

Each module has one type invariant, `TypeOK`. For each property of a passing run there
is a mutant: one definition replaced by its slip, under which TLC finds the property
violated.

### 3.2 Bounds, and why they are enough

* **Locks.** `locks_any`: two objects of two processes, two bits, every switch open.
  Takeover, disagreement and the loss of a bit need two parties; the process with a stale
  tag is one of them. `locks_locked`: three objects, two of them in one process (bits freed by pid
  would free the sibling's), two bits (overlapping but different masks). One card in
  both: the tables of two cards share nothing but `lock_tag`. `MaxTag` bounds the tags:
  one or two grants in a behaviour (`locks_any`, where `clearlock` starts them anew;
  `locks_locked`); the tag counter of the code wraps after 2^32 grants,
  which is not modelled (with it a tag could come back while its first owner is alive).
  Two symmetric model-value sets would be possible; the runs are small enough without.
  No run switches the deadlock check off: with the tags used up a process can still end.
* **DMA.** A buffer of four TLPs and pages of two: wrap-around, page boundary and
  equality of the pointers at every phase of the pipeline, which is three clocks deep. A
  TLP has two FIFO words, which is enough for the state machine to enter, stay in and
  leave `CONT_WRITE`. The host advances by half a buffer, the one step that keeps its pointer
  away from the last TLP and its wrap-around above the gap (sections 4 and 5). `Gap` = 1 stands for the 16 MB
  of `PC_PTR_GAP`: less than the buffer, more than nothing. Two descriptors in use
  suffice for each pairwise interaction: they share the state machine, the waits that
  a wrap-around overwrites, and the enable register.
* **Interrupt controller.** Two interrupts, one of them raised by a FIFO; `Ratio` 3 for
  10 and `Timeout` 3 for 15. The result scales: TLC finds `NoLostInterrupt` true
  exactly up to `MaxBusy = Ratio * Timeout - 3`, here 6, and likewise for the pairs
  (2, 3), (3, 2), (4, 2), (2, 5) and (5, 2) of `Ratio` and `Timeout`; for the numbers of
  the code that would be 147 clocks of 4 ns.
* **Interrupts on the host.** Two threads and two interrupts: a register and the entries
  of the tables are shared by two, and there is an interrupt beside those that collide.
  `After = FALSE` bounds the run: once two calls for one interrupt have overlapped, no
  further `irq_enable` or `irq_disable` starts (the calls under way go on), since the
  kernel's depth could then grow without end. The theorems hold for both values.

* **FromHost.** A page of six words, requests of two: three requests in a page, all of
  which may be outstanding (`MaxTags = 3`), so their completions come in all six orders
  and in all parts; buffers of two pages, single-shot and endless. Words carry the number
  of their page modulo 3: two pages cannot be mistaken. After a reset in the middle of a
  transfer one more clock is followed (`Follow = 1`): `InOrder` ends with that reset, and
  `TypeOK`, which goes on, is proved without the bound.
* **Registers.** `Ratio` is that of the firmware, 10, so every phase of an access against
  the slow clock occurs; the properties hold also for 4, 2 and 1. Two lines of two words:
  a line can be mistaken for the other, a word be lost in its line. `Apart = 6` is the
  least distance: with 7, `AccessesApart` is violated.
* **Wishbone.** `Latency` 5 is what the vendor's FIFO takes with its synchronisers;
  `Apart` 6 is what `registers` shows. One tool, two mapped addresses and one unmapped
  one: a call meets what any earlier call left. `Depth` 2 for 32: one call at a time has
  one request outstanding, so neither queue is ever full. No limit on the number of calls.
* **Contiguous memory.** Two files, two entries, three pages and one block: a range is
  split, joined on either side and on both; an entry gets another owner; a file's
  release meets another's GET. Four `range_t` are enough for three pages and one more,
  so `kmalloc` fails only where the code handles it. Three entries are out of reach.

### 3.3 Fairness, and why the code justifies it

* `ResourceLocks!FairSpec`: the kernel closes the files of a process that has ended. It
  always does, in `do_exit`; nothing else is assumed to happen.
* `DmaEngine!Spec` has no fairness: its properties are safety. `TrafficSpec` is for
  `NeverStalls` alone: the clock runs, data never stops, the PCIe core takes each TLP,
  `strip_hdr` ends each page, and each process advances its pointer when it can and
  ends the calls it began. It states the load under which an endless DMA must go on;
  a host that stops reading stops the DMA by design.
* `IntrCtrl!Spec`: the clock runs. That the buses pause is a bound (`MaxBusy`), not
  fairness, and `Answered` ends where MSI-X is disabled.
* `FromHostReassembly!Spec`: the clock runs, and the host's memory answers what it was
  asked (a PCIe completion that never comes is an error of the bus).
* `RegisterAccess!Spec`: the clocks run. Nothing is assumed of the host, nor, in the
  model with `Stalls`, of the PCIe core.
* `WishboneBridge!Spec`: the clock runs, and a tool that has started goes on.
* `IrqDriver!Spec`: a thread that is not waiting goes on, and a message that was sent
  reaches the kernel. `Start`, `Signal` and `Call` are never required.

## 4. Findings

Each is a run in which TLC reaches, in the translated code, a state that a comment, a
document or the API description excludes. Section 5 has more disagreements of this kind,
each as the change of a passing run that shows it.

1. **`cmem_race`, NoSharedMemory** (`cmem_rcc.c:1359`). GET calls `membpa_alloc_pages`
   without `slock`, and that function may sleep in `kmalloc(GFP_KERNEL)` between its
   search of the free list and its change of it. A second caller takes the same range
   meanwhile. The first then finds that `aligned_base` is no longer `range->base`, takes
   the difference for alignment, moves the base of the range back and returns the pages
   that the second already has. `cmem_rcc.c:4`: "Its purpose is to provide user
   applications with contiguous data buffers for DMA operations".
2. **`fromhost_partial`, InOrder** (`dma_read_write.vhd:539`). A transfer that ends within
   a page leaves `reading_mem` at 1 and `mem_addrb` at the next word. Of the next
   transfer a completion with the word at that address may come before the one with word
   0: it is handed on first, and when word 0 arrives the reader goes back and ends the
   wait for the page boundary while the page is still coming in. `design.tex:159`: "This
   memory sorts pages of 4KB into the correct order before they are passed to the
   FromHostFifo".

## 5. Where the properties end

The passing runs state what callers must do for the properties to hold. Each condition
was dropped once; what TLC then finds is part of what the models say about the code. A
row that quotes a document shows a disagreement between it and the code.

| condition, and where it is | without it |
|---|---|
| an object knows the tag of its own file (in `MutualExclusion`) | `MutualExclusion` fails: SETCARD decides under `lock_lock`, but leaves its answer in `devices[card]` and copies it to the caller after the lock is given back (`wupper.c:1342, 1365`). A grant to another process in between sets `lock_error` to 0, and the refused caller's `card_open` returns as if it had the locks, with the tag of the other. The property says that this is the only way: an object that got the answer to its own call excludes all others like it, whatever overlaps. `WupperCard.h:293`: "the driver will refuse other processes that request access to the same resource" |
| a file without a grant does not close (`got[x] = {}` in `HeldUntilClose`; `NoLockOpens = FALSE` in `locks_locked`) | `HeldUntilClose` fails: a SETCARD without a lock_mask stores the current `lock_tag` in the file (`wupper.c:1347`), the next grant uses the same tag, and closing the first file frees the bits of the second; `MutualExclusion` fails with it. `WupperCard.h:311`: "The lock will be held until the owning process calls card_close()". And without `Believed` in it `LockMaskIsOfOthers` fails: `get_lock_mask` removes the object's own bits by an exclusive or, so an object whose bits another file's close has freed is told that others have them |
| nobody writes `clearlock` (`Clearlock = "never"` in `locks_locked`) | `MutualExclusion` fails, already with `"closed"`: the counter restarts at 0, so the first grant after it has the tag that a new file carries too, and a file that is opened, refused and closed frees it. With `"always"` the holders go on as if they had their locks. In `locks_any` it is always possible |
| `kmalloc` returns a zero `lock_tag` (`StaleTags = {0}` in `locks_locked`; with `{0, 1}`) | `MutualExclusion` fails: a refused file frees what another was granted (`wupper.c:651`). `locks_any` has both. (`ImplementsLockManager` needs none of these conditions: whoever frees a bit, its holder loses all of them at once, and no bit has two holders.) |
| a host does not restart a descriptor while its last TLP or wrap-around is in the pipeline (`Writes = "quiet"`) | with `"always"`, `HostDecides` fails: the wrap-around of the transfer before decides about the enable bit of the next |
| a FromHost descriptor is not stopped and started within a few clocks (`Writes = "starts"` in `dma_traffic`) | with `"quiet"`, `NoOverrun` fails: the comparison of the even bits is computed only while enabled and registered, so in the first clock after the start the wait is not yet set, and a read is requested from an empty buffer |
| the enable register does not change during a `\|=` (`Unread = FALSE`) | what a process writes is what it read before, with one bit changed (`WupperCard.cpp:616`): a single-shot descriptor that ended in between is enabled again and transfers a second time, and one that another process started or stopped in between is stopped or started. `SingleShotComplete`, `HostDecides` and `ImplementsRingBuffer` fail |
| `dma_soft_reset` comes when all descriptors are disabled (`Resets = "rest"`; with `"any"`, as `wupper-reset` does, `wupper-reset.cpp:172`) | `TypeOK`, `NoOverrun`, `EvenBitsTellFull`, `SingleShotComplete` and `ImplementsRingBuffer` fail: the reset (`dma_read_write.vhd:213`) clears the state machine and the even bits of the engine, but neither the addresses nor the enable bits nor the even bits of the host. A payload that it cuts short counts as sent, its descriptor is chosen again before its wait is up, and full is taken for empty. `RightFifo` and `HostDecides` hold for resets at any clock |
| the buffer is larger than `PC_PTR_GAP` (`Gap < Size`) | with `Gap = Size`, `EvenBitsTellFull` fails: the wrap-around of the host is not noticed |
| a host frees less than `Size - Gap` at once (`Steps`) | with `{3}`, `NoOverrun` fails: the pointer falls by `Gap` or less, and its wrap-around is not noticed. With `{4}`, the whole buffer, `dma_advance_ptr` (`WupperCard.cpp:760`) writes back the pointer it read, and `NeverStalls` fails: a buffer that was read stays full for the DMA. `wupper-throughput -w` calls it so (`wupper-throughput.cpp:178`) |
| a host's pointer never stands at the last TLP (`Steps = {2}`; with `{1}`, `Used = {0}`, `WrapAround = {0}`) | `EvenBitsTellFull` fails: `evencycle_dma` toggles when the *next* address reaches `end_address` (`dma_read_write.vhd:429`), one TLP before the address wraps around. A host that has read up to the last TLP while the engine stands there has an empty buffer with equal pointers and different even bits: the engine takes it for full and waits, and the host waits for data (`NeverStalls` fails under `TrafficSpec`). `design.tex:85`: "every wrap around the status bits will toggle" |
| an endless FromHost descriptor is the only endless one (`WrapAround` in `dma_traffic`; with `{0, 1}`, of which 1 is the FromHost one), and a TLP has two words or more (`Beats`; with 1, in `dma_tohost`) | `NoOverrun` fails: in the second clock of a wrap-around `dma_wait_s <= dma_wait_s or dma_wait_next_s` (`dma_read_write.vhd:440`) assigns the old waits of all descriptors, and discards one that the loop above it set in that clock. That descriptor sends one TLP past the pointer. Endless ToHost descriptors with longer TLPs wrap around while a payload is sent and no other header is (`NothingOverwritten`, section 6). `design.tex:83`: "until the PC_read_pointer is reached" |
| one ToHost descriptor under full load (`dma_traffic`) | with two endless ones, `NeverStalls` fails: the round-robin search advances only in `IDLE`, and can stay in phase with the transfers so that it always stands at the same descriptor when a decision is made |
| the buses pause within `MaxBusy` clocks (6; with 7) | `NoLostInterrupt` fails: while the AXI buses are busy a request waits in one flag, but the timeout (`intr_ctrl.vhd:174`) ends the pending state, and the next interrupt replaces the address and data of the one that waits: one message for two. A ToHost DMA at full rate leaves one idle clock between TLPs, never the two that a message needs. `design.tex:155`: "All Interrupts are fired when enough data has arrived" |
| no two calls for one interrupt overlap (`collided` in `MaskedIsDisabled`) | the property fails for that interrupt: two UNMASK_IRQ or MASK_IRQ at once both pass the test (`wupper.c:1235`), the kernel's depth goes to 2, and one `irq_enable` no longer enables it. No other interrupt is touched |
| the write of an interrupt's own bit overlaps with no other change of `INT_TAB_ENABLE` (`raced` in `EnabledUntilDisabled`) | the property fails for that interrupt: `irq_enable` and `irq_disable` read and write the register (`WupperCard.cpp:1258`), and of two threads the later write undoes the earlier. `wupper-irq-test -T` starts two such threads. No interrupt that was enabled before loses its bit to such a race. `WupperCard.h:705`: "only this channel will be enabled" |
| transfers end with a page (`Sizes` in `fromhost_pages`) | finding 2; and an endless buffer that is not a multiple of a page (`Sizes = {6}` of `Words = 4`) violates `Delivered`: at the end of the buffer `add_header` waits for a page that the reader can only end when word 0 of the next one comes (`dma_read_write.vhd:434, 549`), and the DMA stands still for ever |
| no pauses within a completion (`Pauses = FALSE`) | `InOrder` fails: the write address advances in the clock after a write (`dma_read_write.vhd:507`), so after a clock without data the next word is written over the last one |
| the host starts and stops when all data has arrived (`Patient`) | `InOrder` fails: the hardware clears the enable bit when the last request is sent, not when its data has come |
| no reset in the middle of a transfer (`torn = 0` in `InOrder`, `torn > 0` in `Delivered`) | both fail: a soft reset (`dma_read_write.vhd:475`) leaves `reading_mem` and `receive_word_count` as they are and cannot take back what the host's memory has been asked, so what comes later is written to a memory that was reset, and a page that lost words never ends |
| the PCIe core takes an answer at once (`Stalls = FALSE`) | `ImplementsRegisterFile` fails: the completer sets `tvalid` in the clock after it looked at `tready` (`dma_control.vhd:420`), so an answer is transferred twice or not at all |
| no request follows an unknown one at once (`Hasty = FALSE`) | `ImplementsRegisterFile` fails: the read enable is raised for a clock for an unknown request too (`dma_control.vhd:366`). If an edge of the slow clock falls there, the done level goes up, and the next read takes it, with the data of an access before. `dma_control.vhd:368` has "all others are non-posted (for posted, no reply is needed)" |
| a tool is not killed between the request of a read and the read trigger (`Killable`; with `"empty"`) | `OwnOutcome` fails: the answer stays in the queue, and the next call returns it (`wupper-wishbone.cpp:106`); every later call then returns the answer of the one before |
| calls of two tools do not overlap (`Together = FALSE`) | `OwnOutcome` fails: address, direction and data are three registers |
| no soft reset during a read (`torn` in `OwnOutcome` and `CallsEnd`) | `OwnOutcome` fails: a reset between the poll that found the queue filled and the read of the data empties it, and the tool returns 0 without an error (`wupper-wishbone.cpp:117`). `CallsEnd` fails: a reset before the poll takes the request or its answer, and the tool polls for ever (`wupper-wishbone.cpp:106`). A call that a reset does not meet is not harmed |
| a call that writes asks for nothing of its own (`WriteReports` is in no run) | it fails for a `Latency` of 3 or more: the tool looks at the error flag once (`wupper-wishbone.cpp:122`), before the bus has answered |
| register accesses are six slow clocks apart (`Apart`; with 1 or 2) | `OwnOutcome` fails: the error flag of the call before is still up. (With requests back to back the memory, too, would acknowledge with the word before, as its ack stays up for two clocks after `stb`: `wb_memory.vhd:121-127`.) |
| one allocation from the pool at a time (`Serial`) | finding 1: `NoSharedMemory`, `PoolConserved` and `ImplementsBufferPool` need it; `KeepsBuffer` does not (`BuffersKept`, section 6) |
| files use their own handles (`Foreign = FALSE`) | `KeepsBuffer` fails: FREE clears the mark of the caller, not of the owner (`cmem_rcc.c:737`), and the owner's entry, or its next tenant's, goes with it |
| a handle is not used after its free (`FreeLocked`) | `CMEM_SegmentFree` of a locked buffer unmaps it, returns success and leaves it in the table (`cmem_rcc_lib.cpp:566`); nothing frees it but `freelock`, or UNLOCK and another free |
| no `freelock` while files are open (`Freelock = "closed"`; with `"always"`) | `KeepsBuffer` fails: a locked buffer is freed under its owner |

## 6. The proofs

TLC explores small instances; the theorems hold for every value of the constants that
the assumptions of the modules allow: any number of objects, processes, cards and bits,
any number of descriptors and any size of buffer, page, request and queue, any set of
interrupts, any number of files, entries and pages, any register map, any ratio of the
clocks. Of the safety properties and refinements that a passing run checks, each is
proved. The eight modules have 15 783 obligations, all proved by tlapm with Z3, Zenon
and LS4.

| theorem | assumes | states |
|---|---|---|
| `ResourceLocksProofs!TypeCorrect` | nothing | `Spec => []TypeOK` |
| `ResourceLocksProofs!TablesAlwaysAgree` | nothing | `Spec => []TablesAgree` |
| `ResourceLocksProofs!NeverTakenOver` | nothing | `Spec => NoTakeOver` |
| `ResourceLocksProofs!LocksExclude` | `Orderly` | `Spec => []MutualExclusion` |
| `ResourceLocksProofs!LocksHeld` | nothing | `Spec => HeldUntilClose` |
| `ResourceLocksProofs!NoneOrphaned` | nothing | `Spec => []NoOrphanedLock` |
| `ResourceLocksProofs!DriverImplementsLockManager` | nothing | `Spec => ImplementsLockManager` |
| `ResourceLocksProofs!MaskNamesOthers` | nothing | `Spec => LockMaskIsOfOthers` |
| `IrqDriverProofs!TypeCorrect` | nothing | `Spec => []TypeOK` |
| `IrqDriverProofs!MaskedAgrees` | nothing | `Spec => []MaskedIsDisabled` |
| `IrqDriverProofs!StaysEnabled` | nothing | `Spec => []EnabledUntilDisabled` |
| `DmaEngineProofs!FifoOfHeader` | nothing | `Spec => []RightFifo` |
| `DmaEngineProofs!BitsAreTheHosts` | `~Unread`, `Writes # "always"` | `Spec => HostDecides` |
| `DmaEngineProofs!TypeCorrect` | `Careful` | `Spec => []TypeOK` |
| `DmaEngineProofs!NothingOverwritten` | `Careful` | `Spec => []NoOverrun` |
| `DmaEngineProofs!EndsComplete` | `Careful` | `Spec => SingleShotComplete` |
| `DmaEngineProofs!RefinesRing` | `Careful` | `Spec => ImplementsRingBuffer` |
| `FromHostReassemblyProofs!TypeCorrect` | nothing | `Spec => []TypeOK` |
| `FromHostReassemblyProofs!WordsInOrder` | `Whole` | `Spec => []InOrder` |
| `RegisterAccessProofs!TypeCorrect` | a line and a word | `Spec => []TypeOK` |
| `RegisterAccessProofs!EffectsApart` | `Paced`, a line and a word | `Spec => []AccessesApart` |
| `RegisterAccessProofs!RefinesFile` | `Paced`, a line and a word | `Spec => ImplementsRegisterFile` |
| `WishboneBridgeProofs!TypeCorrect` | a mapped address | `Spec => []TypeOK` |
| `WishboneBridgeProofs!ReadsTheirOwn` | `Alone`, a mapped address | `Spec => []OwnOutcome` |
| `IntrCtrlProofs!TypeCorrect` | nothing | `Spec => []TypeOK` |
| `IntrCtrlProofs!NoneLost` | `Patient` | `Spec => []NoLostInterrupt` |
| `IntrCtrlProofs!NoneSpurious` | `Patient` | `Spec => []NoSpuriousInterrupt` |
| `CmemBuffersProofs!TypesKept` | `Careful` | `Spec => []TypeOK` |
| `CmemBuffersProofs!BuffersKept` | `Private` | `Spec => []KeepsBuffer` |
| `CmemBuffersProofs!PoolKept` | `Careful` | `Spec => []PoolConserved` |
| `CmemBuffersProofs!DriverImplementsBufferPool` | `Careful` | `Spec => ImplementsBufferPool` |

`Orderly` of the locks is the condition of `locks_locked`: every file has a lock, a new
file has no tag, nobody clears the locks; SETCARDs overlap as they like. `Patient` is
`MaxBusy <= Ratio * Timeout - 3`; `irq_idle` has the largest `MaxBusy` that satisfies it.
`Private` of the buffers: files use their own handles, `freelock` only when no file is
open; `Careful`, the condition of `cmem_serial`: also one allocation from the pool at a
time. The `Careful` of `DmaEngineProofs` holds in both `dma_*` runs: accesses of the
enable register take turns, descriptors start, stop and are reset at rest, TLPs have 2 to 255
words, an endless FromHost descriptor is the only endless one and is not stopped, a host
frees less than `Size - Gap` at once, and there is a set of slots (`Stands`), without the
last one, that its pointer never leaves. `Whole`: hosts are patient, completions come
without pauses, transfers consist of whole pages. `Paced`: the core takes answers at
once, no request follows an unknown one at once, six fast clocks or more in a slow one
(10 in the firmware), and `Apart` is six or less. `Alone`: calls of tools do not overlap,
no tool is killed while its answer is on the way, and three accesses of a call take
longer than a request is on its way (`Latency + 5 < 3 * Apart`), two longer than it is in
the queue. Section 5 shows what happens without these conditions. The bound of six clocks
in `Paced` is what the argument needs: TLC finds the properties true for ratios of 4, 2
and 1 too.

**Tables.** `TypeOK /\ TablesAgree` is inductive by itself. The four steps that change the
tables are reduced to two lemmas: `FreeBitsAgree` for the three that free bits, and
`GrantAgree`. `NoTakeOver` follows from it for each step: the bits of a grant were free
in the mask, so by agreement their pids were.

**Locks and files.** None of the other lock properties is inductive: they depend on which
file got which tag, and that is written at other places than the tables. `HistoryInv` says
it for every environment, in terms of `Has(o, c, b)` (the tables and the file of `o` agree
that it has the bit). `CallInv` says for each point of a call what its file and object
rely on: a file with a grant carries a tag below the counter. `TagInv`: no two files with
a grant carry one tag, also after `clearlock`, which ends all grants before it starts the
counter anew. `OwnedInv`: each locked bit is that of a file, of the process in `lock_pid`.
There is one lemma for each action. `NoOrphanedLock` is `OwnedInv`; `LockMaskIsOfOthers`
follows from both directions of it, and `HeldUntilClose` because a step that frees bits by
a tag can only meet the one file that carries it (`LossIs`).

**Their refinement.** `granted` is the set of bits that an object has. A step changes
nothing of it (`Stutters`), `Grants` one object exactly what it asked for, `Frees` one
object of all it has, or is `clearlock`. What `FreeKind` shows is the middle: a set of
bits of one tag touches one holder at most, and all that this holder has, whoever frees
it; `PidOfHolder` says so also for the test of the pid in RELEASELOCK.

**Exclusion.** Here the objects matter too, and what they were told. `OrderlyInv` adds to
`HistoryInv`, under `Orderly`, that an object at "open" knows a tag which is no other's of
its process (`Told`, from `Answered` at "copy"), so its close frees nothing of a sibling,
and that it has all that its file was granted. The shared answer may still be that to
another call; the object then knows another tag than its file, which is the exception in
`MutualExclusion`. Two objects without it that share a bit would both be named by the tag
of that bit, and tags are unique.

**Interrupts.** `KernelInv` is `MaskedIsDisabled` with `OneCall` (two calls for one
interrupt overlap only if it has collided) and `KnownAt` (what such a call knows of mask and depth). `RegisterInv` is about
`INT_TAB_ENABLE`: `BitKept` (an interrupt whose own write raced with no other has its bit
in the register, and in what every thread has read and will write back), `Races` (a read
that is under way while another bit is written is one that `raced` knows), `EnabledOpen`
and `NotEnabled`. Threads may overlap as they like in both.

**Interrupt controller.** `StageInv` says that an interrupt passes four stages (`fire`;
`int_s` that the other domain has not seen; `request_int`; `msix_int`), that two never
hold at once, and that no clear of an earlier message is up in the first three. What
makes it inductive is time: `FireIn` counts the clocks before the controller can fire
again if only the timeout ends the pending state, and the request has at least as many
as the buses can take from it, `MaxBusy - busy_for + 1`. Each clock takes one from both
sides (`SoonerBetween`, `SoonerEdge`, `Waiting`); at an edge where the controller fires
`FireIn` is 0, so no request is left. This gives the bound of `Patient` exactly: two clocks
from `int_s` to the first in which the message can be sent, and one to the message.

**DMA engine.** `FifoInv` carries the selected FIFO through `IDLE`, `START_WRITE` and
`DELAY`, and says nothing of `CONT_WRITE`, in which the next descriptor is chosen and the
FIFO is still the last one's. `EnableInv`: an endless descriptor that is disabled, or
that a write on its way is about to disable, is not at its end, so the wrap-around, which
overrides the write, cannot enable it.

The rest follows from `DmaInv`. Its first half is about the engine alone: `Phase` says in
which of three phases the registers of a descriptor are (the next address is one ahead;
the next address stands at the end and a clock decides; the transfer has wrapped around),
separately for an endless and a single-shot one, and that nothing is started while the
wait for the end is still to be registered. Its second half is about the host: `Pointed`
(the pointer is where the host may stand, and what is on its way tells whether it wrapped
around), `Holds` (engine and host follow each other at less than a lap, as the engine sees
the host and as the host is, and `full` is exactly what lies between them), and `Waits`
(an engine that has caught up waits already, or will before the state machine comes to
it). `Lap` relates two positions and two bits, each in the sense of `Turn`, the bit that the engine's
even bit will be once its address has wrapped around: this is where the even bit that
toggles a TLP early is corrected, and why the pointer must not stand at the last slot.
For `ImplementsRingBuffer` the mapping is defined by those positions; a header is `Put` or
`Take` of `RingBuffer`, a host's pointer the other one, and every other step a stutter.

**FromHost.** `PageInv` says where each word is that is due: in a request, in the completion
that comes in, at the write port, or in the memory at its own address, and in one of them
only (`PlacesInv`). After a reset that cut a transfer short nothing is said of the words:
the invariant is `TypeInv /\ (torn = 0 => PageInv)`. `DueInv` says that the words due are the run of one page from the
reader's address to the last one requested, so the word under the reader is the first one
due; `WaitInv`, that no word of the next page is requested before the last of this one was
handed on. TLC showed that the first version of `Quiet` was too weak for that (section
2.5).

**Register access.** `AccessInv` follows the two levels of an access from register to
register: `ReadUp` and `WriteUp` say that they are set up to some place on the way, and
`ReadDown` and `WriteDown` that they are cleared up to some place; one lemma for each says
that an edge of either clock moves the place. `PassInv` says that what goes with a level
is the request in hand, and `StateInv` which levels are where in each state of the
completer, and how many slow clocks the last effect is ago (`Since`). The reset of the
register map has an order of its own, told by the two registers of `reset` (`ResetSet`,
`ResetSeen`, `ResetOver`); here the write levels must be up, and down again at their
source, before the slow clock in which the reset is seen, which takes the six fast
clocks. `RefinesFile` then needs the edge alone: an edge writes the table (`TableWrites`),
clears it (`TableClears`) or leaves it as it is (`TableStays`, also for the second and
third clock of a write), and an answer is that of the open request (`AnswerIs`).

**Wishbone bridge.** `BridgeInv` has one part for each place of a request: the queue, a bus
cycle, the bus at rest, the answer. Each carries the clocks since it was pushed, against
the clocks that the tool has let pass (`Within`), which says that at the next request
nothing of the last one is on its way. `OwnInv` then says that what is under way for a
tool that waits is its own, and that the error flag, once the request has left the queue,
can only be that of an unmapped address. A reset empties all places at once; a read that
it met stays with empty queues and a master at rest (`TornAt`). `AccessesApart` with `Apart = 6`, proved of
`RegisterAccess`, gives what `Alone` asks for with a `Latency` of 5.

**Buffers.** `NoSharedMemory` says nothing of the calls that are under way, and the
allocator lives on what its lists look like, so `CareInv` has seven parts. `RangesInv`:
the ranges of the two lists are not empty, lie in the pool, are disjoint, cover it, and
no two free ones touch; `PoolConserved` follows at once. `EntryInv`: an entry that is not
filled has nothing. `MarkInv`: an entry has the mark of one file at most, and a file's
marks cover what it was told is its. `CallInv` says for each point of a call what it may
rely on, above all that at "found" the range is still free and as large as the search saw
it, and `SerialInv` why: nobody else is between search and change, and no release is
under way. `HolderInv`: every filled entry, and every call that has memory and has not
filled its entry yet, has a used range or a block of its own, and every used range has
such a holder. Two algorithms have lemmas of their own: cutting a range (`CarveAllOK`,
`CarveFirstOK`) and joining a freed one with its neighbours (`JoinedOK`) keep `PoolOK`.
Then there is one lemma for each action. `NoSharedMemory` follows, as the buffers of two
marks lie in two used ranges, or in two blocks, or one of each. `KeepsBuffer` needs none of that and no
turns: `KeepInv` has the marks (`MarkInv`), and that a call under way has the mark of its
entry while the file does not use it (`HandleInv`).

**Their refinement.** The owner of a cell is a function of the entries and marks, because
no two filled entries have a cell in common (`OwnerFacts`). Every step then fills one
entry (`Get` of `BufferPool`), empties one (`Give`, or `Drop` by `freelock`), changes the
lock of one, or takes the mark from one that is locked (`Keep`), or changes no filled
entry at all (a stutter): each lemma of an action says which cells change their owner,
and that all others keep it.

Each invariant was checked by TLC on the instances of section 3 before it was proved.

**Only model-checked.** Liveness (`LocksOfTheDeadFreed`, `NeverStalls`, `Answered`,
`Delivered`, `EveryRequestServed`, `CallsEnd`): fairness and ENABLED are out of the
prover's reach. The two findings are counterexamples of TLC. No module declares a
RECURSIVE operator; induction over data, which no installed back end can instantiate, is
not needed.

## 7. Not modelled

* Payload, TLP formats, byte enables, and the text that the driver prints.
* The overflow of `lock_tag` after 2^32 grants.
* The thresholds of the FIFOs and `dma_busy_proc`: counters and comparisons without a
  partner that answers; planned with the pointers of `RingBuffer`.
* `dma_wait` and its watchdog, which polls the enable bit; `SingleShotComplete` says what
  it may conclude from it.
* Probe, Remove and `/proc` of the driver, other than `clearlock`: they run when a module
  is loaded or a card appears, and no call is open then.
* I2C and housekeeping: the queue of requests is a vendor FIFO, the rest is a state
  machine over bytes of the bus.
* Of `cmem_rcc`: `mmap`, SETUADDR, DUMP, the allocator of each NUMA node, alignments
  greater than a page. Of `strip_hdr`: the width of 512 bits, a `fromHostFifo` that is
  full. Of the completer: IO requests, hard reset, registers that the hardware changes,
  and which BAR a request names.
* A card that is reset or unplugged while it is in use, and errors of PCIe.
* Vendor cores (PCIe end point, FIFOs, clocks, crossbar): taken as their use in the code
  implies. `pc_pointer` and `evencycle_pc` change at one edge of a clock derived from
  `clk`, so `Sync` moves them together; without the extra register in `regSync250`
  (`dma_control.vhd:664`) they would come apart, which the slip `SyncApart` shows.
* Tools, generators, logging: sequential programs and text. The JavaScript under
  `wuppercodegen/doc/manual/html/_static` (jQuery, Underscore, the search of Sphinx) is
  third-party code that came with a rendered manual.

## 8. Plan

Done, in this order:

1. `LockManager`, `ResourceLocks`.
2. `RingBuffer`, `DmaEngine`.
3. `IntrCtrl`, `IrqDriver`.
4. `BufferPool`, `CmemBuffers`.
5. `FromHostReassembly`.
6. `RegisterFile`, `RegisterAccess`.
7. `WishboneBridge`, on what `AccessesApart` of `RegisterAccess` promises.

All their safety properties and refinements are proved.

Next modules:

8. `Interrupts`, composing `IntrCtrl`, `IrqDriver` and a FIFO: does an application that
   waits when it finds no data always wake up when data is there (the mask of the
   data-available call, `dma_control.vhd:609-617`)?
9. `BusyThreshold` over the pointers of `RingBuffer`; `FifoThresholds`; `DeviceNumbers`
   for Probe and Remove; the request queue of I2C; `dma_wait` with the watchdog flag that
   all objects share.

Next proofs: how far the conditions of section 6 can be weakened, where TLC finds that a
property still holds: `AccessesApart` and `ImplementsRegisterFile` for a ratio below six;
several endless descriptors beside a FromHost one that is stopped only at rest. Then
`OwnOutcome` from the theorem of `RegisterAccess` by composition, in place of the constant
`Apart`.

A run answers one question of the system. The violation runs stay as long as the code
has what they show; section 5 keeps the other counterexamples.

## 9. Running it

In this directory, with TLC and the community modules on the path:

    tlc -workers 2 -config MCResourceLocks_locked.cfg MCResourceLocks.tla
    tlc -workers 2 -config DmaEngine_tohost.cfg DmaEngine.tla
    tlapm ResourceLocksProofs.tla

Each `.cfg` is named after its module and its run. The passing runs take from a few
seconds to three minutes, the proofs of a module up to three.
