------------------------- MODULE FromHostReassembly -------------------------
(***************************************************************************)
(* The sorting memory for FromHost data: strip_hdr in                      *)
(* firmware/sources/pcie/dma_read_write.vhd, which writes the words of     *)
(* read completions into a memory of one 4 KiB page and hands them on to   *)
(* fromHostFifo in the order of their addresses, and the wait for the page *)
(* boundary of add_header, which keeps the requests to one page at a time. *)
(*                                                                         *)
(* A step is one clock.  A word is a number: its address in the memory is  *)
(* the remainder by Words, and the pages of a transfer get the next        *)
(* numbers, modulo Pages.  Requests are whole words long, and so are       *)
(* completions: the read completion boundary is a multiple of a word.      *)
(***************************************************************************)
EXTENDS Integers, Sequences, FiniteSets

CONSTANTS
  Words,     \* words in a page: 4096 bytes / DATA_WIDTH
  TlpWords,  \* words in a read request
  Sizes,     \* words in the buffers that the host has transferred
  Modes,     \* values of wrap_around that the host uses
  Patient,   \* TRUE: the host starts and stops when all has arrived
  Pauses,    \* may tvalid be low between the beats of a completion?
  MaxTags,   \* requests that can be outstanding
  Follow     \* bound: clocks followed after a reset in mid-transfer

Pages     == 3
Addresses == 0 .. Words - 1
Numbers   == 0 .. Pages * Words - 1

ASSUME PageAssumption ==
  /\ Words \in Nat \ {0, 1} /\ TlpWords \in Nat \ {0} /\ Words % TlpWords = 0
ASSUME HostAssumption ==
  /\ \A s \in Sizes : s \in Nat \ {0} /\ s % TlpWords = 0
  /\ Modes \subseteq BOOLEAN /\ Patient \in BOOLEAN
  /\ Pauses \in BOOLEAN /\ MaxTags \in Nat \ {0} /\ Follow \in Nat

VARIABLES
  enable, wrap_around, size,  \* the FromHost descriptor,
  at, next,       \* the words of the buffer requested so far, the next word,
  wait,           \* and wait_for_4k_boundary
  outstanding,    \* what the host's memory has still to answer: [first, count]
  beats, word,    \* beats to come of a completion, and the word they are in
  strip_state, rwc,                   \* what strip_hdr takes them for
  mem_wea, mem_addra, mem_dina, mem,  \* the write port and the memory
  mem_full, mem_full_p1,              \* flags of written words
  reading_mem, mem_addrb, clear,      \* the reader, clear_wait_for_4k_boundary
  due,            \* history: words requested and not handed on yet, in order;
  torn            \* clocks since a reset in mid-transfer, 0 if there was none

descriptor == <<enable, wrap_around, size>>
bus        == <<outstanding, beats, word>>
writer     == <<strip_state, rwc, mem_wea, mem_addra, mem_dina>>
vars == <<descriptor, at, next, wait, bus, writer, mem, mem_full,
          mem_full_p1, reading_mem, mem_addrb, clear, due, torn>>

Init ==
  /\ enable = FALSE /\ wrap_around = FALSE /\ size = TlpWords
  /\ at = 0 /\ next = 0 /\ wait = FALSE /\ outstanding = {}
  /\ beats = 0 /\ word = 0 /\ strip_state = "IDLE" /\ rwc = 0
  /\ mem_wea = FALSE /\ mem_addra = 0 /\ mem_dina = 0
  /\ mem = [a \in Addresses |-> 0]
  /\ mem_full = {} /\ mem_full_p1 = {}
  /\ reading_mem = FALSE /\ mem_addrb = 0 /\ clear = FALSE
  /\ due = <<>> /\ torn = 0

-----------------------------------------------------------------------------
\* The first word of the page after that of word n
NextPage(n) == ((n \div Words + 1) * Words) % (Pages * Words)

\* A slip: the end of the buffer is seen a request late.
EndsBufferLate == at = size

EndsBuffer == at + TlpWords = size

\* A slip: the end of a page is not looked for.
EndsBufferOnly == EndsBuffer

(* After the last request of a page, and after that of an endless DMA's    *)
(* buffer, the next address is the beginning of a page.                    *)
EndsPage == (at + TlpWords) % Words = 0 \/ (EndsBuffer /\ wrap_around)

\* A descriptor that is not enabled does not wait.
Wait4k == wait /\ enable

\* add_header in a clock in which it sends a read request ...
Ask ==
  /\ enable /\ ~Wait4k /\ Cardinality(outstanding) < MaxTags
  /\ at' = IF EndsBuffer THEN 0 ELSE at + TlpWords
  /\ next' = IF EndsBuffer THEN NextPage(next)
             ELSE (next + TlpWords) % (Pages * Words)
  /\ wait' = (EndsPage /\ ~clear)
  /\ enable' = (~EndsBuffer \/ wrap_around)
  /\ UNCHANGED <<wrap_around, size>>

\* ... and in one in which it does not
AskNot == wait' = (Wait4k /\ ~clear) /\ UNCHANGED <<descriptor, at, next>>

-----------------------------------------------------------------------------
(* The completions of a request come in order and in any parts, those of   *)
(* several requests in any order.  What is outstanding afterwards:         *)
Rest(c, k) ==
  (outstanding \ {c}) \cup
    (IF k = c.count THEN {} ELSE {[first |-> c.first + k, count |-> c.count - k]})

\* The bus: the header of a completion with k words of request c, ...
FirstBeat(c, k, asked) ==
  /\ beats = 0 /\ beats' = k /\ word' = c.first
  /\ outstanding' = Rest(c, k) \cup asked

\* ... the next beat of it, which completes a word, ...
NextBeat(asked) ==
  /\ beats > 0 /\ beats' = beats - 1 /\ word' = (word + 1) % (Pages * Words)
  /\ outstanding' = outstanding \cup asked

\* ... or no beat
NoBeat(asked) ==
  /\ beats = 0 \/ Pauses
  /\ outstanding' = outstanding \cup asked /\ UNCHANGED <<beats, word>>

-----------------------------------------------------------------------------
\* strip_hdr in IDLE without a beat, ...
NoCompletion ==
  /\ strip_state = "IDLE" /\ mem_wea' = FALSE
  /\ UNCHANGED <<strip_state, rwc, mem_addra, mem_dina>>

\* ... and with one, which it takes for the header of n words at address a
Header(a, n) ==
  /\ strip_state = "IDLE" /\ strip_state' = "PUSH_DATA"
  /\ rwc' = n /\ mem_addra' = a /\ mem_wea' = FALSE
  /\ UNCHANGED mem_dina

NextAddress == IF mem_wea THEN (mem_addra + 1) % Words ELSE mem_addra

(* PUSH_DATA: a beat completes a word, which is written in the next clock. *)
(* The clock after the last beat (tlast_pipe) counts as one.               *)
Pushes == rwc > 1 /\ beats > 0

Push ==
  /\ strip_state = "PUSH_DATA"
  /\ mem_wea' = TRUE /\ mem_dina' = word /\ mem_addra' = NextAddress
  /\ rwc' = (IF Pushes THEN rwc - 1 ELSE 0)
  /\ strip_state' = IF Pushes THEN "PUSH_DATA" ELSE "IDLE"

Pause ==
  /\ strip_state = "PUSH_DATA" /\ beats > 0 /\ mem_wea' = FALSE
  /\ UNCHANGED <<strip_state, rwc, mem_addra, mem_dina>>

\* A header comes where it is expected, or after a spoilt one.
Completion(asked) ==
  \E c \in outstanding : \E k \in 1 .. c.count :
    FirstBeat(c, k, asked) /\ (Header(c.first % Words, k) \/ Push)

\* After a reset the beats left of a completion are taken for a header.
Spoilt == \E a \in Addresses, n \in 1 .. TlpWords : Header(a, n)

Arrive(asked) == Completion(asked) \/ (NextBeat(asked) /\ (Push \/ Spoilt))

Silence(asked) ==
  NoBeat(asked) /\ (NoCompletion \/ Pause \/ (beats = 0 /\ Push))

-----------------------------------------------------------------------------
\* The reader looks at flags that are a clock old.
ReadsFirst == ~reading_mem /\ 0 \in mem_full_p1

ReadsNext == reading_mem /\ mem_addrb \in mem_full_p1
HandsOn   == ReadsFirst \/ ReadsNext

\* "if address 0 is written, go back immediately"
GoesBack == reading_mem /\ ~ReadsNext /\ 0 \in mem_full

\* A slip: the page does not end with its last word.
EndsMemoryNever == GoesBack

EndsMemory == (ReadsNext /\ mem_addrb = Words - 1) \/ GoesBack

\* At the end of a page clear_wait_for_4k_boundary lets add_header go on.
Read ==
  /\ clear' = EndsMemory
  /\ reading_mem' = (~EndsMemory /\ (HandsOn \/ reading_mem))
  /\ mem_addrb' = IF EndsMemory THEN 0
                  ELSE IF HandsOn THEN (mem_addrb + 1) % Words ELSE mem_addrb

Written == IF mem_wea THEN [mem EXCEPT ![mem_addra] = mem_dina] ELSE mem

Flags ==
  /\ mem_full' = (IF mem_wea THEN mem_full \cup {mem_addra} ELSE mem_full)
                   \ (IF HandsOn THEN {mem_addrb} ELSE {})
  /\ mem_full_p1' = mem_full
  /\ mem' = Written

Left == IF HandsOn /\ due # <<>> THEN Tail(due) ELSE due

Receive(answer, asked) == IF answer THEN Arrive(asked) ELSE Silence(asked)

ClockQuiet(answer) ==
  /\ Receive(answer, {}) /\ AskNot
  /\ Read /\ Flags /\ due' = Left

ClockAsk(answer) ==
  /\ Receive(answer, {[first |-> next, count |-> TlpWords]}) /\ Ask
  /\ Read /\ Flags
  /\ due' = IF torn > 0 THEN due ELSE Left \o [i \in 1 .. TlpWords |-> next + i - 1]

\* A clock, in which a beat of a completion arrives or none does
Clock(answer) ==
  /\ torn <= Follow /\ torn' = (IF torn = 0 THEN 0 ELSE torn + 1)
  /\ ClockQuiet(answer) \/ ClockAsk(answer)

-----------------------------------------------------------------------------
(* A patient host acts when all words have arrived.  Its write of a        *)
(* register needs more clocks to get here than the pulse of clear lasts.   *)
Quiet == Patient => due = <<>> /\ at = 0 /\ ~clear

\* dma_from_host
HostStart ==
  /\ ~enable /\ Quiet
  /\ enable' = TRUE /\ size' \in Sizes /\ wrap_around' \in Modes
  /\ UNCHANGED <<at, next, wait, bus, writer, mem, mem_full,
                 mem_full_p1, reading_mem, mem_addrb, clear, due, torn>>

\* dma_stop: the next transfer begins with a page of its own.
HostStop ==
  /\ enable /\ Quiet
  /\ enable' = FALSE /\ at' = 0
  /\ next' = IF next % Words = 0 THEN next ELSE NextPage(next)
  /\ UNCHANGED <<wrap_around, size, wait, bus, writer, mem, mem_full,
                 mem_full_p1, reading_mem, mem_addrb, clear, due, torn>>

(* dma_soft_reset, at any moment.  It leaves reading_mem as it is, and     *)
(* does not keep the bus from going on.                                    *)
SoftReset ==
  /\ \/ NoBeat({}) \/ NextBeat({})
     \/ \E c \in outstanding : \E k \in 1 .. c.count : FirstBeat(c, k, {})
  /\ strip_state' = "IDLE" /\ wait' = FALSE
  /\ mem_wea' = FALSE /\ mem_full' = {} /\ mem_addra' = 0 /\ mem_addrb' = 0
  /\ mem' = Written
  /\ torn' = (IF torn = 0 /\ (enable \/ due # <<>>) THEN 1 ELSE torn) /\ due' = <<>>
  /\ UNCHANGED <<descriptor, at, next, rwc, mem_dina, mem_full_p1, reading_mem, clear>>

Next ==
  \/ \E answer \in BOOLEAN : Clock(answer)
  \/ HostStart \/ HostStop \/ SoftReset

\* The clock runs, and the host's memory answers.
Spec ==
  /\ Init /\ [][Next]_vars
  /\ WF_vars(Clock(TRUE)) /\ WF_vars(Clock(TRUE) \/ Clock(FALSE))

-----------------------------------------------------------------------------
TypeOK ==
  /\ enable \in BOOLEAN /\ wrap_around \in BOOLEAN /\ size \in Sizes \cup {TlpWords}
  /\ at \in 0 .. size - 1 /\ next \in Numbers /\ wait \in BOOLEAN
  /\ outstanding \subseteq [first : Numbers, count : 1 .. TlpWords]
  /\ beats \in 0 .. TlpWords /\ word \in Numbers
  /\ strip_state \in {"IDLE", "PUSH_DATA"} /\ rwc \in 0 .. TlpWords
  /\ mem_wea \in BOOLEAN /\ mem_addra \in Addresses /\ mem_dina \in Numbers
  /\ mem \in [Addresses -> Numbers]
  /\ mem_full \subseteq Addresses /\ mem_full_p1 \subseteq Addresses
  /\ reading_mem \in BOOLEAN /\ mem_addrb \in Addresses /\ clear \in BOOLEAN
  /\ due \in Seq(Numbers) /\ torn \in 0 .. Follow + 1

(* "This memory sorts pages of 4KB into the correct order before they are  *)
(* passed to the FromHostFifo" (design.tex:159): in whatever order the     *)
(* completions come, the word handed on is the one requested first of      *)
(* those not handed on yet; none is lost, overwritten or handed on twice,  *)
(* until a reset tears a transfer apart.                                   *)
InOrder ==
  HandsOn /\ torn = 0 => due # <<>> /\ mem[mem_addrb] = Head(due)

(* Every word requested is handed on, and the wait for a page ends: the    *)
(* endless DMA never waits for a page that is complete, unless a reset has *)
(* thrown away some of its words.                                          *)
Delivered ==
  /\ due # <<>> ~> due = <<>>
  /\ wait ~> ~wait \/ torn > 0

=============================================================================
