----------------------------- MODULE BufferPool -----------------------------
(***************************************************************************)
(* What cmem_rcc promises its callers: a buffer is memory that nobody else *)
(* has; it belongs to the file that got it until that file frees it or is  *)
(* closed, and a locked buffer outlives its file.                          *)
(***************************************************************************)
CONSTANTS Files, Cells

VARIABLES
  owner,   \* [cell -> the file that has it, "free", or "kept" by the driver]
  locked   \* cells of locked buffers

vars == <<owner, locked>>

Init == owner = [c \in Cells |-> "free"] /\ locked = {}

Move(S, from, to) ==
  /\ S # {} /\ \A c \in S : owner[c] = from
  /\ owner' = [c \in Cells |-> IF c \in S THEN to ELSE owner[c]]

Get(f, S)  == Move(S, "free", f) /\ UNCHANGED locked

\* CMEM_SegmentFree, or the end of the file: locked memory is not freed.
Give(f, S) == S \cap locked = {} /\ Move(S, f, "free") /\ UNCHANGED locked

\* The end of the file leaves locked buffers behind.
Keep(f, S) == S \subseteq locked /\ Move(S, f, "kept") /\ UNCHANGED locked

\* Only root's "freelock" gives them back.
Drop(S) == Move(S, "kept", "free") /\ locked' = locked \ S

Lock(f, S) ==
  /\ S # {} /\ \A c \in S : owner[c] = f
  /\ locked' \in {locked \cup S, locked \ S}
  /\ UNCHANGED owner

Next ==
  \E S \in SUBSET Cells :
    \/ \E f \in Files : Get(f, S) \/ Give(f, S) \/ Keep(f, S) \/ Lock(f, S)
    \/ Drop(S)

Spec == Init /\ [][Next]_vars

=============================================================================
