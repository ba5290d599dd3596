---------------------------- MODULE LockManager ----------------------------
(***************************************************************************)
(* What WupperCard.h:288-318 promises of the resource lock bits: card_open *)
(* takes all the bits it asks for or none, a bit has one owner at a time,  *)
(* who gives all its bits up at once.  Who may make him give them up is    *)
(* HeldUntilClose of ResourceLocks.                                        *)
(***************************************************************************)
CONSTANTS Objects, Cards, Bits

VARIABLE granted    \* [object -> set of <<card, bit>>]

Init == granted = [o \in Objects |-> {}]

\* card_open( c, lock_mask ) succeeds
Grant(o, c, mask) ==
  /\ granted[o] = {} /\ mask # {}
  /\ \A x \in Objects : granted[x] \cap ({c} \X mask) = {}
  /\ granted' = [granted EXCEPT ![o] = {c} \X mask]

\* The bits of o are given up: card_close(), or the end of the process
Release(o) ==
  /\ granted[o] # {}
  /\ granted' = [granted EXCEPT ![o] = {}]

\* root writes "clearlock" to /proc/wupper
Clear == granted' = [o \in Objects |-> {}]

Next ==
  \/ Clear
  \/ \E o \in Objects :
       \/ \E c \in Cards, mask \in SUBSET Bits : Grant(o, c, mask)
       \/ Release(o)

Spec == Init /\ [][Next]_granted

=============================================================================
