---------------------------- MODULE RegisterFile ----------------------------
(***************************************************************************)
(* What the register path promises the host: a table of registers that is  *)
(* used by one access at a time.  A write changes the one word it names,   *)
(* and nothing else, and raises the strobe of its line once; a read is     *)
(* answered once, with what the table holds; a request the end point does  *)
(* not know is answered with "unsupported" and touches nothing.            *)
(***************************************************************************)
EXTENDS Integers

CONSTANTS
    Requests,   \* records with fields kind, line, word and value
    None,       \* stands for no request
    Start       \* the table after a reset

VARIABLES
    file,       \* line -> word -> value
    open,       \* the request that was taken and is not served yet, or None
    answer,     \* the last answer: its parity and its value
    strobe      \* line -> parity of the strobes given so far

vars == <<file, open, answer, strobe>>

Init ==
    /\ file = Start
    /\ open = None
    /\ answer = [parity |-> 0, value |-> "none"]
    /\ strobe = [l \in DOMAIN Start |-> 0]

\* The next request may be taken in the same clock in which one is served.
Leave == open' \in Requests \cup {None}

Ask ==
    /\ open = None
    /\ open' \in Requests
    /\ UNCHANGED <<file, answer, strobe>>

Reply(value) == answer' = [parity |-> 1 - answer.parity, value |-> value]

Read ==
    /\ open # None
    /\ open.kind = "read"
    /\ Reply(file[open.line][open.word])
    /\ Leave
    /\ UNCHANGED <<file, strobe>>

Refuse ==
    /\ open # None
    /\ open.kind = "unknown"
    /\ Reply("unsupported")
    /\ Leave
    /\ UNCHANGED <<file, strobe>>

Write ==
    /\ open # None
    /\ open.kind = "write"
    /\ file' = [file EXCEPT ![open.line][open.word] = open.value]
    /\ strobe' = [strobe EXCEPT ![open.line] = 1 - @]
    /\ Leave
    /\ UNCHANGED answer

\* The register that resets the register map.
Clear ==
    /\ open # None
    /\ open.kind = "reset"
    /\ file' = Start
    /\ Leave
    /\ UNCHANGED <<answer, strobe>>

Next == Ask \/ Read \/ Refuse \/ Write \/ Clear

Spec == Init /\ [][Next]_vars
=============================================================================
