-------------------------- MODULE MCRegisterAccess --------------------------
(* Two lines of two words.  Of one line, a word is set and cleared and the *)
(* other is set; the other line must stay as it is.                        *)
EXTENDS RegisterAccess

MCRead(l, w) == [kind |-> "read", line |-> l, word |-> w, value |-> Zero]
MCWrite(l, w, v) == [kind |-> "write", line |-> l, word |-> w, value |-> v]

MCRequests ==
    {MCRead(l, w) : l \in Lines, w \in Words}
        \cup {MCWrite("a", "lo", v) : v \in Values}
        \cup {MCWrite("a", "hi", "one")}
        \cup {[MCRead("b", "hi") EXCEPT !.kind = k] : k \in {"unknown", "reset"}}
=============================================================================
