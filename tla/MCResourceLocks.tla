-------------------------- MODULE MCResourceLocks --------------------------
(***************************************************************************)
(* Instances of ResourceLocks for TLC: object o1 belongs to one process,   *)
(* o2 and o3 to another.                                                   *)
(***************************************************************************)
EXTENDS ResourceLocks

CONSTANTS o1, o2, o3, b1, b2

MCObjects  == {o1, o2, o3}
MCTwo      == {o1, o2}
MCPidOf    == [o \in MCObjects |-> IF o = o1 THEN 1 ELSE 2]
MCPidOfTwo == [o \in MCTwo |-> IF o = o1 THEN 1 ELSE 2]

=============================================================================
