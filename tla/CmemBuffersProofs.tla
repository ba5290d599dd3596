------------------------- MODULE CmemBuffersProofs -------------------------
(***************************************************************************)
(* Proofs about CmemBuffers, for any number of files, entries, pages and   *)
(* ranges.  While files use their own handles and "freelock" comes while   *)
(* no file is open, a buffer stays until its file frees it or ends.  While *)
(* one file at a time uses the pool besides, no two buffers share memory,  *)
(* the lists of the pool lose no page, and the driver implements           *)
(* BufferPool.                                                             *)
(***************************************************************************)
EXTENDS CmemBuffers, WellFoundedInduction, TLAPS

\* What the callers see to: they use their own handles, and nobody gives the
\* buffers of an open file away; and, for what is said of the memory, they
\* take turns at the pool.
Private == ~Foreign /\ Freelock # "always"
Careful == Serial /\ Private

-----------------------------------------------------------------------------
(* The inductive invariant.                                                *)

Listed(q) == q.free \cup q.used

\* Ranges r and s have no page in common.
Disjoint(r, s) == End(r) <= s.base \/ End(s) <= r.base

(* The ranges of the two lists are not empty, lie within the pool, are     *)
(* disjoint, cover it, and two free ones do not touch.                     *)
PoolOK(q) ==
  /\ q \in [free : SUBSET Nodes, used : SUBSET Nodes,
            rng : [Nodes -> [base : Int, size : Int]]]
  /\ q.free \cap q.used = {}
  /\ \A n \in Listed(q) :
       0 <= q.rng[n].base /\ 1 <= q.rng[n].size /\ End(q.rng[n]) <= PoolSize
  /\ \A m, n \in Listed(q) : m # n => Disjoint(q.rng[m], q.rng[n])
  /\ \A p \in Pages : \E n \in Listed(q) : q.rng[n].base <= p /\ p < End(q.rng[n])
  /\ \A m, n \in q.free : End(q.rng[m]) # q.rng[n].base

RangesInv == PoolOK(pool)

\* An entry without memory is as Empty is, but for used and locked.
EntryInv ==
  \A h \in Handles : LET e == buffer_table[h] IN
    /\ e.type = "none" => e.kaddr = NULL /\ e.size = 0
    /\ e.type # "none" => e.used
    /\ e.type = "GFP" => e.kaddr \in kernel /\ e.size = 1

\* Marks: an entry has one file at most, and what files got is theirs.
MarkInv ==
  /\ \A f \in Files : buffer[f] \subseteq {h \in Handles : buffer_table[h].used}
  /\ \A f, g \in Files : f # g => buffer[f] \cap buffer[g] = {}
  /\ \A f \in Files : call[f].pc = "closed" => buffer[f] = {}
  /\ \A f \in Files : call[f].pc \in {"closed", "release"} =>
       \A h \in Handles : got[f][h] = {}
  /\ KeepsBuffer

\* What a call that is under way may rely on
CallOK(f) ==
  LET c == call[f] e == buffer_table[c.h] IN
  /\ c.pc \in {"reserved", "found", "allocated", "lock", "unlock", "free"} =>
       c.h \in buffer[f]
  /\ c.pc \in {"reserved", "found", "allocated"} => e.type = "none"
  /\ c.pc \in {"reserved", "found", "allocated"} /\ c.type = "BPA" => 1 <= c.count
  /\ c.pc \in {"lock", "unlock"} => got[f][c.h] # {}
  /\ c.pc = "free" => got[f][c.h] = {} /\ ~e.locked
  /\ c.pc = "found" =>
       /\ c.type = "BPA" /\ c.range \in pool.free
       /\ c.base = pool.rng[c.range].base /\ c.count <= pool.rng[c.range].size
       /\ c.spare <=> c.count < pool.rng[c.range].size
  /\ c.pc = "allocated" => c.type # "none"
  /\ c.pc = "allocated" /\ c.type = "GFP" => c.base \in kernel /\ c.count = 1

CallInv == \A f \in Files : CallOK(f)

\* Between the search of the pool and its change the file has it to itself.
SerialInv ==
  \A f, g \in Files :
    /\ call[f].pc = "found" /\ call[g].pc = "found" => f = g
    /\ ~(call[f].pc = "found" /\ call[g].pc = "release")

\* The memory of each holder is a used range of its own, or a block.
HolderInv ==
  /\ \A h \in Handles : buffer_table[h].type = "BPA" =>
       \E n \in pool.used :
         pool.rng[n] = [base |-> buffer_table[h].kaddr, size |-> buffer_table[h].size]
  /\ \A f \in Files : call[f].pc = "allocated" /\ call[f].type = "BPA" =>
       \E n \in pool.used : pool.rng[n] = [base |-> call[f].base, size |-> call[f].count]
  /\ \A n \in pool.used : HasMemory(pool.rng[n].base, pool.rng[n].size)
  /\ \A h, k \in Handles :
       buffer_table[h].type # "none" /\ buffer_table[k].type # "none" /\ h # k =>
         buffer_table[h].kaddr # buffer_table[k].kaddr
  /\ \A h \in Handles, f \in Files :
       buffer_table[h].type # "none" /\ call[f].pc = "allocated" =>
         buffer_table[h].kaddr # call[f].base
  /\ \A f, g \in Files :
       call[f].pc = "allocated" /\ call[g].pc = "allocated" /\ f # g =>
         call[f].base # call[g].base

CareInv ==
  TypeOK /\ RangesInv /\ EntryInv /\ MarkInv /\ CallInv /\ SerialInv /\ HolderInv

-----------------------------------------------------------------------------
(* The lowest of a set of numbers, and the first range that fits           *)

LEMMA NatMin ==
  ASSUME NEW S, S \subseteq Nat, S # {}
  PROVE  \E x \in S : \A y \in S : x <= y
<1>1. \E R : IsWellFoundedOn(R, Nat) /\ \A x, y \in Nat : y < x => <<y, x>> \in R
  <2> DEFINE R == OpToRel(<, Nat)
  <2>1. IsWellFoundedOn(R, Nat) BY NatLessThanWellFounded
  <2>2. \A x, y \in Nat : y < x => <<y, x>> \in R BY DEF OpToRel
  <2> HIDE DEF R
  <2> QED BY <2>1, <2>2
<1>2. PICK R : IsWellFoundedOn(R, Nat) /\ \A x, y \in Nat : y < x => <<y, x>> \in R
  BY <1>1
<1>3. PICK x \in S : \A y \in S : ~(<<y, x>> \in R)
  BY <1>2, WFMin
<1>4. ASSUME NEW y \in S PROVE x <= y
  <2>1. x \in Nat /\ y \in Nat /\ ~(<<y, x>> \in R) BY <1>3, <1>4
  <2>2. ~(y < x) BY <2>1, <1>2
  <2> QED BY <2>1, <2>2
<1> QED BY <1>4

LEMMA LowestIn ==
  ASSUME NEW S, S \subseteq Nat, S # {}
  PROVE  Lowest(S) \in S
BY NatMin DEF Lowest

LEMMA FirstFits ==
  ASSUME PoolOK(pool), NEW count, Fitting(count) # {}
  PROVE  FirstFit(count) \in Fitting(count)
<1> DEFINE B == {pool.rng[n].base : n \in Fitting(count)}
<1>1. \A n \in Fitting(count) : n \in Nodes /\ pool.rng[n].base \in Nat
  BY DEF PoolOK, Fitting, Listed
<1>2. PICK x \in B : \A y \in B : x <= y
  BY <1>1, NatMin
<1>3. PICK n \in Fitting(count) : x = pool.rng[n].base
  BY <1>2
<1>4. \A m \in Fitting(count) : pool.rng[n].base <= pool.rng[m].base
  BY <1>2, <1>3
<1> QED BY <1>4 DEF FirstFit

-----------------------------------------------------------------------------
(* A used range that is given back, and one that is cut from a free one,   *)
(* leave the pool in order.                                                *)

LEMMA JoinedOK ==
  ASSUME PoolOK(pool), NEW r \in pool.used
  PROVE  /\ PoolOK(Joined(r))
         /\ Joined(r).used = pool.used \ {r}
         /\ \A n \in pool.used \ {r} : Joined(r).rng[n] = pool.rng[n]
<1> DEFINE rng  == pool.rng
           next == {n \in pool.free : rng[n].base = End(rng[r])}
           prev == {n \in pool.free : End(rng[n]) = rng[r].base}
           head == IF prev = {} THEN r ELSE Lowest(prev)
           end  == IF next = {} THEN End(rng[r]) ELSE End(rng[Lowest(next)])
           gone == (next \cup {r}) \ {head}
           q    == Joined(r)
<1>1. /\ pool.free \subseteq Nodes /\ pool.used \subseteq Nodes
      /\ pool.free \cap pool.used = {}
      /\ \A n \in Nodes : rng[n] \in [base : Int, size : Int]
  BY DEF PoolOK
<1>2. \A n \in pool.free \cup pool.used :
        0 <= rng[n].base /\ 1 <= rng[n].size /\ End(rng[n]) <= PoolSize
  BY DEF PoolOK, Listed
<1>3. \A m, n \in pool.free \cup pool.used : m # n => Disjoint(rng[m], rng[n])
  BY DEF PoolOK, Listed
<1>4. \A p \in Pages : \E n \in pool.free \cup pool.used : rng[n].base <= p /\ p < End(rng[n])
  BY DEF PoolOK, Listed
<1>5. \A m, n \in pool.free : End(rng[m]) # rng[n].base
  BY DEF PoolOK
<1>6. \/ prev = {} /\ head = r
      \/ head \in prev
  <2>1. prev \subseteq Nat BY <1>1, NodesAssumption
  <2> HIDE DEF prev
  <2>2. CASE prev = {} BY <2>2
  <2>3. CASE prev # {} BY <2>1, <2>3, LowestIn
  <2> QED BY <2>2, <2>3
<1>7. \/ next = {} /\ end = End(rng[r])
      \/ \E x \in next : end = End(rng[x])
  <2>1. next \subseteq Nat BY <1>1, NodesAssumption
  <2> HIDE DEF next
  <2>2. CASE next = {} BY <2>2
  <2>3. CASE next # {} BY <2>1, <2>3, LowestIn
  <2> QED BY <2>2, <2>3
<1>8. \A m, n \in next : m = n
  BY <1>1, <1>2, <1>3 DEF Disjoint, End
<1>9. \A m, n \in prev : m = n
  BY <1>1, <1>2, <1>3 DEF Disjoint, End
<1>10. /\ q = [free |-> (pool.free \ next) \cup {head},
               used |-> pool.used \ {r},
               rng  |-> [n \in Nodes |->
                    IF n = head THEN [base |-> rng[n].base, size |-> end - rng[n].base]
                    ELSE IF n \in gone THEN NoRange ELSE rng[n]]]
  BY DEF Joined
<1>11. /\ next \subseteq pool.free /\ \A n \in next : rng[n].base = End(rng[r])
       /\ prev \subseteq pool.free /\ \A n \in prev : End(rng[n]) = rng[r].base
       /\ \A n \in pool.free \ next : rng[n].base # End(rng[r])
       /\ \A n \in pool.free \ prev : End(rng[n]) # rng[r].base
       /\ gone = (next \cup {r}) \ {head}
  OBVIOUS
<1> HIDE DEF next, prev, head, end, gone, q
<1>12. head \notin next /\ head \in Nodes /\ head \notin pool.used \ {r}
  BY <1>1, <1>2, <1>6, <1>11 DEF End
\* The new range begins where head began, and ends with the last of the three.
<1>13. /\ \A n \in Nodes : rng[n].base \in Int /\ rng[n].size \in Int /\ End(rng[n]) \in Int
       /\ end \in Int /\ r \in Nodes
  BY <1>1, <1>7, <1>11 DEF End
<1>14. /\ 0 <= rng[head].base /\ rng[head].base <= rng[r].base
       /\ End(rng[r]) <= end /\ end <= PoolSize /\ rng[r].base < End(rng[r])
  <2>1. rng[r].base < End(rng[r]) BY <1>1, <1>2, <1>13 DEF End
  <2>2. 0 <= rng[head].base /\ rng[head].base <= rng[r].base
    BY <1>1, <1>2, <1>6, <1>11, <1>13 DEF End
  <2>3. End(rng[r]) <= end /\ end <= PoolSize
    BY <1>1, <1>2, <1>7, <1>11, <1>13 DEF End
  <2> QED BY <2>1, <2>2, <2>3
<1>15. /\ q.free = (pool.free \ next) \cup {head}
       /\ q.used = pool.used \ {r}
       /\ q.rng \in [Nodes -> [base : Int, size : Int]]
       /\ q.rng[head].base = rng[head].base /\ End(q.rng[head]) = end
       /\ q.rng[head].size = end - rng[head].base
       /\ \A n \in Nodes \ (next \cup {r, head}) : q.rng[n] = rng[n]
  BY <1>1, <1>10, <1>11, <1>12, <1>13 DEF End, NoRange, NULL
<1>16. q.free \cap q.used = {}
  BY <1>1, <1>12, <1>15
<1>17. ASSUME NEW n \in Listed(q), n # head
       PROVE  /\ n \in Listed(pool) /\ n \in Nodes \ (next \cup {r, head})
              /\ q.rng[n] = rng[n]
  BY <1>1, <1>11, <1>15, <1>17 DEF Listed
<1>18. ASSUME NEW n \in Listed(q)
       PROVE  0 <= q.rng[n].base /\ 1 <= q.rng[n].size /\ End(q.rng[n]) <= PoolSize
  <2>1. CASE n = head BY <2>1, <1>12, <1>13, <1>14, <1>15
  <2>2. CASE n # head BY <2>2, <1>2, <1>17 DEF Listed
  <2> QED BY <2>1, <2>2
\* A range that is disjoint from the pieces is disjoint from their union.
<1>19. ASSUME NEW n \in Listed(q), n # head
       PROVE  End(rng[n]) <= rng[head].base \/ end <= rng[n].base
  <2>1. n \in Listed(pool) /\ n # r /\ n \notin next /\ n \in Nodes BY <1>17, <1>19
  <2>2. Disjoint(rng[n], rng[r]) BY <1>3, <2>1 DEF Listed
  <2>3. CASE End(rng[n]) <= rng[r].base
    <3>1. CASE head = r BY <2>3, <3>1
    <3>2. CASE head # r
      <4>1. head \in prev BY <1>6, <3>2
      <4>2. Disjoint(rng[n], rng[head]) BY <1>3, <1>11, <1>19, <2>1, <4>1 DEF Listed
      <4>3. End(rng[head]) = rng[r].base BY <1>11, <4>1
      <4>4. 1 <= rng[n].size BY <1>2, <2>1 DEF Listed
      <4> QED BY <1>12, <1>13, <2>1, <2>3, <4>2, <4>3, <4>4 DEF Disjoint, End
    <3> QED BY <3>1, <3>2
  <2>4. CASE End(rng[r]) <= rng[n].base
    <3>1. CASE end = End(rng[r]) BY <2>4, <3>1
    <3>2. CASE end # End(rng[r])
      <4>1. PICK x \in next : end = End(rng[x]) BY <1>7, <3>2
      <4>2. Disjoint(rng[n], rng[x]) BY <1>3, <1>11, <2>1, <4>1 DEF Listed
      <4>3. rng[x].base = End(rng[r]) BY <1>11, <4>1
      <4>4. 1 <= rng[n].size BY <1>2, <2>1 DEF Listed
      <4>5. x \in Nodes BY <1>1, <1>11, <4>1
      <4> QED BY <1>13, <2>1, <2>4, <4>1, <4>2, <4>3, <4>4, <4>5 DEF Disjoint, End
    <3> QED BY <3>1, <3>2
  <2> QED BY <2>2, <2>3, <2>4 DEF Disjoint
<1>20. ASSUME NEW m \in Listed(q), NEW n \in Listed(q), m # n
       PROVE  Disjoint(q.rng[m], q.rng[n])
  <2>1. CASE m = head BY <2>1, <1>15, <1>17, <1>19, <1>20 DEF Disjoint
  <2>2. CASE n = head BY <2>2, <1>15, <1>17, <1>19, <1>20 DEF Disjoint
  <2>3. CASE m # head /\ n # head BY <2>3, <1>3, <1>17, <1>20 DEF Listed
  <2> QED BY <2>1, <2>2, <2>3
<1>21. ASSUME NEW p \in Pages
       PROVE  \E n \in Listed(q) : q.rng[n].base <= p /\ p < End(q.rng[n])
  <2>1. PICK n \in Listed(pool) : rng[n].base <= p /\ p < End(rng[n])
    BY <1>4 DEF Listed
  <2>2. n \in Nodes /\ p \in Int BY <1>1, <2>1 DEF Listed, Pages
  <2>3. head \in Listed(q) BY <1>15 DEF Listed
  <2>4. CASE n \in Nodes \ (next \cup {r, head})
    BY <2>1, <2>2, <2>4, <1>15 DEF Listed
  <2>5. CASE n = head \/ n = r \/ n \in next
    <3>1. rng[head].base <= rng[n].base
      <4>1. CASE n \in {head, r} BY <4>1, <1>12, <1>13, <1>14
      <4>2. CASE n \in next BY <4>2, <1>11, <1>12, <1>13, <1>14, <2>2
      <4> QED BY <2>5, <4>1, <4>2
    <3>2. End(rng[n]) <= end
      <4>1. CASE n = r BY <4>1, <1>14
      <4>2. CASE n \in next BY <4>2, <1>7, <1>8, <1>13, <2>2
      <4>3. CASE n = head /\ n # r
        BY <4>3, <1>6, <1>11, <1>12, <1>13, <1>14, <2>2
      <4> QED BY <2>5, <4>1, <4>2, <4>3
    <3> QED BY <1>12, <1>13, <1>15, <2>1, <2>2, <2>3, <3>1, <3>2
  <2> QED BY <2>2, <2>4, <2>5
<1>22. ASSUME NEW m \in q.free, NEW n \in q.free
       PROVE  End(q.rng[m]) # q.rng[n].base
  <2>1. m \in Listed(q) /\ n \in Listed(q) BY DEF Listed
  <2>2. CASE m = head /\ n = head BY <2>2, <1>12, <1>13, <1>14, <1>15
  <2>3. CASE m = head /\ n # head
    <3>1. n \in pool.free \ next /\ q.rng[n] = rng[n] BY <2>1, <2>3, <1>15, <1>17
    <3>2. CASE end = End(rng[r]) BY <2>3, <3>1, <3>2, <1>11, <1>15
    <3>3. CASE end # End(rng[r])
      BY <2>3, <3>1, <3>3, <1>5, <1>7, <1>11, <1>15
    <3> QED BY <3>2, <3>3
  <2>4. CASE m # head /\ n = head
    <3>1. m \in pool.free \ next /\ q.rng[m] = rng[m] BY <2>1, <2>4, <1>15, <1>17
    <3>2. CASE head = r
      <4>1. prev = {} BY <1>1, <1>6, <1>11, <3>2
      <4> QED BY <2>4, <3>1, <3>2, <4>1, <1>11, <1>15
    <3>3. CASE head # r BY <2>4, <3>1, <3>3, <1>5, <1>6, <1>11, <1>15
    <3> QED BY <3>2, <3>3
  <2>5. CASE m # head /\ n # head
    BY <2>1, <2>5, <1>5, <1>15, <1>17
  <2> QED BY <2>2, <2>3, <2>4, <2>5
<1>23. PoolOK(q)
  <2>1. q \in [free : SUBSET Nodes, used : SUBSET Nodes,
               rng : [Nodes -> [base : Int, size : Int]]]
    BY <1>1, <1>10, <1>12, <1>15
  <2> QED BY <2>1, <1>16, <1>18, <1>20, <1>21, <1>22 DEF PoolOK
<1>24. \A n \in pool.used \ {r} : q.rng[n] = rng[n]
  BY <1>1, <1>11, <1>12, <1>15
<1> QED BY <1>15, <1>23, <1>24 DEF q

\* A free range that fits becomes a used one.
LEMMA CarveAllOK ==
  ASSUME PoolOK(pool), NEW n \in pool.free
  PROVE  PoolOK([pool EXCEPT !.free = @ \ {n}, !.used = @ \cup {n}])
<1> DEFINE q == [pool EXCEPT !.free = @ \ {n}, !.used = @ \cup {n}]
<1>0. pool \in [free : SUBSET Nodes, used : SUBSET Nodes,
               rng : [Nodes -> [base : Int, size : Int]]]
  BY DEF PoolOK
<1>1. /\ q \in [free : SUBSET Nodes, used : SUBSET Nodes,
               rng : [Nodes -> [base : Int, size : Int]]]
      /\ q.free = pool.free \ {n} /\ q.used = pool.used \cup {n} /\ q.rng = pool.rng
  BY <1>0
<1>2. Listed(q) = Listed(pool) BY <1>1 DEF Listed
<1> HIDE DEF q
<1>3. PoolOK(q) BY <1>1, <1>2 DEF PoolOK
<1> QED BY <1>3 DEF q

\* A range that is larger gives its first pages to a new one: p is the pool before, q after.
Cut(p, q, n, new, count) ==
  /\ n \in p.free /\ new \in Nodes \ Listed(p)
  /\ count \in Nat \ {0} /\ count < p.rng[n].size
  /\ q \in [free : SUBSET Nodes, used : SUBSET Nodes,
            rng : [Nodes -> [base : Int, size : Int]]]
  /\ q.free = p.free /\ q.used = p.used \cup {new}
  /\ q.rng = [p.rng EXCEPT
                ![new] = [base |-> p.rng[n].base, size |-> count],
                ![n] = [base |-> p.rng[n].base + count,
                        size |-> End(p.rng[n]) - p.rng[n].base - count]]

LEMMA CarveFirstOK ==
  ASSUME PoolOK(pool), NEW n, NEW new, NEW count, NEW q, Cut(pool, q, n, new, count)
  PROVE  PoolOK(q)
<1> DEFINE rng == pool.rng
<1> USE DEF Cut
<1>1. /\ pool.free \subseteq Nodes /\ pool.used \subseteq Nodes
      /\ pool.free \cap pool.used = {}
      /\ \A m \in Nodes : rng[m] \in [base : Int, size : Int]
      /\ rng \in [Nodes -> [base : Int, size : Int]]
  BY DEF PoolOK
<1>2. n \in Nodes /\ new \in Nodes /\ n # new /\ n \in Listed(pool) /\ new \notin Listed(pool)
  BY <1>1 DEF Listed
<1>3. /\ q.rng \in [Nodes -> [base : Int, size : Int]]
      /\ q.rng[new] = [base |-> rng[n].base, size |-> count]
      /\ q.rng[n] = [base |-> rng[n].base + count, size |-> rng[n].size - count]
      /\ \A m \in Nodes \ {new, n} : q.rng[m] = rng[m]
  BY <1>1, <1>2 DEF End
<1>4. Listed(q) = Listed(pool) \cup {new} BY <1>3 DEF Listed
<1>5. /\ q.free = pool.free /\ q.used = pool.used \cup {new}
  BY <1>3
<1>6. \A m \in Listed(pool) :
        m \in Nodes /\ rng[m].base \in Int /\ rng[m].size \in Int
        /\ 0 <= rng[m].base /\ 1 <= rng[m].size /\ End(rng[m]) <= PoolSize
  BY <1>1 DEF PoolOK, Listed
<1>7. /\ q.rng[new].base = rng[n].base /\ q.rng[new].size = count
      /\ q.rng[n].base = rng[n].base + count /\ q.rng[n].size = rng[n].size - count
      /\ End(q.rng[new]) = rng[n].base + count /\ End(q.rng[n]) = End(rng[n])
  <2>1. /\ q.rng[new].base = rng[n].base /\ q.rng[new].size = count
        /\ q.rng[n].base = rng[n].base + count /\ q.rng[n].size = rng[n].size - count
    BY <1>3
  <2>2. rng[n].base \in Int /\ rng[n].size \in Int BY <1>2, <1>6
  <2> QED BY <2>1, <2>2 DEF End
<1>8. \A m \in Listed(pool) \ {n} : q.rng[m] = rng[m] /\ Disjoint(rng[m], rng[n])
  BY <1>2, <1>3, <1>6 DEF PoolOK
<1>9. ASSUME NEW m \in Listed(q)
      PROVE  0 <= q.rng[m].base /\ 1 <= q.rng[m].size /\ End(q.rng[m]) <= PoolSize
  <2>1. CASE m = new BY <2>1, <1>2, <1>6, <1>7, TableAssumption DEF End
  <2>3. CASE m = n BY <2>3, <1>2, <1>6, <1>7, TableAssumption DEF End
  <2>2. CASE m \in Listed(pool) \ {n} BY <2>2, <1>6, <1>8
  <2> QED BY <2>1, <2>2, <2>3, <1>4
<1>10. ASSUME NEW m \in Listed(pool) \ {n}
       PROVE  /\ Disjoint(q.rng[m], q.rng[n]) /\ Disjoint(q.rng[n], q.rng[m])
              /\ Disjoint(q.rng[m], q.rng[new]) /\ Disjoint(q.rng[new], q.rng[m])
  <2>1. q.rng[m] = rng[m] /\ Disjoint(rng[m], rng[n])
    BY <1>8, <1>10
  <2>2. /\ rng[m].base \in Int /\ rng[m].size \in Int
        /\ rng[n].base \in Int /\ rng[n].size \in Int
    BY <1>2, <1>6, <1>10
  <2>3. 1 <= count /\ count < rng[n].size /\ count \in Int
    BY <2>2 DEF Cut
  <2> HIDE DEF Cut
  <2> QED BY <1>7, <2>1, <2>2, <2>3 DEF Disjoint, End
<1>11. Disjoint(q.rng[n], q.rng[new]) /\ Disjoint(q.rng[new], q.rng[n])
  BY <1>2, <1>6, <1>7 DEF Disjoint
<1>12. ASSUME NEW l \in Listed(q), NEW m \in Listed(q), l # m
       PROVE  Disjoint(q.rng[l], q.rng[m])
  <2>1. CASE l \in {n, new} \/ m \in {n, new}
    BY <2>1, <1>4, <1>10, <1>11, <1>12
  <2>2. CASE l \notin {n, new} /\ m \notin {n, new}
    BY <2>2, <1>4, <1>8, <1>12 DEF PoolOK
  <2> QED BY <2>1, <2>2
<1>13. ASSUME NEW p \in Pages
       PROVE  \E m \in Listed(q) : q.rng[m].base <= p /\ p < End(q.rng[m])
  <2>1. PICK m \in Listed(pool) : rng[m].base <= p /\ p < End(rng[m])
    BY DEF PoolOK
  <2>2. CASE m # n BY <2>1, <2>2, <1>4, <1>8
  <2>3. CASE m = n
    BY <2>1, <2>3, <1>2, <1>4, <1>6, <1>7 DEF Pages
  <2> QED BY <2>2, <2>3
<1>14. ASSUME NEW l \in q.free, NEW m \in q.free
       PROVE  End(q.rng[l]) # q.rng[m].base
  <2>1. l \in Listed(pool) /\ m \in Listed(pool) BY <1>5 DEF Listed
  <2>2. End(rng[l]) # rng[m].base BY <1>5 DEF PoolOK
  <2>3. CASE m # n /\ l # n BY <2>1, <2>2, <2>3, <1>8
  <2>4. CASE m # n /\ l = n BY <2>1, <2>2, <2>4, <1>7, <1>8
  <2>5. CASE m = n /\ l # n
    BY <2>1, <2>5, <1>6, <1>7, <1>8 DEF Disjoint, End
  <2>6. CASE m = n /\ l = n
    <3>1. rng[n].base \in Int /\ rng[n].size \in Int BY <1>2, <1>6
    <3>2. End(rng[n]) = rng[n].base + rng[n].size BY DEF End
    <3> QED BY <2>6, <3>1, <3>2, <1>7
  <2> QED BY <2>3, <2>4, <2>5, <2>6
<1>15. q.free \cap q.used = {} BY <1>1, <1>5 DEF Listed
<1>16. q \in [free : SUBSET Nodes, used : SUBSET Nodes,
             rng : [Nodes -> [base : Int, size : Int]]]
  BY <1>1, <1>3
<1>17. PoolOK(q) BY <1>9, <1>12, <1>13, <1>14, <1>15, <1>16 DEF PoolOK
<1> QED BY <1>17

-----------------------------------------------------------------------------
(* Where the memory of holders lies, and what keeps HolderInv.             *)

LEMMA HolderCells ==
  ASSUME TypeOK, RangesInv, HolderInv
  PROVE  /\ \A n \in pool.used :
              /\ n \in Nodes /\ pool.rng[n].base \in Nat /\ pool.rng[n].size \in Nat \ {0}
              /\ pool.rng[n].base + pool.rng[n].size <= PoolSize
         /\ \A h \in Handles : buffer_table[h].type = "BPA" =>
              /\ buffer_table[h].kaddr \in Nat /\ buffer_table[h].size \in Nat \ {0}
              /\ buffer_table[h].kaddr + buffer_table[h].size <= PoolSize
         /\ \A f \in Files : call[f].pc = "allocated" /\ call[f].type = "BPA" =>
              /\ call[f].base \in Nat /\ call[f].count \in Nat \ {0}
              /\ call[f].base + call[f].count <= PoolSize
<1>1. \A n \in pool.used :
        /\ n \in Nodes /\ pool.rng[n].base \in Nat /\ pool.rng[n].size \in Nat \ {0}
        /\ pool.rng[n].base + pool.rng[n].size <= PoolSize
  <2> SUFFICES ASSUME NEW n \in pool.used
      PROVE /\ n \in Nodes /\ pool.rng[n].base \in Nat /\ pool.rng[n].size \in Nat \ {0}
            /\ pool.rng[n].base + pool.rng[n].size <= PoolSize
    OBVIOUS
  <2>1. n \in Nodes /\ pool.rng[n].base \in Int /\ pool.rng[n].size \in Int
    BY DEF RangesInv, PoolOK
  <2>2. 0 <= pool.rng[n].base /\ 1 <= pool.rng[n].size /\ End(pool.rng[n]) <= PoolSize
    BY DEF RangesInv, PoolOK, Listed
  <2> QED BY <2>1, <2>2, TableAssumption DEF End
<1>2. ASSUME NEW h \in Handles, buffer_table[h].type = "BPA"
      PROVE  \E n \in pool.used : /\ pool.rng[n].base = buffer_table[h].kaddr
                                 /\ pool.rng[n].size = buffer_table[h].size
  <2>1. PICK n \in pool.used :
          pool.rng[n] = [base |-> buffer_table[h].kaddr, size |-> buffer_table[h].size]
    BY <1>2 DEF HolderInv
  <2> QED BY <2>1
<1>3. ASSUME NEW f \in Files, call[f].pc = "allocated", call[f].type = "BPA"
      PROVE  \E n \in pool.used : /\ pool.rng[n].base = call[f].base
                                 /\ pool.rng[n].size = call[f].count
  <2>1. PICK n \in pool.used : pool.rng[n] = [base |-> call[f].base, size |-> call[f].count]
    BY <1>3 DEF HolderInv
  <2> QED BY <2>1
<1> QED BY <1>1, <1>2, <1>3

\* Two used ranges that begin at one page are the same.
LEMMA OneRange ==
  ASSUME RangesInv, NEW m \in pool.used, NEW n \in pool.used,
         pool.rng[m].base = pool.rng[n].base
  PROVE  m = n
<1>1. /\ pool.rng[m].base \in Int /\ pool.rng[m].size \in Int
      /\ pool.rng[n].base \in Int /\ pool.rng[n].size \in Int
  BY DEF RangesInv, PoolOK
<1>2. 1 <= pool.rng[m].size /\ 1 <= pool.rng[n].size
  BY DEF RangesInv, PoolOK, Listed
<1>3. m # n => Disjoint(pool.rng[m], pool.rng[n])
  BY DEF RangesInv, PoolOK, Listed
<1> QED BY <1>1, <1>2, <1>3 DEF Disjoint, End

\* A step that leaves memory, its holders and the pool alone
LEMMA HolderFrame ==
  ASSUME EntryInv, HolderInv, pool' = pool,
         \A h \in Handles : /\ buffer_table'[h].type = buffer_table[h].type
                            /\ buffer_table'[h].kaddr = buffer_table[h].kaddr
                            /\ buffer_table'[h].size = buffer_table[h].size
                            /\ buffer_table[h].type # "none" => buffer_table'[h].used,
         \A f \in Files : /\ call[f].pc = "allocated" => call'[f] = call[f]
                          /\ call'[f].pc = "allocated" => call[f].pc = "allocated"
  PROVE  HolderInv'
<1>1. ASSUME NEW base, NEW size, HasMemory(base, size) PROVE HasMemory(base, size)'
  BY <1>1 DEF HasMemory
<1> QED BY <1>1 DEF HolderInv

-----------------------------------------------------------------------------
(* What the memory of an entry is given back by leaves the rest in order.  *)

LEMMA ReturnOK ==
  ASSUME CareInv, NEW h \in Handles, ReturnMemory(buffer_table[h]),
         \A k \in Handles \ {h} : buffer_table'[k] = buffer_table[k],
         buffer_table'[h].type = "none",
         buffer_table'[h].kaddr = NULL, buffer_table'[h].size = 0,
         \A f \in Files : /\ call[f].pc = "allocated" => call'[f] = call[f]
                          /\ call'[f].pc = "allocated" => call[f].pc = "allocated"
  PROVE  /\ RangesInv' /\ EntryInv' /\ HolderInv'
         /\ kernel' \subseteq kernel
         /\ \A f \in Files : call[f].pc = "allocated" /\ call[f].type = "GFP" =>
              call[f].base \in kernel'
<1> DEFINE e == buffer_table[h]
<1>1. TypeOK /\ RangesInv /\ EntryInv /\ CallInv /\ HolderInv
  BY DEF CareInv
<1>2. e.type \in Types
  BY <1>1 DEF TypeOK
<1>3. CASE e.type = "BPA"
  <2>1. PICK n \in pool.used : pool.rng[n] = [base |-> e.kaddr, size |-> e.size]
    BY <1>1, <1>3 DEF HolderInv
  <2>2. n \in Based(e.kaddr) /\ Based(e.kaddr) \subseteq Nat
    <3>1. pool.used \subseteq Nat
      BY <1>1, NodesAssumption DEF TypeOK
    <3>2. pool.rng[n].base = e.kaddr
      BY <2>1
    <3> QED BY <3>1, <3>2 DEF Based
  <2>3. Lowest(Based(e.kaddr)) \in Based(e.kaddr)
    BY <2>2, LowestIn
  <2>4. Lowest(Based(e.kaddr)) = n
    <3>1. /\ Lowest(Based(e.kaddr)) \in pool.used
          /\ pool.rng[Lowest(Based(e.kaddr))].base = e.kaddr
      BY <2>3 DEF Based
    <3>2. pool.rng[n].base = e.kaddr
      BY <2>1
    <3> QED BY <1>1, <3>1, <3>2, OneRange
  <2>5. pool' = Joined(n) /\ kernel' = kernel
    BY <1>3, <2>2, <2>4 DEF ReturnMemory
  <2>6. /\ PoolOK(pool') /\ pool'.used = pool.used \ {n}
        /\ \A m \in pool.used \ {n} : pool'.rng[m] = pool.rng[m]
    BY <1>1, <2>5, JoinedOK DEF RangesInv
  <2>7. RangesInv'
    BY <2>6 DEF RangesInv
  <2>8. EntryInv'
    BY <1>1, <2>5 DEF EntryInv
  <2>9. \A m \in pool.used : m # n => pool.rng[m].base # e.kaddr
    BY <1>1, <2>1, OneRange
  <2>10. ASSUME NEW base, NEW size, HasMemory(base, size), base # e.kaddr
         PROVE  HasMemory(base, size)'
    BY <2>10 DEF HasMemory
  <2>11. \A k \in Handles : buffer_table'[k].type # "none" =>
           k # h /\ buffer_table'[k] = buffer_table[k] /\ buffer_table[k].kaddr # e.kaddr
    BY <1>1, <1>3 DEF HolderInv
  <2>12. \A f \in Files : call'[f].pc = "allocated" =>
           call'[f] = call[f] /\ call[f].base # e.kaddr
    BY <1>1, <1>3 DEF HolderInv
  <2>13. ASSUME NEW k \in Handles, buffer_table'[k].type = "BPA"
         PROVE  \E m \in pool'.used : pool'.rng[m] =
                  [base |-> buffer_table'[k].kaddr, size |-> buffer_table'[k].size]
    <3>1. buffer_table'[k] = buffer_table[k] /\ buffer_table[k].kaddr # e.kaddr
      BY <2>11, <2>13
    <3>2. PICK m \in pool.used :
            pool.rng[m] = [base |-> buffer_table[k].kaddr, size |-> buffer_table[k].size]
      BY <1>1, <2>13, <3>1 DEF HolderInv
    <3>3. m # n BY <2>1, <3>1, <3>2
    <3> QED BY <2>6, <3>1, <3>2, <3>3
  <2>14. ASSUME NEW f \in Files, call'[f].pc = "allocated", call'[f].type = "BPA"
         PROVE  \E m \in pool'.used : pool'.rng[m] =
                  [base |-> call'[f].base, size |-> call'[f].count]
    <3>1. call'[f] = call[f] /\ call[f].base # e.kaddr
      BY <2>12, <2>14
    <3>2. PICK m \in pool.used : pool.rng[m] = [base |-> call[f].base, size |-> call[f].count]
      BY <1>1, <2>14, <3>1 DEF HolderInv
    <3>3. m # n BY <2>1, <3>1, <3>2
    <3> QED BY <2>6, <3>1, <3>2, <3>3
  <2>15. ASSUME NEW m \in pool'.used
         PROVE  HasMemory(pool.rng[m].base, pool.rng[m].size)' /\ pool'.rng[m] = pool.rng[m]
    BY <1>1, <2>6, <2>9, <2>10, <2>15 DEF HolderInv
  <2>16. HolderInv'
    BY <1>1, <2>11, <2>12, <2>13, <2>14, <2>15 DEF HolderInv
  <2> QED BY <1>1, <2>5, <2>7, <2>8, <2>16 DEF CallInv, CallOK
<1>4. CASE e.type # "BPA"
  <2>1. pool' = pool /\ kernel' \subseteq kernel
        /\ \A b \in kernel : b # e.kaddr \/ e.type # "GFP" => b \in kernel'
    BY <1>4 DEF ReturnMemory
  <2>2. RangesInv'
    BY <1>1, <2>1 DEF RangesInv
  <2>3. \A k \in Handles : buffer_table'[k].type # "none" =>
          /\ k # h /\ buffer_table'[k] = buffer_table[k]
          /\ buffer_table[k].kaddr # e.kaddr \/ e.type # "GFP"
    BY <1>1 DEF HolderInv
  <2>4. EntryInv'
    BY <1>1, <2>1, <2>3 DEF EntryInv
  <2>5. \A f \in Files : call[f].pc = "allocated" =>
          call'[f] = call[f] /\ (call[f].base # e.kaddr \/ e.type # "GFP")
    BY <1>1 DEF HolderInv
  <2>6. ASSUME NEW base, NEW size, HasMemory(base, size) PROVE HasMemory(base, size)'
    BY <1>4, <2>6 DEF HasMemory
  <2>7. HolderInv'
    BY <1>1, <2>1, <2>3, <2>5, <2>6 DEF HolderInv
  <2> QED BY <1>1, <2>1, <2>2, <2>4, <2>5, <2>7 DEF CallInv, CallOK
<1> QED BY <1>3, <1>4

-----------------------------------------------------------------------------
(* Each action keeps the invariant.                                        *)

CallRecords == [pc : PCs, h : Handles, type : Types, count : Nat,
                base : Int, range : Nodes \cup {NULL}, spare : BOOLEAN]

LEMMA Records ==
  /\ Closed \in CallRecords /\ Closed.pc = "closed"
  /\ Idle \in CallRecords /\ Idle.pc = "idle"
  /\ 0 \in Handles /\ Handles \subseteq Nat
<1>1. 0 \in Handles /\ Handles \subseteq Nat
  BY TableAssumption DEF Handles
<1>2. Closed \in CallRecords /\ Closed.pc = "closed"
  BY <1>1 DEF CallRecords, Closed, PCs, Types, NULL
<1>3. Idle \in CallRecords /\ Idle.pc = "idle"
  BY <1>2 DEF CallRecords, Idle, PCs
<1> QED BY <1>1, <1>2, <1>3

\* A call that goes on; the others stay where they are.
LEMMA Goes ==
  ASSUME TypeOK, NEW f \in Files, NEW c \in CallRecords, Goto(f, c)
  PROVE  /\ call' \in [Files -> CallRecords]
         /\ call'[f] = c /\ \A g \in Files : g # f => call'[g] = call[g]
BY DEF TypeOK, Goto, CallRecords

\* A call that ends, or a file that is opened, and that changes nothing else
LEMMA IdleOK ==
  ASSUME CareInv, NEW f \in Files, Goto(f, Idle), call[f].pc # "allocated",
         UNCHANGED <<buffer_table, buffer, pool, kernel, got>>
  PROVE  CareInv'
<1>1. TypeOK /\ RangesInv /\ EntryInv /\ MarkInv /\ CallInv /\ SerialInv /\ HolderInv
  BY DEF CareInv
<1>2. /\ call' \in [Files -> CallRecords]
      /\ call'[f].pc = "idle" /\ \A g \in Files : g # f => call'[g] = call[g]
  BY <1>1, Goes, Records
<1>3. TypeOK' BY <1>1, <1>2 DEF TypeOK, CallRecords
<1>4. RangesInv' BY <1>1 DEF RangesInv
<1>5. EntryInv' BY <1>1 DEF EntryInv
<1>6. MarkInv' BY <1>1, <1>2 DEF MarkInv, KeepsBuffer, Memory
<1>7. CallInv' BY <1>1, <1>2 DEF CallInv, CallOK
<1>8. SerialInv' BY <1>1, <1>2 DEF SerialInv
<1>9. HolderInv' BY <1>1, <1>2, HolderFrame DEF EntryInv
<1> QED BY <1>3, <1>4, <1>5, <1>6, <1>7, <1>8, <1>9 DEF CareInv

LEMMA GetReserveOK ==
  ASSUME CareInv, NEW f \in Files, NEW type \in Types, NEW count \in Nat,
         type = "BPA" => 1 <= count, GetReserve(f, type, count)
  PROVE  CareInv'
<1> DEFINE h == Lowest(Unused)
           c == [Idle EXCEPT !.pc = "reserved", !.h = h, !.type = type, !.count = count]
<1>1. TypeOK /\ RangesInv /\ EntryInv /\ MarkInv /\ CallInv /\ SerialInv /\ HolderInv
  BY DEF CareInv
<1>2. h \in Handles /\ ~buffer_table[h].used
  BY LowestIn, Records DEF GetReserve, Unused
<1>3. /\ buffer_table' = [buffer_table EXCEPT ![h].used = TRUE]
      /\ buffer' = [buffer EXCEPT ![f] = @ \cup {h}]
      /\ Goto(f, c) /\ UNCHANGED <<pool, kernel, got>> /\ call[f].pc = "idle"
  BY DEF GetReserve
<1> HIDE DEF h
<1>4. /\ c \in CallRecords /\ c.pc = "reserved" /\ c.h = h
      /\ c.type = type /\ c.count = count
  BY <1>2, Records DEF CallRecords, PCs
<1> HIDE DEF c
<1>5. /\ call' \in [Files -> CallRecords]
      /\ call'[f] = c /\ \A g \in Files : g # f => call'[g] = call[g]
  BY <1>1, <1>3, <1>4, Goes
<1>6. /\ buffer_table' \in
           [Handles -> [used : BOOLEAN, locked : BOOLEAN, type : Types,
                        kaddr : Cells \cup {NULL}, size : Nat]]
      /\ \A k \in Handles : k # h => buffer_table'[k] = buffer_table[k]
      /\ buffer_table'[h].used /\ buffer_table'[h].type = buffer_table[h].type
      /\ buffer_table'[h].locked = buffer_table[h].locked
      /\ buffer_table'[h].kaddr = buffer_table[h].kaddr
      /\ buffer_table'[h].size = buffer_table[h].size
  <2>1. /\ buffer_table \in
             [Handles -> [used : BOOLEAN, locked : BOOLEAN, type : Types,
                          kaddr : Cells \cup {NULL}, size : Nat]]
        /\ buffer_table' = [buffer_table EXCEPT ![h] = [@ EXCEPT !.used = TRUE]]
    BY <1>1, <1>3 DEF TypeOK
  <2> QED BY <1>2, <2>1
<1>7. /\ buffer' \in [Files -> SUBSET Handles]
      /\ buffer'[f] = buffer[f] \cup {h}
      /\ \A g \in Files : g # f => buffer'[g] = buffer[g]
      /\ \A g \in Files : h \notin buffer[g]
      /\ buffer_table[h].type = "none"
  BY <1>1, <1>2, <1>3 DEF TypeOK, MarkInv, EntryInv
<1>8. TypeOK' BY <1>1, <1>3, <1>5, <1>6, <1>7 DEF TypeOK, CallRecords
<1>9. RangesInv' BY <1>1, <1>3 DEF RangesInv
<1>10. EntryInv' BY <1>1, <1>3, <1>6, <1>7 DEF EntryInv
<1>11. KeepsBuffer' BY <1>1, <1>3, <1>6, <1>7 DEF MarkInv, KeepsBuffer, Memory
<1>12. MarkInv'
  <2>1. \A g \in Files : buffer'[g] \subseteq {k \in Handles : buffer_table'[k].used}
    BY <1>1, <1>2, <1>6, <1>7 DEF MarkInv
  <2>2. \A g, k \in Files : g # k => buffer'[g] \cap buffer'[k] = {}
    BY <1>1, <1>7 DEF MarkInv
  <2>3. \A g \in Files : call'[g].pc = "closed" => buffer'[g] = {}
    BY <1>1, <1>4, <1>5, <1>7 DEF MarkInv
  <2>4. \A g \in Files : call'[g].pc \in {"closed", "release"} =>
          \A k \in Handles : got'[g][k] = {}
    BY <1>1, <1>3, <1>4, <1>5 DEF MarkInv
  <2> QED BY <1>11, <2>1, <2>2, <2>3, <2>4 DEF MarkInv
<1>13. CallInv'
  <2> SUFFICES ASSUME NEW g \in Files PROVE CallOK(g)'
    BY DEF CallInv
  <2>1. CASE g = f
    <3>1. call'[g] = c BY <2>1, <1>5
    <3> QED BY <2>1, <3>1, <1>4, <1>6, <1>7 DEF CallOK
  <2>2. CASE g # f
    <3>1. call[g].h \in Handles BY <1>1 DEF TypeOK
    <3>2. /\ buffer_table'[call[g].h].type = buffer_table[call[g].h].type
          /\ buffer_table'[call[g].h].locked = buffer_table[call[g].h].locked
      BY <3>1, <1>6
    <3>3. CallOK(g) BY <1>1 DEF CallInv
    <3> QED BY <2>2, <3>2, <3>3, <1>3, <1>5, <1>7 DEF CallOK
  <2> QED BY <2>1, <2>2
<1>14. SerialInv' BY <1>1, <1>4, <1>5 DEF SerialInv
<1>15. HolderInv' BY <1>1, <1>3, <1>4, <1>5, <1>6, HolderFrame DEF EntryInv
<1> QED BY <1>8, <1>9, <1>10, <1>12, <1>13, <1>14, <1>15 DEF CareInv

LEMMA GetKernelOK ==
  ASSUME CareInv, NEW f \in Files, NEW b \in PoolSize .. PoolSize + Blocks - 1,
         GetKernel(f, b)
  PROVE  CareInv'
<1> DEFINE c == [call[f] EXCEPT !.pc = "allocated", !.base = b, !.count = 1]
<1>1. TypeOK /\ RangesInv /\ EntryInv /\ MarkInv /\ CallInv /\ SerialInv /\ HolderInv
  BY DEF CareInv
<1>2. /\ call[f].pc = "reserved" /\ call[f].type = "GFP" /\ b \notin kernel
      /\ kernel' = kernel \cup {b} /\ Goto(f, c)
      /\ UNCHANGED <<buffer_table, buffer, pool, got>>
  BY DEF GetKernel
<1>3. b \in Cells \ Pages /\ b \in Int
  BY TableAssumption DEF Cells, Pages
<1>4. /\ c \in CallRecords /\ c.pc = "allocated" /\ c.h = call[f].h
      /\ c.type = "GFP" /\ c.count = 1 /\ c.base = b
  BY <1>1, <1>2, <1>3, ZenonT(60) DEF TypeOK, CallRecords, PCs
<1> HIDE DEF c
<1>5. /\ call' \in [Files -> CallRecords]
      /\ call'[f] = c /\ \A g \in Files : g # f => call'[g] = call[g]
  BY <1>1, <1>2, <1>4, Goes
<1>6. TypeOK' BY <1>1, <1>2, <1>3, <1>5 DEF TypeOK, CallRecords
<1>7. RangesInv' BY <1>1, <1>2 DEF RangesInv
<1>8. EntryInv' BY <1>1, <1>2 DEF EntryInv
<1>9. MarkInv' BY <1>1, <1>2, <1>4, <1>5 DEF MarkInv, KeepsBuffer, Memory
<1>10. CallInv' BY <1>1, <1>2, <1>4, <1>5 DEF CallInv, CallOK
<1>11. SerialInv' BY <1>1, <1>4, <1>5 DEF SerialInv
\* The block is none that a holder has, and lies beyond the pool.
<1>12. \A h \in Handles : buffer_table[h].type # "none" => buffer_table[h].kaddr # b
  <2> SUFFICES ASSUME NEW h \in Handles, buffer_table[h].type # "none"
               PROVE  buffer_table[h].kaddr # b
    OBVIOUS
  <2>1. buffer_table[h].type \in Types BY <1>1 DEF TypeOK
  <2>2. CASE buffer_table[h].type = "GFP" BY <1>1, <1>2, <2>2 DEF EntryInv
  <2>3. CASE buffer_table[h].type = "BPA"
    BY <1>1, <2>3, HolderCells, TableAssumption
  <2> QED BY <2>1, <2>2, <2>3 DEF Types
<1>13. \A g \in Files : call[g].pc = "allocated" => call[g].base # b
  <2> SUFFICES ASSUME NEW g \in Files, call[g].pc = "allocated"
               PROVE  call[g].base # b
    OBVIOUS
  <2>1. call[g].type \in Types \ {"none"} BY <1>1 DEF TypeOK, CallInv, CallOK
  <2>2. CASE call[g].type = "GFP" BY <1>1, <1>2, <2>2 DEF CallInv, CallOK
  <2>3. CASE call[g].type = "BPA"
    BY <1>1, <2>3, HolderCells, TableAssumption
  <2> QED BY <2>1, <2>2, <2>3 DEF Types
<1>14. ASSUME NEW base, NEW size, HasMemory(base, size) PROVE HasMemory(base, size)'
  BY <1>2, <1>5, <1>14 DEF HasMemory
<1>15. HolderInv'
  BY <1>1, <1>2, <1>4, <1>5, <1>12, <1>13, <1>14 DEF HolderInv
<1> QED BY <1>6, <1>7, <1>8, <1>9, <1>10, <1>11, <1>15 DEF CareInv

LEMMA SearchOK ==
  ASSUME Careful, CareInv, NEW f \in Files, Search(f)
  PROVE  CareInv'
<1> DEFINE n == FirstFit(call[f].count)
           c == [call[f] EXCEPT !.pc = "found", !.range = n, !.base = pool.rng[n].base,
                                !.spare = call[f].count < pool.rng[n].size]
<1>1. TypeOK /\ RangesInv /\ EntryInv /\ MarkInv /\ CallInv /\ SerialInv /\ HolderInv
  BY DEF CareInv
<1>2. /\ call[f].pc = "reserved" /\ call[f].type = "BPA" /\ Goto(f, c)
      /\ \A g \in Files : call[g].pc # "found" /\ call[g].pc # "release"
      /\ Fitting(call[f].count) # {}
      /\ UNCHANGED <<buffer_table, buffer, pool, kernel, got>>
  BY DEF Search, PoolIsFree, Allocating, SlockHeld, Careful
<1>3. n \in pool.free /\ call[f].count <= pool.rng[n].size /\ n \in Nodes
  BY <1>1, <1>2, FirstFits DEF Fitting, Fits, RangesInv, TypeOK
<1> HIDE DEF n
<1>4. /\ c \in CallRecords /\ c.pc = "found" /\ c.h = call[f].h
      /\ c.type = "BPA" /\ c.count = call[f].count /\ c.base = pool.rng[n].base
      /\ c.range = n /\ c.spare = (call[f].count < pool.rng[n].size)
  <2>1. call[f] \in CallRecords BY <1>1 DEF TypeOK, CallRecords
  <2>2. pool.rng[n].base \in Int BY <1>1, <1>3 DEF TypeOK
  <2>3. (call[f].count < pool.rng[n].size) \in BOOLEAN OBVIOUS
  <2> QED BY <1>2, <1>3, <2>1, <2>2, <2>3 DEF CallRecords, PCs
<1> HIDE DEF c
<1>5. /\ call' \in [Files -> CallRecords]
      /\ call'[f] = c /\ \A g \in Files : g # f => call'[g] = call[g]
  BY <1>1, <1>2, <1>4, Goes
<1>6. TypeOK' BY <1>1, <1>2, <1>5 DEF TypeOK, CallRecords
<1>7. RangesInv' BY <1>1, <1>2 DEF RangesInv
<1>8. EntryInv' BY <1>1, <1>2 DEF EntryInv
<1>9. MarkInv' BY <1>1, <1>2, <1>4, <1>5 DEF MarkInv, KeepsBuffer, Memory
<1>10. CallInv'
  <2> SUFFICES ASSUME NEW g \in Files PROVE CallOK(g)'
    BY DEF CallInv
  <2>1. CallOK(g) BY <1>1 DEF CallInv
  <2>2. CASE g = f
    <3>1. call'[g] = c BY <2>2, <1>5
    <3> QED BY <2>1, <2>2, <3>1, <1>2, <1>3, <1>4 DEF CallOK
  <2>3. CASE g # f BY <2>1, <2>3, <1>2, <1>5 DEF CallOK
  <2> QED BY <2>2, <2>3
<1>11. SerialInv' BY <1>1, <1>2, <1>4, <1>5 DEF SerialInv
<1>12. HolderInv' BY <1>1, <1>2, <1>4, <1>5, HolderFrame DEF EntryInv
<1> QED BY <1>6, <1>7, <1>8, <1>9, <1>10, <1>11, <1>12 DEF CareInv

\* What leaves a call of another file as it was
LEMMA CallFrame ==
  ASSUME NEW g \in Files, CallOK(g), call'[g] = call[g], got'[g] = got[g],
         call[g].h \in buffer[g] =>
           call[g].h \in buffer'[g] /\ buffer_table'[call[g].h] = buffer_table[call[g].h],
         call[g].pc = "allocated" /\ call[g].type = "GFP" => call[g].base \in kernel',
         pool' = pool \/ call[g].pc # "found"
  PROVE  CallOK(g)'
<1>1. CASE call[g].pc \in {"reserved", "found", "allocated", "lock", "unlock", "free"}
  BY <1>1 DEF CallOK
<1>2. CASE call[g].pc \notin {"reserved", "found", "allocated", "lock", "unlock", "free"}
  BY <1>2 DEF CallOK
<1> QED BY <1>1, <1>2

LEMMA GetFailsOK ==
  ASSUME CareInv, NEW f \in Files, GetFails(f)
  PROVE  CareInv'
<1> DEFINE h == call[f].h
<1>1. TypeOK /\ RangesInv /\ EntryInv /\ MarkInv /\ CallInv /\ SerialInv /\ HolderInv
  BY DEF CareInv
<1>2. /\ call[f].pc \in {"reserved", "found"} /\ Goto(f, Idle)
      /\ buffer_table' = [buffer_table EXCEPT ![h] = [@ EXCEPT !.used = FALSE]]
      /\ buffer' = [buffer EXCEPT ![f] = @ \ {h}]
      /\ UNCHANGED <<pool, kernel, got>>
  BY DEF GetFails
<1>3. /\ h \in Handles /\ h \in buffer[f] /\ buffer_table[h].type = "none"
      /\ \A g \in Files : g # f => h \notin buffer[g]
  BY <1>1, <1>2 DEF TypeOK, CallInv, CallOK, MarkInv
<1> HIDE DEF h
<1>4. /\ call' \in [Files -> CallRecords]
      /\ call'[f].pc = "idle" /\ \A g \in Files : g # f => call'[g] = call[g]
  BY <1>1, <1>2, Goes, Records
<1>5. /\ buffer_table' \in
           [Handles -> [used : BOOLEAN, locked : BOOLEAN, type : Types,
                        kaddr : Cells \cup {NULL}, size : Nat]]
      /\ \A k \in Handles : k # h => buffer_table'[k] = buffer_table[k]
      /\ buffer_table'[h].type = buffer_table[h].type
      /\ buffer_table'[h].kaddr = buffer_table[h].kaddr
      /\ buffer_table'[h].size = buffer_table[h].size
  <2>1. /\ buffer_table \in
             [Handles -> [used : BOOLEAN, locked : BOOLEAN, type : Types,
                          kaddr : Cells \cup {NULL}, size : Nat]]
        /\ buffer_table' = [buffer_table EXCEPT ![h] = [@ EXCEPT !.used = FALSE]]
    BY <1>1, <1>2 DEF TypeOK
  <2> QED BY <1>3, <2>1
<1>6. /\ buffer' \in [Files -> SUBSET Handles]
      /\ buffer'[f] = buffer[f] \ {h}
      /\ \A g \in Files : g # f => buffer'[g] = buffer[g]
  BY <1>1, <1>2 DEF TypeOK
<1>7. TypeOK' BY <1>1, <1>2, <1>4, <1>5, <1>6 DEF TypeOK, CallRecords
<1>8. RangesInv' BY <1>1, <1>2 DEF RangesInv
<1>9. EntryInv' BY <1>1, <1>2, <1>3, <1>5 DEF EntryInv
\* Nobody got an entry that has no memory yet.
<1>10. \A g \in Files : got[g][h] = {}
  <2>1. buffer_table[h].kaddr = -1 /\ buffer_table[h].size = 0
    BY <1>1, <1>3 DEF EntryInv, NULL
  <2>2. Memory(buffer_table[h]) = {} BY <2>1 DEF Memory
  <2> QED BY <1>1, <1>3, <2>2 DEF MarkInv, KeepsBuffer
<1>11. KeepsBuffer'
  <2> SUFFICES ASSUME NEW g \in Files, NEW k \in Handles, got[g][k] # {}
      PROVE  /\ buffer_table'[k].used /\ Memory(buffer_table'[k]) = got[g][k]
             /\ k \in buffer'[g]
    BY <1>2 DEF KeepsBuffer, Memory
  <2>1. k # h BY <1>10
  <2> QED BY <1>1, <1>5, <1>6, <2>1 DEF MarkInv, KeepsBuffer
<1>12. MarkInv'
  <2>1. \A g \in Files : buffer'[g] \subseteq {k \in Handles : buffer_table'[k].used}
    BY <1>1, <1>3, <1>5, <1>6 DEF MarkInv
  <2>2. \A g, k \in Files : g # k => buffer'[g] \cap buffer'[k] = {}
    BY <1>1, <1>6 DEF MarkInv
  <2>3. \A g \in Files : call'[g].pc = "closed" => buffer'[g] = {}
    BY <1>1, <1>4, <1>6 DEF MarkInv
  <2>4. \A g \in Files : call'[g].pc \in {"closed", "release"} =>
          \A k \in Handles : got'[g][k] = {}
    BY <1>1, <1>2, <1>4 DEF MarkInv
  <2> QED BY <1>11, <2>1, <2>2, <2>3, <2>4 DEF MarkInv
<1>13. CallInv'
  <2> SUFFICES ASSUME NEW g \in Files PROVE CallOK(g)'
    BY DEF CallInv
  <2>1. CASE g = f BY <2>1, <1>4 DEF CallOK
  <2>2. CASE g # f
    <3>1. CallOK(g) /\ call[g].h \in Handles BY <1>1 DEF CallInv, TypeOK
    <3>2. call[g].pc = "allocated" /\ call[g].type = "GFP" => call[g].base \in kernel
      BY <3>1 DEF CallOK
    <3> QED BY <2>2, <3>1, <3>2, <1>2, <1>3, <1>4, <1>5, <1>6, CallFrame
  <2> QED BY <2>1, <2>2
<1>14. SerialInv' BY <1>1, <1>4 DEF SerialInv
<1>15. HolderInv'
  <2>1. \A k \in Handles : /\ buffer_table'[k].type = buffer_table[k].type
                           /\ buffer_table'[k].kaddr = buffer_table[k].kaddr
                           /\ buffer_table'[k].size = buffer_table[k].size
                           /\ buffer_table[k].type # "none" => buffer_table'[k].used
    BY <1>1, <1>3, <1>5 DEF EntryInv
  <2>2. \A g \in Files : /\ call[g].pc = "allocated" => call'[g] = call[g]
                         /\ call'[g].pc = "allocated" => call[g].pc = "allocated"
    BY <1>2, <1>4
  <2> QED BY <1>1, <1>2, <2>1, <2>2, HolderFrame
<1> QED BY <1>7, <1>8, <1>9, <1>12, <1>13, <1>14, <1>15 DEF CareInv

LEMMA AskOK ==
  ASSUME Careful, CareInv, NEW f \in Files, NEW h \in Handles,
         NEW op \in {"lock", "unlock", "free"}, Ask(f, h, op)
  PROVE  CareInv'
<1> DEFINE c == [Idle EXCEPT !.pc = op, !.h = h]
<1>1. TypeOK /\ RangesInv /\ EntryInv /\ MarkInv /\ CallInv /\ SerialInv /\ HolderInv
  BY DEF CareInv
<1>2. /\ call[f].pc = "idle" /\ got[f][h] # {} /\ Goto(f, c)
      /\ op = "free" => ~buffer_table[h].locked
      /\ got' = IF op = "free" THEN [got EXCEPT ![f][h] = {}] ELSE got
      /\ UNCHANGED <<buffer_table, buffer, pool, kernel>>
  BY DEF Ask, Known, Careful, Private
<1>3. c \in CallRecords /\ c.pc = op /\ c.h = h
  BY Records DEF CallRecords, PCs
<1> HIDE DEF c
<1>4. /\ call' \in [Files -> CallRecords]
      /\ call'[f] = c /\ \A g \in Files : g # f => call'[g] = call[g]
  BY <1>1, <1>2, <1>3, Goes
<1>5. /\ got' \in [Files -> [Handles -> SUBSET Cells]]
      /\ \A g \in Files : \A k \in Handles : got'[g][k] \in {got[g][k], {}}
      /\ \A g \in Files : g # f => got'[g] = got[g]
      /\ got'[f][h] = IF op = "free" THEN {} ELSE got[f][h]
  BY <1>1, <1>2 DEF TypeOK
<1>6. h \in buffer[f] BY <1>1, <1>2 DEF MarkInv, KeepsBuffer
<1>7. TypeOK' BY <1>1, <1>2, <1>4, <1>5 DEF TypeOK, CallRecords
<1>8. RangesInv' BY <1>1, <1>2 DEF RangesInv
<1>9. EntryInv' BY <1>1, <1>2 DEF EntryInv
<1>10. KeepsBuffer' BY <1>1, <1>2, <1>5 DEF MarkInv, KeepsBuffer, Memory
<1>11. MarkInv' BY <1>1, <1>2, <1>3, <1>4, <1>5, <1>10 DEF MarkInv
<1>12. CallInv'
  <2> SUFFICES ASSUME NEW g \in Files PROVE CallOK(g)'
    BY DEF CallInv
  <2>1. CASE g = f
    <3>1. call'[g] = c BY <2>1, <1>4
    <3> QED BY <2>1, <3>1, <1>2, <1>3, <1>5, <1>6 DEF CallOK
  <2>2. CASE g # f
    <3>1. CallOK(g) BY <1>1 DEF CallInv
    <3> QED BY <2>2, <3>1, <1>2, <1>4, <1>5 DEF CallOK
  <2> QED BY <2>1, <2>2
<1>13. SerialInv' BY <1>1, <1>3, <1>4 DEF SerialInv
<1>14. HolderInv' BY <1>1, <1>2, <1>3, <1>4, HolderFrame DEF EntryInv
<1> QED BY <1>7, <1>8, <1>9, <1>11, <1>12, <1>13, <1>14 DEF CareInv

LEMMA FreeLockedOK ==
  ASSUME Careful, CareInv, NEW f \in Files, NEW h \in Handles, FreeLocked(f, h)
  PROVE  CareInv'
<1>1. TypeOK /\ RangesInv /\ EntryInv /\ MarkInv /\ CallInv /\ SerialInv /\ HolderInv
  BY DEF CareInv
<1>2. /\ call[f].pc = "idle" /\ got' = [got EXCEPT ![f][h] = {}]
      /\ UNCHANGED <<buffer_table, buffer, pool, kernel, call>>
  BY DEF FreeLocked
<1>3. /\ got' \in [Files -> [Handles -> SUBSET Cells]]
      /\ \A g \in Files : \A k \in Handles : got'[g][k] \in {got[g][k], {}}
      /\ \A g \in Files : g # f => got'[g] = got[g]
  BY <1>1, <1>2 DEF TypeOK
<1>4. TypeOK' BY <1>1, <1>2, <1>3 DEF TypeOK
<1>5. RangesInv' /\ EntryInv' /\ SerialInv'
  BY <1>1, <1>2 DEF RangesInv, EntryInv, SerialInv
<1>6. KeepsBuffer' BY <1>1, <1>2, <1>3 DEF MarkInv, KeepsBuffer, Memory
<1>7. MarkInv' BY <1>1, <1>2, <1>3, <1>6 DEF MarkInv
<1>8. CallInv'
  <2> SUFFICES ASSUME NEW g \in Files PROVE CallOK(g)'
    BY DEF CallInv
  <2>1. CallOK(g) BY <1>1 DEF CallInv
  <2>2. CASE g = f BY <2>1, <2>2, <1>2 DEF CallOK
  <2>3. CASE g # f BY <2>1, <2>3, <1>2, <1>3 DEF CallOK
  <2> QED BY <2>2, <2>3
<1>9. HolderInv' BY <1>1, <1>2, HolderFrame DEF EntryInv
<1> QED BY <1>4, <1>5, <1>7, <1>8, <1>9 DEF CareInv

LEMMA SetLockOK ==
  ASSUME CareInv, NEW f \in Files, SetLock(f)
  PROVE  CareInv'
<1> DEFINE h == call[f].h
           on == (call[f].pc = "lock")
<1>1. TypeOK /\ RangesInv /\ EntryInv /\ MarkInv /\ CallInv /\ SerialInv /\ HolderInv
  BY DEF CareInv
<1>2. /\ call[f].pc \in {"lock", "unlock"} /\ Goto(f, Idle)
      /\ buffer_table' = [buffer_table EXCEPT ![h] = [@ EXCEPT !.locked = on]]
      /\ UNCHANGED <<buffer, pool, kernel, got>>
  BY DEF SetLock
<1>3. /\ h \in Handles /\ h \in buffer[f]
      /\ \A g \in Files : g # f => h \notin buffer[g]
  BY <1>1, <1>2 DEF TypeOK, CallInv, CallOK, MarkInv
<1>4. /\ call' \in [Files -> CallRecords]
      /\ call'[f].pc = "idle" /\ \A g \in Files : g # f => call'[g] = call[g]
  BY <1>1, <1>2, Goes, Records
<1>5. on \in BOOLEAN OBVIOUS
<1> HIDE DEF h, on
<1>6. /\ buffer_table' \in
           [Handles -> [used : BOOLEAN, locked : BOOLEAN, type : Types,
                        kaddr : Cells \cup {NULL}, size : Nat]]
      /\ \A k \in Handles : k # h => buffer_table'[k] = buffer_table[k]
      /\ buffer_table'[h].used = buffer_table[h].used
      /\ buffer_table'[h].type = buffer_table[h].type
      /\ buffer_table'[h].kaddr = buffer_table[h].kaddr
      /\ buffer_table'[h].size = buffer_table[h].size
  <2>1. /\ buffer_table \in
             [Handles -> [used : BOOLEAN, locked : BOOLEAN, type : Types,
                          kaddr : Cells \cup {NULL}, size : Nat]]
        /\ buffer_table' = [buffer_table EXCEPT ![h] = [@ EXCEPT !.locked = on]]
    BY <1>1, <1>2 DEF TypeOK
  <2> QED BY <1>3, <1>5, <2>1
<1>7. TypeOK' BY <1>1, <1>2, <1>4, <1>6 DEF TypeOK, CallRecords
<1>8. RangesInv' BY <1>1, <1>2 DEF RangesInv
<1>9. EntryInv' BY <1>1, <1>2, <1>3, <1>6 DEF EntryInv
<1>10. KeepsBuffer' BY <1>1, <1>2, <1>3, <1>6 DEF MarkInv, KeepsBuffer, Memory
<1>11. MarkInv' BY <1>1, <1>2, <1>3, <1>4, <1>6, <1>10 DEF MarkInv
<1>12. CallInv'
  <2> SUFFICES ASSUME NEW g \in Files PROVE CallOK(g)'
    BY DEF CallInv
  <2>1. CASE g = f BY <2>1, <1>4 DEF CallOK
  <2>2. CASE g # f
    <3>1. CallOK(g) /\ call[g].h \in Handles BY <1>1 DEF CallInv, TypeOK
    <3>2. call[g].pc = "allocated" /\ call[g].type = "GFP" => call[g].base \in kernel
      BY <3>1 DEF CallOK
    <3> QED BY <2>2, <3>1, <3>2, <1>2, <1>3, <1>4, <1>6, CallFrame
  <2> QED BY <2>1, <2>2
<1>13. SerialInv' BY <1>1, <1>4 DEF SerialInv
<1>14. HolderInv'
  <2>1. \A k \in Handles : /\ buffer_table'[k].type = buffer_table[k].type
                           /\ buffer_table'[k].kaddr = buffer_table[k].kaddr
                           /\ buffer_table'[k].size = buffer_table[k].size
                           /\ buffer_table[k].type # "none" => buffer_table'[k].used
    BY <1>1, <1>3, <1>6 DEF EntryInv
  <2>2. \A g \in Files : /\ call[g].pc = "allocated" => call'[g] = call[g]
                         /\ call'[g].pc = "allocated" => call[g].pc = "allocated"
    BY <1>2, <1>4
  <2> QED BY <1>1, <1>2, <2>1, <2>2, HolderFrame
<1> QED BY <1>7, <1>8, <1>9, <1>11, <1>12, <1>13, <1>14 DEF CareInv

\* An entry that is freed, by its file or by "freelock"
LEMMA EntryGoneOK ==
  ASSUME CareInv, NEW h \in Handles, ReturnMemory(buffer_table[h]),
         NEW e \in [used : BOOLEAN, locked : BOOLEAN, type : Types,
                    kaddr : Cells \cup {NULL}, size : Nat],
         e.type = "none", e.kaddr = NULL, e.size = 0,
         buffer_table' = [buffer_table EXCEPT ![h] = e],
         buffer' \in [Files -> SUBSET Handles],
         \A f \in Files : buffer'[f] = buffer[f] \ {h} /\ got[f][h] = {},
         \A f \in Files : call[f].pc # "found",
         call' \in [Files -> CallRecords],
         \A f \in Files :
           \/ call'[f] = call[f]
              /\ (call[f].h # h \/ call[f].pc \in {"closed", "idle", "release"})
           \/ call'[f].pc = "idle" /\ call[f].pc # "allocated",
         got' = got
  PROVE  CareInv'
<1>1. TypeOK /\ RangesInv /\ EntryInv /\ MarkInv /\ CallInv /\ SerialInv /\ HolderInv
  BY DEF CareInv
<1>2. /\ buffer_table' \in
           [Handles -> [used : BOOLEAN, locked : BOOLEAN, type : Types,
                        kaddr : Cells \cup {NULL}, size : Nat]]
      /\ \A k \in Handles : k # h => buffer_table'[k] = buffer_table[k]
      /\ buffer_table'[h] = e
  BY <1>1 DEF TypeOK
<1>3. /\ RangesInv' /\ EntryInv' /\ HolderInv' /\ kernel' \subseteq kernel
      /\ \A f \in Files : call[f].pc = "allocated" /\ call[f].type = "GFP" =>
           call[f].base \in kernel'
  <2>1. \A f \in Files : /\ call[f].pc = "allocated" => call'[f] = call[f]
                         /\ call'[f].pc = "allocated" => call[f].pc = "allocated"
    OBVIOUS
  <2> QED BY <1>2, <2>1, ReturnOK
<1>4. TypeOK'
  <2>1. /\ pool'.free \subseteq Nodes /\ pool'.used \subseteq Nodes
        /\ pool'.free \cap pool'.used = {}
        /\ pool'.rng \in [Nodes -> [base : Int, size : Int]]
    BY <1>3 DEF RangesInv, PoolOK
  <2> QED BY <1>1, <1>2, <1>3, <2>1 DEF TypeOK, CallRecords
<1>5. KeepsBuffer'
  <2> SUFFICES ASSUME NEW g \in Files, NEW k \in Handles, got[g][k] # {}
      PROVE  /\ buffer_table'[k].used /\ Memory(buffer_table'[k]) = got[g][k]
             /\ k \in buffer'[g]
    BY DEF KeepsBuffer, Memory
  <2>1. k # h OBVIOUS
  <2> QED BY <1>1, <1>2, <2>1 DEF MarkInv, KeepsBuffer
<1>6. MarkInv'
  <2>1. \A g \in Files : buffer'[g] \subseteq {k \in Handles : buffer_table'[k].used}
    BY <1>1, <1>2 DEF MarkInv
  <2>2. \A g, k \in Files : g # k => buffer'[g] \cap buffer'[k] = {}
    BY <1>1 DEF MarkInv
  <2>3. \A g \in Files : call'[g].pc = "closed" => buffer'[g] = {}
    BY <1>1 DEF MarkInv
  <2>4. \A g \in Files : call'[g].pc \in {"closed", "release"} =>
          \A k \in Handles : got'[g][k] = {}
    BY <1>1 DEF MarkInv
  <2> QED BY <1>5, <2>1, <2>2, <2>3, <2>4 DEF MarkInv
<1>7. CallInv'
  <2> SUFFICES ASSUME NEW g \in Files PROVE CallOK(g)'
    BY DEF CallInv
  <2>1. CASE call'[g].pc \in {"closed", "idle", "release"} BY <2>1 DEF CallOK
  <2>2. CASE call'[g].pc \notin {"closed", "idle", "release"}
    <3>1. CallOK(g) /\ call[g].h \in Handles BY <1>1 DEF CallInv, TypeOK
    <3>2. call'[g] = call[g] /\ call[g].h # h BY <2>2
    <3> QED BY <3>1, <3>2, <1>2, <1>3, CallFrame
  <2> QED BY <2>1, <2>2
<1>8. SerialInv' BY <1>1 DEF SerialInv
<1> QED BY <1>3, <1>4, <1>6, <1>7, <1>8 DEF CareInv

LEMMA FreeOK ==
  ASSUME Careful, CareInv, NEW f \in Files, Free(f)
  PROVE  CareInv'
<1> DEFINE h == call[f].h
<1>1. TypeOK /\ MarkInv /\ CallInv
  BY DEF CareInv
<1>2. /\ call[f].pc = "free" /\ Goto(f, Idle) /\ UNCHANGED got
      /\ \A g \in Files : call[g].pc # "found"
  BY DEF Free, PoolIsFree, Allocating, Careful
<1>3. /\ h \in Handles /\ h \in buffer[f] /\ got[f][h] = {} /\ buffer_table[h].used
      /\ \A g \in Files : g # f => h \notin buffer[g]
  BY <1>1, <1>2 DEF TypeOK, CallInv, CallOK, MarkInv
<1>4. /\ ReturnMemory(buffer_table[h])
      /\ buffer_table' = [buffer_table EXCEPT ![h] = Empty]
      /\ buffer' = [buffer EXCEPT ![f] = @ \ {h}]
  BY <1>3 DEF Free, Unmarked
<1>5. /\ call' \in [Files -> CallRecords]
      /\ call'[f].pc = "idle" /\ \A g \in Files : g # f => call'[g] = call[g]
  BY <1>1, <1>2, Goes, Records
<1>6. \A g \in Files : got[g][h] = {}
  BY <1>1, <1>3 DEF MarkInv, KeepsBuffer
<1>7. /\ Empty \in [used : BOOLEAN, locked : BOOLEAN, type : Types,
                    kaddr : Cells \cup {NULL}, size : Nat]
      /\ Empty.type = "none" /\ Empty.kaddr = NULL /\ Empty.size = 0
  BY DEF Empty, Types
<1>8. /\ buffer' \in [Files -> SUBSET Handles]
      /\ \A g \in Files : buffer'[g] = buffer[g] \ {h}
  BY <1>1, <1>3, <1>4 DEF TypeOK
<1>9. \A g \in Files :
        \/ call'[g] = call[g]
           /\ (call[g].h # h \/ call[g].pc \in {"closed", "idle", "release"})
        \/ call'[g].pc = "idle" /\ call[g].pc # "allocated"
  BY <1>1, <1>2, <1>3, <1>5 DEF TypeOK, PCs, CallInv, CallOK
<1>10. \A g \in Files : buffer'[g] = buffer[g] \ {h} /\ got[g][h] = {}
  BY <1>6, <1>8
<1> HIDE DEF h
<1> QED BY <1>2, <1>3, <1>4, <1>5, <1>7, <1>8, <1>9, <1>10, EntryGoneOK, ZenonT(60)

LEMMA ReleaseEntryOK ==
  ASSUME CareInv, NEW f \in Files, ReleaseEntry(f)
  PROVE  CareInv'
<1> DEFINE h == Lowest(Orphaned(f))
<1>1. TypeOK /\ MarkInv /\ CallInv /\ SerialInv
  BY DEF CareInv
<1>2. /\ call[f].pc = "release" /\ ReturnMemory(buffer_table[h])
      /\ buffer_table' = [buffer_table EXCEPT ![h] = Cleared(h)]
      /\ buffer' = [buffer EXCEPT ![f] = @ \ {h}]
      /\ UNCHANGED <<call, got>>
  BY DEF ReleaseEntry, Unmarked
<1>3. h \in buffer[f]
  <2>1. Orphaned(f) # {} BY DEF ReleaseEntry
  <2>2. Orphaned(f) \subseteq buffer[f] /\ buffer[f] \subseteq Nat
    BY <1>1, Records DEF Orphaned, TypeOK
  <2> QED BY <2>1, <2>2, LowestIn
<1>4. /\ h \in Handles /\ buffer_table[h].used
      /\ \A g \in Files : g # f => h \notin buffer[g]
  BY <1>1, <1>3 DEF TypeOK, MarkInv
<1>5. \A g \in Files : call[g].pc # "found"
  BY <1>1, <1>2 DEF SerialInv
<1>6. \A g \in Files : got[g][h] = {}
  BY <1>1, <1>2, <1>4 DEF MarkInv, KeepsBuffer
<1>7. /\ Cleared(h) \in [used : BOOLEAN, locked : BOOLEAN, type : Types,
                         kaddr : Cells \cup {NULL}, size : Nat]
      /\ Cleared(h).type = "none" /\ Cleared(h).kaddr = NULL /\ Cleared(h).size = 0
  BY <1>1, <1>4 DEF Cleared, Empty, Types, TypeOK
<1>8. /\ buffer' \in [Files -> SUBSET Handles]
      /\ \A g \in Files : buffer'[g] = buffer[g] \ {h}
  BY <1>1, <1>2, <1>4 DEF TypeOK
<1>9. /\ call' \in [Files -> CallRecords]
      /\ \A g \in Files :
           \/ call'[g] = call[g]
              /\ (call[g].h # h \/ call[g].pc \in {"closed", "idle", "release"})
           \/ call'[g].pc = "idle" /\ call[g].pc # "allocated"
  <2> HIDE DEF h
  <2>1. call' = call /\ call \in [Files -> CallRecords]
    BY <1>1, <1>2 DEF TypeOK, CallRecords
  <2> SUFFICES ASSUME NEW g \in Files, call[g].pc \notin {"closed", "idle", "release"}
      PROVE  call[g].h # h
    BY <2>1
  <2>2. call[g].pc \in PCs BY <2>1 DEF CallRecords
  <2>3. call[g].h \in buffer[g] BY <1>1, <2>2 DEF CallInv, CallOK, PCs
  <2> QED BY <1>2, <1>4, <2>3
<1>10. \A g \in Files : buffer'[g] = buffer[g] \ {h} /\ got[g][h] = {}
  BY <1>6, <1>8
<1> HIDE DEF h
<1> QED BY <1>2, <1>4, <1>5, <1>7, <1>8, <1>9, <1>10, EntryGoneOK, ZenonT(60)

LEMMA FreelockEntryOK ==
  ASSUME Careful, CareInv, NEW h \in Handles, FreelockEntry(h)
  PROVE  CareInv'
<1>1. TypeOK /\ MarkInv
  BY DEF CareInv
<1>2. /\ \A f \in Files : call[f].pc = "closed"
      /\ ReturnMemory(buffer_table[h])
      /\ buffer_table' = [buffer_table EXCEPT ![h] = Cleared(h)]
      /\ UNCHANGED <<buffer, call, got>>
  BY DEF FreelockEntry, Careful, Private
<1>3. \A f \in Files : got[f][h] = {} /\ buffer'[f] = buffer[f] \ {h}
  BY <1>1, <1>2 DEF MarkInv
<1>4. /\ Cleared(h) \in [used : BOOLEAN, locked : BOOLEAN, type : Types,
                         kaddr : Cells \cup {NULL}, size : Nat]
      /\ Cleared(h).type = "none" /\ Cleared(h).kaddr = NULL /\ Cleared(h).size = 0
  BY <1>1 DEF Cleared, Empty, Types, TypeOK
<1>5. buffer' \in [Files -> SUBSET Handles] /\ call' \in [Files -> CallRecords]
  BY <1>1, <1>2 DEF TypeOK, CallRecords
<1> QED BY <1>2, <1>3, <1>4, <1>5, EntryGoneOK

LEMMA CloseOK ==
  ASSUME Careful, CareInv, NEW f \in Files, Close(f)
  PROVE  CareInv'
<1> DEFINE c == [Idle EXCEPT !.pc = "release"]
<1>1. TypeOK /\ RangesInv /\ EntryInv /\ MarkInv /\ CallInv /\ SerialInv /\ HolderInv
  BY DEF CareInv
<1>2. /\ call[f].pc \in {"idle", "free"} /\ Goto(f, c)
      /\ \A g \in Files : call[g].pc # "found"
      /\ got' = [got EXCEPT ![f] = [h \in Handles |-> {}]]
      /\ UNCHANGED <<buffer_table, buffer, pool, kernel>>
  BY DEF Close, PoolIsFree, Allocating, Careful
<1>3. c \in CallRecords /\ c.pc = "release"
  BY Records DEF CallRecords, PCs
<1> HIDE DEF c
<1>4. /\ call' \in [Files -> CallRecords]
      /\ call'[f] = c /\ \A g \in Files : g # f => call'[g] = call[g]
  BY <1>1, <1>2, <1>3, Goes
<1>5. /\ got' \in [Files -> [Handles -> SUBSET Cells]]
      /\ \A h \in Handles : got'[f][h] = {}
      /\ \A g \in Files : g # f => got'[g] = got[g]
  BY <1>1, <1>2 DEF TypeOK
<1>6. TypeOK' BY <1>1, <1>2, <1>4, <1>5 DEF TypeOK, CallRecords
<1>7. RangesInv' BY <1>1, <1>2 DEF RangesInv
<1>8. EntryInv' BY <1>1, <1>2 DEF EntryInv
<1>9. KeepsBuffer'
  <2> SUFFICES ASSUME NEW g \in Files, NEW k \in Handles, got'[g][k] # {}
      PROVE  /\ buffer_table[k].used /\ Memory(buffer_table[k]) = got'[g][k]
             /\ k \in buffer[g]
    BY <1>2 DEF KeepsBuffer, Memory
  <2> QED BY <1>1, <1>5 DEF MarkInv, KeepsBuffer
<1>10. MarkInv' BY <1>1, <1>2, <1>3, <1>4, <1>5, <1>9 DEF MarkInv
<1>11. CallInv'
  <2> SUFFICES ASSUME NEW g \in Files PROVE CallOK(g)'
    BY DEF CallInv
  <2>1. CASE g = f BY <2>1, <1>3, <1>4 DEF CallOK
  <2>2. CASE g # f
    <3>1. CallOK(g) BY <1>1 DEF CallInv
    <3> QED BY <2>2, <3>1, <1>2, <1>4, <1>5 DEF CallOK
  <2> QED BY <2>1, <2>2
<1>12. SerialInv' BY <1>1, <1>2, <1>3, <1>4 DEF SerialInv
<1>13. HolderInv' BY <1>1, <1>2, <1>3, <1>4, HolderFrame DEF EntryInv
<1> QED BY <1>6, <1>7, <1>8, <1>10, <1>11, <1>12, <1>13 DEF CareInv

LEMMA ReleaseDoneOK ==
  ASSUME CareInv, NEW f \in Files, ReleaseDone(f)
  PROVE  CareInv'
<1>1. TypeOK /\ RangesInv /\ EntryInv /\ MarkInv /\ CallInv /\ SerialInv /\ HolderInv
  BY DEF CareInv
<1>2. /\ call[f].pc = "release" /\ Goto(f, Closed)
      /\ buffer' = [buffer EXCEPT ![f] = {}]
      /\ UNCHANGED <<buffer_table, pool, kernel, got>>
  BY DEF ReleaseDone
<1>3. /\ call' \in [Files -> CallRecords]
      /\ call'[f].pc = "closed" /\ \A g \in Files : g # f => call'[g] = call[g]
  BY <1>1, <1>2, Goes, Records
<1>4. /\ buffer' \in [Files -> SUBSET Handles] /\ buffer'[f] = {}
      /\ \A g \in Files : g # f => buffer'[g] = buffer[g]
  BY <1>1, <1>2 DEF TypeOK
<1>5. TypeOK' BY <1>1, <1>2, <1>3, <1>4 DEF TypeOK, CallRecords
<1>6. RangesInv' BY <1>1, <1>2 DEF RangesInv
<1>7. EntryInv' BY <1>1, <1>2 DEF EntryInv
<1>8. KeepsBuffer'
  <2> SUFFICES ASSUME NEW g \in Files, NEW k \in Handles, got[g][k] # {}
      PROVE  /\ buffer_table[k].used /\ Memory(buffer_table[k]) = got[g][k]
             /\ k \in buffer'[g]
    BY <1>2 DEF KeepsBuffer, Memory
  <2> QED BY <1>1, <1>2, <1>4 DEF MarkInv, KeepsBuffer
<1>9. MarkInv'
  <2>1. \A g \in Files : buffer'[g] \subseteq {k \in Handles : buffer_table'[k].used}
    BY <1>1, <1>2, <1>4 DEF MarkInv
  <2>2. \A g, k \in Files : g # k => buffer'[g] \cap buffer'[k] = {}
    BY <1>1, <1>4 DEF MarkInv
  <2>3. \A g \in Files : call'[g].pc = "closed" => buffer'[g] = {}
    BY <1>1, <1>3, <1>4 DEF MarkInv
  <2>4. \A g \in Files : call'[g].pc \in {"closed", "release"} =>
          \A k \in Handles : got'[g][k] = {}
    BY <1>1, <1>2, <1>3 DEF MarkInv
  <2> QED BY <1>8, <2>1, <2>2, <2>3, <2>4 DEF MarkInv
<1>10. CallInv'
  <2> SUFFICES ASSUME NEW g \in Files PROVE CallOK(g)'
    BY DEF CallInv
  <2>1. CASE g = f BY <2>1, <1>3 DEF CallOK
  <2>2. CASE g # f
    <3>1. CallOK(g) BY <1>1 DEF CallInv
    <3> QED BY <2>2, <3>1, <1>2, <1>3, <1>4 DEF CallOK
  <2> QED BY <2>1, <2>2
<1>11. SerialInv' BY <1>1, <1>3 DEF SerialInv
<1>12. HolderInv' BY <1>1, <1>2, <1>3, HolderFrame DEF EntryInv
<1> QED BY <1>5, <1>6, <1>7, <1>9, <1>10, <1>11, <1>12 DEF CareInv

\* What Carve does to the pool: one more used range, for the file
LEMMA CarvePoolOK ==
  ASSUME CareInv, NEW f \in Files, Carve(f)
  PROVE  /\ PoolOK(pool')
         /\ \E new \in Nodes :
              /\ new \notin pool.used /\ pool'.used = pool.used \cup {new}
              /\ pool'.rng[new] = [base |-> call[f].base, size |-> call[f].count]
              /\ \A m \in pool.used : pool'.rng[m] = pool.rng[m]
<1> DEFINE n == call[f].range
           r == pool.rng[n]
<1>1. TypeOK /\ PoolOK(pool) /\ CallOK(f)
  BY DEF CareInv, RangesInv, CallInv
<1>2. /\ call[f].pc = "found" /\ call[f].type = "BPA"
      /\ n \in pool.free /\ n \in Nodes /\ n \notin pool.used
      /\ call[f].base = r.base /\ 1 <= call[f].count /\ call[f].count <= r.size
      /\ call[f].spare <=> call[f].count < r.size
  BY <1>1 DEF Carve, CallOK, TypeOK
<1>3. Realigned(f) = pool /\ NewNodes(f) = SpareNodes
  BY <1>2 DEF Moved, Realigned, NewNodes
<1>4. /\ r \in [base : Int, size : Int] /\ call[f].count \in Nat
      /\ pool \in [free : SUBSET Nodes, used : SUBSET Nodes,
                  rng : [Nodes -> [base : Int, size : Int]]]
  BY <1>1, <1>2 DEF TypeOK, PoolOK
<1>5. CASE CarveAll(f)
  <2>1. /\ pool' = [pool EXCEPT !.free = @ \ {n}, !.used = @ \cup {n}]
        /\ call[f].count = r.size
    BY <1>2, <1>3, <1>4, <1>5 DEF CarveAll
  <2>2. PoolOK(pool')
    BY <1>1, <1>2, <2>1, CarveAllOK
  <2>3. pool'.used = pool.used \cup {n} /\ pool'.rng = pool.rng
    BY <1>4, <2>1
  <2>4. r = [base |-> call[f].base, size |-> call[f].count]
    BY <1>2, <1>4, <2>1
  <2> QED BY <1>2, <2>2, <2>3, <2>4
<1>6. CASE CarveFirst(f)
  <2> DEFINE new == Lowest(SpareNodes)
  <2>1. new \in Nodes \ Listed(pool)
    <3>1. SpareNodes # {} /\ SpareNodes \subseteq Nat
      BY <1>3, <1>6, NodesAssumption DEF CarveFirst, SpareNodes
    <3> QED BY <3>1, LowestIn DEF SpareNodes, Listed
  <2>2. pool' = [pool EXCEPT
          !.used = @ \cup {new},
          !.rng = [@ EXCEPT
             ![new] = [base |-> call[f].base, size |-> call[f].count],
             ![n] = [base |-> call[f].base + call[f].count,
                     size |-> End(r) - call[f].base - call[f].count]]]
    BY <1>3, <1>6 DEF CarveFirst
  <2> HIDE DEF new
  <2>3. End(r) \in Int /\ call[f].base \in Int /\ r.base \in Int /\ r.size \in Int
    BY <1>2, <1>4 DEF End
  <2>4. /\ pool'.free = pool.free /\ pool'.used = pool.used \cup {new}
        /\ pool'.rng = [pool.rng EXCEPT
             ![new] = [base |-> r.base, size |-> call[f].count],
             ![n] = [base |-> r.base + call[f].count,
                     size |-> End(r) - r.base - call[f].count]]
    BY <1>2, <1>4, <2>2
  <2>5. pool' \in [free : SUBSET Nodes, used : SUBSET Nodes,
                  rng : [Nodes -> [base : Int, size : Int]]]
    <3> DEFINE U == pool.used \cup {new}
               R == [pool.rng EXCEPT
                       ![new] = [base |-> call[f].base, size |-> call[f].count],
                       ![n] = [base |-> call[f].base + call[f].count,
                               size |-> End(r) - call[f].base - call[f].count]]
    <3>1. pool' = [pool EXCEPT !.used = U, !.rng = R] BY <2>2
    <3>2. U \in SUBSET Nodes BY <1>4, <2>1
    <3>3. R \in [Nodes -> [base : Int, size : Int]] BY <1>2, <1>4, <2>1, <2>3
    <3> HIDE DEF U, R
    <3> QED BY <1>4, <3>1, <3>2, <3>3
  <2>6. /\ call[f].spare /\ call[f].count \in Nat \ {0} /\ call[f].count < r.size
    BY <1>2, <1>4, <1>6 DEF CarveFirst
  <2>7. /\ PoolOK(pool')
        /\ pool'.rng[new] = [base |-> r.base, size |-> call[f].count]
        /\ \A m \in pool.used : pool'.rng[m] = pool.rng[m]
    <3>1. PICK q, l, m, count :
            q = pool' /\ l = n /\ m = new /\ count = call[f].count
      OBVIOUS
    <3> HIDE DEF n, r
    <3>2. Cut(pool, q, l, m, count)
      BY <1>2, <2>1, <2>4, <2>5, <2>6, <3>1 DEF Cut, r
    <3>3. PoolOK(q)
      BY <1>1, <3>2, CarveFirstOK
    <3>4. /\ q.rng[m] = [base |-> pool.rng[l].base, size |-> count]
          /\ \A k \in pool.used : q.rng[k] = pool.rng[k]
      BY <1>2, <1>4, <2>1, <3>1, <3>2 DEF Cut, Listed
    <3> QED BY <3>1, <3>3, <3>4 DEF r
  <2> QED BY <1>2, <2>1, <2>4, <2>7 DEF Listed
<1> QED BY <1>5, <1>6 DEF Carve

LEMMA CarveOK ==
  ASSUME CareInv, NEW f \in Files, Carve(f)
  PROVE  CareInv'
<1> DEFINE c == [call[f] EXCEPT !.pc = "allocated", !.range = NULL, !.spare = FALSE]
<1>1. TypeOK /\ RangesInv /\ EntryInv /\ MarkInv /\ CallInv /\ SerialInv /\ HolderInv
  BY DEF CareInv
<1>2. /\ call[f].pc = "found" /\ Goto(f, c)
      /\ UNCHANGED <<buffer_table, buffer, kernel, got>>
  BY DEF Carve
<1>3. PICK new \in Nodes :
        /\ new \notin pool.used /\ pool'.used = pool.used \cup {new}
        /\ pool'.rng[new] = [base |-> call[f].base, size |-> call[f].count]
        /\ \A m \in pool.used : pool'.rng[m] = pool.rng[m]
  BY CarvePoolOK
<1>4. /\ c \in CallRecords /\ c.pc = "allocated" /\ c.h = call[f].h
      /\ c.type = call[f].type /\ c.type = "BPA"
      /\ c.base = call[f].base /\ c.count = call[f].count
  <2>1. call[f] \in CallRecords BY <1>1 DEF TypeOK, CallRecords
  <2>2. call[f].type = "BPA" BY <1>1, <1>2 DEF CallInv, CallOK
  <2> QED BY <2>1, <2>2 DEF CallRecords, PCs
<1> HIDE DEF c
<1>5. /\ call' \in [Files -> CallRecords]
      /\ call'[f] = c /\ \A g \in Files : g # f => call'[g] = call[g]
  BY <1>1, <1>2, <1>4, Goes
<1>6. PoolOK(pool') /\ RangesInv'
  BY CarvePoolOK DEF RangesInv
<1>7. TypeOK'
  <2>1. /\ pool'.free \subseteq Nodes /\ pool'.used \subseteq Nodes
        /\ pool'.free \cap pool'.used = {}
        /\ pool'.rng \in [Nodes -> [base : Int, size : Int]]
    BY <1>6 DEF PoolOK
  <2> QED BY <1>1, <1>2, <1>5, <2>1 DEF TypeOK, CallRecords
<1>8. EntryInv' BY <1>1, <1>2 DEF EntryInv
<1>9. MarkInv' BY <1>1, <1>2, <1>4, <1>5 DEF MarkInv, KeepsBuffer, Memory
<1>10. CallInv'
  <2> SUFFICES ASSUME NEW g \in Files PROVE CallOK(g)'
    BY DEF CallInv
  <2>1. CallOK(g) BY <1>1 DEF CallInv
  <2>2. CASE g = f
    <3>1. call'[g] = c BY <2>2, <1>5
    <3> QED BY <2>1, <2>2, <3>1, <1>2, <1>4 DEF CallOK
  <2>3. CASE g # f
    <3>1. call[g].pc # "found" BY <2>3, <1>1, <1>2 DEF SerialInv
    <3> QED BY <2>1, <2>3, <3>1, <1>2, <1>5 DEF CallOK
  <2> QED BY <2>2, <2>3
<1>11. SerialInv' BY <1>1, <1>4, <1>5 DEF SerialInv
\* The new range is none that another holder has.
<1>12. \A m \in pool.used : pool.rng[m].base # call[f].base
  <2> SUFFICES ASSUME NEW m \in pool.used, pool.rng[m].base = call[f].base PROVE FALSE
    OBVIOUS
  <2>1. pool'.rng[m] = pool.rng[m] /\ pool'.rng[new].base = call[f].base
    BY <1>3
  <2>2. /\ m \in Listed(pool') /\ new \in Listed(pool') /\ m # new
        /\ m \in Nodes /\ pool'.rng[m] \in [base : Int, size : Int]
        /\ pool'.rng[new] \in [base : Int, size : Int]
    BY <1>1, <1>3, <1>6 DEF Listed, PoolOK, TypeOK
  <2>3. /\ Disjoint(pool'.rng[m], pool'.rng[new])
        /\ 1 <= pool'.rng[m].size /\ 1 <= pool'.rng[new].size
    BY <1>6, <2>2 DEF PoolOK
  <2> QED BY <2>1, <2>2, <2>3 DEF Disjoint, End
<1>13. call[f].base \in Nat /\ call[f].base < PoolSize
  <2>1. new \in Listed(pool') BY <1>3 DEF Listed
  <2>2. 0 <= call[f].base /\ 1 <= call[f].count /\ End(pool'.rng[new]) <= PoolSize
    BY <1>3, <1>6, <2>1 DEF PoolOK
  <2>3. End(pool'.rng[new]) = call[f].base + call[f].count
    BY <1>3 DEF End
  <2>4. call[f].base \in Int /\ call[f].count \in Int
    BY <1>1 DEF TypeOK
  <2> QED BY <2>2, <2>3, <2>4, TableAssumption
<1>14. \A b \in kernel : b # call[f].base
  <2>1. call[f].base \in Pages BY <1>13, TableAssumption DEF Pages
  <2> QED BY <1>1, <2>1 DEF TypeOK
<1>15. \A h \in Handles : buffer_table[h].type # "none" => buffer_table[h].kaddr # call[f].base
  <2> SUFFICES ASSUME NEW h \in Handles, buffer_table[h].type # "none"
      PROVE  buffer_table[h].kaddr # call[f].base
    OBVIOUS
  <2>1. CASE buffer_table[h].type = "GFP"
    BY <2>1, <1>1, <1>14 DEF EntryInv
  <2>2. CASE buffer_table[h].type = "BPA"
    <3>1. PICK m \in pool.used :
            pool.rng[m] = [base |-> buffer_table[h].kaddr, size |-> buffer_table[h].size]
      BY <2>2, <1>1 DEF HolderInv
    <3> QED BY <3>1, <1>12
  <2> QED BY <2>1, <2>2, <1>1 DEF TypeOK, Types
<1>16. \A g \in Files : call[g].pc = "allocated" => call[g].base # call[f].base
  <2> SUFFICES ASSUME NEW g \in Files, call[g].pc = "allocated"
      PROVE  call[g].base # call[f].base
    OBVIOUS
  <2>0. CallOK(g) BY <1>1 DEF CallInv
  <2>1. CASE call[g].type = "GFP" BY <2>0, <2>1, <1>14 DEF CallOK
  <2>2. CASE call[g].type = "BPA"
    <3>1. PICK m \in pool.used : pool.rng[m] = [base |-> call[g].base, size |-> call[g].count]
      BY <2>2, <1>1 DEF HolderInv
    <3> QED BY <3>1, <1>12
  <2> QED BY <2>0, <2>1, <2>2, <1>1 DEF TypeOK, Types, CallOK
<1>17. ASSUME NEW base, NEW size, HasMemory(base, size) PROVE HasMemory(base, size)'
  BY <1>2, <1>5, <1>17 DEF HasMemory
<1>18. HolderInv'
  <2>1. \A h \in Handles : buffer_table'[h].type = "BPA" =>
          \E n \in pool'.used : pool'.rng[n] =
            [base |-> buffer_table'[h].kaddr, size |-> buffer_table'[h].size]
    BY <1>1, <1>2, <1>3 DEF HolderInv
  <2>2. \A g \in Files : call'[g].pc = "allocated" /\ call'[g].type = "BPA" =>
          \E n \in pool'.used : pool'.rng[n] =
            [base |-> call'[g].base, size |-> call'[g].count]
    BY <1>1, <1>3, <1>4, <1>5 DEF HolderInv
  <2>3. ASSUME NEW m \in pool'.used
        PROVE  HasMemory(pool.rng[m].base, pool.rng[m].size)'
    <3>1. CASE m = new BY <3>1, <1>3, <1>4, <1>5 DEF HasMemory
    <3>2. CASE m # new
      <4>1. m \in pool.used /\ pool'.rng[m] = pool.rng[m] BY <3>2, <1>3, <2>3
      <4> QED BY <4>1, <1>1, <1>17 DEF HolderInv
    <3> QED BY <3>1, <3>2
  <2>4. \A h, k \in Handles :
          buffer_table'[h].type # "none" /\ buffer_table'[k].type # "none" /\ h # k =>
            buffer_table'[h].kaddr # buffer_table'[k].kaddr
    BY <1>1, <1>2 DEF HolderInv
  <2>5. \A h \in Handles, g \in Files :
          buffer_table'[h].type # "none" /\ call'[g].pc = "allocated" =>
            buffer_table'[h].kaddr # call'[g].base
    BY <1>1, <1>2, <1>4, <1>5, <1>15 DEF HolderInv
  <2>6. \A g, k \in Files :
          call'[g].pc = "allocated" /\ call'[k].pc = "allocated" /\ g # k =>
            call'[g].base # call'[k].base
    BY <1>1, <1>4, <1>5, <1>16 DEF HolderInv
  <2> QED BY <2>1, <2>2, <2>3, <2>4, <2>5, <2>6 DEF HolderInv
<1> QED BY <1>6, <1>7, <1>8, <1>9, <1>10, <1>11, <1>18 DEF CareInv

\* The memory of a buffer is made of cells; an entry without memory has none.
LEMMA MemoryCells ==
  ASSUME TypeOK, RangesInv, CallInv, HolderInv
  PROVE  \A f \in Files : call[f].pc = "allocated" =>
           /\ call[f].base \in Cells /\ call[f].count \in Nat
           /\ call[f].base .. call[f].base + call[f].count - 1 \subseteq Cells
<1> SUFFICES ASSUME NEW f \in Files, call[f].pc = "allocated"
    PROVE  /\ call[f].base \in Cells /\ call[f].count \in Nat
           /\ call[f].base .. call[f].base + call[f].count - 1 \subseteq Cells
  OBVIOUS
<1>1. CallOK(f) /\ call[f].type \in Types /\ call[f].count \in Nat
  BY DEF CallInv, TypeOK
<1>2. CASE call[f].type = "GFP"
  <2>1. call[f].base \in Cells /\ call[f].count = 1
    BY <1>1, <1>2 DEF CallOK, TypeOK
  <2>2. call[f].base \in Int /\ call[f].base .. call[f].base = {call[f].base}
    BY <2>1, TableAssumption DEF Cells
  <2>3. call[f].base + call[f].count - 1 = call[f].base
    BY <2>1, <2>2
  <2> QED BY <2>1, <2>2, <2>3
<1>3. CASE call[f].type = "BPA"
  <2>1. /\ call[f].base \in Nat /\ call[f].count \in Nat \ {0}
        /\ call[f].base + call[f].count <= PoolSize
    BY <1>3, HolderCells
  <2> QED BY <2>1, TableAssumption DEF Cells
<1> QED BY <1>1, <1>2, <1>3 DEF CallOK, Types

LEMMA FillOK ==
  ASSUME CareInv, NEW f \in Files, NEW copied \in BOOLEAN, Fill(f, copied)
  PROVE  CareInv'
<1> DEFINE h == call[f].h
           e == [used |-> buffer_table[h].used, locked |-> FALSE, type |-> call[f].type,
                 kaddr |-> call[f].base, size |-> call[f].count]
<1>1. TypeOK /\ RangesInv /\ EntryInv /\ MarkInv /\ CallInv /\ SerialInv /\ HolderInv
  BY DEF CareInv
<1>2. /\ call[f].pc = "allocated" /\ Goto(f, Idle)
      /\ buffer_table' = [buffer_table EXCEPT ![h] = e]
      /\ got' = IF copied THEN [got EXCEPT ![f][h] = Memory(e)] ELSE got
      /\ UNCHANGED <<buffer, pool, kernel>>
  BY DEF Fill
<1>3. /\ h \in Handles /\ h \in buffer[f]
      /\ buffer_table[h].type = "none" /\ buffer_table[h].used
      /\ \A g \in Files : g # f => h \notin buffer[g]
      /\ call[f].type \in Types \ {"none"}
      /\ call[f].type = "GFP" => call[f].base \in kernel /\ call[f].count = 1
  BY <1>1, <1>2 DEF TypeOK, CallInv, CallOK, MarkInv
<1>4. call[f].base \in Cells /\ call[f].count \in Nat /\ Memory(e) \subseteq Cells
  BY <1>1, <1>2, MemoryCells DEF Memory
<1>5. /\ e \in [used : BOOLEAN, locked : BOOLEAN, type : Types,
                kaddr : Cells \cup {NULL}, size : Nat]
      /\ e.used /\ ~e.locked /\ e.type = call[f].type
      /\ e.kaddr = call[f].base /\ e.size = call[f].count
  <2>1. buffer_table[h].used \in BOOLEAN BY <1>1, <1>3 DEF TypeOK
  <2> QED BY <1>3, <1>4, <2>1
<1> HIDE DEF e, h
<1>6. /\ call' \in [Files -> CallRecords]
      /\ call'[f].pc = "idle" /\ \A g \in Files : g # f => call'[g] = call[g]
  BY <1>1, <1>2, Goes, Records
<1>7. /\ buffer_table' \in
           [Handles -> [used : BOOLEAN, locked : BOOLEAN, type : Types,
                        kaddr : Cells \cup {NULL}, size : Nat]]
      /\ \A k \in Handles : k # h => buffer_table'[k] = buffer_table[k]
      /\ buffer_table'[h] = e
  BY <1>1, <1>2, <1>3, <1>5 DEF TypeOK
<1>8. got[f][h] = {}
  <2>1. buffer_table[h].kaddr = -1 /\ buffer_table[h].size = 0
    BY <1>1, <1>3 DEF EntryInv, NULL
  <2>2. Memory(buffer_table[h]) = {} BY <2>1 DEF Memory
  <2> QED BY <1>1, <1>3, <2>2 DEF MarkInv, KeepsBuffer
<1>9. /\ got' \in [Files -> [Handles -> SUBSET Cells]]
      /\ got'[f][h] \in {{}, Memory(e)}
      /\ \A k \in Handles : k # h => got'[f][k] = got[f][k]
      /\ \A g \in Files : g # f => got'[g] = got[g]
  <2>1. CASE copied BY <2>1, <1>1, <1>2, <1>3, <1>4 DEF TypeOK
  <2>2. CASE ~copied BY <2>2, <1>1, <1>2, <1>8 DEF TypeOK
  <2> QED BY <2>1, <2>2
<1>10. TypeOK' BY <1>1, <1>2, <1>6, <1>7, <1>9 DEF TypeOK, CallRecords
<1>11. RangesInv' BY <1>1, <1>2 DEF RangesInv
<1>12. EntryInv'
  <2>1. e.type \in Types \ {"none"} /\ (e.type = "GFP" => e.kaddr \in kernel /\ e.size = 1)
    BY <1>3, <1>5
  <2> QED BY <1>1, <1>2, <1>5, <1>7, <2>1 DEF EntryInv
<1>13. KeepsBuffer'
  <2> SUFFICES ASSUME NEW g \in Files, NEW k \in Handles, got'[g][k] # {}
      PROVE  /\ buffer_table'[k].used /\ Memory(buffer_table'[k]) = got'[g][k]
             /\ k \in buffer[g]
    BY <1>2 DEF KeepsBuffer, Memory
  <2>1. CASE g = f /\ k = h BY <2>1, <1>3, <1>5, <1>7, <1>9
  <2>2. CASE ~(g = f /\ k = h)
    <3>1. got[g][k] # {} /\ got'[g][k] = got[g][k] BY <2>2, <1>9
    <3>2. /\ buffer_table[k].used /\ Memory(buffer_table[k]) = got[g][k]
          /\ k \in buffer[g]
      BY <3>1, <1>1 DEF MarkInv, KeepsBuffer
    <3>3. k # h BY <2>2, <3>2, <1>3
    <3> QED BY <3>1, <3>2, <3>3, <1>7
  <2> QED BY <2>1, <2>2
<1>14. MarkInv'
  <2>1. \A g \in Files : buffer'[g] \subseteq {k \in Handles : buffer_table'[k].used}
    BY <1>1, <1>2, <1>5, <1>7 DEF MarkInv
  <2>2. \A g, k \in Files : g # k => buffer'[g] \cap buffer'[k] = {}
    BY <1>1, <1>2 DEF MarkInv
  <2>3. \A g \in Files : call'[g].pc = "closed" => buffer'[g] = {}
    BY <1>1, <1>2, <1>6 DEF MarkInv
  <2>4. \A g \in Files : call'[g].pc \in {"closed", "release"} =>
          \A k \in Handles : got'[g][k] = {}
    BY <1>1, <1>6, <1>9 DEF MarkInv
  <2> QED BY <1>13, <2>1, <2>2, <2>3, <2>4 DEF MarkInv
<1>15. CallInv'
  <2> SUFFICES ASSUME NEW g \in Files PROVE CallOK(g)'
    BY DEF CallInv
  <2>1. CASE g = f BY <2>1, <1>6 DEF CallOK
  <2>2. CASE g # f
    <3>1. CallOK(g) /\ call[g].h \in Handles BY <1>1 DEF CallInv, TypeOK
    <3>2. call[g].pc = "allocated" /\ call[g].type = "GFP" => call[g].base \in kernel
      BY <3>1 DEF CallOK
    <3> QED BY <2>2, <3>1, <3>2, <1>2, <1>3, <1>6, <1>7, <1>9, CallFrame
  <2> QED BY <2>1, <2>2
<1>16. SerialInv' BY <1>1, <1>6 DEF SerialInv
\* The entry holds what the call held.
<1>17. ASSUME NEW base, NEW size, HasMemory(base, size) PROVE HasMemory(base, size)'
  <2>1. CASE \E k \in Handles : /\ buffer_table[k].used /\ buffer_table[k].type = "BPA"
                                /\ buffer_table[k].kaddr = base /\ buffer_table[k].size = size
    BY <2>1, <1>3, <1>7 DEF HasMemory
  <2>2. CASE \E g \in Files : /\ call[g].pc = "allocated" /\ call[g].type = "BPA"
                              /\ call[g].base = base /\ call[g].count = size
    BY <2>2, <1>3, <1>5, <1>6, <1>7 DEF HasMemory
  <2> QED BY <1>17, <2>1, <2>2 DEF HasMemory
<1>18. HolderInv'
  <2>1. ASSUME NEW k \in Handles, buffer_table'[k].type = "BPA"
        PROVE  \E n \in pool'.used : pool'.rng[n] =
                 [base |-> buffer_table'[k].kaddr, size |-> buffer_table'[k].size]
    <3>1. CASE k = h BY <2>1, <3>1, <1>1, <1>2, <1>5, <1>7 DEF HolderInv
    <3>2. CASE k # h BY <2>1, <3>2, <1>1, <1>2, <1>7 DEF HolderInv
    <3> QED BY <3>1, <3>2
  <2>2. \A g \in Files : call'[g].pc = "allocated" => g # f /\ call'[g] = call[g]
    BY <1>6
  <2>3. \A k \in Handles : k # h /\ buffer_table'[k].type # "none" =>
          /\ buffer_table[k].type # "none" /\ buffer_table'[k] = buffer_table[k]
          /\ buffer_table[k].kaddr # e.kaddr
    BY <1>1, <1>2, <1>5, <1>7 DEF HolderInv
  <2>4. \A g \in Files : call'[g].pc = "allocated" => call'[g].base # e.kaddr
    BY <1>1, <1>2, <1>5, <2>2 DEF HolderInv
  <2>5. \A j, k \in Handles :
          buffer_table'[j].type # "none" /\ buffer_table'[k].type # "none" /\ j # k =>
            buffer_table'[j].kaddr # buffer_table'[k].kaddr
    BY <1>1, <1>7, <2>3 DEF HolderInv
  <2>6. \A k \in Handles, g \in Files :
          buffer_table'[k].type # "none" /\ call'[g].pc = "allocated" =>
            buffer_table'[k].kaddr # call'[g].base
    BY <1>1, <1>7, <2>2, <2>3, <2>4 DEF HolderInv
  <2> QED BY <1>1, <1>2, <1>17, <2>1, <2>2, <2>5, <2>6 DEF HolderInv
<1> QED BY <1>10, <1>11, <1>12, <1>14, <1>15, <1>16, <1>18 DEF CareInv

-----------------------------------------------------------------------------
(* The invariant holds in every state.                                     *)

LEMMA InitOK == Init => CareInv
<1> SUFFICES ASSUME Init PROVE CareInv
  OBVIOUS
<1>1. First \in Nodes
  BY NodesAssumption, NatMin DEF First
<1>2. /\ pool \in [free : SUBSET Nodes, used : SUBSET Nodes,
                  rng : [Nodes -> [base : Int, size : Int]]]
      /\ pool.free = {First} /\ pool.used = {}
      /\ pool.rng[First].base = 0 /\ pool.rng[First].size = PoolSize
  BY <1>1, TableAssumption DEF Init, NoRange, NULL
<1>3. /\ buffer_table \in
           [Handles -> [used : BOOLEAN, locked : BOOLEAN, type : Types,
                        kaddr : Cells \cup {NULL}, size : Nat]]
      /\ \A h \in Handles : /\ buffer_table[h].type = "none" /\ buffer_table[h].size = 0
                             /\ buffer_table[h].kaddr = NULL
  BY DEF Init, Empty, Types
<1>4. /\ call \in [Files -> CallRecords]
      /\ \A f \in Files : call[f].pc = "closed"
  BY Records DEF Init
<1>5. /\ buffer \in [Files -> SUBSET Handles] /\ kernel = {}
      /\ \A f \in Files : buffer[f] = {}
      /\ got \in [Files -> [Handles -> SUBSET Cells]]
      /\ \A f \in Files : \A h \in Handles : got[f][h] = {}
  BY DEF Init
<1>6. TypeOK BY <1>1, <1>2, <1>3, <1>4, <1>5 DEF TypeOK, CallRecords
<1>7. RangesInv
  <2>1. Listed(pool) = {First} BY <1>2 DEF Listed
  <2>2. End(pool.rng[First]) = PoolSize BY <1>2, TableAssumption DEF End
  <2> QED BY <1>2, <2>1, <2>2, TableAssumption DEF RangesInv, PoolOK, Pages
<1>8. EntryInv BY <1>3 DEF EntryInv
<1>9. MarkInv BY <1>5 DEF MarkInv, KeepsBuffer
<1>10. CallInv BY <1>4 DEF CallInv, CallOK
<1>11. SerialInv BY <1>4 DEF SerialInv
<1>12. HolderInv BY <1>2, <1>3, <1>4 DEF HolderInv
<1> QED BY <1>6, <1>7, <1>8, <1>9, <1>10, <1>11, <1>12 DEF CareInv

LEMMA StutterOK ==
  ASSUME CareInv, UNCHANGED vars
  PROVE  CareInv'
<1> USE DEF vars
<1>1. TypeOK' BY DEF CareInv, TypeOK
<1>2. RangesInv' BY DEF CareInv, RangesInv
<1>3. EntryInv' BY DEF CareInv, EntryInv
<1>4. MarkInv' BY DEF CareInv, MarkInv, KeepsBuffer, Memory
<1>5. CallInv' BY DEF CareInv, CallInv, CallOK
<1>6. SerialInv' BY DEF CareInv, SerialInv
<1>7. HolderInv' BY HolderFrame DEF CareInv, EntryInv
<1> QED BY <1>1, <1>2, <1>3, <1>4, <1>5, <1>6, <1>7 DEF CareInv

LEMMA NextOK ==
  ASSUME Careful, CareInv, Next
  PROVE  CareInv'
<1>1. ASSUME NEW f \in Files, Open(f) PROVE CareInv'
  BY <1>1, IdleOK DEF Open
<1>2. ASSUME NEW f \in Files, Get(f) PROVE CareInv'
  <2>1. ASSUME NEW count \in Counts, GetReserve(f, "BPA", count) PROVE CareInv'
    BY <2>1, GetReserveOK, CountsAssumption DEF Types
  <2>2. ASSUME NEW type \in {"none", "GFP"}, GetReserve(f, type, 0) PROVE CareInv'
    BY <2>2, GetReserveOK DEF Types
  <2>3. ASSUME NEW b \in PoolSize .. PoolSize + Blocks - 1, GetKernel(f, b) PROVE CareInv'
    BY <2>3, GetKernelOK
  <2>4. ASSUME NEW copied \in BOOLEAN, Fill(f, copied) PROVE CareInv'
    BY <2>4, FillOK
  <2>5. CASE GetUndefined(f) BY <2>5, IdleOK DEF GetUndefined
  <2>6. CASE Search(f) BY <2>6, SearchOK
  <2>7. CASE Carve(f) BY <2>7, CarveOK
  <2>8. CASE GetFails(f) BY <2>8, GetFailsOK
  <2> QED BY <1>2, <2>1, <2>2, <2>3, <2>4, <2>5, <2>6, <2>7, <2>8 DEF Get
<1>3. ASSUME NEW f \in Files, SetLock(f) \/ Free(f) PROVE CareInv'
  BY <1>3, SetLockOK, FreeOK
<1>4. ASSUME NEW f \in Files, NEW h \in Handles, NEW op \in {"lock", "unlock", "free"},
             Ask(f, h, op)
      PROVE  CareInv'
  BY <1>4, AskOK
<1>5. ASSUME NEW f \in Files, NEW h \in Handles, FreeLocked(f, h) PROVE CareInv'
  BY <1>5, FreeLockedOK
<1>6. ASSUME NEW f \in Files, Close(f) \/ ReleaseEntry(f) \/ ReleaseDone(f) PROVE CareInv'
  BY <1>6, CloseOK, ReleaseEntryOK, ReleaseDoneOK
<1>7. ASSUME NEW h \in Handles, FreelockEntry(h) PROVE CareInv'
  BY <1>7, FreelockEntryOK
<1> QED BY <1>1, <1>2, <1>3, <1>4, <1>5, <1>6, <1>7 DEF Next

(* Where the callers see to it, every state is in order.                   *)
THEOREM CarefulInvariant ==
  ASSUME Careful
  PROVE  Spec => []CareInv
<1>1. Init => CareInv BY InitOK
<1>2. CareInv /\ [Next]_vars => CareInv'
  BY NextOK, StutterOK
<1> QED BY <1>1, <1>2, PTL DEF Spec

-----------------------------------------------------------------------------
(* What follows from the invariant.                                        *)

\* A buffer with memory has cells; an entry without memory has none.
LEMMA EntryMemory ==
  ASSUME CareInv, NEW h \in Handles
  PROVE  /\ buffer_table[h].type = "none" => Memory(buffer_table[h]) = {}
         /\ buffer_table[h].type # "none" =>
              /\ Memory(buffer_table[h]) # {} /\ Memory(buffer_table[h]) \subseteq Cells
              /\ buffer_table[h].used
         /\ buffer_table[h].type = "GFP" =>
              /\ Memory(buffer_table[h]) = {buffer_table[h].kaddr}
              /\ buffer_table[h].kaddr \in Cells \ Pages
         /\ buffer_table[h].type = "BPA" => Memory(buffer_table[h]) \subseteq Pages
<1> DEFINE e == buffer_table[h]
<1>1. TypeOK /\ RangesInv /\ EntryInv /\ HolderInv
  BY DEF CareInv
<1>2. CASE e.type = "none"
  <2>1. e.kaddr = -1 /\ e.size = 0 BY <1>1, <1>2 DEF EntryInv, NULL
  <2> QED BY <1>2, <2>1 DEF Memory
<1>3. CASE e.type = "GFP"
  <2>1. e.kaddr \in Cells \ Pages /\ e.size = 1 /\ e.used
    BY <1>1, <1>3 DEF EntryInv, TypeOK
  <2>2. e.kaddr \in Int BY <2>1, TableAssumption DEF Cells
  <2>3. Memory(e) = e.kaddr .. e.kaddr BY <2>1, <2>2 DEF Memory
  <2>4. Memory(e) = {e.kaddr} BY <2>2, <2>3
  <2> HIDE DEF e
  <2> QED BY <1>3, <2>1, <2>4 DEF e
<1>4. CASE e.type = "BPA"
  <2>1. e.kaddr \in Nat /\ e.size \in Nat \ {0} /\ e.kaddr + e.size <= PoolSize
    BY <1>1, <1>4, HolderCells
  <2>2. e.kaddr \in Memory(e) BY <2>1 DEF Memory
  <2>3. Memory(e) \subseteq Pages /\ Memory(e) \subseteq Cells
    BY <2>1, TableAssumption DEF Memory, Pages, Cells
  <2>4. e.used BY <1>1, <1>4 DEF EntryInv
  <2> QED BY <1>4, <2>2, <2>3, <2>4
<1> QED BY <1>1, <1>2, <1>3, <1>4 DEF TypeOK, Types

\* No two entries have a cell in common.
LEMMA EntriesApart ==
  ASSUME CareInv, NEW h \in Handles, NEW k \in Handles, h # k
  PROVE  Memory(buffer_table[h]) \cap Memory(buffer_table[k]) = {}
<1> DEFINE d == buffer_table[h]
           e == buffer_table[k]
<1>1. TypeOK /\ RangesInv /\ HolderInv
  BY DEF CareInv
<1>2. CASE d.type = "none" \/ e.type = "none"
  BY <1>2, EntryMemory
<1>3. CASE d.type # "none" /\ e.type # "none"
  <2>1. d.kaddr # e.kaddr BY <1>1, <1>3 DEF HolderInv
  <2>2. CASE d.type = "GFP" /\ e.type = "GFP"
    BY <2>1, <2>2, EntryMemory
  <2>3. CASE d.type = "GFP" /\ e.type = "BPA"
    BY <2>3, EntryMemory
  <2>4. CASE d.type = "BPA" /\ e.type = "GFP"
    BY <2>4, EntryMemory
  <2>5. CASE d.type = "BPA" /\ e.type = "BPA"
    <3>1. PICK m \in pool.used : pool.rng[m] = [base |-> d.kaddr, size |-> d.size]
      BY <1>1, <2>5 DEF HolderInv
    <3>2. PICK n \in pool.used : pool.rng[n] = [base |-> e.kaddr, size |-> e.size]
      BY <1>1, <2>5 DEF HolderInv
    <3>3. Disjoint(pool.rng[m], pool.rng[n])
      BY <1>1, <2>1, <3>1, <3>2 DEF RangesInv, PoolOK, Listed
    <3>4. /\ pool.rng[m].base = d.kaddr /\ pool.rng[m].size = d.size
          /\ pool.rng[n].base = e.kaddr /\ pool.rng[n].size = e.size
      BY <3>1, <3>2
    <3>5. /\ d.kaddr \in Nat /\ d.size \in Nat \ {0}
          /\ e.kaddr \in Nat /\ e.size \in Nat \ {0}
      BY <1>1, <2>5, HolderCells
    <3>6. d.kaddr + d.size <= e.kaddr \/ e.kaddr + e.size <= d.kaddr
      BY <3>3, <3>4 DEF Disjoint, End
    <3> QED BY <3>5, <3>6 DEF Memory
  <2> QED BY <1>1, <1>3, <2>2, <2>3, <2>4, <2>5 DEF TypeOK, Types
<1> QED BY <1>2, <1>3

LEMMA Shares ==
  ASSUME CareInv
  PROVE  NoSharedMemory
<1> SUFFICES ASSUME NEW f \in Files, NEW g \in Files, NEW h \in Handles, NEW k \in Handles,
                    <<f, h>> # <<g, k>>
    PROVE  got[f][h] \cap got[g][k] = {}
  BY DEF NoSharedMemory
<1>1. MarkInv BY DEF CareInv
<1>2. CASE got[f][h] = {} \/ got[g][k] = {} BY <1>2
<1>3. CASE got[f][h] # {} /\ got[g][k] # {}
  <2>1. /\ Memory(buffer_table[h]) = got[f][h] /\ h \in buffer[f]
        /\ Memory(buffer_table[k]) = got[g][k] /\ k \in buffer[g]
    BY <1>1, <1>3 DEF MarkInv, KeepsBuffer
  <2>2. h # k BY <1>1, <2>1 DEF MarkInv
  <2> QED BY <2>1, <2>2, EntriesApart
<1> QED BY <1>2, <1>3

LEMMA Conserves ==
  ASSUME CareInv
  PROVE  PoolConserved
<1>1. TypeOK /\ RangesInv /\ HolderInv BY DEF CareInv
<1>2. ASSUME NEW p \in Pages
      PROVE  \E n \in pool.free \cup pool.used :
               /\ pool.rng[n].base <= p /\ p < End(pool.rng[n])
               /\ \A m \in (pool.free \cup pool.used) \ {n} :
                    ~(pool.rng[m].base <= p /\ p < End(pool.rng[m]))
  <2>1. PICK n \in Listed(pool) : pool.rng[n].base <= p /\ p < End(pool.rng[n])
    BY <1>1 DEF RangesInv, PoolOK
  <2>2. ASSUME NEW m \in Listed(pool), m # n
        PROVE  ~(pool.rng[m].base <= p /\ p < End(pool.rng[m]))
    <3>1. Disjoint(pool.rng[m], pool.rng[n])
      BY <1>1, <2>2 DEF RangesInv, PoolOK
    <3>2. /\ pool.rng[m].base \in Int /\ End(pool.rng[m]) \in Int
          /\ pool.rng[n].base \in Int /\ End(pool.rng[n]) \in Int /\ p \in Int
      BY <1>1 DEF RangesInv, PoolOK, Listed, End, Pages
    <3> QED BY <2>1, <3>1, <3>2 DEF Disjoint
  <2> QED BY <2>1, <2>2 DEF Listed
<1>3. \A n \in pool.used : HasMemory(pool.rng[n].base, pool.rng[n].size)
  BY <1>1 DEF HolderInv
<1>4. \A m, n \in pool.free : End(pool.rng[m]) # pool.rng[n].base
  BY <1>1 DEF RangesInv, PoolOK
<1> QED BY <1>2, <1>3, <1>4 DEF PoolConserved

(* The variables keep their types: a handle is one of the table, a range   *)
(* is in one list at most, memory that files get is memory there is.       *)
THEOREM TypesKept ==
  ASSUME Careful
  PROVE  Spec => []TypeOK
<1>1. CareInv => TypeOK BY DEF CareInv
<1> QED BY <1>1, CarefulInvariant, PTL

(* No two buffers that files got share memory while the callers take turns *)
(* at the pool.                                                            *)
LEMMA NeverShared ==
  ASSUME Careful
  PROVE  Spec => []NoSharedMemory
<1>1. CareInv => NoSharedMemory BY Shares
<1> QED BY <1>1, CarefulInvariant, PTL

(* The pool loses no page, and no free run of pages is left split.         *)
THEOREM PoolKept ==
  ASSUME Careful
  PROVE  Spec => []PoolConserved
<1>1. CareInv => PoolConserved BY Conserves
<1> QED BY <1>1, CarefulInvariant, PTL

-----------------------------------------------------------------------------
(* A buffer stays with its file however the lists of the pool are used.    *)
(* What happens to the lists is left open here: two callers may take the   *)
(* same range, so nothing is said of where the memory is.                  *)

EntryFields == {"used", "locked", "type", "kaddr", "size"}
CallFields  == {"pc", "h", "type", "count", "base", "range", "spare"}

ShapeInv ==
  /\ DOMAIN buffer_table = Handles /\ DOMAIN call = Files
  /\ buffer \in [Files -> SUBSET Handles]
  /\ DOMAIN got = Files /\ \A f \in Files : DOMAIN got[f] = Handles
  /\ \A h \in Handles : DOMAIN buffer_table[h] = EntryFields
  /\ \A f \in Files : DOMAIN call[f] = CallFields /\ call[f].h \in Handles

\* A call that is under way has the mark of its entry; while memory is got
\* for the entry, or it is about to be freed, the file does not use it.
HandleInv ==
  \A f \in Files : LET c == call[f] IN
    /\ c.pc \in {"reserved", "found", "allocated", "lock", "unlock", "free"} =>
         c.h \in buffer[f]
    /\ c.pc \in {"reserved", "found", "allocated", "free"} => got[f][c.h] = {}

KeepInv == ShapeInv /\ MarkInv /\ HandleInv

LEMMA Shapes ==
  /\ DOMAIN Empty = EntryFields /\ ~Empty.used
  /\ DOMAIN Closed = CallFields /\ Closed.pc = "closed" /\ Closed.h = 0
  /\ DOMAIN Idle = CallFields /\ Idle.pc = "idle" /\ Idle.h = 0
  /\ 0 \in Handles /\ Handles \subseteq Nat
BY Records DEF Empty, Closed, Idle, EntryFields, CallFields

LEMMA CallGoes ==
  ASSUME ShapeInv, NEW f \in Files, NEW c, Goto(f, c), DOMAIN c = CallFields, c.h \in Handles
  PROVE  /\ DOMAIN call' = Files
         /\ call'[f] = c /\ \A g \in Files : g # f => call'[g] = call[g]
         /\ \A g \in Files : DOMAIN call'[g] = CallFields /\ call'[g].h \in Handles
BY DEF ShapeInv, Goto

\* A call that goes on with its entry, and leaves the table and the marks
LEMMA KeepsGoing ==
  ASSUME KeepInv, NEW f \in Files, NEW pc, NEW c, Goto(f, c),
         DOMAIN c = CallFields, c.h \in Handles, c.pc = pc,
         UNCHANGED <<buffer_table, buffer, got>>,
         pc \notin {"closed", "release"},
         \/ pc = "idle"
         \/ /\ call[f].pc \in {"reserved", "found"} /\ pc \in {"found", "allocated"}
            /\ c.h = call[f].h
  PROVE  KeepInv'
<1>1. /\ DOMAIN call' = Files
      /\ call'[f] = c /\ \A g \in Files : g # f => call'[g] = call[g]
      /\ \A g \in Files : DOMAIN call'[g] = CallFields /\ call'[g].h \in Handles
  BY CallGoes DEF KeepInv
<1>2. ShapeInv' BY <1>1 DEF KeepInv, ShapeInv
<1>3. MarkInv' BY <1>1 DEF KeepInv, MarkInv, KeepsBuffer, Memory
<1>4. HandleInv' BY <1>1 DEF KeepInv, HandleInv
<1> QED BY <1>2, <1>3, <1>4 DEF KeepInv

LEMMA KeepsReserve ==
  ASSUME KeepInv, NEW f \in Files, NEW type, NEW count, GetReserve(f, type, count)
  PROVE  KeepInv'
<1> DEFINE h == Lowest(Unused)
           c == [Idle EXCEPT !.pc = "reserved", !.h = h, !.type = type, !.count = count]
<1>1. h \in Handles /\ ~buffer_table[h].used
  BY LowestIn, Shapes DEF GetReserve, Unused
<1>2. /\ buffer_table' = [buffer_table EXCEPT ![h].used = TRUE]
      /\ buffer' = [buffer EXCEPT ![f] = @ \cup {h}]
      /\ Goto(f, c) /\ UNCHANGED got
  BY DEF GetReserve
<1> HIDE DEF h
<1>3. DOMAIN c = CallFields /\ c.pc = "reserved" /\ c.h = h
  BY Shapes DEF CallFields
<1> HIDE DEF c
<1>4. /\ DOMAIN call' = Files
      /\ call'[f] = c /\ \A g \in Files : g # f => call'[g] = call[g]
      /\ \A g \in Files : DOMAIN call'[g] = CallFields /\ call'[g].h \in Handles
  BY <1>1, <1>2, <1>3, CallGoes DEF KeepInv
<1>5. /\ DOMAIN buffer_table' = Handles
      /\ \A k \in Handles : DOMAIN buffer_table'[k] = EntryFields
      /\ \A k \in Handles : k # h => buffer_table'[k] = buffer_table[k]
      /\ buffer_table'[h].used
  BY <1>1, <1>2 DEF KeepInv, ShapeInv, EntryFields
<1>6. /\ buffer' \in [Files -> SUBSET Handles]
      /\ buffer'[f] = buffer[f] \cup {h}
      /\ \A g \in Files : g # f => buffer'[g] = buffer[g]
      /\ \A g \in Files : h \notin buffer[g] /\ got[g][h] = {}
  BY <1>1, <1>2 DEF KeepInv, ShapeInv, MarkInv, KeepsBuffer
<1>7. ShapeInv' BY <1>2, <1>4, <1>5, <1>6 DEF KeepInv, ShapeInv
<1>8. KeepsBuffer' BY <1>1, <1>2, <1>5, <1>6 DEF KeepInv, MarkInv, KeepsBuffer, Memory
<1>9. MarkInv'
  <2>1. \A g \in Files : buffer'[g] \subseteq {k \in Handles : buffer_table'[k].used}
    BY <1>1, <1>5, <1>6 DEF KeepInv, MarkInv
  <2>2. \A g, k \in Files : g # k => buffer'[g] \cap buffer'[k] = {}
    BY <1>6 DEF KeepInv, MarkInv
  <2>3. \A g \in Files : call'[g].pc = "closed" => buffer'[g] = {}
    BY <1>3, <1>4, <1>6 DEF KeepInv, MarkInv
  <2>4. \A g \in Files : call'[g].pc \in {"closed", "release"} =>
          \A k \in Handles : got'[g][k] = {}
    BY <1>2, <1>3, <1>4 DEF KeepInv, MarkInv
  <2> QED BY <1>8, <2>1, <2>2, <2>3, <2>4 DEF MarkInv
<1>10. HandleInv' BY <1>1, <1>2, <1>3, <1>4, <1>6 DEF KeepInv, HandleInv
<1> QED BY <1>7, <1>9, <1>10 DEF KeepInv

\* An entry that its file gives back, with the mark, while it does not use it
LEMMA KeepsGone ==
  ASSUME KeepInv, NEW f \in Files, NEW h \in buffer[f], NEW e,
         DOMAIN e = EntryFields, \A k \in Handles : k = h => got[f][k] = {},
         buffer_table' = [buffer_table EXCEPT ![h] = e],
         buffer' = [buffer EXCEPT ![f] = @ \ {h}], UNCHANGED got,
         \/ UNCHANGED call /\ call[f].pc = "release"
         \/ Goto(f, Idle)
  PROVE  KeepInv'
<1>1. h \in Handles /\ \A g \in Files : g # f => h \notin buffer[g]
  BY DEF KeepInv, ShapeInv, MarkInv
<1>2. \A g \in Files : got[g][h] = {}
  BY <1>1 DEF KeepInv, MarkInv, KeepsBuffer
<1>3. /\ DOMAIN call' = Files
      /\ \A g \in Files : g # f => call'[g] = call[g]
      /\ \A g \in Files : DOMAIN call'[g] = CallFields /\ call'[g].h \in Handles
      /\ call'[f].pc \in {"release", "idle"} /\ (call'[f].pc = "release" => call[f].pc = "release")
  BY CallGoes, Shapes DEF KeepInv, ShapeInv
<1>4. /\ DOMAIN buffer_table' = Handles
      /\ \A k \in Handles : DOMAIN buffer_table'[k] = EntryFields
      /\ \A k \in Handles : k # h => buffer_table'[k] = buffer_table[k]
  BY <1>1 DEF KeepInv, ShapeInv
<1>5. /\ buffer' \in [Files -> SUBSET Handles]
      /\ buffer'[f] = buffer[f] \ {h}
      /\ \A g \in Files : g # f => buffer'[g] = buffer[g]
  BY DEF KeepInv, ShapeInv
<1>6. ShapeInv' BY <1>3, <1>4, <1>5 DEF KeepInv, ShapeInv
<1>7. KeepsBuffer' BY <1>1, <1>2, <1>4, <1>5 DEF KeepInv, MarkInv, KeepsBuffer, Memory
<1>8. MarkInv'
  <2>1. \A g \in Files : buffer'[g] \subseteq {k \in Handles : buffer_table'[k].used}
    BY <1>1, <1>4, <1>5 DEF KeepInv, MarkInv
  <2>2. \A g, k \in Files : g # k => buffer'[g] \cap buffer'[k] = {}
    BY <1>5 DEF KeepInv, MarkInv
  <2>3. \A g \in Files : call'[g].pc = "closed" => buffer'[g] = {}
    BY <1>3, <1>5 DEF KeepInv, MarkInv
  <2>4. \A g \in Files : call'[g].pc \in {"closed", "release"} =>
          \A k \in Handles : got'[g][k] = {}
    BY <1>3 DEF KeepInv, MarkInv
  <2> QED BY <1>7, <2>1, <2>2, <2>3, <2>4 DEF MarkInv
<1>9. HandleInv'
  <2> SUFFICES ASSUME NEW g \in Files
               PROVE  LET c == call'[g] IN
                 /\ c.pc \in {"reserved", "found", "allocated", "lock", "unlock", "free"} =>
                      c.h \in buffer'[g]
                 /\ c.pc \in {"reserved", "found", "allocated", "free"} => got'[g][c.h] = {}
    BY DEF HandleInv
  <2>1. CASE g = f BY <2>1, <1>3
  <2>2. CASE g # f BY <2>2, <1>3, <1>5 DEF KeepInv, HandleInv
  <2> QED BY <2>1, <2>2
<1> QED BY <1>6, <1>8, <1>9 DEF KeepInv

LEMMA KeepsFill ==
  ASSUME KeepInv, NEW f \in Files, NEW copied \in BOOLEAN, Fill(f, copied)
  PROVE  KeepInv'
<1> DEFINE h == call[f].h
           e == [used |-> buffer_table[h].used, locked |-> FALSE, type |-> call[f].type,
                 kaddr |-> call[f].base, size |-> call[f].count]
<1>1. /\ call[f].pc = "allocated" /\ Goto(f, Idle) /\ UNCHANGED buffer
      /\ buffer_table' = [buffer_table EXCEPT ![h] = e]
      /\ got' = IF copied THEN [got EXCEPT ![f][h] = Memory(e)] ELSE got
  BY DEF Fill
<1>2. /\ h \in Handles /\ h \in buffer[f] /\ got[f][h] = {}
      /\ \A g \in Files : g # f => h \notin buffer[g] /\ got[g][h] = {}
      /\ buffer_table[h].used
  BY <1>1 DEF KeepInv, ShapeInv, HandleInv, MarkInv, KeepsBuffer
<1>3. DOMAIN e = EntryFields /\ e.used = buffer_table[h].used BY DEF EntryFields
<1> HIDE DEF h, e
<1>4. /\ DOMAIN call' = Files
      /\ call'[f].pc = "idle" /\ \A g \in Files : g # f => call'[g] = call[g]
      /\ \A g \in Files : DOMAIN call'[g] = CallFields /\ call'[g].h \in Handles
  BY <1>1, CallGoes, Shapes DEF KeepInv
<1>5. /\ DOMAIN buffer_table' = Handles /\ buffer_table'[h] = e
      /\ \A k \in Handles : DOMAIN buffer_table'[k] = EntryFields
      /\ \A k \in Handles : k # h => buffer_table'[k] = buffer_table[k]
      /\ \A k \in Handles : buffer_table'[k].used = buffer_table[k].used
  BY <1>1, <1>2, <1>3 DEF KeepInv, ShapeInv
<1>6. /\ DOMAIN got' = Files /\ \A g \in Files : DOMAIN got'[g] = Handles
      /\ \A g \in Files : g # f => got'[g] = got[g]
      /\ \A k \in Handles : k # h => got'[f][k] = got[f][k]
      /\ got'[f][h] \in {{}, Memory(e)}
  BY <1>1, <1>2 DEF KeepInv, ShapeInv
<1>7. ShapeInv' BY <1>1, <1>4, <1>5, <1>6 DEF KeepInv, ShapeInv
<1>8. KeepsBuffer'
  <2> SUFFICES ASSUME NEW g \in Files, NEW k \in Handles, got'[g][k] # {}
               PROVE  /\ buffer_table'[k].used /\ Memory(buffer_table'[k]) = got'[g][k]
                      /\ k \in buffer[g]
    BY <1>1 DEF KeepsBuffer, Memory
  <2>1. CASE k = h BY <1>2, <1>3, <1>5, <1>6, <2>1
  <2>2. CASE k # h
    <3>1. got'[g][k] = got[g][k] /\ buffer_table'[k] = buffer_table[k]
      BY <1>5, <1>6, <2>2
    <3> QED BY <3>1 DEF KeepInv, MarkInv, KeepsBuffer
  <2> QED BY <2>1, <2>2
<1>9. MarkInv' BY <1>1, <1>4, <1>5, <1>6, <1>8 DEF KeepInv, MarkInv
<1>10. HandleInv' BY <1>1, <1>4, <1>6 DEF KeepInv, HandleInv
<1> QED BY <1>7, <1>9, <1>10 DEF KeepInv

LEMMA KeepsSetLock ==
  ASSUME KeepInv, NEW f \in Files, SetLock(f)
  PROVE  KeepInv'
<1> DEFINE h == call[f].h
           on == (call[f].pc = "lock")
<1>1. /\ Goto(f, Idle) /\ UNCHANGED <<buffer, got>> /\ h \in Handles
      /\ buffer_table' = [buffer_table EXCEPT ![h].locked = on]
  BY DEF SetLock, KeepInv, ShapeInv
<1> HIDE DEF h, on
<1>2. /\ DOMAIN call' = Files
      /\ call'[f].pc = "idle" /\ \A g \in Files : g # f => call'[g] = call[g]
      /\ \A g \in Files : DOMAIN call'[g] = CallFields /\ call'[g].h \in Handles
  BY <1>1, CallGoes, Shapes DEF KeepInv
<1>3. /\ DOMAIN buffer_table' = Handles
      /\ \A k \in Handles : /\ DOMAIN buffer_table'[k] = EntryFields
                            /\ buffer_table'[k].used = buffer_table[k].used
                            /\ buffer_table'[k].kaddr = buffer_table[k].kaddr
                            /\ buffer_table'[k].size = buffer_table[k].size
  BY <1>1 DEF KeepInv, ShapeInv, EntryFields
<1>4. ShapeInv' BY <1>1, <1>2, <1>3 DEF KeepInv, ShapeInv
<1>5. KeepsBuffer' BY <1>1, <1>3 DEF KeepInv, MarkInv, KeepsBuffer, Memory
<1>6. MarkInv' BY <1>1, <1>2, <1>3, <1>5 DEF KeepInv, MarkInv
<1>7. HandleInv' BY <1>1, <1>2 DEF KeepInv, HandleInv
<1> QED BY <1>4, <1>6, <1>7 DEF KeepInv

LEMMA KeepsAsk ==
  ASSUME Private, KeepInv, NEW f \in Files, NEW h \in Handles,
         NEW op \in {"lock", "unlock", "free"}, Ask(f, h, op) \/ FreeLocked(f, h)
  PROVE  KeepInv'
<1>1. /\ got[f][h] # {} /\ call[f].pc = "idle" /\ UNCHANGED <<buffer_table, buffer>>
  BY DEF Ask, FreeLocked, Known, Private
<1>2. h \in buffer[f] BY <1>1 DEF KeepInv, MarkInv, KeepsBuffer
<1>3. /\ DOMAIN got' = Files /\ \A g \in Files : DOMAIN got'[g] = Handles
      /\ \A g \in Files : g # f => got'[g] = got[g]
      /\ \A k \in Handles : got'[f][k] \in {got[f][k], {}}
  BY DEF Ask, FreeLocked, KeepInv, ShapeInv
<1>4. /\ DOMAIN call' = Files
      /\ \A g \in Files : g # f => call'[g] = call[g]
      /\ \A g \in Files : DOMAIN call'[g] = CallFields /\ call'[g].h \in Handles
      /\ \/ call'[f].pc = "idle"
         \/ /\ call'[f].pc = op /\ call'[f].h = h
            /\ op = "free" => got'[f][h] = {}
  <2>1. CASE FreeLocked(f, h) BY <1>1, <2>1 DEF FreeLocked, KeepInv, ShapeInv
  <2>2. CASE Ask(f, h, op)
    <3> DEFINE c == [Idle EXCEPT !.pc = op, !.h = h]
    <3>1. Goto(f, c) /\ got' = IF op = "free" THEN [got EXCEPT ![f][h] = {}] ELSE got
      BY <2>2 DEF Ask
    <3>2. DOMAIN c = CallFields /\ c.pc = op /\ c.h = h BY Shapes DEF CallFields
    <3> HIDE DEF c
    <3>3. op = "free" => got'[f][h] = {} BY <3>1 DEF KeepInv, ShapeInv
    <3> QED BY <3>1, <3>2, <3>3, CallGoes DEF KeepInv
  <2> QED BY <2>1, <2>2
<1>5. ShapeInv' BY <1>1, <1>3, <1>4 DEF KeepInv, ShapeInv
<1>6. KeepsBuffer' BY <1>1, <1>3 DEF KeepInv, MarkInv, KeepsBuffer, Memory
<1>7. MarkInv' BY <1>1, <1>3, <1>4, <1>6 DEF KeepInv, MarkInv
<1>8. HandleInv'
  <2> SUFFICES ASSUME NEW g \in Files
               PROVE  LET c == call'[g] IN
                 /\ c.pc \in {"reserved", "found", "allocated", "lock", "unlock", "free"} =>
                      c.h \in buffer'[g]
                 /\ c.pc \in {"reserved", "found", "allocated", "free"} => got'[g][c.h] = {}
    BY DEF HandleInv
  <2>1. CASE g = f BY <2>1, <1>1, <1>2, <1>4
  <2>2. CASE g # f BY <2>2, <1>1, <1>3, <1>4 DEF KeepInv, HandleInv
  <2> QED BY <2>1, <2>2
<1> QED BY <1>5, <1>7, <1>8 DEF KeepInv

LEMMA KeepsClose ==
  ASSUME KeepInv, NEW f \in Files, Close(f)
  PROVE  KeepInv'
<1> DEFINE c == [Idle EXCEPT !.pc = "release"]
<1>1. /\ Goto(f, c) /\ UNCHANGED <<buffer_table, buffer>>
      /\ got' = [got EXCEPT ![f] = [h \in Handles |-> {}]]
  BY DEF Close
<1>2. DOMAIN c = CallFields /\ c.pc = "release" /\ c.h \in Handles
  BY Shapes DEF CallFields
<1> HIDE DEF c
<1>3. /\ DOMAIN call' = Files
      /\ call'[f] = c /\ \A g \in Files : g # f => call'[g] = call[g]
      /\ \A g \in Files : DOMAIN call'[g] = CallFields /\ call'[g].h \in Handles
  BY <1>1, <1>2, CallGoes DEF KeepInv
<1>4. /\ DOMAIN got' = Files /\ \A g \in Files : DOMAIN got'[g] = Handles
      /\ \A g \in Files : g # f => got'[g] = got[g]
      /\ \A h \in Handles : got'[f][h] = {}
  BY <1>1 DEF KeepInv, ShapeInv
<1>5. ShapeInv' BY <1>1, <1>3, <1>4 DEF KeepInv, ShapeInv
<1>6. KeepsBuffer' BY <1>1, <1>4 DEF KeepInv, MarkInv, KeepsBuffer, Memory
<1>7. MarkInv' BY <1>1, <1>2, <1>3, <1>4, <1>6 DEF KeepInv, MarkInv
<1>8. HandleInv' BY <1>1, <1>2, <1>3, <1>4 DEF KeepInv, HandleInv
<1> QED BY <1>5, <1>7, <1>8 DEF KeepInv

LEMMA KeepsReleased ==
  ASSUME KeepInv, NEW f \in Files, ReleaseDone(f)
  PROVE  KeepInv'
<1>1. /\ call[f].pc = "release" /\ Goto(f, Closed) /\ UNCHANGED <<buffer_table, got>>
      /\ buffer' = [buffer EXCEPT ![f] = {}]
  BY DEF ReleaseDone
<1>2. /\ DOMAIN call' = Files
      /\ call'[f].pc = "closed" /\ \A g \in Files : g # f => call'[g] = call[g]
      /\ \A g \in Files : DOMAIN call'[g] = CallFields /\ call'[g].h \in Handles
  BY <1>1, CallGoes, Shapes DEF KeepInv
<1>3. /\ buffer' \in [Files -> SUBSET Handles] /\ buffer'[f] = {}
      /\ \A g \in Files : g # f => buffer'[g] = buffer[g]
      /\ \A h \in Handles : got[f][h] = {}
  BY <1>1 DEF KeepInv, ShapeInv, MarkInv
<1>4. ShapeInv' BY <1>1, <1>2, <1>3 DEF KeepInv, ShapeInv
<1>5. KeepsBuffer' BY <1>1, <1>3 DEF KeepInv, MarkInv, KeepsBuffer, Memory
<1>6. MarkInv' BY <1>1, <1>2, <1>3, <1>5 DEF KeepInv, MarkInv
<1>7. HandleInv' BY <1>1, <1>2, <1>3 DEF KeepInv, HandleInv
<1> QED BY <1>4, <1>6, <1>7 DEF KeepInv

\* While no file is open, no file has a mark or a buffer to lose.
LEMMA KeepsFreelock ==
  ASSUME Private, KeepInv, NEW h \in Handles, FreelockEntry(h)
  PROVE  KeepInv'
<1>1. /\ \A f \in Files : call[f].pc = "closed"
      /\ buffer_table' = [buffer_table EXCEPT ![h] = Cleared(h)]
      /\ UNCHANGED <<buffer, call, got>>
  BY DEF FreelockEntry, Private
<1>2. \A f \in Files : buffer[f] = {} /\ \A k \in Handles : got[f][k] = {}
  BY <1>1 DEF KeepInv, MarkInv
<1>3. DOMAIN Cleared(h) = EntryFields BY Shapes DEF Cleared
<1>4. ShapeInv' BY <1>1, <1>3 DEF KeepInv, ShapeInv
<1>5. MarkInv' BY <1>1, <1>2 DEF KeepInv, MarkInv, KeepsBuffer
<1>6. HandleInv' BY <1>1 DEF KeepInv, HandleInv
<1> QED BY <1>4, <1>5, <1>6 DEF KeepInv

LEMMA KeepsNext ==
  ASSUME Private
  PROVE  KeepInv /\ [Next]_vars => KeepInv'
<1> SUFFICES ASSUME KeepInv, [Next]_vars PROVE KeepInv' OBVIOUS
<1>1. CASE UNCHANGED vars
  BY <1>1 DEF KeepInv, ShapeInv, MarkInv, HandleInv, KeepsBuffer, Memory, vars
<1>2. ASSUME NEW f \in Files, Open(f) \/ GetUndefined(f) PROVE KeepInv'
  BY <1>2, KeepsGoing, Shapes DEF Open, GetUndefined
<1>3. ASSUME NEW f \in Files, NEW b, GetKernel(f, b) \/ Search(f) \/ Carve(f)
      PROVE  KeepInv'
  <2>1. /\ DOMAIN call[f] = CallFields /\ call[f].h \in Handles
    BY DEF KeepInv, ShapeInv
  <2>2. CASE GetKernel(f, b)
    <3> DEFINE c == [call[f] EXCEPT !.pc = "allocated", !.base = b, !.count = 1]
    <3>1. Goto(f, c) /\ call[f].pc = "reserved" /\ UNCHANGED <<buffer_table, buffer, got>>
      BY <2>2 DEF GetKernel
    <3>2. DOMAIN c = CallFields /\ c.h = call[f].h /\ c.pc = "allocated"
      BY <2>1 DEF CallFields
    <3> HIDE DEF c
    <3> QED BY <2>1, <3>1, <3>2, KeepsGoing
  <2>3. CASE Search(f)
    <3> DEFINE c == [call[f] EXCEPT
                   !.pc = "found", !.range = FirstFit(call[f].count),
                   !.base = pool.rng[FirstFit(call[f].count)].base,
                   !.spare = call[f].count < pool.rng[FirstFit(call[f].count)].size]
    <3>1. Goto(f, c) /\ call[f].pc = "reserved" /\ UNCHANGED <<buffer_table, buffer, got>>
      BY <2>3 DEF Search
    <3>2. DOMAIN c = CallFields /\ c.h = call[f].h /\ c.pc = "found"
      BY <2>1 DEF CallFields
    <3> HIDE DEF c
    <3> QED BY <2>1, <3>1, <3>2, KeepsGoing
  <2>4. CASE Carve(f)
    <3> DEFINE c == [call[f] EXCEPT !.pc = "allocated", !.range = NULL, !.spare = FALSE]
    <3>1. Goto(f, c) /\ call[f].pc = "found" /\ UNCHANGED <<buffer_table, buffer, got>>
      BY <2>4 DEF Carve
    <3>2. DOMAIN c = CallFields /\ c.h = call[f].h /\ c.pc = "allocated"
      BY <2>1 DEF CallFields
    <3> HIDE DEF c
    <3> QED BY <2>1, <3>1, <3>2, KeepsGoing
  <2> QED BY <1>3, <2>2, <2>3, <2>4
<1>4. ASSUME NEW f \in Files, GetFails(f) PROVE KeepInv'
  <2> DEFINE h == call[f].h
             e == [buffer_table[h] EXCEPT !.used = FALSE]
  <2>1. /\ call[f].pc \in {"reserved", "found"} /\ Goto(f, Idle) /\ UNCHANGED got
        /\ buffer_table' = [buffer_table EXCEPT ![h] = e]
        /\ buffer' = [buffer EXCEPT ![f] = @ \ {h}]
    BY <1>4 DEF GetFails
  <2>2. h \in buffer[f] /\ got[f][h] = {} BY <2>1 DEF KeepInv, HandleInv
  <2>3. DOMAIN e = EntryFields BY DEF KeepInv, ShapeInv
  <2> HIDE DEF h, e
  <2> QED BY <2>1, <2>2, <2>3, KeepsGone
<1>5. ASSUME NEW f \in Files, Free(f) PROVE KeepInv'
  <2> DEFINE h == call[f].h
  <2>1. /\ call[f].pc = "free" /\ Goto(f, Idle) /\ UNCHANGED got
        /\ buffer_table[h].used =>
             /\ buffer_table' = [buffer_table EXCEPT ![h] = Empty]
             /\ buffer' = [buffer EXCEPT ![f] = @ \ {h}]
    BY <1>5 DEF Free, Unmarked
  <2>2. h \in buffer[f] /\ got[f][h] = {} /\ buffer_table[h].used
    BY <2>1 DEF KeepInv, HandleInv, MarkInv
  <2> HIDE DEF h
  <2> QED BY <2>1, <2>2, KeepsGone, Shapes
<1>6. ASSUME NEW f \in Files, ReleaseEntry(f) PROVE KeepInv'
  <2> DEFINE h == Lowest(Orphaned(f))
  <2>1. /\ call[f].pc = "release" /\ UNCHANGED <<call, got>>
        /\ buffer_table' = [buffer_table EXCEPT ![h] = Cleared(h)]
        /\ buffer' = [buffer EXCEPT ![f] = @ \ {h}]
    BY <1>6 DEF ReleaseEntry, Unmarked
  <2>2. h \in buffer[f]
    <3>1. Orphaned(f) \subseteq buffer[f] /\ Orphaned(f) \subseteq Nat /\ Orphaned(f) # {}
      BY <1>6, Shapes DEF Orphaned, ReleaseEntry, KeepInv, ShapeInv
    <3> QED BY <3>1, LowestIn
  <2>3. DOMAIN Cleared(h) = EntryFields BY Shapes DEF Cleared
  <2>4. \A k \in Handles : got[f][k] = {} BY <2>1 DEF KeepInv, MarkInv
  <2> HIDE DEF h
  <2> QED BY <2>1, <2>2, <2>3, <2>4, KeepsGone
<1> QED
  BY <1>1, <1>2, <1>3, <1>4, <1>5, <1>6, KeepsReserve, KeepsFill, KeepsSetLock, KeepsAsk,
     KeepsClose, KeepsReleased, KeepsFreelock DEF Next, Get

LEMMA KeepsInit == Init => KeepInv
<1> SUFFICES ASSUME Init PROVE KeepInv OBVIOUS
<1>1. ShapeInv BY Shapes DEF Init, ShapeInv
<1>2. MarkInv BY Shapes DEF Init, MarkInv, KeepsBuffer
<1>3. HandleInv BY Shapes DEF Init, HandleInv
<1> QED BY <1>1, <1>2, <1>3 DEF KeepInv

(* A buffer that a file got stays in the table, with its memory and under  *)
(* the file's mark, until the file frees it or ends: whatever interleaves  *)
(* with a GET that has reserved its entry and not filled it, or with a     *)
(* release that has freed some entries, and however the callers use the    *)
(* pool, alone or at the same time.                                        *)
THEOREM BuffersKept ==
  ASSUME Private
  PROVE  Spec => []KeepsBuffer
<1>1. KeepInv => KeepsBuffer BY DEF KeepInv, MarkInv
<1> QED BY <1>1, KeepsInit, KeepsNext, PTL DEF Spec

-----------------------------------------------------------------------------
(***************************************************************************)
(* The refinement.  Every step maps to a step of the pool of buffers, or   *)
(* to none.  The mapping looks at the memory of the entries and at the     *)
(* marks, so a cell has the owner of the one entry it is in.               *)
(***************************************************************************)

\* What owner and locked say of the cells of an entry, and of other cells
Maps(table, marks, own, lock) ==
  /\ own = [c \in Cells |-> own[c]] /\ lock \subseteq Cells
  /\ \A h \in Handles : Memory(table[h]) = {} <=> table[h].type = "none"
  /\ \A h \in Handles : \A c \in Memory(table[h]) :
       /\ c \in Cells
       /\ \A k \in Handles : k # h => c \notin Memory(table[k])
       /\ \A f \in Files : h \in marks[f] => own[c] = f
       /\ (\A f \in Files : h \notin marks[f]) => own[c] = "kept"
       /\ c \in lock <=> table[h].locked
  /\ \A c \in Cells : (\A h \in Handles : c \notin Memory(table[h])) =>
       own[c] = "free" /\ c \notin lock

OwnerFacts == Maps(buffer_table, buffer, owner, locked)

LEMMA OwnerIs == CareInv => OwnerFacts
<1> SUFFICES ASSUME CareInv PROVE OwnerFacts
  OBVIOUS
<1>1. owner = [c \in Cells |-> owner[c]] /\ locked \subseteq Cells
  BY DEF owner, locked
<1>2. \A c \in Cells : owner[c] =
        IF \E f \in Files : Has(f, c) THEN CHOOSE f \in Files : Has(f, c)
        ELSE IF \E h \in Filled : c \in Memory(buffer_table[h]) THEN "kept"
        ELSE "free"
  BY DEF owner
<1>3. ASSUME NEW h \in Handles, NEW c \in Memory(buffer_table[h])
      PROVE  /\ c \in Cells /\ h \in Filled
             /\ \A k \in Handles : k # h => c \notin Memory(buffer_table[k])
  <2>1. buffer_table[h].type # "none" BY <1>3, EntryMemory
  <2> QED BY <1>3, <2>1, EntryMemory, EntriesApart DEF Filled
<1>4. ASSUME NEW h \in Handles, NEW c \in Memory(buffer_table[h])
      PROVE  \A f \in Files : Has(f, c) <=> h \in buffer[f]
  BY <1>3, <1>4 DEF Has, Filled
<1>5. ASSUME NEW h \in Handles, NEW c \in Memory(buffer_table[h]),
             NEW f \in Files, h \in buffer[f]
      PROVE  owner[c] = f
  <2>1. c \in Cells /\ Has(f, c) BY <1>3, <1>4, <1>5
  <2>2. \A g \in Files : Has(g, c) => g = f
    BY <1>4, <1>5 DEF CareInv, MarkInv
  <2> QED BY <1>2, <2>1, <2>2
<1>6. ASSUME NEW h \in Handles, NEW c \in Memory(buffer_table[h]),
             \A f \in Files : h \notin buffer[f]
      PROVE  owner[c] = "kept"
  BY <1>2, <1>3, <1>4, <1>6
<1>7. ASSUME NEW h \in Handles, NEW c \in Memory(buffer_table[h])
      PROVE  c \in locked <=> buffer_table[h].locked
  BY <1>3, <1>7 DEF locked, Filled
<1>8. ASSUME NEW c \in Cells, \A h \in Handles : c \notin Memory(buffer_table[h])
      PROVE  owner[c] = "free" /\ c \notin locked
  BY <1>2, <1>8 DEF Has, Filled, locked
<1>9. \A h \in Handles : Memory(buffer_table[h]) = {} <=> buffer_table[h].type = "none"
  BY EntryMemory
<1> QED BY <1>1, <1>3, <1>5, <1>6, <1>7, <1>8, <1>9 DEF OwnerFacts, Maps

-----------------------------------------------------------------------------
(* What a step changes is the owner of the cells of the entry it changes.  *)

\* The cells of other entries stay as they were.
LEMMA OtherCells ==
  ASSUME NEW t, NEW m, NEW ow, NEW lk, Maps(t, m, ow, lk),
         NEW t2, NEW m2, NEW ow2, NEW lk2, Maps(t2, m2, ow2, lk2),
         NEW h \in Handles,
         \A k \in Handles : k # h => /\ t2[k] = t[k]
                                     /\ \A f \in Files : k \in m2[f] <=> k \in m[f],
         NEW c \in Cells, c \notin Memory(t[h]), c \notin Memory(t2[h])
  PROVE  ow2[c] = ow[c] /\ (c \in lk2 <=> c \in lk)
<1>1. CASE \E k \in Handles : c \in Memory(t[k])
  <2>1. PICK k \in Handles : c \in Memory(t[k]) BY <1>1
  <2>2. k # h /\ t2[k] = t[k] BY <2>1
  <2>3. c \in Memory(t2[k]) BY <2>1, <2>2
  <2>4. c \in lk2 <=> c \in lk BY <2>1, <2>2, <2>3 DEF Maps
  <2>5. CASE \E f \in Files : k \in m[f]
    <3>1. PICK f \in Files : k \in m[f] BY <2>5
    <3>2. k \in m2[f] BY <2>2, <3>1
    <3>3. ow[c] = f BY <2>1, <3>1 DEF Maps
    <3>4. ow2[c] = f BY <2>3, <3>2 DEF Maps
    <3> QED BY <2>4, <3>3, <3>4
  <2>6. CASE \A f \in Files : k \notin m[f]
    <3>1. \A f \in Files : k \notin m2[f] BY <2>2, <2>6
    <3>2. ow[c] = "kept" BY <2>1, <2>6 DEF Maps
    <3>3. ow2[c] = "kept" BY <2>3, <3>1 DEF Maps
    <3> QED BY <2>4, <3>2, <3>3
  <2> QED BY <2>5, <2>6
<1>2. CASE \A k \in Handles : c \notin Memory(t[k])
  <2>1. \A k \in Handles : c \notin Memory(t2[k])
    BY <1>2
  <2> QED BY <1>2, <2>1 DEF Maps
<1> QED BY <1>1, <1>2

LEMMA Primed ==
  ASSUME OwnerFacts'
  PROVE  Maps(buffer_table', buffer', owner', locked')
BY DEF OwnerFacts

\* A change of one entry, and of its marks
Changes(t, m, t2, m2, h) ==
  \A k \in Handles : k # h => /\ t2[k] = t[k]
                              /\ \A f \in Files : k \in m2[f] <=> k \in m[f]

\* The owner of the cells of S becomes o.
Becomes(ow, ow2, S, o) == ow2 = [c \in Cells |-> IF c \in S THEN o ELSE ow[c]]

LEMMA NoCells ==
  ASSUME NEW t, NEW m, NEW ow, NEW lk, Maps(t, m, ow, lk),
         NEW t2, NEW m2, NEW ow2, NEW lk2, Maps(t2, m2, ow2, lk2),
         NEW h \in Handles, Changes(t, m, t2, m2, h),
         t[h].type = "none", t2[h].type = "none"
  PROVE  ow2 = ow /\ lk2 = lk
<1>1. Memory(t[h]) = {} /\ Memory(t2[h]) = {}
  BY DEF Maps
<1>2. \A c \in Cells : ow2[c] = ow[c] /\ (c \in lk2 <=> c \in lk)
  BY <1>1, OtherCells DEF Changes
<1>3. /\ ow2 = [c \in Cells |-> ow2[c]] /\ ow = [c \in Cells |-> ow[c]]
      /\ lk \subseteq Cells /\ lk2 \subseteq Cells
  BY DEF Maps
<1>4. [c \in Cells |-> ow2[c]] = [c \in Cells |-> ow[c]]
  BY <1>2
<1>5. ow2 = ow BY <1>3, <1>4
<1> QED BY <1>2, <1>3, <1>5

LEMMA EntryFilled ==
  ASSUME NEW t, NEW m, NEW ow, NEW lk, Maps(t, m, ow, lk),
         NEW t2, NEW m2, NEW ow2, NEW lk2, Maps(t2, m2, ow2, lk2),
         NEW h \in Handles, Changes(t, m, t2, m2, h),
         t[h].type = "none", t2[h].type # "none", ~t2[h].locked,
         NEW f \in Files, h \in m2[f]
  PROVE  \E S \in SUBSET Cells :
           /\ S # {} /\ \A c \in S : ow[c] = "free"
           /\ Becomes(ow, ow2, S, f) /\ lk2 = lk
<1> DEFINE S == Memory(t2[h])
<1>1. Memory(t[h]) = {} /\ S # {} /\ S \subseteq Cells
  BY DEF Maps
<1>2. ASSUME NEW c \in S
      PROVE  ow[c] = "free" /\ c \notin lk
  <2>1. \A k \in Handles : k # h => c \notin Memory(t2[k]) BY <1>2 DEF Maps
  <2>2. \A k \in Handles : k # h => Memory(t2[k]) = Memory(t[k]) BY DEF Changes
  <2>3. \A k \in Handles : c \notin Memory(t[k]) BY <1>1, <2>1, <2>2
  <2>4. c \in Cells BY <1>1
  <2> QED BY <2>3, <2>4 DEF Maps
<1>3. \A c \in S : ow2[c] = f /\ c \notin lk2
  BY DEF Maps
<1>4. \A c \in Cells \ S : ow2[c] = ow[c] /\ (c \in lk2 <=> c \in lk)
  BY <1>1, OtherCells DEF Changes
<1>5. /\ ow2 = [c \in Cells |-> ow2[c]]
      /\ lk \subseteq Cells /\ lk2 \subseteq Cells
  BY DEF Maps
<1> HIDE DEF S
<1>6. [c \in Cells |-> ow2[c]] = [c \in Cells |-> IF c \in S THEN f ELSE ow[c]]
  BY <1>3, <1>4
<1>7. Becomes(ow, ow2, S, f) BY <1>5, <1>6 DEF Becomes
<1>8. lk2 = lk BY <1>2, <1>3, <1>4, <1>5
<1> QED BY <1>1, <1>2, <1>7, <1>8

LEMMA EntryEmptied ==
  ASSUME NEW t, NEW m, NEW ow, NEW lk, Maps(t, m, ow, lk),
         NEW t2, NEW m2, NEW ow2, NEW lk2, Maps(t2, m2, ow2, lk2),
         NEW h \in Handles, Changes(t, m, t2, m2, h),
         t[h].type # "none", t2[h].type = "none"
  PROVE  \E S \in SUBSET Cells :
           /\ S # {} /\ Becomes(ow, ow2, S, "free") /\ lk2 = lk \ S
           /\ ~t[h].locked => S \cap lk = {}
           /\ \A f \in Files : h \in m[f] => \A c \in S : ow[c] = f
           /\ (\A f \in Files : h \notin m[f]) => \A c \in S : ow[c] = "kept"
<1> DEFINE S == Memory(t[h])
<1>1. Memory(t2[h]) = {} /\ S # {} /\ S \subseteq Cells
  BY DEF Maps
<1>2. ASSUME NEW c \in S
      PROVE  ow2[c] = "free" /\ c \notin lk2
  <2>1. \A k \in Handles : k # h => c \notin Memory(t[k]) BY <1>2 DEF Maps
  <2>2. \A k \in Handles : k # h => Memory(t2[k]) = Memory(t[k]) BY DEF Changes
  <2>3. \A k \in Handles : c \notin Memory(t2[k]) BY <1>1, <2>1, <2>2
  <2>4. c \in Cells BY <1>1
  <2> QED BY <2>3, <2>4 DEF Maps
<1>3. \A c \in Cells \ S : ow2[c] = ow[c] /\ (c \in lk2 <=> c \in lk)
  BY <1>1, OtherCells DEF Changes
<1>4. /\ ow2 = [c \in Cells |-> ow2[c]]
      /\ lk \subseteq Cells /\ lk2 \subseteq Cells
  BY DEF Maps
<1>5. ~t[h].locked => S \cap lk = {}
  BY DEF Maps
<1>6. \A f \in Files : h \in m[f] => \A c \in S : ow[c] = f
  BY DEF Maps
<1>7. (\A f \in Files : h \notin m[f]) => \A c \in S : ow[c] = "kept"
  BY DEF Maps
<1> HIDE DEF S
<1>8. [c \in Cells |-> ow2[c]] = [c \in Cells |-> IF c \in S THEN "free" ELSE ow[c]]
  BY <1>2, <1>3
<1>9. Becomes(ow, ow2, S, "free") BY <1>4, <1>8 DEF Becomes
<1>10. lk2 = lk \ S BY <1>2, <1>3, <1>4
<1> QED BY <1>1, <1>5, <1>6, <1>7, <1>9, <1>10

LEMMA EntryLocked ==
  ASSUME NEW t, NEW m, NEW ow, NEW lk, Maps(t, m, ow, lk),
         NEW t2, NEW ow2, NEW lk2, Maps(t2, m, ow2, lk2),
         NEW h \in Handles, Changes(t, m, t2, m, h),
         t[h].type # "none", Memory(t2[h]) = Memory(t[h]),
         NEW f \in Files, h \in m[f]
  PROVE  \E S \in SUBSET Cells :
           /\ S # {} /\ \A c \in S : ow[c] = f
           /\ ow2 = ow /\ lk2 \in {lk \cup S, lk \ S}
<1> DEFINE S == Memory(t[h])
<1>1. S # {} /\ S \subseteq Cells
  BY DEF Maps
<1>2. \A c \in S : ow[c] = f /\ ow2[c] = f /\ (c \in lk2 <=> t2[h].locked)
  BY DEF Maps
<1>3. \A c \in Cells \ S : ow2[c] = ow[c] /\ (c \in lk2 <=> c \in lk)
  BY <1>1, OtherCells DEF Changes
<1>4. /\ ow2 = [c \in Cells |-> ow2[c]] /\ ow = [c \in Cells |-> ow[c]]
      /\ lk \subseteq Cells /\ lk2 \subseteq Cells
  BY DEF Maps
<1> HIDE DEF S
<1>5. [c \in Cells |-> ow2[c]] = [c \in Cells |-> ow[c]]
  BY <1>2, <1>3
<1>6. ow2 = ow BY <1>4, <1>5
<1>7. CASE t2[h].locked
  <2>1. lk2 = lk \cup S BY <1>1, <1>2, <1>3, <1>4, <1>7
  <2> QED BY <1>1, <1>2, <1>6, <2>1
<1>8. CASE ~t2[h].locked
  <2>1. lk2 = lk \ S BY <1>1, <1>2, <1>3, <1>4, <1>8
  <2> QED BY <1>1, <1>2, <1>6, <2>1
<1> QED BY <1>7, <1>8

\* The marks of a file go; the buffers that it leaves are locked.
LEMMA MarksGone ==
  ASSUME NEW t, NEW m, NEW ow, NEW lk, Maps(t, m, ow, lk),
         NEW m2, NEW ow2, NEW lk2, Maps(t, m2, ow2, lk2),
         NEW f \in Files, m[f] \subseteq Handles,
         \A h \in m[f] : t[h].locked /\ \A g \in Files : h \notin m2[g],
         \A h \in Handles \ m[f] : \A g \in Files : h \in m2[g] <=> h \in m[g]
  PROVE  \E S \in SUBSET Cells :
           /\ S \subseteq lk /\ \A c \in S : ow[c] = f
           /\ Becomes(ow, ow2, S, "kept") /\ lk2 = lk
<1> DEFINE S == {c \in Cells : \E h \in m[f] : c \in Memory(t[h])}
<1>1. ASSUME NEW c \in S
      PROVE  ow[c] = f /\ ow2[c] = "kept" /\ c \in lk /\ c \in lk2
  <2>1. PICK h \in m[f] : c \in Memory(t[h]) BY <1>1
  <2>2. h \in Handles /\ t[h].locked /\ \A g \in Files : h \notin m2[g] BY <2>1
  <2> QED BY <2>1, <2>2 DEF Maps
<1>2. ASSUME NEW c \in Cells \ S
      PROVE  ow2[c] = ow[c] /\ (c \in lk2 <=> c \in lk)
  <2>1. CASE \E h \in Handles : c \in Memory(t[h])
    <3>1. PICK h \in Handles : c \in Memory(t[h]) BY <2>1
    <3>2. h \notin m[f] BY <1>2, <3>1
    <3>3. c \in lk2 <=> c \in lk BY <3>1 DEF Maps
    <3>4. CASE \E g \in Files : h \in m[g]
      <4>1. PICK g \in Files : h \in m[g] BY <3>4
      <4>2. h \in m2[g] BY <3>1, <3>2, <4>1
      <4>3. ow[c] = g BY <3>1, <4>1 DEF Maps
      <4>4. ow2[c] = g BY <3>1, <4>2 DEF Maps
      <4> QED BY <3>3, <4>3, <4>4
    <3>5. CASE \A g \in Files : h \notin m[g]
      <4>1. \A g \in Files : h \notin m2[g] BY <3>1, <3>2, <3>5
      <4>2. ow[c] = "kept" BY <3>1, <3>5 DEF Maps
      <4>3. ow2[c] = "kept" BY <3>1, <4>1 DEF Maps
      <4> QED BY <3>3, <4>2, <4>3
    <3> QED BY <3>4, <3>5
  <2>2. CASE \A h \in Handles : c \notin Memory(t[h])
    BY <2>2 DEF Maps
  <2> QED BY <2>1, <2>2
<1>3. /\ ow2 = [c \in Cells |-> ow2[c]]
      /\ lk \subseteq Cells /\ lk2 \subseteq Cells
  BY DEF Maps
<1>4. S \subseteq Cells OBVIOUS
<1> HIDE DEF S
<1>5. [c \in Cells |-> ow2[c]] = [c \in Cells |-> IF c \in S THEN "kept" ELSE ow[c]]
  BY <1>1, <1>2
<1>6. Becomes(ow, ow2, S, "kept") BY <1>3, <1>5 DEF Becomes
<1>7. lk2 = lk BY <1>1, <1>2, <1>3
<1> QED BY <1>1, <1>4, <1>6, <1>7

-----------------------------------------------------------------------------
(* The step of the abstract pool that each step of the driver is.          *)

Before == Maps(buffer_table, buffer, owner, locked)
After  == Maps(buffer_table', buffer', owner', locked')
Still  == owner' = owner /\ locked' = locked
Changed(h) == Changes(buffer_table, buffer, buffer_table', buffer', h)

LEMMA SameTable ==
  ASSUME buffer_table' = buffer_table, buffer' = buffer
  PROVE  Still
BY DEF Still, owner, locked, Has, Filled, Memory

\* GetReserve and GetFails: the entry has no memory.
LEMMA ReserveMaps ==
  ASSUME CareInv, Before, After, NEW f \in Files, NEW type, NEW count,
         GetReserve(f, type, count)
  PROVE  Still
<1>1. PICK h \in Handles : h = Lowest(Unused) /\ ~buffer_table[h].used
  BY LowestIn, Records DEF GetReserve, Unused
<1>2. /\ buffer_table' = [buffer_table EXCEPT ![h] = [@ EXCEPT !.used = TRUE]]
      /\ buffer' = [buffer EXCEPT ![f] = @ \cup {h}]
  BY <1>1 DEF GetReserve
<1>3. TypeOK /\ buffer_table[h].type = "none" BY <1>1 DEF CareInv, EntryInv
<1>4. buffer_table'[h].type = "none" BY <1>2, <1>3 DEF TypeOK
<1>5. Changed(h) BY <1>2, <1>3 DEF Changed, Changes, TypeOK
<1> QED BY <1>3, <1>4, <1>5, NoCells DEF Before, After, Still, Changed

LEMMA FailsMaps ==
  ASSUME CareInv, Before, After, NEW f \in Files, GetFails(f)
  PROVE  Still
<1>1. PICK h \in Handles : h = call[f].h BY DEF CareInv, TypeOK
<1>2. /\ buffer_table' = [buffer_table EXCEPT ![h] = [@ EXCEPT !.used = FALSE]]
      /\ buffer' = [buffer EXCEPT ![f] = @ \ {h}]
      /\ call[f].pc \in {"reserved", "found"}
  BY <1>1 DEF GetFails
<1>3. TypeOK /\ buffer_table[h].type = "none"
  BY <1>1, <1>2 DEF CareInv, CallInv, CallOK
<1>4. buffer_table'[h].type = "none" BY <1>2, <1>3 DEF TypeOK
<1>5. Changed(h) BY <1>2, <1>3 DEF Changed, Changes, TypeOK
<1> QED BY <1>3, <1>4, <1>5, NoCells DEF Before, After, Still, Changed

LEMMA FillMaps ==
  ASSUME CareInv, Before, After, NEW f \in Files, NEW copied \in BOOLEAN, Fill(f, copied)
  PROVE  \E S \in SUBSET Cells : Abstract!Get(f, S)
<1>1. PICK h \in Handles : h = call[f].h BY DEF CareInv, TypeOK
<1>2. /\ buffer_table' = [buffer_table EXCEPT ![h] =
             [used |-> buffer_table[h].used, locked |-> FALSE, type |-> call[f].type,
              kaddr |-> call[f].base, size |-> call[f].count]]
      /\ buffer' = buffer /\ call[f].pc = "allocated"
  BY <1>1 DEF Fill
<1>3. /\ TypeOK /\ buffer_table[h].type = "none" /\ call[f].type # "none"
      /\ h \in buffer[f]
  BY <1>1, <1>2 DEF CareInv, CallInv, CallOK
<1>4. buffer_table'[h].type # "none" /\ ~buffer_table'[h].locked
  BY <1>2, <1>3 DEF TypeOK
<1>5. Changed(h) BY <1>2, <1>3 DEF Changed, Changes, TypeOK
<1>6. PICK S \in SUBSET Cells :
        /\ S # {} /\ \A c \in S : owner[c] = "free"
        /\ Becomes(owner, owner', S, f) /\ locked' = locked
  <2>1. h \in buffer'[f] BY <1>2, <1>3
  <2> QED BY <1>3, <1>4, <1>5, <2>1, EntryFilled DEF Before, After, Changed
<1> QED BY <1>6 DEF Abstract!Get, Abstract!Move, Becomes

LEMMA LockMaps ==
  ASSUME CareInv, Before, After, NEW f \in Files, SetLock(f)
  PROVE  \E S \in SUBSET Cells : Abstract!Lock(f, S)
<1> DEFINE on == (call[f].pc = "lock")
<1>1. PICK h \in Handles : h = call[f].h BY DEF CareInv, TypeOK
<1>2. /\ buffer_table' = [buffer_table EXCEPT ![h] = [@ EXCEPT !.locked = on]]
      /\ buffer' = buffer /\ call[f].pc \in {"lock", "unlock"}
  BY <1>1 DEF SetLock
<1>3. TypeOK /\ h \in buffer[f] /\ got[f][h] # {}
  BY <1>1, <1>2 DEF CareInv, CallInv, CallOK
<1>4. Memory(buffer_table[h]) # {}
  BY <1>3 DEF CareInv, MarkInv, KeepsBuffer
<1>5. buffer_table[h].type # "none" BY <1>4, EntryMemory
<1> HIDE DEF on
<1>6. /\ buffer_table'[h].kaddr = buffer_table[h].kaddr
      /\ buffer_table'[h].size = buffer_table[h].size
  BY <1>2, <1>3 DEF TypeOK
<1>7. Memory(buffer_table'[h]) = Memory(buffer_table[h]) BY <1>6 DEF Memory
<1>8. Changes(buffer_table, buffer, buffer_table', buffer, h)
  BY <1>2, <1>3 DEF Changes, TypeOK
<1>9. Maps(buffer_table', buffer, owner', locked') BY <1>2 DEF After
<1>10. PICK S \in SUBSET Cells :
         /\ S # {} /\ \A c \in S : owner[c] = f
         /\ owner' = owner /\ locked' \in {locked \cup S, locked \ S}
  BY <1>3, <1>5, <1>7, <1>8, <1>9, EntryLocked DEF Before
<1> QED BY <1>10 DEF Abstract!Lock

\* Free and ReleaseEntry: the memory of an entry that is not locked
LEMMA GivesMaps ==
  ASSUME CareInv, Before, After, NEW f \in Files, NEW h \in buffer[f],
         ~buffer_table[h].locked, buffer_table'[h].type = "none", Changed(h)
  PROVE  Still \/ \E S \in SUBSET Cells : Abstract!Give(f, S)
<1>1. h \in Handles BY DEF CareInv, TypeOK
<1>2. CASE buffer_table[h].type = "none"
  BY <1>1, <1>2, NoCells DEF Before, After, Still, Changed
<1>3. CASE buffer_table[h].type # "none"
  <2>1. PICK S \in SUBSET Cells :
          /\ S # {} /\ Becomes(owner, owner', S, "free") /\ locked' = locked \ S
          /\ ~buffer_table[h].locked => S \cap locked = {}
          /\ \A g \in Files : h \in buffer[g] => \A c \in S : owner[c] = g
    BY <1>1, <1>3, EntryEmptied DEF Before, After, Changed
  <2>2. S \cap locked = {} /\ locked' = locked BY <2>1
  <2> QED BY <2>1, <2>2 DEF Abstract!Give, Abstract!Move, Becomes
<1> QED BY <1>2, <1>3

LEMMA FreeMaps ==
  ASSUME CareInv, Before, After, NEW f \in Files, Free(f)
  PROVE  Still \/ \E S \in SUBSET Cells : Abstract!Give(f, S)
<1>1. PICK h \in Handles : h = call[f].h BY DEF CareInv, TypeOK
<1>2. h \in buffer[f] /\ ~buffer_table[h].locked /\ buffer_table[h].used
  BY <1>1 DEF Free, CareInv, CallInv, CallOK, MarkInv
<1>3. /\ buffer_table' = [buffer_table EXCEPT ![h] = Empty]
      /\ buffer' = [buffer EXCEPT ![f] = @ \ {h}]
  BY <1>1, <1>2 DEF Free, Unmarked
<1>4. Empty.type = "none" /\ TypeOK BY DEF Empty, CareInv
<1>5. buffer_table'[h].type = "none" /\ Changed(h)
  BY <1>3, <1>4 DEF TypeOK, Changed, Changes
<1> QED BY <1>2, <1>5, GivesMaps

LEMMA ReleaseEntryMaps ==
  ASSUME CareInv, Before, After, NEW f \in Files, ReleaseEntry(f)
  PROVE  Still \/ \E S \in SUBSET Cells : Abstract!Give(f, S)
<1>1. Lowest(Orphaned(f)) \in Orphaned(f)
  <2>1. Orphaned(f) \subseteq Nat
    BY Records DEF Orphaned, CareInv, TypeOK
  <2> QED BY <2>1, LowestIn DEF ReleaseEntry
<1>2. PICK h \in Orphaned(f) : h = Lowest(Orphaned(f)) BY <1>1
<1>3. h \in buffer[f] /\ ~buffer_table[h].locked BY DEF Orphaned
<1>4. /\ buffer_table' = [buffer_table EXCEPT ![h] = Cleared(h)]
      /\ buffer' = [buffer EXCEPT ![f] = @ \ {h}]
  BY <1>2 DEF ReleaseEntry, Unmarked
<1>5. Cleared(h).type = "none" /\ TypeOK /\ h \in Handles
  BY <1>3 DEF Cleared, Empty, CareInv, TypeOK
<1>6. buffer_table'[h].type = "none" /\ Changed(h)
  BY <1>4, <1>5 DEF TypeOK, Changed, Changes
<1> QED BY <1>3, <1>6, GivesMaps

LEMMA ReleaseDoneMaps ==
  ASSUME CareInv, Before, After, NEW f \in Files, ReleaseDone(f)
  PROVE  Still \/ \E S \in SUBSET Cells : Abstract!Keep(f, S)
<1>1. /\ buffer' = [buffer EXCEPT ![f] = {}] /\ buffer_table' = buffer_table
      /\ \A h \in buffer[f] : buffer_table[h].locked
  BY DEF ReleaseDone, Orphaned
<1>2. TypeOK /\ MarkInv /\ buffer[f] \subseteq Handles
  BY DEF CareInv, TypeOK
<1>3. /\ \A h \in buffer[f] : \A g \in Files : h \notin buffer'[g]
      /\ \A h \in Handles \ buffer[f] : \A g \in Files : h \in buffer'[g] <=> h \in buffer[g]
  BY <1>1, <1>2 DEF TypeOK, MarkInv
<1>4. Maps(buffer_table, buffer', owner', locked') BY <1>1 DEF After
<1>5. PICK S \in SUBSET Cells :
        /\ S \subseteq locked /\ \A c \in S : owner[c] = f
        /\ Becomes(owner, owner', S, "kept") /\ locked' = locked
  <2>1. \A h \in buffer[f] : buffer_table[h].locked /\ \A g \in Files : h \notin buffer'[g]
    BY <1>1, <1>3
  <2> QED BY <1>2, <1>3, <1>4, <2>1, MarksGone DEF Before
<1>6. CASE S = {}
  <2>1. owner' = [c \in Cells |-> owner[c]] BY <1>5, <1>6 DEF Becomes
  <2> QED BY <1>5, <2>1 DEF Before, Maps, Still
<1>7. CASE S # {}
  BY <1>5, <1>7 DEF Abstract!Keep, Abstract!Move, Becomes
<1> QED BY <1>6, <1>7

LEMMA FreelockMaps ==
  ASSUME Careful, CareInv, Before, After, NEW h \in Handles, FreelockEntry(h)
  PROVE  Still \/ \E S \in SUBSET Cells : Abstract!Drop(S)
<1>1. /\ buffer_table' = [buffer_table EXCEPT ![h] = Cleared(h)]
      /\ buffer' = buffer /\ \A f \in Files : h \notin buffer[f]
  BY DEF FreelockEntry, Careful, Private, CareInv, MarkInv
<1>2. TypeOK BY DEF CareInv
<1>3. Cleared(h).type = "none" BY DEF Cleared, Empty
<1>4. buffer_table'[h].type = "none" BY <1>1, <1>2, <1>3 DEF TypeOK
<1>5. Changed(h) BY <1>1, <1>2 DEF Changed, Changes, TypeOK
<1>6. CASE buffer_table[h].type = "none"
  BY <1>4, <1>5, <1>6, NoCells DEF Before, After, Still, Changed
<1>7. CASE buffer_table[h].type # "none"
  <2>1. PICK S \in SUBSET Cells :
          /\ S # {} /\ Becomes(owner, owner', S, "free") /\ locked' = locked \ S
          /\ (\A f \in Files : h \notin buffer[f]) => \A c \in S : owner[c] = "kept"
    BY <1>4, <1>5, <1>7, EntryEmptied DEF Before, After, Changed
  <2> QED BY <1>1, <2>1 DEF Abstract!Drop, Abstract!Move, Becomes
<1> QED BY <1>6, <1>7

-----------------------------------------------------------------------------
LEMMA StepMaps ==
  ASSUME Careful, CareInv, Before, After, Next
  PROVE  Still \/ Abstract!Next
<1>1. ASSUME NEW f \in Files, Open(f) PROVE Still
  BY <1>1, SameTable DEF Open
<1>2. ASSUME NEW f \in Files, Get(f) PROVE Still \/ Abstract!Next
  <2>1. ASSUME NEW type, NEW count, GetReserve(f, type, count) PROVE Still
    BY <2>1, ReserveMaps
  <2>2. ASSUME NEW b, GetKernel(f, b) PROVE Still
    BY <2>2, SameTable DEF GetKernel
  <2>3. ASSUME NEW copied \in BOOLEAN, Fill(f, copied) PROVE Abstract!Next
    BY <2>3, FillMaps DEF Abstract!Next
  <2>4. CASE GetUndefined(f) BY <2>4, SameTable DEF GetUndefined
  <2>5. CASE Search(f) BY <2>5, SameTable DEF Search
  <2>6. CASE Carve(f) BY <2>6, SameTable DEF Carve
  <2>7. CASE GetFails(f) BY <2>7, FailsMaps
  <2> QED BY <1>2, <2>1, <2>2, <2>3, <2>4, <2>5, <2>6, <2>7 DEF Get
<1>3. ASSUME NEW f \in Files, SetLock(f) PROVE Abstract!Next
  BY <1>3, LockMaps DEF Abstract!Next
<1>4. ASSUME NEW f \in Files, Free(f) PROVE Still \/ Abstract!Next
  BY <1>4, FreeMaps DEF Abstract!Next
<1>5. ASSUME NEW f \in Files, NEW h \in Handles, NEW op, Ask(f, h, op) \/ FreeLocked(f, h)
      PROVE  Still
  BY <1>5, SameTable DEF Ask, FreeLocked
<1>6. ASSUME NEW f \in Files, Close(f) PROVE Still
  BY <1>6, SameTable DEF Close
<1>7. ASSUME NEW f \in Files, ReleaseEntry(f) PROVE Still \/ Abstract!Next
  BY <1>7, ReleaseEntryMaps DEF Abstract!Next
<1>8. ASSUME NEW f \in Files, ReleaseDone(f) PROVE Still \/ Abstract!Next
  BY <1>8, ReleaseDoneMaps DEF Abstract!Next
<1>9. ASSUME NEW h \in Handles, FreelockEntry(h) PROVE Still \/ Abstract!Next
  BY <1>9, FreelockMaps DEF Abstract!Next
<1> QED BY <1>1, <1>2, <1>3, <1>4, <1>5, <1>6, <1>7, <1>8, <1>9 DEF Next

(* The driver implements the abstract pool of buffers: memory goes from    *)
(* free to one file, from the file to free or, locked, to the driver, and  *)
(* from the driver to free.                                                *)
THEOREM DriverImplementsBufferPool ==
  ASSUME Careful
  PROVE  Spec => ImplementsBufferPool
<1>1. Init => Abstract!Init
  <2>1. ASSUME Init PROVE Filled = {} BY <2>1 DEF Init, Filled, Empty
  <2> QED BY <2>1 DEF owner, locked, Has, Abstract!Init
<1>2. CareInv => OwnerFacts BY OwnerIs
<1>3. CareInv /\ CareInv' /\ OwnerFacts /\ OwnerFacts' /\ [Next]_vars
        => [Abstract!Next]_(Abstract!vars)
  <2> SUFFICES ASSUME CareInv, CareInv', OwnerFacts, OwnerFacts', [Next]_vars
      PROVE  [Abstract!Next]_(Abstract!vars)
    OBVIOUS
  <2>1. Before /\ After BY Primed DEF OwnerFacts, Before, After
  <2>2. CASE Next BY <2>1, <2>2, StepMaps DEF Still, Abstract!vars
  <2>3. CASE UNCHANGED vars BY <2>3, SameTable DEF vars, Still, Abstract!vars
  <2> QED BY <2>2, <2>3
<1> QED BY <1>1, <1>2, <1>3, CarefulInvariant, PTL DEF Spec, ImplementsBufferPool, Abstract!Spec

=============================================================================
