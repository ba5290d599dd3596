---------------------- MODULE FromHostReassemblyProofs ----------------------
(***************************************************************************)
(* Proofs about FromHostReassembly, for a page of any number of words,     *)
(* requests of any length that divides it, and any number of requests on   *)
(* their way: types are kept whatever the host does, and words are handed  *)
(* on in order while transfers consist of whole pages, the host waits for  *)
(* them, and a completion comes without a pause.                           *)
(***************************************************************************)
EXTENDS FromHostReassembly, SequenceTheorems, TLAPS

-----------------------------------------------------------------------------
(* Division                                                                *)

LEMMA ModDef ==
  ASSUME NEW n \in Nat, NEW t \in Nat \ {0}
  PROVE  /\ n % t \in 0 .. t - 1 /\ n \div t \in Nat
         /\ n = t * (n \div t) + (n % t)
OBVIOUS

LEMMA ModOf ==
  ASSUME NEW q \in Nat, NEW t \in Nat \ {0}, NEW r \in 0 .. t - 1
  PROVE  (t * q + r) % t = r /\ (t * q + r) \div t = q
<1> DEFINE n == t * q + r
           p == n \div t
<1>1. n \in Nat /\ t * q \in Nat OBVIOUS
<1>2. p \in Nat /\ n % t \in 0 .. t - 1 /\ n = t * p + (n % t) BY <1>1, ModDef
<1> HIDE DEF p
<1>3. ~ (p > q)
  <2> SUFFICES ASSUME p > q PROVE FALSE OBVIOUS
  <2>1. t * p >= t * (q + 1) BY <1>2
  <2>2. t * (q + 1) = t * q + t OBVIOUS
  <2> QED BY <1>1, <1>2, <2>1, <2>2 DEF n
<1>4. ~ (p < q)
  <2> SUFFICES ASSUME p < q PROVE FALSE OBVIOUS
  <2>1. t * q >= t * (p + 1) BY <1>2
  <2>2. t * (p + 1) = t * p + t BY <1>2
  <2> QED BY <1>1, <1>2, <2>1, <2>2 DEF n
<1>5. p = q BY <1>2, <1>3, <1>4
<1>6. n % t = r BY <1>1, <1>2, <1>5
<1> QED BY <1>5, <1>6 DEF n, p

\* Multiples of t are t apart.
LEMMA Multiples ==
  ASSUME NEW t \in Nat \ {0}, NEW n \in Nat, NEW m \in Nat, n % t = 0, m % t = 0
  PROVE  /\ (n + t) % t = 0 /\ (n + m) % t = 0
         /\ n < m => n + t <= m /\ (m - n) % t = 0
<1> DEFINE p == n \div t
           q == m \div t
<1>1. p \in Nat /\ q \in Nat /\ n = t * p /\ m = t * q BY ModDef
<1> HIDE DEF p, q
<1>2. n + t = t * (p + 1) + 0 /\ n + m = t * (p + q) + 0 BY <1>1
<1>3. (t * (p + 1) + 0) % t = 0 /\ (t * (p + q) + 0) % t = 0 BY <1>1, ModOf
<1>4. ASSUME n < m PROVE n + t <= m /\ (m - n) % t = 0
  <2>1. p < q
    <3> SUFFICES ASSUME q <= p PROVE FALSE BY <1>1
    <3>1. t * q <= t * p BY <1>1
    <3> QED BY <1>1, <1>4, <3>1
  <2>2. t * (p + 1) <= t * q BY <1>1, <2>1
  <2>3. m - n = t * (q - p) + 0 BY <1>1
  <2>4. (t * (q - p) + 0) % t = 0 BY <1>1, <2>1, ModOf
  <2> QED BY <1>2, <2>2, <1>1, <2>3, <2>4
<1> QED BY <1>2, <1>3, <1>4

LEMMA AtLeast ==
  ASSUME NEW t \in Nat \ {0}, NEW n \in Nat \ {0}, n % t = 0
  PROVE  n >= t
<1> DEFINE q == n \div t
<1>1. q \in Nat /\ n = t * q BY ModDef
<1> HIDE DEF q
<1>2. q >= 1 BY <1>1
<1>3. t * q >= t * 1 BY <1>1, <1>2
<1> QED BY <1>1, <1>3

\* A step from n that does not leave the multiples' interval
LEMMA AddOffset ==
  ASSUME NEW w \in Nat \ {0}, NEW n \in Nat, NEW t \in Nat
  PROVE  /\ (n % w) + t < w => (n + t) % w = (n % w) + t
         /\ (n % w) + t = w => (n + t) % w = 0
<1> DEFINE q == n \div w
           r == n % w
<1>1. q \in Nat /\ r \in 0 .. w - 1 /\ n = w * q + r BY ModDef
<1> HIDE DEF q, r
<1>2. ASSUME r + t < w PROVE (n + t) % w = r + t
  <2>1. r + t \in 0 .. w - 1 BY <1>1, <1>2
  <2>2. n + t = w * q + (r + t) BY <1>1
  <2> QED BY <1>1, <2>1, <2>2, ModOf
<1>3. ASSUME r + t = w PROVE (n + t) % w = 0
  <2>1. n + t = w * (q + 1) + 0 BY <1>1, <1>3
  <2>2. q + 1 \in Nat /\ 0 \in 0 .. w - 1 BY <1>1
  <2> QED BY <2>1, <2>2, ModOf
<1> QED BY <1>2, <1>3 DEF r

\* The three pages
LEMMA PageFacts ==
  /\ Words \in Nat /\ Words >= 2 /\ TlpWords \in Nat /\ TlpWords >= 1
  /\ TlpWords <= Words /\ Words % TlpWords = 0
  /\ Pages * Words = 3 * Words /\ Pages * Words \in Nat
  /\ Numbers = 0 .. 3 * Words - 1
<1>1. Words \in Nat \ {0, 1} /\ TlpWords \in Nat \ {0} /\ Words % TlpWords = 0
  BY PageAssumption
<1>2. TlpWords <= Words BY <1>1, AtLeast
<1> QED BY <1>1, <1>2 DEF Pages, Numbers

LEMMA InPage ==
  ASSUME NEW n \in Numbers
  PROVE  /\ n % Words \in 0 .. Words - 1
         /\ \/ n = n % Words /\ n \div Words = 0
            \/ n = Words + (n % Words) /\ n \div Words = 1
            \/ n = 2 * Words + (n % Words) /\ n \div Words = 2
<1> DEFINE p == n \div Words
<1>1. n \in Nat /\ n < 3 * Words /\ Words \in Nat \ {0} BY PageFacts
<1>2. p \in Nat /\ n % Words \in 0 .. Words - 1 /\ n = Words * p + (n % Words)
  BY <1>1, ModDef
<1> HIDE DEF p
<1>3. p <= 2
  <2> SUFFICES ASSUME p >= 3 PROVE FALSE BY <1>2
  <2>1. Words * p >= Words * 3 BY <1>1, <1>2
  <2> QED BY <1>1, <1>2, <2>1
<1>4. p \in {0, 1, 2} BY <1>2, <1>3
<1> QED BY <1>1, <1>2, <1>4 DEF p

\* How a number of a page, and one of a page's end, is found again
LEMMA OffsetOf ==
  ASSUME NEW r \in 0 .. Words - 1
  PROVE  /\ r % Words = r /\ (Words + r) % Words = r /\ (2 * Words + r) % Words = r
         /\ (3 * Words + 0) % Words = 0
<1>1. Words \in Nat \ {0} /\ 0 \in 0 .. Words - 1 BY PageFacts
<1>2. /\ (Words * 0 + r) % Words = r /\ (Words * 1 + r) % Words = r
      /\ (Words * 2 + r) % Words = r /\ (Words * 3 + 0) % Words = 0
  BY <1>1, ModOf
<1> QED BY <1>1, <1>2

LEMMA Wrapped ==
  ASSUME NEW n \in 0 .. Pages * Words
  PROVE  /\ n % (Pages * Words) \in Numbers
         /\ n % (Pages * Words) = IF n = Pages * Words THEN 0 ELSE n
<1> DEFINE t == Pages * Words
<1>1. t \in Nat \ {0} /\ n \in 0 .. t BY PageFacts
<1>2. n \in Nat /\ Numbers = 0 .. t - 1 BY <1>1 DEF Numbers
<1> HIDE DEF t
<1>3. n % t = IF n = t THEN 0 ELSE n
  <2>1. (t * 1 + 0) % t = 0 BY <1>1, ModOf
  <2>2. n # t => (t * 0 + n) % t = n BY <1>1, ModOf
  <2> QED BY <1>1, <1>2, <2>1, <2>2
<1>4. n % t \in Numbers BY <1>1, <1>2, <1>3
<1> QED BY <1>3, <1>4 DEF t

\* What follows the last request of a page is a page.
LEMMA NextPageIs ==
  ASSUME NEW n \in Numbers
  PROVE  /\ NextPage(n) \in Numbers /\ NextPage(n) % Words = 0
         /\ NextPage(n) % TlpWords = 0
         /\ NextPage(n) = IF n - (n % Words) + Words = 3 * Words THEN 0
                          ELSE n - (n % Words) + Words
<1> DEFINE m == (n \div Words + 1) * Words
<1>0. Words \in Nat /\ n % Words \in Nat
  <2>1. n % Words \in 0 .. Words - 1 BY InPage
  <2> QED BY <2>1, PageFacts
<1>1. m \in {Words, 2 * Words, 3 * Words} /\ m = n - (n % Words) + Words
  <2>1. CASE n = n % Words /\ n \div Words = 0
    <3>1. m = Words BY <1>0, <2>1
    <3> HIDE DEF m
    <3> QED BY <1>0, <2>1, <3>1
  <2>2. CASE n = Words + (n % Words) /\ n \div Words = 1
    <3>1. m = 2 * Words BY <1>0, <2>2
    <3> HIDE DEF m
    <3> QED BY <1>0, <2>2, <3>1
  <2>3. CASE n = 2 * Words + (n % Words) /\ n \div Words = 2
    <3>1. m = 3 * Words BY <1>0, <2>3
    <3> HIDE DEF m
    <3> QED BY <1>0, <2>3, <3>1
  <2> QED BY <2>1, <2>2, <2>3, InPage
<1>2. m \in 0 .. Pages * Words BY <1>1, PageFacts
<1>3. NextPage(n) = m % (Pages * Words) BY DEF NextPage
<1> HIDE DEF m
<1>4. NextPage(n) \in Numbers /\ NextPage(n) = IF m = 3 * Words THEN 0 ELSE m
  BY <1>2, <1>3, Wrapped, PageFacts
<1>5. NextPage(n) \in {0, Words, 2 * Words} BY <1>1, <1>4, PageFacts
<1>6. 0 % Words = 0 /\ Words % Words = 0 /\ (2 * Words) % Words = 0
  <2>1. 0 \in 0 .. Words - 1 BY PageFacts
  <2> QED BY <2>1, OffsetOf, PageFacts
<1>7. 0 % TlpWords = 0 /\ Words % TlpWords = 0 /\ (2 * Words) % TlpWords = 0
  <2>1. /\ TlpWords \in Nat \ {0} /\ Words \in Nat /\ Words % TlpWords = 0
        /\ Words + Words = 2 * Words
    BY PageFacts
  <2>2. 0 % TlpWords = 0 BY <2>1, ModDef
  <2>3. (Words + Words) % TlpWords = 0 BY <2>1, Multiples
  <2> QED BY <2>1, <2>2, <2>3
<1> QED BY <1>1, <1>4, <1>5, <1>6, <1>7

\* A request stays within a page, and where the next one begins.
LEMMA NextRequest ==
  ASSUME NEW n \in Numbers, n % TlpWords = 0
  PROVE  /\ (n % Words) + TlpWords <= Words /\ (n % Words) % TlpWords = 0
         /\ (n + TlpWords) % (Pages * Words) \in Numbers
         /\ ((n + TlpWords) % (Pages * Words)) % TlpWords = 0
         /\ (n % Words) + TlpWords < Words =>
              /\ (n + TlpWords) % (Pages * Words) = n + TlpWords
              /\ (n + TlpWords) % Words = (n % Words) + TlpWords
         /\ (n % Words) + TlpWords = Words =>
              (n + TlpWords) % (Pages * Words) = NextPage(n)
<1> DEFINE r == n % Words
<1>0. /\ TlpWords \in Nat \ {0} /\ Words \in Nat /\ Words % TlpWords = 0
      /\ n \in Nat /\ r \in Nat /\ r < Words
  <2>1. r \in 0 .. Words - 1 BY InPage
  <2>2. n \in Nat /\ Words \in Nat BY PageFacts
  <2> QED BY <2>1, <2>2, PageFacts
<1>9. n = r \/ n = Words + r \/ n = 2 * Words + r BY InPage
<1> HIDE DEF r
<1>8. 0 % TlpWords = 0 BY <1>0, ModDef
<1>1. r % TlpWords = 0
  <2>1. (2 * Words) % TlpWords = 0
    <3>1. (Words + Words) % TlpWords = 0 BY <1>0, Multiples
    <3>2. Words + Words = 2 * Words BY <1>0
    <3> QED BY <3>1, <3>2
  <2>2. ASSUME NEW b \in {Words, 2 * Words}, n = b + r
        PROVE  r % TlpWords = 0
    <3>1. CASE r = 0 BY <1>8, <3>1
    <3>2. CASE r # 0
      <4>1. b \in Nat /\ b % TlpWords = 0 /\ b < n /\ n - b = r
        BY <1>0, <2>1, <2>2, <3>2
      <4>2. (n - b) % TlpWords = 0 BY <1>0, <4>1, Multiples
      <4> QED BY <4>1, <4>2
    <3> QED BY <3>1, <3>2
  <2>3. CASE n = r BY <2>3
  <2> QED BY <1>9, <2>2, <2>3
<1>2. r + TlpWords <= Words BY <1>0, <1>1, Multiples
<1>3. n + TlpWords \in 0 .. Pages * Words
  <2>1. n + TlpWords \in 0 .. 3 * Words BY <1>0, <1>2, <1>9
  <2> QED BY <2>1, PageFacts
<1>4. /\ (n + TlpWords) % (Pages * Words) \in Numbers
      /\ (n + TlpWords) % (Pages * Words) =
           IF n + TlpWords = 3 * Words THEN 0 ELSE n + TlpWords
  BY <1>3, Wrapped, PageFacts
<1>5. ((n + TlpWords) % (Pages * Words)) % TlpWords = 0
  <2>1. (n + TlpWords) % TlpWords = 0 BY <1>0, Multiples
  <2> QED BY <1>4, <1>8, <2>1
<1>6. ASSUME r + TlpWords < Words
      PROVE  /\ (n + TlpWords) % (Pages * Words) = n + TlpWords
             /\ (n + TlpWords) % Words = r + TlpWords
  <2> DEFINE s == r + TlpWords
  <2>1. s \in 0 .. Words - 1 BY <1>0, <1>6
  <2>2. n + TlpWords \in {s, Words + s, 2 * Words + s} BY <1>0, <1>9
  <2>3. n + TlpWords # 3 * Words BY <1>0, <1>6, <1>9
  <2> HIDE DEF s
  <2>4. (n + TlpWords) % Words = s BY <2>1, <2>2, OffsetOf
  <2> QED BY <1>4, <2>3, <2>4 DEF s
<1>7. ASSUME r + TlpWords = Words
      PROVE  (n + TlpWords) % (Pages * Words) = NextPage(n)
  <2>1. n - (n % Words) + Words = n + TlpWords BY <1>0, <1>7 DEF r
  <2>2. NextPage(n) = IF n - (n % Words) + Words = 3 * Words THEN 0
                      ELSE n - (n % Words) + Words
    BY NextPageIs
  <2> QED BY <1>4, <2>1, <2>2
<1> QED BY <1>1, <1>2, <1>4, <1>5, <1>6, <1>7 DEF r

-----------------------------------------------------------------------------
(* Types, whatever the host does and however completions come              *)

\* Requests are aligned, and none goes on behind the last page.
AlignInv ==
  /\ next % TlpWords = 0 /\ at % TlpWords = 0 /\ size % TlpWords = 0
  /\ size >= TlpWords /\ (~enable => at = 0)
  /\ \A c \in outstanding : c.first + c.count <= 3 * Words
  /\ strip_state = "PUSH_DATA" => rwc >= 1

TypeInv == TypeOK /\ AlignInv

Spans == {c \in [first : Numbers, count : 1 .. TlpWords] : c.first + c.count <= 3 * Words}

LEMMA TypeInit == Init => TypeInv
<1> SUFFICES ASSUME Init PROVE TypeInv OBVIOUS
<1>1. /\ 0 \in Numbers /\ 0 \in Addresses /\ TlpWords \in Nat \ {0} /\ 0 \in 0 .. TlpWords - 1
      /\ 0 \in 0 .. TlpWords
  BY PageFacts DEF Addresses
<1>2. 0 % TlpWords = 0 /\ TlpWords % TlpWords = 0
  <2>1. 0 % TlpWords = 0 BY <1>1, ModDef
  <2>2. (0 + TlpWords) % TlpWords = 0 BY <1>1, <2>1, Multiples
  <2>3. 0 + TlpWords = TlpWords BY <1>1
  <2> QED BY <2>1, <2>2, <2>3
<1>3. AlignInv BY <1>1, <1>2 DEF Init, AlignInv
<1>4. TypeOK BY <1>1 DEF Init, TypeOK
<1> QED BY <1>3, <1>4 DEF TypeInv

\* What add_header does to the descriptor and the addresses
LEMMA AskOK ==
  ASSUME TypeInv, Ask
  PROVE  /\ enable' \in BOOLEAN /\ wrap_around' = wrap_around /\ size' = size
         /\ at' \in 0 .. size - 1 /\ at' % TlpWords = 0 /\ (~enable' => at' = 0)
         /\ next' \in Numbers /\ next' % TlpWords = 0 /\ wait' \in BOOLEAN
         /\ next + TlpWords <= 3 * Words
<1>0. /\ TlpWords \in Nat \ {0} /\ size \in Nat /\ size % TlpWords = 0
      /\ at \in Nat /\ at < size /\ at % TlpWords = 0
      /\ next \in Numbers /\ next % TlpWords = 0
  BY PageFacts, HostAssumption DEF TypeInv, TypeOK, AlignInv
<1>1. at + TlpWords <= size /\ (at + TlpWords) % TlpWords = 0 BY <1>0, Multiples
<1>2. 0 % TlpWords = 0 BY <1>0, ModDef
<1>3. at' \in 0 .. size - 1 /\ at' % TlpWords = 0
  <2>1. CASE EndsBuffer BY <1>0, <1>2, <2>1 DEF Ask
  <2>2. CASE ~EndsBuffer BY <1>0, <1>1, <2>2 DEF Ask, EndsBuffer
  <2> QED BY <2>1, <2>2
<1>4. next' \in Numbers /\ next' % TlpWords = 0
  BY <1>0, NextPageIs, NextRequest DEF Ask
<1>5. next + TlpWords <= 3 * Words
  <2>0. next \in Nat /\ Words \in Nat BY <1>0, PageFacts
  <2>1. (next % Words) + TlpWords <= Words /\ next % Words \in 0 .. Words - 1
    BY <1>0, NextRequest, InPage
  <2>2. \/ next = next % Words \/ next = Words + (next % Words)
        \/ next = 2 * Words + (next % Words)
    BY <1>0, InPage
  <2> QED BY <1>0, <2>0, <2>1, <2>2
<1>6. ~enable' => at' = 0 BY DEF Ask
<1> QED BY <1>3, <1>4, <1>5, <1>6 DEF Ask, TypeInv, TypeOK

\* What a clock does to the requests and the completion that is coming in, ...
LEMMA BusOK ==
  ASSUME TypeInv, NEW asked, asked \subseteq Spans,
         \/ NoBeat(asked) \/ NextBeat(asked)
         \/ \E c \in outstanding : \E k \in 1 .. c.count : FirstBeat(c, k, asked)
  PROVE  outstanding' \subseteq Spans /\ beats' \in 0 .. TlpWords /\ word' \in Numbers
<1>0. /\ outstanding \subseteq Spans /\ TlpWords \in Nat
      /\ beats \in 0 .. TlpWords /\ word \in Numbers
  BY PageFacts DEF TypeInv, TypeOK, AlignInv, Spans
<1>1. CASE \E c \in outstanding : \E k \in 1 .. c.count : FirstBeat(c, k, asked)
  <2>1. PICK c \in outstanding : \E k \in 1 .. c.count : FirstBeat(c, k, asked)
    BY <1>1
  <2>2. PICK k \in 1 .. c.count : FirstBeat(c, k, asked) BY <2>1
  <2>3. /\ c \in Spans /\ c.first \in Numbers /\ c.count \in 1 .. TlpWords
        /\ c.first + c.count <= 3 * Words
    BY <1>0 DEF Spans
  <2>4. k \in 1 .. TlpWords /\ k \in 0 .. TlpWords BY <1>0, <2>3
  <2>5. k # c.count => [first |-> c.first + k, count |-> c.count - k] \in Spans
    <3> SUFFICES ASSUME k # c.count
                 PROVE  /\ c.first + k \in Numbers /\ c.count - k \in 1 .. TlpWords
                        /\ (c.first + k) + (c.count - k) <= 3 * Words
      BY DEF Spans
    <3> QED BY <1>0, <2>3, PageFacts, SMTT(30)
  <2>6. outstanding' \subseteq Spans BY <1>0, <2>2, <2>5 DEF FirstBeat, Rest
  <2> QED BY <2>2, <2>3, <2>4, <2>6 DEF FirstBeat
<1>2. CASE NextBeat(asked)
  <2>1. (word + 1) % (Pages * Words) \in Numbers
    <3>1. word + 1 \in 0 .. Pages * Words BY <1>0, PageFacts
    <3> QED BY <3>1, Wrapped
  <2>2. beats' \in 0 .. TlpWords BY <1>0, <1>2 DEF NextBeat
  <2> QED BY <1>0, <1>2, <2>1, <2>2 DEF NextBeat
<1>3. CASE NoBeat(asked) BY <1>0, <1>3 DEF NoBeat
<1> QED BY <1>1, <1>2, <1>3

\* ... and what strip_hdr does with a beat
LEMMA StripOK ==
  ASSUME TypeInv,
         NoCompletion \/ Pause \/ Push
           \/ \E a \in Addresses, n \in 1 .. TlpWords : Header(a, n)
  PROVE  /\ strip_state' \in {"IDLE", "PUSH_DATA"} /\ rwc' \in 0 .. TlpWords
         /\ strip_state' = "PUSH_DATA" => rwc' >= 1
         /\ mem_wea' \in BOOLEAN /\ mem_addra' \in Addresses /\ mem_dina' \in Numbers
<1>0. /\ TlpWords \in Nat /\ rwc \in 0 .. TlpWords
      /\ strip_state = "PUSH_DATA" => rwc >= 1
      /\ word \in Numbers /\ mem_addra \in Addresses /\ mem_dina \in Numbers
      /\ mem_wea \in BOOLEAN /\ strip_state \in {"IDLE", "PUSH_DATA"}
  BY PageFacts DEF TypeInv, TypeOK, AlignInv
<1>1. CASE \E a \in Addresses, n \in 1 .. TlpWords : Header(a, n)
  <2>1. PICK a \in Addresses, n \in 1 .. TlpWords : Header(a, n) BY <1>1
  <2>2. n \in 0 .. TlpWords /\ n >= 1 BY <1>0
  <2> QED BY <1>0, <2>1, <2>2 DEF Header
<1>2. CASE Push
  <2>1. NextAddress \in Addresses
    <3>1. mem_addra + 1 \in Nat /\ Words \in Nat \ {0}
      BY <1>0, PageFacts DEF Addresses
    <3>2. (mem_addra + 1) % Words \in Addresses BY <3>1, ModDef DEF Addresses
    <3> QED BY <1>0, <3>2 DEF NextAddress
  <2>2. rwc' \in 0 .. TlpWords /\ (strip_state' = "PUSH_DATA" => rwc' >= 1)
    BY <1>0, <1>2 DEF Push, Pushes
  <2> QED BY <1>0, <1>2, <2>1, <2>2 DEF Push
<1>3. CASE NoCompletion \/ Pause BY <1>0, <1>3 DEF NoCompletion, Pause
<1> QED BY <1>1, <1>2, <1>3

LEMMA ReceiveOK ==
  ASSUME TypeInv, NEW answer \in BOOLEAN, NEW asked, asked \subseteq Spans,
         Receive(answer, asked)
  PROVE  /\ outstanding' \subseteq Spans /\ beats' \in 0 .. TlpWords /\ word' \in Numbers
         /\ strip_state' \in {"IDLE", "PUSH_DATA"} /\ rwc' \in 0 .. TlpWords
         /\ strip_state' = "PUSH_DATA" => rwc' >= 1
         /\ mem_wea' \in BOOLEAN /\ mem_addra' \in Addresses /\ mem_dina' \in Numbers
<1>1. CASE Completion(asked)
  <2>1. PICK c \in outstanding : \E k \in 1 .. c.count :
          FirstBeat(c, k, asked) /\ (Header(c.first % Words, k) \/ Push)
    BY <1>1 DEF Completion
  <2>2. PICK k \in 1 .. c.count :
          FirstBeat(c, k, asked) /\ (Header(c.first % Words, k) \/ Push)
    BY <2>1
  <2>3. c.first \in Numbers /\ k \in 1 .. TlpWords
    <3>1. c.first \in Numbers /\ c.count \in 1 .. TlpWords BY DEF TypeInv, TypeOK
    <3> QED BY <3>1, PageFacts
  <2>4. c.first % Words \in Addresses BY <2>3, InPage DEF Addresses
  <2> QED BY <2>2, <2>3, <2>4, BusOK, StripOK
<1>2. CASE NextBeat(asked) /\ (Push \/ Spoilt) BY <1>2, BusOK, StripOK DEF Spoilt
<1>3. CASE Silence(asked) BY <1>3, BusOK, StripOK DEF Silence
<1> QED BY <1>1, <1>2, <1>3 DEF Receive, Arrive

LEMMA ReadOK ==
  ASSUME TypeInv, Read, Flags
  PROVE  /\ clear' \in BOOLEAN /\ reading_mem' \in BOOLEAN /\ mem_addrb' \in Addresses
         /\ mem' \in [Addresses -> Numbers]
         /\ mem_full' \subseteq Addresses /\ mem_full_p1' \subseteq Addresses
<1>1. (mem_addrb + 1) % Words \in Addresses
  <2>1. mem_addrb + 1 \in Nat /\ Words \in Nat \ {0}
    BY PageFacts DEF TypeInv, TypeOK, Addresses
  <2> QED BY <2>1, ModDef DEF Addresses
<1>2. 0 \in Addresses BY PageFacts DEF Addresses
<1> QED BY <1>1, <1>2
  DEF Read, Flags, Written, TypeInv, TypeOK, EndsMemory, HandsOn, ReadsFirst, ReadsNext, GoesBack

LEMMA LeftOK ==
  ASSUME due \in Seq(Numbers)
  PROVE  Left \in Seq(Numbers)
BY DEF Left

LEMMA ClockOK ==
  ASSUME TypeInv, NEW answer \in BOOLEAN, Clock(answer)
  PROVE  TypeInv'
<1>0. /\ due \in Seq(Numbers) /\ size \in Sizes \cup {TlpWords} /\ TlpWords \in Nat \ {0}
  BY PageFacts DEF TypeInv, TypeOK
<1>3. torn' \in 0 .. Follow + 1
  BY HostAssumption DEF Clock, TypeInv, TypeOK
<1>1. CASE ClockQuiet(answer)
  <2>1. Receive(answer, {}) /\ AskNot /\ Read /\ Flags /\ due' = Left
    BY <1>1 DEF ClockQuiet
  <2>2. {} \subseteq Spans OBVIOUS
  <2>3. due' \in Seq(Numbers) BY <1>0, <2>1, LeftOK
  <2>4. /\ UNCHANGED <<enable, wrap_around, size, at, next>> /\ wait' \in BOOLEAN
    BY <2>1 DEF AskNot, descriptor, Wait4k, TypeInv, TypeOK
  <2> QED BY <1>3, <2>1, <2>2, <2>3, <2>4, ReceiveOK, ReadOK
          DEF TypeInv, TypeOK, AlignInv, Spans
<1>2. CASE ClockAsk(answer)
  <2> DEFINE asked == {[first |-> next, count |-> TlpWords]}
             more == [i \in 1 .. TlpWords |-> next + i - 1]
  <2>1. /\ Receive(answer, asked) /\ Ask /\ Read /\ Flags
        /\ due' = IF torn > 0 THEN due ELSE Left \o more
    BY <1>2 DEF ClockAsk
  <2>2. next \in Numbers /\ next + TlpWords <= 3 * Words
    BY <2>1, AskOK DEF TypeInv, TypeOK
  <2>3. asked \subseteq Spans BY <1>0, <2>2 DEF Spans
  <2>4. due' \in Seq(Numbers)
    <3>1. \A i \in 1 .. TlpWords : next + i - 1 \in Numbers BY <1>0, <2>2, PageFacts
    <3>2. more \in [1 .. TlpWords -> Numbers] BY <3>1
    <3>3. more \in Seq(Numbers) BY <1>0, <3>2, IsASeq
    <3> HIDE DEF more
    <3> QED BY <1>0, <2>1, <3>3, LeftOK, ConcatProperties
  <2> HIDE DEF asked, more
  <2>5. TypeOK'
    BY <1>0, <1>3, <2>1, <2>3, <2>4, AskOK, ReceiveOK, ReadOK DEF TypeInv, TypeOK, Spans
  <2>6. AlignInv' BY <2>1, <2>3, AskOK, ReceiveOK DEF TypeInv, AlignInv, Spans
  <2> QED BY <2>5, <2>6 DEF TypeInv
<1> QED BY <1>1, <1>2 DEF Clock

LEMMA HostOK ==
  ASSUME TypeInv, HostStart \/ HostStop \/ SoftReset \/ UNCHANGED vars
  PROVE  TypeInv'
<1>0. TlpWords \in Nat \ {0} /\ 0 \in Addresses /\ 0 % TlpWords = 0
  <2>1. TlpWords \in Nat \ {0} /\ 0 \in Addresses BY PageFacts DEF Addresses
  <2>2. 0 % TlpWords = 0 BY <2>1, ModDef
  <2> QED BY <2>1, <2>2
<1>1. CASE HostStart
  <2>1. size' \in Nat \ {0} /\ size' % TlpWords = 0 /\ at = 0
    <3>1. size' \in Sizes /\ at = 0 BY <1>1 DEF HostStart, TypeInv, AlignInv
    <3> QED BY <3>1, HostAssumption
  <2>2. size' >= TlpWords BY <1>0, <2>1, AtLeast
  <2>3. at' \in 0 .. size' - 1 /\ at' = 0
    <3>1. at' = 0 BY <1>1, <2>1 DEF HostStart
    <3>2. \A n \in Nat \ {0} : 0 \in 0 .. n - 1 OBVIOUS
    <3> QED BY <2>1, <3>1, <3>2
  <2>4. AlignInv' BY <1>0, <1>1, <2>1, <2>2, <2>3 DEF HostStart, TypeInv, AlignInv, writer, bus
  <2>5. TypeOK' BY <1>1, <2>1, <2>3, HostAssumption DEF HostStart, TypeInv, TypeOK, writer, bus
  <2> QED BY <2>4, <2>5 DEF TypeInv
<1>2. CASE HostStop
  <2>1. next' \in Numbers /\ next' % TlpWords = 0
    BY <1>2, NextPageIs DEF HostStop, TypeInv, TypeOK, AlignInv
  <2>2. at' = 0 /\ size' = size /\ 0 \in 0 .. size - 1
    BY <1>0, <1>2, HostAssumption DEF HostStop, TypeInv, TypeOK
  <2> QED BY <1>0, <1>2, <2>1, <2>2 DEF HostStop, TypeInv, TypeOK, AlignInv, writer, bus
<1>3. CASE SoftReset
  <2>1. outstanding' \subseteq Spans /\ beats' \in 0 .. TlpWords /\ word' \in Numbers
    <3>1. {} \subseteq Spans OBVIOUS
    <3>2. \/ NoBeat({}) \/ NextBeat({})
          \/ \E c \in outstanding : \E k \in 1 .. c.count : FirstBeat(c, k, {})
      BY <1>3 DEF SoftReset
    <3> QED BY <3>1, <3>2, BusOK
  <2>2. mem' \in [Addresses -> Numbers] BY <1>3 DEF SoftReset, Written, TypeInv, TypeOK
  <2>3. due' = <<>> /\ due' \in Seq(Numbers) BY <1>3 DEF SoftReset
  <2>4. torn' \in 0 .. Follow + 1 BY <1>3, HostAssumption DEF SoftReset, TypeInv, TypeOK
  <2>5. TypeOK'
    BY <1>0, <1>3, <2>1, <2>2, <2>3, <2>4 DEF SoftReset, TypeInv, TypeOK, descriptor, Spans
  <2>6. AlignInv' BY <1>0, <1>3, <2>1, HostAssumption DEF SoftReset, TypeInv, AlignInv, descriptor, Spans
  <2> QED BY <2>5, <2>6 DEF TypeInv
<1>4. CASE UNCHANGED vars
  BY <1>4 DEF vars, descriptor, writer, bus, TypeInv, TypeOK, AlignInv
<1> QED BY <1>1, <1>2, <1>3, <1>4

LEMMA TypeNext == TypeInv /\ [Next]_vars => TypeInv'
BY ClockOK, HostOK DEF Next

(* Addresses, counters and flags stay in range, whatever the host does.    *)
THEOREM TypeCorrect == Spec => []TypeOK
<1>1. TypeInv => TypeOK BY DEF TypeInv
<1> QED BY <1>1, TypeInit, TypeNext, PTL DEF Spec

-----------------------------------------------------------------------------
(* The order of the words                                                  *)

(* Transfers consist of whole pages, the host waits until all words of one *)
(* have arrived, and the beats of a completion follow each other.          *)
Whole == Patient /\ ~Pauses /\ \A s \in Sizes : s % Words = 0

\* All words of the page have been requested, and some are still due.
Complete == due # <<>> /\ next % Words = 0

\* How many words of the page have been requested, and its first word
Asked == IF Complete THEN Words ELSE next % Words
Base  == IF Complete THEN (IF next = 0 THEN 3 * Words ELSE next) - Words
         ELSE next - (next % Words)

\* n words from w on; those of page b from its word a up to its word o
Run(w, n) == [i \in 1 .. n |-> w + i - 1]
Between(b, a, o) == Run(b + a, o - a)

Apart(v, m, w, n) == v + m <= w \/ w + n <= v

Within(w, n, first, end) == w >= first /\ n >= 1 /\ w + n <= end
Clears(w, n, requests) == \A c \in requests : Apart(w, n, c.first, c.count)

\* n words from w on are due; none of them is in a request on its way.
First == Base + mem_addrb
End   == Base + Asked
Lies(w, n) == Within(w, n, First, End)
Away(w, n) == Clears(w, n, outstanding)
Unpushed(w, n) == strip_state = "PUSH_DATA" => Apart(w, n, word, rwc)

\* add_header is at the same word of a page as the buffer.
HostInv ==
  /\ at % Words = next % Words
  /\ enable => size % Words = 0

\* While words of a page are due that is all requested, requests wait; the
\* wait ends when none is due.
WaitInv ==
  /\ clear => due = <<>> /\ next % Words = 0
  /\ clear \/ Complete => (enable => wait)

\* The words due are those of one page that follow the reader.
DueInv ==
  /\ mem_addrb <= Asked
  /\ due = Between(Base, mem_addrb, Asked)
  /\ reading_mem <=> mem_addrb # 0
  /\ mem_addrb \in mem_full_p1 => mem_addrb \in mem_full

(* A word due is in one place only: a request, the completion that is      *)
(* coming in, the write port, or the memory, at its own address.           *)
RequestInv ==
  \A c \in outstanding :
    /\ Lies(c.first, c.count)
    /\ \A d \in outstanding : c # d => Apart(c.first, c.count, d.first, d.count)

ComingInv ==
  strip_state = "PUSH_DATA" =>
    Lies(word, rwc) /\ Away(word, rwc) /\ Base + NextAddress = word

WriteInv ==
  mem_wea =>
    /\ Lies(mem_dina, 1) /\ Away(mem_dina, 1) /\ Unpushed(mem_dina, 1)
    /\ mem_dina = Base + mem_addra

MemoryInv ==
  \A a \in mem_full :
    /\ mem[a] = Base + a
    /\ Lies(mem[a], 1) /\ Away(mem[a], 1) /\ Unpushed(mem[a], 1)
    /\ mem_wea => mem_dina # mem[a]

PlacesInv == RequestInv /\ ComingInv /\ WriteInv /\ MemoryInv

\* strip_hdr counts the beats that are still to come.
BusInv == beats = IF strip_state = "PUSH_DATA" THEN rwc ELSE 0

PageInv == TypeInv /\ HostInv /\ WaitInv /\ DueInv /\ BusInv /\ PlacesInv

-----------------------------------------------------------------------------
(* Sequences of successive words                                           *)

LEMMA RunFacts ==
  ASSUME NEW w \in Int, NEW n \in Nat
  PROVE  /\ Run(w, n) \in Seq(Int) /\ Len(Run(w, n)) = n
         /\ Run(w, n) = <<>> <=> n = 0
         /\ n # 0 => Head(Run(w, n)) = w /\ Tail(Run(w, n)) = Run(w + 1, n - 1)
<1>1. Run(w, n) \in [1 .. n -> Int] BY DEF Run
<1>2. Run(w, n) \in Seq(Int) /\ Len(Run(w, n)) = n
  BY <1>1, IsASeq, LenProperties
<1>3. Run(w, n) = <<>> <=> n = 0 BY <1>2, EmptySeq
<1>4. ASSUME n # 0
      PROVE  Head(Run(w, n)) = w /\ Tail(Run(w, n)) = Run(w + 1, n - 1)
  <2> DEFINE t == Tail(Run(w, n))
             u == Run(w + 1, n - 1)
  <2>1. Head(Run(w, n)) = Run(w, n)[1] BY <1>2, <1>3, <1>4, HeadTailProperties
  <2>2. Head(Run(w, n)) = w BY <1>4, <2>1 DEF Run
  <2>3. /\ t \in Seq(Int) /\ Len(t) = n - 1
        /\ \A i \in 1 .. Len(t) : t[i] = Run(w, n)[i + 1]
    BY <1>2, <1>3, <1>4, HeadTailProperties
  <2>4. u \in Seq(Int) /\ Len(u) = n - 1
    <3>1. n - 1 \in Nat /\ u \in [1 .. n - 1 -> Int] BY <1>4 DEF Run
    <3> QED BY <3>1, IsASeq, LenProperties
  <2>5. \A i \in 1 .. n - 1 : t[i] = u[i] BY <2>3 DEF Run
  <2> HIDE DEF t, u
  <2>6. t = u BY <2>3, <2>4, <2>5, SeqEqual
  <2> QED BY <2>2, <2>6 DEF t, u
<1> QED BY <1>2, <1>3, <1>4

LEMMA RunConcat ==
  ASSUME NEW w \in Int, NEW n \in Nat, NEW m \in Nat
  PROVE  Run(w, n) \o Run(w + n, m) = Run(w, n + m)
<1> DEFINE s == Run(w, n)
           t == Run(w + n, m)
           u == Run(w, n + m)
<1>1. s \in Seq(Int) /\ Len(s) = n BY RunFacts
<1>2. t \in Seq(Int) /\ Len(t) = m
  <2>1. w + n \in Int OBVIOUS
  <2> QED BY <2>1, RunFacts
<1>3. u \in Seq(Int) /\ Len(u) = n + m
  <2>1. n + m \in Nat OBVIOUS
  <2> QED BY <2>1, RunFacts
<1>4. /\ s \o t \in Seq(Int) /\ Len(s \o t) = n + m
      /\ \A i \in 1 .. n + m : (s \o t)[i] = IF i <= n THEN s[i] ELSE t[i - n]
  <2> HIDE DEF s, t
  <2> QED BY <1>1, <1>2, ConcatProperties
<1>5. ASSUME NEW i \in 1 .. n + m PROVE (s \o t)[i] = u[i]
  <2>1. u[i] = w + i - 1 BY DEF Run
  <2>2. CASE i <= n
    <3>1. s[i] = w + i - 1 BY <2>2 DEF Run
    <3> QED BY <1>4, <2>1, <2>2, <3>1
  <2>3. CASE ~(i <= n)
    <3>1. i - n \in 1 .. m BY <2>3
    <3>2. t[i - n] = (w + n) + (i - n) - 1 BY <3>1 DEF Run
    <3> QED BY <1>4, <2>1, <2>3, <3>2
  <2> QED BY <2>2, <2>3
<1> HIDE DEF s, t, u
<1>6. s \o t = u BY <1>3, <1>4, <1>5, SeqEqual
<1> QED BY <1>6 DEF s, t, u

-----------------------------------------------------------------------------
(* What a clock does, in terms of the page                                 *)

LEMMA BaseFacts ==
  ASSUME TypeInv
  PROVE  /\ Words \in Nat /\ Words >= 2 /\ TlpWords \in Nat /\ TlpWords >= 1
         /\ Base \in {0, Words, 2 * Words} /\ Base \in Nat
         /\ Asked \in Nat /\ Asked <= Words
         /\ mem_addrb \in Nat /\ mem_addrb < Words
         /\ next = IF Base + Asked = 3 * Words THEN 0 ELSE Base + Asked
         /\ ~Complete => Asked = next % Words /\ Asked < Words
         /\ Complete => Asked = Words
<1> DEFINE r == next % Words
<1>1. Words \in Nat /\ Words >= 2 /\ TlpWords \in Nat /\ TlpWords >= 1
  BY PageFacts
<1>2. next \in Numbers /\ mem_addrb \in 0 .. Words - 1
  BY DEF TypeInv, TypeOK, Addresses
<1>3. /\ r \in 0 .. Words - 1 /\ (next = r \/ next = Words + r \/ next = 2 * Words + r)
  BY <1>2, InPage
<1>4. Complete => r = 0 BY DEF Complete
<1>5. Asked = (IF Complete THEN Words ELSE r) /\
      Base = IF Complete THEN (IF next = 0 THEN 3 * Words ELSE next) - Words ELSE next - r
  BY DEF Asked, Base
<1> HIDE DEF r
<1>6. Base \in {0, Words, 2 * Words} /\ Asked \in Nat /\ Asked <= Words
      /\ next = IF Base + Asked = 3 * Words THEN 0 ELSE Base + Asked
  <2>1. CASE Complete BY <1>1, <1>3, <1>4, <1>5, <2>1
  <2>2. CASE ~Complete BY <1>1, <1>3, <1>5, <2>2
  <2> QED BY <2>1, <2>2
<1>7. ~Complete => Asked = r /\ r < Words BY <1>1, <1>3, <1>5
<1>8. Base \in Nat /\ mem_addrb \in Nat /\ mem_addrb < Words BY <1>1, <1>2, <1>6
<1> QED BY <1>1, <1>5, <1>6, <1>7, <1>8 DEF r

\* A word of the page has the address that it is that far from the first.
LEMMA AddressOf ==
  ASSUME TypeInv, NEW a \in 0 .. Words - 1
  PROVE  (Base + a) % Words = a
<1>1. Base \in {0, Words, 2 * Words} /\ Words \in Nat BY BaseFacts
<1>2. a % Words = a /\ (Words + a) % Words = a /\ (2 * Words + a) % Words = a
  BY OffsetOf
<1>3. 0 + a = a BY <1>1
<1> QED BY <1>1, <1>2, <1>3

\* The reader hands on the word it stands at, and never goes back.
LEMMA ReaderFacts ==
  ASSUME PageInv
  PROVE  /\ HandsOn <=> mem_addrb \in mem_full_p1
         /\ HandsOn => /\ mem_addrb \in mem_full /\ mem[mem_addrb] = Base + mem_addrb
                       /\ mem_addrb + 1 <= Asked
         /\ EndsMemory <=> HandsOn /\ mem_addrb + 1 = Words
<1>1. /\ Words \in Nat /\ Words >= 2 /\ Asked \in Nat /\ Asked <= Words /\ Base \in Nat
      /\ mem_addrb \in Nat /\ mem_addrb < Words
  BY BaseFacts DEF PageInv
<1>2. HandsOn <=> mem_addrb \in mem_full_p1
  BY DEF PageInv, DueInv, HandsOn, ReadsFirst, ReadsNext
<1>3. ASSUME mem_addrb \in mem_full_p1
      PROVE  /\ mem_addrb \in mem_full /\ mem[mem_addrb] = Base + mem_addrb
             /\ mem_addrb + 1 <= Asked
  <2>1. mem_addrb \in mem_full BY <1>3 DEF PageInv, DueInv
  <2>2. mem[mem_addrb] = Base + mem_addrb /\ Lies(mem[mem_addrb], 1)
    BY <2>1 DEF PageInv, PlacesInv, MemoryInv
  <2> QED BY <1>1, <2>1, <2>2 DEF Lies, Within, First, End
<1>4. ~GoesBack
  <2> SUFFICES ASSUME reading_mem, 0 \in mem_full PROVE FALSE BY DEF GoesBack
  <2>1. mem[0] = Base + 0 /\ Lies(mem[0], 1) BY DEF PageInv, PlacesInv, MemoryInv
  <2>2. mem_addrb # 0 BY DEF PageInv, DueInv
  <2> QED BY <1>1, <2>1, <2>2 DEF Lies, Within, First, End
<1>5. EndsMemory <=> HandsOn /\ mem_addrb + 1 = Words
  <2>1. ReadsFirst => mem_addrb = 0 BY DEF ReadsFirst, PageInv, DueInv
  <2>2. EndsMemory <=> ReadsNext /\ mem_addrb = Words - 1 BY <1>4 DEF EndsMemory
  <2>3. mem_addrb = Words - 1 <=> mem_addrb + 1 = Words BY <1>1
  <2>4. mem_addrb = Words - 1 => mem_addrb # 0 BY <1>1
  <2> QED BY <2>1, <2>2, <2>3, <2>4 DEF HandsOn
<1> QED BY <1>2, <1>3, <1>5

\* What is due after a clock without a request
LEMMA LeftIs ==
  ASSUME PageInv
  PROVE  Left = IF HandsOn THEN Run(Base + mem_addrb + 1, Asked - mem_addrb - 1)
                ELSE Run(Base + mem_addrb, Asked - mem_addrb)
<1> DEFINE w == Base + mem_addrb
           n == Asked - mem_addrb
<1>1. w \in Int /\ n \in Nat /\ due = Run(w, n)
  <2>1. mem_addrb <= Asked /\ due = Run(w, n) BY DEF PageInv, DueInv, Between
  <2>2. Base \in Nat /\ mem_addrb \in Nat /\ Asked \in Nat BY BaseFacts DEF PageInv
  <2> QED BY <2>1, <2>2
<1>2. HandsOn => n # 0
  <2>1. Asked \in Nat /\ mem_addrb \in Nat BY BaseFacts DEF PageInv
  <2> QED BY <2>1, ReaderFacts
<1> HIDE DEF w, n
<1>3. HandsOn => due # <<>> /\ Tail(due) = Run(w + 1, n - 1) BY <1>1, <1>2, RunFacts
<1> QED BY <1>1, <1>3 DEF Left, w, n

(* Words are handed on in the order in which they were requested.          *)
LEMMA OrderFollows == PageInv => InOrder
<1> SUFFICES ASSUME PageInv, HandsOn
             PROVE  due # <<>> /\ mem[mem_addrb] = Head(due)
  BY DEF InOrder
<1> DEFINE w == Base + mem_addrb
           n == Asked - mem_addrb
<1>1. mem[mem_addrb] = w /\ mem_addrb + 1 <= Asked BY ReaderFacts
<1>2. Base \in Nat /\ mem_addrb \in Nat /\ Asked \in Nat BY BaseFacts DEF PageInv
<1>3. due = Run(w, n) BY DEF PageInv, DueInv, Between
<1>4. w \in Int /\ n \in Nat /\ n # 0 BY <1>1, <1>2
<1> HIDE DEF w, n
<1> QED BY <1>1, <1>3, <1>4, RunFacts

\* The page stays, with n more words requested, ...
Stays(n) ==
  /\ Base' = Base /\ Asked' = Asked + n
  /\ mem_addrb' = IF HandsOn THEN mem_addrb + 1 ELSE mem_addrb
  /\ mem_addrb' <= Asked'
  /\ due' = Between(Base', mem_addrb', Asked')
  /\ ~EndsMemory

\* ... or its last word is handed on.
Turns ==
  /\ HandsOn /\ mem_addrb + 1 = Words /\ Asked = Words
  /\ mem_addrb' = 0 /\ Asked' = 0 /\ Base' + 0 = Base' + Asked'
  /\ due' = <<>> /\ due' = Between(Base', mem_addrb', Asked')
  /\ EndsMemory /\ next' % Words = 0

LEMMA ReaderMoves ==
  ASSUME PageInv, Read
  PROVE  mem_addrb' = IF HandsOn THEN (IF mem_addrb + 1 = Words THEN 0 ELSE mem_addrb + 1)
                      ELSE mem_addrb
<1>1. Words \in Nat /\ mem_addrb \in Nat /\ mem_addrb < Words BY BaseFacts DEF PageInv
<1>2. mem_addrb + 1 # Words => (mem_addrb + 1) % Words = mem_addrb + 1
  <2>1. \A r \in 0 .. Words - 1 : r % Words = r BY OffsetOf
  <2> QED BY <1>1, <2>1
<1> QED BY <1>1, <1>2, ReaderFacts DEF Read

LEMMA QuietPage ==
  ASSUME PageInv, AskNot, Read, due' = Left
  PROVE  Stays(0) \/ Turns
<1> DEFINE a == mem_addrb
           o == Asked
           b == Base
<1>1. /\ Words \in Nat /\ Words >= 2 /\ o \in Nat /\ o <= Words /\ b \in Nat
      /\ a \in Nat /\ a < Words /\ a <= o
      /\ b \in {0, Words, 2 * Words}
  BY BaseFacts DEF PageInv, DueInv
<1>2. next' = next BY DEF AskNot
<1>3. due' = IF HandsOn THEN Run(b + a + 1, o - a - 1) ELSE Run(b + a, o - a)
  BY LeftIs
<1>4. HandsOn => a + 1 <= o BY ReaderFacts
<1>5. due = <<>> <=> o - a = 0
  <2>1. b + a \in Int /\ o - a \in Nat BY <1>1
  <2>2. due = Run(b + a, o - a) BY DEF PageInv, DueInv, Between
  <2> QED BY <2>1, <2>2, RunFacts
<1>6. HandsOn => (due' = <<>> <=> o - a - 1 = 0)
  <2>1. HandsOn => b + a + 1 \in Int /\ o - a - 1 \in Nat BY <1>1, <1>4
  <2> QED BY <1>3, <2>1, RunFacts
<1>7. ~HandsOn => (due' = <<>> <=> due = <<>>) BY DEF Left
<1>8. mem_addrb' = IF HandsOn THEN (IF a + 1 = Words THEN 0 ELSE a + 1) ELSE a
  BY ReaderMoves
<1>9. EndsMemory <=> HandsOn /\ a + 1 = Words BY ReaderFacts
<1>10. CASE HandsOn /\ a + 1 = Words
  <2>1. o = Words /\ due' = <<>> BY <1>1, <1>4, <1>6, <1>10
  <2>2. due # <<>> BY <1>1, <1>5, <1>10, <2>1
  <2>3. next % Words = 0 /\ Complete
    <3>1. Complete BY <1>1, <2>1, BaseFacts DEF PageInv
    <3> QED BY <3>1 DEF Complete
  <2>4. ~Complete' /\ Asked' = 0 BY <1>2, <2>1, <2>3 DEF Complete, Asked
  <2>5. Base' = next
    <3>1. Base' = next - (next % Words) BY <1>2, <2>4 DEF Base
    <3>2. next \in Nat BY PageFacts DEF PageInv, TypeInv, TypeOK
    <3> QED BY <2>3, <3>1, <3>2
  <2>6. next \in Nat BY PageFacts DEF PageInv, TypeInv, TypeOK
  <2>7. Between(next, 0, 0) = <<>> BY <2>6, RunFacts DEF Between
  <2> QED BY <1>2, <1>8, <1>9, <1>10, <2>1, <2>3, <2>4, <2>5, <2>7 DEF Turns
<1>11. CASE ~(HandsOn /\ a + 1 = Words)
  <2>1. Complete' <=> Complete
    <3>1. CASE HandsOn
      <4>1. next % Words = 0 => a + 1 < o
        <5>1. next % Words = 0 => Complete BY <1>1, <1>4, <1>5, <3>1 DEF Complete
        <5>2. Complete => o = Words BY BaseFacts DEF PageInv
        <5> QED BY <1>1, <1>4, <1>11, <3>1, <5>1, <5>2
      <4>2. due # <<>> BY <1>1, <1>4, <1>5, <3>1
      <4>3. next % Words = 0 => due' # <<>> BY <1>1, <1>6, <3>1, <4>1
      <4> QED BY <1>2, <4>2, <4>3 DEF Complete
    <3>2. CASE ~HandsOn BY <1>2, <1>7, <3>2 DEF Complete
    <3> QED BY <3>1, <3>2
  <2>2. Asked' = o /\ Base' = b BY <1>2, <2>1 DEF Asked, Base
  <2>3. /\ mem_addrb' = IF HandsOn THEN a + 1 ELSE a
        /\ mem_addrb' <= o
    BY <1>1, <1>4, <1>8, <1>11
  <2>4. due' = Between(b, mem_addrb', o)
    <3>1. b + (a + 1) = b + a + 1 /\ o - (a + 1) = o - a - 1 BY <1>1
    <3> QED BY <1>3, <2>3, <3>1 DEF Between
  <2>5. Asked + 0 = Asked BY <1>1
  <2> QED BY <1>9, <1>11, <2>2, <2>3, <2>4, <2>5 DEF Stays
<1> QED BY <1>10, <1>11

\* How the page goes on when requests do, and what add_header knows
LEMMA AskPage ==
  ASSUME Whole, PageInv, Ask, Read,
         due' = Left \o [i \in 1 .. TlpWords |-> next + i - 1]
  PROVE  /\ Stays(TlpWords) /\ next = Base + Asked
         /\ ~Complete /\ ~clear
         /\ wait' <=> Complete'
         /\ at' % Words = next' % Words
<1> DEFINE a == mem_addrb
           o == Asked
           b == Base
           t == TlpWords
<1>0. /\ enable /\ ~wait BY DEF Ask, Wait4k
<1>1. ~Complete /\ ~clear BY <1>0 DEF PageInv, WaitInv
<1>2. /\ Words \in Nat /\ Words >= 2 /\ o \in Nat /\ o < Words /\ b \in Nat
      /\ a \in Nat /\ a < Words /\ a <= o /\ t \in Nat /\ t >= 1
      /\ b \in {0, Words, 2 * Words} /\ o = next % Words /\ next = b + o
  <2>1. /\ Words \in Nat /\ Words >= 2 /\ o \in Nat /\ o < Words /\ b \in Nat
        /\ a \in Nat /\ a < Words /\ t \in Nat /\ t >= 1
        /\ b \in {0, Words, 2 * Words} /\ o = next % Words
        /\ next = IF b + o = 3 * Words THEN 0 ELSE b + o
    BY <1>1, BaseFacts DEF PageInv
  <2>2. a <= o BY DEF PageInv, DueInv
  <2> QED BY <2>1, <2>2
<1>3. /\ next \in Numbers /\ next % TlpWords = 0 /\ at \in Nat /\ at % TlpWords = 0
      /\ at < size /\ size \in Nat
  BY PageFacts, HostAssumption DEF PageInv, TypeInv, TypeOK, AlignInv
<1>4. /\ o + t <= Words
      /\ o + t < Words => /\ (next + t) % (Pages * Words) = next + t
                           /\ (next + t) % Words = o + t
      /\ o + t = Words => (next + t) % (Pages * Words) = NextPage(next)
  BY <1>2, <1>3, NextRequest
\* The buffer ends with a page, so its words and the page's go together.
<1>5. /\ o + t < Words => (at + t) % Words = o + t
      /\ o + t = Words => (at + t) % Words = 0
  <2>1. Words \in Nat \ {0} /\ at % Words = o BY <1>2 DEF PageInv, HostInv
  <2>2. /\ (at % Words) + t < Words => (at + t) % Words = (at % Words) + t
        /\ (at % Words) + t = Words => (at + t) % Words = 0
    BY <1>2, <1>3, <2>1, AddOffset
  <2> QED BY <2>1, <2>2
<1>6. EndsBuffer => o + t = Words
  <2>1. size % Words = 0 BY <1>0 DEF PageInv, HostInv
  <2>2. EndsBuffer => (at + t) % Words = 0 BY <2>1 DEF EndsBuffer
  <2>3. 0 < o + t BY <1>2
  <2> QED BY <1>2, <1>4, <1>5, <2>2, <2>3
<1>7. EndsPage <=> o + t = Words
  BY <1>2, <1>4, <1>5, <1>6 DEF EndsPage
<1>8. wait' <=> o + t = Words BY <1>1, <1>7 DEF Ask
<1>9. next' = IF o + t = Words THEN NextPage(next) ELSE next + t
  BY <1>2, <1>4, <1>6 DEF Ask
<1>10. HandsOn => a + 1 <= o BY ReaderFacts
<1>11. mem_addrb' = (IF HandsOn THEN a + 1 ELSE a) /\ ~EndsMemory
  BY <1>2, <1>10, ReaderMoves, ReaderFacts
<1>12. due' = Between(b, mem_addrb', o + t) /\ due' # <<>>
  <2> DEFINE c == IF HandsOn THEN a + 1 ELSE a
  <2>1. c \in Nat /\ c <= o BY <1>2, <1>10
  <2>2. Left = Run(b + c, o - c)
    <3>1. b + (a + 1) = b + a + 1 /\ o - (a + 1) = o - a - 1 BY <1>2
    <3> QED BY <3>1, LeftIs
  <2> HIDE DEF c
  <2>3. [i \in 1 .. TlpWords |-> next + i - 1] = Run((b + c) + (o - c), t)
    <3>1. (b + c) + (o - c) = next BY <1>2, <2>1
    <3> QED BY <3>1 DEF Run
  <2>4. b + c \in Int /\ o - c \in Nat /\ (o - c) + t = (o + t) - c BY <1>2, <2>1
  <2>8. Run(b + c, o - c) \o Run((b + c) + (o - c), t) = Run(b + c, (o - c) + t)
    BY <1>2, <2>4, RunConcat
  <2>5. due' = Run(b + c, (o + t) - c) BY <2>2, <2>3, <2>4, <2>8
  <2>6. (o + t) - c \in Nat /\ (o + t) - c # 0 BY <1>2, <2>1
  <2>7. due' # <<>> BY <2>4, <2>5, <2>6, RunFacts
  <2>9. due' = Between(b, c, o + t) BY <2>5 DEF Between
  <2>10. mem_addrb' = c BY <1>11 DEF c
  <2> QED BY <2>7, <2>9, <2>10
<1>13. (Complete' <=> o + t = Words) /\ Asked' = o + t /\ Base' = b
  <2>1. CASE o + t = Words
    <3>1. next' = NextPage(next) /\ next' % Words = 0
      BY <1>3, <1>9, <2>1, NextPageIs
    <3>2. next' = IF b + Words = 3 * Words THEN 0 ELSE b + Words
      <4>1. next - (next % Words) + Words = b + Words BY <1>2
      <4> QED BY <1>3, <3>1, <4>1, NextPageIs
    <3>3. Complete' BY <1>12, <3>1 DEF Complete
    <3>4. (IF next' = 0 THEN 3 * Words ELSE next') - Words = b BY <1>2, <3>2
    <3> QED BY <2>1, <3>3, <3>4 DEF Asked, Base
  <2>2. CASE o + t < Words
    <3>1. next' = next + t /\ next' % Words = o + t BY <1>2, <1>4, <1>9, <2>2
    <3>2. ~Complete' BY <1>2, <2>2, <3>1 DEF Complete
    <3>3. next' - (next' % Words) = b
      <4>1. \A x, y : x = next + t /\ y = o + t => x - y = b BY <1>2
      <4> QED BY <3>1, <4>1
    <3>4. Asked' = o + t BY <3>1, <3>2 DEF Asked
    <3>5. Base' = b BY <3>2, <3>3 DEF Base
    <3>6. ~(o + t = Words) BY <1>2, <2>2
    <3> QED BY <3>2, <3>4, <3>5, <3>6
  <2> QED BY <1>2, <1>4, <2>1, <2>2
<1>14. mem_addrb' <= o + t BY <1>2, <1>10, <1>11
<1>15. at' % Words = next' % Words
  <2>1. 0 % Words = 0
    <3>1. Words \in Nat \ {0} BY <1>2
    <3> QED BY <3>1, ModDef
  <2>2. CASE o + t = Words
    <3>1. next' % Words = 0 BY <1>3, <1>9, <2>2, NextPageIs
    <3>2. at' = 0 \/ at' = at + t BY DEF Ask
    <3> QED BY <1>5, <2>1, <2>2, <3>1, <3>2
  <2>3. CASE o + t < Words
    <3>1. at' = at + t BY <1>2, <1>6, <2>3 DEF Ask
    <3>2. next' = next + t BY <1>2, <1>9, <2>3
    <3> QED BY <1>4, <1>5, <2>3, <3>1, <3>2
  <2> QED BY <1>2, <1>4, <2>2, <2>3
<1>16. Stays(TlpWords)
  <2> HIDE DEF o, b, t
  <2>1. Base' = b /\ Asked' = o + t BY <1>13
  <2>2. due' = Between(Base', mem_addrb', Asked') BY <1>12, <2>1
  <2>4. \A x, y : x <= o + t /\ y = o + t => x <= y OBVIOUS
  <2>3. mem_addrb' <= Asked' BY <1>14, <2>1, <2>4
  <2> QED BY <1>11, <2>1, <2>2, <2>3 DEF Stays, a, b, o, t
<1> QED BY <1>1, <1>2, <1>8, <1>13, <1>15, <1>16

-----------------------------------------------------------------------------
(* Where the words are after a clock in which the page stays               *)

\* The window of the words that are due
LEMMA StaysFacts ==
  ASSUME PageInv, NEW n \in Nat, Stays(n)
  PROVE  /\ First \in Int /\ End \in Int /\ Base \in Int /\ Words \in Int
         /\ Base <= First /\ End <= Base + Words /\ Base + Words <= 3 * Words
         /\ First' = (IF HandsOn THEN First + 1 ELSE First) /\ End' = End + n
         /\ HandsOn => First + 1 <= End
         /\ First <= End
<1>1. /\ Base \in Nat /\ Base \in {0, Words, 2 * Words} /\ Words \in Nat /\ Asked \in Nat
      /\ Asked <= Words /\ mem_addrb \in Nat
  BY BaseFacts DEF PageInv
<1>2. mem_addrb <= Asked BY DEF PageInv, DueInv
<1>3. First' = Base + (IF HandsOn THEN mem_addrb + 1 ELSE mem_addrb)
  BY DEF Stays, First
<1>4. End' = Base + (Asked + n) BY DEF Stays, End
<1>5. HandsOn => mem_addrb + 1 <= Asked BY ReaderFacts
<1> QED BY <1>1, <1>2, <1>3, <1>4, <1>5 DEF First, End

\* Words of old requests stay in the window; those of new ones are behind.
LEMMA WindowMoves ==
  ASSUME NEW first \in Int, NEW end \in Int, NEW n \in Nat, NEW hands \in BOOLEAN,
         NEW w \in Int, NEW m \in Int, Within(w, m, first, end),
         hands => Apart(w, m, first, 1)
  PROVE  /\ Within(w, m, IF hands THEN first + 1 ELSE first, end + n)
         /\ Apart(w, m, end, n) /\ Apart(end, n, w, m)
BY DEF Within, Apart

LEMMA PartFacts ==
  ASSUME NEW w \in Int, NEW m \in Int, NEW x \in Int, NEW j \in Int,
         NEW v \in Int, NEW i \in Int,
         w <= x, 1 <= j, x + j <= w + m
  PROVE  /\ Apart(w, m, v, i) => Apart(x, j, v, i)
         /\ Apart(v, i, w, m) => Apart(v, i, x, j)
         /\ Within(w, m, v, i) => Within(x, j, v, i)
BY DEF Within, Apart

LEMMA ApartTurned ==
  ASSUME NEW w \in Int, NEW m \in Int, NEW v \in Int, NEW i \in Int
  PROVE  Apart(w, m, v, i) <=> Apart(v, i, w, m)
BY DEF Apart

\* The request of a clock, if there is one, follows the window.
Asks(n, asked) ==
  \/ n = 0 /\ asked = {}
  \/ n >= 1 /\ asked = {[first |-> End, count |-> n]}

\* With no pause, a clock brings nothing, a header, or a beat.
Idles == NoCompletion /\ word' = word

Starts(c, k) == Header(c.first % Words, k) /\ word' = c.first

Beat ==
  /\ strip_state = "PUSH_DATA" /\ mem_wea' = TRUE /\ mem_dina' = word
  /\ mem_addra' = NextAddress /\ rwc' = rwc - 1
  /\ word' = (word + 1) % (Pages * Words)
  /\ strip_state' = IF rwc = 1 THEN "IDLE" ELSE "PUSH_DATA"

Comes(asked) ==
  \/ Idles /\ outstanding' = outstanding \cup asked
  \/ \E c \in outstanding : \E k \in 1 .. c.count :
       Starts(c, k) /\ outstanding' = Rest(c, k) \cup asked
  \/ Beat /\ outstanding' = outstanding \cup asked

\* Request d is what is left of request p.
Of(d, p) ==
  /\ d.first \in Int /\ d.count \in Int /\ d.count >= 1
  /\ p.first <= d.first /\ d.first + d.count <= p.first + p.count

LEMMA FieldTypes ==
  ASSUME TypeOK
  PROVE  \A c \in outstanding : c.first \in Numbers /\ c.count \in 1 .. TlpWords
BY DEF TypeOK

LEMMA PlaceFacts ==
  ASSUME PageInv
  PROVE  /\ \A c \in outstanding : /\ c.first \in Int /\ c.count \in Int /\ c.count >= 1
                                   /\ Within(c.first, c.count, First, End)
                                   /\ HandsOn => Apart(c.first, c.count, First, 1)
         /\ word \in Int /\ rwc \in Int /\ mem_dina \in Int
         /\ HandsOn => /\ mem_addrb \in mem_full /\ Away(First, 1) /\ Unpushed(First, 1)
                       /\ mem_wea => mem_dina # First
<1>1. word \in Int /\ rwc \in Int /\ mem_dina \in Int
  BY PageFacts DEF PageInv, TypeInv, TypeOK
<1>2. HandsOn => /\ mem_addrb \in mem_full /\ Away(First, 1) /\ Unpushed(First, 1)
                 /\ mem_wea => mem_dina # First
  <2>1. HandsOn => mem_addrb \in mem_full /\ mem[mem_addrb] = First BY ReaderFacts DEF First
  <2> QED BY <2>1 DEF PageInv, PlacesInv, MemoryInv
<1>3. First \in Int BY BaseFacts DEF PageInv, First
<1>4. ASSUME NEW c \in outstanding
      PROVE  /\ c.first \in Int /\ c.count \in Int /\ c.count >= 1
             /\ Within(c.first, c.count, First, End)
             /\ HandsOn => Apart(c.first, c.count, First, 1)
  <2>1. c.first \in Int /\ c.count \in Int /\ c.count >= 1
    <3>1. c.first \in Numbers /\ c.count \in 1 .. TlpWords
      BY FieldTypes DEF PageInv, TypeInv
    <3> QED BY <3>1, PageFacts
  <2>2. Within(c.first, c.count, First, End)
    BY DEF PageInv, PlacesInv, RequestInv, Lies
  <2>3. HandsOn => Apart(First, 1, c.first, c.count) BY <1>2 DEF Away, Clears
  <2>4. HandsOn => Apart(c.first, c.count, First, 1) BY <1>3, <2>1, <2>3, ApartTurned
  <2> QED BY <2>1, <2>2, <2>4
<1> QED BY <1>1, <1>2, <1>4

LEMMA ComesWhole ==
  ASSUME Whole, PageInv, NEW answer, NEW asked, Receive(answer, asked)
  PROVE  Comes(asked) /\ BusInv'
<1>1. /\ strip_state \in {"IDLE", "PUSH_DATA"} /\ rwc \in Nat /\ beats \in Nat
      /\ strip_state = "PUSH_DATA" => rwc >= 1 /\ beats = rwc
      /\ strip_state = "IDLE" => beats = 0
  BY PageFacts DEF PageInv, TypeInv, TypeOK, AlignInv, BusInv
<1>2. CASE Completion(asked)
  <2>1. PICK c \in outstanding : \E k \in 1 .. c.count :
          FirstBeat(c, k, asked) /\ (Header(c.first % Words, k) \/ Push)
    BY <1>2 DEF Completion
  <2>2. PICK k \in 1 .. c.count :
          FirstBeat(c, k, asked) /\ (Header(c.first % Words, k) \/ Push)
    BY <2>1
  <2>3. ~Push BY <1>1, <2>2 DEF Push, FirstBeat
  <2>4. Starts(c, k) /\ outstanding' = Rest(c, k) \cup asked
    BY <2>2, <2>3 DEF Starts, FirstBeat
  <2>5. BusInv' BY <2>2, <2>3 DEF BusInv, FirstBeat, Header
  <2> QED BY <2>4, <2>5 DEF Comes
<1>3. CASE NextBeat(asked) /\ (Push \/ Spoilt)
  <2>1. Push BY <1>1, <1>3 DEF NextBeat, Spoilt, Header
  <2>2. beats = rwc /\ rwc >= 1 BY <1>1, <2>1 DEF Push
  <2>3. Beat BY <1>1, <1>3, <2>1, <2>2 DEF Beat, Push, Pushes, NextBeat
  <2>4. BusInv' BY <1>1, <1>3, <2>2, <2>3 DEF Beat, NextBeat, BusInv
  <2> QED BY <1>3, <2>3, <2>4 DEF Comes, NextBeat
<1>4. CASE Silence(asked)
  <2>1. beats = 0 /\ strip_state = "IDLE" BY <1>1, <1>4 DEF Silence, NoBeat, Whole
  <2>2. Idles /\ BusInv' BY <1>4, <2>1
    DEF Silence, NoBeat, Pause, Push, NoCompletion, Idles, BusInv
  <2> QED BY <1>4, <2>2 DEF Comes, Silence, NoBeat
<1> QED BY <1>2, <1>3, <1>4 DEF Receive, Arrive

\* What the requests after a clock are parts of
LEMMA PartsOf ==
  ASSUME PageInv, NEW asked, Comes(asked)
  PROVE  /\ \A d \in outstanding' : d \in asked \/ \E p \in outstanding : Of(d, p)
         /\ \A d, e \in outstanding' :
              d # e /\ d \notin asked /\ e \notin asked =>
                \E p, q \in outstanding : p # q /\ Of(d, p) /\ Of(e, q)
<1>1. \A c \in outstanding : Of(c, c)
  BY PlaceFacts DEF Of
<1>2. CASE outstanding' = outstanding \cup asked BY <1>1, <1>2
<1>3. CASE \E c \in outstanding : \E k \in 1 .. c.count :
             Starts(c, k) /\ outstanding' = Rest(c, k) \cup asked
  <2>1. PICK c \in outstanding : \E k \in 1 .. c.count :
               Starts(c, k) /\ outstanding' = Rest(c, k) \cup asked
    BY <1>3
  <2>2. PICK k \in 1 .. c.count : outstanding' = Rest(c, k) \cup asked BY <2>1
  <2> DEFINE r == [first |-> c.first + k, count |-> c.count - k]
  <2>3. k # c.count => Of(r, c)
    <3>1. c.first \in Int /\ c.count \in Int /\ k \in 1 .. c.count BY PlaceFacts
    <3>2. r.first = c.first + k /\ r.count = c.count - k OBVIOUS
    <3> QED BY <3>1, <3>2 DEF Of
  <2>4. \A d \in outstanding' : d \in asked \/ (d \in outstanding /\ d # c) \/ (d = r /\ k # c.count)
    BY <2>2 DEF Rest
  <2> HIDE DEF r
  <2> QED BY <1>1, <2>3, <2>4
<1> QED BY <1>2, <1>3 DEF Comes

\* What lies in the window and is not handed on lies there afterwards.
LEMMA LiesOn ==
  ASSUME PageInv, NEW n \in Nat, Stays(n), NEW asked, Asks(n, asked), Comes(asked),
         NEW w \in Int, NEW m \in Int, Lies(w, m),
         HandsOn => Apart(w, m, First, 1)
  PROVE  /\ Within(w, m, First', End')
         /\ \A d \in asked : Apart(w, m, d.first, d.count)
         /\ Away(w, m) => Clears(w, m, outstanding')
<1>1. First \in Int /\ End \in Int /\ First' = (IF HandsOn THEN First + 1 ELSE First)
      /\ End' = End + n /\ HandsOn \in BOOLEAN
  BY StaysFacts DEF HandsOn, ReadsFirst, ReadsNext
<1>2. /\ Within(w, m, IF HandsOn THEN First + 1 ELSE First, End + n)
      /\ Apart(w, m, End, n)
  <2>1. Within(w, m, First, End) BY DEF Lies
  <2> QED BY <1>1, <2>1, WindowMoves
<1>3. Within(w, m, First', End') BY <1>1, <1>2
<1>4. ASSUME NEW d \in asked PROVE Apart(w, m, d.first, d.count)
  <2>1. d = [first |-> End, count |-> n] BY <1>4 DEF Asks
  <2> QED BY <1>2, <2>1
<1>5. ASSUME Away(w, m), NEW d \in outstanding' PROVE Apart(w, m, d.first, d.count)
  <2>1. CASE d \in asked BY <1>4, <2>1
  <2>2. CASE \E p \in outstanding : Of(d, p)
    <3>1. PICK p \in outstanding : Of(d, p) BY <2>2
    <3>2. p.first \in Int /\ p.count \in Int BY PlaceFacts
    <3>3. Apart(w, m, p.first, p.count) BY <1>5 DEF Away, Clears
    <3> QED BY <3>1, <3>2, <3>3, PartFacts DEF Of
  <2> QED BY <2>1, <2>2, PartsOf
<1> QED BY <1>3, <1>4, <1>5 DEF Clears

LEMMA RequestsOn ==
  ASSUME PageInv, NEW n \in Nat, Stays(n), NEW asked, Asks(n, asked), Comes(asked)
  PROVE  RequestInv'
<1>1. /\ First \in Int /\ End \in Int /\ First' = (IF HandsOn THEN First + 1 ELSE First)
      /\ End' = End + n /\ (HandsOn => First + 1 <= End) /\ First <= End
  BY StaysFacts
<1>2. ASSUME NEW d \in asked
      PROVE  /\ d = [first |-> End, count |-> n] /\ d.first \in Int /\ d.count \in Int
             /\ Within(d.first, d.count, First', End')
  <2>1. d = [first |-> End, count |-> n] /\ n >= 1 BY <1>2 DEF Asks
  <2>2. d.first = End /\ d.count = n BY <2>1
  <2>3. Within(End, n, IF HandsOn THEN First + 1 ELSE First, End + n)
    BY <1>1, <2>1 DEF Within
  <2> QED BY <1>1, <2>1, <2>2, <2>3
<1>3. ASSUME NEW d, NEW p \in outstanding, Of(d, p)
      PROVE  /\ Within(d.first, d.count, First', End')
             /\ \A e \in asked : Apart(d.first, d.count, e.first, e.count)
                                /\ Apart(e.first, e.count, d.first, d.count)
  <2>1. /\ p.first \in Int /\ p.count \in Int /\ Lies(p.first, p.count)
        /\ HandsOn => Apart(p.first, p.count, First, 1)
    BY PlaceFacts DEF Lies
  <2>2. /\ Within(p.first, p.count, First', End')
        /\ \A e \in asked : Apart(p.first, p.count, e.first, e.count)
    BY <2>1, LiesOn
  <2>3. /\ d.first \in Int /\ d.count \in Int /\ 1 <= d.count
        /\ p.first <= d.first /\ d.first + d.count <= p.first + p.count
    BY <1>3 DEF Of
  <2>4. \A v, i \in Int : /\ Within(p.first, p.count, v, i) => Within(d.first, d.count, v, i)
                          /\ Apart(p.first, p.count, v, i) => Apart(d.first, d.count, v, i)
    BY <2>1, <2>3, PartFacts
  <2>5. First' \in Int /\ End' \in Int BY <1>1
  <2>6. \A e \in asked : e.first \in Int /\ e.count \in Int BY <1>2
  <2> QED BY <2>2, <2>3, <2>4, <2>5, <2>6, ApartTurned
<1>4. ASSUME NEW d \in outstanding'
      PROVE  Within(d.first, d.count, First', End')
  BY <1>2, <1>3, PartsOf
<1>5. ASSUME NEW d \in outstanding', NEW e \in outstanding', d # e
      PROVE  Apart(d.first, d.count, e.first, e.count)
  <2>1. CASE d \in asked /\ e \in asked BY <1>2, <1>5, <2>1
  <2>2. CASE d \in asked /\ e \notin asked BY <1>3, <2>2, PartsOf
  <2>3. CASE d \notin asked /\ e \in asked BY <1>3, <2>3, PartsOf
  <2>4. CASE d \notin asked /\ e \notin asked
    <3>1. PICK p \in outstanding, q \in outstanding : p # q /\ Of(d, p) /\ Of(e, q)
      BY <1>5, <2>4, PartsOf
    <3>2. Apart(p.first, p.count, q.first, q.count)
      BY <3>1 DEF PageInv, PlacesInv, RequestInv
    <3>3. /\ p.first \in Int /\ p.count \in Int /\ q.first \in Int /\ q.count \in Int
      BY PlaceFacts
    <3>4. /\ d.first \in Int /\ d.count \in Int /\ 1 <= d.count /\ p.first <= d.first
          /\ d.first + d.count <= p.first + p.count
          /\ e.first \in Int /\ e.count \in Int /\ 1 <= e.count /\ q.first <= e.first
          /\ e.first + e.count <= q.first + q.count
      BY <3>1 DEF Of
    <3>5. Apart(d.first, d.count, q.first, q.count) BY <3>2, <3>3, <3>4, PartFacts
    <3> QED BY <3>3, <3>4, <3>5, PartFacts
  <2> QED BY <2>1, <2>2, <2>3, <2>4
<1> QED BY <1>4, <1>5 DEF RequestInv, Lies

\* A beat takes the first word of those that are coming in.
LEMMA BeatFacts ==
  ASSUME PageInv, NEW n \in Nat, Stays(n), Beat
  PROVE  /\ Lies(word, 1) /\ Away(word, 1) /\ (HandsOn => Apart(word, 1, First, 1))
         /\ mem_dina' = word /\ Base + mem_addra' = word /\ mem_addra' \in 0 .. Words - 1
         /\ strip_state' = "PUSH_DATA" =>
              /\ rwc' = rwc - 1 /\ word' = word + 1 /\ rwc - 1 >= 1
              /\ Lies(word + 1, rwc - 1) /\ Away(word + 1, rwc - 1)
              /\ HandsOn => Apart(word + 1, rwc - 1, First, 1)
<1>1. /\ Lies(word, rwc) /\ Away(word, rwc) /\ Base + NextAddress = word
      /\ HandsOn => Apart(First, 1, word, rwc)
  BY PlaceFacts DEF PageInv, PlacesInv, ComingInv, Beat, Unpushed
<1>2. /\ First \in Int /\ End \in Int /\ Base \in Int /\ Words \in Int /\ word \in Int
      /\ rwc \in Int /\ Base <= First /\ End <= Base + Words /\ Base + Words <= 3 * Words
  BY StaysFacts, PlaceFacts
<1>3. rwc >= 1 /\ First <= word /\ word + rwc <= End BY <1>1 DEF Lies, Within
<1>4. Lies(word, 1) /\ (rwc - 1 >= 1 => Lies(word + 1, rwc - 1))
  BY <1>2, <1>3 DEF Lies, Within
<1>5. HandsOn => Apart(word, 1, First, 1) /\ Apart(word + 1, rwc - 1, First, 1)
  BY <1>1, <1>2, <1>3 DEF Apart
<1>6. Away(word, 1) /\ Away(word + 1, rwc - 1)
  <2> SUFFICES ASSUME NEW c \in outstanding
               PROVE  /\ Apart(word, 1, c.first, c.count)
                      /\ Apart(word + 1, rwc - 1, c.first, c.count)
    BY DEF Away, Clears
  <2>1. c.first \in Int /\ c.count \in Int BY PlaceFacts
  <2>2. Apart(word, rwc, c.first, c.count) BY <1>1 DEF Away, Clears
  <2> QED BY <1>2, <1>3, <2>1, <2>2 DEF Apart
<1>7. NextAddress \in 0 .. Words - 1
  <2>1. mem_addra \in 0 .. Words - 1 /\ Words \in Nat \ {0}
    BY PageFacts DEF PageInv, TypeInv, TypeOK, Addresses
  <2>2. mem_addra + 1 \in Nat BY <2>1
  <2>3. (mem_addra + 1) % Words \in 0 .. Words - 1 BY <2>1, <2>2, ModDef
  <2> QED BY <2>1, <2>3 DEF NextAddress
<1>8. mem_dina' = word /\ mem_addra' = NextAddress /\ rwc' = rwc - 1 BY DEF Beat
<1>9. strip_state' = "PUSH_DATA" => word' = word + 1 /\ rwc - 1 >= 1
  <2>1. strip_state' = "PUSH_DATA" => rwc # 1 BY DEF Beat
  <2>2. rwc # 1 => word + 1 \in 0 .. Pages * Words /\ word + 1 # Pages * Words
    <3>1. Pages * Words = 3 * Words BY PageFacts
    <3>2. Base \in Nat BY BaseFacts DEF PageInv
    <3> QED BY <1>2, <1>3, <3>1, <3>2
  <2>3. rwc # 1 => word' = word + 1 BY <2>2, Wrapped DEF Beat
  <2> QED BY <1>2, <1>3, <2>1, <2>3
<1>10. Base + mem_addra' = word /\ mem_addra' \in 0 .. Words - 1 BY <1>1, <1>7, <1>8
<1> QED BY <1>4, <1>5, <1>6, <1>8, <1>9, <1>10

\* What lies elsewhere is none of the words that are coming in.
LEMMA UnpushedOn ==
  ASSUME PageInv, NEW n \in Nat, Stays(n), NEW asked, Comes(asked),
         NEW w \in Int, Away(w, 1), Unpushed(w, 1)
  PROVE  /\ strip_state' = "PUSH_DATA" => Apart(w, 1, word', rwc')
         /\ mem_wea' => mem_dina' # w
<1>1. CASE Idles BY <1>1 DEF Idles, NoCompletion
<1>2. CASE \E c \in outstanding : \E k \in 1 .. c.count :
             Starts(c, k) /\ outstanding' = Rest(c, k) \cup asked
  <2>1. PICK c \in outstanding : \E k \in 1 .. c.count :
               Starts(c, k) /\ outstanding' = Rest(c, k) \cup asked
    BY <1>2
  <2>2. PICK k \in 1 .. c.count : Starts(c, k) BY <2>1
  <2>3. c.first \in Int /\ c.count \in Int /\ k \in Int /\ 1 <= k /\ k <= c.count
    BY PlaceFacts
  <2>4. Apart(w, 1, c.first, c.count) BY DEF Away, Clears
  <2>5. Apart(w, 1, c.first, k) BY <2>3, <2>4 DEF Apart
  <2> QED BY <2>2, <2>5 DEF Starts, Header
<1>3. CASE Beat
  <2>1. Apart(w, 1, word, rwc) BY <1>3 DEF Unpushed, Beat
  <2>2. word \in Int /\ rwc \in Int BY PlaceFacts
  <2>3. rwc >= 1 BY <1>3 DEF PageInv, TypeInv, AlignInv, Beat
  <2>4. word # w /\ Apart(w, 1, word + 1, rwc - 1) BY <2>1, <2>2, <2>3 DEF Apart
  <2> QED BY <1>3, <2>4, BeatFacts
<1> QED BY <1>1, <1>2, <1>3 DEF Comes

LEMMA ComingOn ==
  ASSUME PageInv, NEW n \in Nat, Stays(n), NEW asked, Asks(n, asked), Comes(asked)
  PROVE  ComingInv'
<1>0. Base' = Base BY DEF Stays
<1>1. CASE Idles BY <1>1 DEF Idles, NoCompletion, ComingInv
<1>2. CASE \E c \in outstanding : \E k \in 1 .. c.count :
             Starts(c, k) /\ outstanding' = Rest(c, k) \cup asked
  <2>1. PICK c \in outstanding : \E k \in 1 .. c.count :
               Starts(c, k) /\ outstanding' = Rest(c, k) \cup asked
    BY <1>2
  <2>2. PICK k \in 1 .. c.count : Starts(c, k) /\ outstanding' = Rest(c, k) \cup asked
    BY <2>1
  <2>3. /\ c.first \in Int /\ c.count \in Int /\ k \in Int /\ 1 <= k /\ k <= c.count
        /\ Within(c.first, c.count, First, End)
        /\ HandsOn => Apart(c.first, c.count, First, 1)
    BY PlaceFacts
  <2>4. Lies(c.first, k) /\ (HandsOn => Apart(c.first, k, First, 1))
    <3>1. First \in Int /\ End \in Int BY StaysFacts
    <3> QED BY <2>3, <3>1 DEF Lies, Within, Apart
  <2>5. Within(c.first, k, First', End') BY <2>3, <2>4, LiesOn
  <2>6. Clears(c.first, k, outstanding')
    <3> SUFFICES ASSUME NEW d \in outstanding' PROVE Apart(c.first, k, d.first, d.count)
      BY DEF Clears
    <3>1. CASE d \in asked BY <2>3, <2>4, <3>1, LiesOn
    <3>2. CASE d \in outstanding /\ d # c
      <4>1. d.first \in Int /\ d.count \in Int BY <3>2, PlaceFacts
      <4>2. Apart(c.first, c.count, d.first, d.count)
        BY <3>2 DEF PageInv, PlacesInv, RequestInv
      <4> QED BY <2>3, <4>1, <4>2 DEF Apart
    <3>3. CASE d = [first |-> c.first + k, count |-> c.count - k]
      <4>1. d.first = c.first + k BY <3>3
      <4> QED BY <2>3, <4>1 DEF Apart
    <3> QED BY <2>2, <3>1, <3>2, <3>3 DEF Rest
  <2>7. Base + (c.first % Words) = c.first
    <3> DEFINE j == c.first - Base
    <3>1. c.first >= Base /\ c.first < Base + Words /\ Base \in Int /\ Words \in Int
      BY <2>3, StaysFacts DEF Within
    <3>2. j \in 0 .. Words - 1 /\ Base + j = c.first BY <2>3, <3>1
    <3>3. (Base + j) % Words = j BY <3>2, AddressOf DEF PageInv
    <3> QED BY <3>2, <3>3
  <2>8. /\ word' = c.first /\ rwc' = k /\ mem_wea' = FALSE /\ mem_addra' = c.first % Words
    BY <2>2 DEF Starts, Header
  <2>9. (Base + NextAddress = word)' BY <1>0, <2>7, <2>8 DEF NextAddress
  <2> QED BY <2>5, <2>6, <2>8, <2>9 DEF ComingInv, Lies, Away
<1>3. CASE Beat /\ outstanding' = outstanding \cup asked
  <2> SUFFICES ASSUME strip_state' = "PUSH_DATA"
               PROVE  (Lies(word, rwc) /\ Away(word, rwc) /\ Base + NextAddress = word)'
    BY DEF ComingInv
  <2>1. /\ rwc' = rwc - 1 /\ word' = word + 1 /\ rwc - 1 >= 1
        /\ Lies(word + 1, rwc - 1) /\ Away(word + 1, rwc - 1)
        /\ HandsOn => Apart(word + 1, rwc - 1, First, 1)
    BY <1>3, BeatFacts
  <2>2. word + 1 \in Int /\ rwc - 1 \in Int BY PlaceFacts
  <2>3. Within(word + 1, rwc - 1, First', End') /\ Clears(word + 1, rwc - 1, outstanding')
    BY <2>1, <2>2, LiesOn
  <2>4. (mem_addra' + 1) % Words = mem_addra' + 1 /\ Base + (mem_addra' + 1) = word + 1
    <3>1. /\ Base \in Int /\ Words \in Int /\ word \in Int /\ rwc \in Int
          /\ End <= Base + Words /\ End \in Int
      BY StaysFacts, PlaceFacts
    <3>2. word + 1 + (rwc - 1) <= End BY <2>1 DEF Lies, Within
    <3>3. Base + mem_addra' = word /\ mem_addra' \in 0 .. Words - 1 BY <1>3, BeatFacts
    <3>4. \A x \in 0 .. Words - 1 : Base + x = word =>
            x + 1 \in 0 .. Words - 1 /\ Base + (x + 1) = word + 1
      BY <2>1, <3>1, <3>2
    <3>5. mem_addra' + 1 \in 0 .. Words - 1 /\ Base + (mem_addra' + 1) = word + 1
      BY <3>3, <3>4
    <3> QED BY <3>5, OffsetOf
  <2>5. NextAddress' = mem_addra' + 1 BY <1>3, <2>4 DEF NextAddress, Beat
  <2>6. (Base + NextAddress = word)' BY <1>0, <2>1, <2>4, <2>5
  <2> QED BY <2>1, <2>3, <2>6 DEF Lies, Away
<1> QED BY <1>1, <1>2, <1>3 DEF Comes

LEMMA WriteOn ==
  ASSUME PageInv, NEW n \in Nat, Stays(n), NEW asked, Asks(n, asked), Comes(asked)
  PROVE  WriteInv'
<1>0. Base' = Base BY DEF Stays
<1>1. CASE ~Beat BY <1>1 DEF Comes, Idles, NoCompletion, Starts, Header, WriteInv
<1>2. CASE Beat
  <2>1. /\ Lies(word, 1) /\ Away(word, 1) /\ (HandsOn => Apart(word, 1, First, 1))
        /\ mem_dina' = word /\ Base + mem_addra' = word
        /\ strip_state' = "PUSH_DATA" => rwc' = rwc - 1 /\ word' = word + 1
    BY <1>2, BeatFacts
  <2>2. word \in Int /\ rwc \in Int BY PlaceFacts
  <2>3. Within(word, 1, First', End') /\ Clears(word, 1, outstanding')
    BY <2>1, <2>2, LiesOn
  <2>4. Apart(word, 1, word + 1, rwc - 1) BY <2>2 DEF Apart
  <2>5. Unpushed(mem_dina, 1)' BY <2>1, <2>4 DEF Unpushed
  <2> QED BY <1>0, <2>1, <2>3, <2>5 DEF WriteInv, Lies, Away
<1> QED BY <1>1, <1>2

\* What a flag set after a clock stands for
LEMMA FlagFacts ==
  ASSUME PageInv, Flags, NEW b \in mem_full'
  PROVE  /\ b \in 0 .. Words - 1 /\ mem'[b] = Base + b
         /\ Lies(Base + b, 1) /\ Away(Base + b, 1) /\ Unpushed(Base + b, 1)
         /\ HandsOn => b # mem_addrb
<1>0. /\ mem_full \subseteq Addresses /\ mem_addra \in Addresses
      /\ mem \in [Addresses -> Numbers]
  BY DEF PageInv, TypeInv, TypeOK
<1>1. HandsOn => b # mem_addrb BY DEF Flags
<1>2. CASE mem_wea /\ b = mem_addra
  <2>1. mem'[b] = mem_dina BY <1>0, <1>2 DEF Flags, Written
  <2>2. /\ Lies(mem_dina, 1) /\ Away(mem_dina, 1) /\ Unpushed(mem_dina, 1)
        /\ mem_dina = Base + b
    BY <1>2 DEF PageInv, PlacesInv, WriteInv
  <2> QED BY <1>0, <1>1, <1>2, <2>1, <2>2 DEF Addresses
<1>3. CASE ~(mem_wea /\ b = mem_addra)
  <2>1. b \in mem_full BY <1>3 DEF Flags
  <2>2. mem'[b] = mem[b] BY <1>0, <1>3, <2>1 DEF Flags, Written
  <2>3. /\ mem[b] = Base + b
        /\ Lies(mem[b], 1) /\ Away(mem[b], 1) /\ Unpushed(mem[b], 1)
    BY <2>1 DEF PageInv, PlacesInv, MemoryInv
  <2> QED BY <1>0, <1>1, <2>1, <2>2, <2>3 DEF Addresses
<1> QED BY <1>2, <1>3

LEMMA MemoryOn ==
  ASSUME PageInv, NEW n \in Nat, Stays(n), NEW asked, Asks(n, asked), Comes(asked), Flags
  PROVE  MemoryInv'
<1> SUFFICES ASSUME NEW b \in mem_full'
             PROVE  /\ mem'[b] = Base' + b
                    /\ Lies(mem[b], 1)' /\ Away(mem[b], 1)' /\ Unpushed(mem[b], 1)'
                    /\ mem_wea' => mem_dina' # mem'[b]
  BY DEF MemoryInv
<1>1. /\ b \in 0 .. Words - 1 /\ mem'[b] = Base + b
      /\ Lies(Base + b, 1) /\ Away(Base + b, 1) /\ Unpushed(Base + b, 1)
      /\ HandsOn => b # mem_addrb
  BY FlagFacts
<1>2. Base' = Base /\ Base + b \in Int
  BY <1>1, StaysFacts DEF Stays
<1>3. HandsOn => Apart(Base + b, 1, First, 1)
  <2>1. Base \in Int /\ mem_addrb \in Int /\ b \in Int /\ Words \in Int
    BY <1>1, BaseFacts DEF PageInv
  <2> QED BY <1>1, <2>1 DEF Apart, First
<1>4. Within(Base + b, 1, First', End') /\ Clears(Base + b, 1, outstanding')
  BY <1>1, <1>2, <1>3, LiesOn
<1>5. /\ strip_state' = "PUSH_DATA" => Apart(Base + b, 1, word', rwc')
      /\ mem_wea' => mem_dina' # Base + b
  BY <1>1, <1>2, UnpushedOn
<1> QED BY <1>1, <1>2, <1>4, <1>5 DEF Lies, Away, Unpushed

LEMMA PlacesStay ==
  ASSUME PageInv, NEW n \in Nat, Stays(n), NEW asked, Asks(n, asked), Comes(asked), Flags
  PROVE  PlacesInv'
BY RequestsOn, ComingOn, WriteOn, MemoryOn DEF PlacesInv

\* When the last word of a page is handed on, there is no other anywhere.
LEMMA PlacesTurn ==
  ASSUME PageInv, Turns, Comes({}), Flags
  PROVE  PlacesInv'
<1>1. /\ HandsOn /\ mem_addrb + 1 = Words /\ Asked = Words /\ mem_addrb \in Nat
      /\ Base \in Nat /\ First = Base + mem_addrb /\ End = First + 1
  <2>1. Base \in Nat /\ mem_addrb \in Nat BY BaseFacts DEF PageInv
  <2> QED BY <2>1 DEF Turns, First, End
<1>2. \A w, m \in Int : Lies(w, m) => ~Apart(w, m, First, 1) /\ ~Apart(First, 1, w, m)
  BY <1>1 DEF Lies, Within, Apart
<1>3. outstanding = {}
  <2>1. \A c \in outstanding :
          /\ c.first \in Int /\ c.count \in Int /\ Lies(c.first, c.count)
          /\ Apart(c.first, c.count, First, 1)
    BY <1>1, PlaceFacts DEF Lies
  <2> QED BY <1>2, <2>1
<1>4. strip_state # "PUSH_DATA"
  <2> SUFFICES ASSUME strip_state = "PUSH_DATA" PROVE FALSE OBVIOUS
  <2>1. Lies(word, rwc) BY DEF PageInv, PlacesInv, ComingInv
  <2>2. Apart(First, 1, word, rwc) BY <1>1, PlaceFacts DEF Unpushed
  <2>3. word \in Int /\ rwc \in Int BY PlaceFacts
  <2> QED BY <1>2, <2>1, <2>2, <2>3
<1>5. mem_full' = {}
  <2> SUFFICES ASSUME NEW b \in mem_full' PROVE FALSE OBVIOUS
  <2>1. /\ b \in 0 .. Words - 1 /\ Lies(Base + b, 1) /\ b # mem_addrb BY <1>1, FlagFacts
  <2> QED BY <1>1, <2>1 DEF Lies, Within
<1>6. Idles /\ outstanding' = {} BY <1>3, <1>4 DEF Comes, Beat
<1>7. strip_state' # "PUSH_DATA" /\ mem_wea' = FALSE BY <1>4, <1>6 DEF Idles, NoCompletion
<1> QED BY <1>5, <1>6, <1>7 DEF PlacesInv, RequestInv, ComingInv, WriteInv, MemoryInv

-----------------------------------------------------------------------------
(* The order of the words is kept.                                         *)

LEMMA ZeroOffset == 0 % Words = 0
<1>1. Words \in Nat \ {0} BY PageFacts
<1> QED BY <1>1, ModDef

\* The reader and its flags in a clock in which the page stays
LEMMA DueStays ==
  ASSUME PageInv, NEW n \in Nat, Stays(n), Read, Flags
  PROVE  DueInv' /\ ~clear'
<1>1. mem_addrb \in Nat BY BaseFacts DEF PageInv
<1>2. mem_addrb' = (IF HandsOn THEN mem_addrb + 1 ELSE mem_addrb) /\ ~EndsMemory BY DEF Stays
<1>3. reading_mem' <=> mem_addrb' # 0
  <2>1. reading_mem <=> mem_addrb # 0 BY DEF PageInv, DueInv
  <2>2. reading_mem' <=> HandsOn \/ reading_mem BY <1>2 DEF Read
  <2>3. HandsOn => mem_addrb + 1 # 0 BY <1>1
  <2> QED BY <1>2, <2>1, <2>2, <2>3
<1>4. mem_addrb' \in mem_full_p1' => mem_addrb' \in mem_full'
  <2>1. HandsOn => mem_addrb + 1 # mem_addrb BY <1>1
  <2> QED BY <1>2, <2>1 DEF Flags
<1>5. mem_addrb' <= Asked' /\ due' = Between(Base', mem_addrb', Asked') BY DEF Stays
<1>6. ~clear' BY <1>2 DEF Read
<1> QED BY <1>3, <1>4, <1>5, <1>6 DEF DueInv

LEMMA DueTurns ==
  ASSUME PageInv, Turns, Read, Flags
  PROVE  DueInv'
<1>1. /\ mem_addrb \in Nat /\ Words \in Nat /\ Words >= 2 /\ Base \in Nat
      /\ mem_addrb + 1 = Words
  BY BaseFacts DEF PageInv, Turns
<1>2. 0 \notin mem_full
  <2> SUFFICES ASSUME 0 \in mem_full PROVE FALSE OBVIOUS
  <2>1. mem[0] = Base + 0 /\ Lies(mem[0], 1) BY DEF PageInv, PlacesInv, MemoryInv
  <2> QED BY <1>1, <2>1 DEF Lies, Within, First
<1>3. mem_addrb' = 0 /\ Asked' = 0 /\ due' = Between(Base', mem_addrb', Asked') BY DEF Turns
<1>4. ~reading_mem' BY DEF Turns, Read
<1>5. mem_addrb' \notin mem_full_p1' BY <1>2, <1>3 DEF Flags
<1> QED BY <1>3, <1>4, <1>5 DEF DueInv

LEMMA ClockPage ==
  ASSUME Whole, PageInv, torn = 0, NEW answer \in BOOLEAN, Clock(answer)
  PROVE  PageInv'
<1>0. TypeInv' BY ClockOK DEF PageInv
<1>1. CASE ClockQuiet(answer)
  <2>1. /\ Comes({}) /\ BusInv' /\ AskNot /\ Read /\ Flags /\ due' = Left
        /\ UNCHANGED <<enable, wrap_around, size, at, next>> /\ wait' = (Wait4k /\ ~clear)
    BY <1>1, ComesWhole DEF ClockQuiet, AskNot, descriptor
  <2>2. HostInv' BY <2>1 DEF PageInv, HostInv
  <2>3. Asked = Words => /\ Complete /\ ~clear /\ (enable' => wait')
    <3>1. Asked = Words => Complete
      <4>1. ~Complete => Asked < Words BY BaseFacts DEF PageInv
      <4>2. Words \in Nat BY PageFacts
      <4> QED BY <4>1, <4>2
    <3>2. Complete => ~clear /\ (enable => wait) BY DEF PageInv, WaitInv, Complete
    <3> QED BY <2>1, <3>1, <3>2 DEF Wait4k
  <2>4. CASE Stays(0)
    <3>1. PlacesInv' BY <2>1, <2>4, PlacesStay DEF Asks
    <3>2. DueInv' /\ ~clear' BY <2>1, <2>4, DueStays
    <3>3. Complete' => Asked = Words
      <4>1. Complete' => Asked' = Words BY DEF Asked
      <4>2. Asked' = Asked + 0 /\ Asked \in Nat BY <2>4, BaseFacts DEF Stays, PageInv
      <4> QED BY <4>1, <4>2
    <3>4. WaitInv' BY <2>3, <3>2, <3>3 DEF WaitInv
    <3> QED BY <1>0, <2>1, <2>2, <3>1, <3>2, <3>4 DEF PageInv
  <2>5. CASE Turns
    <3>1. PlacesInv' BY <2>1, <2>5, PlacesTurn
    <3>2. DueInv' BY <2>1, <2>5, DueTurns
    <3>3. due' = <<>> /\ next' % Words = 0 /\ Asked = Words BY <2>5 DEF Turns
    <3>4. WaitInv' BY <2>3, <3>3 DEF WaitInv
    <3> QED BY <1>0, <2>1, <2>2, <3>1, <3>2, <3>4 DEF PageInv
  <2> QED BY <2>1, <2>4, <2>5, QuietPage
<1>2. CASE ClockAsk(answer)
  <2> DEFINE asked == {[first |-> next, count |-> TlpWords]}
  <2>1. /\ Comes(asked) /\ BusInv' /\ Ask /\ Read /\ Flags
        /\ due' = Left \o [i \in 1 .. TlpWords |-> next + i - 1]
    BY <1>2, ComesWhole DEF ClockAsk
  <2>2. /\ Stays(TlpWords) /\ next = Base + Asked
        /\ wait' <=> Complete'
        /\ at' % Words = next' % Words
    BY <2>1, AskPage
  <2>3. TlpWords \in Nat /\ TlpWords >= 1 BY PageFacts
  <2>4. Asks(TlpWords, asked) BY <2>2, <2>3 DEF Asks, End
  <2> HIDE DEF asked
  <2>5. PlacesInv' BY <2>1, <2>2, <2>3, <2>4, PlacesStay
  <2>6. DueInv' /\ ~clear' BY <2>1, <2>2, <2>3, DueStays
  <2>7. WaitInv'
    <3>1. Complete' => wait' BY <2>2
    <3>2. ~clear' BY <2>6
    <3> QED BY <3>1, <3>2 DEF WaitInv
  <2>8. HostInv'
    <3>1. at' % Words = next' % Words BY <2>2
    <3>2. size' = size /\ size % Words = 0 BY <2>1 DEF Ask, PageInv, HostInv
    <3> QED BY <3>1, <3>2 DEF HostInv
  <2> QED BY <1>0, <2>1, <2>5, <2>6, <2>7, <2>8 DEF PageInv
<1> QED BY <1>1, <1>2 DEF Clock

\* When all has been handed on, nothing is anywhere, and the reader is at
\* the beginning of a page.
LEMMA QuietFacts ==
  ASSUME PageInv, due = <<>>, at = 0
  PROVE  /\ ~Complete /\ next % Words = 0
         /\ Asked = 0 /\ mem_addrb = 0 /\ ~reading_mem
         /\ mem_full = {} /\ 0 \notin mem_full_p1
         /\ outstanding = {} /\ strip_state = "IDLE" /\ beats = 0
<1>2. next % Words = 0 /\ ~Complete
  BY ZeroOffset DEF PageInv, HostInv, Complete
<1>3. Asked = 0 /\ mem_addrb = 0 /\ ~reading_mem
  <2>1. Asked = 0 BY <1>2 DEF Asked
  <2>2. mem_addrb \in Nat BY BaseFacts DEF PageInv
  <2>3. mem_addrb <= 0 BY <2>1 DEF PageInv, DueInv
  <2>4. mem_addrb = 0 BY <2>2, <2>3
  <2> QED BY <2>1, <2>4 DEF PageInv, DueInv
<1>4. mem_full = {}
  <2> SUFFICES ASSUME NEW a \in mem_full PROVE FALSE OBVIOUS
  <2>1. Lies(mem[a], 1) /\ mem[a] = Base + a BY DEF PageInv, PlacesInv, MemoryInv
  <2>2. Base \in Nat /\ Asked = 0 /\ a \in Nat
    BY <1>3, BaseFacts, PageFacts DEF PageInv, TypeInv, TypeOK, Addresses
  <2> QED BY <1>3, <2>1, <2>2 DEF Lies, Within, End, First
<1>5. 0 \notin mem_full_p1 BY <1>3, <1>4 DEF PageInv, DueInv
<1>6. \A w, n \in Int : ~Lies(w, n)
  <2>1. Base \in Nat BY BaseFacts DEF PageInv
  <2> QED BY <1>3, <2>1 DEF Lies, Within, End, First
<1>7. outstanding = {}
  <2>1. \A c \in outstanding : c.first \in Int /\ c.count \in Int /\ Lies(c.first, c.count)
    BY PlaceFacts DEF Lies
  <2> QED BY <1>6, <2>1
<1>8. strip_state # "PUSH_DATA"
  <2>1. word \in Int /\ rwc \in Int BY PlaceFacts
  <2> QED BY <1>6, <2>1 DEF PageInv, PlacesInv, ComingInv
<1>9. strip_state = "IDLE" /\ beats = 0
  BY <1>8 DEF PageInv, TypeInv, TypeOK, BusInv
<1> QED BY <1>2, <1>3, <1>4, <1>5, <1>7, <1>9

LEMMA HostPage ==
  ASSUME Whole, PageInv, torn = 0, torn' = 0,
         HostStart \/ HostStop \/ SoftReset \/ UNCHANGED vars
  PROVE  PageInv'
<1>0. TypeInv' BY HostOK DEF PageInv
<1>1. ASSUME UNCHANGED <<next, bus, writer, mem, mem_full, mem_full_p1, reading_mem,
                         mem_addrb, due>>
      PROVE  DueInv' /\ BusInv' /\ PlacesInv' /\ (Complete' <=> Complete)
  <2>1. Base' = Base /\ Asked' = Asked /\ (Complete' <=> Complete)
    BY <1>1 DEF Base, Asked, Complete
  <2>2. DueInv' BY <1>1, <2>1 DEF PageInv, DueInv
  <2>3. /\ First' = First /\ End' = End /\ NextAddress' = NextAddress
    BY <1>1, <2>1 DEF First, End, NextAddress, writer, bus
  <2>4. PlacesInv'
    BY <1>1, <2>1, <2>3 DEF PageInv, PlacesInv, RequestInv, ComingInv, WriteInv, MemoryInv,
       Lies, Away, Unpushed, writer, bus
  <2>5. BusInv' BY <1>1 DEF PageInv, BusInv, writer, bus
  <2> QED BY <2>1, <2>2, <2>4, <2>5
<1>2. CASE HostStart
  <2>0. due = <<>> /\ at = 0 /\ ~clear BY <1>2 DEF HostStart, Whole, Quiet
  <2>1. /\ due = <<>> /\ ~Complete /\ ~clear BY <2>0, QuietFacts
  <2>2. DueInv' /\ BusInv' /\ PlacesInv' /\ ~Complete' BY <1>1, <1>2, <2>1 DEF HostStart
  <2>3. WaitInv' BY <1>2, <2>1, <2>2 DEF HostStart, WaitInv
  <2>4. HostInv' BY <1>2 DEF HostStart, Whole, PageInv, HostInv
  <2> QED BY <1>0, <2>2, <2>3, <2>4 DEF PageInv
<1>3. CASE HostStop
  <2>0. due = <<>> /\ at = 0 /\ ~clear BY <1>3 DEF HostStop, Whole, Quiet
  <2>1. /\ at = 0 /\ ~clear /\ ~Complete /\ next % Words = 0
    BY <2>0, QuietFacts
  <2>2. next' = next /\ at' = at /\ enable' = FALSE /\ clear' = clear
    BY <1>3, <2>1 DEF HostStop
  <2>3. DueInv' /\ BusInv' /\ PlacesInv' /\ ~Complete' BY <1>1, <1>3, <2>1, <2>2 DEF HostStop
  <2>4. WaitInv' BY <2>1, <2>2, <2>3 DEF WaitInv
  <2>5. HostInv' BY <2>2 DEF PageInv, HostInv
  <2> QED BY <1>0, <2>3, <2>4, <2>5 DEF PageInv
<1>4. CASE SoftReset
  <2>0. due = <<>> /\ ~enable /\ at = 0
    <3>1. due = <<>> /\ ~enable BY <1>4 DEF SoftReset
    <3> QED BY <3>1 DEF PageInv, TypeInv, AlignInv
  <2>1. /\ ~Complete /\ next % Words = 0 /\ Asked = 0
        /\ mem_addrb = 0 /\ 0 \notin mem_full_p1
        /\ outstanding = {} /\ strip_state = "IDLE" /\ beats = 0
    BY <2>0, QuietFacts
  <2>2. /\ UNCHANGED <<enable, size, at, next, due, clear, reading_mem, mem_full_p1,
                       outstanding, strip_state, beats>>
        /\ mem_wea' = FALSE /\ mem_full' = {} /\ mem_addrb' = mem_addrb
    BY <1>4, <2>0, <2>1 DEF SoftReset, NoBeat, NextBeat, FirstBeat, descriptor
  <2>3. Base' = Base /\ Asked' = Asked /\ ~Complete'
    BY <2>1, <2>2 DEF Base, Asked, Complete
  <2>4. DueInv' BY <2>1, <2>2, <2>3 DEF PageInv, DueInv
  <2>5. WaitInv' BY <2>0, <2>1, <2>2, <2>3 DEF WaitInv
  <2>6. HostInv' BY <2>2 DEF PageInv, HostInv
  <2>7. PlacesInv'
    BY <2>1, <2>2 DEF PlacesInv, RequestInv, ComingInv, WriteInv, MemoryInv
  <2>8. BusInv' BY <2>1, <2>2 DEF BusInv
  <2> QED BY <1>0, <2>4, <2>5, <2>6, <2>7, <2>8 DEF PageInv
<1>5. CASE UNCHANGED vars
  <2>1. DueInv' /\ BusInv' /\ PlacesInv' /\ (Complete' <=> Complete)
    BY <1>1, <1>5 DEF vars
  <2>2. WaitInv' BY <1>5, <2>1 DEF vars, descriptor, PageInv, WaitInv
  <2>3. HostInv' BY <1>5 DEF vars, descriptor, PageInv, HostInv
  <2> QED BY <1>0, <2>1, <2>2, <2>3 DEF PageInv
<1> QED BY <1>2, <1>3, <1>4, <1>5

LEMMA PageInit == Init => PageInv
<1> SUFFICES ASSUME Init PROVE PageInv OBVIOUS
<1>1. TypeInv BY TypeInit
<1>2. due = <<>> /\ next = 0 /\ at = 0 /\ mem_addrb = 0 BY DEF Init
<1>3. ~Complete /\ Asked = 0 /\ Base = 0
  BY <1>2, ZeroOffset DEF Complete, Asked, Base
<1>4. Between(0, 0, 0) = <<>> BY RunFacts DEF Between
<1>5. DueInv BY <1>2, <1>3, <1>4 DEF Init, DueInv
<1>6. HostInv /\ WaitInv BY <1>3 DEF Init, HostInv, WaitInv
<1>7. BusInv /\ PlacesInv BY DEF Init, BusInv, PlacesInv, RequestInv, ComingInv, WriteInv, MemoryInv
<1> QED BY <1>1, <1>5, <1>6, <1>7 DEF PageInv

(* For a page, requests and transfers of any number of words: when a       *)
(* transfer consists of whole pages, the host waits for the last of its    *)
(* words, and a completion comes without a pause, strip_hdr hands the      *)
(* words on in the order in which add_header requested them, in whatever   *)
(* parts and whatever order the completions come, and with resets between  *)
(* transfers, as long as none has come in the middle of one.               *)
THEOREM WordsInOrder == Whole => (Spec => []InOrder)
<1> SUFFICES ASSUME Whole PROVE Spec => []InOrder OBVIOUS
<1> DEFINE OrderInv == TypeInv /\ (torn = 0 => PageInv)
<1>1. OrderInv /\ [Next]_vars => OrderInv'
  <2> SUFFICES ASSUME OrderInv, [Next]_vars PROVE OrderInv' OBVIOUS
  <2>1. TypeInv' BY TypeNext
  <2>2. torn' = 0 => torn = 0
    <3>1. torn \in Nat BY HostAssumption DEF TypeInv, TypeOK
    <3>2. CASE HostStart \/ HostStop \/ SoftReset \/ UNCHANGED vars
      BY <3>2 DEF HostStart, HostStop, SoftReset, vars
    <3>3. CASE \E answer \in BOOLEAN : Clock(answer) BY <3>1, <3>3 DEF Clock
    <3> QED BY <3>2, <3>3 DEF Next
  <2>3. torn' = 0 => PageInv' BY <2>2, ClockPage, HostPage DEF Next
  <2> QED BY <2>1, <2>3
<1>2. OrderInv => InOrder BY OrderFollows DEF InOrder
<1>3. Init => OrderInv BY TypeInit, PageInit
<1> HIDE DEF OrderInv
<1> QED BY <1>1, <1>2, <1>3, PTL DEF Spec

=============================================================================
