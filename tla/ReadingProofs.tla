--------------------------- MODULE ReadingProofs ---------------------------
(***************************************************************************)
(* Proofs about the receive buffer and its reader, for every set of chunks *)
(* that do not overlap and every size of output buffer.                    *)
(*                                                                         *)
(* emit is a loop, modelled by a recursive function: the first part of the *)
(* module shows that the function exists and what induction over the       *)
(* loop's iterations gives, the second one that the loop's body keeps its  *)
(* invariant, and the third one the theorems.                              *)
(***************************************************************************)
EXTENDS Reading, FiniteSetTheorems, TLAPS

\* A set of natural numbers that is not empty has a least element.
LEMMA SmallestElement ==
    ASSUME NEW S \in SUBSET Nat, S # {}
    PROVE  \E w \in S : \A x \in S : w <= x
<1> DEFINE R == OpToRel(<, Nat)
<1>1. \E y \in S : \A z \in S : ~(<<z, y>> \in R)
  BY WFMin, NatLessThanWellFounded, Zenon
<1>2. PICK y \in S : \A z \in S : ~(<<z, y>> \in R)
  BY <1>1, Zenon
<1>3. \A z \in S : ~(z < y)
  <2> SUFFICES ASSUME NEW z \in S, z < y PROVE FALSE
    OBVIOUS
  <2>1. <<z, y>> \in R
    BY DEF OpToRel
  <2> QED
    BY <1>2, <2>1, Zenon
<1> HIDE DEF R
<1> QED
  BY <1>3

\* Induction, for a set of natural numbers.
LEMMA SetInduction ==
    ASSUME NEW S, 0 \in S, \A n \in Nat : n \in S => n + 1 \in S
    PROVE  Nat \subseteq S
<1> SUFFICES ASSUME Nat \ S # {} PROVE FALSE
  OBVIOUS
<1>1. PICK w \in Nat \ S : \A x \in Nat \ S : w <= x
  <2>1. Nat \ S \in SUBSET Nat
    OBVIOUS
  <2> QED
    BY <2>1, SmallestElement, Zenon
<1>2. w # 0 /\ w - 1 \in Nat
  BY <1>1
<1>3. w - 1 \in S
  BY <1>1, <1>2
<1> QED
  BY <1>1, <1>2, <1>3

\* One iteration, or none when the loop has ended.
Iterate(s) == IF s.status = "loop" THEN EmitStep(s) ELSE s

EmitStart(cap) ==
    [rdata |-> rdata, last |-> last_maxoff, cap |-> cap,
     len |-> 0, copies |-> {}, status |-> "loop"]

\* The loop's states are those of a function: for every number of iterations
\* there is one that has them all.
LEMMA RunExists ==
    ASSUME NEW start, NEW n \in Nat
    PROVE  \E g : g = [i \in 0 .. n |->
                          IF i = 0 THEN start ELSE Iterate(g[i-1])]
<1> DEFINE S == {m \in Nat : \E g : g = [i \in 0 .. m |->
                                IF i = 0 THEN start ELSE Iterate(g[i-1])]}
<1>1. 0 \in S
  <2> DEFINE g == [i \in 0 .. 0 |-> start]
  <2>1. g = [i \in 0 .. 0 |-> IF i = 0 THEN start ELSE Iterate(g[i-1])]
    OBVIOUS
  <2> QED
    BY <2>1, Zenon
<1>2. ASSUME NEW m \in Nat, m \in S PROVE m + 1 \in S
  <2>1. PICK g : g = [i \in 0 .. m |->
                          IF i = 0 THEN start ELSE Iterate(g[i-1])]
    BY <1>2
  <2> DEFINE h == [i \in 0 .. (m + 1) |-> IF i <= m THEN g[i]
                                          ELSE Iterate(g[m])]
  <2>2. \A i \in 0 .. (m + 1) :
            h[i] = IF i = 0 THEN start ELSE Iterate(h[i-1])
    <3> SUFFICES ASSUME NEW i \in 0 .. (m + 1)
                 PROVE  h[i] = IF i = 0 THEN start ELSE Iterate(h[i-1])
      OBVIOUS
    <3>1. CASE i = 0
      BY <2>1, <3>1
    <3>2. CASE i \in 1 .. m
      <4>1. h[i] = g[i] /\ h[i-1] = g[i-1]
        BY <3>2
      <4> QED
        BY <2>1, <3>2, <4>1
    <3>3. CASE i = m + 1
      <4>1. h[i] = Iterate(g[m]) /\ h[i-1] = g[m]
        BY <3>3
      <4> QED
        BY <3>3, <4>1
    <3> QED
      BY <3>1, <3>2, <3>3
  <2>3. h = [i \in 0 .. (m + 1) |->
                IF i = 0 THEN start ELSE Iterate(h[i-1])]
    BY <2>2
  <2> HIDE DEF h
  <2>4. \E f : f = [i \in 0 .. (m + 1) |->
                       IF i = 0 THEN start ELSE Iterate(f[i-1])]
    BY <2>3
  <2> QED
    BY <2>4
<1>3. Nat \subseteq S
  <2> HIDE DEF S
  <2> QED
    BY <1>1, <1>2, SetInduction
<1> QED
  BY <1>3, Zenon

\* What emit returns is the state after as many iterations as there are
\* entries, if there are any.
LEMMA EmitUnfolds ==
    ASSUME NEW cap, IsFiniteSet(DOMAIN rdata), DOMAIN rdata # {}
    PROVE  \E run :
             LET n == Cardinality(DOMAIN rdata)
             IN  /\ run[0] = EmitStart(cap)
                 /\ \A i \in 1 .. n : run[i] = Iterate(run[i-1])
                 /\ Emit(cap) = IF run[n].status = "loop"
                                  THEN [run[n] EXCEPT !.status = "ok"]
                                  ELSE run[n]
<1> DEFINE n == Cardinality(DOMAIN rdata)
           start == EmitStart(cap)
           run == CHOOSE g : g = [i \in 0 .. n |->
                      IF i = 0 THEN start
                      ELSE IF g[i-1].status = "loop" THEN EmitStep(g[i-1])
                      ELSE g[i-1]]
<1>1. n \in Nat
  BY FS_CardinalityType
<1>2. Emit(cap) = IF run[n].status = "loop"
                    THEN [run[n] EXCEPT !.status = "ok"]
                    ELSE run[n]
  BY DEF Emit, EmitStart
<1> HIDE DEF n, start
<1>3. \E g : g = [i \in 0 .. n |-> IF i = 0 THEN start ELSE Iterate(g[i-1])]
  BY <1>1, RunExists, Zenon
<1>4. run = [i \in 0 .. n |-> IF i = 0 THEN start
                              ELSE IF run[i-1].status = "loop"
                                THEN EmitStep(run[i-1])
                              ELSE run[i-1]]
  BY <1>3, Zenon DEF Iterate
<1> HIDE DEF run
<1>5. run[0] = start /\ \A i \in 1 .. n : run[i] = Iterate(run[i-1])
  BY <1>1, <1>4 DEF Iterate
<1> QED
  BY <1>2, <1>5, Zenon DEF n, start

-----------------------------------------------------------------------------
ChunkOf(e) == [off |-> e.off, len |-> e.len]

\* The map holds chunks of the stream under their ends, none fully read.
MapOK(m) ==
    /\ IsFiniteSet(DOMAIN m) /\ DOMAIN m \subseteq Nat
    /\ \A k \in DOMAIN m : /\ m[k] \in Entry
                           /\ m[k].pos < m[k].len
                           /\ k = m[k].off + m[k].len
                           /\ ChunkOf(m[k]) \in Chunks

\* No unread byte lies before offset last.
Ahead(m, last) == \A k \in DOMAIN m : m[k].off + m[k].pos >= last

\* The state of emit's loop.
LoopOK(s) ==
    /\ s = [rdata |-> s.rdata, last |-> s.last, cap |-> s.cap, len |-> s.len,
            copies |-> s.copies, status |-> s.status]
    /\ MapOK(s.rdata)
    /\ s.last \in Nat /\ s.cap \in Nat
    /\ s.status \in {"loop", "ok", "panic"}

\* The first key of a map is its least one.
LEMMA FirstKeyLeast ==
    ASSUME NEW m, DOMAIN m \subseteq Nat, DOMAIN m # {}
    PROVE  FirstKey(m) \in DOMAIN m /\ \A j \in DOMAIN m : FirstKey(m) <= j
<1>1. \E k \in DOMAIN m : \A j \in DOMAIN m : k <= j
  BY SmallestElement
<1> QED
  BY <1>1 DEF FirstKey

\* Entries that end later start later, after the end of the earlier one.
LEMMA EntriesApart ==
    ASSUME NEW m, MapOK(m), NEW j \in DOMAIN m, NEW k \in DOMAIN m, j < k
    PROVE  j <= m[k].off
<1> DEFINE b == ChunkOf(m[j])
           c == ChunkOf(m[k])
<1>1. /\ b \in Chunks /\ c \in Chunks
      /\ b.off + b.len = j /\ c.off + c.len = k /\ c.off = m[k].off
      /\ j \in Nat /\ k \in Nat /\ b.off \in Nat /\ b.len \in Nat \ {0}
      /\ c.off \in Nat /\ c.len \in Nat
  BY DEF MapOK, ChunkOf, Entry
<1> HIDE DEF b, c
<1>2. b # c
  BY <1>1
<1>3. b.off + b.len <= c.off \/ c.off + c.len <= b.off
  BY <1>1, <1>2, ReadingAssumption
<1> QED
  BY <1>1, <1>3

\* A map without one of its entries, or with one read further, is still one.
LEMMA MapKept ==
    ASSUME NEW m, MapOK(m), NEW k \in DOMAIN m
    PROVE  /\ MapOK(Without(m, k))
           /\ Cardinality(DOMAIN Without(m, k)) = Cardinality(DOMAIN m) - 1
           /\ \A p \in Nat : p < m[k].len => MapOK([m EXCEPT ![k].pos = p])
<1>1. DOMAIN Without(m, k) = DOMAIN m \ {k}
      /\ \A j \in DOMAIN m \ {k} : Without(m, k)[j] = m[j]
  BY DEF Without
<1>2. /\ IsFiniteSet(DOMAIN m \ {k})
      /\ Cardinality(DOMAIN m \ {k}) = Cardinality(DOMAIN m) - 1
  BY FS_RemoveElement, Zenon DEF MapOK
<1>3. MapOK(Without(m, k))
  BY <1>1, <1>2 DEF MapOK
<1>4. ASSUME NEW p \in Nat, p < m[k].len
      PROVE  MapOK([m EXCEPT ![k].pos = p])
  <2> DEFINE w == [m EXCEPT ![k].pos = p]
  <2>1. DOMAIN w = DOMAIN m
    OBVIOUS
  <2>2. \A j \in DOMAIN m : j # k => w[j] = m[j]
    OBVIOUS
  <2>3. m[k] \in Entry /\ w[k] = [m[k] EXCEPT !.pos = p]
    BY DEF MapOK
  <2>4. w[k] \in Entry /\ w[k].pos = p /\ w[k].off = m[k].off
        /\ w[k].len = m[k].len
    BY <2>3 DEF Entry
  <2>5. ChunkOf(w[k]) = ChunkOf(m[k])
    BY <2>4 DEF ChunkOf
  <2> HIDE DEF w
  <2>6. \A j \in DOMAIN m : /\ w[j] \in Entry
                            /\ w[j].pos < w[j].len
                            /\ j = w[j].off + w[j].len
                            /\ ChunkOf(w[j]) \in Chunks
    BY <1>4, <2>2, <2>4, <2>5 DEF MapOK
  <2>7. MapOK(w)
    BY <2>1, <2>6, SMTT(30) DEF MapOK
  <2> QED
    BY <2>7 DEF w
<1> QED
  BY <1>1, <1>2, <1>3, <1>4

\* The four ways one iteration of emit can go: an underflow that panics, an
\* entry read in part or in full, and an entry out of the output's reach.
Panics(s, t, gap) ==
    /\ gap < 0 /\ overflow_checks
    /\ t.status = "panic" /\ t.rdata = s.rdata /\ t.last = s.last
    /\ t.cap = s.cap /\ t.copies = s.copies

ReadsPart(s, t, k, gap) ==
    /\ (gap % U64) < s.cap
    /\ s.cap - (gap % U64) < s.rdata[k].len - s.rdata[k].pos
    /\ t.rdata = [s.rdata EXCEPT ![k].pos = s.rdata[k].pos
                                            + (s.cap - (gap % U64))]
    /\ t.last = s.last + s.cap /\ t.cap = s.cap - (gap % U64)
    /\ t.status = "ok"

ReadsAll(s, t, k, gap) ==
    /\ (gap % U64) < s.cap
    /\ t.rdata = Without(s.rdata, k)
    /\ t.last = s.last + (gap % U64) + (s.rdata[k].len - s.rdata[k].pos)
    /\ t.cap = s.cap - (gap % U64)
    /\ t.status = "loop"

StopsShort(s, t, gap) ==
    /\ s.cap <= gap % U64
    /\ t.rdata = s.rdata /\ t.last = s.last + s.cap /\ t.cap = s.cap
    /\ t.status = "ok" /\ t.copies = s.copies

\* One iteration of emit's loop goes one of these four ways.
LEMMA StepCases ==
    ASSUME NEW s, LoopOK(s), s.status = "loop", DOMAIN s.rdata # {},
           NEW t, t = EmitStep(s), NEW k, k = FirstKey(s.rdata),
           NEW gap, gap = s.rdata[k].off + s.rdata[k].pos - s.last
    PROVE  /\ t = [rdata |-> t.rdata, last |-> t.last, cap |-> t.cap,
                   len |-> t.len, copies |-> t.copies, status |-> t.status]
           /\ gap \in Int
           /\ \/ Panics(s, t, gap) \/ ReadsPart(s, t, k, gap)
              \/ ReadsAll(s, t, k, gap)
              \/ (gap >= 0 \/ ~overflow_checks) /\ StopsShort(s, t, gap)
<1> DEFINE e == s.rdata[k]
           zero == gap % U64
           room == s.cap - zero
           rem == e.len - e.pos
           n == IF rem <= room THEN rem ELSE room
           copy == [at |-> s.len + zero, from |-> e.off, n |-> n]
<1>1. k \in DOMAIN s.rdata /\ MapOK(s.rdata)
  BY FirstKeyLeast DEF LoopOK, MapOK
<1>2. /\ e.off \in Nat /\ e.pos \in Nat /\ e.len \in Nat /\ e.pos < e.len
      /\ k = e.off + e.len /\ s.last \in Nat /\ s.cap \in Nat
  BY <1>1 DEF MapOK, Entry, LoopOK
<1>3. Gap(s.rdata, k, s.last) = gap /\ gap \in Int /\ rem \in Nat \ {0}
  BY <1>2 DEF Gap
<1>4. zero \in Nat
  BY <1>3, ArithmeticAssumption, SMTT(30)
<1>5. t = IF gap < 0 /\ overflow_checks
            THEN [s EXCEPT !.status = "panic"]
          ELSE IF zero < s.cap
            THEN [s EXCEPT
                    !.cap = room,
                    !.len = s.len + zero,
                    !.last = s.last + zero + n,
                    !.copies = s.copies \cup {copy},
                    !.rdata = IF n < rem
                                THEN [s.rdata EXCEPT ![k].pos = e.pos + n]
                                ELSE Without(s.rdata, k),
                    !.status = IF n < rem THEN "ok" ELSE "loop"]
          ELSE IF zero = s.cap
            THEN [s EXCEPT !.last = s.last + zero, !.len = s.len + zero,
                           !.status = "ok"]
            ELSE [s EXCEPT !.last = s.last + s.cap, !.status = "ok"]
  BY <1>3 DEF EmitStep
<1>6. s = [rdata |-> s.rdata, last |-> s.last, cap |-> s.cap, len |-> s.len,
           copies |-> s.copies, status |-> s.status]
  BY DEF LoopOK
<1> HIDE DEF copy, e
<1>7. CASE gap < 0 /\ overflow_checks
  <2>1. t = [s EXCEPT !.status = "panic"]
    BY <1>5, <1>7, SMTT(30)
  <2> QED
    BY <1>3, <1>6, <1>7, <2>1 DEF Panics
<1>8. CASE ~(gap < 0 /\ overflow_checks) /\ zero < s.cap
  <2>1. t = [s EXCEPT
                    !.cap = room,
                    !.len = s.len + zero,
                    !.last = s.last + zero + n,
                    !.copies = s.copies \cup {copy},
                    !.rdata = IF n < rem
                                THEN [s.rdata EXCEPT ![k].pos = e.pos + n]
                                ELSE Without(s.rdata, k),
                    !.status = IF n < rem THEN "ok" ELSE "loop"]
    BY <1>5, <1>8, Zenon
  <2>2. /\ t = [rdata |-> t.rdata, last |-> t.last, cap |-> t.cap,
                len |-> t.len, copies |-> t.copies, status |-> t.status]
        /\ t.cap = room /\ t.last = s.last + zero + n
        /\ t.rdata = IF n < rem THEN [s.rdata EXCEPT ![k].pos = e.pos + n]
                     ELSE Without(s.rdata, k)
        /\ t.status = IF n < rem THEN "ok" ELSE "loop"
    <3> HIDE DEF room, rem, zero, n
    <3> QED
      BY <1>6, <2>1, Zenon
  <2>3. CASE n < rem
    <3>1. n = room /\ room < rem /\ s.last + zero + n = s.last + s.cap
      <4>1. s.last \in Nat /\ s.cap \in Nat /\ rem \in Nat
        BY <1>2, <1>3, SMTT(30)
      <4> HIDE DEF zero, rem
      <4> QED
        BY <1>4, <2>3, <4>1
    <3> HIDE DEF n
    <3> QED
      BY <1>3, <1>8, <2>2, <2>3, <3>1, Zenon DEF ReadsPart, e
  <2>4. CASE ~(n < rem)
    <3>1. n = rem
      <4>1. s.cap \in Nat /\ rem \in Nat
        BY <1>2, <1>3, SMTT(30)
      <4> HIDE DEF zero, rem
      <4> QED
        BY <1>4, <1>8, <2>4, <4>1
    <3> HIDE DEF n
    <3> QED
      BY <1>3, <1>8, <2>2, <2>4, <3>1 DEF ReadsAll, e
  <2> QED
    BY <2>3, <2>4
<1>9. CASE ~(gap < 0 /\ overflow_checks) /\ zero >= s.cap
  <2>1. \/ t = [s EXCEPT !.last = s.last + s.cap, !.len = s.len + zero,
                         !.status = "ok"]
        \/ t = [s EXCEPT !.last = s.last + s.cap, !.status = "ok"]
    <3>1. ~(zero < s.cap) /\ (zero = s.cap \/ zero # s.cap)
      BY <1>2, <1>4, <1>9
    <3>2. \/ t = [s EXCEPT !.last = s.last + zero, !.len = s.len + zero,
                           !.status = "ok"] /\ zero = s.cap
          \/ t = [s EXCEPT !.last = s.last + s.cap, !.status = "ok"]
      <4> HIDE DEF zero, room, rem, n
      <4> QED
        BY <1>5, <1>9, <3>1
    <3> QED
      BY <3>2, Zenon
  <2>2. /\ t = [rdata |-> t.rdata, last |-> t.last, cap |-> t.cap,
                len |-> t.len, copies |-> t.copies, status |-> t.status]
        /\ t.cap = s.cap /\ t.last = s.last + s.cap /\ t.rdata = s.rdata
        /\ t.status = "ok" /\ t.copies = s.copies
    <3> HIDE DEF zero
    <3> QED
      BY <1>6, <2>1, Zenon
  <2>3. s.cap <= zero /\ (gap >= 0 \/ ~overflow_checks)
    <3> HIDE DEF zero
    <3> QED
      BY <1>2, <1>3, <1>4, <1>9, SMTT(30)
  <2> QED
    BY <1>3, <2>2, <2>3, Zenon DEF StopsShort
<1>10. zero < s.cap \/ zero >= s.cap
  BY <1>2, <1>4
<1> QED
  BY <1>7, <1>8, <1>9, <1>10

\* An iteration keeps the loop's state well formed, and removes an entry when
\* it goes on.
LEMMA StepKeepsLoop ==
    ASSUME NEW s, LoopOK(s), s.status = "loop", DOMAIN s.rdata # {}
    PROVE  /\ LoopOK(EmitStep(s))
           /\ EmitStep(s).status = "loop"
                  => Cardinality(DOMAIN EmitStep(s).rdata)
                         = Cardinality(DOMAIN s.rdata) - 1
<1> DEFINE t == EmitStep(s)
           k == FirstKey(s.rdata)
           e == s.rdata[k]
           gap == e.off + e.pos - s.last
<1>1. k \in DOMAIN s.rdata /\ MapOK(s.rdata)
  BY FirstKeyLeast DEF LoopOK, MapOK
<1>2. /\ e.pos \in Nat /\ e.len \in Nat /\ e.pos < e.len
      /\ s.last \in Nat /\ s.cap \in Nat
  BY <1>1 DEF MapOK, Entry, LoopOK
<1>3. /\ t = [rdata |-> t.rdata, last |-> t.last, cap |-> t.cap,
              len |-> t.len, copies |-> t.copies, status |-> t.status]
      /\ gap \in Int
      /\ \/ Panics(s, t, gap) \/ ReadsPart(s, t, k, gap)
         \/ ReadsAll(s, t, k, gap) \/ StopsShort(s, t, gap)
  <2> HIDE DEF t, k, gap
  <2> QED
    BY StepCases DEF t, k, gap
<1>4. gap % U64 \in Nat
  BY <1>3, ArithmeticAssumption
<1>5. /\ MapOK(Without(s.rdata, k))
      /\ Cardinality(DOMAIN Without(s.rdata, k)) = Cardinality(DOMAIN s.rdata) - 1
      /\ \A p \in Nat : p < e.len => MapOK([s.rdata EXCEPT ![k].pos = p])
  BY <1>1, MapKept
<1> DEFINE zero == gap % U64
<1> HIDE DEF t, gap
<1>6. CASE Panics(s, t, gap) \/ StopsShort(s, t, gap)
  BY <1>1, <1>2, <1>3, <1>6 DEF Panics, StopsShort, LoopOK, t
<1>7. CASE ReadsPart(s, t, k, gap)
  <2>1. e.pos + (s.cap - zero) \in Nat /\ e.pos + (s.cap - zero) < e.len
    <3>1. zero < s.cap /\ s.cap - zero < e.len - e.pos
      BY <1>7 DEF ReadsPart
    <3> HIDE DEF zero, e
    <3> QED
      BY <1>2, <1>4, <3>1 DEF zero
  <2>2. MapOK(t.rdata)
    BY <1>5, <1>7, <2>1 DEF ReadsPart
  <2>3. t.cap \in Nat /\ t.last \in Nat /\ t.status = "ok"
    <3>1. zero < s.cap /\ t.cap = s.cap - zero /\ t.last = s.last + s.cap
          /\ t.status = "ok"
      BY <1>7 DEF ReadsPart
    <3>2. zero \in Nat
      BY <1>4
    <3> HIDE DEF zero
    <3> QED
      BY <1>2, <3>1, <3>2
  <2> QED
    BY <1>3, <2>2, <2>3 DEF LoopOK, t
<1>8. CASE ReadsAll(s, t, k, gap)
  <2>1. t.rdata = Without(s.rdata, k) /\ t.status = "loop"
    BY <1>8 DEF ReadsAll
  <2>2. t.cap \in Nat /\ t.last \in Nat
    <3>1. zero < s.cap /\ t.cap = s.cap - zero
          /\ t.last = s.last + zero + (e.len - e.pos)
      BY <1>8 DEF ReadsAll
    <3>2. zero \in Nat
      BY <1>4
    <3> HIDE DEF zero, e
    <3> QED
      BY <1>2, <3>1, <3>2
  <2>3. LoopOK(t)
    BY <1>3, <1>5, <2>1, <2>2 DEF LoopOK
  <2> QED
    BY <1>5, <2>1, <2>3 DEF t
<1> QED
  BY <1>3, <1>6, <1>7, <1>8

\* Reduction to u64 never makes a natural number larger.
LEMMA ModSmaller ==
    ASSUME NEW a \in Nat, NEW m \in Nat \ {0}
    PROVE  a % m \in Nat /\ a % m <= a
<1>1. a = m * (a \div m) + (a % m) /\ a \div m \in Nat /\ a % m \in Nat
  OBVIOUS
<1> DEFINE q == a \div m
<1>2. m * q \in Nat
  <2>1. q \in Nat
    BY <1>1
  <2> HIDE DEF q
  <2> QED
    BY <2>1
<1> HIDE DEF q
<1>3. a = m * q + (a % m)
  BY <1>1 DEF q
<1> QED
  BY <1>1, <1>2, <1>3

\* While the unread data is ahead of the read offset, an iteration keeps it
\* there, and the read offset does not pass the end of the stream.
LEMMA StepKeepsAhead ==
    ASSUME NEW s, LoopOK(s), s.status = "loop", DOMAIN s.rdata # {},
           Ahead(s.rdata, s.last)
    PROVE  /\ Ahead(EmitStep(s).rdata, EmitStep(s).last)
           /\ EmitStep(s).status # "panic"
           /\ \E c \in Chunks : EmitStep(s).last <= c.off + c.len
<1> DEFINE t == EmitStep(s)
           k == FirstKey(s.rdata)
           e == s.rdata[k]
           gap == e.off + e.pos - s.last
<1>1. /\ k \in DOMAIN s.rdata /\ MapOK(s.rdata)
      /\ \A j \in DOMAIN s.rdata : k <= j
  BY FirstKeyLeast DEF LoopOK, MapOK
<1>2. /\ e.off \in Nat /\ e.pos \in Nat /\ e.len \in Nat /\ e.pos < e.len
      /\ k = e.off + e.len /\ s.last \in Nat /\ s.cap \in Nat
      /\ ChunkOf(e) \in Chunks
  BY <1>1 DEF MapOK, Entry, LoopOK
<1>3. gap \in Nat
  BY <1>1, <1>2 DEF Ahead
<1>4. \/ Panics(s, t, gap) \/ ReadsPart(s, t, k, gap)
      \/ ReadsAll(s, t, k, gap) \/ StopsShort(s, t, gap)
  <2> HIDE DEF t, k, gap
  <2> QED
    BY StepCases DEF t, k, gap
<1> DEFINE zero == gap % U64
<1>5. zero \in Nat /\ zero <= gap
  <2> HIDE DEF gap
  <2> QED
    BY <1>3, ArithmeticAssumption, ModSmaller
<1>6. s.last + gap = e.off + e.pos
  BY <1>2
<1>7. ~Panics(s, t, gap)
  <2> HIDE DEF gap
  <2> QED
    BY <1>3 DEF Panics
<1> HIDE DEF t, gap, zero
<1>8. \/ ReadsPart(s, t, k, gap)
      \/ ReadsAll(s, t, k, gap)
      \/ StopsShort(s, t, gap)
  BY <1>4, <1>7
<1>9. t.last \in Nat /\ t.last <= k
  <2>1. CASE ReadsPart(s, t, k, gap)
    <3>1. /\ zero < s.cap /\ s.cap - zero < e.len - e.pos
          /\ t.last = s.last + s.cap
      BY <2>1 DEF ReadsPart, zero
    <3> HIDE DEF e, k
    <3> QED
      BY <1>2, <1>3, <1>5, <1>6, <3>1
  <2>2. CASE ReadsAll(s, t, k, gap)
    <3>1. t.last = s.last + zero + (e.len - e.pos)
      BY <2>2 DEF ReadsAll, zero
    <3> HIDE DEF e, k
    <3> QED
      BY <1>2, <1>3, <1>5, <1>6, <3>1
  <2>3. CASE StopsShort(s, t, gap)
    <3>1. s.cap <= zero /\ t.last = s.last + s.cap
      BY <2>3 DEF StopsShort, zero
    <3> HIDE DEF e, k
    <3> QED
      BY <1>2, <1>3, <1>5, <1>6, <3>1
  <2> QED
    BY <1>8, <2>1, <2>2, <2>3
<1>10. t.status # "panic"
  BY <1>8 DEF ReadsPart, ReadsAll, StopsShort
<1>11. \A j \in DOMAIN s.rdata : j # k => s.rdata[j].off + s.rdata[j].pos >= t.last
  <2> SUFFICES ASSUME NEW j \in DOMAIN s.rdata, j # k
               PROVE  s.rdata[j].off + s.rdata[j].pos >= t.last
    OBVIOUS
  <2>1. /\ s.rdata[j].off \in Nat /\ s.rdata[j].pos \in Nat /\ j \in Nat
        /\ k \in Nat /\ k <= j
    BY <1>1 DEF MapOK, Entry
  <2>2. k < j
    BY <2>1
  <2>3. k <= s.rdata[j].off
    BY <1>1, <2>2, EntriesApart
  <2> HIDE DEF k
  <2> QED
    BY <1>9, <2>1, <2>3
<1>12. Ahead(t.rdata, t.last)
  <2>1. CASE ReadsPart(s, t, k, gap)
    <3>1. /\ zero < s.cap /\ t.last = s.last + s.cap
          /\ t.rdata = [s.rdata EXCEPT ![k].pos = e.pos + (s.cap - zero)]
      BY <2>1 DEF ReadsPart, zero
    <3>2. /\ DOMAIN t.rdata = DOMAIN s.rdata
          /\ \A j \in DOMAIN s.rdata : j # k => t.rdata[j] = s.rdata[j]
          /\ t.rdata[k] = [e EXCEPT !.pos = e.pos + (s.cap - zero)]
      BY <1>1, <3>1
    <3>3. e \in Entry
      BY <1>1 DEF MapOK
    <3> HIDE DEF e, k
    <3>4. /\ t.rdata[k].off = e.off
          /\ t.rdata[k].pos = e.pos + (s.cap - zero)
      BY <3>2, <3>3 DEF Entry
    <3>5. t.rdata[k].off + t.rdata[k].pos >= t.last
      BY <1>2, <1>3, <1>5, <1>6, <3>1, <3>4
    <3> QED
      BY <1>11, <3>2, <3>5, Zenon DEF Ahead
  <2>2. CASE ReadsAll(s, t, k, gap)
    <3>1. t.rdata = Without(s.rdata, k)
      BY <2>2 DEF ReadsAll
    <3> HIDE DEF k
    <3> QED
      BY <1>11, <3>1 DEF Ahead, Without
  <2>3. CASE StopsShort(s, t, gap)
    <3>1. s.cap <= zero /\ t.last = s.last + s.cap /\ t.rdata = s.rdata
      BY <2>3 DEF StopsShort, zero
    <3> HIDE DEF e, k
    <3>2. e.off + e.pos >= t.last
      BY <1>2, <1>3, <1>5, <1>6, <3>1
    <3> QED
      BY <1>11, <3>1, <3>2 DEF Ahead, e
  <2> QED
    BY <1>8, <2>1, <2>2, <2>3
<1>13. \E c \in Chunks : t.last <= c.off + c.len
  BY <1>2, <1>9 DEF ChunkOf
<1> QED
  BY <1>10, <1>12, <1>13 DEF t

-----------------------------------------------------------------------------
\* What holds of the loop's state s after i of n iterations from start.
IterationOK(start, s, i, n) ==
    /\ LoopOK(s)
    /\ s.status = "loop" => Cardinality(DOMAIN s.rdata) = n - i
    /\ Ahead(start.rdata, start.last) =>
           /\ Ahead(s.rdata, s.last) /\ s.status # "panic"
           /\ \/ s.last = start.last
              \/ \E c \in Chunks : s.last <= c.off + c.len

\* The loop's invariant, by induction over its iterations.
LEMMA LoopInvariant ==
    ASSUME NEW start, LoopOK(start), start.status = "loop",
           NEW n \in Nat, n = Cardinality(DOMAIN start.rdata),
           NEW run, run[0] = start,
           \A i \in 1 .. n : run[i] = Iterate(run[i-1])
    PROVE  \A i \in 0 .. n : IterationOK(start, run[i], i, n)
<1> DEFINE S == {i \in Nat : i <= n => IterationOK(start, run[i], i, n)}
<1>1. 0 \in S
  <2>1. IterationOK(start, run[0], 0, n)
    BY DEF IterationOK
  <2> QED
    BY <2>1
<1>2. ASSUME NEW i \in Nat, i \in S PROVE i + 1 \in S
  <2> SUFFICES ASSUME i + 1 <= n
               PROVE  IterationOK(start, run[i+1], i + 1, n)
    OBVIOUS
  <2>1. IterationOK(start, run[i], i, n)
    BY <1>2
  <2>2. run[i+1] = Iterate(run[i])
    <3>1. i + 1 \in 1 .. n /\ (i + 1) - 1 = i
      OBVIOUS
    <3> QED
      BY <3>1
  <2> DEFINE s == run[i]
             t == run[i+1]
  <2> HIDE DEF s, t
  <2>3. IterationOK(start, s, i, n) /\ t = Iterate(s)
    BY <2>1, <2>2 DEF s, t
  <2>4. CASE s.status # "loop"
    <3>1. t = s
      BY <2>3, <2>4 DEF Iterate
    <3>2. IterationOK(start, t, i + 1, n)
      BY <2>3, <2>4, <3>1 DEF IterationOK
    <3> QED
      BY <3>2 DEF t
  <2>5. CASE s.status = "loop"
    <3>1. t = EmitStep(s)
      BY <2>3, <2>5 DEF Iterate
    <3>2. LoopOK(s) /\ Cardinality(DOMAIN s.rdata) = n - i
      BY <2>3, <2>5 DEF IterationOK
    <3>3. DOMAIN s.rdata # {}
      <4>1. Cardinality(DOMAIN s.rdata) # 0
        BY <3>2
      <4> QED
        BY <4>1, FS_EmptySet, Zenon
    <3>4. /\ LoopOK(t)
          /\ t.status = "loop" => Cardinality(DOMAIN t.rdata) = (n - i) - 1
      BY <2>5, <3>1, <3>2, <3>3, StepKeepsLoop
    <3>5. Ahead(s.rdata, s.last) =>
              /\ Ahead(t.rdata, t.last) /\ t.status # "panic"
              /\ \E c \in Chunks : t.last <= c.off + c.len
      BY <2>5, <3>1, <3>2, <3>3, StepKeepsAhead
    <3>6. (n - i) - 1 = n - (i + 1)
      OBVIOUS
    <3>7. IterationOK(start, t, i + 1, n)
      BY <2>3, <3>4, <3>5, <3>6 DEF IterationOK
    <3> QED
      BY <3>7 DEF t
  <2> QED
    BY <2>4, <2>5
<1>3. Nat \subseteq S
  <2> HIDE DEF S
  <2> QED
    BY <1>1, <1>2, SetInduction
<1> QED
  BY <1>3

\* An emit that finds all unread data ahead of the read offset leaves it so
\* and does not panic; any emit leaves the map and the offset well typed.
LEMMA EmitResults ==
    ASSUME MapOK(rdata), last_maxoff \in Nat, NEW cap \in Nat
    PROVE  /\ MapOK(Emit(cap).rdata)
           /\ Emit(cap).last \in Nat
           /\ Ahead(rdata, last_maxoff) =>
                  /\ Ahead(Emit(cap).rdata, Emit(cap).last)
                  /\ Emit(cap).status # "panic"
                  /\ \/ Emit(cap).last = last_maxoff
                     \/ \E c \in Chunks : Emit(cap).last <= c.off + c.len
<1> DEFINE n == Cardinality(DOMAIN rdata)
           start == EmitStart(cap)
<1>1. CASE DOMAIN rdata = {}
  <2>1. Emit(cap) = [start EXCEPT !.status = "done"]
    BY <1>1 DEF Emit, EmitStart
  <2>2. /\ Emit(cap).rdata = rdata /\ Emit(cap).last = last_maxoff
        /\ Emit(cap).status = "done"
    BY <2>1 DEF EmitStart
  <2> QED
    BY <2>2
<1>2. CASE DOMAIN rdata # {}
  <2>1. IsFiniteSet(DOMAIN rdata) /\ n \in Nat
    BY FS_CardinalityType DEF MapOK
  <2>2. PICK run : /\ run[0] = start
                   /\ \A i \in 1 .. n : run[i] = Iterate(run[i-1])
                   /\ Emit(cap) = IF run[n].status = "loop"
                                    THEN [run[n] EXCEPT !.status = "ok"]
                                    ELSE run[n]
    BY <1>2, <2>1, EmitUnfolds
  <2>3. /\ start.rdata = rdata /\ start.last = last_maxoff
        /\ start.status = "loop" /\ LoopOK(start)
    BY DEF EmitStart, LoopOK
  <2> DEFINE end == run[n]
             result == Emit(cap)
  <2> HIDE DEF start
  <2>4. n = Cardinality(DOMAIN start.rdata)
    BY <2>3
  <2>5. IterationOK(start, end, n, n)
    <3> HIDE DEF n
    <3>1. \A i \in 0 .. n : IterationOK(start, run[i], i, n)
      BY <2>1, <2>2, <2>3, <2>4, LoopInvariant
    <3>2. n \in 0 .. n
      BY <2>1
    <3> QED
      BY <3>1, <3>2
  <2>6. result = IF end.status = "loop" THEN [end EXCEPT !.status = "ok"]
                 ELSE end
    BY <2>2
  <2> HIDE DEF end, result
  <2>7. LoopOK(end)
    BY <2>5 DEF IterationOK
  <2>8. /\ result.rdata = end.rdata /\ result.last = end.last
        /\ end.status # "panic" => result.status # "panic"
    BY <2>6, <2>7 DEF LoopOK
  <2>9. /\ MapOK(result.rdata) /\ result.last \in Nat
        /\ Ahead(rdata, last_maxoff) =>
               /\ Ahead(result.rdata, result.last)
               /\ result.status # "panic"
               /\ \/ result.last = last_maxoff
                  \/ \E c \in Chunks : result.last <= c.off + c.len
    BY <2>3, <2>5, <2>8 DEF IterationOK, LoopOK
  <2> QED
    BY <2>9 DEF result
<1> QED
  BY <1>1, <1>2, Zenon

\* The offset a u64 subtraction wraps to.
LEMMA NegativeMod ==
    ASSUME NEW m \in Nat \ {0}, NEW a \in Int, a < 0, a + m >= 0
    PROVE  a % m = a + m
<1> DEFINE q == a \div m
           r == a % m
<1>1. a = m * q + r /\ q \in Int /\ r \in Nat /\ r < m
  OBVIOUS
<1> HIDE DEF q, r
<1>2. q = -1
  <2>1. \A i, j \in Int : i <= j => m * i <= m * j
    OBVIOUS
  <2>2. m * 0 = 0 /\ m * (-2) = -(m + m) /\ m * q \in Int
    BY <1>1
  <2>3. ~(0 <= q)
    BY <1>1, <2>1, <2>2
  <2>4. ~(q <= -2)
    <3> SUFFICES ASSUME q <= -2 PROVE FALSE
      OBVIOUS
    <3>1. m * q <= m * (-2)
      BY <1>1, <2>1
    <3> QED
      BY <1>1, <2>2, <3>1
  <2> QED
    BY <1>1, <2>3, <2>4
<1>3. m * (-1) = -m
  OBVIOUS
<1>4. r = a + m
  BY <1>1, <1>2, <1>3
<1> QED
  BY <1>4 DEF r

\* The first entry decides: if it is not behind the read offset, none is.
LEMMA FirstDecides ==
    ASSUME MapOK(rdata), last_maxoff \in Nat, DOMAIN rdata # {},
           ~Behind(FirstKey(rdata))
    PROVE  Ahead(rdata, last_maxoff)
<1> DEFINE k == FirstKey(rdata)
<1>1. k \in DOMAIN rdata /\ \A j \in DOMAIN rdata : k <= j
  BY FirstKeyLeast DEF MapOK
<1>2. /\ rdata[k].off + rdata[k].pos >= last_maxoff
      /\ rdata[k].off \in Nat /\ rdata[k].pos \in Nat /\ k \in Nat
      /\ rdata[k].pos < rdata[k].len /\ k = rdata[k].off + rdata[k].len
      /\ rdata[k].len \in Nat
  BY <1>1 DEF MapOK, Entry, Behind
<1> HIDE DEF k
<1>3. ASSUME NEW j \in DOMAIN rdata, j # k
      PROVE  rdata[j].off + rdata[j].pos >= last_maxoff
  <2>1. rdata[j].off \in Nat /\ rdata[j].pos \in Nat /\ j \in Nat /\ k <= j
    BY <1>1 DEF MapOK, Entry
  <2>2. k <= rdata[j].off
    BY <1>1, <1>2, <1>3, <2>1, EntriesApart
  <2> QED
    BY <1>2, <2>1, <2>2
<1> QED
  BY <1>2, <1>3 DEF Ahead

\* emit stops at a first entry that is behind the read offset: it copies
\* nothing and leaves the entry where it is.
LEMMA BlockedEmit ==
    ASSUME MapOK(rdata), last_maxoff \in Nat, DOMAIN rdata # {},
           Behind(FirstKey(rdata)), NEW cap \in Nat,
           last_maxoff + cap <= U64
    PROVE  /\ Emit(cap).rdata = rdata /\ Emit(cap).copies = {}
           /\ Emit(cap).last \in {last_maxoff, last_maxoff + cap}
<1> DEFINE n == Cardinality(DOMAIN rdata)
           start == EmitStart(cap)
           k == FirstKey(rdata)
           gap == rdata[k].off + rdata[k].pos - last_maxoff
           stop == EmitStep(start)
<1>1. IsFiniteSet(DOMAIN rdata) /\ n \in Nat /\ n # 0
  BY FS_CardinalityType, FS_EmptySet DEF MapOK
<1>2. PICK run : /\ run[0] = start
                 /\ \A i \in 1 .. n : run[i] = Iterate(run[i-1])
                 /\ Emit(cap) = IF run[n].status = "loop"
                                  THEN [run[n] EXCEPT !.status = "ok"]
                                  ELSE run[n]
  BY <1>1, EmitUnfolds
<1>3. /\ start.rdata = rdata /\ start.last = last_maxoff /\ start.cap = cap
      /\ start.copies = {} /\ start.status = "loop" /\ LoopOK(start)
  BY DEF EmitStart, LoopOK
<1>4. gap \in Int /\ gap < 0 /\ gap >= -last_maxoff
  <2>1. k \in DOMAIN rdata
    BY FirstKeyLeast DEF MapOK
  <2>2. /\ rdata[k].off \in Nat /\ rdata[k].pos \in Nat
        /\ rdata[k].off + rdata[k].pos < last_maxoff
    BY <2>1 DEF MapOK, Entry, Behind
  <2> HIDE DEF k
  <2> QED
    BY <2>2
<1>5. cap <= gap % U64 /\ gap % U64 \in Nat
  <2> HIDE DEF gap
  <2>1. gap + U64 >= 0 /\ U64 \in Nat \ {0} /\ cap <= gap + U64
    BY <1>4, ArithmeticAssumption
  <2>2. gap % U64 = gap + U64
    BY <1>4, <2>1, NegativeMod
  <2> QED
    BY <1>4, <2>1, <2>2
<1>6. /\ stop = [rdata |-> stop.rdata, last |-> stop.last, cap |-> stop.cap,
                 len |-> stop.len, copies |-> stop.copies,
                 status |-> stop.status]
      /\ \/ Panics(start, stop, gap) \/ ReadsPart(start, stop, k, gap)
         \/ ReadsAll(start, stop, k, gap) \/ StopsShort(start, stop, gap)
  <2>1. k = FirstKey(start.rdata)
        /\ gap = start.rdata[k].off + start.rdata[k].pos - start.last
    BY <1>3
  <2>2. DOMAIN start.rdata # {}
    BY <1>3
  <2> HIDE DEF start, stop, k, gap
  <2> QED
    BY <1>3, <2>1, <2>2, StepCases DEF stop
<1> HIDE DEF start, stop, gap, k
<1>7. ~ReadsPart(start, stop, k, gap) /\ ~ReadsAll(start, stop, k, gap)
  BY <1>3, <1>5 DEF ReadsPart, ReadsAll
<1>8. /\ stop.rdata = rdata /\ stop.copies = {} /\ stop.status # "loop"
      /\ stop.last \in {last_maxoff, last_maxoff + cap}
  BY <1>3, <1>6, <1>7 DEF Panics, StopsShort
<1> DEFINE S == {i \in Nat : i + 1 <= n => run[i + 1] = stop}
<1> HIDE DEF n
<1>9. 0 \in S
  <2>1. 1 \in 1 .. n /\ 1 - 1 = 0 /\ 0 + 1 = 1
    BY <1>1
  <2>2. run[1] = Iterate(run[0])
    BY <1>2, <2>1
  <2>3. run[1] = stop
    BY <1>2, <1>3, <2>2 DEF Iterate, stop
  <2> QED
    BY <2>1, <2>3
<1>10. ASSUME NEW i \in Nat, i \in S PROVE i + 1 \in S
  <2> SUFFICES ASSUME (i + 1) + 1 <= n PROVE run[(i + 1) + 1] = stop
    OBVIOUS
  <2>1. run[i + 1] = stop
    BY <1>1, <1>10
  <2>2. (i + 1) + 1 \in 1 .. n /\ ((i + 1) + 1) - 1 = i + 1
    BY <1>1
  <2>3. run[(i + 1) + 1] = Iterate(run[i + 1])
    BY <1>2, <2>2
  <2> QED
    BY <1>8, <2>1, <2>3 DEF Iterate
<1>11. Nat \subseteq S
  <2> HIDE DEF S
  <2> QED
    BY <1>9, <1>10, SetInduction
<1>12. run[n] = stop
  <2>1. n - 1 \in Nat /\ (n - 1) + 1 = n /\ n <= n
    BY <1>1
  <2>2. n - 1 \in S
    BY <1>11, <2>1
  <2>3. (n - 1) + 1 <= n => run[(n - 1) + 1] = stop
    BY <2>2
  <2> QED
    BY <2>1, <2>3
<1>13. Emit(cap) = stop
  BY <1>2, <1>8, <1>12
<1> QED
  BY <1>8, <1>13

-----------------------------------------------------------------------------
\* The inductive invariant of the reader.
ReadingInv ==
    /\ MapOK(rdata)
    /\ last_maxoff \in Nat /\ max_recv_off \in Nat
    /\ overflow_checks \in BOOLEAN /\ panicked \in BOOLEAN /\ late \in BOOLEAN
    /\ late = FALSE => Ahead(rdata, last_maxoff) /\ panicked = FALSE

\* A chunk that arrives takes its place in the map.
LEMMA ArriveKeepsMap ==
    ASSUME MapOK(rdata), NEW c \in Chunks, Arrive(c)
    PROVE  /\ MapOK(rdata')
           /\ DOMAIN rdata' = DOMAIN rdata \cup {c.off + c.len}
           /\ \A k \in DOMAIN rdata' :
                  \/ k = c.off + c.len /\ rdata'[k].off = c.off
                     /\ rdata'[k].pos = 0
                  \/ k # c.off + c.len /\ k \in DOMAIN rdata
                     /\ rdata'[k] = rdata[k]
<1> DEFINE end == c.off + c.len
           entry == [off |-> c.off, len |-> c.len, pos |-> 0]
<1>1. c.off \in Nat /\ c.len \in Nat \ {0} /\ end \in Nat
      /\ c = [off |-> c.off, len |-> c.len]
  BY ReadingAssumption
<1>2. rdata' = [k \in DOMAIN rdata \cup {end} |->
                    IF k = end THEN entry ELSE rdata[k]]
  BY DEF Arrive, BufReceive
<1>3. /\ entry \in Entry /\ entry.pos < entry.len
      /\ end = entry.off + entry.len /\ ChunkOf(entry) \in Chunks
      /\ entry.off = c.off /\ entry.pos = 0
  BY <1>1 DEF Entry, ChunkOf
<1> HIDE DEF entry, end
<1>4. DOMAIN rdata' = DOMAIN rdata \cup {end} /\ IsFiniteSet(DOMAIN rdata')
  BY <1>2, FS_AddElement DEF MapOK
<1>5. \A k \in DOMAIN rdata' : \/ k = end /\ rdata'[k] = entry
                               \/ k # end /\ k \in DOMAIN rdata
                                  /\ rdata'[k] = rdata[k]
  BY <1>2
<1>6. MapOK(rdata')
  BY <1>1, <1>3, <1>4, <1>5 DEF MapOK
<1> QED
  BY <1>3, <1>4, <1>5, <1>6 DEF end

\* A new connection's receive buffer is empty and its reader at 0.
LEMMA ReadingInvInit == ReadingInit => ReadingInv
<1> SUFFICES ASSUME ReadingInit PROVE ReadingInv
  OBVIOUS
<1>1. rdata = [k \in {} |-> 0] /\ DOMAIN rdata = {}
  BY DEF ReadingInit, RecvBufInit
<1>2. MapOK(rdata) /\ Ahead(rdata, last_maxoff)
  BY <1>1, FS_EmptySet DEF MapOK, Ahead
<1> QED
  BY <1>2, Zenon DEF ReadingInit, RecvBufInit, ReadingInv

\* Every write and every read keep the invariant.
LEMMA ReadingInvStep ==
    ASSUME ReadingInv, [ReadingNext]_readingVars
    PROVE  ReadingInv'
<1>1. /\ MapOK(rdata) /\ last_maxoff \in Nat /\ max_recv_off \in Nat
      /\ overflow_checks \in BOOLEAN /\ panicked \in BOOLEAN
      /\ late \in BOOLEAN
      /\ late = FALSE => Ahead(rdata, last_maxoff) /\ panicked = FALSE
  BY DEF ReadingInv
<1>2. ASSUME NEW c \in Chunks, Arrive(c) PROVE ReadingInv'
  <2>1. /\ MapOK(rdata')
        /\ \A k \in DOMAIN rdata' :
               \/ rdata'[k].off = c.off /\ rdata'[k].pos = 0
               \/ k \in DOMAIN rdata /\ rdata'[k] = rdata[k]
    BY <1>1, <1>2, ArriveKeepsMap, Zenon
  <2>2. /\ last_maxoff' = last_maxoff /\ overflow_checks' = overflow_checks
        /\ panicked' = panicked /\ late' = (late \/ c.off < last_maxoff)
        /\ max_recv_off' \in {c.off, max_recv_off}
    BY <1>2 DEF Arrive, BufReceive
  <2>3. c.off \in Nat
    BY ReadingAssumption
  <2>4. late' \in BOOLEAN /\ (late' = FALSE => late = FALSE /\ c.off >= last_maxoff)
    <3>1. c.off < last_maxoff \/ c.off >= last_maxoff
      BY <1>1, <2>3
    <3>2. CASE c.off < last_maxoff
      <4>1. late' = TRUE
        BY <2>2, <3>2, Zenon
      <4> QED
        BY <4>1
    <3>3. CASE ~(c.off < last_maxoff)
      <4>1. late' = late
        BY <1>1, <2>2, <3>3, Zenon
      <4> QED
        BY <1>1, <3>1, <3>3, <4>1
    <3> QED
      BY <3>2, <3>3, Zenon
  <2>5. late' = FALSE => Ahead(rdata', last_maxoff)
    <3> SUFFICES ASSUME late' = FALSE, NEW k \in DOMAIN rdata'
                 PROVE  rdata'[k].off + rdata'[k].pos >= last_maxoff
      BY Zenon DEF Ahead
    <3>1. Ahead(rdata, last_maxoff) /\ c.off >= last_maxoff
      BY <1>1, <2>4
    <3>2. CASE rdata'[k].off = c.off /\ rdata'[k].pos = 0
      BY <1>1, <2>3, <3>1, <3>2
    <3>3. CASE k \in DOMAIN rdata /\ rdata'[k] = rdata[k]
      BY <3>1, <3>3 DEF Ahead
    <3> QED
      BY <2>1, <3>2, <3>3
  <2>6. max_recv_off' \in Nat
    BY <1>1, <2>2, <2>3
  <2> QED
    BY <1>1, <2>1, <2>2, <2>4, <2>5, <2>6 DEF ReadingInv, MapOK, Ahead
<1>3. ASSUME NEW cap \in Caps, Read(cap) PROVE ReadingInv'
  <2>1. /\ rdata' = Emit(cap).rdata /\ last_maxoff' = Emit(cap).last
        /\ UNCHANGED <<overflow_checks, max_recv_off, panicked, late>>
    BY <1>3 DEF Read, BufRead
  <2>2. cap \in Nat
    BY ReadingAssumption
  <2>3. /\ MapOK(Emit(cap).rdata) /\ Emit(cap).last \in Nat
        /\ Ahead(rdata, last_maxoff) => Ahead(Emit(cap).rdata, Emit(cap).last)
    BY <1>1, <2>2, EmitResults
  <2>4. /\ MapOK(rdata') /\ last_maxoff' \in Nat
        /\ Ahead(rdata, last_maxoff) => Ahead(rdata', last_maxoff')
    BY <2>1, <2>3
  <2> QED
    BY <1>1, <2>1, <2>4 DEF ReadingInv, MapOK, Ahead
<1>4. ASSUME NEW cap \in Caps, ReadPanics(cap) PROVE ReadingInv'
  <2>1. /\ UNCHANGED <<rdata, last_maxoff, overflow_checks, max_recv_off, late>>
        /\ panicked' = TRUE /\ Emit(cap).status = "panic"
    BY <1>4 DEF ReadPanics, recvBufVars
  <2>2. cap \in Nat
    BY ReadingAssumption
  <2>3. ~Ahead(rdata, last_maxoff)
    BY <1>1, <2>1, <2>2, EmitResults
  <2> QED
    BY <1>1, <2>1, <2>3 DEF ReadingInv, MapOK, Ahead
<1>5. CASE UNCHANGED readingVars
  BY <1>1, <1>5 DEF readingVars, recvBufVars, ReadingInv, MapOK, Ahead
<1> QED
  BY <1>2, <1>3, <1>4, <1>5 DEF ReadingNext

\* The reader's invariant holds in every reachable state.
THEOREM ReadingInvHolds == ReadingSpec => []ReadingInv
<1>1. ReadingInv /\ [ReadingNext]_readingVars => ReadingInv'
  BY ReadingInvStep
<1> QED
  BY <1>1, ReadingInvInit, PTL DEF ReadingSpec

\* Every entry of the receive buffer stays a chunk under its own end, never
\* fully read, whatever arrives and whatever is read.
THEOREM ReadingTypeCorrect == ReadingSpec => []ReadingTypeOK
<1>1. ReadingInv => ReadingTypeOK
  BY DEF ReadingInv, MapOK, ReadingTypeOK
<1> QED
  BY <1>1, ReadingInvHolds, PTL

\* While no chunk has arrived behind the reader, no unread byte lies behind
\* it either, and no subtraction in emit underflows.
THEOREM CursorStaysBehind == ReadingSpec => []CursorBehindData
<1>1. ReadingInv => CursorBehindData
  BY DEF ReadingInv, Ahead, CursorBehindData
<1> QED
  BY <1>1, ReadingInvHolds, PTL

\* B bounds the stream and what a reader can skip, and u64 has room for it
\* and one output buffer more.
FitsU64(B) ==
    /\ \A c \in Chunks : c.off + c.len <= B
    /\ \A cap \in Caps : MaxRead + cap <= B /\ B + cap <= U64

\* A read, from a buffer whose first entry is behind the reader or is not.
LEMMA ReadResults ==
    ASSUME ReadingInv, NEW B \in Nat, FitsU64(B), last_maxoff <= B,
           NEW cap \in Caps
    PROVE  /\ last_maxoff < MaxRead => Emit(cap).last <= B
           /\ DOMAIN rdata # {} /\ Behind(FirstKey(rdata)) =>
                  /\ Emit(cap).rdata = rdata /\ Emit(cap).copies = {}
                  /\ Emit(cap).last >= last_maxoff
<1>1. MapOK(rdata) /\ last_maxoff \in Nat
  BY DEF ReadingInv
<1>2. /\ cap \in Nat /\ MaxRead \in Nat /\ U64 \in Nat
      /\ MaxRead + cap <= B /\ B + cap <= U64
  BY ReadingAssumption, ArithmeticAssumption DEF FitsU64
<1>3. Emit(cap).last \in Nat
  BY <1>1, <1>2, EmitResults
<1>4. CASE DOMAIN rdata # {} /\ Behind(FirstKey(rdata))
  <2>1. last_maxoff + cap <= U64
    BY <1>1, <1>2
  <2>2. /\ Emit(cap).rdata = rdata /\ Emit(cap).copies = {}
        /\ Emit(cap).last \in {last_maxoff, last_maxoff + cap}
    BY <1>1, <1>2, <1>4, <2>1, BlockedEmit
  <2>3. Emit(cap).last >= last_maxoff /\ Emit(cap).last <= last_maxoff + cap
    BY <1>1, <1>2, <2>2
  <2> QED
    BY <1>1, <1>2, <1>3, <2>2, <2>3
<1>5. CASE ~(DOMAIN rdata # {} /\ Behind(FirstKey(rdata)))
  <2>1. Ahead(rdata, last_maxoff)
    <3>1. CASE DOMAIN rdata = {}
      BY <3>1 DEF Ahead
    <3>2. CASE DOMAIN rdata # {}
      BY <1>1, <1>5, <3>2, FirstDecides
    <3> QED
      BY <3>1, <3>2
  <2>2. \/ Emit(cap).last = last_maxoff
        \/ \E c \in Chunks : Emit(cap).last <= c.off + c.len
    BY <1>1, <1>2, <2>1, EmitResults
  <2>3. \A c \in Chunks : c.off + c.len <= B /\ c.off + c.len \in Nat
    BY ReadingAssumption DEF FitsU64
  <2>4. Emit(cap).last <= B
    BY <1>3, <2>2, <2>3
  <2> QED
    BY <1>5, <2>4
<1> QED
  BY <1>4, <1>5

\* What LateChunkBlocksForever says of one step.
StaysBlocked ==
    (DOMAIN rdata # {} /\ Behind(FirstKey(rdata)))
        => /\ DOMAIN rdata' # {} /\ Behind(FirstKey(rdata))'
           /\ \A cap \in Caps : Emit(cap).copies = {}

\* A chunk that arrives does not unblock the reader: one with a smaller end
\* than a late chunk lies even further behind.
LEMMA ArriveStaysBehind ==
    ASSUME MapOK(rdata), last_maxoff \in Nat, DOMAIN rdata # {},
           Behind(FirstKey(rdata)), NEW c \in Chunks, Arrive(c)
    PROVE  DOMAIN rdata' # {} /\ Behind(FirstKey(rdata))'
<1> DEFINE k == FirstKey(rdata)
           j == FirstKey(rdata')
           end == c.off + c.len
<1>1. /\ MapOK(rdata') /\ DOMAIN rdata' = DOMAIN rdata \cup {end}
      /\ \A i \in DOMAIN rdata' :
             \/ i = end /\ rdata'[i].off = c.off /\ rdata'[i].pos = 0
             \/ i # end /\ i \in DOMAIN rdata /\ rdata'[i] = rdata[i]
  BY ArriveKeepsMap
<1>2. last_maxoff' = last_maxoff
  BY DEF Arrive, BufReceive
<1>3. k \in DOMAIN rdata /\ \A i \in DOMAIN rdata : k <= i
  BY FirstKeyLeast DEF MapOK
<1>4. j \in DOMAIN rdata' /\ \A i \in DOMAIN rdata' : j <= i
  BY <1>1, FirstKeyLeast DEF MapOK
<1>5. /\ rdata[k].off \in Nat /\ rdata[k].pos \in Nat
      /\ rdata[k].off + rdata[k].pos < last_maxoff
      /\ k \in Nat /\ ChunkOf(rdata[k]) \in Chunks
      /\ k = rdata[k].off + rdata[k].len /\ rdata[k].len \in Nat
  BY <1>3 DEF MapOK, Entry, Behind
<1>6. c.off \in Nat /\ c.len \in Nat \ {0} /\ end \in Nat
  BY ReadingAssumption
<1> HIDE DEF j, k
<1>7. j <= k /\ k \in DOMAIN rdata' /\ j \in Nat
  BY <1>1, <1>3, <1>4 DEF MapOK
<1>8. rdata'[j].off + rdata'[j].pos < last_maxoff
  <2>1. CASE j # end
    <3>1. j \in DOMAIN rdata /\ rdata'[j] = rdata[j]
      BY <1>1, <1>4, <2>1
    <3>2. j = k
      BY <1>3, <1>5, <1>7, <3>1
    <3> QED
      BY <1>5, <3>1, <3>2
  <2>2. CASE j = end
    <3>1. rdata'[j].off = c.off /\ rdata'[j].pos = 0
      BY <1>1, <1>4, <2>2
    <3> DEFINE b == ChunkOf(rdata[k])
    <3>2. b \in Chunks /\ b.off = rdata[k].off /\ b.len = rdata[k].len
      BY <1>5 DEF ChunkOf
    <3> HIDE DEF b
    <3>3. b = c \/ b.off + b.len <= c.off \/ c.off + c.len <= b.off
      BY <3>2, ReadingAssumption
    <3>4. c.off <= rdata[k].off
      BY <1>5, <1>6, <1>7, <2>2, <3>2, <3>3
    <3> QED
      BY <1>5, <1>6, <3>1, <3>4
  <2> QED
    BY <2>1, <2>2
<1>9. Behind(FirstKey(rdata))' <=> rdata'[j].off + rdata'[j].pos < last_maxoff'
  BY DEF Behind, FirstKey, j
<1> QED
  BY <1>1, <1>2, <1>8, <1>9

\* Every action keeps a blocked reader blocked and the read offset within B.
LEMMA BlockedStep ==
    ASSUME ReadingInv, NEW B \in Nat, FitsU64(B), last_maxoff <= B, ReadingNext
    PROVE  StaysBlocked /\ last_maxoff' <= B
<1>1. MapOK(rdata) /\ last_maxoff \in Nat
  BY DEF ReadingInv
<1>2. \A cap \in Caps : DOMAIN rdata # {} /\ Behind(FirstKey(rdata))
                            => Emit(cap).copies = {}
  BY ReadResults
<1>3. ASSUME NEW c \in Chunks, Arrive(c)
      PROVE  StaysBlocked /\ last_maxoff' <= B
  <2>1. last_maxoff' = last_maxoff
    BY <1>3 DEF Arrive, BufReceive
  <2> QED
    BY <1>1, <1>2, <1>3, <2>1, ArriveStaysBehind DEF StaysBlocked
<1>4. ASSUME NEW cap \in Caps, Read(cap)
      PROVE  StaysBlocked /\ last_maxoff' <= B
  <2>1. /\ rdata' = Emit(cap).rdata /\ last_maxoff' = Emit(cap).last
        /\ last_maxoff < MaxRead
    BY <1>4 DEF Read, BufRead
  <2>2. last_maxoff' <= B
    BY <2>1, ReadResults
  <2>3. ASSUME DOMAIN rdata # {} /\ Behind(FirstKey(rdata))
        PROVE  DOMAIN rdata' # {} /\ Behind(FirstKey(rdata))'
    <3> DEFINE k == FirstKey(rdata)
    <3>1. rdata' = rdata /\ last_maxoff' >= last_maxoff /\ last_maxoff' \in Nat
      <4>1. cap \in Nat
        BY ReadingAssumption
      <4> QED
        BY <1>1, <2>1, <2>3, <4>1, ReadResults, EmitResults
    <3>2. k \in DOMAIN rdata
      BY <1>1, <2>3, FirstKeyLeast DEF MapOK
    <3>3. /\ rdata[k].off \in Nat /\ rdata[k].pos \in Nat
          /\ rdata[k].off + rdata[k].pos < last_maxoff
      BY <1>1, <2>3, <3>2 DEF MapOK, Entry, Behind
    <3>4. rdata[k].off + rdata[k].pos < last_maxoff'
      BY <1>1, <3>1, <3>3
    <3>5. FirstKey(rdata)' = k
      BY <3>1 DEF FirstKey
    <3> HIDE DEF k
    <3>6. Behind(FirstKey(rdata))'
      BY <3>1, <3>4, <3>5 DEF Behind
    <3> QED
      BY <2>3, <3>1, <3>6
  <2> QED
    BY <1>2, <2>2, <2>3 DEF StaysBlocked
<1>5. ASSUME NEW cap \in Caps, ReadPanics(cap)
      PROVE  StaysBlocked /\ last_maxoff' <= B
  <2>1. rdata' = rdata /\ last_maxoff' = last_maxoff
    BY <1>5 DEF ReadPanics, recvBufVars
  <2>2. Behind(FirstKey(rdata))' <=> Behind(FirstKey(rdata))
    BY <2>1 DEF Behind, FirstKey
  <2> QED
    BY <1>2, <2>1, <2>2 DEF StaysBlocked
<1> QED
  BY <1>3, <1>4, <1>5 DEF ReadingNext

\* A chunk that arrived behind the reader stays first in the map and no later
\* read copies anything, as long as offsets are far from wrapping.
THEOREM LateChunkBlocks ==
    ASSUME NEW B \in Nat, FitsU64(B)
    PROVE  ReadingSpec => LateChunkBlocksForever
<1> DEFINE Below == last_maxoff <= B
<1>1. ReadingInit => Below
  BY DEF ReadingInit, RecvBufInit
<1>2. ReadingInv /\ Below /\ [ReadingNext]_readingVars
          => Below' /\ [StaysBlocked]_readingVars
  BY BlockedStep DEF readingVars, recvBufVars
<1>3. ReadingSpec => [][StaysBlocked]_readingVars
  BY <1>1, <1>2, ReadingInvHolds, PTL DEF ReadingSpec
<1> QED
  BY <1>3 DEF StaysBlocked, LateChunkBlocksForever
=============================================================================
