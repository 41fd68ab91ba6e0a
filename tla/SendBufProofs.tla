--------------------------- MODULE SendBufProofs ---------------------------
(***************************************************************************)
(* Proofs about the send buffer's operations, for every chunk size and     *)
(* every window.  recv_and_drop pairs the chunks of the VecDeque with the  *)
(* flags of the BTreeMap by position; the invariant BufOK is what makes    *)
(* that pairing the right one, and write, emit and ack_and_drop keep it.   *)
(***************************************************************************)
EXTENDS SendBuf, FiniteSetTheorems, TLAPS

Apart(b, c) == b.off + b.len <= c.off \/ c.off + c.len <= b.off

BufOK ==
    /\ data \subseteq Chunk
    /\ IsFiniteSet(data)
    /\ off \in Nat
    /\ \A b, c \in data : b # c => Apart(b, c)
    /\ \A b \in data : b.off + b.len <= off
    /\ DOMAIN offset_recv = Offsets(data)
    /\ offset_recv \in [Offsets(data) -> BOOLEAN]

\* The quotient is the only q with s * q <= x < s * q + s.
LEMMA DivUnique ==
    ASSUME NEW s \in Nat \ {0}, NEW q \in Nat, NEW x \in Nat,
           s * q <= x, x < s * q + s
    PROVE  x \div s = q
<1> DEFINE p == x \div s
<1>1. p \in Nat /\ s * p <= x /\ x < s * p + s
  <2>1. x = s * (x \div s) + (x % s)
    OBVIOUS
  <2>2. x % s \in 0 .. (s - 1) /\ x \div s \in Nat
    OBVIOUS
  <2>3. \A i \in Nat : s * i \in Nat
    OBVIOUS
  <2> QED
    BY <2>1, <2>2, <2>3
<1> HIDE DEF p
<1>2. ASSUME NEW i \in Nat, NEW j \in Nat, i < j PROVE s * i + s <= s * j
  <2>1. \A k, l \in Nat : k >= l => s * k >= s * l
    OBVIOUS
  <2>2. s * (i + 1) <= s * j
    BY <1>2, <2>1
  <2>3. s * (i + 1) = s * i + s
    OBVIOUS
  <2> QED
    BY <2>2, <2>3
<1>3. s * p \in Nat /\ s * q \in Nat
  BY <1>1
<1>4. ~(p < q)
  BY <1>1, <1>2, <1>3
<1>5. ~(q < p)
  BY <1>1, <1>2, <1>3
<1>6. p = q
  BY <1>1, <1>4, <1>5
<1> QED
  BY <1>6 DEF p

\* Two different multiples of s are at least s apart.
LEMMA MultiplesApart ==
    ASSUME NEW s \in Nat \ {0}, NEW x \in Nat, NEW y \in Nat,
           x % s = 0, y % s = 0, x < y
    PROVE  x + s <= y
<1>1. x = s * (x \div s) /\ y = s * (y \div s)
  OBVIOUS
<1>2. x \div s \in Nat /\ y \div s \in Nat
  OBVIOUS
<1> DEFINE p == x \div s
           q == y \div s
<1>3. p < q
  <2>1. \A i, j \in Nat : i >= j => s * i >= s * j
    OBVIOUS
  <2> HIDE DEF p, q
  <2>2. p \in Nat /\ q \in Nat /\ x = s * p /\ y = s * q
    BY <1>1, <1>2 DEF p, q
  <2> QED
    BY <2>1, <2>2
<1>4. s * (p + 1) <= s * q
  <2>1. \A i, j \in Nat : i >= j => s * i >= s * j
    OBVIOUS
  <2> HIDE DEF p, q
  <2>2. p \in Nat /\ q \in Nat
    BY <1>2 DEF p, q
  <2> QED
    BY <1>3, <2>1, <2>2
<1>5. s * (p + 1) = s * p + s
  <2> HIDE DEF p
  <2>1. p \in Nat
    BY <1>2 DEF p
  <2> QED
    BY <2>1
<1> HIDE DEF p, q
<1>6. x = s * p /\ y = s * q /\ p \in Nat /\ q \in Nat
  BY <1>1, <1>2 DEF p, q
<1> QED
  BY <1>4, <1>5, <1>6

\* The chunks that write cuts new bytes into are well formed, lie between
\* the buffer's old and new end, and do not overlap.
LEMMA NewChunksShape ==
    ASSUME off \in Nat, NEW m \in Nat, NEW off_len \in Nat
    PROVE  /\ NewChunks(m, off_len) \subseteq Chunk
           /\ IsFiniteSet(NewChunks(m, off_len))
           /\ \A b \in NewChunks(m, off_len) :
                  off <= b.off /\ b.off + b.len <= off + m
           /\ \A b, c \in NewChunks(m, off_len) : b # c => Apart(b, c)
<1> DEFINE first == off + off_len
           starts == {o \in first .. (off + m - 1) :
                          (o - first) % SEND_BUFFER_SIZE = 0}
           chunk(o) == [off |-> o,
                        len |-> Smaller(SEND_BUFFER_SIZE, off + m - o)]
           hd == [off |-> off, len |-> Smaller(off_len, m)]
           head == IF off_len > 0 /\ m > 0 THEN {hd} ELSE {}
           rest == {chunk(o) : o \in starts}
<1>1. NewChunks(m, off_len) = head \cup rest
  BY DEF NewChunks
<1>2. \A o \in starts : /\ o \in Nat /\ first <= o
                        /\ chunk(o) \in Chunk
                        /\ chunk(o).off = o
                        /\ o + chunk(o).len <= off + m
                        /\ chunk(o).len <= SEND_BUFFER_SIZE
  BY SizeAssumption DEF Chunk, Smaller
<1>3. head # {} => /\ hd \in Chunk /\ hd.off = off
                   /\ off + hd.len <= off + m
                   /\ off + hd.len <= first
  BY DEF Chunk, Smaller
<1>4. IsFiniteSet(starts)
  <2>1. IsFiniteSet(first .. (off + m - 1))
    BY FS_Interval
  <2>2. starts \in SUBSET (first .. (off + m - 1))
    OBVIOUS
  <2> HIDE DEF starts, first
  <2> QED
    BY <2>1, <2>2, FS_Subset, Zenon
<1>5. IsFiniteSet(rest)
  <2> DEFINE f == [o \in starts |-> chunk(o)]
  <2> HIDE DEF starts, chunk
  <2>1. f \in Surjection(starts, rest)
    BY DEF Surjection
  <2> HIDE DEF f, rest
  <2> QED
    BY <2>1, <1>4, FS_Surjection
<1>6. IsFiniteSet(head)
  BY FS_Singleton, FS_EmptySet, Zenon
<1>7. \A o, p \in starts : o < p => o + SEND_BUFFER_SIZE <= p
  <2> SUFFICES ASSUME NEW o \in starts, NEW p \in starts, o < p
               PROVE  o + SEND_BUFFER_SIZE <= p
    OBVIOUS
  <2>1. /\ o - first \in Nat /\ p - first \in Nat /\ o - first < p - first
        /\ (o - first) % SEND_BUFFER_SIZE = 0
        /\ (p - first) % SEND_BUFFER_SIZE = 0
    OBVIOUS
  <2>2. (o - first) + SEND_BUFFER_SIZE <= p - first
    <3> DEFINE x == o - first
               y == p - first
    <3>1. /\ x \in Nat /\ y \in Nat /\ x < y
          /\ x % SEND_BUFFER_SIZE = 0 /\ y % SEND_BUFFER_SIZE = 0
      BY <2>1
    <3> HIDE DEF x, y
    <3>2. x + SEND_BUFFER_SIZE <= y
      BY <3>1, MultiplesApart, SizeAssumption, Zenon
    <3> QED
      BY <3>2 DEF x, y
  <2> QED
    BY <2>2, SizeAssumption
<1> HIDE DEF first, starts, chunk, hd, head, rest
<1>8. IsFiniteSet(NewChunks(m, off_len))
  BY <1>1, <1>5, <1>6, FS_Union, Zenon
<1>9. ASSUME NEW o \in starts, NEW p \in starts, o # p
      PROVE  Apart(chunk(o), chunk(p))
  <2>1. CASE o < p
    BY <2>1, <1>2, <1>7, SizeAssumption DEF Apart, Chunk
  <2>2. CASE p < o
    BY <2>2, <1>2, <1>7, SizeAssumption DEF Apart, Chunk
  <2> QED
    BY <2>1, <2>2, <1>2, <1>9
<1>10. ASSUME head # {}, NEW o \in starts
       PROVE  Apart(hd, chunk(o)) /\ Apart(chunk(o), hd)
  <2>1. first \in Nat
    BY DEF first
  <2>2. hd.off = off /\ hd.len \in Nat /\ off + hd.len <= first
    BY <1>3, <1>10 DEF Chunk
  <2>3. chunk(o).off = o /\ o \in Nat /\ first <= o
    BY <1>2
  <2>4. hd.off + hd.len <= chunk(o).off
    BY <2>1, <2>2, <2>3
  <2> QED
    BY <2>4 DEF Apart
<1>11. head \subseteq {hd}
  BY DEF head
<1>12. ASSUME NEW b \in NewChunks(m, off_len)
       PROVE  b \in Chunk /\ off <= b.off /\ b.off + b.len <= off + m
  <2>1. CASE b \in head
    BY <2>1, <1>3, <1>11
  <2>2. CASE b \in rest
    <3>1. PICK o \in starts : b = chunk(o)
      BY <2>2 DEF rest
    <3>2. first \in Nat /\ off <= first
      BY DEF first
    <3> QED
      BY <3>1, <3>2, <1>2
  <2> QED
    BY <1>1, <1>12, <2>1, <2>2
<1>13. ASSUME NEW b \in NewChunks(m, off_len), NEW c \in NewChunks(m, off_len),
              b # c
       PROVE  Apart(b, c)
  BY <1>1, <1>9, <1>10, <1>11, <1>13 DEF rest
<1> QED
  BY <1>8, <1>12, <1>13

\* A finite set of chunks holds a finite set of bytes, which BytesIn counts.
LEMMA BytesFinite ==
    ASSUME NEW S \in SUBSET Chunk, IsFiniteSet(S)
    PROVE  /\ IsFiniteSet(ByteSet(S))
           /\ BytesIn(S) = Cardinality(ByteSet(S))
<1> DEFINE bytes(b) == b.off .. (b.off + b.len - 1)
           ranges == {bytes(b) : b \in S}
           f == [b \in S |-> bytes(b)]
<1>1. \A r \in ranges : IsFiniteSet(r)
  <2> SUFFICES ASSUME NEW b \in S PROVE IsFiniteSet(bytes(b))
    OBVIOUS
  <2>1. b.off \in Int /\ b.off + b.len - 1 \in Int
    BY DEF Chunk
  <2> QED
    BY <2>1, FS_Interval
<1>2. f \in Surjection(S, ranges)
  <2> HIDE DEF bytes
  <2> QED
    BY DEF Surjection
<1>3. IsFiniteSet(ranges)
  <2> HIDE DEF f, ranges
  <2> QED
    BY <1>2, FS_Surjection
<1>4. ByteSet(S) = UNION ranges /\ BytesIn(S) = Cardinality(ByteSet(S))
  BY DEF BytesIn, ByteSet
<1> HIDE DEF ranges
<1>5. IsFiniteSet(UNION ranges)
  BY <1>1, <1>3, FS_UNION
<1> QED
  BY <1>4, <1>5

\* A set of chunks holds a natural number of bytes.
LEMMA BytesInType ==
    ASSUME NEW S \in SUBSET Chunk, IsFiniteSet(S)
    PROVE  BytesIn(S) \in Nat
BY BytesFinite, FS_CardinalityType

\* Fewer chunks hold no more bytes.
LEMMA BytesInSubset ==
    ASSUME NEW T \in SUBSET Chunk, IsFiniteSet(T), NEW S \in SUBSET T
    PROVE  BytesIn(S) <= BytesIn(T)
<1>1. IsFiniteSet(S) /\ S \in SUBSET Chunk
  BY FS_Subset
<1>2. ByteSet(S) \in SUBSET ByteSet(T)
  BY DEF ByteSet
<1>3. IsFiniteSet(ByteSet(T)) /\ BytesIn(T) = Cardinality(ByteSet(T))
  BY BytesFinite
<1>4. BytesIn(S) = Cardinality(ByteSet(S))
  BY <1>1, BytesFinite
<1> QED
  BY <1>2, <1>3, <1>4, FS_Subset

\* Two sets of chunks together hold no more bytes than each by itself.
LEMMA BytesInUnion ==
    ASSUME NEW S \in SUBSET Chunk, IsFiniteSet(S),
           NEW T \in SUBSET Chunk, IsFiniteSet(T)
    PROVE  BytesIn(S \cup T) <= BytesIn(S) + BytesIn(T)
<1>1. IsFiniteSet(S \cup T) /\ S \cup T \in SUBSET Chunk
  BY FS_Union, Zenon
<1>2. ByteSet(S \cup T) = ByteSet(S) \cup ByteSet(T)
  BY DEF ByteSet
<1>3. /\ IsFiniteSet(ByteSet(S)) /\ BytesIn(S) = Cardinality(ByteSet(S))
      /\ IsFiniteSet(ByteSet(T)) /\ BytesIn(T) = Cardinality(ByteSet(T))
  BY BytesFinite
<1>4. BytesIn(S \cup T) = Cardinality(ByteSet(S) \cup ByteSet(T))
  BY <1>1, <1>2, BytesFinite
<1>5. /\ Cardinality(ByteSet(S) \cup ByteSet(T))
             = Cardinality(ByteSet(S)) + Cardinality(ByteSet(T))
                   - Cardinality(ByteSet(S) \cap ByteSet(T))
      /\ IsFiniteSet(ByteSet(S) \cap ByteSet(T))
  BY <1>3, FS_Union, FS_Intersection
<1>6. /\ Cardinality(ByteSet(S)) \in Nat /\ Cardinality(ByteSet(T)) \in Nat
      /\ Cardinality(ByteSet(S) \cap ByteSet(T)) \in Nat
  BY <1>3, <1>5, FS_CardinalityType
<1> QED
  BY <1>3, <1>4, <1>5, <1>6

\* Leaving out a chunk that the others do not overlap saves its bytes.
LEMMA BytesInWithout ==
    ASSUME NEW T \in SUBSET Chunk, IsFiniteSet(T), NEW S \in SUBSET T,
           NEW b \in T, \A c \in S : Apart(b, c)
    PROVE  BytesIn(S) + b.len <= BytesIn(T)
<1> DEFINE own == b.off .. (b.off + b.len - 1)
<1>1. b.off \in Nat /\ b.len \in Nat \ {0}
  BY DEF Chunk
<1>2. IsFiniteSet(own) /\ Cardinality(own) = b.len
  <2>1. b.off \in Int /\ b.off + b.len - 1 \in Int /\ ~(b.off > b.off + b.len - 1)
    BY <1>1
  <2>2. (b.off + b.len - 1) - b.off + 1 = b.len
    BY <1>1
  <2> QED
    BY <2>1, <2>2, FS_Interval
<1>3. IsFiniteSet(S) /\ S \in SUBSET Chunk
  BY FS_Subset
<1>4. own \cap ByteSet(S) = {}
  <2> SUFFICES ASSUME NEW c \in S, NEW x \in own,
                      x \in c.off .. (c.off + c.len - 1)
               PROVE  FALSE
    BY DEF ByteSet
  <2>1. c.off \in Nat /\ c.len \in Nat
    BY DEF Chunk
  <2> QED
    BY <1>1, <2>1 DEF Apart
<1>5. own \cup ByteSet(S) \in SUBSET ByteSet(T)
  BY DEF ByteSet
<1>6. /\ IsFiniteSet(ByteSet(S)) /\ BytesIn(S) = Cardinality(ByteSet(S))
      /\ IsFiniteSet(ByteSet(T)) /\ BytesIn(T) = Cardinality(ByteSet(T))
  BY <1>3, BytesFinite
<1> HIDE DEF own
<1>7. Cardinality(own \cup ByteSet(S)) <= Cardinality(ByteSet(T))
  BY <1>5, <1>6, FS_Subset
<1>8. Cardinality(own \cup ByteSet(S))
          = Cardinality(own) + Cardinality(ByteSet(S)) - Cardinality({})
  BY <1>2, <1>4, <1>6, FS_Union
<1>9. Cardinality({}) = 0 /\ Cardinality(ByteSet(S)) \in Nat
      /\ Cardinality(ByteSet(T)) \in Nat
  BY <1>6, FS_EmptySet, FS_CardinalityType
<1> QED
  BY <1>1, <1>2, <1>6, <1>7, <1>8, <1>9

\* Chunks that do not overlap have different places in the queue, and every
\* place below the number of chunks is taken.
LEMMA IndexOfChunk ==
    ASSUME data \subseteq Chunk, IsFiniteSet(data),
           \A b, c \in data : b # c => Apart(b, c)
    PROVE  /\ \A b \in data : Index(b) \in Nat /\ Index(b) < Cardinality(data)
           /\ \A b, c \in data : Index(b) = Index(c) => b = c
           /\ \A i \in 0 .. (Cardinality(data) - 1) :
                  \E b \in data : Index(b) = i
<1> DEFINE before(b) == {c \in data : c.off < b.off}
<1>1. \A b \in data : Index(b) = Cardinality(before(b))
  BY DEF Index
<1>2. \A b \in data : b.off \in Nat /\ b.len \in Nat \ {0}
  BY DEF Chunk
<1>3. Cardinality(data) \in Nat
  BY FS_CardinalityType
<1>4. ASSUME NEW b \in data
      PROVE  IsFiniteSet(before(b)) /\ Cardinality(before(b)) \in Nat
  <2>1. before(b) \in SUBSET data
    OBVIOUS
  <2> HIDE DEF before
  <2> QED
    BY <2>1, FS_Subset, FS_CardinalityType
<1>5. ASSUME NEW b \in data PROVE Cardinality(before(b)) < Cardinality(data)
  <2>1. before(b) \in SUBSET data /\ b \notin before(b)
    BY <1>2
  <2>2. before(b) # data
    BY <2>1
  <2> HIDE DEF before
  <2> QED
    BY <2>1, <2>2, FS_Subset, FS_CardinalityType
<1>6. ASSUME NEW b \in data, NEW c \in data, b.off < c.off
      PROVE  Cardinality(before(b)) # Cardinality(before(c))
  <2>1. before(b) \in SUBSET before(c)
    BY <1>2, <1>6
  <2>2. b \in before(c) /\ b \notin before(b)
    BY <1>2, <1>6
  <2>3. IsFiniteSet(before(c))
    BY <1>4
  <2> HIDE DEF before
  <2> QED
    BY <2>1, <2>2, <2>3, FS_Subset
<1>7. ASSUME NEW b \in data, NEW c \in data, b # c
      PROVE  b.off < c.off \/ c.off < b.off
  BY <1>2, <1>7 DEF Apart
<1> HIDE DEF before
<1>8. /\ \A b \in data : Index(b) \in Nat /\ Index(b) < Cardinality(data)
      /\ \A b, c \in data : Index(b) = Index(c) => b = c
  BY <1>1, <1>4, <1>5, <1>6, <1>7
<1> DEFINE places == 0 .. (Cardinality(data) - 1)
           f == [b \in data |-> Index(b)]
<1>9. IsFiniteSet(places) /\ Cardinality(places) = Cardinality(data)
  <2> DEFINE n == Cardinality(data) - 1
  <2>1. n \in Int /\ n >= -1
    BY <1>3
  <2> HIDE DEF n
  <2>2. IsFiniteSet(0 .. n) /\ Cardinality(0 .. n) = IF 0 > n THEN 0 ELSE n - 0 + 1
    BY <2>1, FS_Interval
  <2>3. Cardinality(0 .. n) = n + 1
    BY <2>1, <2>2
  <2> QED
    BY <1>3, <2>2, <2>3 DEF n
<1>10. f \in Injection(data, places)
  <2>1. f \in [data -> places]
    BY <1>3, <1>8
  <2>2. \A b, c \in data : f[b] = f[c] => b = c
    BY <1>8
  <2> HIDE DEF f, places
  <2> QED
    BY <2>1, <2>2 DEF Injection, IsInjective
<1>11. f \in Surjection(data, places)
  <2> HIDE DEF f, places
  <2> QED
    BY <1>9, <1>10, FS_Injection
<1>12. \A i \in places : \E b \in data : Index(b) = i
  BY <1>11, Zenon DEF Surjection
<1> QED
  BY <1>8, <1>12

\* The i-th flag of the map belongs to the i-th chunk of the buffer: what
\* recv_and_drop keeps is what is still wanted.
LEMMA KeptIsWanted ==
    ASSUME BufOK
    PROVE  Kept = {b \in data : offset_recv[b.off]}
<1> DEFINE below(k) == {j \in Offsets(data) : j < k}
           before(b) == {c \in data : c.off < b.off}
<1>1. IsFiniteSet(Offsets(data))
  <2> DEFINE f == [b \in data |-> b.off]
  <2>1. f \in Surjection(data, Offsets(data))
    BY DEF Surjection, Offsets
  <2> HIDE DEF f
  <2> QED
    BY <2>1, FS_Surjection DEF BufOK
<1>2. Offsets(data) \subseteq Nat
  BY DEF BufOK, Offsets, Chunk
<1>3. \A b, c \in data : b.off = c.off => b = c
  BY DEF BufOK, Chunk, Apart
<1>4. ASSUME NEW b \in data PROVE Cardinality(below(b.off)) = Index(b)
  <2> DEFINE f == [c \in before(b) |-> c.off]
  <2>1. f \in Bijection(before(b), below(b.off))
    <3>1. f \in [before(b) -> below(b.off)]
      BY DEF Offsets
    <3>2. \A c, d \in before(b) : f[c] = f[d] => c = d
      BY <1>3
    <3>3. \A j \in below(b.off) : \E c \in before(b) : f[c] = j
      BY DEF Offsets
    <3>4. DOMAIN f = before(b)
      OBVIOUS
    <3> HIDE DEF f, before, below
    <3> QED
      BY <3>1, <3>2, <3>3, <3>4 DEF Bijection, Injection, IsInjective, Surjection
  <2>2. IsFiniteSet(before(b))
    <3>1. before(b) \in SUBSET data
      OBVIOUS
    <3> HIDE DEF before
    <3> QED
      BY <3>1, FS_Subset DEF BufOK
  <2>3. Index(b) = Cardinality(before(b))
    BY DEF Index
  <2> HIDE DEF f, before, below
  <2> QED
    BY <2>1, <2>2, <2>3, FS_Bijection DEF ExistsBijection
<1>5. \A k \in DOMAIN offset_recv : KeyIndex(k) = Cardinality(below(k))
  BY DEF KeyIndex, BufOK
<1>6. ASSUME NEW j \in Offsets(data), NEW k \in Offsets(data), j < k
      PROVE  Cardinality(below(j)) # Cardinality(below(k))
  <2>1. IsFiniteSet(below(k))
    <3>1. below(k) \in SUBSET Offsets(data)
      OBVIOUS
    <3> HIDE DEF below
    <3> QED
      BY <3>1, <1>1, FS_Subset
  <2>2. below(j) \in SUBSET below(k)
    BY <1>2, <1>6
  <2>3. j \in below(k) /\ j \notin below(j)
    BY <1>2, <1>6
  <2> HIDE DEF below
  <2> QED
    BY <2>1, <2>2, <2>3, FS_Subset
<1>7. \A j, k \in Offsets(data) :
          Cardinality(below(j)) = Cardinality(below(k)) => j = k
  <2> SUFFICES ASSUME NEW j \in Offsets(data), NEW k \in Offsets(data), j # k
               PROVE  Cardinality(below(j)) # Cardinality(below(k))
    BY Zenon
  <2>1. j < k \/ k < j
    BY <1>2
  <2> HIDE DEF below
  <2> QED
    BY <2>1, <1>6
<1> HIDE DEF below, before
<1>8. ASSUME NEW b \in data, NEW k \in DOMAIN offset_recv
      PROVE  KeyIndex(k) = Index(b) <=> k = b.off
  <2>1. k \in Offsets(data) /\ b.off \in Offsets(data)
    BY DEF BufOK, Offsets
  <2> QED
    BY <2>1, <1>4, <1>5, <1>7
<1>9. \A b \in data : b.off \in DOMAIN offset_recv
  BY DEF BufOK, Offsets
<1> QED
  BY <1>8, <1>9, Zenon DEF Kept
-----------------------------------------------------------------------------
\* write takes no more bytes than it is offered.
LEMMA AcceptedType ==
    ASSUME BufOK, NEW n \in Nat, NEW window \in Nat
    PROVE  Accepted(n, window) \in Nat /\ Accepted(n, window) <= n
<1>1. Kept \in SUBSET data
  BY DEF Kept
<1>2. IsFiniteSet(Kept) /\ Kept \in SUBSET Chunk
  BY <1>1, FS_Subset DEF BufOK
<1>3. BytesIn(Kept) \in Nat
  BY <1>2, BytesInType
<1> QED
  BY <1>3 DEF Accepted, Smaller

\* write keeps chunks and flags paired, also where recv_and_drop removes some
\* of both.
LEMMA BufWriteKeepsOK ==
    ASSUME BufOK, NEW n \in Nat, NEW window \in Nat, NEW off_len \in Nat,
           BufWrite(n, window, off_len)
    PROVE  BufOK'
<1> DEFINE m == Accepted(n, window)
           new == NewChunks(m, off_len)
<1>1. m \in Nat
  BY AcceptedType
<1>2. /\ data' = Kept \cup new
      /\ off' = off + m
      /\ offset_recv' = [k \in DOMAIN Wanted \cup Offsets(new) |->
                            IF k \in Offsets(new) THEN TRUE ELSE Wanted[k]]
  BY DEF BufWrite
<1> HIDE DEF m
<1>3. /\ new \subseteq Chunk
      /\ IsFiniteSet(new)
      /\ \A b \in new : off <= b.off /\ b.off + b.len <= off + m
      /\ \A b, c \in new : b # c => Apart(b, c)
  BY <1>1, NewChunksShape DEF BufOK
<1> HIDE DEF new
<1>4. Kept = {b \in data : offset_recv[b.off]}
  BY KeptIsWanted
<1>5. Kept \in SUBSET data /\ IsFiniteSet(Kept)
  <2>1. Kept \in SUBSET data
    BY <1>4
  <2> QED
    BY <2>1, FS_Subset DEF BufOK
<1>6. DOMAIN Wanted = Offsets(Kept) /\ \A k \in DOMAIN Wanted : Wanted[k] = TRUE
  <2>1. CASE data = {}
    <3>1. Wanted = offset_recv /\ Offsets(data) = {} /\ Kept = {}
      BY <2>1, <1>4 DEF Wanted, Offsets
    <3> QED
      BY <3>1 DEF BufOK, Offsets
  <2>2. CASE data # {}
    <3>1. Wanted = [k \in {j \in DOMAIN offset_recv : offset_recv[j]} |-> TRUE]
      BY <2>2 DEF Wanted
    <3>2. {j \in DOMAIN offset_recv : offset_recv[j]} = Offsets(Kept)
      BY <1>4 DEF BufOK, Offsets
    <3> QED
      BY <3>1, <3>2
  <2> QED
    BY <2>1, <2>2, Zenon
<1>7. data' \subseteq Chunk /\ off' \in Nat
  BY <1>1, <1>2, <1>3, <1>5 DEF BufOK
<1>8. IsFiniteSet(data')
  BY <1>2, <1>3, <1>5, FS_Union, Zenon
<1>9. \A b \in data' : b.off + b.len <= off'
  BY <1>1, <1>2, <1>3, <1>5 DEF BufOK, Chunk
<1>10. \A b, c \in data' : b # c => Apart(b, c)
  BY <1>2, <1>3, <1>5 DEF BufOK, Apart, Chunk
<1>11. Offsets(data') = Offsets(Kept) \cup Offsets(new)
  BY <1>2 DEF Offsets
<1>12. /\ DOMAIN offset_recv' = Offsets(data')
       /\ offset_recv' \in [Offsets(data') -> BOOLEAN]
  BY <1>2, <1>6, <1>11, Zenon
<1>13. Offsets(data)' = Offsets(data')
  BY DEF Offsets
<1> QED
  BY <1>7, <1>8, <1>9, <1>10, <1>12, <1>13 DEF BufOK, Apart

\* emit moves pos and counts bytes; it removes no chunk and no flag.
LEMMA BufEmitKeepsOK == ASSUME BufOK, BufEmit PROVE BufOK'
BY DEF BufOK, BufEmit, Offsets, Apart

\* ack_and_drop changes flags' values only.
LEMMA BufAckAndDropKeepsOK ==
    ASSUME BufOK, NEW S, BufAckAndDrop(S)
    PROVE  BufOK'
<1>1. data' = data /\ off' = off
  BY DEF BufAckAndDrop
<1>2. offset_recv' = [k \in DOMAIN offset_recv |->
                          offset_recv[k] /\ k \notin S]
  BY DEF BufAckAndDrop
<1>3. /\ DOMAIN offset_recv' = Offsets(data)
      /\ offset_recv' \in [Offsets(data) -> BOOLEAN]
  BY <1>2 DEF BufOK
<1>4. Offsets(data)' = Offsets(data)
  BY <1>1 DEF Offsets
<1> QED
  BY <1>1, <1>3, <1>4 DEF BufOK, Apart

-----------------------------------------------------------------------------
(***************************************************************************)
(* Exact byte counts.                                                      *)
(***************************************************************************)
\* One chunk holds as many bytes as it says.
LEMMA BytesInOne == ASSUME NEW b \in Chunk PROVE BytesIn({b}) = b.len
<1> DEFINE own == b.off .. (b.off + b.len - 1)
<1>1. b.off \in Nat /\ b.len \in Nat \ {0}
  BY DEF Chunk
<1>2. BytesIn({b}) = Cardinality(own)
  <2>1. UNION {c.off .. (c.off + c.len - 1) : c \in {b}} = own
    OBVIOUS
  <2> QED
    BY <2>1, Zenon DEF BytesIn, ByteSet
<1>3. Cardinality(own) = b.len
  <2>1. b.off \in Int /\ b.off + b.len - 1 \in Int /\ ~(b.off > b.off + b.len - 1)
    BY <1>1
  <2>2. (b.off + b.len - 1) - b.off + 1 = b.len
    BY <1>1
  <2> QED
    BY <2>1, <2>2, FS_Interval
<1> QED
  BY <1>2, <1>3

\* Sets of chunks that do not overlap hold what they hold one by one.
LEMMA BytesInApart ==
    ASSUME NEW S \in SUBSET Chunk, IsFiniteSet(S),
           NEW T \in SUBSET Chunk, IsFiniteSet(T),
           \A b \in S : \A c \in T : Apart(b, c)
    PROVE  BytesIn(S \cup T) = BytesIn(S) + BytesIn(T)
<1>1. IsFiniteSet(S \cup T) /\ S \cup T \in SUBSET Chunk
  BY FS_Union, Zenon
<1>2. ByteSet(S \cup T) = ByteSet(S) \cup ByteSet(T)
  BY DEF ByteSet
<1>3. /\ IsFiniteSet(ByteSet(S)) /\ BytesIn(S) = Cardinality(ByteSet(S))
      /\ IsFiniteSet(ByteSet(T)) /\ BytesIn(T) = Cardinality(ByteSet(T))
  BY BytesFinite
<1>4. BytesIn(S \cup T) = Cardinality(ByteSet(S) \cup ByteSet(T))
  BY <1>1, <1>2, BytesFinite
<1>5. ByteSet(S) \cap ByteSet(T) = {}
  <2> SUFFICES ASSUME NEW b \in S, NEW c \in T,
                      NEW x \in b.off .. (b.off + b.len - 1),
                      x \in c.off .. (c.off + c.len - 1)
               PROVE  FALSE
    BY DEF ByteSet
  <2>1. /\ b.off \in Nat /\ b.len \in Nat /\ c.off \in Nat /\ c.len \in Nat
        /\ Apart(b, c)
    BY DEF Chunk
  <2> QED
    BY <2>1 DEF Apart
<1>6. Cardinality(ByteSet(S) \cup ByteSet(T))
          = Cardinality(ByteSet(S)) + Cardinality(ByteSet(T)) - Cardinality({})
  BY <1>3, <1>5, FS_Union
<1>7. /\ Cardinality({}) = 0
      /\ Cardinality(ByteSet(S)) \in Nat /\ Cardinality(ByteSet(T)) \in Nat
  BY <1>3, FS_EmptySet, FS_CardinalityType
<1> QED
  BY <1>3, <1>4, <1>6, <1>7

\* The last multiple of s not above x is less than s away from it.
LEMMA MultipleBelow ==
    ASSUME NEW s \in Nat \ {0}, NEW x \in Nat
    PROVE  \E y \in Nat : y % s = 0 /\ y <= x /\ x < y + s
<1> DEFINE q == x \div s
           r == x % s
<1>1. q \in Nat /\ r \in 0 .. (s - 1) /\ x = s * q + r
  OBVIOUS
<1> HIDE DEF q, r
<1>2. s * q \in Nat /\ (s * q) % s = 0
  BY <1>1
<1> QED
  BY <1>1, <1>2

\* write cuts the bytes it takes into chunks without leaving one out.
LEMMA NewChunksBytes ==
    ASSUME off \in Nat, NEW m \in Nat, NEW off_len \in Nat
    PROVE  ByteSet(NewChunks(m, off_len)) = off .. (off + m - 1)
<1> DEFINE new == NewChunks(m, off_len)
           range == off .. (off + m - 1)
           first == off + off_len
<1>1. /\ new \in SUBSET Chunk /\ IsFiniteSet(new)
      /\ \A b \in new : off <= b.off /\ b.off + b.len <= off + m
  BY NewChunksShape
<1>2. ASSUME NEW x \in range
      PROVE  \E b \in new : x \in b.off .. (b.off + b.len - 1)
  <2>1. CASE x < first
    <3> DEFINE hd == [off |-> off, len |-> Smaller(off_len, m)]
    <3>1. off_len > 0 /\ m > 0
      BY <2>1
    <3>2. hd \in new
      BY <3>1 DEF NewChunks
    <3>3. x \in hd.off .. (hd.off + hd.len - 1)
      BY <2>1, <3>1 DEF Smaller
    <3> QED
      BY <3>2, <3>3
  <2>2. CASE x >= first
    <3> DEFINE d == x - first
    <3>1. d \in Nat /\ x = first + d /\ first \in Nat
      BY <2>2
    <3>2. \E y \in Nat : y % SEND_BUFFER_SIZE = 0 /\ y <= d
                         /\ d < y + SEND_BUFFER_SIZE
      <4> HIDE DEF d
      <4> QED
        BY <3>1, MultipleBelow, SizeAssumption, Zenon
    <3>3. PICK y \in Nat : y % SEND_BUFFER_SIZE = 0 /\ y <= d
                           /\ d < y + SEND_BUFFER_SIZE
      BY <3>2
    <3> DEFINE o == first + y
               b == [off |-> o, len |-> Smaller(SEND_BUFFER_SIZE, off + m - o)]
    <3>4. /\ o \in first .. (off + m - 1) /\ o - first = y /\ o <= x
          /\ x < o + SEND_BUFFER_SIZE /\ x < off + m
      BY <3>1, <3>3, SizeAssumption
    <3>5. b \in new
      BY <3>3, <3>4 DEF NewChunks
    <3>6. x \in b.off .. (b.off + b.len - 1)
      BY <3>1, <3>4, SizeAssumption DEF Smaller
    <3> QED
      BY <3>5, <3>6
  <2> QED
    BY <2>1, <2>2
<1> HIDE DEF new
<1>3. ByteSet(new) = range
  <2>1. ByteSet(new) \in SUBSET range
    BY <1>1 DEF ByteSet, Chunk
  <2>2. range \in SUBSET ByteSet(new)
    <3> HIDE DEF range
    <3> QED
      BY <1>2 DEF ByteSet
  <2> QED
    BY <2>1, <2>2, Zenon
<1> QED
  BY <1>3 DEF new

\* So the new chunks hold as many bytes as write takes.
LEMMA NewChunksCover ==
    ASSUME off \in Nat, NEW m \in Nat, NEW off_len \in Nat
    PROVE  BytesIn(NewChunks(m, off_len)) = m
<1> DEFINE range == off .. (off + m - 1)
<1>1. BytesIn(NewChunks(m, off_len)) = Cardinality(range)
  BY NewChunksBytes DEF BytesIn
<1>2. Cardinality(range) = m
  <2>1. off \in Int /\ off + m - 1 \in Int
    OBVIOUS
  <2>2. Cardinality(range)
            = IF off > off + m - 1 THEN 0 ELSE (off + m - 1) - off + 1
    BY <2>1, FS_Interval
  <2> QED
    BY <2>2
<1> QED
  BY <1>1, <1>2
-----------------------------------------------------------------------------
(***************************************************************************)
(* Block boundaries.                                                       *)
(***************************************************************************)
\* Bytes less than a block apart from a boundary below both are in one block.
LEMMA SameBlock ==
    ASSUME NEW s \in Nat \ {0}, NEW a \in Nat, a % s = 0,
           NEW x \in Nat, a <= x, x < a + s,
           NEW y \in Nat, a <= y, y < a + s
    PROVE  x \div s = y \div s
<1> DEFINE q == a \div s
<1>1. q \in Nat /\ a = s * q
  OBVIOUS
<1> HIDE DEF q
<1>2. x \in Nat /\ s * q <= x /\ x < s * q + s
  BY <1>1
<1>3. y \in Nat /\ s * q <= y /\ y < s * q + s
  BY <1>1
<1>4. x \div s = q
  BY <1>1, <1>2, DivUnique
<1>5. y \div s = q
  BY <1>1, <1>3, DivUnique
<1> QED
  BY <1>4, <1>5

\* A boundary plus whole blocks is a boundary.
LEMMA NextBoundary ==
    ASSUME NEW s \in Nat \ {0}, NEW a \in Nat, NEW x \in Nat,
           a % s = 0, x % s = 0
    PROVE  (a + x) % s = 0
<1> DEFINE p == a \div s
           q == x \div s
<1>1. p \in Nat /\ q \in Nat /\ a = s * p /\ x = s * q
  OBVIOUS
<1> HIDE DEF p, q
<1>2. s * p + s * q = s * (p + q)
  BY <1>1
<1>3. a + x = s * (p + q) /\ p + q \in Nat
  BY <1>1, <1>2
<1>4. (a + x) \div s = p + q
  <2>1. s * (p + q) <= a + x /\ a + x < s * (p + q) + s /\ a + x \in Nat
    BY <1>3
  <2> QED
    BY <1>3, <2>1, DivUnique
<1>5. a + x = s * ((a + x) \div s) + ((a + x) % s)
  OBVIOUS
<1>6. (a + x) % s \in Nat /\ s * (p + q) \in Nat
  BY <1>3
<1> QED
  BY <1>3, <1>4, <1>5, <1>6

\* Every new chunk stays inside one block when off_len is what is missing to
\* the next boundary.
LEMMA NewChunksInBlock ==
    ASSUME off \in Nat, NEW m \in Nat, NEW off_len,
           off_len = IF off % SEND_BUFFER_SIZE = 0 THEN 0
                     ELSE SEND_BUFFER_SIZE - (off % SEND_BUFFER_SIZE),
           NEW b \in NewChunks(m, off_len)
    PROVE  /\ b.len <= SEND_BUFFER_SIZE
           /\ b.off \div SEND_BUFFER_SIZE
                  = (b.off + b.len - 1) \div SEND_BUFFER_SIZE
<1> DEFINE s == SEND_BUFFER_SIZE
           k == off % s
           first == off + off_len
<1>1. s \in Nat \ {0} /\ k \in 0 .. (s - 1)
  BY SizeAssumption
<1>2. off_len = IF k = 0 THEN 0 ELSE s - k
  OBVIOUS
<1>3. off - k \in Nat /\ (off - k) % s = 0
  <2>1. off = s * (off \div s) + (off % s) /\ off \div s \in Nat
    BY <1>1
  <2> DEFINE q == off \div s
  <2> HIDE DEF q, k
  <2>2. off - k = s * q /\ q \in Nat
    BY <1>1, <2>1 DEF q, k
  <2>3. s * q \in Nat /\ (s * q) % s = 0
    BY <1>1, <2>2
  <2> QED
    BY <2>2, <2>3
<1>4. first \in Nat /\ first % s = 0
  <2>1. CASE k = 0
    BY <1>2, <1>3, <2>1
  <2>2. CASE k # 0
    <3>1. first = (off - k) + s /\ s % s = 0
      BY <1>1, <1>2, <2>2
    <3> HIDE DEF k, first
    <3>2. ((off - k) + s) % s = 0
      BY <1>1, <1>3, <3>1, NextBoundary, Zenon
    <3> QED
      BY <1>1, <1>3, <3>1, <3>2
  <2> QED
    BY <2>1, <2>2
<1> HIDE DEF k, first
<1>5. \/ /\ off_len > 0 /\ m > 0
         /\ b = [off |-> off, len |-> Smaller(off_len, m)]
      \/ \E o \in first .. (off + m - 1) :
             /\ (o - first) % s = 0
             /\ b = [off |-> o, len |-> Smaller(s, off + m - o)]
  BY DEF NewChunks, first
<1>6. CASE /\ off_len > 0 /\ m > 0
           /\ b = [off |-> off, len |-> Smaller(off_len, m)]
  <2>1. b.off = off /\ b.len \in 1 .. (s - k)
    BY <1>1, <1>2, <1>6 DEF Smaller
  <2> DEFINE a == off - k
             y == b.off + b.len - 1
  <2>2. /\ off \in Nat /\ a <= off /\ off < a + s
        /\ y \in Nat /\ a <= y /\ y < a + s
    BY <1>1, <2>1
  <2>a. b.len <= s
    BY <1>1, <2>1
  <2> HIDE DEF a, y, s
  <2>3. a \in Nat /\ a % s = 0
    BY <1>3 DEF a
  <2>4. off \div s = y \div s
    BY <1>1, <2>2, <2>3, SameBlock, Zenon
  <2> QED
    BY <2>1, <2>4, <2>a DEF y, s
<1>7. ASSUME NEW o \in first .. (off + m - 1), (o - first) % s = 0,
             b = [off |-> o, len |-> Smaller(s, off + m - o)]
      PROVE  b.len <= s /\ b.off \div s = (b.off + b.len - 1) \div s
  <2>1. o \in Nat /\ o - first \in Nat
    BY <1>4
  <2>2. (first + (o - first)) % s = 0
    <3> DEFINE x == o - first
    <3>1. x \in Nat /\ x % s = 0
      BY <1>7, <2>1
    <3> HIDE DEF x, s
    <3>2. (first + x) % s = 0
      BY <1>1, <1>4, <3>1, NextBoundary, Zenon
    <3> QED
      BY <3>2 DEF x
  <2>3. first + (o - first) = o
    BY <1>4, <2>1
  <2>4. b.off = o /\ b.len \in 1 .. s
    BY <1>1, <1>4, <1>7, <2>1 DEF Smaller
  <2> DEFINE y == b.off + b.len - 1
  <2>5. o <= o /\ o < o + s /\ y \in Nat /\ o <= y /\ y < o + s
    BY <1>1, <2>1, <2>4
  <2>a. b.len <= s
    BY <1>1, <2>4
  <2> HIDE DEF y, s
  <2>6. o % s = 0
    BY <2>2, <2>3
  <2>7. o \div s = y \div s
    BY <1>1, <2>1, <2>5, <2>6, SameBlock, Zenon
  <2> QED
    BY <2>4, <2>7, <2>a DEF y
<1> QED
  BY <1>5, <1>6, <1>7

\* Between two places of a block there is nothing of another block.
LEMMA BlockBetween ==
    ASSUME NEW s \in Nat \ {0}, NEW x \in Nat, NEW y \in Nat, NEW z \in Nat,
           x <= y, y <= z, x \div s = z \div s
    PROVE  y \div s = x \div s
<1> DEFINE q == x \div s
           r == x % s
           t == z % s
<1>1. q \in Nat /\ r \in 0 .. (s - 1) /\ t \in 0 .. (s - 1)
  OBVIOUS
<1>2. x = s * q + r
  OBVIOUS
<1>3. z = s * (z \div s) + t
  OBVIOUS
<1>4. z = s * q + t
  BY <1>3
<1> HIDE DEF q, r, t
<1>5. s * q \in Nat
  BY <1>1
<1>6. s * q <= y /\ y < s * q + s
  BY <1>1, <1>2, <1>4, <1>5
<1>7. y \div s = q
  BY <1>1, <1>6, DivUnique
<1> QED
  BY <1>7 DEF q
=============================================================================
