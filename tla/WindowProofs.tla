---------------------------- MODULE WindowProofs ----------------------------
(***************************************************************************)
(* Proofs about Window: within one data set the send buffer drops exactly  *)
(* the chunks that were settled, for every data length, chunk size and     *)
(* choice of windows, and wherever the application interrupts a window.    *)
(* And about Congestion: what windows update_win, cwnd and rollback can    *)
(* ever hand to the send buffer, for every packet size, every report and   *)
(* every bound.                                                            *)
(***************************************************************************)
EXTENDS Window, Congestion, SendBufProofs

\* The inductive invariant: chunks and flags are paired.
WindowInv == WindowTypeOK /\ BufOK /\ total_offset <= DataLen

\* The bytes missing to a block boundary.
LEMMA OffLenType == ASSUME total_offset \in Nat PROVE OffLen \in Nat
<1>1. total_offset % SEND_BUFFER_SIZE \in 0 .. (SEND_BUFFER_SIZE - 1)
  BY SizeAssumption
<1> QED
  BY <1>1, SizeAssumption DEF OffLen

\* A new connection's buffer is empty.
LEMMA WindowInitInv == WindowInit => WindowInv
<1> SUFFICES ASSUME WindowInit PROVE WindowInv
  OBVIOUS
<1>1. PICK w \in Windows : SendBufInit(w)
  BY DEF WindowInit
<1>2. w \in Nat
  BY WindowAssumption
<1>3. IsFiniteSet({})
  BY FS_EmptySet
<1>4. BufOK
  BY <1>1, <1>3 DEF SendBufInit, BufOK, Offsets
<1>5. open \in BOOLEAN
  BY Zenon DEF WindowInit
<1> QED
  BY <1>1, <1>2, <1>3, <1>4, <1>5, WindowAssumption
     DEF WindowInit, SendBufInit, WindowInv, WindowTypeOK

\* Every operation of the connection keeps the invariant.
LEMMA WindowNextInv ==
    WindowInv /\ [WindowNext]_windowVars => WindowInv'
<1> SUFFICES ASSUME WindowInv, [WindowNext]_windowVars PROVE WindowInv'
  OBVIOUS
<1> USE DEF WindowInv
<1>a. ASSUME BufOK' PROVE /\ data' \subseteq Chunk /\ IsFiniteSet(data')
                          /\ off' \in Nat
                          /\ DOMAIN offset_recv' \subseteq Nat
                          /\ offset_recv' \in [DOMAIN offset_recv' -> BOOLEAN]
  BY <1>a DEF BufOK, Offsets, Chunk
<1>b. EmitLen \in Nat /\ OffFront \in Nat
  <2>1. \A b \in Front : b \in Chunk
    BY DEF Front, BufOK
  <2>2. CASE Front = {}
    BY <2>2, SizeAssumption DEF EmitLen, OffFront, BufOK
  <2>3. CASE Front # {}
    <3>1. (CHOOSE b \in Front : TRUE) \in Chunk
      BY <2>1, <2>3
    <3> QED
      BY <2>3, <3>1, SizeAssumption DEF EmitLen, OffFront, Smaller, Chunk
  <2> QED
    BY <2>2, <2>3
<1>1. ASSUME NEW w \in Windows, SendAll(w) PROVE WindowInv'
  <2> DEFINE n == DataLen - total_offset
  <2>1. n \in Nat /\ w \in Nat
    BY WindowAssumption DEF WindowTypeOK
  <2>2. OffLen \in Nat
    BY OffLenType DEF WindowTypeOK
  <2>3. BufWrite(n, w, OffLen)
    BY <1>1 DEF SendAll
  <2>4. Accepted(n, w) \in Nat /\ Accepted(n, w) <= n
    BY <2>1, AcceptedType
  <2>5. BufOK'
    BY <2>1, <2>2, <2>3, BufWriteKeepsOK
  <2>6. BytesIn(Kept) \in Nat
    <3>1. Kept \in SUBSET data
      BY DEF Kept
    <3>2. IsFiniteSet(Kept) /\ Kept \in SUBSET Chunk
      BY <3>1, FS_Subset DEF BufOK
    <3> QED
      BY <3>2, BytesInType
  <2>7. total_offset' = total_offset + Accepted(n, w) /\ open' = TRUE
        /\ emitted' = emitted
    BY <1>1 DEF SendAll
  <2>8. len' = BytesIn(Kept) + Accepted(n, w) /\ max_data' = w /\ sent' = 0
        /\ pos' = pos
    BY <2>3 DEF BufWrite
  <2>9. total_offset' \in Nat /\ total_offset' <= DataLen
    BY <2>4, <2>7, WindowAssumption DEF WindowTypeOK
  <2>10. len' \in Int
    BY <2>4, <2>6, <2>8
  <2> HIDE DEF n
  <2> QED
    BY <1>a, <2>1, <2>5, <2>7, <2>8, <2>9, <2>10 DEF WindowTypeOK
<1>c. ASSUME BufEmit PROVE /\ BufOK' /\ sent' \in Nat /\ pos' \in Nat
                           /\ len' \in Int /\ max_data' \in Nat
  <2>1. BufOK'
    BY <1>c, BufEmitKeepsOK
  <2> QED
    BY <1>b, <1>c, <2>1 DEF BufEmit, NextPos, WindowTypeOK
<1>2. CASE SendChunk
  <2>1. open' \in BOOLEAN
    BY <1>2 DEF SendChunk, EmitStop
  <2>2. emitted' \subseteq Nat /\ total_offset' = total_offset
    BY <1>2, <1>b DEF SendChunk, WindowTypeOK
  <2>3. BufEmit
    BY <1>2 DEF SendChunk
  <2> QED
    BY <2>1, <2>2, <2>3, <1>a, <1>c DEF WindowTypeOK
<1>3. CASE SendDone
  <2>1. BufEmit /\ open' = FALSE
    BY <1>3 DEF SendDone
  <2>2. total_offset' = total_offset /\ emitted' = emitted
    BY <1>3 DEF SendDone
  <2> QED
    BY <2>1, <2>2, <1>a, <1>c, Zenon DEF WindowTypeOK
<1>4. ASSUME NEW o \in emitted, Settle(o) PROVE WindowInv'
  <2>1. BufAckAndDrop({o})
    BY <1>4 DEF Settle
  <2>2. BufOK'
    BY <2>1, BufAckAndDropKeepsOK
  <2>3. UNCHANGED <<pos, len, max_data, sent, total_offset, open, emitted>>
    BY <1>4 DEF Settle, BufAckAndDrop
  <2> QED
    BY <1>a, <2>2, <2>3 DEF WindowTypeOK
<1>5. CASE UNCHANGED windowVars
  BY <1>5 DEF windowVars, WindowTypeOK, BufOK, Offsets, Apart
<1> QED
  BY <1>1, <1>2, <1>3, <1>4, <1>5 DEF WindowNext

\* The send buffer's inductive invariant always holds.
THEOREM WindowInvariant == WindowSpec => []WindowInv
BY WindowInitInv, WindowNextInv, PTL DEF WindowSpec

\* Every variable of the send buffer keeps its type.
THEOREM WindowTypeCorrect ==
    WindowSpec => []WindowTypeOK
<1>1. WindowInv => WindowTypeOK
  BY DEF WindowInv
<1> QED
  BY <1>1, WindowInvariant, PTL

\* recv_and_drop, which pairs chunks and flags by position, keeps exactly
\* the chunks whose own flag says that they are still wanted.
THEOREM DropsAreExact ==
    WindowSpec => []DropsExactlySettled
<1>1. WindowInv => DropsExactlySettled
  <2> SUFFICES ASSUME WindowInv PROVE DropsExactlySettled
    OBVIOUS
  <2>1. BufOK
    BY DEF WindowInv
  <2>2. \A b \in data : b.off \in DOMAIN offset_recv
    BY <2>1 DEF BufOK, Offsets
  <2> QED
    BY <2>1, <2>2, KeptIsWanted DEF DropsExactlySettled
<1> QED
  BY <1>1, WindowInvariant, PTL

\* No byte of the stream is buffered twice.
THEOREM ChunksNeverOverlap ==
    WindowSpec => []ChunksDisjoint
<1>1. WindowInv => ChunksDisjoint
  BY DEF WindowInv, BufOK, ChunksDisjoint, Apart
<1> QED
  BY <1>1, WindowInvariant, PTL
-----------------------------------------------------------------------------
(***************************************************************************)
(* Block boundaries and the count of unsent bytes.                         *)
(***************************************************************************)
\* Besides the two properties: the connection and its buffer count the same
\* bytes, so that what is missing to a boundary is right for the buffer.
BlockInv == off = total_offset /\ WithinOneBlock /\ LenCoversUnsent

Unsent == {b \in data : Index(b) >= pos}

\* write counts what it keeps and what it takes.
LEMMA SendAllBlocks ==
    ASSUME WindowInv, BlockInv, NEW w \in Windows, SendAll(w)
    PROVE  BlockInv'
<1> DEFINE n == DataLen - total_offset
           m == Accepted(n, w)
           new == NewChunks(m, OffLen)
<1>1. /\ n \in Nat /\ w \in Nat /\ OffLen \in Nat /\ off \in Nat
      /\ off = total_offset
  BY WindowAssumption, OffLenType DEF WindowInv, WindowTypeOK, BlockInv
<1>2. m \in Nat
  BY <1>1, AcceptedType DEF WindowInv
<1>3. /\ data' = Kept \cup new /\ off' = off + m
      /\ len' = BytesIn(Kept) + m /\ total_offset' = total_offset + m
  BY DEF SendAll, BufWrite
<1>4. Kept \in SUBSET data /\ Kept \in SUBSET Chunk /\ IsFiniteSet(Kept)
  <2>1. Kept \in SUBSET data
    BY DEF Kept
  <2> QED
    BY <2>1, FS_Subset DEF WindowInv, BufOK
<1>5. new \in SUBSET Chunk /\ IsFiniteSet(new) /\ BytesIn(new) = m
  BY <1>1, <1>2, NewChunksShape, NewChunksCover
<1>6. \A b \in new : b.off \div SEND_BUFFER_SIZE
                         = (b.off + b.len - 1) \div SEND_BUFFER_SIZE
  BY <1>1, <1>2, NewChunksInBlock DEF OffLen
<1> HIDE DEF m, n, new
<1>7. WithinOneBlock'
  BY <1>3, <1>4, <1>6 DEF BlockInv, WithinOneBlock
<1>8. off' = total_offset'
  BY <1>1, <1>3
<1>9. BytesIn(Unsent') <= len'
  <2>1. Unsent' \in SUBSET (Kept \cup new)
    BY <1>3 DEF Unsent
  <2>2. Kept \cup new \in SUBSET Chunk /\ IsFiniteSet(Kept \cup new)
    BY <1>4, <1>5, FS_Union, Zenon
  <2>3. BytesIn(Unsent') <= BytesIn(Kept \cup new)
    BY <2>1, <2>2, BytesInSubset
  <2>4. BytesIn(Kept \cup new) <= BytesIn(Kept) + BytesIn(new)
    BY <1>4, <1>5, BytesInUnion
  <2>5. /\ BytesIn(Kept) \in Nat /\ BytesIn(new) \in Nat
        /\ BytesIn(Kept \cup new) \in Nat
    BY <1>4, <1>5, <2>2, BytesInType
  <2>6. BytesIn(Unsent') \in Nat
    <3>1. Unsent' \in SUBSET Chunk /\ IsFiniteSet(Unsent')
      BY <2>1, <2>2, FS_Subset
    <3> QED
      BY <3>1, BytesInType
  <2> QED
    BY <1>2, <1>3, <1>5, <2>3, <2>4, <2>5, <2>6
<1> QED
  BY <1>7, <1>8, <1>9 DEF BlockInv, LenCoversUnsent, Unsent

\* emit subtracts the bytes of a chunk that was counted.
LEMMA SendChunkBlocks ==
    ASSUME WindowInv, BlockInv, SendChunk
    PROVE  BlockInv'
<1>1. BufEmit /\ UNCHANGED <<data, off, total_offset>>
  BY DEF SendChunk, BufEmit
<1>2. off' = total_offset' /\ WithinOneBlock'
  BY <1>1 DEF BlockInv, WithinOneBlock
<1>3. CASE EmitStop
  BY <1>2, <1>3, Zenon DEF SendChunk, BlockInv, LenCoversUnsent
<1>4. CASE ~EmitStop
  <2>1. off \in Nat /\ total_offset \in Nat /\ off = total_offset /\ pos \in Nat
    BY DEF WindowInv, WindowTypeOK, BlockInv
  <2>2. Front # {}
    BY <2>1 DEF SendChunk, OffFront
  <2> DEFINE b == CHOOSE c \in Front : TRUE
  <2>3. b \in data /\ Index(b) = pos
    BY <2>2 DEF Front
  <2>4. pos' = pos + 1 /\ len' = len - EmitLen /\ EmitLen = Smaller(b.len, OUT_LEN)
    BY <1>1, <1>4, <2>2 DEF BufEmit, NextPos, EmitLen
  <2> HIDE DEF b
  <2>5. b \in Chunk /\ b.len \in Nat /\ EmitLen \in Nat /\ EmitLen <= b.len
    BY <2>3, <2>4, SizeAssumption DEF WindowInv, BufOK, Chunk, Smaller
  <2>6. \A c \in data : Index(c) \in Nat
    <3> SUFFICES ASSUME NEW c \in data PROVE Index(c) \in Nat
      OBVIOUS
    <3>1. {d \in data : d.off < c.off} \in SUBSET data
      OBVIOUS
    <3> QED
      BY <3>1, FS_Subset, FS_CardinalityType DEF Index, WindowInv, BufOK
  <2>7. Unsent' = {c \in data : Index(c) >= pos + 1}
    BY <1>1, <2>4 DEF Unsent, Index
  <2>8. Unsent' \in SUBSET Unsent /\ b \in Unsent /\ b \notin Unsent'
    BY <2>1, <2>3, <2>6, <2>7 DEF Unsent
  <2>9. Unsent \in SUBSET Chunk /\ IsFiniteSet(Unsent)
    <3>1. Unsent \in SUBSET data
      BY DEF Unsent
    <3> QED
      BY <3>1, FS_Subset DEF WindowInv, BufOK
  <2>10. \A c \in Unsent' : Apart(b, c)
    BY <2>3, <2>7, <2>8 DEF WindowInv, BufOK
  <2>11. BytesIn(Unsent') + b.len <= BytesIn(Unsent)
    BY <2>8, <2>9, <2>10, BytesInWithout
  <2>12. BytesIn(Unsent) <= len /\ len \in Int
    BY DEF SendChunk, BlockInv, LenCoversUnsent, Unsent, WindowInv, WindowTypeOK
  <2>13. BytesIn(Unsent) \in Nat /\ BytesIn(Unsent') \in Nat
    <3>1. IsFiniteSet(Unsent') /\ Unsent' \in SUBSET Chunk
      BY <2>8, <2>9, FS_Subset
    <3> QED
      BY <2>9, <3>1, BytesInType
  <2>14. BytesIn(Unsent') <= len'
    BY <2>4, <2>5, <2>11, <2>12, <2>13
  <2> QED
    BY <1>2, <2>14 DEF BlockInv, LenCoversUnsent, Unsent
<1> QED
  BY <1>3, <1>4

\* Chunks respect block boundaries, and len the unsent bytes, in every
\* reachable state.
THEOREM BlockInvariant == WindowSpec => []BlockInv
<1>1. WindowInit => BlockInv
  BY DEF WindowInit, SendBufInit, BlockInv, WithinOneBlock, LenCoversUnsent
<1>2. WindowInv /\ BlockInv /\ [WindowNext]_windowVars => BlockInv'
  <2> SUFFICES ASSUME WindowInv, BlockInv, [WindowNext]_windowVars
               PROVE  BlockInv'
    OBVIOUS
  <2>1. CASE SendDone
    BY <2>1 DEF SendDone, BufEmit, BlockInv, WithinOneBlock, LenCoversUnsent
  <2>2. CASE \E o \in emitted : Settle(o)
    BY <2>2 DEF Settle, BufAckAndDrop, BlockInv, WithinOneBlock,
                LenCoversUnsent, BytesIn, Index
  <2>3. CASE UNCHANGED windowVars
    BY <2>3 DEF windowVars, BlockInv, WithinOneBlock, LenCoversUnsent,
                BytesIn, Index
  <2> QED
    BY <2>1, <2>2, <2>3, SendAllBlocks, SendChunkBlocks DEF WindowNext
<1> QED
  BY <1>1, <1>2, WindowInvariant, PTL DEF WindowSpec

\* No chunk crosses a block boundary: its priority is that of all its bytes.
THEOREM ChunksKeepToBlocks == WindowSpec => []WithinOneBlock
<1>1. BlockInv => WithinOneBlock
  BY DEF BlockInv
<1> QED
  BY <1>1, BlockInvariant, PTL

\* emit's subtraction from len cannot underflow while a window is open.
THEOREM LenNeverShort == WindowSpec => []LenCoversUnsent
<1>1. BlockInv => LenCoversUnsent
  BY DEF BlockInv
<1> QED
  BY <1>1, BlockInvariant, PTL

-----------------------------------------------------------------------------
(***************************************************************************)
(* How a window ends when the application sees it through.                 *)
(***************************************************************************)
\* No chunk is longer than a block, so emit sends it whole.
ShortChunks == \A b \in data : b.len <= SEND_BUFFER_SIZE

\* The inductive invariant: while the window is open len is exact, and pos is
\* the place of a chunk unless there is none.
DrainInv ==
    /\ ShortChunks
    /\ open => /\ len = BytesIn(Unsent)
               /\ pos = 0 \/ pos < Cardinality(data)
    /\ WindowDrained

\* The chunks of the queue and their places.
LEMMA Places ==
    ASSUME WindowInv
    PROVE  /\ Cardinality(data) \in Nat /\ pos \in Nat
           /\ \A b \in data : Index(b) \in Nat /\ Index(b) < Cardinality(data)
           /\ \A b, c \in data : Index(b) = Index(c) => b = c
           /\ \A i \in 0 .. (Cardinality(data) - 1) :
                  \E b \in data : Index(b) = i
           /\ Unsent \in SUBSET Chunk /\ IsFiniteSet(Unsent)
<1>1. Unsent \in SUBSET data
  BY DEF Unsent
<1>2. Unsent \in SUBSET Chunk /\ IsFiniteSet(Unsent)
  BY <1>1, FS_Subset DEF WindowInv, BufOK
<1>3. data \subseteq Chunk /\ IsFiniteSet(data)
      /\ \A b, c \in data : b # c => Apart(b, c)
  BY DEF WindowInv, BufOK
<1>4. pos \in Nat /\ Cardinality(data) \in Nat
  BY <1>3, FS_CardinalityType DEF WindowInv, WindowTypeOK
<1> QED
  BY <1>2, <1>3, <1>4, IndexOfChunk

\* write starts a window at the front, and len counts the whole queue.
LEMMA SendAllDrains ==
    ASSUME Interrupt = FALSE, WindowInv, BlockInv, DrainInv,
           NEW w \in Windows, SendAll(w), WindowInv'
    PROVE  DrainInv'
<1> DEFINE n == DataLen - total_offset
           m == Accepted(n, w)
           new == NewChunks(m, OffLen)
<1>1. /\ n \in Nat /\ w \in Nat /\ OffLen \in Nat /\ off \in Nat
  BY WindowAssumption, OffLenType DEF WindowInv, WindowTypeOK
<1>2. m \in Nat
  BY <1>1, AcceptedType DEF WindowInv
<1>3. /\ data' = Kept \cup new /\ len' = BytesIn(Kept) + m
      /\ pos' = 0 /\ open' = TRUE
  BY DEF SendAll, BufWrite, DrainInv, WindowDrained
<1>4. Kept \in SUBSET data /\ Kept \in SUBSET Chunk /\ IsFiniteSet(Kept)
  <2>1. Kept \in SUBSET data
    BY DEF Kept
  <2> QED
    BY <2>1, FS_Subset DEF WindowInv, BufOK
<1>5. /\ new \in SUBSET Chunk /\ IsFiniteSet(new) /\ BytesIn(new) = m
      /\ \A b \in new : off <= b.off
  BY <1>1, <1>2, NewChunksShape, NewChunksCover
<1>6. \A b \in new : b.len <= SEND_BUFFER_SIZE
  <2>1. OffLen <= SEND_BUFFER_SIZE
    <3>1. total_offset % SEND_BUFFER_SIZE \in Nat
      BY SizeAssumption DEF WindowInv, WindowTypeOK
    <3> QED
      BY <3>1, SizeAssumption DEF OffLen
  <2> HIDE DEF m, n
  <2> QED
    BY <1>1, <1>2, <2>1, SizeAssumption DEF NewChunks, Smaller
<1> HIDE DEF m, n, new
<1>7. ShortChunks'
  BY <1>3, <1>4, <1>6 DEF DrainInv, ShortChunks
<1>8. \A b \in Kept : \A c \in new : Apart(b, c)
  <2> SUFFICES ASSUME NEW b \in Kept, NEW c \in new PROVE Apart(b, c)
    OBVIOUS
  <2>1. b \in data /\ b \in Chunk /\ c \in Chunk /\ off <= c.off
    BY <1>4, <1>5
  <2>2. b.off + b.len <= off
    BY <2>1 DEF WindowInv, BufOK
  <2> QED
    BY <1>1, <2>1, <2>2 DEF Apart, Chunk
<1>9. BytesIn(Kept \cup new) = BytesIn(Kept) + BytesIn(new)
  BY <1>4, <1>5, <1>8, BytesInApart
<1>10. Unsent' = data'
  <2>1. IsFiniteSet(data')
    BY DEF WindowInv, BufOK
  <2>2. ASSUME NEW b \in data'
        PROVE  Cardinality({c \in data' : c.off < b.off}) \in Nat
    <3>1. {c \in data' : c.off < b.off} \in SUBSET data'
      OBVIOUS
    <3> QED
      BY <2>1, <3>1, FS_Subset, FS_CardinalityType
  <2> QED
    BY <1>3, <2>2 DEF Unsent, Index
<1>11. len' = BytesIn(Unsent')
  BY <1>3, <1>5, <1>9, <1>10
<1> QED
  BY <1>3, <1>7, <1>11 DEF DrainInv, WindowDrained, BytesIn

\* emit takes the chunk at pos out of the count; the window ends at the last
\* chunk or when the congestion window is used up.
LEMMA SendChunkDrains ==
    ASSUME WindowInv, BlockInv, DrainInv, SendChunk
    PROVE  DrainInv'
<1>1. BufEmit /\ UNCHANGED <<data, off, total_offset, max_data>>
      /\ open' = ~EmitStop /\ open
  BY DEF SendChunk, BufEmit
<1>2. off \in Nat /\ total_offset = off
  BY DEF WindowInv, WindowTypeOK, BlockInv
<1>3. Front # {}
  BY <1>2 DEF SendChunk, OffFront
<1> DEFINE b == CHOOSE c \in Front : TRUE
<1>4. b \in data /\ Index(b) = pos
  BY <1>3 DEF Front
<1>5. /\ EmitLen = Smaller(b.len, OUT_LEN) /\ NextPos = pos + 1
      /\ len' = len - EmitLen /\ sent' = sent + EmitLen
      /\ pos' = IF EmitStop THEN 0 ELSE pos + 1
  BY <1>1, <1>3 DEF EmitLen, NextPos, BufEmit
<1> HIDE DEF b
<1>6. b \in Chunk /\ b.len \in Nat \ {0} /\ EmitLen = b.len
  BY <1>4, <1>5, SizeAssumption
     DEF WindowInv, BufOK, Chunk, DrainInv, ShortChunks, Smaller
<1> DEFINE later == {c \in data : Index(c) >= pos + 1}
<1>7. Unsent = {b} \cup later
  BY <1>4, Places DEF Unsent
<1>8. later \in SUBSET Chunk /\ IsFiniteSet(later)
  <2>1. later \in SUBSET data
    OBVIOUS
  <2> HIDE DEF later
  <2> QED
    BY <2>1, FS_Subset DEF WindowInv, BufOK
<1>9. \A c \in later : Apart(b, c)
  <2> SUFFICES ASSUME NEW c \in later PROVE Apart(b, c)
    OBVIOUS
  <2>1. c \in data /\ c # b
    BY <1>4, Places
  <2> QED
    BY <1>4, <2>1 DEF WindowInv, BufOK
<1>10. BytesIn(Unsent) = b.len + BytesIn(later)
  <2> HIDE DEF later
  <2>1. {b} \in SUBSET Chunk /\ IsFiniteSet({b})
    BY <1>6, FS_Singleton, Zenon
  <2>2. BytesIn({b} \cup later) = BytesIn({b}) + BytesIn(later)
    BY <1>8, <1>9, <2>1, BytesInApart
  <2> QED
    BY <1>6, <1>7, <2>2, BytesInOne
<1>11. BytesIn(later) \in Nat
  <2> HIDE DEF later
  <2> QED
    BY <1>8, BytesInType
<1>12. len' = BytesIn(later)
  BY <1>1, <1>5, <1>6, <1>10, <1>11 DEF DrainInv
<1>13. ShortChunks'
  BY <1>1 DEF DrainInv, ShortChunks
<1>14. CASE ~EmitStop
  <2>1. pos' = pos + 1 /\ data' = data
    BY <1>1, <1>5, <1>14
  <2>2. Unsent' = later
    BY <2>1 DEF Unsent, Index
  <2>3. len' = BytesIn(Unsent)'
    BY <1>12, <2>2 DEF BytesIn
  <2>4. pos + 1 # Cardinality(data)
    BY <1>5, <1>14 DEF EmitStop
  <2>5. pos + 1 < Cardinality(data)
    BY <1>4, <2>4, Places
  <2> QED
    BY <1>1, <1>13, <1>14, <2>1, <2>3, <2>5, Zenon DEF DrainInv, WindowDrained
<1>15. CASE EmitStop
  <2>1. pos' = 0 /\ open' = FALSE
    BY <1>1, <1>5, <1>15, Zenon
  <2>2. CASE sent + EmitLen >= max_data
    BY <1>1, <1>5, <1>13, <2>1, <2>2 DEF DrainInv, WindowDrained
  <2>3. CASE NextPos = Cardinality(data)
    <3>1. later = {}
      BY <1>5, <2>3, Places
    <3>2. BytesIn(later) = 0
      BY <3>1, FS_EmptySet DEF BytesIn, ByteSet
    <3> QED
      BY <1>12, <1>13, <2>1, <3>2 DEF DrainInv, WindowDrained
  <2> QED
    BY <1>15, <2>2, <2>3 DEF EmitStop
<1> QED
  BY <1>14, <1>15

\* send_data finds no chunk only when the queue is empty.
LEMMA SendDoneDrains ==
    ASSUME WindowInv, BlockInv, DrainInv, SendDone
    PROVE  DrainInv'
<1>1. BufEmit /\ open /\ open' = FALSE /\ OffFront >= total_offset
  BY DEF SendDone
<1>2. off \in Nat /\ total_offset = off
  BY DEF WindowInv, WindowTypeOK, BlockInv
<1>3. Front = {}
  <2> SUFFICES ASSUME Front # {} PROVE FALSE
    OBVIOUS
  <2> DEFINE b == CHOOSE c \in Front : TRUE
  <2>1. b \in data /\ OffFront = b.off
    BY DEF Front, OffFront
  <2> HIDE DEF b
  <2>2. b.off \in Nat /\ b.len \in Nat \ {0} /\ b.off + b.len <= off
    BY <2>1 DEF WindowInv, BufOK, Chunk
  <2> QED
    BY <1>1, <1>2, <2>1, <2>2
<1>4. data = {} /\ pos = 0
  <2>1. \A b \in data : Index(b) # pos
    BY <1>3 DEF Front
  <2>2. ~(pos < Cardinality(data))
    BY <2>1, Places
  <2>3. pos = 0
    BY <1>1, <2>2 DEF DrainInv
  <2>4. Cardinality(data) = 0
    BY <2>2, <2>3, Places
  <2> QED
    BY <2>3, <2>4, FS_EmptySet DEF WindowInv, BufOK
<1>5. len = 0
  <2>1. Unsent = {}
    BY <1>4 DEF Unsent
  <2> QED
    BY <1>1, <2>1, FS_EmptySet DEF DrainInv, BytesIn, ByteSet
<1>6. pos' = 0 /\ len' = 0 /\ data' = data
  BY <1>1, <1>3, <1>4, <1>5 DEF BufEmit, NextPos
<1> QED
  BY <1>1, <1>6 DEF DrainInv, ShortChunks, WindowDrained

\* An application that sends until send_data says that the window is over
\* leaves the buffer at its front, and either all of it was sent or the
\* congestion window is used up.
THEOREM WindowsDrain ==
    ASSUME Interrupt = FALSE
    PROVE  WindowSpec => []WindowDrained
<1>1. WindowInit => DrainInv
  BY DEF WindowInit, SendBufInit, DrainInv, ShortChunks, WindowDrained
<1>2. WindowInv /\ WindowInv' /\ BlockInv /\ DrainInv
      /\ [WindowNext]_windowVars => DrainInv'
  <2> SUFFICES ASSUME WindowInv, WindowInv', BlockInv, DrainInv,
                      [WindowNext]_windowVars
               PROVE  DrainInv'
    OBVIOUS
  <2>1. ASSUME UNCHANGED <<data, pos, len, max_data, sent, open>>
        PROVE  DrainInv'
    BY <2>1 DEF DrainInv, ShortChunks, WindowDrained, Unsent, BytesIn, Index
  <2>2. CASE \E o \in emitted : Settle(o)
    BY <2>1, <2>2 DEF Settle, BufAckAndDrop
  <2>3. CASE UNCHANGED windowVars
    BY <2>1, <2>3 DEF windowVars
  <2> QED
    BY <2>2, <2>3, SendAllDrains, SendChunkDrains, SendDoneDrains, Zenon
       DEF WindowNext
<1>3. DrainInv => WindowDrained
  BY DEF DrainInv
<1> QED
  BY <1>1, <1>2, <1>3, WindowInvariant, BlockInvariant, PTL DEF WindowSpec
-----------------------------------------------------------------------------
\* A window change is a fraction of integers with a positive denominator.
LEMMA WinAddsType ==
    ASSUME NEW v \in Nat, NEW a \in WinAdds(v)
    PROVE  a[1] \in Int /\ a[2] \in Nat \ {0}
<1>1. Outer(v) \in Int /\ Inner(v) \in Int
  BY RecoveryAssumption DEF Outer, Inner
<1>2. OuterDen \in Nat \ {0} /\ InnerDen \in Nat \ {0}
  BY DEF OuterDen, InnerDen
<1> QED
  BY <1>1, <1>2 DEF WinAdds

\* The windows of Recovery are natural numbers, and the floor is positive.
LEMMA IniWinType == INI_WIN \in Nat \ {0}
<1>1. \A x, y \in Nat \ {0} : x * y \in Nat \ {0}
  OBVIOUS
<1> QED
  BY <1>1, RecoveryAssumption DEF INI_WIN

\* The report's weight and number of entries are natural numbers.
LEMMA ReportType ==
    ASSUME NEW rep \in Reports
    PROVE  Weight(rep) \in Nat /\ Entries(rep) \in Nat /\ rep.lost3 \in Nat
BY CongestionAssumption DEF Weight, Entries

\* The quotients that update_win adds are natural numbers.
LEMMA QuotientType ==
    ASSUME NEW x \in Nat, NEW d \in Nat \ {0}
    PROVE  x \div d \in Nat
OBVIOUS
-----------------------------------------------------------------------------
\* The strengthening that makes the safety invariants inductive.  The first
\* ACK raises roll_back_flag for good; before it nothing has grown and no
\* loss is known, so what cwnd() records is 0; the one recorded 0 can be
\* popped only after a loss, when nothing is recorded any more.
CongestionInv ==
    /\ CongestionTypeOK
    /\ OnlyZeroRecorded
    /\ WindowZeroOrInitial
    /\ incre_win > 0 => roll_back_flag
    /\ high_priority > 0 => roll_back_flag
    /\ \/ zero_windows = 0
       \/ zero_windows = 1 /\ roll_back_flag /\ former_win_vecter = {}

\* A new connection's congestion control satisfies the invariant.
LEMMA CongestionInitInv == CongestionInit => CongestionInv
<1>1. \A x, y, z \in Nat : x >= y => x * z >= y * z
  OBVIOUS
<1>2. MAX_SEND_UDP_PAYLOAD_SIZE * INITIAL_WINDOW_PACKETS >= INI_WIN
  BY <1>1, RecoveryAssumption DEF INI_WIN
<1>3. MAX_SEND_UDP_PAYLOAD_SIZE * INITIAL_WINDOW_PACKETS \in Nat
  BY RecoveryAssumption
<1> SUFFICES ASSUME CongestionInit PROVE CongestionInv
  OBVIOUS
<1> USE DEF CongestionInit, RecoveryInit
<1>4. CongestionTypeOK
  <2>1. roll_back_flag \in BOOLEAN
    BY Zenon
  <2> QED
    BY <1>3, <2>1 DEF CongestionTypeOK
<1>5. OnlyZeroRecorded /\ WindowZeroOrInitial
  BY <1>2 DEF OnlyZeroRecorded, WindowZeroOrInitial
<1>6. ~(incre_win > 0) /\ ~(high_priority > 0) /\ zero_windows = 0
  OBVIOUS
<1> QED
  BY <1>4, <1>5, <1>6, Zenon DEF CongestionInv

\* Sending, an ACK (update_win) and write (cwnd, rollback) preserve it.
LEMMA CongestionNextInv ==
    CongestionInv /\ [CongestionNext]_congestionVars => CongestionInv'
<1> SUFFICES ASSUME CongestionInv, [CongestionNext]_congestionVars
             PROVE  CongestionInv'
  OBVIOUS
<1> USE DEF CongestionInv, CongestionTypeOK, OnlyZeroRecorded,
            WindowZeroOrInitial
<1>1. ASSUME NEW n \in Bursts, Sent(n) PROVE CongestionInv'
  BY <1>1, CongestionAssumption DEF Sent
<1>2. ASSUME NEW rep \in Reports, Ack(rep) PROVE CongestionInv'
  <2>1. PICK a \in WinAdds(Weight(rep)) :
          /\ roll_back_flag' = (roll_back_flag \/ a[1] # Entries(rep) * a[2])
          /\ IF a[1] > 0
               THEN /\ incre_win' = incre_win + a[1] \div a[2]
                    /\ UNCHANGED decre_win
               ELSE /\ decre_win' = decre_win + (-a[1]) \div a[2]
                    /\ UNCHANGED incre_win
          /\ UNCHANGED <<congestion_window, former_win_vecter>>
    BY <1>2 DEF Ack, UpdateWin
  <2>2. roll_back_flag' = TRUE
    BY <2>1, NeverExact, Zenon
  <2>3. a[1] \in Int /\ a[2] \in Nat \ {0}
    BY ReportType, WinAddsType
  <2>4. incre_win' \in Nat /\ decre_win' \in Nat
    <3>1. CASE a[1] > 0
      BY <3>1, <2>1, <2>3, QuotientType
    <3>2. CASE ~(a[1] > 0)
      <4>1. -a[1] \in Nat
        BY <3>2, <2>3
      <4> QED
        BY <3>2, <4>1, <2>1, <2>3, QuotientType
    <3> QED
      BY <3>1, <3>2
  <2> QED
    BY <1>2, <2>1, <2>2, <2>4, ReportType DEF Ack
<1>3. CASE Write
  <2>1. CASE HighRatio
    <3>1. roll_back_flag
      BY <2>1 DEF HighRatio
    <3>2. CASE former_win_vecter = {}
      BY <1>3, <2>1, <3>1, <3>2, IniWinType
         DEF Write, Rollback, RolledBackWin
    <3>3. CASE former_win_vecter = {0}
      <4>1. RolledBackWin = 0
        BY <3>3 DEF RolledBackWin
      <4> QED
        BY <1>3, <2>1, <3>1, <3>3, <4>1 DEF Write, Rollback
    <3> QED
      BY <3>2, <3>3, Zenon
  <2>2. CASE ~HighRatio
    <3>1. TmpWin \in Nat
      BY DEF TmpWin
    <3>2. FlooredWin \in Nat /\ FlooredWin >= INI_WIN /\ FlooredWin # 0
      BY <3>1, IniWinType DEF FlooredWin
    <3>3. ~roll_back_flag => TmpWin = 0
      BY DEF TmpWin
    <3>4. /\ congestion_window' = FlooredWin
          /\ incre_win' = 0 /\ decre_win' = 0
          /\ high_priority' = 0 /\ sent_number' = 0
          /\ zero_windows' = zero_windows
          /\ roll_back_flag' = roll_back_flag
      BY <1>3, <2>2, <3>2, Zenon DEF Write, Cwnd
    <3>5. /\ roll_back_flag => former_win_vecter' = former_win_vecter
          /\ former_win_vecter' \subseteq {0}
      BY <1>3, <2>2, <3>3, Zenon DEF Write, Cwnd
    <3>6. \/ zero_windows' = 0
          \/ zero_windows' = 1 /\ roll_back_flag' /\ former_win_vecter' = {}
      BY <3>4, <3>5
    <3> QED
      BY <3>2, <3>4, <3>5, <3>6
  <2> QED
    BY <2>1, <2>2
<1>4. CASE UNCHANGED congestionVars
  BY <1>4 DEF congestionVars
<1> QED
  BY <1>1, <1>2, <1>3, <1>4 DEF CongestionNext

\* The congestion control's inductive invariant always holds.
THEOREM CongestionInvariant == CongestionSpec => []CongestionInv
BY CongestionInitInv, CongestionNextInv, PTL DEF CongestionSpec

\* Every variable of the congestion control keeps its type.
THEOREM CongestionTypeCorrect == CongestionSpec => []CongestionTypeOK
<1>1. CongestionInv => CongestionTypeOK
  BY DEF CongestionInv
<1> QED
  BY <1>1, CongestionInvariant, PTL

\* rollback can never return to a window that had grown: all cwnd() ever
\* records is 0.
THEOREM OnlyZeroIsRecorded == CongestionSpec => []OnlyZeroRecorded
<1>1. CongestionInv => OnlyZeroRecorded
  BY DEF CongestionInv
<1> QED
  BY <1>1, CongestionInvariant, PTL

\* The window given to the send buffer is 0 or at least the initial window.
THEOREM WindowIsZeroOrInitial == CongestionSpec => []WindowZeroOrInitial
<1>1. CongestionInv => WindowZeroOrInitial
  BY DEF CongestionInv
<1> QED
  BY <1>1, CongestionInvariant, PTL

\* The send buffer is given a window of 0 at most once per connection.
THEOREM ZeroWindowAtMostOnce == CongestionSpec => []AtMostOneZeroWindow
<1>1. CongestionInv => AtMostOneZeroWindow
  BY DEF CongestionInv, AtMostOneZeroWindow
<1> QED
  BY <1>1, CongestionInvariant, PTL
=============================================================================
