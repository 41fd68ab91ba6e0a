--------------------------- MODULE SessionProofs ---------------------------
(***************************************************************************)
(* Proofs about a Connection that sends several data sets, one after the   *)
(* other, for every chunk size, every window and every number of data      *)
(* sets.                                                                   *)
(*                                                                         *)
(* After a reset the flags of dropped chunks stay in the map, so BufOK,    *)
(* the exact pairing of chunks and flags, does not hold here.  What does   *)
(* is QueueOK and FlagsBelow.                                              *)
(***************************************************************************)
EXTENDS Session, SendBufProofs

\* The chunks are well formed, apart and below off.
QueueOK ==
    /\ data \subseteq Chunk
    /\ IsFiniteSet(data)
    /\ off \in Nat
    /\ \A b, c \in data : b # c => Apart(b, c)
    /\ \A b \in data : b.off + b.len <= off
    /\ DOMAIN offset_recv \subseteq Nat
    /\ IsFiniteSet(DOMAIN offset_recv)
    /\ \A k \in DOMAIN offset_recv : offset_recv[k] \in BOOLEAN

FlagsUnder(o) == {k \in DOMAIN offset_recv : k < o}

\* There are as many flags below off as chunks.  Stale flags at or above off
\* do not count: a new chunk may take them over.
FlagsBelow == Cardinality(data) <= Cardinality(FlagsUnder(off))

SessionType ==
    /\ QueueOK
    /\ written \in Nat /\ send_len \in Nat /\ norms \in Nat
    /\ reading \in {"no", "yes", "panicked"}
    /\ open \in BOOLEAN /\ hasty \in BOOLEAN /\ stale \in BOOLEAN
    /\ was_reset \in BOOLEAN /\ ragged \in BOOLEAN
    /\ status \in {"running", "panicked"}
    /\ reading # "no" => ~open

\* Without reset, offsets grow through all data sets.
EpochInv ==
    ~hasty /\ ~was_reset =>
        /\ off = written
        /\ current \subseteq Nat /\ earlier \subseteq Nat
        /\ \A o \in current \cup earlier : o < off
        /\ \A e \in earlier : /\ \A b \in data : e < b.off
                              /\ \A o \in current : e < o

\* Every text consists of whole arrays.
WholeGroups == \A text \in Inputs : WholeArrays(text)

\* Norms that cover the whole of send_data.
NormsCover == send_len <= norms * SEND_BUFFER_SIZE

\* The parts left are whole arrays.  While an array is being read, the floats
\* of all groups begun so far but one have a norm.
InputInv ==
    /\ parts \in Seq(Nat \cup {EmptyPart})
    /\ WholeArrays(parts)
    /\ it \in Nat
    /\ reading = "yes" =>
           /\ parts # <<>> => it = 0 \/ it <= Head(parts)
           /\ parts = <<>> => it = 0
           /\ send_len + FLOAT * GROUP * ((it + 1) \div GROUP)
                  <= FLOAT * GROUP * norms + FLOAT * it

\* Until there is a norm, the first array is being read.
FirstNorm ==
    reading = "yes" =>
        \/ norms > 0
        \/ parts # <<>> /\ Head(parts) >= GROUP - 1 /\ it < GROUP - 1

\* With data left to send, the norms cover it.
OrderlyInv ==
    ~hasty /\ ~ragged =>
        /\ InputInv /\ FirstNorm
        /\ data # {} => written <= send_len /\ reading = "no"
        /\ reading = "no" => NormsCover \/ (was_reset /\ Finished)
        /\ open => written <= send_len /\ NormsCover
        /\ reading # "no" => current = {}
        /\ \A o \in current : o \in Nat /\ HasNorm(o)
        /\ status = "panicked" => stale /\ (was_reset \/ send_len < written)
-----------------------------------------------------------------------------
\* The flags below o that are still true.
WantedUnder(o) == {k \in FlagsUnder(o) : offset_recv[k]}

\* recv_and_drop keeps no more chunks than there are true flags below off: a
\* chunk is kept for the flag in its place, and no two share one.
LEMMA KeptHasFlags ==
    ASSUME QueueOK, FlagsBelow
    PROVE  Cardinality(Kept) <= Cardinality(WantedUnder(off))
<1> DEFINE flag(b) == CHOOSE k \in DOMAIN offset_recv :
                          KeyIndex(k) = Index(b) /\ offset_recv[k]
           f == [b \in Kept |-> flag(b)]
<1>0. /\ \A b \in data : Index(b) \in Nat /\ Index(b) < Cardinality(data)
      /\ \A b, c \in data : Index(b) = Index(c) => b = c
  BY IndexOfChunk DEF QueueOK
<1>1. \A b \in Kept : /\ b \in data
                      /\ flag(b) \in DOMAIN offset_recv
                      /\ KeyIndex(flag(b)) = Index(b)
                      /\ offset_recv[flag(b)]
  BY DEF Kept
<1>2. IsFiniteSet(FlagsUnder(off)) /\ IsFiniteSet(WantedUnder(off))
  <2>1. /\ FlagsUnder(off) \in SUBSET DOMAIN offset_recv
        /\ WantedUnder(off) \in SUBSET DOMAIN offset_recv
    BY DEF FlagsUnder, WantedUnder
  <2> QED
    BY <2>1, FS_Subset DEF QueueOK
<1>3. ASSUME NEW k \in DOMAIN offset_recv, KeyIndex(k) < Cardinality(data)
      PROVE  k < off
  <2> SUFFICES ASSUME k >= off PROVE FALSE
    BY DEF QueueOK
  <2> DEFINE under == {j \in DOMAIN offset_recv : j < k}
  <2>1. FlagsUnder(off) \in SUBSET under
    BY DEF QueueOK, FlagsUnder
  <2>2. under \in SUBSET DOMAIN offset_recv
    OBVIOUS
  <2>3. KeyIndex(k) = Cardinality(under)
    BY DEF KeyIndex
  <2> HIDE DEF under
  <2>4. IsFiniteSet(under)
    BY <2>2, FS_Subset DEF QueueOK
  <2>5. Cardinality(FlagsUnder(off)) <= Cardinality(under)
    BY <2>1, <2>4, FS_Subset
  <2>6. /\ Cardinality(FlagsUnder(off)) \in Nat /\ Cardinality(under) \in Nat
        /\ Cardinality(data) \in Nat
    BY <1>2, <2>4, FS_CardinalityType DEF QueueOK
  <2> QED
    BY <1>3, <2>3, <2>5, <2>6 DEF FlagsBelow
<1>4. \A b \in Kept : flag(b) \in WantedUnder(off)
  <2> SUFFICES ASSUME NEW b \in Kept PROVE flag(b) \in WantedUnder(off)
    OBVIOUS
  <2>1. KeyIndex(flag(b)) < Cardinality(data)
    BY <1>0, <1>1
  <2> HIDE DEF flag
  <2> QED
    BY <1>1, <1>3, <2>1 DEF WantedUnder, FlagsUnder
<1>5. \A b, c \in Kept : flag(b) = flag(c) => b = c
  <2> HIDE DEF flag
  <2> QED
    BY <1>0, <1>1, Zenon
<1> HIDE DEF flag
<1>6. f \in Injection(Kept, WantedUnder(off))
  BY <1>4, <1>5 DEF Injection, IsInjective
<1> HIDE DEF f
<1> QED
  BY <1>2, <1>6, FS_Injection DEF ExistsInjection

\* write takes no more than it is offered.
LEMMA SessionAccepted ==
    ASSUME QueueOK, NEW n \in Nat, NEW window \in Nat
    PROVE  Accepted(n, window) \in Nat /\ Accepted(n, window) <= n
<1>1. Kept \in SUBSET data
  BY DEF Kept
<1>2. IsFiniteSet(Kept) /\ Kept \in SUBSET Chunk
  BY <1>1, FS_Subset DEF QueueOK
<1>3. BytesIn(Kept) \in Nat
  BY <1>2, BytesInType
<1> QED
  BY <1>3 DEF Accepted, Smaller

\* write leaves the queue well formed, with a flag below off for every chunk.
LEMMA WriteKeepsQueue ==
    ASSUME QueueOK, FlagsBelow,
           NEW n \in Nat, NEW window \in Nat, NEW off_len \in Nat,
           BufWrite(n, window, off_len)
    PROVE  /\ QueueOK' /\ FlagsBelow'
           /\ off' = off + Accepted(n, window)
           /\ \A b \in data' : b \in data \/ off <= b.off
<1> DEFINE m == Accepted(n, window)
           new == NewChunks(m, off_len)
<1>1. m \in Nat
  BY SessionAccepted
<1>2. /\ data' = Kept \cup new
      /\ off' = off + m
      /\ offset_recv' = [k \in DOMAIN Wanted \cup Offsets(new) |->
                            IF k \in Offsets(new) THEN TRUE ELSE Wanted[k]]
  BY DEF BufWrite
<1> HIDE DEF m
<1>3. /\ new \subseteq Chunk
      /\ IsFiniteSet(new)
      /\ \A b \in new : off <= b.off /\ b.off + b.len <= off + m
      /\ \A b, c \in new : b # c => Apart(b, c)
  BY <1>1, NewChunksShape DEF QueueOK
<1> HIDE DEF new
<1>4. Kept \in SUBSET data /\ IsFiniteSet(Kept)
  <2>1. Kept \in SUBSET data
    BY DEF Kept
  <2> QED
    BY <2>1, FS_Subset DEF QueueOK
<1>5. /\ DOMAIN Wanted \in SUBSET DOMAIN offset_recv
      /\ \A k \in DOMAIN Wanted : Wanted[k] \in BOOLEAN
  BY Zenon DEF Wanted, QueueOK
<1>6. Offsets(new) \subseteq Nat
      /\ \A k \in Offsets(new) : off <= k /\ k < off + m
  BY <1>1, <1>3 DEF Offsets, Chunk, QueueOK
<1>7. IsFiniteSet(Offsets(new)) /\ Cardinality(Offsets(new)) = Cardinality(new)
  <2> DEFINE f == [b \in new |-> b.off]
  <2>1. f \in Surjection(new, Offsets(new))
    BY DEF Surjection, Offsets
  <2>2. \A b, c \in new : b.off = c.off => b = c
    BY <1>3 DEF Chunk, Apart
  <2>3. f \in Injection(new, Offsets(new))
    BY <2>2 DEF Injection, IsInjective, Offsets
  <2> HIDE DEF f
  <2> QED
    BY <1>3, <2>1, <2>3, FS_Surjection
<1>8. data' \subseteq Chunk /\ off' \in Nat /\ IsFiniteSet(data')
  <2>1. IsFiniteSet(Kept \cup new)
    BY <1>3, <1>4, FS_Union, Zenon
  <2>2. Kept \cup new \subseteq Chunk /\ off + m \in Nat
    BY <1>1, <1>3, <1>4 DEF QueueOK
  <2> QED
    BY <1>2, <2>1, <2>2
<1>9. \A b \in data' : b.off + b.len <= off'
  BY <1>1, <1>2, <1>3, <1>4 DEF QueueOK, Chunk
<1>10. \A b, c \in data' : b # c => Apart(b, c)
  BY <1>2, <1>3, <1>4 DEF QueueOK, Apart, Chunk
<1>11. DOMAIN offset_recv' = DOMAIN Wanted \cup Offsets(new)
  BY <1>2
<1>12. DOMAIN offset_recv' \subseteq Nat /\ IsFiniteSet(DOMAIN offset_recv')
  <2>1. IsFiniteSet(DOMAIN Wanted)
    BY <1>5, FS_Subset DEF QueueOK
  <2>2. IsFiniteSet(DOMAIN Wanted \cup Offsets(new))
    BY <1>7, <2>1, FS_Union, Zenon
  <2>3. DOMAIN Wanted \subseteq Nat
    BY <1>5 DEF QueueOK
  <2> QED
    BY <1>6, <1>11, <2>2, <2>3
<1>13. \A k \in DOMAIN offset_recv' : offset_recv'[k] \in BOOLEAN
  BY <1>2, <1>5, Zenon
<1>14. QueueOK'
  BY <1>8, <1>9, <1>10, <1>12, <1>13 DEF QueueOK, Apart
<1> DEFINE under == {k \in DOMAIN offset_recv' : k < off'}
           old == {k \in DOMAIN Wanted : k < off}
<1>15. IsFiniteSet(under) /\ IsFiniteSet(old)
  <2>1. under \in SUBSET DOMAIN offset_recv' /\ old \in SUBSET DOMAIN offset_recv
    BY <1>5
  <2> HIDE DEF under, old
  <2> QED
    BY <1>12, <2>1, FS_Subset DEF QueueOK
<1>16. Cardinality(Kept) <= Cardinality(old)
  <2>1. CASE data = {}
    <3>1. Kept = {}
      BY <2>1, <1>4
    <3> HIDE DEF old
    <3> QED
      BY <3>1, <1>15, FS_EmptySet, FS_CardinalityType
  <2>2. CASE data # {}
    <3>1. old = WantedUnder(off)
      BY <2>2 DEF Wanted, WantedUnder, FlagsUnder
    <3> QED
      BY <3>1, KeptHasFlags
  <2> QED
    BY <2>1, <2>2
<1>17. Cardinality(data') <= Cardinality(Kept) + Cardinality(new)
  <2>1. /\ Cardinality(Kept \cup new) = Cardinality(Kept) + Cardinality(new)
                                            - Cardinality(Kept \cap new)
        /\ IsFiniteSet(Kept \cap new)
    BY <1>3, <1>4, FS_Union, FS_Intersection, Zenon
  <2>2. /\ Cardinality(Kept) \in Nat /\ Cardinality(new) \in Nat
        /\ Cardinality(Kept \cap new) \in Nat
    BY <1>3, <1>4, <2>1, FS_CardinalityType
  <2> QED
    BY <1>2, <2>1, <2>2
<1>18. Cardinality(old) + Cardinality(new) <= Cardinality(under)
  <2>1. old \cup Offsets(new) \in SUBSET under
    BY <1>1, <1>2, <1>5, <1>6, <1>11 DEF QueueOK
  <2>2. old \cap Offsets(new) = {}
    BY <1>5, <1>6 DEF QueueOK
  <2> HIDE DEF old, under
  <2>3. Cardinality(old \cup Offsets(new)) <= Cardinality(under)
    BY <1>15, <2>1, FS_Subset
  <2>4. Cardinality(old \cup Offsets(new))
            = Cardinality(old) + Cardinality(Offsets(new)) - Cardinality({})
    BY <1>7, <1>15, <2>2, FS_Union
  <2>5. Cardinality({}) = 0 /\ Cardinality(old) \in Nat
        /\ Cardinality(new) \in Nat /\ Cardinality(under) \in Nat
    BY <1>3, <1>15, FS_EmptySet, FS_CardinalityType
  <2> QED
    BY <1>7, <2>3, <2>4, <2>5
<1>19. Cardinality(data') <= Cardinality(under)
  <2>1. /\ Cardinality(Kept) \in Nat /\ Cardinality(new) \in Nat
        /\ Cardinality(data') \in Nat /\ Cardinality(old) \in Nat
        /\ Cardinality(under) \in Nat
    BY <1>3, <1>4, <1>8, <1>15, FS_CardinalityType
  <2> HIDE DEF old, under
  <2> QED
    BY <1>16, <1>17, <1>18, <2>1
<1>20. FlagsBelow'
  BY <1>19 DEF FlagsBelow, FlagsUnder
<1> QED
  BY <1>2, <1>3, <1>4, <1>14, <1>20 DEF m

\* emit, ack_and_drop and clear leave the queue well formed, too.
LEMMA OthersKeepQueue ==
    ASSUME QueueOK, FlagsBelow,
           \/ BufEmit
           \/ \E S : BufAckAndDrop(S)
           \/ BufClear
    PROVE  QueueOK' /\ FlagsBelow'
<1>1. CASE BufEmit
  BY <1>1 DEF BufEmit, QueueOK, FlagsBelow, FlagsUnder, Apart
<1>2. CASE \E S : BufAckAndDrop(S)
  <2>1. PICK S : BufAckAndDrop(S)
    BY <1>2
  <2>2. data' = data /\ off' = off
    BY <2>1 DEF BufAckAndDrop
  <2>3. offset_recv' = [k \in DOMAIN offset_recv |->
                            offset_recv[k] /\ k \notin S]
    BY <2>1 DEF BufAckAndDrop
  <2>4. /\ DOMAIN offset_recv' = DOMAIN offset_recv
        /\ \A k \in DOMAIN offset_recv' : offset_recv'[k] \in BOOLEAN
    BY <2>3
  <2> QED
    BY <2>2, <2>4 DEF QueueOK, FlagsBelow, FlagsUnder, Apart
<1>3. CASE BufClear
  <2>1. data' = {} /\ off' = 0 /\ offset_recv' = offset_recv
    BY <1>3 DEF BufClear
  <2>2. QueueOK'
    BY <2>1, FS_EmptySet DEF QueueOK, Apart
  <2>3. FlagsUnder(off)' \in SUBSET DOMAIN offset_recv
    BY <2>1 DEF FlagsUnder
  <2>4. IsFiniteSet(FlagsUnder(off)')
    BY <2>3, FS_Subset DEF QueueOK
  <2>5. Cardinality(FlagsUnder(off)') \in Nat
    BY <2>4, FS_CardinalityType
  <2>6. Cardinality(data') = 0
    BY <2>1, FS_EmptySet
  <2> QED
    BY <2>2, <2>5, <2>6 DEF FlagsBelow
<1> QED
  BY <1>1, <1>2, <1>3

\* What write misses to the next block boundary is a natural number.
LEMMA OffLenInNat ==
    ASSUME written \in Nat
    PROVE  OffLen \in Nat
BY SizeAssumption DEF OffLen

\* What each action of Session does to the buffer.
LEMMA BufferSteps ==
    ASSUME SessionNext
    PROVE  \/ \E w \in Windows : SendAll(w)
           \/ BufEmit /\ (SendChunk \/ SendDone)
           \/ \E o \in earlier \cup current : Report(o) /\ BufAckAndDrop({o})
           \/ BufClear /\ Reset
           \/ UNCHANGED sendBufVars
BY DEF SessionNext, NewData, Prepare, Reset, SendAllFalse, SendAllPanics,
       SendChunk, SendDone, SendChunkPanics, Report, ReportPanics, Panic

\* A new connection has no chunk and no flag.
LEMMA QueueInit == SessionInit => SessionType /\ FlagsBelow
<1> SUFFICES ASSUME SessionInit PROVE SessionType /\ FlagsBelow
  OBVIOUS
<1>1. data = {} /\ off = 0 /\ offset_recv = [k \in {} |-> TRUE]
  BY DEF SessionInit, SendBufInit
<1>2. DOMAIN offset_recv = {} /\ FlagsUnder(off) = {}
  BY <1>1 DEF FlagsUnder
<1>3. QueueOK
  BY <1>1, <1>2, FS_EmptySet DEF QueueOK
<1>4. FlagsBelow
  BY <1>1, <1>2, FS_EmptySet DEF FlagsBelow
<1> QED
  BY <1>3, <1>4, Zenon DEF SessionInit, DataSendInit, SessionType

\* One step of any action keeps the queue, and a flag for every chunk.
LEMMA QueueStep ==
    ASSUME SessionType, FlagsBelow, [SessionNext]_sessionVars
    PROVE  QueueOK' /\ FlagsBelow'
<1>1. QueueOK
  BY DEF SessionType
<1>2. CASE UNCHANGED sendBufVars
  BY <1>1, <1>2 DEF sendBufVars, QueueOK, FlagsBelow, FlagsUnder, Apart
<1>3. ASSUME NEW w \in Windows, SendAll(w) PROVE QueueOK' /\ FlagsBelow'
  <2>1. send_len - written \in Nat /\ w \in Nat /\ OffLen \in Nat
    BY <1>3, OffLenInNat, SessionAssumption DEF SendAll, SessionType
  <2>2. BufWrite(send_len - written, w, OffLen)
    BY <1>3 DEF SendAll
  <2> DEFINE n == send_len - written
  <2> HIDE DEF n
  <2>3. n \in Nat /\ BufWrite(n, w, OffLen)
    BY <2>1, <2>2 DEF n
  <2> QED
    BY <1>1, <2>1, <2>3, WriteKeepsQueue
<1> QED
  BY <1>1, <1>2, <1>3, BufferSteps, OthersKeepQueue, Zenon DEF sessionVars

\* One step of any action keeps the types.
LEMMA SessionTypeStep ==
    ASSUME SessionType, FlagsBelow, [SessionNext]_sessionVars
    PROVE  SessionType'
<1>1. QueueOK'
  BY QueueStep
<1>2. written' \in Nat /\ send_len' \in Nat /\ norms' \in Nat
  <2>1. written \in Nat /\ send_len \in Nat /\ norms \in Nat
    BY DEF SessionType
  <2>2. ASSUME NEW w \in Windows, SendAll(w) PROVE written' \in Nat
    <3> DEFINE n == send_len - written
    <3>1. n \in Nat /\ w \in Nat
      BY <2>1, <2>2, SessionAssumption DEF SendAll
    <3>2. written' = written + Accepted(n, w)
      BY <2>2 DEF SendAll
    <3> HIDE DEF n
    <3>3. Accepted(n, w) \in Nat
      BY <3>1, SessionAccepted DEF SessionType
    <3> QED
      BY <2>1, <3>2, <3>3
  <2>3. \/ \E w \in Windows : SendAll(w)
        \/ written' = written
    BY Zenon
       DEF SessionNext, NewData, Prepare, Reset, SendAllFalse, SendAllPanics,
           SendChunk, SendDone, SendChunkPanics, Report, ReportPanics, Panic,
           sessionVars, useVars
  <2>4. \/ send_len' = 0 /\ norms' = 0
        \/ send_len' = send_len + FLOAT
           /\ norms' = norms + (IF ClosesGroup(it + 1) THEN 1 ELSE 0)
        \/ send_len' = send_len /\ norms' \in {0, norms}
    BY Zenon DEF SessionNext, NewData, StartInput, Prepare, ReadFloat, EndPart,
           EndInput, Reset, SendAll, SendAllFalse, SendAllPanics, SendChunk,
           SendDone, SendChunkPanics, Report, ReportPanics, Panic,
           sessionVars, dataSendVars
  <2> QED
    BY <2>1, <2>2, <2>3, <2>4 DEF FLOAT
<1>3. reading' \in {"no", "yes", "panicked"} /\ (reading' # "no" => open' = FALSE)
  <2>1. reading \in {"no", "yes", "panicked"} /\ (reading # "no" => open = FALSE)
    BY DEF SessionType
  <2>2. \/ reading = "no" /\ ~open /\ reading' = "yes" /\ open' = open
        \/ reading = "yes" /\ reading' \in {"no", "yes", "panicked"}
           /\ open' = open
        \/ reading = "no" /\ reading' = reading
        \/ reading' = reading /\ open' = open
    BY Zenon DEF SessionNext, NewData, StartInput, Prepare, ReadFloat, EndPart,
           EndInput, Reset, SendAll, SendAllFalse, SendAllPanics, SendChunk,
           SendDone, SendChunkPanics, Report, ReportPanics, Panic,
           sessionVars, dataSendVars, useVars, Between, Sending
  <2> QED
    BY <2>1, <2>2
<1>4. /\ open' \in BOOLEAN /\ hasty' \in BOOLEAN /\ stale' \in BOOLEAN
      /\ was_reset' \in BOOLEAN /\ ragged' \in BOOLEAN
      /\ status' \in {"running", "panicked"}
  <2>1. /\ open \in BOOLEAN /\ hasty \in BOOLEAN /\ stale \in BOOLEAN
        /\ was_reset \in BOOLEAN /\ ragged \in BOOLEAN
        /\ status \in {"running", "panicked"}
    BY SMTT(30) DEF SessionType
  <2>2. \/ open' = open \/ open' = TRUE \/ open' = FALSE \/ open' = ~EmitStop
    BY DEF SessionNext, NewData, Prepare, Reset, SendAll, SendAllFalse,
           SendAllPanics, SendChunk, SendDone, SendChunkPanics, Report,
           ReportPanics, Panic, sessionVars, useVars
  <2>3. /\ hasty' = hasty \/ hasty' = (hasty \/ ~Finished)
        /\ was_reset' = was_reset \/ was_reset' = TRUE
        /\ status' = status \/ status' = "panicked" \/ status' = "running"
    BY Zenon DEF SessionNext, NewData, Prepare, Reset, SendAll, SendAllFalse,
           SendAllPanics, SendChunk, SendDone, SendChunkPanics, Report,
           ReportPanics, Panic, NewEpoch, sessionVars, useVars, traceVars
  <2>4. /\ stale' = stale \/ \E o : stale' = (o \notin current)
        /\ ragged' = ragged \/ \E text : ragged' = (ragged \/ ~Regular(text))
    BY Zenon DEF SessionNext, NewData, Prepare, Reset, SendAll, SendAllFalse,
           SendAllPanics, SendChunk, SendDone, SendChunkPanics, Report,
           ReportPanics, Panic, sessionVars, traceVars
  <2> QED
    BY <2>1, <2>2, <2>3, <2>4, Zenon
<1> QED
  BY <1>1, <1>2, <1>3, <1>4 DEF SessionType

\* The types and the flags below off hold in every reachable state.
THEOREM SessionTypeHolds == SessionSpec => [](SessionType /\ FlagsBelow)
<1>1. SessionType /\ FlagsBelow /\ [SessionNext]_sessionVars
          => (SessionType /\ FlagsBelow)'
  BY QueueStep, SessionTypeStep
<1> QED
  BY <1>1, QueueInit, PTL DEF SessionSpec

\* recv_and_drop's iterator over the flags never ends before the chunks do,
\* whatever reset left behind in the map: "iter.next().unwrap()" is safe.
THEOREM FlagsSuffice == SessionSpec => []FlagForEveryChunk
<1>1. SessionType /\ FlagsBelow => FlagForEveryChunk
  <2> SUFFICES ASSUME SessionType, FlagsBelow PROVE FlagForEveryChunk
    OBVIOUS
  <2>1. FlagsUnder(off) \in SUBSET DOMAIN offset_recv
    BY DEF FlagsUnder
  <2>2. IsFiniteSet(DOMAIN offset_recv) /\ IsFiniteSet(data)
    BY DEF SessionType, QueueOK
  <2>3. /\ Cardinality(FlagsUnder(off)) <= Cardinality(DOMAIN offset_recv)
        /\ Cardinality(FlagsUnder(off)) \in Nat
        /\ Cardinality(DOMAIN offset_recv) \in Nat
        /\ Cardinality(data) \in Nat
    BY <2>1, <2>2, FS_Subset, FS_CardinalityType
  <2> QED
    BY <2>3 DEF FlagsBelow, FlagForEveryChunk
<1> QED
  BY <1>1, SessionTypeHolds, PTL
-----------------------------------------------------------------------------
\* What an Application packet carries when it is not past the buffer's end is
\* the offset of a buffered chunk.
LEMMA OffFrontType ==
    ASSUME QueueOK
    PROVE  /\ OffFront \in Nat
           /\ OffFront = off \/ \E b \in data : b.off = OffFront
<1>1. CASE Front = {}
  BY <1>1 DEF OffFront, QueueOK
<1>2. CASE Front # {}
  <2>1. PICK b \in Front : OffFront = b.off
    BY <1>2, Zenon DEF OffFront
  <2>2. b \in data
    BY <2>1, SMTT(30) DEF Front
  <2> QED
    BY <2>1, <2>2 DEF QueueOK, Chunk
<1> QED
  BY <1>1, <1>2

\* The actions that touch what EpochInv speaks of.
LEMMA EpochFrame ==
    ASSUME [SessionNext]_sessionVars
    PROVE  \/ \E text \in Inputs : NewData(text)
           \/ Reset
           \/ \E w \in Windows : SendAll(w)
           \/ SendChunk
           \/ UNCHANGED <<data, off, written, current, earlier, hasty,
                          was_reset>>
BY DEF SessionNext, Prepare, SendAllFalse, SendAllPanics, SendDone, BufEmit,
       SendChunkPanics, Report, BufAckAndDrop, ReportPanics, Panic,
       sessionVars, sendBufVars, useVars, traceVars

\* Without reset and with orderly use, the offsets of a data set stay above
\* those of the sets before it.
LEMMA EpochStep ==
    ASSUME SessionType, FlagsBelow, EpochInv, [SessionNext]_sessionVars
    PROVE  EpochInv'
<1> SUFFICES ASSUME hasty' = FALSE, was_reset' = FALSE PROVE EpochInv'
  BY SessionTypeStep, Zenon DEF EpochInv, SessionType
<1> DEFINE Before == /\ off = written
                     /\ current \subseteq Nat /\ earlier \subseteq Nat
                     /\ \A o \in current \cup earlier : o < off
                     /\ \A e \in earlier : /\ \A b \in data : e < b.off
                                           /\ \A o \in current : e < o
<1>1. SUFFICES Before'
  BY DEF EpochInv
<1>2. hasty = FALSE /\ was_reset = FALSE => Before
  BY DEF EpochInv
<1>3. QueueOK /\ hasty \in BOOLEAN /\ was_reset \in BOOLEAN
  BY DEF SessionType
<1>4. ASSUME NEW text \in Inputs, NewData(text) PROVE Before'
  <2>1. /\ off' = off /\ written' = written /\ data' = data /\ current' = {}
        /\ earlier' = earlier \cup current
        /\ hasty' = (hasty \/ ~Finished) /\ was_reset' = was_reset
    BY <1>4 DEF NewData, NewEpoch, sendBufVars, useVars
  <2>2. hasty = FALSE /\ data = {}
    BY <1>3, <2>1, Zenon DEF Finished
  <2> QED
    BY <1>2, <2>1, <2>2
<1>5. CASE Reset
  BY <1>5 DEF Reset
<1>6. ASSUME NEW w \in Windows, SendAll(w) PROVE Before'
  <2> DEFINE n == send_len - written
  <2>1. n \in Nat /\ w \in Nat /\ OffLen \in Nat
    BY <1>6, OffLenInNat, SessionAssumption DEF SendAll, SessionType
  <2>2. /\ BufWrite(n, w, OffLen) /\ written' = written + Accepted(n, w)
        /\ UNCHANGED <<current, earlier, hasty, was_reset>>
    BY <1>6 DEF SendAll
  <2> HIDE DEF n
  <2>3. /\ off' = off + Accepted(n, w) /\ Accepted(n, w) \in Nat
        /\ \A b \in data' : b \in data \/ off <= b.off
        /\ QueueOK'
    BY <1>3, <2>1, <2>2, WriteKeepsQueue, SessionAccepted
  <2>4. Before
    BY <1>2, <2>2
  <2>5. off \in Nat /\ data' \subseteq Chunk
    BY <1>3, <2>3 DEF QueueOK
  <2>6. off' = written' /\ \A o \in current \cup earlier : o < off'
    BY <2>2, <2>3, <2>4, <2>5
  <2>7. \A e \in earlier : \A b \in data' : e < b.off
    BY <2>3, <2>4, <2>5 DEF Chunk
  <2> QED
    BY <2>2, <2>4, <2>6, <2>7
<1>7. CASE SendChunk
  <2>1. /\ UNCHANGED <<data, off, written, earlier, hasty, was_reset>>
        /\ current' = current \cup {OffFront} /\ OffFront < written
    BY <1>7 DEF SendChunk, BufEmit
  <2>2. Before
    BY <1>2, <2>1
  <2>3. PICK b \in data : b.off = OffFront
    BY <1>3, <2>1, <2>2, OffFrontType
  <2>4. OffFront \in Nat
    BY <1>3, OffFrontType
  <2> QED
    BY <2>1, <2>2, <2>3, <2>4
<1>8. CASE UNCHANGED <<data, off, written, current, earlier, hasty, was_reset>>
  BY <1>2, <1>8
<1> QED
  BY <1>4, <1>5, <1>6, <1>7, <1>8, EpochFrame

\* Without reset, no chunk of a data set carries an offset of an earlier one,
\* as long as data_send is only called with all data sent.
THEOREM OffsetsStayFresh == SessionSpec => []OffsetsFresh
<1>1. SessionInit => EpochInv
  BY DEF SessionInit, SendBufInit, EpochInv
<1>2. SessionType /\ FlagsBelow /\ EpochInv /\ [SessionNext]_sessionVars
          => EpochInv'
  BY EpochStep
<1>3. EpochInv => OffsetsFresh
  BY DEF EpochInv, OffsetsFresh
<1> QED
  BY <1>1, <1>2, <1>3, SessionTypeHolds, PTL DEF SessionSpec

-----------------------------------------------------------------------------
\* ClosesGroup counts the groups of GROUP floats up to one before the end.
LEMMA GroupCount ==
    ASSUME NEW i \in Nat
    PROVE  /\ (i + 1) \div GROUP \in Nat
           /\ (i + 2) \div GROUP
                  = ((i + 1) \div GROUP) + (IF ClosesGroup(i + 1) THEN 1 ELSE 0)
<1> DEFINE q == (i + 1) \div GROUP
           r == (i + 1) % GROUP
<1>1. GROUP \in Nat \ {0, 1}
  BY DataSendAssumption
<1>2. /\ i + 1 = GROUP * q + r
      /\ q \in Nat /\ r \in Nat /\ r <= GROUP - 1
  BY <1>1
<1>3. ClosesGroup(i + 1) <=> r = GROUP - 1
  BY DEF ClosesGroup
<1> HIDE DEF q, r
<1>4. GROUP * q \in Nat /\ GROUP * (q + 1) = GROUP * q + GROUP
  BY <1>1, <1>2
<1>5. CASE r = GROUP - 1
  <2>1. /\ GROUP * (q + 1) <= i + 2 /\ i + 2 < GROUP * (q + 1) + GROUP
        /\ q + 1 \in Nat /\ i + 2 \in Nat
    BY <1>1, <1>2, <1>4, <1>5
  <2>2. (i + 2) \div GROUP = q + 1
    BY <1>1, <2>1, DivUnique
  <2> QED
    BY <1>2, <1>3, <1>5, <2>2 DEF q
<1>6. CASE r # GROUP - 1
  <2>1. /\ GROUP * q <= i + 2 /\ i + 2 < GROUP * q + GROUP
        /\ i + 2 \in Nat
    BY <1>1, <1>2, <1>4, <1>6
  <2>2. (i + 2) \div GROUP = q
    BY <1>1, <1>2, <2>1, DivUnique
  <2> QED
    BY <1>2, <1>3, <1>6, <2>2 DEF q
<1> QED
  BY <1>5, <1>6

\* An array that ends with a group, or one float before, has all its norms.
LEMMA WholeArray ==
    ASSUME NEW n \in Nat, n % GROUP \in {0, GROUP - 1}
    PROVE  GROUP * ((n + 1) \div GROUP) >= n
<1> DEFINE q == n \div GROUP
           r == n % GROUP
<1>1. GROUP \in Nat \ {0, 1}
  BY DataSendAssumption
<1>2. n = GROUP * q + r /\ q \in Nat /\ r \in {0, GROUP - 1}
  BY <1>1
<1> HIDE DEF q, r
<1>3. GROUP * q \in Nat /\ GROUP * (q + 1) = GROUP * q + GROUP
  BY <1>1, <1>2
<1>4. CASE r = 0
  <2>1. GROUP * q <= n + 1 /\ n + 1 < GROUP * q + GROUP /\ n + 1 \in Nat
    BY <1>1, <1>2, <1>3, <1>4
  <2>2. (n + 1) \div GROUP = q
    BY <1>1, <1>2, <2>1, DivUnique
  <2> QED
    BY <1>2, <1>3, <1>4, <2>2
<1>5. CASE r = GROUP - 1
  <2>1. /\ GROUP * (q + 1) <= n + 1 /\ n + 1 < GROUP * (q + 1) + GROUP
        /\ q + 1 \in Nat /\ n + 1 \in Nat
    BY <1>1, <1>2, <1>3, <1>5
  <2>2. (n + 1) \div GROUP = q + 1
    BY <1>1, <2>1, DivUnique
  <2> QED
    BY <1>1, <1>2, <1>3, <1>5, <2>2
<1> QED
  BY <1>2, <1>4, <1>5

\* Bytes of the block that covers byte x lie below the end of the blocks.
LEMMA BlockBelow ==
    ASSUME NEW s \in Nat \ {0}, NEW x \in Nat, NEW k \in Nat, x < k * s
    PROVE  x \div s < k
<1> DEFINE q == x \div s
<1>1. q \in Nat /\ x = s * q + (x % s) /\ x % s \in Nat
  OBVIOUS
<1> HIDE DEF q
<1>2. s * q <= x
  BY <1>1
<1>3. \A i, j \in Nat : i >= j => s * i >= s * j
  OBVIOUS
<1>4. k * s = s * k
  OBVIOUS
<1>5. q < k
  <2> SUFFICES ASSUME q >= k PROVE FALSE
    BY <1>1
  <2>1. s * q >= s * k /\ s * q \in Nat /\ s * k \in Nat
    BY <1>1, <1>3
  <2> QED
    BY <1>2, <1>4, <2>1
<1> QED
  BY <1>5 DEF q

\* The steps of data_send on whole arrays, and those between two calls of it.
InputStep ==
    \/ \E text \in Inputs : WholeArrays(text) /\ StartInput(text)
    \/ ReadFloat
    \/ EndPart
    \/ EndInput
    \/ reading = "no" /\ UNCHANGED <<parts, it, reading>>
    \/ UNCHANGED dataSendVars

\* The arithmetic of InputInv when one more float is read.
LEMMA FloatArithmetic ==
    ASSUME NEW s \in Nat, NEW g \in Nat, NEW q \in Nat, NEW c \in {0, 1},
           NEW k \in Nat, NEW i \in Nat,
           s + FLOAT * g * q <= FLOAT * g * k + FLOAT * i
    PROVE  s + FLOAT + FLOAT * g * (q + c)
               <= FLOAT * g * (k + c) + FLOAT * (i + 1)
<1>1. FLOAT * g \in Nat
  BY DEF FLOAT
<1>2. ASSUME NEW h \in Nat, s + h * q <= h * k + FLOAT * i
      PROVE  s + FLOAT + h * (q + c) <= h * (k + c) + FLOAT * (i + 1)
  <2>1. h * q \in Nat /\ h * k \in Nat
    OBVIOUS
  <2>2. h * (q + 0) = h * q /\ h * (k + 0) = h * k
    OBVIOUS
  <2>3. h * (q + 1) = h * q + h /\ h * (k + 1) = h * k + h
    OBVIOUS
  <2> QED
    BY <1>2, <2>1, <2>2, <2>3 DEF FLOAT
<1> QED
  BY <1>1, <1>2, Zenon

\* One step of data_send keeps the count of norms and floats.
LEMMA InputInvStep ==
    ASSUME InputInv, InputStep, send_len \in Nat, norms \in Nat
    PROVE  InputInv'
<1>1. GROUP \in Nat \ {0, 1}
  BY DataSendAssumption
<1>2. ASSUME NEW text \in Inputs, WholeArrays(text), StartInput(text)
      PROVE  InputInv'
  <2>1. /\ parts' = text /\ it' = 0 /\ send_len' = 0 /\ norms' = 0
        /\ reading' = "yes"
    BY <1>2 DEF StartInput
  <2>2. (0 + 1) \div GROUP = 0
    <3>1. GROUP * 0 <= 0 + 1 /\ 0 + 1 < GROUP * 0 + GROUP
      BY <1>1
    <3> QED
      BY <1>1, <3>1, DivUnique
  <2>3. 0 + FLOAT * GROUP * 0 <= FLOAT * GROUP * 0 + FLOAT * 0
    BY <1>1 DEF FLOAT
  <2>4. send_len' + FLOAT * GROUP * ((it' + 1) \div GROUP)
            <= FLOAT * GROUP * norms' + FLOAT * it'
    BY <2>1, <2>2, <2>3
  <2>5. parts' \in Seq(Nat \cup {EmptyPart})
    BY <2>1, DataSendAssumption
  <2> QED
    BY <1>2, <2>1, <2>4, <2>5 DEF InputInv, WholeArrays
<1>3. CASE ReadFloat
  <2> DEFINE c == IF ClosesGroup(it + 1) THEN 1 ELSE 0
             q == (it + 1) \div GROUP
  <2>1. /\ parts' = parts /\ it' = it + 1 /\ send_len' = send_len + FLOAT
        /\ norms' = norms + c /\ reading = "yes" /\ reading' = reading
        /\ parts # <<>> /\ it < Head(parts)
    BY <1>3 DEF ReadFloat
  <2>2. it \in Nat /\ q \in Nat /\ c \in {0, 1} /\ (it + 2) \div GROUP = q + c
    BY GroupCount DEF InputInv
  <2>3. send_len + FLOAT * GROUP * q <= FLOAT * GROUP * norms + FLOAT * it
    BY <2>1 DEF InputInv
  <2> HIDE DEF c, q
  <2>4. send_len + FLOAT + FLOAT * GROUP * (q + c)
            <= FLOAT * GROUP * (norms + c) + FLOAT * (it + 1)
    BY <1>1, <2>2, <2>3, FloatArithmetic, Zenon
  <2>5. it' + 1 = it + 2
    BY <2>1, <2>2
  <2>6. send_len' + FLOAT * GROUP * ((it' + 1) \div GROUP)
            <= FLOAT * GROUP * norms' + FLOAT * it'
    BY <2>1, <2>2, <2>4, <2>5
  <2>7. Head(parts) \in Int
    BY <2>1 DEF InputInv, EmptyPart
  <2>8. it' \in Nat /\ it' <= Head(parts')
    BY <2>1, <2>2, <2>7
  <2> QED
    BY <2>1, <2>6, <2>8 DEF InputInv, WholeArrays
<1>4. CASE EndPart
  <2> DEFINE q == (it + 1) \div GROUP
  <2>1. /\ parts' = Tail(parts) /\ it' = 0 /\ parts # <<>> /\ it = Head(parts)
        /\ send_len' = send_len /\ norms' = norms
        /\ reading = "yes" /\ reading' = reading
    BY <1>4 DEF EndPart
  <2>2. it \in Nat /\ q \in Nat
    BY GroupCount DEF InputInv
  <2>3. it % GROUP \in {0, GROUP - 1}
    BY <2>1, <2>2 DEF InputInv, WholeArrays, EmptyPart
  <2>4. GROUP * q >= it
    BY <2>2, <2>3, WholeArray
  <2>5. send_len + FLOAT * GROUP * q <= FLOAT * GROUP * norms + FLOAT * it
    BY <2>1 DEF InputInv
  <2>6. (0 + 1) \div GROUP = 0
    <3>1. GROUP * 0 <= 0 + 1 /\ 0 + 1 < GROUP * 0 + GROUP
      BY <1>1
    <3> QED
      BY <1>1, <3>1, DivUnique
  <2> HIDE DEF q
  <2>7. send_len <= FLOAT * GROUP * norms
    <3>1. GROUP * q \in Nat /\ GROUP * norms \in Nat
      BY <1>1, <2>2
    <3>2. /\ FLOAT * GROUP * q = FLOAT * (GROUP * q)
          /\ FLOAT * GROUP * norms = FLOAT * (GROUP * norms)
      BY <1>1, <2>2 DEF FLOAT
    <3> QED
      BY <2>2, <2>4, <2>5, <3>1, <3>2 DEF FLOAT
  <2>8. send_len' + FLOAT * GROUP * ((it' + 1) \div GROUP)
            <= FLOAT * GROUP * norms' + FLOAT * it'
    <3>1. FLOAT * GROUP * 0 = 0 /\ FLOAT * GROUP * norms \in Nat /\ FLOAT * 0 = 0
      BY <1>1 DEF FLOAT
    <3> QED
      BY <2>1, <2>6, <2>7, <3>1
  <2>9. parts' \in Seq(Nat \cup {EmptyPart}) /\ WholeArrays(parts')
    BY <2>1 DEF InputInv, WholeArrays
  <2> QED
    BY <2>1, <2>8, <2>9 DEF InputInv
<1>5. CASE EndInput
  BY <1>5 DEF EndInput, InputInv, WholeArrays
<1>6. CASE reading = "no" /\ UNCHANGED <<parts, it, reading>>
  BY <1>6 DEF InputInv, WholeArrays
<1>7. CASE UNCHANGED dataSendVars
  BY <1>7 DEF dataSendVars, InputInv, WholeArrays
<1> QED
  BY <1>2, <1>3, <1>4, <1>5, <1>6, <1>7 DEF InputStep

\* When the last array has been read, the norms cover the data.
LEMMA InputCovered ==
    ASSUME InputInv, send_len \in Nat, norms \in Nat, EndInput
    PROVE  send_len' <= norms' * (FLOAT * GROUP) /\ it = 0
<1>1. GROUP \in Nat \ {0, 1}
  BY DataSendAssumption
<1>2. it = 0
  BY DEF InputInv, EndInput, EmptyPart
<1>3. (0 + 1) \div GROUP = 0
  <2>1. GROUP * 0 <= 0 + 1 /\ 0 + 1 < GROUP * 0 + GROUP
    BY <1>1
  <2> QED
    BY <1>1, <2>1, DivUnique
<1>4. send_len + FLOAT * GROUP * 0 <= FLOAT * GROUP * norms + FLOAT * 0
  BY <1>2, <1>3 DEF InputInv, EndInput
<1>5. /\ FLOAT * GROUP * 0 = 0 /\ FLOAT * 0 = 0
      /\ FLOAT * GROUP * norms = norms * (FLOAT * GROUP)
      /\ FLOAT * GROUP * norms \in Nat
  BY <1>1 DEF FLOAT
<1> QED
  BY <1>2, <1>4, <1>5 DEF EndInput

\* data_send leaves a norm for every byte when the arrays of the text fill
\* their groups or lack one float: priority_calculation stays in bounds.
THEOREM WholeGroupsHaveNorms ==
    ASSUME WholeGroups
    PROVE  DataSendSpec => []EveryBlockHasNorm
<1> DEFINE Inv == /\ InputInv /\ send_len \in Nat /\ norms \in Nat
                  /\ reading = "no" => send_len <= norms * (FLOAT * GROUP)
<1>1. FLOAT * GROUP \in Nat \ {0}
  BY DataSendAssumption DEF FLOAT
<1>2. DataSendInit => Inv
  <2> SUFFICES ASSUME DataSendInit PROVE Inv
    OBVIOUS
  <2>1. 0 <= 0 * (FLOAT * GROUP)
    BY <1>1
  <2> QED
    BY <2>1 DEF DataSendInit, InputInv, WholeArrays
<1>3. Inv /\ [DataSendNext]_dataSendVars => Inv'
  <2> SUFFICES ASSUME Inv, [DataSendNext]_dataSendVars PROVE Inv'
    OBVIOUS
  <2>1. InputInv'
    BY InputInvStep DEF InputStep, DataSendNext, WholeGroups
  <2>2. send_len' \in Nat /\ norms' \in Nat
    BY DEF DataSendNext, StartInput, ReadFloat, EndPart, EndInput,
           dataSendVars, FLOAT
  <2>3. \/ EndInput
        \/ reading' = "yes"
        \/ UNCHANGED dataSendVars
    BY DEF DataSendNext, StartInput, ReadFloat, EndPart
  <2> QED
    BY <2>1, <2>2, <2>3, InputCovered DEF dataSendVars
<1>4. Inv => EveryBlockHasNorm
  <2> SUFFICES ASSUME Inv, reading = "no", send_len > 0
               PROVE  (send_len - 1) \div (FLOAT * GROUP) < norms
    BY DEF EveryBlockHasNorm
  <2> DEFINE s == FLOAT * GROUP
             x == send_len - 1
  <2>1. s \in Nat \ {0} /\ x \in Nat
    BY <1>1
  <2>2. norms * s \in Nat
    BY <2>1
  <2>3. x < norms * s
    BY <2>2
  <2> HIDE DEF s, x
  <2>4. x \div s < norms
    BY <2>1, <2>3, BlockBelow
  <2> QED
    BY <2>4 DEF s, x
<1> QED
  BY <1>2, <1>3, <1>4, PTL DEF DataSendSpec

\* The first array of a Regular text yields a norm: data_send does not fail.
LEMMA FirstNormStep ==
    ASSUME InputInv, FirstNorm, InputStep, norms \in Nat,
           reading = "no" /\ reading' = "yes" => Regular(parts') /\ it' = 0
    PROVE  FirstNorm' /\ (EndInput => reading' = "no")
<1>1. GROUP \in Nat \ {0, 1} /\ it \in Nat
  BY DataSendAssumption DEF InputInv
<1>2. CASE reading = "no"
  BY <1>1, <1>2 DEF FirstNorm, Regular, EndInput
<1>3. CASE ReadFloat
  <2>1. /\ UNCHANGED <<parts, reading>> /\ it' = it + 1 /\ reading = "yes"
        /\ norms' = norms + (IF ClosesGroup(it + 1) THEN 1 ELSE 0)
    BY <1>3 DEF ReadFloat
  <2>2. (GROUP - 1) % GROUP = GROUP - 1
    BY <1>1
  <2>3. it + 1 = GROUP - 1 => ClosesGroup(it + 1)
    BY <2>2 DEF ClosesGroup
  <2>4. FirstNorm'
    BY <1>1, <2>1, <2>3 DEF FirstNorm
  <2>5. ~EndInput
    BY <1>1, <1>3 DEF ReadFloat, EndInput, EmptyPart
  <2> QED
    BY <2>4, <2>5
<1>4. CASE EndPart
  <2>1. norms > 0 /\ norms' = norms
    BY <1>1, <1>4 DEF EndPart, FirstNorm
  <2>2. ~EndInput
    BY <1>1, <1>4 DEF EndPart, EndInput, EmptyPart
  <2> QED
    BY <2>1, <2>2 DEF FirstNorm
<1>5. CASE EndInput
  <2>1. norms > 0
    BY <1>1, <1>5 DEF EndInput, FirstNorm, EmptyPart
  <2> QED
    BY <1>5, <2>1 DEF EndInput, FirstNorm
<1>6. CASE UNCHANGED dataSendVars /\ ~EndInput
  BY <1>6 DEF dataSendVars, FirstNorm
<1> QED
  BY <1>2, <1>3, <1>4, <1>5, <1>6 DEF InputStep, StartInput

\* Session drives data_send by its own steps, on whole arrays as long as no
\* text was ragged.
LEMMA SessionInputStep ==
    ASSUME [SessionNext]_sessionVars, ragged \in BOOLEAN, ragged' = FALSE
    PROVE  /\ InputStep /\ ragged = FALSE
           /\ reading = "no" /\ reading' = "yes" => Regular(parts') /\ it' = 0
<1>1. ASSUME NEW text \in Inputs, NewData(text)
      PROVE  /\ StartInput(text) /\ Regular(text) /\ ragged = FALSE
             /\ parts' = text /\ it' = 0
  BY <1>1, Zenon DEF NewData, StartInput
<1>2. ASSUME NEW text \in Inputs, NewData(text) PROVE InputStep
  BY <1>1, <1>2, Zenon DEF InputStep, Regular
<1>3. CASE Prepare
  BY <1>3, Zenon
     DEF Prepare, ReadFloat, EndPart, EndInput, InputStep, traceVars
<1>4. \/ \E text \in Inputs : NewData(text)
      \/ Prepare
      \/ /\ reading = "no" /\ UNCHANGED <<parts, it, reading, ragged>>
      \/ UNCHANGED <<dataSendVars, ragged>>
  BY Zenon
     DEF SessionNext, Reset, Between, SendAll, SendAllFalse, SendAllPanics,
         SendChunk, SendDone, SendChunkPanics, Report, ReportPanics, Panic,
         sessionVars, traceVars
<1>5. CASE reading = "no" /\ UNCHANGED <<parts, it, reading, ragged>>
  BY <1>5 DEF InputStep
<1>6. CASE UNCHANGED <<dataSendVars, ragged>>
  BY <1>6 DEF InputStep, dataSendVars
<1> QED
  BY <1>1, <1>2, <1>3, <1>4, <1>5, <1>6, Zenon

\* The actions that touch what OrderlyInv speaks of.
LEMMA OrderlyFrame ==
    ASSUME SessionNext
    PROVE  \/ \E text \in Inputs : NewData(text)
           \/ Prepare
           \/ Reset
           \/ \E w \in Windows : SendAll(w)
           \/ SendChunk \/ SendDone
           \/ SendAllPanics \/ SendChunkPanics
           \/ \E o \in earlier \cup current : ReportPanics(o)
           \/ UNCHANGED <<data, written, dataSendVars, open, status, current,
                          hasty, ragged, stale, was_reset>>
BY Zenon
   DEF SessionNext, SendAllFalse, Report, BufAckAndDrop, sendBufVars, useVars,
       traceVars

\* An offset below the end of covered data has a norm.
LEMMA WrittenHasNorm ==
    ASSUME written \in Nat, send_len \in Nat, norms \in Nat, NormsCover,
           written <= send_len, NEW o \in Nat, o < written
    PROVE  HasNorm(o)
<1>1. SEND_BUFFER_SIZE \in Nat \ {0} /\ norms * SEND_BUFFER_SIZE \in Nat
  BY SizeAssumption
<1>2. o < norms * SEND_BUFFER_SIZE
  BY <1>1 DEF NormsCover
<1> QED
  BY <1>1, <1>2, BlockBelow DEF HasNorm

\* Every step of an orderly application keeps the norms ahead of the data.
LEMMA OrderlyStep ==
    ASSUME SessionType, FlagsBelow, EpochInv, OrderlyInv,
           [SessionNext]_sessionVars
    PROVE  OrderlyInv'
<1> DEFINE Body == /\ data # {} => written <= send_len /\ reading = "no"
                   /\ reading = "no" => NormsCover \/ (was_reset /\ Finished)
                   /\ open => written <= send_len /\ NormsCover
                   /\ reading # "no" => current = {}
                   /\ \A o \in current : o \in Nat /\ HasNorm(o)
                   /\ status = "panicked"
                          => stale /\ (was_reset \/ send_len < written)
<1>1. SUFFICES ASSUME hasty' = FALSE, ragged' = FALSE
               PROVE  InputInv' /\ FirstNorm' /\ Body'
  BY SessionTypeStep, Zenon DEF OrderlyInv, SessionType
<1>2. hasty = FALSE => InputInv /\ FirstNorm /\ Body
  BY <1>1, SessionInputStep, Zenon DEF OrderlyInv, SessionType
<1>3. /\ QueueOK /\ hasty \in BOOLEAN /\ stale \in BOOLEAN /\ open \in BOOLEAN
      /\ ragged \in BOOLEAN /\ was_reset \in BOOLEAN
      /\ written \in Nat /\ send_len \in Nat /\ norms \in Nat
  BY DEF SessionType
<1>4. SEND_BUFFER_SIZE = FLOAT * GROUP /\ SEND_BUFFER_SIZE \in Nat \ {0}
  BY SessionAssumption, SizeAssumption
<1>h. hasty = FALSE
  <2>1. hasty' = hasty \/ hasty' = (hasty \/ ~Finished)
    BY Zenon DEF SessionNext, NewData, Prepare, Reset, SendAll, SendAllFalse,
           SendAllPanics, SendChunk, SendDone, SendChunkPanics, Report,
           ReportPanics, Panic, NewEpoch, sessionVars, traceVars
  <2> QED
    BY <1>1, <1>3, <2>1, Zenon
<1>i. InputInv' /\ FirstNorm' /\ (EndInput => reading' = "no")
  BY <1>1, <1>2, <1>3, <1>h, SessionInputStep, InputInvStep, FirstNormStep,
     Zenon
<1>b. SUFFICES Body'
  BY <1>i
<1>5. ASSUME NEW text \in Inputs, NewData(text) PROVE Body'
  <2>1. /\ data' = data /\ current' = {} /\ reading' = "yes"
        /\ hasty' = (hasty \/ ~Finished) /\ open = FALSE /\ open' = open
        /\ status = "running" /\ status' = status
    BY <1>3, <1>5
    DEF NewData, StartInput, NewEpoch, Between, sendBufVars, useVars
  <2>2. data = {}
    BY <1>1, <1>3, <2>1, Zenon DEF Finished
  <2> QED
    BY <2>1, <2>2
<1>6. CASE Prepare
  <2>1. /\ UNCHANGED <<data, written, open, current>>
        /\ reading = "yes"
        /\ EndInput \/ reading' = "yes"
        /\ status' = IF reading' = "panicked" THEN "panicked" ELSE "running"
    BY <1>6 DEF Prepare, ReadFloat, EndPart, EndInput, sendBufVars, traceVars
  <2>2. data = {} /\ current = {} /\ open = FALSE
    BY <1>2, <1>3, <1>h, <2>1 DEF SessionType
  <2>3. EndInput => NormsCover'
    BY <1>2, <1>3, <1>4, <1>h, InputCovered DEF NormsCover
  <2>4. status' = "running"
    BY <1>i, <2>1
  <2> QED
    BY <2>1, <2>2, <2>3, <2>4
<1>7. CASE Reset
  <2>1. /\ data' = {} /\ current' = {} /\ open = FALSE
        /\ hasty' = (hasty \/ ~Finished) /\ was_reset' = TRUE
        /\ status = "running" /\ reading = "no"
        /\ UNCHANGED <<written, send_len, open, status, reading>>
    BY <1>3, <1>7 DEF Reset, BufClear, NewEpoch, Between, useVars
  <2>2. written >= send_len
    BY <1>1, <1>3, <2>1, Zenon DEF Finished
  <2>3. Finished'
    BY <2>1, <2>2 DEF Finished
  <2> QED
    BY <2>1, <2>3
<1>8. ASSUME NEW w \in Windows, SendAll(w) PROVE Body'
  <2> DEFINE n == send_len - written
  <2>1. /\ n \in Nat /\ w \in Nat
        /\ written' = written + Accepted(n, w)
        /\ UNCHANGED <<dataSendVars, status, current>>
        /\ status = "running" /\ reading = "no" /\ ~Finished
    BY <1>3, <1>8, SessionAssumption DEF SendAll, Between
  <2>2. Body
    BY <1>2, <1>h
  <2>3. written' <= send_len
    <3>1. n + written = send_len
      BY <1>3
    <3> HIDE DEF n
    <3>2. Accepted(n, w) \in Nat /\ Accepted(n, w) <= n
      BY <1>3, <2>1, SessionAccepted
    <3> QED
      BY <1>3, <2>1, <3>1, <3>2
  <2> QED
    BY <2>1, <2>2, <2>3 DEF NormsCover, HasNorm, dataSendVars
<1>9. CASE SendChunk \/ SendDone
  <2>1. /\ UNCHANGED <<data, written, dataSendVars, status, was_reset>>
        /\ \/ current' = current \cup {OffFront} /\ HasNorm(OffFront)
           \/ current' = current
        /\ open /\ reading = "no" /\ status = "running"
    BY <1>9 DEF SendChunk, SendDone, BufEmit, Sending, traceVars
  <2>2. Body /\ OffFront \in Nat
    BY <1>2, <1>3, <1>h, OffFrontType
  <2> QED
    BY <2>1, <2>2 DEF NormsCover, HasNorm, dataSendVars, Finished
<1>10. CASE SendAllPanics
  <2>1. reading = "no" /\ ~Finished /\ written > send_len
    BY <1>10 DEF SendAllPanics, Between
  <2> QED
    BY <1>2, <1>3, <1>h, <2>1 DEF Finished
<1>11. CASE SendChunkPanics
  <2>1. /\ open /\ OffFront < written /\ ~HasNorm(OffFront)
    BY <1>11 DEF SendChunkPanics, Sending
  <2>2. written <= send_len /\ NormsCover /\ OffFront \in Nat
    BY <1>2, <1>3, <1>h, <2>1, OffFrontType
  <2> QED
    BY <1>3, <2>1, <2>2, WrittenHasNorm
<1>12. ASSUME NEW o \in earlier \cup current, ReportPanics(o) PROVE Body'
  <2>1. /\ UNCHANGED <<data, written, dataSendVars, open, current, was_reset>>
        /\ ~HasNorm(o) /\ stale' = (o \notin current) /\ reading = "no"
    BY <1>12 DEF ReportPanics, Panic, sendBufVars
  <2>2. Body
    BY <1>2, <1>h
  <2>3. stale'
    BY <2>1, <2>2, Zenon
  <2>4. ASSUME was_reset = FALSE PROVE send_len < written
    <3>1. o \in Nat /\ o < written
      BY <1>h, <2>4 DEF EpochInv
    <3>2. NormsCover
      BY <2>1, <2>2, <2>4
    <3> QED
      BY <1>3, <2>1, <3>1, <3>2, WrittenHasNorm
  <2> QED
    BY <1>3, <2>1, <2>2, <2>3, <2>4, Zenon
    DEF NormsCover, HasNorm, dataSendVars, Finished
<1>13. CASE UNCHANGED <<data, written, dataSendVars, open, status, current,
                        hasty, ragged, stale, was_reset>>
  <2>1. Body
    BY <1>2, <1>h
  <2> QED
    BY <1>13, <2>1 DEF NormsCover, HasNorm, dataSendVars, Finished
<1>14. CASE UNCHANGED sessionVars
  BY <1>13, <1>14, Zenon DEF sessionVars, sendBufVars, useVars, traceVars
<1> QED
  BY <1>5, <1>6, <1>7, <1>8, <1>9, <1>10, <1>11, <1>12, <1>13, <1>14,
     OrderlyFrame, Zenon

\* An application that waits for send_all to return false before it calls
\* data_send or reset, and gives data_send only Regular texts, drives the
\* sender out of bounds nowhere but at a report on an earlier data set, and
\* there only after reset or with less data loaded than was written.
THEOREM OrderlyUseIsSafe == SessionSpec => []OnlyLateReportsPanic
<1>1. SessionInit => EpochInv /\ OrderlyInv
  <2> SUFFICES ASSUME SessionInit PROVE EpochInv /\ OrderlyInv
    OBVIOUS
  <2>1. 0 <= 0 * SEND_BUFFER_SIZE
    BY SizeAssumption
  <2> QED
    BY <2>1 DEF SessionInit, SendBufInit, DataSendInit, EpochInv, InputInv,
                FirstNorm, WholeArrays, OrderlyInv, NormsCover
<1>2. SessionType /\ FlagsBelow /\ EpochInv /\ OrderlyInv
          /\ [SessionNext]_sessionVars => EpochInv' /\ OrderlyInv'
  BY EpochStep, OrderlyStep
<1>3. SessionType /\ OrderlyInv => OnlyLateReportsPanic
  BY DEF OrderlyInv, OnlyLateReportsPanic
<1> QED
  BY <1>1, <1>2, <1>3, SessionTypeHolds, PTL DEF SessionSpec
=============================================================================
