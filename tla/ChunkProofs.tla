---------------------------- MODULE ChunkProofs -----------------------------
(***************************************************************************)
(* The chunks of Transfer and their bytes, for every data length, chunk    *)
(* size, window, choice of norms and bound on the network.  Every byte     *)
(* taken lies in one chunk, whose flag, transmissions and reports are the  *)
(* byte's; the block of the chunk's start, which sets the chunk's          *)
(* priority, is the byte's own.                                            *)
(***************************************************************************)
EXTENDS TransferProofs

\* What the mapping needs besides TransferInv: the chunks taken cut the
\* prefix of the data, none of them crosses a block, the buffer holds some of
\* them, and an Application packet carries a whole chunk that was sent.
ChunkInv ==
    /\ off = total_offset
    /\ admitted \subseteq Chunk
    /\ \A o \in Nat : (\E b \in admitted : Holds(b, o)) <=> o < total_offset
    /\ \A b, c \in admitted : b # c => Apart(b, c)
    /\ \A b \in admitted :
           /\ b.len <= SEND_BUFFER_SIZE
           /\ b.off \div SEND_BUFFER_SIZE
                  = (b.off + b.len - 1) \div SEND_BUFFER_SIZE

TravelInv ==
    /\ data \subseteq admitted
    /\ DOMAIN times_sent \subseteq Offsets(admitted)
    /\ recv_dic \subseteq DOMAIN times_sent
    /\ \A m \in net : m.type = "Application" =>
           /\ [off |-> m.off, len |-> m.len] \in admitted
           /\ m.off \in DOMAIN times_sent

MappedInv == TransferInv /\ ChunkInv /\ TravelInv

\* The variables that the mapping reads.
mappedVars == <<data, offset_recv, admitted, times_sent, recv_dic>>

\* What write cuts holds exactly the bytes it takes.
LEMMA NewChunksHold ==
    ASSUME off \in Nat, NEW m \in Nat, NEW off_len \in Nat, NEW o \in Nat
    PROVE  (\E b \in NewChunks(m, off_len) : Holds(b, o))
               <=> (off <= o /\ o < off + m)
<1> DEFINE new == NewChunks(m, off_len)
<1>1. new \subseteq Chunk
  BY NewChunksShape
<1>2. ByteSet(new) = off .. (off + m - 1)
  BY NewChunksBytes
<1> HIDE DEF new
<1>3. \A b \in new : Holds(b, o) <=> o \in b.off .. (b.off + b.len - 1)
  BY <1>1 DEF Holds, Chunk
<1>4. (\E b \in new : Holds(b, o)) <=> o \in ByteSet(new)
  BY <1>3 DEF ByteSet
<1>5. o \in off .. (off + m - 1) <=> (off <= o /\ o < off + m)
  OBVIOUS
<1> QED
  BY <1>2, <1>4, <1>5 DEF new

\* What send_all does: the bytes that fit are cut into chunks at the end of
\* the stream, and the chunks whose flag is off leave the buffer.
LEMMA WriteStep ==
    ASSUME TransferInv, off = total_offset, SendAll,
           NEW new, new = NewChunks(NewBytes, OffLen)
    PROVE  /\ NewBytes \in Nat /\ off \in Nat
           /\ total_offset' = total_offset + NewBytes /\ off' = off + NewBytes
           /\ new \subseteq Chunk
           /\ \A b \in new : off <= b.off
           /\ \A b, c \in new : b # c => Apart(b, c)
           /\ \A b \in new :
                  /\ b.len <= SEND_BUFFER_SIZE
                  /\ b.off \div SEND_BUFFER_SIZE
                         = (b.off + b.len - 1) \div SEND_BUFFER_SIZE
           /\ \A o \in Nat : (\E b \in new : Holds(b, o))
                                <=> (off <= o /\ o < off + NewBytes)
           /\ admitted' = admitted \cup new
           /\ data' = {b \in data : offset_recv[b.off]} \cup new
           /\ \A b \in data' : b.off \in DOMAIN offset_recv'
                                 /\ offset_recv'[b.off] = TRUE
           /\ UNCHANGED <<times_sent, recv_dic, net>>
<1> USE DEF TransferInv, SenderInv
<1> DEFINE n == DataLen - total_offset
<1>1. n \in Nat /\ WriteWindow \in Nat /\ OffLen \in Nat /\ off \in Nat
  BY WriteWindowType, OffLenType, TransferAssumption DEF WriteWindow
<1>2. NewBytes \in Nat
  BY <1>1, AcceptedType DEF NewBytes
<1>3. BufWrite(n, WriteWindow, OffLen) /\ admitted' = admitted \cup new
      /\ total_offset' = total_offset + NewBytes
  BY DEF SendAll
<1>4. /\ data' = Kept \cup new
      /\ off' = off + NewBytes
      /\ offset_recv' = [k \in DOMAIN Wanted \cup Offsets(new) |->
                            IF k \in Offsets(new) THEN TRUE ELSE Wanted[k]]
  BY <1>3 DEF BufWrite, NewBytes
<1>5. /\ new \subseteq Chunk /\ \A b \in new : off <= b.off
      /\ \A b, c \in new : b # c => Apart(b, c)
  BY <1>1, <1>2, NewChunksShape
<1>6. \A b \in new : /\ b.len <= SEND_BUFFER_SIZE
                      /\ b.off \div SEND_BUFFER_SIZE
                             = (b.off + b.len - 1) \div SEND_BUFFER_SIZE
  BY <1>1, <1>2, NewChunksInBlock DEF OffLen
<1>7. \A o \in Nat : (\E b \in new : Holds(b, o))
                          <=> (off <= o /\ o < off + NewBytes)
  BY <1>1, <1>2, NewChunksHold
<1>8. Kept = {b \in data : offset_recv[b.off]}
  BY KeptIsWanted
<1>9. \A b \in Kept : b.off \in DOMAIN Wanted /\ Wanted[b.off] = TRUE
  <2> SUFFICES ASSUME NEW b \in Kept
               PROVE  b.off \in DOMAIN Wanted /\ Wanted[b.off] = TRUE
    BY Zenon
  <2>1. b \in data /\ offset_recv[b.off] /\ b.off \in DOMAIN offset_recv
    BY <1>8 DEF BufOK, Offsets
  <2> QED
    BY <2>1 DEF Wanted
<1>10. \A b \in data' : b.off \in DOMAIN offset_recv'
                         /\ offset_recv'[b.off] = TRUE
  BY <1>4, <1>9 DEF Offsets
<1>11. UNCHANGED <<times_sent, recv_dic, net>>
  BY DEF SendAll, peerVars, netVars
<1> QED
  BY <1>1, <1>2, <1>3, <1>4, <1>5, <1>6, <1>7, <1>8, <1>10, <1>11, Zenon

\* An Application packet carries the chunk at pos, all of it: it is no longer
\* than the datagram has room for.
LEMMA FrontIsBuffered ==
    ASSUME MappedInv, OffFront < total_offset
    PROVE  \E b \in data : OffFront = b.off /\ EmitLen = b.len
<1> USE DEF MappedInv, ChunkInv, TravelInv
<1>1. total_offset \in Nat
  BY DEF TransferInv, SenderInv
<1>2. Front # {}
  BY <1>1 DEF OffFront
<1>3. PICK b : b = CHOOSE c \in Front : TRUE
  OBVIOUS
<1>4. b \in data
  BY <1>2, <1>3 DEF Front
<1>5. b.len \in Nat /\ b.len <= OUT_LEN
  BY <1>4, SizeAssumption DEF Chunk
<1>6. OffFront = b.off /\ EmitLen = b.len
  BY <1>2, <1>3, <1>5 DEF OffFront, EmitLen, Smaller
<1> QED
  BY <1>4, <1>6

\* Only send_data puts an Application packet on the network.
LEMMA ApplicationFrame ==
    ASSUME [TransferNext]_transferVars, ~SendApplication,
           NEW m \in net', m.type = "Application"
    PROVE  m \in net
<1>1. ASSUME NEW d, Arrives(d) PROVE m \in net
  BY <1>1 DEF Arrives
<1>2. ASSUME NEW d, Transmit(d), d.type # "Application" PROVE m \in net
  BY <1>2 DEF Transmit
<1>3. ASSUME UNCHANGED netVars PROVE m \in net
  BY <1>3 DEF netVars
<1>4. ASSUME NEW d, Lose(d) PROVE m \in net
  BY <1>4 DEF Lose
<1> QED
  BY <1>1, <1>2, <1>3, <1>4, Zenon
     DEF TransferNext, transferVars, SendAll, SendAllFalse, SendHandshake,
         SendPanics, SendDone, SendElictAck, RecvHandshake, RecvAck, RecvStop,
         PeerRecvHandshake, PeerRecvApplication, PeerRecvElictAck,
         PeerSendHandshake, PeerSendAck, PeerAckTooShort, PeerSendStop,
         PeerRead, PeerReadPanics

\* Only an Application packet adds to what the receiver has.
LEMMA ReceivedFrame ==
    ASSUME [TransferNext]_transferVars
    PROVE  (\E m \in net : PeerRecvApplication(m)) \/ UNCHANGED recv_dic
BY Zenon DEF TransferNext, transferVars, peerVars, SendAll, SendAllFalse,
       SendHandshake, SendApplication, SendPanics, SendDone, SendElictAck,
       Lose, RecvHandshake, RecvAck, RecvStop, PeerRecvHandshake,
       PeerRecvElictAck, PeerSendHandshake, PeerSendAck, PeerAckTooShort,
       PeerSendStop, PeerRead, PeerReadPanics


\* Chunks taken before end where the stream ends.
LEMMA TakenBelow ==
    ASSUME ChunkInv, total_offset \in Nat, NEW b \in admitted
    PROVE  /\ b.off \in Nat /\ b.len \in Nat \ {0}
           /\ b.off + b.len <= total_offset
<1>1. b.off \in Nat /\ b.len \in Nat \ {0}
  BY DEF ChunkInv, Chunk
<1> DEFINE o == b.off + b.len - 1
<1>2. o \in Nat /\ Holds(b, o)
  BY <1>1 DEF Holds
<1>3. o < total_offset
  <2> HIDE DEF o
  <2> QED
    BY <1>2 DEF ChunkInv
<1> QED
  BY <1>1, <1>3

\* send_all goes on cutting where it stopped; nothing else takes chunks.
LEMMA ChunkStep ==
    ASSUME TransferInv, ChunkInv, [TransferNext]_transferVars
    PROVE  ChunkInv'
<1>1. total_offset \in Nat
  BY DEF TransferInv, SenderInv
<1>2. CASE SendAll
  <2> DEFINE new == NewChunks(NewBytes, OffLen)
  <2> HIDE DEF new
  <2>1. /\ NewBytes \in Nat /\ off \in Nat
        /\ total_offset' = total_offset + NewBytes /\ off' = off + NewBytes
        /\ new \subseteq Chunk
        /\ \A b \in new : off <= b.off
        /\ \A b, c \in new : b # c => Apart(b, c)
        /\ \A b \in new :
               /\ b.len <= SEND_BUFFER_SIZE
               /\ b.off \div SEND_BUFFER_SIZE
                      = (b.off + b.len - 1) \div SEND_BUFFER_SIZE
        /\ \A o \in Nat : (\E b \in new : Holds(b, o))
                             <=> (off <= o /\ o < off + NewBytes)
        /\ admitted' = admitted \cup new
    BY <1>2, WriteStep, Zenon DEF new, ChunkInv
  <2>2. off = total_offset
    BY DEF ChunkInv
  <2>3. ASSUME NEW o \in Nat
        PROVE  (\E b \in admitted' : Holds(b, o)) <=> o < total_offset'
    <3>1. (\E b \in admitted' : Holds(b, o))
              <=> (o < total_offset \/ (off <= o /\ o < off + NewBytes))
      BY <2>1 DEF ChunkInv
    <3>2. o < total_offset' <=> o < total_offset + NewBytes
      BY <2>1
    <3> QED
      BY <1>1, <2>1, <2>2, <3>1, <3>2
  <2>4. ASSUME NEW b \in admitted', NEW c \in admitted', b # c
        PROVE  Apart(b, c)
    <3>1. CASE b \in admitted /\ c \in admitted
      BY <2>4, <3>1 DEF ChunkInv
    <3>2. CASE b \in new /\ c \in new
      BY <2>1, <2>4, <3>2
    <3>3. ASSUME NEW d \in admitted, NEW e \in new
          PROVE  d.off + d.len <= e.off
      <4>1. d.off \in Nat /\ d.len \in Nat /\ d.off + d.len <= total_offset
        BY <1>1, TakenBelow
      <4>2. e.off \in Nat /\ total_offset <= e.off
        BY <2>1, <2>2 DEF Chunk
      <4> QED
        BY <1>1, <4>1, <4>2
    <3> QED
      BY <2>1, <3>1, <3>2, <3>3 DEF Apart
  <2>5. \A b \in admitted' :
            /\ b.len <= SEND_BUFFER_SIZE
            /\ b.off \div SEND_BUFFER_SIZE
                   = (b.off + b.len - 1) \div SEND_BUFFER_SIZE
    BY <2>1 DEF ChunkInv
  <2>6. admitted' \subseteq Chunk /\ off' = total_offset'
    BY <2>1, <2>2 DEF ChunkInv
  <2> QED
    BY <2>3, <2>4, <2>5, <2>6 DEF ChunkInv, Holds, Apart
<1>3. CASE ~SendAll
  <2>1. UNCHANGED admitted
    BY <1>3, HistoryFrame, SMTT(30)
  <2>2. UNCHANGED <<off, total_offset>>
    BY <1>3, BufferFrame
       DEF SendApplication, SendPanics, SendDone, RecvAck, BufEmit,
           BufAckAndDrop, sendBufVars
  <2> QED
    BY <2>1, <2>2 DEF ChunkInv, Holds, Apart
<1> QED
  BY <1>2, <1>3

\* The buffer holds chunks that were taken, and what is sent, on its way or
\* received is such a chunk.
LEMMA TravelStep ==
    ASSUME MappedInv, [TransferNext]_transferVars
    PROVE  TravelInv'
<1> USE DEF MappedInv
<1>1. CASE SendAll
  <2> DEFINE new == NewChunks(NewBytes, OffLen)
  <2> HIDE DEF new
  <2>1. /\ admitted' = admitted \cup new
        /\ data' = {b \in data : offset_recv[b.off]} \cup new
        /\ UNCHANGED <<times_sent, recv_dic, net>>
    BY <1>1, WriteStep, Zenon DEF new, ChunkInv
  <2>2. Offsets(admitted) \subseteq Offsets(admitted')
    BY <2>1 DEF Offsets
  <2>3. data' \subseteq admitted'
    BY <2>1 DEF TravelInv
  <2>4. DOMAIN times_sent' \subseteq Offsets(admitted')
    BY <2>1, <2>2, Zenon DEF TravelInv
  <2>5. \A m \in net' : m.type = "Application" =>
            /\ [off |-> m.off, len |-> m.len] \in admitted'
            /\ m.off \in DOMAIN times_sent'
    BY <2>1 DEF TravelInv
  <2> QED
    BY <2>1, <2>3, <2>4, <2>5 DEF TravelInv, Offsets
<1>2. CASE ~SendAll
  <2>1. UNCHANGED admitted
    BY <1>2, HistoryFrame, SMTT(30)
  <2>2. UNCHANGED data
    BY <1>2, BufferFrame
       DEF SendApplication, SendPanics, SendDone, RecvAck, BufEmit,
           BufAckAndDrop, sendBufVars
  <2>3. Offsets(admitted)' = Offsets(admitted)
    BY <2>1, SMTT(30) DEF Offsets
  <2>4. CASE SendApplication
    <3>1. PICK b \in data : OffFront = b.off /\ EmitLen = b.len
      BY <2>4, FrontIsBuffered DEF SendApplication
    <3>2. b \in admitted /\ b = [off |-> OffFront, len |-> EmitLen]
      BY <3>1 DEF TravelInv, ChunkInv, Chunk
    <3>3. DOMAIN times_sent' = DOMAIN times_sent \cup {OffFront}
      BY <2>4 DEF SendApplication, CountSent
    <3>4. net' = net \cup {[type |-> "Application", off |-> OffFront,
                            len |-> EmitLen]}
      BY <2>4 DEF SendApplication, Transmit
    <3>5. UNCHANGED recv_dic
      BY <2>4 DEF SendApplication, peerVars
    <3>6. OffFront \in Offsets(admitted)
      BY <3>1, <3>2 DEF Offsets
    <3>7. DOMAIN times_sent' \subseteq Offsets(admitted)
      BY <3>3, <3>6 DEF TravelInv
    <3>8. ASSUME NEW m \in net', m.type = "Application"
          PROVE  /\ [off |-> m.off, len |-> m.len] \in admitted
                 /\ m.off \in DOMAIN times_sent'
      <4>1. CASE m \in net
        BY <3>3, <3>8, <4>1 DEF TravelInv
      <4>2. CASE m \notin net
        BY <3>2, <3>3, <3>4, <4>2
      <4> QED
        BY <4>1, <4>2
    <3> QED
      BY <2>1, <2>2, <2>3, <3>3, <3>5, <3>7, <3>8, SMTT(30) DEF TravelInv
  <2>5. CASE ~SendApplication
    <3>1. UNCHANGED times_sent
      BY <2>5, HistoryFrame
    <3>2. \A m \in net' : m.type = "Application" => m \in net
      BY <2>5, ApplicationFrame
    <3>3. recv_dic' \subseteq DOMAIN times_sent
      <4>1. ASSUME NEW m \in net, PeerRecvApplication(m)
            PROVE  recv_dic' \subseteq DOMAIN times_sent
        <5>1. recv_dic' = recv_dic \cup {m.off} /\ m.type = "Application"
          BY <4>1 DEF PeerRecvApplication
        <5> QED
          BY <5>1, Zenon DEF TravelInv
      <4>2. CASE UNCHANGED recv_dic
        BY <4>2, SMTT(30) DEF TravelInv
      <4> QED
        BY <4>1, <4>2, ReceivedFrame
    <3> QED
      BY <2>1, <2>2, <2>3, <3>1, <3>2, <3>3 DEF TravelInv
  <2> QED
    BY <2>4, <2>5
<1> QED
  BY <1>1, <1>2

\* Nothing is taken, sent or on the network at the start.
LEMMA MappedInit == ASSUME TransferInit PROVE ChunkInv /\ TravelInv
BY DEF TransferInit, SendBufInit, EmptyMap, ChunkInv, TravelInv, Offsets

\* The strengthened invariant holds in every reachable state.
THEOREM MappedInvHolds == TransferSpec => []MappedInv
<1>1. TransferInit => ChunkInv /\ TravelInv
  BY MappedInit
<1>2. MappedInv /\ [TransferNext]_transferVars => ChunkInv' /\ TravelInv'
  BY ChunkStep, TravelStep DEF MappedInv
<1> QED
  BY <1>1, <1>2, TransferInvHolds, PTL DEF TransferSpec, MappedInv

-----------------------------------------------------------------------------
(***************************************************************************)
(* A byte and its chunk.                                                   *)
(***************************************************************************)
\* A byte lies in one chunk only.
LEMMA OneHolder ==
    ASSUME ChunkInv, NEW o \in Nat, NEW b \in admitted, NEW c \in admitted,
           Holds(b, o), Holds(c, o)
    PROVE  b = c
<1>1. b.off \in Nat /\ b.len \in Nat /\ c.off \in Nat /\ c.len \in Nat
  BY DEF ChunkInv, Chunk
<1>2. ~Apart(b, c)
  BY <1>1 DEF Apart, Holds
<1> QED
  BY <1>2 DEF ChunkInv

\* Different chunks start at different offsets.
LEMMA OneStart ==
    ASSUME ChunkInv, NEW b \in admitted, NEW c \in admitted, b.off = c.off
    PROVE  b = c
<1>1. /\ b.off \in Nat /\ b.len \in Nat \ {0} /\ c.off \in Nat
      /\ c.len \in Nat \ {0}
  BY DEF ChunkInv, Chunk
<1>2. ~Apart(b, c)
  BY <1>1 DEF Apart
<1> QED
  BY <1>2 DEF ChunkInv

\* The transmissions of a byte are those of its chunk; before it is taken
\* there are none.
TriesAgree ==
    /\ \A o \in Nat : \A b \in admitted : Holds(b, o) =>
           TriesOf(o) = IF b.off \in DOMAIN times_sent
                          THEN times_sent[b.off] ELSE 0
    /\ \A o \in Nat : o >= total_offset => TriesOf(o) = 0

\* write never puts a byte into two chunks, so TriesOf finds the one.
LEMMA ByteTries == ChunkInv /\ total_offset \in Nat => TriesAgree
<1> SUFFICES ASSUME ChunkInv, total_offset \in Nat PROVE TriesAgree
  OBVIOUS
<1>1. ASSUME NEW o \in Nat, NEW b \in admitted, Holds(b, o)
      PROVE  TriesOf(o) = IF b.off \in DOMAIN times_sent
                            THEN times_sent[b.off] ELSE 0
  <2>1. \A c \in admitted : Holds(c, o) => c = b
    BY <1>1, OneHolder
  <2>2. (CHOOSE c \in admitted : Holds(c, o)) = b
    BY <1>1, <2>1
  <2> QED
    BY <1>1, <2>1, <2>2 DEF TriesOf
<1>2. ASSUME NEW o \in Nat, o >= total_offset PROVE TriesOf(o) = 0
  <2>1. ~\E b \in admitted : Holds(b, o)
    BY <1>2 DEF ChunkInv
  <2> QED
    BY <2>1 DEF TriesOf
<1> QED
  BY <1>1, <1>2 DEF TriesAgree

\* The stage of a byte is told by its chunk.
StageAgrees ==
    /\ \A o \in Nat : \A b \in data : Holds(b, o) =>
           StageOf(o) = IF offset_recv[b.off] THEN "queued" ELSE "settled"
    /\ \A o \in Nat : \A b \in admitted : Holds(b, o) /\ b \notin data =>
           StageOf(o) = "gone"
    /\ \A o \in Nat : o >= total_offset => StageOf(o) = "new"

\* The same for the chunk's flag and for its place in the buffer.
LEMMA ByteStage ==
    ChunkInv /\ TravelInv /\ BufOK /\ total_offset \in Nat => StageAgrees
<1> SUFFICES ASSUME ChunkInv, TravelInv, BufOK, total_offset \in Nat
             PROVE  StageAgrees
  OBVIOUS
<1>0. data \subseteq admitted
  BY DEF TravelInv
<1>1. ASSUME NEW o \in Nat, NEW b \in data, Holds(b, o)
      PROVE  StageOf(o) = IF offset_recv[b.off] THEN "queued" ELSE "settled"
  <2>1. \A c \in data : Holds(c, o) => c = b
    BY <1>0, <1>1, OneHolder
  <2>2. Buffered(b) <=> offset_recv[b.off]
    BY DEF Buffered, BufOK, Offsets
  <2> QED
    BY <1>1, <2>1, <2>2 DEF StageOf
<1>2. ASSUME NEW o \in Nat, NEW b \in admitted, Holds(b, o), b \notin data
      PROVE  StageOf(o) = "gone"
  <2>1. ~\E c \in data : Holds(c, o)
    BY <1>0, <1>2, OneHolder
  <2> QED
    BY <1>2, <2>1 DEF StageOf
<1>3. ASSUME NEW o \in Nat, o >= total_offset PROVE StageOf(o) = "new"
  <2>1. ~\E b \in admitted : Holds(b, o)
    BY <1>3 DEF ChunkInv
  <2> QED
    BY <1>0, <2>1 DEF StageOf
<1> QED
  BY <1>1, <1>2, <1>3 DEF StageAgrees

\* The priority of a byte's own block is that of its chunk: write cut the
\* chunk at the block's end.
LEMMA BytePriority ==
    ASSUME ChunkInv, NEW b \in admitted, NEW o \in Nat, Holds(b, o)
    PROVE  PriorityOf(o) = PriorityOf(b.off)
<1> DEFINE s == SEND_BUFFER_SIZE
           z == b.off + b.len - 1
<1>1. b.off \in Nat /\ b.len \in Nat \ {0} /\ s \in Nat \ {0}
  BY SizeAssumption DEF ChunkInv, Chunk
<1>2. z \in Nat /\ b.off <= o /\ o <= z
  BY <1>1 DEF Holds
<1>3. b.off \div s = z \div s
  BY DEF ChunkInv
<1> HIDE DEF s, z
<1>4. o \div s = b.off \div s
  BY <1>1, <1>2, <1>3, BlockBetween, Zenon
<1> QED
  BY <1>4, TransferAssumption DEF PriorityOf, s
=============================================================================
