--------------------------- MODULE DeliveryProofs ---------------------------
(***************************************************************************)
(* Transfer implements Delivery, for every data length, chunk size,        *)
(* window, choice of norms and bound on the network.  The units are bytes. *)
(***************************************************************************)
EXTENDS ChunkProofs

(***************************************************************************)
(* The steps of Transfer as steps of Delivery.                             *)
(***************************************************************************)
\* A step that leaves the mapped variables alone leaves Delivery's alone.
LEMMA MappedStutter ==
    ASSUME UNCHANGED mappedVars PROVE UNCHANGED D!deliveryVars
BY DEF mappedVars, D!deliveryVars, StageOf, TriesOf, Buffered

\* A step that leaves the buffer and the transmissions alone changes no byte.
LEMMA ByteFrame ==
    ASSUME UNCHANGED <<data, offset_recv, admitted, times_sent>>
    PROVE  \A o : StageOf(o)' = StageOf(o) /\ TriesOf(o)' = TriesOf(o)
BY DEF StageOf, TriesOf, Buffered

\* Mapped states satisfy what the lemmas about bytes ask for.
LEMMA MappedFacts ==
    MappedInv => /\ total_offset \in Nat /\ total_offset <= DataLen
                 /\ BufOK /\ TriesAgree /\ StageAgrees
BY ByteTries, ByteStage DEF MappedInv, TransferInv, SenderInv

\* send_all opens a window: the next bytes are queued, the settled ones go.
LEMMA SendAllMaps ==
    ASSUME MappedInv, MappedInv', TriesAgree', StageAgrees', SendAll
    PROVE  D!DeliveryNext
<1> DEFINE S == total_offset .. (total_offset + NewBytes - 1)
           new == NewChunks(NewBytes, OffLen)
<1>1. /\ total_offset \in Nat /\ total_offset <= DataLen
      /\ BufOK /\ TriesAgree /\ StageAgrees
  BY MappedFacts
<1>2. /\ ChunkInv /\ off = total_offset /\ TransferInv
      /\ data \subseteq admitted
      /\ DOMAIN times_sent \subseteq Offsets(admitted)
      /\ recv_dic \subseteq Offsets(admitted)
  BY DEF MappedInv, ChunkInv, TravelInv
<1> HIDE DEF new
<1>3. /\ NewBytes \in Nat /\ total_offset' = total_offset + NewBytes
      /\ new \subseteq Chunk
      /\ \A b \in new : total_offset <= b.off
      /\ \A o \in Nat : (\E b \in new : Holds(b, o))
                            <=> (total_offset <= o /\ o < total_offset + NewBytes)
      /\ admitted' = admitted \cup new
      /\ data' = {b \in data : offset_recv[b.off]} \cup new
      /\ \A b \in data' : offset_recv'[b.off] = TRUE
      /\ UNCHANGED <<times_sent, recv_dic>>
  BY <1>2, WriteStep, Zenon DEF new
<1>4. total_offset' <= DataLen /\ DataLen \in Nat
  BY TransferAssumption DEF MappedInv, TransferInv, SenderInv
<1>5. \A b \in new : b.off \notin Offsets(admitted)
  <2> SUFFICES ASSUME NEW b \in new, NEW c \in admitted, b.off = c.off
               PROVE  FALSE
    BY DEF Offsets
  <2>1. /\ c.off \in Nat /\ c.len \in Nat \ {0}
        /\ c.off + c.len <= total_offset
    BY <1>1, <1>2, TakenBelow
  <2> QED
    BY <1>1, <1>3, <2>1
<1>6. ASSUME NEW o \in Bytes
      PROVE  /\ StageOf(o)' = IF o \in S THEN "queued"
                              ELSE IF StageOf(o) = "settled" THEN "gone"
                              ELSE StageOf(o)
             /\ TriesOf(o)' = TriesOf(o)
             /\ (\E b \in admitted' : Holds(b, o) /\ b.off \in recv_dic')
                    <=> \E b \in admitted : Holds(b, o) /\ b.off \in recv_dic
  <2>1. o \in Nat
    BY DEF Bytes
  <2>2. CASE o \in S
    <3>1. total_offset <= o /\ o < total_offset + NewBytes
      BY <1>1, <1>3, <2>1, <2>2
    <3>2. PICK b \in new : Holds(b, o)
      BY <1>3, <2>1, <3>1
    <3>3. StageOf(o)' = "queued"
      BY <1>3, <2>1, <3>2 DEF StageAgrees, Holds
    <3>4. TriesOf(o)' = 0
      BY <1>2, <1>3, <1>5, <2>1, <3>2 DEF TriesAgree, Holds
    <3>5. TriesOf(o) = 0
      BY <1>1, <2>1, <3>1 DEF TriesAgree
    <3>6. ~\E c \in admitted : Holds(c, o)
      BY <1>1, <1>2, <2>1, <3>1 DEF ChunkInv
    <3>7. \A c \in new : c.off \notin recv_dic
      BY <1>2, <1>5
    <3> QED
      BY <1>3, <2>2, <3>3, <3>4, <3>5, <3>6, <3>7
  <2>3. CASE o < total_offset
    <3>1. PICK b \in admitted : Holds(b, o)
      BY <1>2, <2>1, <2>3 DEF ChunkInv
    <3>2. o \notin S /\ ~\E c \in new : Holds(c, o)
      BY <1>1, <1>3, <2>1, <2>3
    <3>3. b \in admitted' /\ b \notin new
      BY <1>3, <3>1, <3>2
    <3>4. TriesOf(o)' = TriesOf(o)
      BY <1>1, <1>3, <2>1, <3>1, <3>3 DEF TriesAgree, Holds
    <3>5. CASE b \in data /\ offset_recv[b.off]
      <4>1. StageOf(o) = "queued"
        BY <1>1, <2>1, <3>1, <3>5 DEF StageAgrees
      <4>2. b \in data' /\ offset_recv'[b.off] = TRUE
        BY <1>3, <3>5
      <4>3. StageOf(o)' = "queued"
        BY <2>1, <3>1, <4>2 DEF StageAgrees, Holds
      <4> QED
        BY <1>3, <3>2, <3>4, <4>1, <4>3
    <3>6. CASE b \in data /\ ~offset_recv[b.off]
      <4>1. StageOf(o) = "settled"
        BY <1>1, <2>1, <3>1, <3>6 DEF StageAgrees
      <4>2. b \notin data'
        BY <1>3, <3>3, <3>6
      <4>3. StageOf(o)' = "gone"
        BY <2>1, <3>1, <3>3, <4>2 DEF StageAgrees, Holds
      <4> QED
        BY <1>3, <3>2, <3>4, <4>1, <4>3
    <3>7. CASE b \notin data
      <4>1. StageOf(o) = "gone"
        BY <1>1, <2>1, <3>1, <3>7 DEF StageAgrees
      <4>2. b \notin data'
        BY <1>3, <3>3, <3>7, SMTT(30)
      <4>3. StageOf(o)' = "gone"
        BY <2>1, <3>1, <3>3, <4>2 DEF StageAgrees, Holds
      <4> QED
        BY <1>3, <3>2, <3>4, <4>1, <4>3
    <3> QED
      BY <3>5, <3>6, <3>7
  <2>4. CASE o >= total_offset /\ o \notin S
    <3>1. o >= total_offset'
      BY <1>1, <1>3, <2>1, <2>4
    <3>2. StageOf(o) = "new" /\ StageOf(o)' = "new"
      BY <1>1, <2>1, <2>4, <3>1 DEF StageAgrees
    <3>3. TriesOf(o) = 0 /\ TriesOf(o)' = 0
      BY <1>1, <2>1, <2>4, <3>1 DEF TriesAgree
    <3>4. ~\E c \in new : Holds(c, o)
      BY <1>1, <1>3, <2>1, <3>1
    <3> QED
      BY <1>3, <2>4, <3>2, <3>3, <3>4
  <2> QED
    BY <1>1, <2>1, <2>2, <2>3, <2>4
<1>7. \A o \in Bytes : StageOf(o) = "new" <=> o >= total_offset
  <2> SUFFICES ASSUME NEW o \in Bytes, o < total_offset
               PROVE  StageOf(o) # "new"
    BY <1>1 DEF StageAgrees, Bytes
  <2>1. o \in Nat
    BY DEF Bytes
  <2>2. \E b \in admitted : Holds(b, o)
    BY <1>2, <2>1 DEF ChunkInv
  <2> QED
    BY <2>2 DEF StageOf
<1>8. S \subseteq Bytes /\ \A o \in S : StageOf(o) = "new"
  BY <1>1, <1>3, <1>4, <1>7 DEF Bytes
<1>9. \A u \in S : \A v \in Bytes : StageOf(v) = "new" /\ v < u => v \in S
  BY <1>1, <1>3, <1>4, <1>7 DEF Bytes
<1> HIDE DEF S
<1>10. S \in SUBSET D!At("new")
  BY <1>8 DEF D!At
<1>11. D!OpenWindow(S)
  BY <1>6, <1>9 DEF D!OpenWindow, D!At
<1> QED
  BY <1>10, <1>11 DEF D!DeliveryNext


\* An Application packet is a transmission of bytes that are not gone.
LEMMA SendApplicationMaps ==
    ASSUME MappedInv, TriesAgree', SendApplication
    PROVE  D!DeliveryNext
<1>1. /\ total_offset \in Nat /\ total_offset <= DataLen /\ DataLen \in Nat
      /\ TriesAgree /\ StageAgrees /\ ChunkInv
  BY MappedFacts, TransferAssumption DEF MappedInv
<1>2. PICK b \in data : OffFront = b.off /\ EmitLen = b.len
  BY FrontIsBuffered DEF SendApplication
<1>3. b \in admitted
  BY DEF MappedInv, TravelInv
<1> DEFINE S == {o \in Bytes : Holds(b, o)}
<1>4. UNCHANGED <<data, offset_recv, admitted, recv_dic, total_offset>>
  BY DEF SendApplication, BufEmit, peerVars
<1>5. \A o : StageOf(o)' = StageOf(o)
  BY <1>4 DEF StageOf, Buffered
<1>6. \A o \in S : StageOf(o) \in {"queued", "settled"}
  BY DEF StageOf
<1>7. times_sent' = CountSent(b.off)
  BY <1>2 DEF SendApplication
<1>8. ASSUME NEW o \in S
      PROVE  TriesOf(o)' = IF TriesOf(o) < PriorityOf(o) + 1
                             THEN TriesOf(o) + 1 ELSE TriesOf(o)
  <2>1. o \in Nat /\ Holds(b, o)
    BY DEF Bytes
  <2>2. PriorityOf(o) = PriorityOf(b.off) /\ PriorityOf(b.off) \in 1 .. 3
    BY <1>1, <1>3, <2>1, BytePriority, PriorityRange
  <2>3. b.off \in DOMAIN times_sent' /\ TriesOf(o)' = times_sent'[b.off]
    BY <1>3, <1>4, <1>7, <2>1 DEF TriesAgree, Holds, CountSent
  <2>4. CASE b.off \notin DOMAIN times_sent
    <3>1. TriesOf(o) = 0
      BY <1>1, <1>3, <2>1, <2>4 DEF TriesAgree
    <3>2. times_sent'[b.off] = 1
      BY <1>7, <2>4 DEF CountSent
    <3> QED
      BY <2>2, <2>3, <3>1, <3>2
  <2>5. CASE b.off \in DOMAIN times_sent
    <3>1. TriesOf(o) = times_sent[b.off]
      BY <1>1, <1>3, <2>1, <2>5 DEF TriesAgree
    <3>2. times_sent'[b.off]
              = Smaller(times_sent[b.off] + 1, PriorityOf(b.off) + 1)
      BY <1>7, <2>5 DEF CountSent
    <3>3. /\ times_sent[b.off] \in Nat
          /\ times_sent[b.off] <= PriorityOf(b.off) + 1
      BY <2>2, <2>5 DEF MappedInv, TransferInv, BudgetInv
    <3> QED
      BY <2>2, <2>3, <3>1, <3>2, <3>3, SMTT(30) DEF Smaller
  <2> QED
    BY <2>4, <2>5
<1>9. ASSUME NEW o \in Bytes, o \notin S
      PROVE  TriesOf(o)' = TriesOf(o)
  <2>1. o \in Nat /\ ~Holds(b, o)
    BY <1>9 DEF Bytes
  <2>2. CASE o < total_offset
    <3>1. PICK c \in admitted : Holds(c, o)
      BY <1>1, <2>1, <2>2 DEF ChunkInv
    <3>2. c.off # b.off
      BY <1>1, <1>3, <2>1, <3>1, OneStart
    <3>3. /\ c.off \in DOMAIN times_sent' <=> c.off \in DOMAIN times_sent
          /\ c.off \in DOMAIN times_sent =>
                 times_sent'[c.off] = times_sent[c.off]
      BY <1>7, <3>2 DEF CountSent
    <3>4. TriesOf(o)' = IF c.off \in DOMAIN times_sent'
                          THEN times_sent'[c.off] ELSE 0
      BY <1>4, <2>1, <3>1 DEF TriesAgree, Holds
    <3>5. TriesOf(o) = IF c.off \in DOMAIN times_sent
                         THEN times_sent[c.off] ELSE 0
      BY <1>1, <2>1, <3>1 DEF TriesAgree
    <3> QED
      BY <3>3, <3>4, <3>5
  <2>3. CASE o >= total_offset
    BY <1>1, <1>4, <2>1, <2>3 DEF TriesAgree
  <2> QED
    BY <1>1, <2>1, <2>2, <2>3
<1>10. S \in SUBSET Bytes
  OBVIOUS
<1>a. \A o : o \in S => o \in Bytes
  OBVIOUS
<1> HIDE DEF S
<1>11. [o \in Bytes |-> TriesOf(o)'] =
           [o \in Bytes |-> IF o \in S /\ TriesOf(o) < PriorityOf(o) + 1
                              THEN TriesOf(o) + 1 ELSE TriesOf(o)]
  BY <1>8, <1>9
<1>12. D!Send(S)
  BY <1>4, <1>5, <1>6, <1>10, <1>11 DEF D!Send, Holds
<1> QED
  BY <1>10, <1>12 DEF D!DeliveryNext

\* A packet that arrives was sent, and carries a whole chunk.
LEMMA ReceiveMaps ==
    ASSUME MappedInv, NEW m \in net, PeerRecvApplication(m)
    PROVE  D!DeliveryNext
<1> DEFINE b == [off |-> m.off, len |-> m.len]
           S == {o \in Bytes : Holds(b, o)}
<1>1. TriesAgree /\ ChunkInv
  BY MappedFacts DEF MappedInv
<1>2. b \in admitted /\ m.off \in DOMAIN times_sent
  BY DEF PeerRecvApplication, MappedInv, TravelInv
<1>3. times_sent[m.off] \in Nat \ {0}
  BY <1>2 DEF MappedInv, TransferInv, BudgetInv
<1>4. b.off = m.off
  OBVIOUS
<1> HIDE DEF b
<1>5. \A o \in S : TriesOf(o) > 0
  BY <1>1, <1>2, <1>3, <1>4 DEF TriesAgree, Bytes
<1>6. UNCHANGED <<data, offset_recv, admitted, times_sent>>
  BY DEF PeerRecvApplication, sendBufVars, historyVars
<1>7. \A o : StageOf(o)' = StageOf(o) /\ TriesOf(o)' = TriesOf(o)
  BY <1>6, ByteFrame
<1>8. recv_dic' = recv_dic \cup {m.off}
  BY DEF PeerRecvApplication
<1>9. \A c \in admitted : c.off = m.off => c = b
  BY <1>1, <1>2, <1>4, OneStart
<1>10. {o \in Bytes : \E c \in admitted' : Holds(c, o) /\ c.off \in recv_dic'}
           = {o \in Bytes : \E c \in admitted :
                                Holds(c, o) /\ c.off \in recv_dic} \cup S
  BY <1>2, <1>4, <1>6, <1>8, <1>9
<1>11. S \in SUBSET Bytes
  OBVIOUS
<1> HIDE DEF S
<1>12. D!Reach(S)
  BY <1>5, <1>7, <1>10, <1>11 DEF D!Reach, Holds
<1> QED
  BY <1>11, <1>12 DEF D!DeliveryNext

\* process_ack settles chunks that were received or are spent.
LEMMA RecvAckMaps ==
    ASSUME MappedInv, StageAgrees', NEW m \in net, RecvAck(m)
    PROVE  D!DeliveryNext
<1> DEFINE S == {o \in Bytes : \E b \in data :
                     /\ Holds(b, o) /\ offset_recv[b.off]
                     /\ b.off \in SettledBy(m.recv)}
<1>1. /\ m.type = "ACK"
      /\ offset_recv' = [k \in DOMAIN offset_recv |->
                             offset_recv[k] /\ k \notin SettledBy(m.recv)]
      /\ UNCHANGED <<data, admitted, times_sent, recv_dic, total_offset>>
  BY DEF RecvAck, BufAckAndDrop, historyVars, peerVars
<1>2. /\ total_offset \in Nat /\ BufOK /\ TriesAgree /\ StageAgrees /\ ChunkInv
      /\ data \subseteq admitted
  BY MappedFacts, Zenon DEF MappedInv, TravelInv
<1>3. \A b \in data : b.off \in DOMAIN offset_recv
  BY <1>2 DEF BufOK, Offsets
<1>4. ASSUME NEW o \in Bytes
      PROVE  StageOf(o)' = IF o \in S THEN "settled" ELSE StageOf(o)
  <2>1. o \in Nat
    BY DEF Bytes
  <2>2. ASSUME NEW b \in data, Holds(b, o)
        PROVE  StageOf(o)' = IF o \in S THEN "settled" ELSE StageOf(o)
    <3>1. o \in S <=> offset_recv[b.off] /\ b.off \in SettledBy(m.recv)
      BY <1>2, <2>1, <2>2, OneHolder, Zenon
    <3>2. offset_recv'[b.off]
              <=> (offset_recv[b.off] /\ b.off \notin SettledBy(m.recv))
      BY <1>1, <1>3, Zenon
    <3>3. StageOf(o) = IF offset_recv[b.off] THEN "queued" ELSE "settled"
      BY <1>2, <2>1, <2>2 DEF StageAgrees
    <3>4. StageOf(o)' = IF offset_recv'[b.off] THEN "queued" ELSE "settled"
      BY <1>1, <2>1, <2>2, SMTT(30) DEF StageAgrees, Holds
    <3> HIDE DEF S
    <3>5. CASE offset_recv[b.off] /\ b.off \in SettledBy(m.recv)
      BY <3>1, <3>2, <3>4, <3>5, SMTT(30)
    <3>6. CASE offset_recv[b.off] /\ b.off \notin SettledBy(m.recv)
      BY <3>1, <3>2, <3>3, <3>4, <3>6, SMTT(30)
    <3>7. CASE ~offset_recv[b.off]
      BY <3>1, <3>2, <3>3, <3>4, <3>7, SMTT(30)
    <3> QED
      BY <3>5, <3>6, <3>7, Zenon
  <2>3. CASE ~\E b \in data : Holds(b, o)
    <3>1. o \notin S
      BY <2>3
    <3>2. StageOf(o)' = StageOf(o)
      BY <1>1, <2>3 DEF StageOf, Holds
    <3> QED
      BY <3>1, <3>2
  <2> QED
    BY <2>2, <2>3, Zenon
<1>5. ASSUME NEW o \in S
      PROVE  \/ \E b \in admitted : Holds(b, o) /\ b.off \in recv_dic
             \/ TriesOf(o) = PriorityOf(o) + 1
  <2>1. o \in Nat
    BY DEF Bytes
  <2>2. PICK b \in data : Holds(b, o) /\ b.off \in SettledBy(m.recv)
    OBVIOUS
  <2>3. b \in admitted
    BY <1>2
  <2>4. Truthful(m.recv)
    BY <1>1, Zenon DEF MappedInv, TransferInv, ReportInv
  <2>5. b.off \in recv_dic \/ (b.off \in DOMAIN sent_dic /\ sent_dic[b.off] = 0)
    BY <2>2, <2>4 DEF SettledBy, Truthful
  <2>6. ASSUME b.off \in DOMAIN sent_dic, sent_dic[b.off] = 0
        PROVE  TriesOf(o) = PriorityOf(o) + 1
    <3>1. PriorityOf(b.off) \in 1 .. 3 /\ U64 - 1 # 0
      BY PriorityRange, TransferAssumption, ArithmeticAssumption, SMTT(30)
    <3>2. /\ b.off \in DOMAIN times_sent
          /\ times_sent[b.off] = PriorityOf(b.off) + 1
      BY <2>6, <3>1 DEF MappedInv, TransferInv, BudgetInv
    <3>3. PriorityOf(o) = PriorityOf(b.off)
      BY <1>2, <2>1, <2>2, <2>3, BytePriority, SMTT(30)
    <3>4. TriesOf(o) = times_sent[b.off]
      BY <1>2, <2>1, <2>2, <2>3, <3>2, SMTT(30) DEF TriesAgree
    <3> QED
      BY <3>2, <3>3, <3>4, SMTT(30)
  <2> QED
    BY <2>2, <2>3, <2>5, <2>6, Zenon
<1>6. \A o \in S : o \in Bytes /\ StageOf(o) = "queued"
  BY <1>2 DEF StageAgrees, Bytes
<1> HIDE DEF S
<1>7. S \in SUBSET D!At("queued") /\ S \in SUBSET Bytes
  BY <1>6 DEF D!At
<1>8. \A o : TriesOf(o)' = TriesOf(o)
  BY <1>1 DEF TriesOf, Holds
<1>9. D!Settle(S)
  BY <1>1, <1>4, <1>5, <1>7, <1>8 DEF D!Settle, Holds
<1> QED
  BY <1>7, <1>9 DEF D!DeliveryNext


\* Every step of the transfer is a step of Delivery or changes nothing there.
LEMMA StepMaps ==
    ASSUME MappedInv, MappedInv', TriesAgree', StageAgrees',
           [TransferNext]_transferVars
    PROVE  [D!DeliveryNext]_(D!deliveryVars)
<1>1. CASE SendAll
  BY <1>1, SendAllMaps
<1>2. CASE SendApplication
  BY <1>2, SendApplicationMaps
<1>3. ASSUME NEW m \in net, PeerRecvApplication(m) PROVE D!DeliveryNext
  BY <1>3, ReceiveMaps
<1>4. ASSUME NEW m \in net, RecvAck(m) PROVE D!DeliveryNext
  BY <1>4, RecvAckMaps
<1>5. CASE /\ ~SendAll /\ ~SendApplication
           /\ ~\E m \in net : PeerRecvApplication(m) \/ RecvAck(m)
  <2>1. UNCHANGED <<admitted, times_sent>>
    BY <1>5, HistoryFrame
  <2>2. UNCHANGED recv_dic
    BY <1>5, ReceivedFrame, SMTT(30)
  <2>3. UNCHANGED <<data, offset_recv>>
    BY <1>5, BufferFrame DEF SendPanics, SendDone, BufEmit, sendBufVars
  <2>4. UNCHANGED mappedVars
    BY <2>1, <2>2, <2>3 DEF mappedVars
  <2> QED
    BY <2>4, MappedStutter
<1> QED
  BY <1>1, <1>2, <1>3, <1>4, <1>5

\* The transfer starts where Delivery starts.
LEMMA InitMaps == ASSUME TransferInit PROVE D!DeliveryInit
<1>1. data = {} /\ admitted = {}
  BY DEF TransferInit, SendBufInit
<1>2. \A o : StageOf(o) = "new" /\ TriesOf(o) = 0
  BY <1>1 DEF StageOf, TriesOf
<1> QED
  BY <1>1, <1>2 DEF D!DeliveryInit

\* The transfer keeps Delivery's promise: bytes are taken in stream order,
\* settled only when received or spent, dropped only when settled and never
\* sent again, whatever is lost, repeated or reordered and however send_all
\* cuts the stream into chunks.
THEOREM TransferImplementsDelivery == TransferSpec => ImplementsDelivery
<1>1. TransferInit => D!DeliveryInit
  BY InitMaps
<1>2. MappedInv => TriesAgree /\ StageAgrees
  BY MappedFacts
<1>3. (/\ MappedInv /\ MappedInv' /\ TriesAgree' /\ StageAgrees'
       /\ [TransferNext]_transferVars) => [D!DeliveryNext]_(D!deliveryVars)
  BY StepMaps
<1> QED
  BY <1>1, <1>2, <1>3, MappedInvHolds, PTL
     DEF TransferSpec, ImplementsDelivery, D!DeliverySpec
=============================================================================
