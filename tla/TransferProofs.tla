--------------------------- MODULE TransferProofs ---------------------------
(***************************************************************************)
(* Proofs about Transfer, for every data length, chunk size, choice of     *)
(* norms and bound on the network: no chunk is given up silently, the      *)
(* retransmission counter underflows only for a spent chunk, ElictAcks are *)
(* as long as they say, and what an announced or an oversized ACK leads to.*)
(***************************************************************************)
EXTENDS Transfer, SendBufProofs

\* A nonempty bounded set of natural numbers has a largest element.
LEMMA LargestElement ==
    ASSUME NEW S \in SUBSET Nat, NEW n \in Nat, \A x \in S : x <= n, S # {}
    PROVE  \E w \in S : \A x \in S : x <= w
<1> DEFINE T == {n - x : x \in S}
<1>1. T \subseteq Nat /\ T # {}
  <2>1. \A x \in S : n - x \in Nat
    OBVIOUS
  <2>2. PICK x \in S : TRUE
    BY Zenon
  <2> QED
    BY <2>1, <2>2, Zenon
<1> DEFINE R == OpToRel(<, Nat)
<1>2. \E y \in T : \A z \in T : ~(<<z, y>> \in R)
  <2> HIDE DEF T
  <2> QED
    BY <1>1, WFMin, NatLessThanWellFounded, Zenon
<1>3. PICK y \in T : \A z \in T : ~(<<z, y>> \in R)
  BY <1>2, Zenon
<1>4. \A z \in T : ~(z < y)
  <2> SUFFICES ASSUME NEW z \in T, z < y PROVE FALSE
    OBVIOUS
  <2>1. <<z, y>> \in R
    BY <1>1 DEF OpToRel
  <2> QED
    BY <1>3, <2>1, Zenon
<1> HIDE DEF R
<1>5. PICK w \in S : y = n - w
  OBVIOUS
<1>6. \A x \in S : n - x \in T
  BY Zenon
<1> HIDE DEF T
<1> QED
  BY <1>4, <1>5, <1>6
-----------------------------------------------------------------------------
(***************************************************************************)
(* The inductive invariant, in parts.                                      *)
(***************************************************************************)
\* The sender's buffer and windows.
WinOK ==
    /\ incre_win \in Nat /\ decre_win \in Nat
    /\ \E n \in Nat : former_win_vecter \subseteq 0 .. n

SenderInv ==
    /\ BufOK
    /\ WinOK
    /\ total_offset \in Nat /\ total_offset <= DataLen

\* sent_count, which decides when an ElictAck is due, counts the offsets that
\* it will name, until a panic comes between the two.
CountInv ==
    /\ unreported \in Seq(Nat) /\ sent_count \in Nat
    /\ app # "panicked" => sent_count = Len(unreported)
    /\ Len(unreported) <= ELICT_FLAG

\* Reports, on their way or in an ACK, are finite, and say "received" only
\* of what the receiver has.
Truthful(recv) ==
    /\ IsFiniteSet(DOMAIN recv)
    /\ \A o \in DOMAIN recv : recv[o] = 0 => o \in recv_dic

ReportInv ==
    /\ Truthful(recv_hashmap)
    /\ \A m \in net : m.type = "ACK" => Truthful(m.recv)
    /\ \A m \in net : m.type = "ElictAck" => IsFiniteSet(m.offs)

\* Retransmissions left and transmissions made add up to the budget until
\* the counter wraps around.
BudgetInv ==
    /\ DOMAIN sent_dic = DOMAIN times_sent
    /\ \A o \in DOMAIN sent_dic :
           /\ sent_dic[o] \in Nat /\ times_sent[o] \in Nat \ {0}
           /\ \/ sent_dic[o] + times_sent[o] = PriorityOf(o) + 1
              \/ sent_dic[o] = U64 - 1 /\ times_sent[o] = PriorityOf(o) + 1

TransferInv ==
    /\ SenderInv /\ CountInv /\ ReportInv /\ BudgetInv
    /\ NoSilentDrop
-----------------------------------------------------------------------------
(***************************************************************************)
(* Which steps may change what.                                            *)
(***************************************************************************)
\* Only send_all, send_data and ACKs touch the send buffer, and only
\* send_all and ACKs the windows.
LEMMA BufferFrame ==
    ASSUME [TransferNext]_transferVars
    PROVE  \/ SendAll \/ SendApplication \/ SendPanics \/ SendDone
           \/ \E m \in net : RecvAck(m)
           \/ UNCHANGED <<sendBufVars, recoveryVars, total_offset>>
BY Zenon DEF TransferNext, transferVars, connVars, SendAllFalse, SendHandshake,
       SendElictAck, Lose, RecvHandshake, RecvStop,
       PeerRecvHandshake, PeerRecvApplication, PeerRecvElictAck,
       PeerSendHandshake, PeerSendAck, PeerAckTooShort, PeerSendStop, PeerRead,
       PeerReadPanics

\* Nobody leaves a panic.
PanicStays == app = "panicked" => app' = "panicked"

\* Only the sender's send_data counts packets and lists offsets.
LEMMA CountFrame ==
    ASSUME [TransferNext]_transferVars
    PROVE  \/ SendApplication \/ SendPanics \/ SendElictAck
           \/ UNCHANGED <<unreported, sent_count>> /\ PanicStays
BY Zenon DEF TransferNext, transferVars, connVars, PanicStays, SendAll,
       SendAllFalse, SendHandshake, SendDone, Lose, RecvHandshake, RecvAck,
       RecvStop, PeerRecvHandshake, PeerRecvApplication, PeerRecvElictAck,
       PeerSendHandshake, PeerSendAck, PeerAckTooShort, PeerSendStop, PeerRead,
       PeerReadPanics

\* Only Application packets count transmissions, and only send_all takes
\* new chunks.
LEMMA HistoryFrame ==
    ASSUME [TransferNext]_transferVars
    PROVE  /\ SendApplication \/ UNCHANGED <<sent_dic, times_sent>>
           /\ SendAll \/ UNCHANGED admitted
<1> USE DEF transferVars, connVars, historyVars, SendAllFalse, SendHandshake,
       SendPanics, SendDone, SendElictAck, Lose, RecvHandshake, RecvAck,
       RecvStop, PeerRecvHandshake, PeerRecvApplication, PeerRecvElictAck,
       PeerSendHandshake, PeerSendAck, PeerAckTooShort, PeerSendStop, PeerRead,
       PeerReadPanics
<1>1. SendApplication \/ UNCHANGED <<sent_dic, times_sent>>
  BY Zenon DEF TransferNext, SendAll
<1>2. SendAll \/ UNCHANGED admitted
  BY Zenon DEF TransferNext, SendApplication
<1> QED
  BY <1>1, <1>2

\* The reports change when an ElictAck arrives or an ACK leaves, and what
\* the receiver has only grows.
LEMMA ReportFrame ==
    ASSUME [TransferNext]_transferVars
    PROVE  /\ \/ \E m \in net : PeerRecvElictAck(m)
              \/ PeerSendAck
              \/ UNCHANGED recv_hashmap
           /\ recv_dic \subseteq recv_dic'
<1> USE DEF transferVars, peerVars, SendAll, SendAllFalse, SendHandshake,
       SendApplication, SendPanics, SendDone, SendElictAck, Lose,
       RecvHandshake, RecvAck, RecvStop, PeerRecvHandshake,
       PeerRecvApplication, PeerSendHandshake, PeerAckTooShort, PeerSendStop,
       PeerRead, PeerReadPanics
<1>1. \/ \E m \in net : PeerRecvElictAck(m)
      \/ PeerSendAck
      \/ UNCHANGED recv_hashmap
  BY Zenon DEF TransferNext
<1>2. recv_dic \subseteq recv_dic'
  BY Zenon DEF TransferNext, PeerRecvElictAck, PeerSendAck
<1> QED
  BY <1>1, <1>2

\* A datagram is new only when one of the peers has just sent it.
LEMMA NetFrame ==
    ASSUME [TransferNext]_transferVars, NEW m \in net', m \notin net
    PROVE  \/ m = [type |-> "Handshake", to |-> "receiver"]
           \/ m = [type |-> "Handshake", to |-> "sender"]
           \/ m = [type |-> "Stop"]
           \/ m = [type |-> "Application", off |-> OffFront, len |-> EmitLen]
           \/ m = [type |-> "ElictAck",
                   offs |-> {unreported[i] : i \in 1 .. Len(unreported)}]
           \/ m = [type |-> "ACK", recv |-> recv_hashmap]
<1>1. ASSUME NEW d, Arrives(d) PROVE m \in net
  BY <1>1 DEF Arrives
<1>2. ASSUME NEW d, Transmit(d) PROVE m = d
  BY <1>2 DEF Transmit
<1>3. ASSUME UNCHANGED netVars PROVE FALSE
  BY <1>3 DEF netVars
<1>4. ASSUME NEW d, Lose(d) PROVE FALSE
  BY <1>4 DEF Lose
<1> QED
  BY <1>1, <1>2, <1>3, <1>4, Zenon
     DEF TransferNext, transferVars, SendAll, SendAllFalse, SendHandshake,
         SendApplication, SendPanics, SendDone, SendElictAck, RecvHandshake,
         RecvAck, RecvStop, PeerRecvHandshake, PeerRecvApplication,
         PeerRecvElictAck, PeerSendHandshake, PeerSendAck, PeerAckTooShort,
         PeerSendStop, PeerRead, PeerReadPanics
-----------------------------------------------------------------------------
\* The floor of the window is a natural number.
LEMMA IniWinType == INI_WIN \in Nat
BY RecoveryAssumption DEF INI_WIN

\* cwnd and rollback hand out natural numbers.
LEMMA WriteWindowType ==
    ASSUME WinOK
    PROVE  TmpWin \in Nat /\ FlooredWin \in Nat /\ RolledBackWin \in Nat
<1>1. TmpWin \in Nat /\ FlooredWin \in Nat
  BY IniWinType DEF WinOK, TmpWin, FlooredWin
<1>2. CASE former_win_vecter = {}
  BY <1>1, <1>2, IniWinType DEF RolledBackWin
<1>3. CASE former_win_vecter # {}
  <2>1. PICK n \in Nat : former_win_vecter \subseteq 0 .. n
    BY DEF WinOK
  <2>2. former_win_vecter \in SUBSET Nat /\ \A x \in former_win_vecter : x <= n
    BY <2>1
  <2>3. \E w \in former_win_vecter : \A x \in former_win_vecter : x <= w
    BY <1>3, <2>2, LargestElement, Zenon
  <2>4. RolledBackWin \in former_win_vecter
    BY <1>3, <2>3 DEF RolledBackWin
  <2> QED
    BY <1>1, <2>2, <2>4
<1> QED
  BY <1>2, <1>3

\* cwnd and rollback leave the windows well typed.
LEMMA WindowStep ==
    ASSUME WinOK, Cwnd \/ Rollback
    PROVE  WinOK'
<1>1. PICK n \in Nat : former_win_vecter \subseteq 0 .. n
  BY DEF WinOK
<1>2. TmpWin \in Nat
  BY WriteWindowType
<1>3. CASE Cwnd
  <2>1. former_win_vecter' \subseteq 0 .. (n + TmpWin)
    BY <1>1, <1>2, <1>3 DEF Cwnd
  <2>2. n + TmpWin \in Nat
    BY <1>2
  <2>3. \E k \in Nat : former_win_vecter' \subseteq 0 .. k
    BY <2>1, <2>2, Zenon
  <2> QED
    BY <1>3, <2>3 DEF Cwnd, WinOK
<1>4. CASE Rollback
  <2>1. former_win_vecter' \subseteq 0 .. n
    BY <1>1, <1>4, Zenon DEF Rollback
  <2> QED
    BY <1>4, <2>1 DEF Rollback, WinOK
<1> QED
  BY <1>3, <1>4

\* update_win adds natural numbers.
LEMMA UpdateWinStep ==
    ASSUME WinOK, NEW v \in Nat, NEW num \in Nat, UpdateWin(v, num)
    PROVE  WinOK'
<1>1. PICK a \in WinAdds(v) :
          /\ IF a[1] > 0
               THEN /\ incre_win' = incre_win + a[1] \div a[2]
                    /\ UNCHANGED decre_win
               ELSE /\ decre_win' = decre_win + (-a[1]) \div a[2]
                    /\ UNCHANGED incre_win
          /\ UNCHANGED former_win_vecter
  BY DEF UpdateWin
<1>2. a[1] \in Int /\ a[2] \in Nat \ {0}
  <2>1. Outer(v) \in Int /\ Inner(v) \in Int
    BY RecoveryAssumption DEF Outer, Inner
  <2>2. OuterDen \in Nat \ {0} /\ InnerDen \in Nat \ {0}
    BY DEF OuterDen, InnerDen
  <2> QED
    BY <2>1, <2>2 DEF WinAdds
<1>3. \A x \in Nat : x \div a[2] \in Nat
  BY <1>2
<1>4. incre_win' \in Nat /\ decre_win' \in Nat
  <2>1. CASE a[1] > 0
    BY <2>1, <1>1, <1>2, <1>3 DEF WinOK
  <2>2. CASE ~(a[1] > 0)
    <3>1. -a[1] \in Nat
      BY <2>2, <1>2
    <3> QED
      BY <2>2, <3>1, <1>1, <1>3 DEF WinOK
  <2> QED
    BY <2>1, <2>2
<1> QED
  BY <1>1, <1>4, Zenon DEF WinOK

\* The bytes missing to a block boundary.
LEMMA OffLenType == ASSUME total_offset \in Nat PROVE OffLen \in Nat
<1>1. total_offset % SEND_BUFFER_SIZE \in 0 .. (SEND_BUFFER_SIZE - 1)
  BY SizeAssumption
<1> QED
  BY <1>1, SizeAssumption DEF OffLen

\* The offset emit sends next.
LEMMA OffFrontType == ASSUME BufOK PROVE OffFront \in Nat
<1>1. \A b \in Front : b \in Chunk
  BY DEF Front, BufOK
<1>2. CASE Front # {}
  BY <1>1, <1>2 DEF OffFront, Chunk
<1> QED
  BY <1>2 DEF OffFront, BufOK

\* Any subset of the chunks an ACK speaks of can be counted.
LEMMA LossType ==
    ASSUME NEW recv, IsFiniteSet(DOMAIN recv)
    PROVE  LossWeight(recv) \in Nat /\ Cardinality(DOMAIN recv) \in Nat
<1>1. ASSUME NEW p PROVE Cardinality(LostOf(recv, p)) \in Nat
  <2>1. LostOf(recv, p) \in SUBSET (DOMAIN recv)
    BY DEF LostOf
  <2> QED
    BY <2>1, FS_Subset, FS_CardinalityType
<1> QED
  BY <1>1, FS_CardinalityType DEF LossWeight
-----------------------------------------------------------------------------
(***************************************************************************)
(* Every step keeps every part.                                            *)
(***************************************************************************)
\* The buffer stays paired with its flags, and the windows typed.
LEMMA SenderStep ==
    ASSUME TransferInv, [TransferNext]_transferVars
    PROVE  SenderInv'
<1> USE DEF TransferInv, SenderInv
<1>1. CASE SendAll
  <2> DEFINE n == DataLen - total_offset
             w == WriteWindow
  <2>1. n \in Nat /\ w \in Nat
    BY WriteWindowType, TransferAssumption DEF WriteWindow
  <2>2. OffLen \in Nat
    BY OffLenType
  <2>3. BufWrite(n, w, OffLen)
    BY <1>1 DEF SendAll
  <2>4. BufOK'
    BY <2>1, <2>2, <2>3, BufWriteKeepsOK
  <2>5. Accepted(n, w) \in Nat /\ Accepted(n, w) <= n
    BY <2>1, AcceptedType, Zenon
  <2>6. total_offset' = total_offset + Accepted(n, w)
    BY <1>1 DEF SendAll, NewBytes
  <2>7. WinOK'
    BY <1>1, WindowStep DEF SendAll
  <2>8. total_offset' \in Nat /\ total_offset' <= DataLen
    BY <2>5, <2>6, TransferAssumption
  <2> QED
    BY <2>4, <2>7, <2>8
<1>2. CASE SendApplication \/ SendPanics \/ SendDone
  <2>1. BufEmit /\ UNCHANGED <<recoveryVars, total_offset>>
    BY <1>2 DEF SendApplication, SendPanics, SendDone
  <2>2. BufOK'
    BY <2>1, BufEmitKeepsOK
  <2> QED
    BY <2>1, <2>2 DEF recoveryVars, WinOK
<1>3. ASSUME NEW m \in net, RecvAck(m) PROVE SenderInv'
  <2>1. /\ BufAckAndDrop(SettledBy(m.recv)) /\ m.type = "ACK"
        /\ UpdateWin(LossWeight(m.recv), Cardinality(DOMAIN m.recv))
        /\ total_offset' = total_offset
    BY <1>3 DEF RecvAck
  <2>2. BufOK'
    BY <2>1, BufAckAndDropKeepsOK
  <2>3. IsFiniteSet(DOMAIN m.recv)
    BY <2>1 DEF ReportInv, Truthful
  <2>4. WinOK'
    BY <2>1, <2>3, LossType, UpdateWinStep
  <2> QED
    BY <2>1, <2>2, <2>4
<1>4. CASE UNCHANGED <<sendBufVars, recoveryVars, total_offset>>
  BY <1>4 DEF sendBufVars, recoveryVars, WinOK, BufOK, Offsets, Apart
<1> QED
  BY <1>1, <1>2, <1>3, <1>4, BufferFrame

\* sent_count and the offsets not yet reported are kept in step.
LEMMA CountStep ==
    ASSUME TransferInv, [TransferNext]_transferVars
    PROVE  CountInv'
<1> USE DEF TransferInv, CountInv
<1>1. CASE SendApplication
  <2>1. sent_count' = sent_count + 1 /\ unreported' = Append(unreported, OffFront)
        /\ SenderType = "Application" /\ app = "sending" /\ app' = app
    BY <1>1 DEF SendApplication
  <2>2. OffFront \in Nat
    BY OffFrontType DEF SenderInv
  <2>3. unreported' \in Seq(Nat) /\ Len(unreported') = Len(unreported) + 1
    BY <2>1, <2>2
  <2>4. ~(sent_count % ELICT_FLAG = 0 /\ sent_count > 0)
    BY <2>1 DEF SenderType
  <2>5. Len(unreported) \in Nat
    OBVIOUS
  <2>6. ELICT_FLAG \in Nat \ {0} /\ ELICT_FLAG % ELICT_FLAG = 0
    BY TransferAssumption
  <2>7. sent_count # ELICT_FLAG
    BY <2>4, <2>6
  <2> QED
    BY <2>1, <2>3, <2>5, <2>6, <2>7
<1>2. CASE SendElictAck
  <2>1. sent_count' = 0 /\ unreported' = <<>>
    BY <1>2 DEF SendElictAck
  <2> QED
    BY <2>1, TransferAssumption
<1>3. CASE SendPanics
  BY <1>3 DEF SendPanics
<1>4. CASE UNCHANGED <<unreported, sent_count>> /\ PanicStays
  BY <1>4 DEF PanicStays
<1> QED
  BY <1>1, <1>2, <1>3, <1>4, CountFrame

\* No report says more than the receiver knows.
LEMMA ReportStep ==
    ASSUME TransferInv, [TransferNext]_transferVars
    PROVE  ReportInv'
<1> USE DEF TransferInv, ReportInv
<1>1. recv_dic \subseteq recv_dic'
  BY ReportFrame
<1>2. ASSUME NEW recv, Truthful(recv) PROVE Truthful(recv)'
  BY <1>1, <1>2 DEF Truthful
<1>3. IsFiniteSet({unreported[i] : i \in 1 .. Len(unreported)})
  <2> DEFINE f == [i \in 1 .. Len(unreported) |-> unreported[i]]
             T == {unreported[i] : i \in 1 .. Len(unreported)}
  <2>1. f \in Surjection(1 .. Len(unreported), T)
    BY DEF Surjection
  <2>2. IsFiniteSet(1 .. Len(unreported))
    BY FS_Interval DEF CountInv
  <2> HIDE DEF f, T
  <2>3. IsFiniteSet(T)
    BY <2>1, <2>2, FS_Surjection
  <2> QED
    BY <2>3 DEF T
<1>4. Truthful(recv_hashmap)'
  <2>1. ASSUME NEW m \in net, PeerRecvElictAck(m) PROVE Truthful(recv_hashmap)'
    <3>1. m.type = "ElictAck" /\ recv_hashmap' = CheckLoss(m.offs)
          /\ recv_dic' = recv_dic
      BY <2>1 DEF PeerRecvElictAck
    <3>2. IsFiniteSet(DOMAIN recv_hashmap \cup m.offs)
      BY <3>1, FS_Union, Zenon DEF Truthful
    <3> QED
      BY <3>1, <3>2 DEF Truthful, CheckLoss
  <2>2. CASE PeerSendAck
    <3>1. recv_hashmap' = EmptyMap
      BY <2>2 DEF PeerSendAck
    <3>2. DOMAIN EmptyMap = {}
      BY DEF EmptyMap
    <3> QED
      BY <3>1, <3>2, FS_EmptySet DEF Truthful
  <2>3. CASE UNCHANGED recv_hashmap
    BY <2>3, <1>2 DEF Truthful
  <2> QED
    BY <2>1, <2>2, <2>3, ReportFrame
<1>5. ASSUME NEW m \in net', m.type = "ACK" PROVE Truthful(m.recv)'
  <2>1. CASE m \in net
    BY <2>1, <1>2, <1>5
  <2>2. CASE m \notin net
    <3>1. m.recv = recv_hashmap
      BY <2>2, <1>5, NetFrame
    <3> QED
      BY <3>1, <1>2
  <2> QED
    BY <2>1, <2>2
<1>6. ASSUME NEW m \in net', m.type = "ElictAck" PROVE IsFiniteSet(m.offs)
  <2>1. CASE m \in net
    BY <2>1, <1>6
  <2>2. CASE m \notin net
    <3>1. m.offs = {unreported[i] : i \in 1 .. Len(unreported)}
      BY <2>2, <1>6, NetFrame
    <3> QED
      BY <3>1, <1>3
  <2> QED
    BY <2>1, <2>2
<1> QED
  BY <1>4, <1>5, <1>6

\* The budget is one of the three priorities, whatever the norms.
LEMMA PriorityRange == \A o : PriorityOf(o) \in 1 .. 3
BY DEF PriorityOf

\* A chunk that has no retransmission left was sent priority + 1 times.
LEMMA SpentIsExhausted ==
    ASSUME BudgetInv, NEW o \in DOMAIN sent_dic, sent_dic[o] = 0
    PROVE  Exhausted(o)
<1>1. PriorityOf(o) \in 1 .. 3 /\ U64 - 1 # 0
  BY PriorityRange, TransferAssumption, ArithmeticAssumption
<1> QED
  BY <1>1 DEF BudgetInv, Exhausted

\* Sending a chunk spends what the history counts.
LEMMA BudgetStep ==
    ASSUME TransferInv, [TransferNext]_transferVars
    PROVE  BudgetInv'
<1> USE DEF TransferInv
<1>1. CASE SendApplication
  <2> DEFINE o == OffFront
             P == PriorityOf(o)
  <2>1. sent_dic' = SpendBudget(o) /\ times_sent' = CountSent(o)
    BY <1>1 DEF SendApplication
  <2>2. /\ DOMAIN sent_dic' = DOMAIN sent_dic \cup {o}
        /\ DOMAIN times_sent' = DOMAIN times_sent \cup {o}
    BY <2>1 DEF SpendBudget, CountSent
  <2>3. ASSUME NEW k \in DOMAIN sent_dic, k # o
        PROVE  sent_dic'[k] = sent_dic[k] /\ times_sent'[k] = times_sent[k]
    BY <2>1, <2>3 DEF SpendBudget, CountSent, BudgetInv
  <2>4. P \in 1 .. 3 /\ U64 \in Nat /\ U64 > 4
    BY PriorityRange, TransferAssumption, ArithmeticAssumption
  <2>5. CASE o \notin DOMAIN sent_dic
    <3>1. sent_dic'[o] = P /\ times_sent'[o] = 1
      BY <2>1, <2>5 DEF SpendBudget, CountSent, BudgetInv
    <3> QED
      BY <2>2, <2>3, <2>4, <3>1 DEF BudgetInv
  <2>6. CASE o \in DOMAIN sent_dic
    <3>1. /\ sent_dic'[o] = LessOne(sent_dic[o])
          /\ times_sent'[o] = Smaller(times_sent[o] + 1, P + 1)
      BY <2>1, <2>6 DEF SpendBudget, CountSent, BudgetInv
    <3>2. /\ sent_dic[o] \in Nat /\ times_sent[o] \in Nat \ {0}
          /\ \/ sent_dic[o] + times_sent[o] = P + 1
             \/ sent_dic[o] = U64 - 1 /\ times_sent[o] = P + 1
      BY <2>6 DEF BudgetInv
    <3> HIDE DEF P
    <3>3. CASE sent_dic[o] = U64 - 1 /\ times_sent[o] = P + 1
      <4>1. sent_dic'[o] = U64 - 1 /\ times_sent'[o] = P + 1
        BY <3>1, <3>3, <2>4 DEF LessOne, Smaller
      <4> QED
        BY <4>1, <2>2, <2>3, <2>4 DEF BudgetInv, P
    <3>4. CASE sent_dic[o] + times_sent[o] = P + 1 /\ sent_dic[o] > 0
      <4>1. sent_dic[o] - 1 \in 0 .. (U64 - 1) /\ sent_dic[o] # U64 - 1
        BY <3>2, <3>4, <2>4
      <4>2. (sent_dic[o] - 1) % U64 = sent_dic[o] - 1
        BY <4>1, <2>4
      <4>3. sent_dic'[o] = sent_dic[o] - 1 /\ times_sent'[o] = times_sent[o] + 1
        BY <3>1, <3>2, <3>4, <4>1, <4>2, <2>4 DEF LessOne, Smaller
      <4>4. /\ sent_dic'[o] \in Nat /\ times_sent'[o] \in Nat \ {0}
            /\ sent_dic'[o] + times_sent'[o] = P + 1
        BY <4>3, <3>2, <3>4, <2>4
      <4> QED
        BY <4>4, <2>2, <2>3 DEF BudgetInv, P
    <3>5. CASE sent_dic[o] + times_sent[o] = P + 1 /\ sent_dic[o] = 0
      <4>1. (0 - 1) % U64 = U64 - 1
        BY <2>4
      <4>2. sent_dic'[o] = U64 - 1 /\ times_sent'[o] = P + 1
        BY <3>1, <3>2, <3>5, <4>1, <2>4 DEF LessOne, Smaller
      <4>3. sent_dic'[o] \in Nat /\ times_sent'[o] \in Nat \ {0}
        BY <4>2, <2>4
      <4> QED
        BY <4>2, <4>3, <2>2, <2>3 DEF BudgetInv, P
    <3> QED
      BY <3>2, <3>3, <3>4, <3>5
  <2> QED
    BY <2>5, <2>6
<1>2. CASE UNCHANGED <<sent_dic, times_sent>>
  BY <1>2 DEF BudgetInv
<1> QED
  BY <1>1, <1>2, HistoryFrame

\* A chunk that is exhausted stays so: transmissions are only counted up.
LEMMA ExhaustedStays ==
    ASSUME TransferInv, [TransferNext]_transferVars, NEW k, Exhausted(k)
    PROVE  Exhausted(k)'
<1>1. CASE SendApplication
  <2>1. times_sent' = CountSent(OffFront)
    BY <1>1 DEF SendApplication
  <2>2. k \in DOMAIN times_sent' /\ PriorityOf(k) \in 1 .. 3
    BY <2>1, PriorityRange DEF CountSent, Exhausted
  <2>3. CASE k # OffFront
    BY <2>1, <2>2, <2>3 DEF CountSent, Exhausted
  <2>4. CASE k = OffFront
    <3>1. times_sent'[k] = Smaller(times_sent[k] + 1, PriorityOf(k) + 1)
      BY <2>1, <2>4 DEF CountSent, Exhausted
    <3>2. times_sent[k] \in Nat /\ times_sent[k] > PriorityOf(k)
      BY DEF TransferInv, BudgetInv, Exhausted
    <3>3. times_sent'[k] > PriorityOf(k)
      BY <2>2, <3>1, <3>2 DEF Smaller
    <3> QED
      BY <2>2, <3>3 DEF Exhausted
  <2> QED
    BY <2>3, <2>4
<1>2. CASE UNCHANGED times_sent
  BY <1>2 DEF Exhausted
<1> QED
  BY <1>1, <1>2, HistoryFrame

\* Chunks lose their flag only when received or spent.
LEMMA DropStep ==
    ASSUME TransferInv, [TransferNext]_transferVars
    PROVE  NoSilentDrop'
<1> USE DEF TransferInv
<1>1. SUFFICES ASSUME NEW b \in admitted'
               PROVE  Buffered(b)' \/ (b.off \in recv_dic') \/ Exhausted(b.off)'
  BY DEF NoSilentDrop
<1>2. recv_dic \subseteq recv_dic'
  BY ReportFrame
<1>3. CASE b \notin admitted
  <2>1. SendAll
    BY <1>1, <1>3, HistoryFrame
  <2>2. b \in NewChunks(NewBytes, OffLen)
    BY <1>1, <1>3, <2>1 DEF SendAll
  <2>3. BufWrite(DataLen - total_offset, WriteWindow, OffLen)
    BY <2>1 DEF SendAll
  <2>4. b \in data' /\ b.off \in Offsets(NewChunks(NewBytes, OffLen))
    BY <2>2, <2>3, SMTT(30) DEF BufWrite, NewBytes, Offsets
  <2>5. b.off \in DOMAIN offset_recv' /\ offset_recv'[b.off] = TRUE
    BY <2>3, <2>4 DEF BufWrite, NewBytes
  <2> QED
    BY <2>4, <2>5 DEF Buffered
<1>4. CASE b \in admitted /\ (b.off \in recv_dic \/ Exhausted(b.off))
  BY <1>2, <1>4, ExhaustedStays
<1>5. CASE Buffered(b)
  <2>1. b \in data /\ b.off \in DOMAIN offset_recv /\ offset_recv[b.off] = TRUE
    BY <1>5 DEF Buffered, SenderInv, BufOK
  <2>2. CASE SendAll
    <3>1. b \in Kept
      BY <2>1, KeptIsWanted DEF SenderInv
    <3>2. b.off \in DOMAIN Wanted /\ Wanted[b.off] = TRUE
      BY <2>1 DEF Wanted
    <3>3. BufWrite(DataLen - total_offset, WriteWindow, OffLen)
      BY <2>2, SMTT(30) DEF SendAll
    <3>4. b \in data' /\ b.off \in DOMAIN offset_recv'
          /\ offset_recv'[b.off] = TRUE
      BY <3>1, <3>2, <3>3 DEF BufWrite
    <3> QED
      BY <3>4 DEF Buffered
  <2>3. CASE SendApplication \/ SendPanics \/ SendDone
    <3>1. BufEmit
      BY <2>3 DEF SendApplication, SendPanics, SendDone
    <3>2. data' = data /\ offset_recv' = offset_recv
      BY <3>1 DEF BufEmit
    <3> QED
      BY <2>1, <3>2, SMTT(30) DEF Buffered
  <2>4. ASSUME NEW m \in net, RecvAck(m)
        PROVE  Buffered(b)' \/ (b.off \in recv_dic') \/ Exhausted(b.off)'
    <3>1. m.type = "ACK" /\ BufAckAndDrop(SettledBy(m.recv))
      BY <2>4 DEF RecvAck
    <3>2. CASE b.off \notin SettledBy(m.recv)
      BY <2>1, <3>1, <3>2, Zenon DEF BufAckAndDrop, Buffered
    <3>3. CASE b.off \in SettledBy(m.recv)
      <4>1. Truthful(m.recv)
        BY <3>1, SMTT(30) DEF ReportInv
      <4>2. b.off \in recv_dic \/ Exhausted(b.off)
        BY <3>3, <4>1, SpentIsExhausted, SMTT(30) DEF SettledBy, Truthful
      <4> QED
        BY <4>2, <1>2, ExhaustedStays
    <3> QED
      BY <3>2, <3>3
  <2>5. CASE UNCHANGED <<sendBufVars, recoveryVars, total_offset>>
    BY <2>1, <2>5, Zenon DEF sendBufVars, Buffered
  <2> QED
    BY <2>2, <2>3, <2>4, <2>5, BufferFrame
<1> QED
  BY <1>3, <1>4, <1>5 DEF NoSilentDrop

\* The invariant holds at the start.
LEMMA TransferInitHolds == ASSUME TransferInit PROVE TransferInv
<1> USE DEF TransferInit, EmptyMap
<1>1. BufOK
  BY FS_EmptySet DEF SendBufInit, BufOK, Offsets
<1>2. WinOK
  <2>1. former_win_vecter \subseteq 0 .. 0
    BY DEF RecoveryInit
  <2> QED
    BY <2>1 DEF RecoveryInit, WinOK
<1>3. SenderInv
  BY <1>1, <1>2, TransferAssumption DEF SenderInv
<1>4. CountInv
  BY TransferAssumption DEF CountInv
<1>5. ReportInv
  BY FS_EmptySet DEF ReportInv, Truthful
<1>6. BudgetInv
  BY DEF BudgetInv
<1>7. NoSilentDrop
  BY DEF NoSilentDrop
<1> QED
  BY <1>3, <1>4, <1>5, <1>6, <1>7, SMTT(30) DEF TransferInv

\* The invariant holds in every reachable state.
THEOREM TransferInvHolds == TransferSpec => []TransferInv
<1>1. TransferInv /\ [TransferNext]_transferVars => TransferInv'
  <2> SUFFICES ASSUME TransferInv, [TransferNext]_transferVars
               PROVE  TransferInv'
    OBVIOUS
  <2>1. SenderInv' /\ CountInv' /\ ReportInv'
    BY SenderStep, CountStep, ReportStep
  <2>2. BudgetInv' /\ NoSilentDrop'
    BY BudgetStep, DropStep
  <2> QED
    BY <2>1, <2>2 DEF TransferInv
<1> QED
  BY <1>1, TransferInitHolds, PTL DEF TransferSpec

\* The sender forgets a chunk only when the receiver has it or when it was
\* sent priority + 1 times, for every data length, priority and loss pattern.
THEOREM DropsAreJustified == TransferSpec => []NoSilentDrop
<1>1. TransferInv => NoSilentDrop
  BY DEF TransferInv
<1> QED
  BY <1>1, TransferInvHolds, PTL

\* A step that panics meets a chunk whose budget is spent.
LEMMA PanicStep ==
    ASSUME TransferInv, [TransferNext]_transferVars,
           app # "panicked", app' = "panicked"
    PROVE  Exhausted(OffFront)
<1>1. SendPanics
  BY Zenon DEF TransferNext, transferVars, connVars, SendAll, SendAllFalse,
         SendHandshake, SendApplication, SendDone, SendElictAck, Lose,
         RecvHandshake, RecvAck, RecvStop, PeerRecvHandshake,
         PeerRecvApplication, PeerRecvElictAck, PeerSendHandshake, PeerSendAck,
         PeerAckTooShort, PeerSendStop, PeerRead, PeerReadPanics
<1>2. BudgetUnderflow
  BY <1>1 DEF SendPanics
<1> QED
  BY <1>2, SpentIsExhausted DEF BudgetUnderflow, TransferInv

\* The retransmission counter underflows only for a chunk whose budget is
\* spent.
THEOREM PanicIsJustified == TransferSpec => PanicOnlyWhenExhausted
<1>1. TransferInv /\ [TransferNext]_transferVars
      => [(app # "panicked" /\ app' = "panicked")
              => Exhausted(OffFront)]_transferVars
  BY PanicStep
<1> QED
  BY <1>1, TransferInvHolds, PTL DEF TransferSpec, PanicOnlyWhenExhausted

\* No ElictAck names more than ELICT_FLAG offsets, and one in mid-window
\* names exactly that many.
THEOREM ElictAckLength == TransferSpec => []ElictAckFull
<1>1. TransferInv => ElictAckFull
  <2> SUFFICES ASSUME TransferInv PROVE ElictAckFull
    OBVIOUS
  <2>1. /\ Len(unreported) \in Nat /\ Len(unreported) <= ELICT_FLAG
        /\ app # "panicked" => sent_count = Len(unreported)
    BY DEF TransferInv, CountInv
  <2>2. ASSUME SenderType = "ElictAck", ~stop_flag
        PROVE  sent_count % ELICT_FLAG = 0 /\ sent_count > 0
    BY <2>2 DEF SenderType
  <2>3. ASSUME Len(unreported) % ELICT_FLAG = 0, Len(unreported) > 0
        PROVE  Len(unreported) = ELICT_FLAG
    <3>1. Len(unreported) < ELICT_FLAG
          => Len(unreported) % ELICT_FLAG = Len(unreported)
      BY <2>1, TransferAssumption
    <3> QED
      BY <2>1, <2>3, <3>1, TransferAssumption
  <2> QED
    BY <2>1, <2>2, <2>3 DEF ElictAckFull
<1> QED
  BY <1>1, TransferInvHolds, PTL

\* When send_ack() says that an answer is due, send_data answers.
THEOREM FeedbackIsAnswered == TransferSpec => []FeedbackAnswered
<1>1. TransferInit => FeedbackAnswered
  BY DEF TransferInit, FeedbackAnswered
<1>2. FeedbackAnswered /\ [TransferNext]_transferVars => FeedbackAnswered'
  <2> SUFFICES ASSUME FeedbackAnswered, [TransferNext]_transferVars
               PROVE  FeedbackAnswered'
    OBVIOUS
  <2>1. \/ feed_back' = FALSE
        \/ handshake_confirmed' = FALSE
        \/ recv_flag' = TRUE
        \/ UNCHANGED <<feed_back, handshake_confirmed, recv_flag>>
    BY Zenon DEF TransferNext, transferVars, peerVars,
           SendAll, SendAllFalse, SendHandshake, SendApplication, SendPanics,
           SendDone, SendElictAck, Lose, RecvHandshake, RecvAck, RecvStop,
           PeerRecvHandshake, PeerRecvApplication, PeerRecvElictAck,
           PeerSendHandshake, PeerSendAck, PeerAckTooShort, PeerSendStop,
           PeerRead, PeerReadPanics
  <2>2. CASE handshake_confirmed' = FALSE
    BY <2>2 DEF FeedbackAnswered, PeerType
  <2>3. CASE recv_flag' = TRUE
    <3>1. PeerType' \in {"Handshake", "ACK"}
      BY <2>3 DEF PeerType
    <3> QED
      BY <3>1 DEF FeedbackAnswered
  <2>4. CASE UNCHANGED <<feed_back, handshake_confirmed, recv_flag>>
    BY <2>4 DEF FeedbackAnswered, PeerType
  <2> QED
    BY <2>1, <2>2, <2>3, <2>4, Zenon DEF FeedbackAnswered
<1> QED
  BY <1>1, <1>2, PTL DEF TransferSpec

\* Reports that do not fit into one ACK are never cut down again.
THEOREM OversizedForGood == TransferSpec => OversizedAckStays
<1>1. TransferInv /\ TransferInv' /\ [TransferNext]_transferVars
          => (AckOversized => AckOversized')
  <2> SUFFICES ASSUME TransferInv, TransferInv', [TransferNext]_transferVars,
                      AckOversized
               PROVE  AckOversized'
    OBVIOUS
  <2>1. ASSUME NEW m \in net, PeerRecvElictAck(m) PROVE AckOversized'
    <3>1. DOMAIN recv_hashmap \in SUBSET DOMAIN recv_hashmap'
      BY <2>1 DEF PeerRecvElictAck, CheckLoss
    <3>2. IsFiniteSet(DOMAIN recv_hashmap')
      BY DEF TransferInv, ReportInv, Truthful
    <3>3. /\ Cardinality(DOMAIN recv_hashmap)
                 <= Cardinality(DOMAIN recv_hashmap')
          /\ Cardinality(DOMAIN recv_hashmap) \in Nat
          /\ Cardinality(DOMAIN recv_hashmap') \in Nat
      BY <3>1, <3>2, FS_Subset, FS_CardinalityType
    <3> QED
      BY <3>3, TransferAssumption DEF AckOversized
  <2>2. ~PeerSendAck
    BY DEF PeerSendAck
  <2> QED
    BY <2>1, <2>2, ReportFrame DEF AckOversized
<1> QED
  BY <1>1, TransferInvHolds, PTL DEF TransferSpec, OversizedAckStays

-----------------------------------------------------------------------------
(***************************************************************************)
(* The types.                                                              *)
(***************************************************************************)
\* A chunk on the wire names an offset: what the receiver puts into recv_dic.
NetOffsets == \A m \in net : m.type = "Application" => m.off \in Nat

\* What emit takes from the buffer is a natural number.
LEMMA EmitLenType == ASSUME BufOK PROVE EmitLen \in Nat
<1>1. \A b \in Front : b.len \in Nat
  BY DEF Front, BufOK, Chunk
<1>2. CASE Front # {}
  BY <1>1, <1>2, SizeAssumption DEF EmitLen, Smaller
<1> QED
  BY <1>2, SizeAssumption DEF EmitLen

\* The buffer's counters and the last window stay numbers.
LEMMA NumbersStep ==
    ASSUME TransferInv, TransferTypeOK, [TransferNext]_transferVars
    PROVE  /\ pos' \in Nat /\ len' \in Int /\ sent' \in Nat /\ max_data' \in Nat
           /\ congestion_window' \in Nat
<1> USE DEF TransferInv, SenderInv
<1>1. /\ pos \in Nat /\ len \in Int /\ sent \in Nat /\ max_data \in Nat
      /\ congestion_window \in Nat
  BY DEF TransferTypeOK
<1>2. CASE SendAll
  <2> DEFINE n == DataLen - total_offset
             w == WriteWindow
  <2>1. n \in Nat /\ w \in Nat
    BY WriteWindowType, TransferAssumption DEF WriteWindow
  <2>2. BufWrite(n, w, OffLen)
    BY <1>2 DEF SendAll
  <2>3. congestion_window' \in {FlooredWin, RolledBackWin}
    BY <1>2 DEF SendAll, Cwnd, Rollback
  <2> HIDE DEF n, w
  <2>4. Accepted(n, w) \in Nat
    BY <2>1, AcceptedType
  <2>5. BytesIn(Kept) \in Nat
    <3>1. Kept \in SUBSET data
      BY DEF Kept
    <3>2. Kept \in SUBSET Chunk /\ IsFiniteSet(Kept)
      BY <3>1, FS_Subset DEF BufOK
    <3> QED
      BY <3>2, BytesInType
  <2>6. len' = BytesIn(Kept) + Accepted(n, w) /\ max_data' = w /\ sent' = 0
        /\ pos' = pos
    BY <2>2 DEF BufWrite
  <2> QED
    BY <1>1, <2>1, <2>3, <2>4, <2>5, <2>6, WriteWindowType
<1>3. CASE SendApplication \/ SendPanics \/ SendDone
  <2>1. BufEmit /\ UNCHANGED congestion_window
    BY <1>3, SMTT(30) DEF SendApplication, SendPanics, SendDone, recoveryVars
  <2> QED
    BY <1>1, <2>1, EmitLenType, SMTT(30) DEF BufEmit, NextPos
<1>4. ASSUME NEW m \in net, RecvAck(m)
      PROVE  UNCHANGED <<pos, len, sent, max_data, congestion_window>>
  BY <1>4 DEF RecvAck, BufAckAndDrop, UpdateWin
<1>5. CASE UNCHANGED <<sendBufVars, recoveryVars, total_offset>>
  BY <1>1, <1>5 DEF sendBufVars, recoveryVars
<1> QED
  BY <1>1, <1>2, <1>3, <1>4, <1>5, BufferFrame

\* Every chunk that the history counts as taken is a chunk.
LEMMA AdmittedStep ==
    ASSUME TransferInv, TransferTypeOK, [TransferNext]_transferVars
    PROVE  admitted' \subseteq Chunk
<1> USE DEF TransferInv, SenderInv
<1>1. CASE SendAll
  <2> DEFINE n == DataLen - total_offset
             w == WriteWindow
  <2>1. n \in Nat /\ w \in Nat
    BY WriteWindowType, TransferAssumption DEF WriteWindow
  <2>2. admitted' = admitted \cup NewChunks(Accepted(n, w), OffLen)
    BY <1>1 DEF SendAll, NewBytes
  <2> HIDE DEF n, w
  <2>3. Accepted(n, w) \in Nat /\ OffLen \in Nat /\ off \in Nat
    BY <2>1, AcceptedType, OffLenType, Zenon DEF BufOK
  <2>4. NewChunks(Accepted(n, w), OffLen) \subseteq Chunk
    BY <2>3, NewChunksShape, SMTT(30)
  <2> QED
    BY <2>2, <2>4 DEF TransferTypeOK
<1> QED
  BY <1>1, HistoryFrame, SMTT(30) DEF TransferTypeOK

\* The network carries offsets, and recv_dic collects them; a report is 0 or 1.
LEMMA ReceivedStep ==
    ASSUME TransferInv, TransferTypeOK, NetOffsets,
           [TransferNext]_transferVars
    PROVE  /\ NetOffsets' /\ recv_dic' \subseteq Nat
           /\ \A o \in DOMAIN recv_hashmap' : recv_hashmap'[o] \in {0, 1}
<1>1. NetOffsets'
  <2> SUFFICES ASSUME NEW m \in net', m.type = "Application"
               PROVE  m.off \in Nat
    BY DEF NetOffsets
  <2>1. CASE m \notin net
    <3>1. m.off = OffFront
      BY <2>1, NetFrame
    <3> QED
      BY <3>1, OffFrontType DEF TransferInv, SenderInv
  <2> QED
    BY <2>1 DEF NetOffsets
<1>2. recv_dic' \subseteq Nat
  <2>1. \/ \E m \in net : PeerRecvApplication(m)
        \/ recv_dic' = recv_dic
    BY Zenon DEF TransferNext, transferVars, peerVars, SendAll, SendAllFalse,
           SendHandshake, SendApplication, SendPanics, SendDone, SendElictAck,
           Lose, RecvHandshake, RecvAck, RecvStop, PeerRecvHandshake,
           PeerRecvElictAck, PeerSendHandshake, PeerSendAck, PeerAckTooShort,
           PeerSendStop, PeerRead, PeerReadPanics
  <2> QED
    BY <2>1, Zenon DEF PeerRecvApplication, NetOffsets, TransferTypeOK
<1>3. ASSUME NEW m \in net, PeerRecvElictAck(m), NEW o \in DOMAIN recv_hashmap'
      PROVE  recv_hashmap'[o] \in {0, 1}
  BY <1>3 DEF PeerRecvElictAck, CheckLoss, TransferTypeOK
<1>4. ASSUME PeerSendAck, NEW o \in DOMAIN recv_hashmap'
      PROVE  recv_hashmap'[o] \in {0, 1}
  BY <1>4 DEF PeerSendAck, EmptyMap
<1> QED
  BY <1>1, <1>2, <1>3, <1>4, ReportFrame DEF TransferTypeOK


\* Flags are set, cleared, or combined with a test.
LEMMA FlagsStep ==
    ASSUME TransferTypeOK, [TransferNext]_transferVars
    PROVE  {rtt_known, handshake_completed, stop_flag, stop_ack, roll_back_flag,
            handshake_confirmed, feed_back, recv_flag}' \subseteq BOOLEAN
<1>1. /\ rtt_known \in BOOLEAN /\ handshake_completed \in BOOLEAN
      /\ stop_flag \in BOOLEAN /\ stop_ack \in BOOLEAN
      /\ roll_back_flag \in BOOLEAN /\ handshake_confirmed \in BOOLEAN
      /\ feed_back \in BOOLEAN /\ recv_flag \in BOOLEAN
  BY DEF TransferTypeOK
<1> USE DEF transferVars, connVars, peerVars, recoveryVars, SendAll,
       SendAllFalse, SendHandshake, SendApplication, SendPanics, SendDone,
       SendElictAck, Lose, RecvHandshake, RecvAck, RecvStop,
       PeerRecvHandshake, PeerRecvApplication, PeerRecvElictAck,
       PeerSendHandshake, PeerSendAck, PeerAckTooShort, PeerSendStop,
       PeerRead, PeerReadPanics
<1>2. /\ rtt_known' = rtt_known \/ rtt_known' = TRUE
      /\ handshake_completed' = handshake_completed
         \/ handshake_completed' = TRUE
  BY Zenon DEF TransferNext
<1>3. /\ handshake_confirmed' = handshake_confirmed
         \/ handshake_confirmed' = TRUE \/ handshake_confirmed' = FALSE
      /\ feed_back' = feed_back \/ feed_back' = TRUE \/ feed_back' = FALSE
      /\ recv_flag' = recv_flag \/ recv_flag' = TRUE \/ recv_flag' = FALSE
  BY Zenon DEF TransferNext
<1>4. /\ stop_flag' = stop_flag \/ stop_flag' = FALSE
         \/ stop_flag' = (stop_flag \/ EmitStop)
      /\ stop_ack' = stop_ack \/ stop_ack' = FALSE
         \/ stop_ack' = (stop_ack \/ stop_flag)
  BY Zenon DEF TransferNext
<1>5. \/ roll_back_flag' = roll_back_flag
      \/ \E m, a : roll_back_flag'
             = (roll_back_flag \/ a[1] # Cardinality(DOMAIN m.recv) * a[2])
  BY Zenon DEF TransferNext, Cwnd, Rollback, UpdateWin
<1> QED
  BY <1>1, <1>2, <1>3, <1>4, <1>5, Zenon

\* The counters are reset or counted up, and the applications keep to their
\* three and two states.
LEMMA CountersStep ==
    ASSUME TransferInv, TransferTypeOK, [TransferNext]_transferVars
    PROVE  /\ high_priority' \in Nat /\ sent_number' \in Nat
           /\ faults' \in Nat /\ rounds' \in Nat
           /\ app' \in {"idle", "sending", "panicked"}
           /\ reader' \in {"running", "panicked"}
<1>1. /\ high_priority \in Nat /\ sent_number \in Nat
      /\ faults \in Nat /\ rounds \in Nat
      /\ app \in {"idle", "sending", "panicked"}
      /\ reader \in {"running", "panicked"}
  BY DEF TransferTypeOK
<1>2. ASSUME NEW m \in net, RecvAck(m) PROVE high_priority' \in Nat
  <2>1. /\ m.type = "ACK"
        /\ high_priority' = high_priority + Cardinality(LostOf(m.recv, 3))
    BY <1>2, SMTT(30) DEF RecvAck
  <2>2. IsFiniteSet(DOMAIN m.recv)
    BY <2>1 DEF TransferInv, ReportInv, Truthful
  <2>3. LostOf(m.recv, 3) \in SUBSET (DOMAIN m.recv)
    BY DEF LostOf
  <2>4. Cardinality(LostOf(m.recv, 3)) \in Nat
    BY <2>2, <2>3, FS_Subset, FS_CardinalityType, SMTT(30)
  <2> QED
    BY <1>1, <2>1, <2>4
<1> USE DEF transferVars, connVars, peerVars, netVars, historyVars, SendAll,
       SendAllFalse, SendHandshake, SendApplication, SendPanics, SendDone,
       SendElictAck, Lose, RecvHandshake, RecvStop, PeerRecvHandshake,
       PeerRecvApplication, PeerRecvElictAck, PeerSendHandshake, PeerSendAck,
       PeerAckTooShort, PeerSendStop, PeerRead, PeerReadPanics, Arrives,
       Transmit
<1>3. \/ \E m \in net : RecvAck(m)
      \/ high_priority' \in {0, high_priority}
  BY Zenon DEF TransferNext
<1>4. /\ sent_number' \in {0, sent_number, sent_number + 1}
      /\ faults' \in {faults, faults + 1}
      /\ rounds' \in {rounds, rounds + 1}
  BY Zenon DEF TransferNext, RecvAck
<1>5. /\ app' \in {"idle", "sending", "panicked", app}
      /\ reader' \in {"panicked", reader}
  BY Zenon DEF TransferNext, RecvAck
<1> QED
  BY <1>1, <1>2, <1>3, <1>4, <1>5, SMTT(30)

\* What the induction above already says of the types.
KnownTypes ==
    /\ data \subseteq Chunk /\ off \in Nat /\ total_offset \in Nat
    /\ incre_win \in Nat /\ decre_win \in Nat
    /\ former_win_vecter \subseteq Nat
    /\ sent_count \in Nat /\ unreported \in Seq(Nat)
    /\ \A o \in DOMAIN sent_dic : sent_dic[o] \in 0 .. (U64 - 1)

\* The invariant holds only values that the counters and the map may have.
LEMMA InvariantTypes == TransferInv => KnownTypes
<1> SUFFICES ASSUME TransferInv PROVE KnownTypes
  OBVIOUS
<1>1. data \subseteq Chunk /\ off \in Nat /\ total_offset \in Nat
  BY DEF TransferInv, SenderInv, BufOK
<1>2. incre_win \in Nat /\ decre_win \in Nat /\ former_win_vecter \subseteq Nat
  BY DEF TransferInv, SenderInv, WinOK
<1>3. sent_count \in Nat /\ unreported \in Seq(Nat)
  BY DEF TransferInv, CountInv
<1>4. ASSUME NEW o \in DOMAIN sent_dic PROVE sent_dic[o] \in 0 .. (U64 - 1)
  <2>1. PriorityOf(o) \in 1 .. 3 /\ U64 \in Nat /\ U64 > 4
    BY PriorityRange, TransferAssumption, ArithmeticAssumption
  <2> QED
    BY <1>4, <2>1 DEF TransferInv, BudgetInv
<1> QED
  BY <1>1, <1>2, <1>3, <1>4 DEF KnownTypes

\* Every variable of both peers, of the network and of the history keeps its
\* type, whatever the network does and in debug and release builds alike.
THEOREM TransferTypeCorrect == TransferSpec => []TransferTypeOK
<1>1. TransferInit => TransferTypeOK /\ NetOffsets
  <2> SUFFICES ASSUME TransferInit PROVE TransferTypeOK /\ NetOffsets
    OBVIOUS
  <2>1. KnownTypes
    BY TransferInitHolds, InvariantTypes
  <2>2. MAX_SEND_UDP_PAYLOAD_SIZE * INITIAL_WINDOW_PACKETS \in Nat
    BY RecoveryAssumption
  <2>3. /\ pos \in Nat /\ len \in Int /\ sent \in Nat /\ max_data \in Nat
        /\ congestion_window \in Nat /\ high_priority \in Nat
        /\ sent_number \in Nat /\ faults \in Nat /\ rounds \in Nat
    BY <2>2 DEF TransferInit, SendBufInit, RecoveryInit
  <2>4. {rtt_known, handshake_completed, stop_flag, stop_ack, roll_back_flag,
         handshake_confirmed, feed_back, recv_flag} \subseteq BOOLEAN
    BY Zenon DEF TransferInit, RecoveryInit
  <2>5. /\ admitted = {} /\ recv_dic = {} /\ net = {}
        /\ DOMAIN recv_hashmap = {} /\ app = "idle" /\ reader = "running"
    BY DEF TransferInit, EmptyMap
  <2> QED
    BY <2>1, <2>3, <2>4, <2>5 DEF TransferTypeOK, KnownTypes, NetOffsets
<1>2. TransferInv /\ KnownTypes' /\ TransferTypeOK /\ NetOffsets
      /\ [TransferNext]_transferVars => (TransferTypeOK /\ NetOffsets)'
  <2> SUFFICES ASSUME TransferInv, KnownTypes', TransferTypeOK, NetOffsets,
                      [TransferNext]_transferVars
               PROVE  (TransferTypeOK /\ NetOffsets)'
    OBVIOUS
  <2> QED
    BY NumbersStep, AdmittedStep, ReceivedStep, FlagsStep, CountersStep, Zenon
       DEF TransferTypeOK, KnownTypes
<1> QED
  BY <1>1, <1>2, InvariantTypes, TransferInvHolds, PTL DEF TransferSpec
=============================================================================
