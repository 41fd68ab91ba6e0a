------------------------------ MODULE Transfer ------------------------------
(***************************************************************************)
(* One transfer between two Connections (src/src/lib.rs): the sender, made *)
(* by accept (is_server), and the receiver, made by connect, over a        *)
(* network that reorders, loses and duplicates datagrams.                  *)
(*                                                                         *)
(* The sending application follows the loop described in send_all's        *)
(* comments: send_all, then send_data until it returns Done or is_stopped; *)
(* it calls send_all again when is_ack says so, a timer that may fire at   *)
(* any time after the loop.  The receiving application calls send_data     *)
(* when send_ack says so, and read when it likes.                          *)
(*                                                                         *)
(* Left out: packet numbers and recv_count, which nothing reads; max_ack   *)
(* and max_off, which recv_and_drop ignores; payloads and addresses.  Of   *)
(* rtt only "not yet measured" matters.  Of sent_pkt only the part from    *)
(* ack_point on is ever read.                                              *)
(***************************************************************************)
EXTENDS SendBuf, Recovery, RecvBuf, Priority, Sequences

CONSTANTS
    DataLen,      \* length of the application's data, send_data.len()
    ELICT_FLAG,   \* Application packets between two ElictAcks
    AckRoom,      \* entries that fit into an ACK datagram
    ReadCaps,     \* sizes of the buffers the receiver reads into
    Eager,        \* TRUE: the receiver calls send_data without send_ack
    MaxInFlight,  \* bound: datagrams in the network
    MaxFaults,    \* bound: datagrams lost or duplicated
    MaxRounds,    \* bound: calls of send_all
    Endless       \* TRUE: send_all is called without bound or count

ASSUME TransferAssumption ==
    /\ PriorityBlock = SEND_BUFFER_SIZE
    /\ DataLen \in Nat /\ DataLen <= Blocks * PriorityBlock
    /\ ELICT_FLAG \in Nat \ {0}
    /\ AckRoom \in Nat
    /\ ReadCaps \subseteq Nat \ {0}
    /\ Eager \in BOOLEAN
    /\ MaxInFlight \in Nat /\ MaxFaults \in Nat /\ MaxRounds \in Nat
    /\ Endless \in BOOLEAN
    /\ U64 > 4

VARIABLES
    \* the sender
    total_offset,         \* bytes handed to the buffer (also written_data)
    rtt_known,            \* rtt # Duration::ZERO
    handshake_completed,
    sent_count,           \* Application packets since the last ElictAck
    stop_flag, stop_ack,
    unreported,           \* sent_pkt[ack_point..]
    sent_dic,             \* offset -> retransmissions left
    high_priority, sent_number,
    app,                  \* "idle", "sending" or "panicked"
    \* the receiver
    handshake_confirmed, feed_back, recv_flag,
    recv_hashmap,         \* offset -> 0 (received) or 1, for the next ACK
    recv_dic,             \* offsets received
    reader,               \* "running" or "panicked"
    \* the network
    net, faults,
    \* history
    admitted,             \* every chunk the buffer ever took
    times_sent,           \* offset -> transmissions, counted up to the budget
    rounds                \* calls of send_all

connVars == <<total_offset, rtt_known, handshake_completed, sent_count,
              stop_flag, stop_ack, unreported, sent_dic, high_priority,
              sent_number, app>>
peerVars == <<handshake_confirmed, feed_back, recv_flag, recv_hashmap,
              recv_dic, reader>>
netVars == <<net, faults>>
historyVars == <<admitted, times_sent, rounds>>

transferVars == <<sendBufVars, recoveryVars, connVars, recvBufVars, peerVars,
                  netVars, historyVars>>

EmptyMap == [k \in {} |-> 0]

TransferInit ==
    /\ SendBufInit(MAX_SEND_UDP_PAYLOAD_SIZE * INITIAL_WINDOW_PACKETS)
    /\ RecoveryInit
    /\ RecvBufInit
    /\ total_offset = 0
    /\ rtt_known = FALSE
    /\ handshake_completed = FALSE
    /\ sent_count = 0
    /\ stop_flag = FALSE /\ stop_ack = FALSE
    /\ unreported = <<>>
    /\ sent_dic = EmptyMap
    /\ high_priority = 0 /\ sent_number = 0
    /\ app = "idle"
    /\ handshake_confirmed = TRUE
    /\ feed_back = FALSE /\ recv_flag = FALSE
    /\ recv_hashmap = EmptyMap
    /\ recv_dic = {}
    /\ reader = "running"
    /\ net = {} /\ faults = 0
    /\ admitted = {}
    /\ times_sent = EmptyMap
    /\ rounds = 0
-----------------------------------------------------------------------------
(***************************************************************************)
(* The network: a set of datagrams.                                        *)
(***************************************************************************)
Datagram ==
    [type : {"Handshake"}, to : {"sender", "receiver"}] \cup
    [type : {"Application"}, off : Nat, len : Nat \ {0}] \cup
    [type : {"ElictAck"}, offs : SUBSET Nat] \cup
    [type : {"ACK"}, recv : UNION {[S -> {0, 1}] : S \in SUBSET Nat}] \cup
    [type : {"Stop"}]

Transmit(m) ==
    /\ Cardinality(net) < MaxInFlight
    /\ net' = net \cup {m}
    /\ UNCHANGED faults

\* m arrives; the network may keep a copy that arrives again.
Arrives(m) ==
    \/ net' = net \ {m} /\ UNCHANGED faults
    \/ faults < MaxFaults /\ net' = net /\ faults' = faults + 1

Lose(m) ==
    /\ faults < MaxFaults
    /\ net' = net \ {m}
    /\ faults' = faults + 1
    /\ UNCHANGED <<sendBufVars, recoveryVars, connVars, recvBufVars, peerVars,
                   historyVars>>
-----------------------------------------------------------------------------
(***************************************************************************)
(* The sender.                                                             *)
(***************************************************************************)
\* Connection::write: bytes missing to the next block boundary.
OffLen ==
    IF total_offset % SEND_BUFFER_SIZE = 0 THEN 0
    ELSE SEND_BUFFER_SIZE - (total_offset % SEND_BUFFER_SIZE)

\* More than one high-priority loss per hundred packets.
HighRatio == 100 * high_priority > sent_number

\* The window that cwnd() or rollback() returns to write.
WriteWindow == IF HighRatio THEN RolledBackWin ELSE FlooredWin

NewBytes == Accepted(DataLen - total_offset, WriteWindow)

\* send_all returning true.
SendAll ==
    /\ app = "idle" /\ (Endless \/ rounds < MaxRounds)
    /\ total_offset < DataLen \/ data # {}
    /\ IF HighRatio THEN Rollback ELSE Cwnd
    /\ BufWrite(DataLen - total_offset, WriteWindow, OffLen)
    /\ total_offset' = total_offset + NewBytes
    /\ admitted' = admitted \cup NewChunks(NewBytes, OffLen)
    /\ stop_flag' = FALSE /\ stop_ack' = FALSE
    /\ high_priority' = 0 /\ sent_number' = 0
    /\ app' = "sending"
    /\ rounds' = IF Endless THEN rounds ELSE rounds + 1
    /\ UNCHANGED <<rtt_known, handshake_completed, sent_count, unreported,
                   sent_dic, times_sent, recvBufVars, peerVars, netVars>>

\* send_all returning false: everything is written and settled.
SendAllFalse ==
    /\ app = "idle"
    /\ total_offset >= DataLen /\ data = {}
    /\ stop_flag' = FALSE /\ stop_ack' = FALSE
    /\ UNCHANGED <<sendBufVars, recoveryVars, total_offset, rtt_known,
                   handshake_completed, sent_count, unreported, sent_dic,
                   high_priority, sent_number, app, recvBufVars, peerVars,
                   netVars, historyVars>>

\* write_pkt_type of the sender.
SenderType ==
    IF ~rtt_known THEN "Handshake"
    ELSE IF (sent_count % ELICT_FLAG = 0 /\ sent_count > 0) \/ stop_flag
      THEN "ElictAck"
    ELSE "Application"

SendHandshake ==
    /\ app # "panicked"
    /\ SenderType = "Handshake"
    /\ handshake_completed' = TRUE
    /\ Transmit([type |-> "Handshake", to |-> "receiver"])
    /\ UNCHANGED <<sendBufVars, recoveryVars, total_offset, rtt_known,
                   sent_count, stop_flag, stop_ack, unreported, sent_dic,
                   high_priority, sent_number, app, recvBufVars, peerVars,
                   historyVars>>

\* "*x -= 1" would go below 0.
BudgetUnderflow == OffFront \in DOMAIN sent_dic /\ sent_dic[OffFront] = 0

\* "*x -= 1".  Only the value 0 is ever tested, and a counter that has
\* wrapped is 2^64 - 1 transmissions away from it: it is kept where it is.
LessOne(x) == IF x = U64 - 1 THEN x ELSE (x - 1) % U64

\* Variant that starts a chunk with one retransmission less.
SpendBudgetShort(o) ==
    [k \in DOMAIN sent_dic \cup {o} |->
        IF k # o THEN sent_dic[k]
        ELSE IF o \in DOMAIN sent_dic THEN LessOne(sent_dic[o])
        ELSE PriorityOf(o) - 1]

SpendBudget(o) ==
    [k \in DOMAIN sent_dic \cup {o} |->
        IF k # o THEN sent_dic[k]
        ELSE IF o \in DOMAIN sent_dic THEN LessOne(sent_dic[o])
        ELSE PriorityOf(o)]

CountSent(o) ==
    [k \in DOMAIN times_sent \cup {o} |->
        IF k # o THEN times_sent[k]
        ELSE IF o \in DOMAIN times_sent
          THEN Smaller(times_sent[o] + 1, PriorityOf(o) + 1)
        ELSE 1]

SendApplication ==
    /\ app = "sending"
    /\ SenderType = "Application"
    /\ OffFront < total_offset
    /\ ~(overflow_checks /\ BudgetUnderflow)
    /\ Transmit([type |-> "Application", off |-> OffFront, len |-> EmitLen])
    /\ BufEmit
    /\ sent_count' = sent_count + 1
    /\ sent_number' = sent_number + 1
    /\ sent_dic' = SpendBudget(OffFront)
    /\ times_sent' = CountSent(OffFront)
    /\ stop_flag' = (stop_flag \/ EmitStop)
    /\ unreported' = Append(unreported, OffFront)
    /\ UNCHANGED <<recoveryVars, total_offset, rtt_known, handshake_completed,
                   stop_ack, high_priority, app, recvBufVars, peerVars,
                   admitted, rounds>>

\* A debug build panics at the underflow, when the chunk is out of the
\* buffer and counted but not yet sent.
SendPanics ==
    /\ app = "sending"
    /\ SenderType = "Application"
    /\ OffFront < total_offset
    /\ overflow_checks /\ BudgetUnderflow
    /\ BufEmit
    /\ sent_count' = sent_count + 1
    /\ sent_number' = sent_number + 1
    /\ app' = "panicked"
    /\ UNCHANGED <<recoveryVars, total_offset, rtt_known, handshake_completed,
                   stop_flag, stop_ack, unreported, sent_dic, high_priority,
                   recvBufVars, peerVars, netVars, historyVars>>

\* send_data returning Done: emit found no chunk.
SendDone ==
    /\ app = "sending"
    /\ SenderType = "Application"
    /\ OffFront >= total_offset
    /\ BufEmit
    /\ app' = "idle"
    /\ UNCHANGED <<recoveryVars, total_offset, rtt_known, handshake_completed,
                   sent_count, stop_flag, stop_ack, unreported, sent_dic,
                   high_priority, sent_number, recvBufVars, peerVars, netVars,
                   historyVars>>

\* Variant that advances ack_point only at the end of a window.
SendElictAckKeeps ==
    /\ app = "sending"
    /\ SenderType = "ElictAck"
    /\ Transmit([type |-> "ElictAck",
                 offs |-> {unreported[i] : i \in 1 .. Len(unreported)}])
    /\ sent_count' = 0
    /\ unreported' = IF stop_flag THEN <<>> ELSE unreported
    /\ stop_ack' = (stop_ack \/ stop_flag)
    /\ app' = IF stop_flag THEN "idle" ELSE "sending"
    /\ UNCHANGED <<sendBufVars, recoveryVars, total_offset, rtt_known,
                   handshake_completed, stop_flag, sent_dic, high_priority,
                   sent_number, recvBufVars, peerVars, historyVars>>

\* ElictAck: the offsets sent since the last one.  After the one that ends
\* the window is_stopped() holds and the application leaves its loop.
SendElictAck ==
    /\ app = "sending"
    /\ SenderType = "ElictAck"
    /\ Transmit([type |-> "ElictAck",
                 offs |-> {unreported[i] : i \in 1 .. Len(unreported)}])
    /\ sent_count' = 0
    /\ unreported' = <<>>
    /\ stop_ack' = (stop_ack \/ stop_flag)
    /\ app' = IF stop_flag THEN "idle" ELSE "sending"
    /\ UNCHANGED <<sendBufVars, recoveryVars, total_offset, rtt_known,
                   handshake_completed, stop_flag, sent_dic, high_priority,
                   sent_number, recvBufVars, peerVars, historyVars>>

\* recv_slice of a Handshake: update_rtt.
RecvHandshake(m) ==
    /\ app # "panicked"
    /\ m.type = "Handshake" /\ m.to = "sender"
    /\ Arrives(m)
    /\ rtt_known' = TRUE
    /\ handshake_completed' = TRUE
    /\ UNCHANGED <<sendBufVars, recoveryVars, total_offset, sent_count,
                   stop_flag, stop_ack, unreported, sent_dic, high_priority,
                   sent_number, app, recvBufVars, peerVars, historyVars>>

\* What an ACK says: chunks of priority p reported lost, and chunks that
\* process_ack drops: received, or lost with no retransmission left.
LostOf(recv, p) ==
    {o \in DOMAIN recv : recv[o] # 0 /\ PriorityOf(o) = p}

LossWeight(recv) ==
    3 * Cardinality(LostOf(recv, 1)) + 4 * Cardinality(LostOf(recv, 2))
        + 5 * Cardinality(LostOf(recv, 3))

\* Variant that settles a chunk while one retransmission is left.
SettledEarly(recv) ==
    {o \in DOMAIN recv :
        recv[o] = 0 \/ (o \in DOMAIN sent_dic /\ sent_dic[o] <= 1)}

SettledBy(recv) ==
    {o \in DOMAIN recv :
        recv[o] = 0 \/ (o \in DOMAIN sent_dic /\ sent_dic[o] = 0)}

\* recv_slice of an ACK: process_ack.
RecvAck(m) ==
    /\ app # "panicked"
    /\ m.type = "ACK"
    /\ Arrives(m)
    /\ BufAckAndDrop(SettledBy(m.recv))
    /\ UpdateWin(LossWeight(m.recv), Cardinality(DOMAIN m.recv))
    /\ high_priority' = high_priority + Cardinality(LostOf(m.recv, 3))
    /\ UNCHANGED <<total_offset, rtt_known, handshake_completed, sent_count,
                   stop_flag, stop_ack, unreported, sent_dic, sent_number,
                   app, recvBufVars, peerVars, historyVars>>

\* recv_slice of a Stop returns Err(Stopped) and changes nothing.
RecvStop(m) ==
    /\ app # "panicked"
    /\ m.type = "Stop"
    /\ Arrives(m)
    /\ UNCHANGED <<sendBufVars, recoveryVars, connVars, recvBufVars, peerVars,
                   historyVars>>
-----------------------------------------------------------------------------
(***************************************************************************)
(* The receiver.                                                           *)
(***************************************************************************)
PeerRecvHandshake(m) ==
    /\ reader = "running"
    /\ m.type = "Handshake" /\ m.to = "receiver"
    /\ Arrives(m)
    /\ handshake_confirmed' = FALSE
    /\ feed_back' = TRUE
    /\ UNCHANGED <<sendBufVars, recoveryVars, connVars, recvBufVars, recv_flag,
                   recv_hashmap, recv_dic, reader, historyVars>>

PeerRecvApplication(m) ==
    /\ reader = "running"
    /\ m.type = "Application"
    /\ Arrives(m)
    /\ BufReceive(m.off, m.len)
    /\ recv_dic' = recv_dic \cup {m.off}
    /\ UNCHANGED <<sendBufVars, recoveryVars, connVars, handshake_confirmed,
                   feed_back, recv_flag, recv_hashmap, reader, historyVars>>

\* Variant that reports every chunk asked about as received.
CheckLossTrusting(offs) ==
    [o \in DOMAIN recv_hashmap \cup offs |->
        IF o \notin offs THEN recv_hashmap[o] ELSE 0]

\* check_loss: what the next ACK will say of the offsets asked about.
CheckLoss(offs) ==
    [o \in DOMAIN recv_hashmap \cup offs |->
        IF o \notin offs THEN recv_hashmap[o]
        ELSE IF o \in recv_dic THEN 0 ELSE 1]

\* Variant that does not tell the application to answer.
PeerRecvElictAckSilent(m) ==
    /\ reader = "running"
    /\ m.type = "ElictAck"
    /\ Arrives(m)
    /\ recv_flag' = TRUE
    /\ recv_hashmap' = CheckLoss(m.offs)
    /\ UNCHANGED <<sendBufVars, recoveryVars, connVars, recvBufVars,
                   handshake_confirmed, feed_back, recv_dic, reader,
                   historyVars>>

PeerRecvElictAck(m) ==
    /\ reader = "running"
    /\ m.type = "ElictAck"
    /\ Arrives(m)
    /\ recv_flag' = TRUE
    /\ recv_hashmap' = CheckLoss(m.offs)
    /\ feed_back' = TRUE
    /\ UNCHANGED <<sendBufVars, recoveryVars, connVars, recvBufVars,
                   handshake_confirmed, recv_dic, reader, historyVars>>

\* write_pkt_type of the receiver, whose rtt is never measured and whose
\* send buffer is empty.
PeerType ==
    IF ~handshake_confirmed THEN "Handshake"
    ELSE IF recv_flag THEN "ACK"
    ELSE "Stop"

PeerCallsSend == reader = "running" /\ (feed_back \/ Eager)

\* Variant that leaves feed_back set.
PeerSendHandshakeAgain ==
    /\ PeerCallsSend /\ PeerType = "Handshake"
    /\ Transmit([type |-> "Handshake", to |-> "sender"])
    /\ handshake_confirmed' = TRUE
    /\ UNCHANGED <<sendBufVars, recoveryVars, connVars, recvBufVars, feed_back,
                   recv_flag, recv_hashmap, recv_dic, reader, historyVars>>

PeerSendHandshake ==
    /\ PeerCallsSend /\ PeerType = "Handshake"
    /\ Transmit([type |-> "Handshake", to |-> "sender"])
    /\ handshake_confirmed' = TRUE
    /\ feed_back' = FALSE
    /\ UNCHANGED <<sendBufVars, recoveryVars, connVars, recvBufVars, recv_flag,
                   recv_hashmap, recv_dic, reader, historyVars>>

\* The reports waiting for an ACK are more than a datagram holds.
AckOversized == Cardinality(DOMAIN recv_hashmap) > AckRoom

PeerSendAck ==
    /\ PeerCallsSend /\ PeerType = "ACK"
    /\ ~AckOversized
    /\ Transmit([type |-> "ACK", recv |-> recv_hashmap])
    /\ recv_flag' = FALSE
    /\ feed_back' = FALSE
    /\ recv_hashmap' = EmptyMap
    /\ UNCHANGED <<sendBufVars, recoveryVars, connVars, recvBufVars,
                   handshake_confirmed, recv_dic, reader, historyVars>>

\* Variant that forgets the reports when the ACK does not fit.
PeerAckTooShortClears ==
    /\ PeerCallsSend /\ PeerType = "ACK"
    /\ AckOversized
    /\ recv_flag' = FALSE
    /\ feed_back' = FALSE
    /\ recv_hashmap' = EmptyMap
    /\ UNCHANGED <<sendBufVars, recoveryVars, connVars, recvBufVars,
                   handshake_confirmed, recv_dic, reader, netVars,
                   historyVars>>

\* The ACK does not fit: put_u64 fails after both flags are cleared.
PeerAckTooShort ==
    /\ PeerCallsSend /\ PeerType = "ACK"
    /\ AckOversized
    /\ recv_flag' = FALSE
    /\ feed_back' = FALSE
    /\ UNCHANGED <<sendBufVars, recoveryVars, connVars, recvBufVars,
                   handshake_confirmed, recv_hashmap, recv_dic, reader,
                   netVars, historyVars>>

PeerSendStop ==
    /\ PeerCallsSend /\ PeerType = "Stop"
    /\ Transmit([type |-> "Stop"])
    /\ UNCHANGED <<sendBufVars, recoveryVars, connVars, recvBufVars, peerVars,
                   historyVars>>

\* The receiving application reads until it has had DataLen bytes.
PeerRead(cap) ==
    /\ reader = "running" /\ last_maxoff < DataLen
    /\ Emit(cap).status = "ok"
    /\ BufRead(cap)
    /\ UNCHANGED <<sendBufVars, recoveryVars, connVars, peerVars, netVars,
                   historyVars>>

PeerReadPanics(cap) ==
    /\ reader = "running" /\ last_maxoff < DataLen
    /\ Emit(cap).status = "panic"
    /\ reader' = "panicked"
    /\ UNCHANGED <<sendBufVars, recoveryVars, connVars, recvBufVars,
                   handshake_confirmed, feed_back, recv_flag, recv_hashmap,
                   recv_dic, netVars, historyVars>>
-----------------------------------------------------------------------------
TransferNext ==
    \/ SendAll \/ SendAllFalse
    \/ SendHandshake \/ SendApplication \/ SendPanics \/ SendDone
    \/ SendElictAck
    \/ \E m \in net : \/ Lose(m)
                      \/ RecvHandshake(m) \/ RecvAck(m) \/ RecvStop(m)
                      \/ PeerRecvHandshake(m) \/ PeerRecvApplication(m)
                      \/ PeerRecvElictAck(m)
    \/ PeerSendHandshake \/ PeerSendAck \/ PeerAckTooShort \/ PeerSendStop
    \/ \E cap \in ReadCaps : PeerRead(cap) \/ PeerReadPanics(cap)

TransferSpec == TransferInit /\ [][TransferNext]_transferVars

\* What the network does with m other than losing it.
Delivered(m) ==
    \/ RecvHandshake(m) \/ RecvAck(m) \/ RecvStop(m)
    \/ PeerRecvHandshake(m) \/ PeerRecvApplication(m) \/ PeerRecvElictAck(m)

\* The datagrams a transfer of unit chunks can put on the network.
UnitDatagrams ==
    LET offs == 0 .. (DataLen - 1)
        some == SUBSET offs \ {{}}
        fits == {S \in some : Cardinality(S) <= AckRoom}
    IN  [type : {"Handshake"}, to : {"sender", "receiver"}] \cup
        [type : {"Application"}, off : offs, len : {1}] \cup
        [type : {"ElictAck"}, offs : some] \cup
        [type : {"ACK"}, recv : UNION {[S -> {0, 1}] : S \in fits}]

\* Both applications keep to their loops, and a datagram that is not lost
\* arrives in the end.  In the code a send never waits for the network;
\* fairness is strong where MaxInFlight can disable one for a while.
TransferFairness ==
    /\ WF_transferVars(SendAll)
    /\ SF_transferVars(SendHandshake)
    /\ SF_transferVars(SendApplication \/ SendPanics)
    /\ WF_transferVars(SendDone)
    /\ SF_transferVars(SendElictAck)
    /\ SF_transferVars(PeerSendHandshake)
    /\ SF_transferVars(PeerSendAck)
    /\ WF_transferVars(PeerAckTooShort)
    /\ \A m \in UnitDatagrams : WF_transferVars(m \in net /\ Delivered(m))

TransferFairSpec == TransferSpec /\ TransferFairness
-----------------------------------------------------------------------------
\* Every variable stays in the range the code's types and uses give it.
TransferTypeOK ==
    /\ data \subseteq Chunk /\ admitted \subseteq Chunk
    /\ pos \in Nat /\ off \in Nat /\ len \in Int /\ sent \in Nat
    /\ max_data \in Nat /\ total_offset \in Nat
    /\ congestion_window \in Nat /\ incre_win \in Nat /\ decre_win \in Nat
    /\ former_win_vecter \subseteq Nat
    /\ {rtt_known, handshake_completed, stop_flag, stop_ack, roll_back_flag,
        handshake_confirmed, feed_back, recv_flag} \subseteq BOOLEAN
    /\ sent_count \in Nat /\ high_priority \in Nat /\ sent_number \in Nat
    /\ unreported \in Seq(Nat)
    /\ \A o \in DOMAIN sent_dic : sent_dic[o] \in 0 .. (U64 - 1)
    /\ \A o \in DOMAIN recv_hashmap : recv_hashmap[o] \in {0, 1}
    /\ recv_dic \subseteq Nat
    /\ app \in {"idle", "sending", "panicked"}
    /\ reader \in {"running", "panicked"}
    /\ faults \in Nat /\ rounds \in Nat

\* The retransmission budget of a chunk (priority + 1 transmissions) is spent.
Exhausted(o) == o \in DOMAIN times_sent /\ times_sent[o] > PriorityOf(o)

Buffered(b) ==
    b \in data /\ b.off \in DOMAIN offset_recv /\ offset_recv[b.off]

\* The sender stops caring about a chunk only when the receiver has it or its
\* whole retransmission budget was spent, whatever the network does to data,
\* ElictAcks and ACKs.
NoSilentDrop ==
    \A b \in admitted :
        Buffered(b) \/ b.off \in recv_dic \/ Exhausted(b.off)

\* An ElictAck sent in mid-window names exactly ELICT_FLAG offsets, the
\* number its fixed pkt_length of 64 bytes promises; none names more.
ElictAckFull ==
    /\ Len(unreported) <= ELICT_FLAG
    /\ (app # "panicked" /\ SenderType = "ElictAck" /\ ~stop_flag)
           => Len(unreported) = ELICT_FLAG

\* When send_ack() tells the receiver to answer, send_data has an answer: it
\* does not produce a Stop, which would end the sender's connection.
FeedbackAnswered == feed_back => PeerType # "Stop"

\* An ACK that once did not fit never fits again: recv_hashmap keeps its
\* entries through the failed send_data, so the receiver has fallen silent.
OversizedAckStays == [][AckOversized => AckOversized']_transferVars

\* The sender's "*x -= 1" underflows only when a chunk is sent once more
\* than its budget allows: because its reports were lost, or because the one
\* that settled it came after send_all had already opened the next window.
PanicOnlyWhenExhausted ==
    [][app # "panicked" /\ app' = "panicked"
           => Exhausted(OffFront)]_transferVars

\* The receiver answers as long as it lives and its reports fit into an ACK.
PeerAnswers == reader = "running" /\ ~AckOversized

\* If the network stops losing datagrams and the receiver can always answer,
\* the transfer ends: send_all returns false for good, or a debug build has
\* died of the underflow above.  A receiver that died in read, or whose ACK
\* once did not fit (OversizedAckStays), is silent from then on; a release
\* build of the sender then sends for ever.
TransferCompletes ==
    []PeerAnswers =>
        <>[](app = "panicked" \/ (total_offset = DataLen /\ data = {}))
-----------------------------------------------------------------------------
(***************************************************************************)
(* The mapping to Delivery, byte by byte: a byte is new until the buffer   *)
(* takes it, queued while the flag of its chunk is true, settled while the *)
(* chunk is still buffered.  It is sent and received with its chunk.       *)
(***************************************************************************)
Bytes == 0 .. (DataLen - 1)

Holds(b, o) == b.off <= o /\ o < b.off + b.len

StageOf(o) ==
    IF \E b \in data : Holds(b, o) /\ Buffered(b) THEN "queued"
    ELSE IF \E b \in data : Holds(b, o) THEN "settled"
    ELSE IF \E b \in admitted : Holds(b, o) THEN "gone"
    ELSE "new"

\* The transmissions of the chunk that the byte at o was taken in.
TriesOf(o) ==
    IF \E b \in admitted : Holds(b, o) /\ b.off \in DOMAIN times_sent
      THEN times_sent[(CHOOSE b \in admitted : Holds(b, o)).off]
      ELSE 0

D == INSTANCE Delivery WITH
        Units  <- Bytes,
        Budget <- [o \in Bytes |-> PriorityOf(o) + 1],
        stage  <- [o \in Bytes |-> StageOf(o)],
        tries  <- [o \in Bytes |-> TriesOf(o)],
        got    <- {o \in Bytes : \E b \in admitted :
                                     Holds(b, o) /\ b.off \in recv_dic}

\* The transfer keeps the promise stated in Delivery, over a network that
\* reorders, loses and duplicates: bytes are taken in order, settled only
\* when received or spent, dropped only when settled, and never sent again,
\* however send_all cuts them into chunks.  A byte's budget is that of its
\* own block, whatever the chunk it travels in.
ImplementsDelivery == D!DeliverySpec
=============================================================================
