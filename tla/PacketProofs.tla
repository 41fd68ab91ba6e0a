---------------------------- MODULE PacketProofs ----------------------------
(***************************************************************************)
(* Proofs about the two models of packet.rs: PktNumWindow, for any         *)
(* offsets, block size and priorities, and Wire, for any offsets, chunk    *)
(* size, number of packets between two ElictAcks and room in the output    *)
(* buffer.                                                                 *)
(***************************************************************************)
EXTENDS PktNumWindow, Wire, FiniteSetTheorems, SequenceTheorems, TLAPS

CellSet == [retrans : Nat, received : {0, 1}]

\* A chunk recorded as missing has used up its allowance but for the
\* requests that are left.
MissingOK(o) ==
    /\ o \in DOMAIN asks
    /\ asks[o] + record[o].retrans = allowance[o]

\* One that is not has arrived, was marked, or has used up all of it.
ReceivedOK(o) ==
    \/ o \in arrived \cup marked
    \/ o \in DOMAIN asks /\ asks[o] = allowance[o] + 1

\* The inductive invariant.  A block whose first chunk is recorded has a
\* priority, so a miss never overwrites what is recorded of that chunk, and
\* a chunk that was marked is never asked for.
PktNumInv ==
    /\ DOMAIN record \subseteq Nat
    /\ \A o \in DOMAIN record : record[o] \in CellSet
    /\ \A o \in DOMAIN priority_record : priority_record[o] \in 1 .. 3
    /\ DOMAIN asks \subseteq DOMAIN record
    /\ DOMAIN allowance = DOMAIN asks
    /\ \A o \in DOMAIN asks : asks[o] \in Nat /\ allowance[o] \in Nat
    /\ arrived \subseteq DOMAIN record /\ marked \subseteq DOMAIN record
    /\ marked \cap DOMAIN asks = {}
    /\ \A o \in DOMAIN record : o % Block = 0 => o \in DOMAIN priority_record
    /\ \A o \in DOMAIN record : record[o].received = 0 => MissingOK(o)
    /\ \A o \in DOMAIN record : record[o].received = 1 => ReceivedOK(o)

\* The first offset of a block is an offset, and a multiple of the block.
LEMMA BaseFacts ==
    ASSUME NEW o \in Nat
    PROVE  Base(o) \in Nat /\ Base(o) % Block = 0 /\ Base(o) <= o
           /\ (o % Block = 0 => Base(o) = o)
<1>1. Block \in Nat /\ Block > 0
  BY PktNumAssumption
<1>2. o % Block \in 0 .. (Block - 1) /\ o % Block <= o
      /\ o = Block * (o \div Block) + (o % Block)
  BY <1>1
<1>3. Base(o) = Block * (o \div Block) /\ o \div Block \in Nat
  BY <1>1, <1>2 DEF Base
<1> QED
  BY <1>1, <1>2, <1>3 DEF Base

\* PktNumWindow::default() records nothing.
LEMMA InitHolds == PktNumInit => PktNumInv
BY DEF PktNumInit, PktNumInv, Nothing

\* A chunk arrives: its record is replaced by "received".
LEMMA AddItemKeeps ==
    ASSUME PktNumInv, NEW o \in Offs, NEW p \in Prios, AddItem(o, p)
    PROVE  PktNumInv'
<1>1. o \in Nat /\ p \in 1 .. 3
  BY PktNumAssumption
<1>2. /\ DOMAIN record' = DOMAIN record \cup {o}
      /\ record'[o] = Cell(p, 1)
      /\ \A j \in DOMAIN record : j # o => record'[j] = record[j]
  BY DEF Put, AddItem
<1>3. /\ DOMAIN priority_record \subseteq DOMAIN priority_record'
      /\ o % Block = 0 => o \in DOMAIN priority_record'
      /\ \A j \in DOMAIN priority_record' : priority_record'[j] \in 1 .. 3
  BY <1>1 DEF Put, AddItem, PktNumInv
<1>4. Cell(p, 1) \in CellSet /\ Cell(p, 1).received = 1
  BY <1>1 DEF Cell, CellSet
<1>5. /\ arrived' = arrived \cup {o}
      /\ UNCHANGED <<asks, allowance, marked>>
  BY DEF AddItem
<1>6. \A j \in DOMAIN record' : record'[j].received = 0 => MissingOK(j)'
  BY <1>2, <1>4, <1>5 DEF PktNumInv, MissingOK
<1>7. \A j \in DOMAIN record' : record'[j].received = 1 => ReceivedOK(j)'
  BY <1>2, <1>4, <1>5 DEF PktNumInv, ReceivedOK
<1> QED
  BY <1>1, <1>2, <1>3, <1>4, <1>5, <1>6, <1>7 DEF PktNumInv

\* A first request: the chunk is recorded as missing, and in an unknown
\* block the first chunk, of which nothing is recorded, as received.
LEMMA MissFirstKeeps ==
    ASSUME PktNumInv, NEW o \in Offs, MissFirst(o)
    PROVE  PktNumInv'
<1> DEFINE p == GetPriority(Base(o))
           q == IF p = 0 THEN 3 ELSE p
<1>1. o \in Nat /\ Base(o) \in Nat /\ Base(o) % Block = 0
      /\ (o % Block = 0 => Base(o) = o)
  BY PktNumAssumption, BaseFacts
<1>2. p \in 0 .. 3 /\ q \in 1 .. 3
      /\ (p = 0 <=> Base(o) \notin DOMAIN priority_record)
  BY DEF PktNumInv, GetPriority
<1>3. o \notin DOMAIN record /\ o \notin DOMAIN asks
      /\ o \notin arrived /\ o \notin marked
  BY DEF MissFirst, PktNumInv
<1>4. /\ DOMAIN asks' = DOMAIN asks \cup {o} /\ asks'[o] = 1
      /\ \A j \in DOMAIN asks : j # o => asks'[j] = asks[j]
  BY <1>3 DEF Put, MissFirst, Asked
<1>5. /\ DOMAIN allowance' = DOMAIN allowance \cup {o} /\ allowance'[o] = q
      /\ \A j \in DOMAIN allowance : j # o => allowance'[j] = allowance[j]
  BY DEF Put, MissFirst
<1>6. arrived' = arrived
  BY DEF MissFirst
<1>7. Cell(q - 1, 0) \in CellSet /\ Cell(q - 1, 0).received = 0
      /\ Cell(q - 1, 0).retrans = q - 1
      /\ Cell(3, 1) \in CellSet /\ Cell(3, 1).received = 1
  BY <1>2 DEF Cell, CellSet
<1>8. CASE p # 0
  <2>1. /\ DOMAIN record' = DOMAIN record \cup {o}
        /\ record'[o] = Cell(q - 1, 0)
        /\ \A j \in DOMAIN record : j # o => record'[j] = record[j]
    BY <1>8 DEF Put, MissFirst
  <2>2. marked' = marked /\ priority_record' = priority_record
    BY <1>8 DEF MissFirst
  <2>3. \A j \in DOMAIN record' : record'[j].received = 0 => MissingOK(j)'
    BY <1>2, <1>3, <1>4, <1>5, <1>7, <2>1, SMTT(30)
       DEF PktNumInv, MissingOK
  <2>4. \A j \in DOMAIN record' : record'[j].received = 1 => ReceivedOK(j)'
    BY <1>3, <1>4, <1>5, <1>6, <1>7, <2>1, <2>2, SMTT(30)
       DEF PktNumInv, ReceivedOK
  <2>5. \A j \in DOMAIN record' :
            j % Block = 0 => j \in DOMAIN priority_record'
    BY <1>1, <1>2, <1>8, <2>1, <2>2, SMTT(30) DEF PktNumInv
  <2> QED
    BY <1>1, <1>2, <1>3, <1>4, <1>5, <1>6, <1>7, <2>1, <2>2, <2>3, <2>4, <2>5,
       SMTT(30) DEF PktNumInv
<1>9. CASE p = 0
  <2> DEFINE b == Base(o)
             r == Put(record, b, Cell(3, 1))
  <2>1. b \notin DOMAIN record /\ b \notin DOMAIN asks
    BY <1>1, <1>2, <1>9 DEF PktNumInv
  <2>2. /\ DOMAIN r = DOMAIN record \cup {b} /\ r[b] = Cell(3, 1)
        /\ \A j \in DOMAIN record : j # b => r[j] = record[j]
    BY DEF Put
  <2>3. record' = Put(r, o, Cell(q - 1, 0))
    BY <1>9 DEF MissFirst
  <2>4. /\ DOMAIN record' = DOMAIN r \cup {o}
        /\ record'[o] = Cell(q - 1, 0)
        /\ \A j \in DOMAIN r : j # o => record'[j] = r[j]
    <3> HIDE DEF r
    <3> QED  BY <2>3 DEF Put
  <2>5. /\ DOMAIN record' = DOMAIN record \cup {b, o}
        /\ record'[o] = Cell(q - 1, 0)
        /\ b # o => record'[b] = Cell(3, 1)
        /\ \A j \in DOMAIN record : record'[j] = record[j]
    BY <1>3, <2>1, <2>2, <2>4
  <2>6. marked' = marked \cup ({b} \ {o})
    BY <1>9 DEF MissFirst
  <2>7. /\ DOMAIN priority_record' = DOMAIN priority_record \cup {b}
        /\ priority_record'[b] = 3
        /\ \A j \in DOMAIN priority_record :
               j # b => priority_record'[j] = priority_record[j]
    BY <1>9 DEF Put, MissFirst
  <2> HIDE DEF b, r, p, q
  <2>8. \A j \in DOMAIN record' : record'[j].received = 0 => MissingOK(j)'
    BY <1>2, <1>3, <1>4, <1>5, <1>7, <2>1, <2>5, SMTT(30)
       DEF PktNumInv, MissingOK
  <2>9. \A j \in DOMAIN record' : record'[j].received = 1 => ReceivedOK(j)'
    BY <1>3, <1>4, <1>5, <1>6, <1>7, <2>1, <2>5, <2>6, SMTT(30)
       DEF PktNumInv, ReceivedOK
  <2>10. b \in Nat /\ (o % Block = 0 => b = o)
    BY <1>1 DEF b
  <2>11. \A j \in DOMAIN record' :
             j % Block = 0 => j \in DOMAIN priority_record'
    BY <2>5, <2>7, <2>10, SMTT(30) DEF PktNumInv
  <2> QED
    BY <1>1, <1>2, <1>3, <1>4, <1>5, <1>6, <1>7, <2>1, <2>5, <2>6, <2>7, <2>8,
       <2>9, <2>10, <2>11, SMTT(30) DEF PktNumInv
<1> QED
  BY <1>8, <1>9

\* A further request: one is left less, or the chunk counts as received.
LEMMA MissAgainKeeps ==
    ASSUME PktNumInv, NEW o \in Offs, MissAgain(o)
    PROVE  PktNumInv'
<1> DEFINE n == record[o].retrans
           c == IF n > 0 THEN Cell(n - 1, 0) ELSE Cell(0, 1)
<1>1. o \in DOMAIN record /\ o \in DOMAIN asks /\ o \notin marked
      /\ asks[o] \in Nat /\ allowance[o] \in Nat /\ n \in Nat
      /\ asks[o] + n = allowance[o]
  BY DEF MissAgain, PktNumInv, MissingOK, CellSet
<1>2. /\ DOMAIN record' = DOMAIN record /\ record'[o] = c
      /\ \A j \in DOMAIN record : j # o => record'[j] = record[j]
  BY <1>1, Zenon DEF Put, MissAgain
<1>3. /\ DOMAIN asks' = DOMAIN asks /\ asks'[o] = asks[o] + 1
      /\ \A j \in DOMAIN asks : j # o => asks'[j] = asks[j]
  BY <1>1, Zenon DEF Put, MissAgain, Asked
<1>4. UNCHANGED <<priority_record, arrived, allowance, marked>>
  BY DEF MissAgain
<1>5. /\ c \in CellSet
      /\ n > 0 => c.received = 0 /\ c.retrans = n - 1
      /\ n = 0 => c.received = 1
  BY <1>1 DEF Cell, CellSet
<1> HIDE DEF n, c
<1>6. \A j \in DOMAIN record' : record'[j].received = 0 => MissingOK(j)'
  BY <1>1, <1>2, <1>3, <1>4, <1>5, SMTT(30)
       DEF PktNumInv, MissingOK
<1>7. \A j \in DOMAIN record' : record'[j].received = 1 => ReceivedOK(j)'
  BY <1>1, <1>2, <1>3, <1>4, <1>5 DEF PktNumInv, ReceivedOK
<1> QED
  BY <1>1, <1>2, <1>3, <1>4, <1>5, <1>6, <1>7, SMTT(30) DEF PktNumInv

\* clear_record leaves only the priorities.
LEMMA ClearRecordKeeps ==
    ASSUME PktNumInv, ClearRecord
    PROVE  PktNumInv'
BY DEF PktNumInv, ClearRecord, Nothing

\* The invariant holds whatever the order of the calls.
LEMMA PktNumInvHolds == PktNumSpec => []PktNumInv
<1>1. PktNumInv /\ [PktNumNext]_pktNumVars => PktNumInv'
  <2>1. ASSUME PktNumInv, PktNumNext
        PROVE  PktNumInv'
    BY <2>1, AddItemKeeps, MissFirstKeeps, MissAgainKeeps, ClearRecordKeeps,
       SMTT(30)
       DEF PktNumNext
  <2>2. ASSUME PktNumInv, UNCHANGED pktNumVars
        PROVE  PktNumInv'
    BY <2>2 DEF PktNumInv, MissingOK, ReceivedOK, pktNumVars
  <2> QED
    BY <2>1, <2>2
<1> QED
  BY InitHolds, <1>1, PTL DEF PktNumSpec

\* check_received asks for a chunk that never arrives exactly priority + 1
\* times, and get_retrans_times always knows how many requests are left.
THEOREM RequestsAreBudgeted == PktNumSpec => []RequestsMatchBudget
<1>1. PktNumInv => RequestsMatchBudget
  <2> SUFFICES ASSUME PktNumInv, NEW o \in DOMAIN asks \ arrived
               PROVE  asks[o] + GetRetransTimes(o) = allowance[o] + 1
    BY DEF RequestsMatchBudget
  <2>1. o \in DOMAIN record /\ o \notin marked /\ record[o] \in CellSet
        /\ asks[o] \in Nat /\ allowance[o] \in Nat
    BY DEF PktNumInv
  <2>2. CASE record[o].received = 0
    BY <2>1, <2>2 DEF PktNumInv, MissingOK, GetRetransTimes, CellSet
  <2>3. CASE record[o].received = 1
    BY <2>1, <2>3 DEF PktNumInv, ReceivedOK, GetRetransTimes
  <2> QED
    BY <2>1, <2>2, <2>3 DEF CellSet
<1> QED
  BY PktNumInvHolds, <1>1, PTL

\* check_received takes a chunk for received only if it arrived, was asked
\* for as often as its priority allows, or begins a block of which another
\* chunk was missed first.
THEOREM YesIsJustified == PktNumSpec => []YesHasAReason
<1>1. PktNumInv => YesHasAReason
  BY DEF PktNumInv, YesHasAReason, ReceivedOK
<1> QED
  BY PktNumInvHolds, <1>1, PTL

-----------------------------------------------------------------------------
(***************************************************************************)
(* Wire.                                                                   *)
(***************************************************************************)
\* What a cell of the output buffer may hold.
CellValue == Nat \cup {Payload}

\* The inductive invariant: sent_count, which decides when an ElictAck of
\* fixed length is due, counts the offsets that it names.
WireInv ==
    /\ cells \in [1 .. Room -> CellValue]
    /\ unreported \in Seq(Nat)
    /\ sent_count = Len(unreported) /\ sent_count <= ELICT_FLAG
    /\ ReadsWhatWasMeant

\* from_bytes undoes to_bytes for the five types that send_data writes.
LEMMA CodesKept ==
    \A ty \in {"Handshake", "Application", "ElictAck", "ACK", "Stop"} :
        TypeOf(Code(ty)) = ty
<1> SUFFICES ASSUME NEW ty \in {"Handshake", "Application", "ElictAck", "ACK",
                                "Stop"}
             PROVE  TypeOf(Code(ty)) = ty
  OBVIOUS
<1>1. \E c \in 1 .. 7 : TypeNames[c] = ty
  <2>1. /\ TypeNames[2] = "Handshake" /\ TypeNames[3] = "Application"
        /\ TypeNames[4] = "ElictAck" /\ TypeNames[5] = "ACK"
        /\ TypeNames[6] = "Stop"
    BY DEF TypeNames
  <2>2. 2 \in 1 .. 7 /\ 3 \in 1 .. 7 /\ 4 \in 1 .. 7 /\ 5 \in 1 .. 7
        /\ 6 \in 1 .. 7
    OBVIOUS
  <2> QED
    BY <2>1, <2>2
<1>2. Code(ty) \in 1 .. 7 /\ TypeNames[Code(ty)] = ty
  BY <1>1 DEF Code
<1> QED
  BY <1>2 DEF TypeOf

\* When the length that send_data returns is that of the payload, the
\* datagram is the payload, whatever the buffer held.
LEMMA WrittenIsSent ==
    ASSUME cells \in [1 .. Room -> CellValue], NEW s \in Seq(CellValue),
           NEW ty, NEW p, NEW o, NEW packet,
           Write(ty, p, o, s, Len(s), packet)
    PROVE  /\ cells' \in [1 .. Room -> CellValue]
           /\ \/ wire' = <<>>
              \/ wire' = <<<<Code(ty), p, o, Len(s)>>, s>> /\ meant' = packet
<1> DEFINE new == [i \in 1 .. Room |-> IF i <= Len(s) THEN s[i] ELSE cells[i]]
<1>1. Room \in Nat /\ Len(s) \in Nat /\ s \in [1 .. Len(s) -> CellValue]
  BY WireAssumption, LenProperties
<1>2. new \in [1 .. Room -> CellValue]
  BY <1>1
<1>3. cells' = new
  BY DEF Write
<1>4. CASE Len(s) > Room
  BY <1>1, <1>2, <1>3, <1>4 DEF Write
<1>5. CASE Len(s) <= Room
  <2>1. \A i \in 1 .. Len(s) : new[i] = s[i] /\ new[i] \in CellValue
    BY <1>1, <1>5
  <2> HIDE DEF new
  <2> DEFINE sub == SubSeq(new, 1, Len(s))
  <2>2. /\ sub \in Seq(CellValue)
        /\ Len(sub) = IF 1 <= Len(s) THEN Len(s) - 1 + 1 ELSE 0
        /\ \A i \in 1 .. (Len(s) - 1 + 1) : sub[i] = new[1 + i - 1]
    BY <1>1, <2>1, SubSeqProperties
  <2>3. Len(sub) = Len(s) /\ \A i \in 1 .. Len(s) : sub[i] = s[i]
    BY <1>1, <2>1, <2>2
  <2>4. sub = s
    <3> HIDE DEF sub
    <3> QED
      BY <2>2, <2>3, SeqEqual
  <2>5. hdr' = <<Code(ty), p, o, Len(s)>> /\ wire' = <<hdr', sub>>
        /\ meant' = packet
    BY <1>3, <1>5, Zenon DEF Write
  <2> QED
    BY <1>2, <1>3, <2>4, <2>5
<1> QED
  BY <1>1, <1>4, <1>5

\* An enumeration of a finite set names each of its elements.
LEMMA EnumerationCovers ==
    ASSUME NEW S, IsFiniteSet(S), NEW keys \in SetToSeqs(S)
    PROVE  /\ Cardinality(S) \in Nat
           /\ keys \in [1 .. Cardinality(S) -> S]
           /\ keys \in Seq(S) /\ Len(keys) = Cardinality(S)
           /\ \A x \in S : \E i \in 1 .. Len(keys) : keys[i] = x
<1> DEFINE n == Cardinality(S)
<1>1. n \in Nat
  BY FS_CardinalityType
<1>2. keys \in [1 .. n -> S] /\ \A i, j \in 1 .. n : i # j => keys[i] # keys[j]
  BY DEF SetToSeqs
<1>3. keys \in Injection(1 .. n, S)
  BY <1>2 DEF Injection, IsInjective
<1>4. Cardinality(1 .. n) = n
  <2>1. Cardinality(1 .. n) = IF 1 > n THEN 0 ELSE n - 1 + 1
    <3> HIDE DEF n
    <3> QED
      BY <1>1, FS_Interval
  <2> QED
    BY <1>1, <2>1
<1>5. keys \in Surjection(1 .. n, S)
  BY <1>3, <1>4, FS_Injection
<1>6. keys \in Seq(S) /\ Len(keys) = n
  BY <1>1, <1>2
<1> QED
  BY <1>1, <1>2, <1>5, <1>6 DEF Surjection

\* process_ack reads the map that an ACK was written from, whatever the order
\* in which recv_hashmap was walked.
LEMMA AckReadBack ==
    ASSUME NEW S \in SUBSET Nat, IsFiniteSet(S), NEW max_off \in Nat,
           NEW keys \in SetToSeqs(S), NEW recv \in [S -> {0, 1}]
    PROVE  /\ AckCells(max_off, keys, recv) \in Seq(CellValue)
           /\ Len(AckCells(max_off, keys, recv)) = 1 + 2 * Len(keys)
           /\ ParseAck(AckCells(max_off, keys, recv))
                  = <<"ACK", max_off, recv>>
<1> DEFINE n == Len(keys)
           body == [i \in 1 .. 2 * n |-> IF i % 2 = 1 THEN keys[(i + 1) \div 2]
                                        ELSE recv[keys[i \div 2]]]
           s == AckCells(max_off, keys, recv)
<1>1. n \in Nat /\ keys \in [1 .. n -> S]
      /\ \A x \in S : \E i \in 1 .. n : keys[i] = x
  BY EnumerationCovers
<1>2. body \in Seq(CellValue) /\ Len(body) = 2 * n
  <2>1. ASSUME NEW i \in 1 .. 2 * n PROVE body[i] \in CellValue
    <3>1. CASE i % 2 = 1
      <4>1. (i + 1) \div 2 \in 1 .. n
        BY <1>1, <3>1
      <4> QED
        BY <1>1, <3>1, <4>1, Zenon DEF CellValue
    <3>2. CASE i % 2 = 0
      <4>1. i \div 2 \in 1 .. n
        BY <1>1, <3>2
      <4>2. recv[keys[i \div 2]] \in {0, 1}
        BY <1>1, <4>1, Zenon
      <4>3. body[i] = recv[keys[i \div 2]]
        BY <3>2
      <4> QED
        BY <4>2, <4>3 DEF CellValue
    <3>3. i % 2 \in 0 .. 1
      BY <1>1
    <3> QED
      BY <3>1, <3>2, <3>3
  <2>2. body \in [1 .. 2 * n -> CellValue] /\ 2 * n \in Nat
    BY <1>1, <2>1
  <2> HIDE DEF body
  <2> QED
    BY <2>2
<1>3. <<max_off>> \in Seq(CellValue) /\ Len(<<max_off>>) = 1
  BY DEF CellValue
<1>4. s = <<max_off>> \o body
  BY DEF AckCells
<1>5. ASSUME NEW i \in 1 .. n
      PROVE  body[2 * i - 1] = keys[i] /\ body[2 * i] = recv[keys[i]]
  <2>1. /\ 2 * i - 1 \in 1 .. 2 * n /\ (2 * i - 1) % 2 = 1
        /\ (2 * i - 1 + 1) \div 2 = i
        /\ 2 * i \in 1 .. 2 * n /\ (2 * i) % 2 = 0 /\ (2 * i) \div 2 = i
    BY <1>1
  <2> QED
    BY <2>1
<1> HIDE DEF body, s
<1>6. s \in Seq(CellValue) /\ Len(s) = 1 + 2 * n
      /\ \A i \in 1 .. (1 + 2 * n) :
             s[i] = IF i <= 1 THEN <<max_off>>[i] ELSE body[i - 1]
  BY <1>2, <1>3, <1>4, ConcatProperties
<1>7. s[1] = max_off
  BY <1>1, <1>6
<1>8. ASSUME NEW i \in 1 .. n
      PROVE  s[2 * i] = keys[i] /\ s[1 + 2 * i] = recv[keys[i]]
  <2>1. s[2 * i] = body[2 * i - 1] /\ s[1 + 2 * i] = body[2 * i]
    BY <1>1, <1>6
  <2> QED
    BY <2>1, <1>5
<1> DEFINE pairs == 1 .. (Len(s) \div 2)
           read == [o \in {s[2 * i] : i \in pairs} |->
                       s[1 + 2 * (CHOOSE i \in pairs : s[2 * i] = o)]]
<1>9. pairs = 1 .. n
  <2>1. n \in Nat /\ Len(s) = 1 + 2 * n
    BY <1>1, <1>6
  <2> HIDE DEF n
  <2>2. (1 + 2 * n) \div 2 = n
    BY <2>1
  <2> QED
    BY <2>1, <2>2
<1> HIDE DEF n, pairs
<1>10. {s[2 * i] : i \in pairs} = S
  <2>1. ASSUME NEW i \in pairs PROVE s[2 * i] \in S
    BY <2>1, <1>1, <1>8, <1>9, Zenon
  <2>2. ASSUME NEW x \in S PROVE \E i \in pairs : s[2 * i] = x
    <3>1. PICK i \in 1 .. n : keys[i] = x
      BY <1>1, <2>2
    <3>2. s[2 * i] = x
      BY <3>1, <1>8
    <3> QED
      BY <3>2, <1>9
  <2> QED
    BY <2>1, <2>2, Zenon
<1>11. ASSUME NEW x \in S PROVE read[x] = recv[x]
  <2> DEFINE j == CHOOSE i \in pairs : s[2 * i] = x
  <2>1. \E i \in pairs : s[2 * i] = x
    BY <1>10
  <2>2. j \in pairs /\ s[2 * j] = x
    BY <2>1
  <2>3. read[x] = s[1 + 2 * j]
    BY <1>10
  <2> HIDE DEF j
  <2>4. keys[j] = x /\ s[1 + 2 * j] = recv[keys[j]]
    BY <2>2, <1>8, <1>9
  <2> QED
    BY <2>3, <2>4
<1>12. read = recv
  <2>1. read = [x \in S |-> read[x]] /\ recv = [x \in S |-> recv[x]]
    BY <1>10
  <2> QED
    BY <2>1, <1>11, Zenon
<1>13. ParseAck(s) = <<"ACK", s[1], read>>
  BY Zenon DEF ParseAck, pairs
<1>14. ParseAck(s) = <<"ACK", max_off, recv>>
  BY <1>7, <1>12, <1>13, Zenon
<1>15. s \in Seq(CellValue) /\ Len(s) = 1 + 2 * Len(keys)
  BY <1>6 DEF n
<1> QED
  BY <1>14, <1>15, Zenon DEF s

\* An ElictAck in mid-window names as many offsets as its fixed length says.
LEMMA ElictAckExact ==
    ASSUME WireInv, ElictDue
    PROVE  ElictAckCells = Len(unreported)
<1>1. Len(unreported) \in Nat /\ ELICT_FLAG \in Nat \ {0}
  BY WireAssumption, LenProperties DEF WireInv
<1>2. sent_count = Len(unreported) /\ sent_count <= ELICT_FLAG
  BY DEF WireInv
<1>3. CASE ~stop_flag
  <2>1. sent_count > 0 /\ sent_count % ELICT_FLAG = 0
    BY <1>3 DEF ElictDue
  <2>2. sent_count < ELICT_FLAG => sent_count % ELICT_FLAG = sent_count
    BY <1>1, <1>2
  <2>3. sent_count = ELICT_FLAG
    BY <1>1, <1>2, <2>1, <2>2
  <2> QED
    BY <1>2, <1>3, <2>3 DEF ElictAckCells
<1> QED
  BY <1>3 DEF ElictAckCells

\* A packet without a payload is read as what its type says.
LEMMA BarePacket ==
    ASSUME WireInv, NEW ty \in {"Handshake", "Stop"},
           Write(ty, 0, 0, <<>>, 0, <<ty>>)
    PROVE  cells' \in [1 .. Room -> CellValue] /\ ReadsWhatWasMeant'
<1>1. <<>> \in Seq(CellValue) /\ Len(<<>>) = 0
  BY EmptySeq
<1>2. /\ cells' \in [1 .. Room -> CellValue]
      /\ \/ wire' = <<>>
         \/ wire' = <<<<Code(ty), 0, 0, 0>>, <<>>>> /\ meant' = <<ty>>
  BY <1>1, WrittenIsSent, Zenon DEF WireInv
<1>3. TypeOf(Code(ty)) = ty
  BY CodesKept
<1>4. Parse(<<Code(ty), 0, 0, 0>>, <<>>) = <<ty>>
  BY <1>3 DEF Parse
<1> QED
  BY <1>2, <1>4 DEF ReadsWhatWasMeant

\* A chunk is read with its offset, priority, length and bytes.
LEMMA ApplicationReadBack ==
    ASSUME WireInv, NEW o \in StreamOffs, NEW p, NEW k \in 1 .. ChunkCells,
           NEW stop, WriteApplication(o, p, k, stop)
    PROVE  WireInv'
<1> DEFINE chunk == [i \in 1 .. k |-> Payload]
           packet == <<"Application", o, p, k, chunk>>
<1>1. k \in Nat /\ chunk \in Seq(CellValue) /\ Len(chunk) = k /\ o \in Nat
  BY WireAssumption DEF CellValue
<1>2. Write("Application", p, o, chunk, k, packet)
  BY DEF WriteApplication
<1>3. packet = <<"Application", o, p, k, chunk>>
  OBVIOUS
<1> HIDE DEF chunk, packet
<1>4. /\ cells' \in [1 .. Room -> CellValue]
      /\ \/ wire' = <<>>
         \/ wire' = <<<<Code("Application"), p, o, k>>, chunk>>
            /\ meant' = packet
  BY <1>1, <1>2, WrittenIsSent DEF WireInv
<1>5. TypeOf(Code("Application")) = "Application"
  BY CodesKept
<1>6. Parse(<<Code("Application"), p, o, k>>, chunk) = packet
  BY <1>3, <1>5 DEF Parse
<1>7. ReadsWhatWasMeant'
  BY <1>4, <1>6 DEF ReadsWhatWasMeant
<1>8. /\ unreported' \in Seq(Nat) /\ sent_count' = Len(unreported')
      /\ sent_count' <= ELICT_FLAG
  <2>1. /\ sent_count' = sent_count + 1
        /\ unreported' = Append(unreported, o) /\ ~ElictDue
    BY DEF WriteApplication
  <2>2. unreported' \in Seq(Nat) /\ Len(unreported') = Len(unreported) + 1
    BY <1>1, <2>1, AppendProperties DEF WireInv
  <2>3. Len(unreported) \in Nat /\ ELICT_FLAG \in Nat \ {0}
        /\ ELICT_FLAG % ELICT_FLAG = 0
    BY WireAssumption, LenProperties DEF WireInv
  <2>4. sent_count # ELICT_FLAG
    BY <2>1, <2>3 DEF ElictDue
  <2> QED
    BY <2>1, <2>2, <2>3, <2>4 DEF WireInv
<1> QED
  BY <1>4, <1>7, <1>8 DEF WireInv

\* check_loss reads the offsets that no ElictAck had named.
LEMMA ElictAckReadBack == ASSUME WireInv, WriteElictAck PROVE WireInv'
<1> DEFINE packet == <<"ElictAck", unreported>>
<1>1. unreported \in Seq(CellValue) /\ ElictAckCells = Len(unreported)
  BY ElictAckExact, SMTT(30) DEF WireInv, WriteElictAck, CellValue
<1>2. Write("ElictAck", 0, 0, unreported, Len(unreported), packet)
  BY <1>1 DEF WriteElictAck
<1>3. /\ cells' \in [1 .. Room -> CellValue]
      /\ \/ wire' = <<>>
         \/ wire' = <<<<Code("ElictAck"), 0, 0, Len(unreported)>>, unreported>>
            /\ meant' = packet
  BY <1>1, <1>2, WrittenIsSent DEF WireInv
<1>4. TypeOf(Code("ElictAck")) = "ElictAck"
  BY CodesKept
<1>5. Parse(<<Code("ElictAck"), 0, 0, Len(unreported)>>, unreported) = packet
  BY <1>4 DEF Parse, ParseElictAck
<1>6. ReadsWhatWasMeant'
  BY <1>3, <1>5 DEF ReadsWhatWasMeant
<1>7. sent_count' = 0 /\ unreported' = <<>>
  BY DEF WriteElictAck
<1> QED
  BY <1>3, <1>6, <1>7, EmptySeq, WireAssumption DEF WireInv

\* process_ack reads the reports that the ACK was written from.
LEMMA AckStep ==
    ASSUME WireInv, NEW S \in SUBSET StreamOffs, NEW max_off \in StreamOffs,
           NEW keys \in SetToSeqs(S), NEW recv \in [S -> {0, 1}],
           WriteAck(max_off, keys, recv)
    PROVE  WireInv'
<1> DEFINE s == AckCells(max_off, keys, recv)
           packet == <<"ACK", max_off, recv>>
<1>1. S \in SUBSET Nat /\ IsFiniteSet(S) /\ max_off \in Nat
  BY WireAssumption, FS_Subset, Zenon
<1>2. /\ s \in Seq(CellValue) /\ Len(s) = 1 + 2 * Len(keys)
      /\ ParseAck(s) = packet
  BY <1>1, AckReadBack
<1>3. Write("ACK", 0, 0, s, Len(s), packet)
  BY <1>2 DEF WriteAck
<1> HIDE DEF s, packet
<1>4. /\ cells' \in [1 .. Room -> CellValue]
      /\ \/ wire' = <<>>
         \/ wire' = <<<<Code("ACK"), 0, 0, Len(s)>>, s>> /\ meant' = packet
  BY <1>2, <1>3, WrittenIsSent, Zenon DEF WireInv
<1>5. TypeOf(Code("ACK")) = "ACK"
  BY CodesKept
<1>6. Parse(<<Code("ACK"), 0, 0, Len(s)>>, s) = packet
  BY <1>2, <1>5 DEF Parse
<1>7. ReadsWhatWasMeant'
  BY <1>4, <1>6 DEF ReadsWhatWasMeant
<1> QED
  BY <1>4, <1>7 DEF WireInv, WriteAck, senderVars

\* The receiver reads exactly the packet the sender meant, for every number
\* of packets between ElictAcks, every chunk size and every size of the
\* buffer, although the two lengths of an ElictAck are computed apart and
\* the buffer is never cleared.
THEOREM PacketsReadBack == WireSpec => []ReadsWhatWasMeant
<1>1. WireInit => WireInv
  <2> SUFFICES ASSUME WireInit PROVE WireInv
    OBVIOUS
  <2>1. cells \in [1 .. Room -> CellValue]
    BY DEF WireInit, CellValue
  <2>2. unreported \in Seq(Nat) /\ sent_count = Len(unreported)
        /\ sent_count <= ELICT_FLAG
    BY EmptySeq, WireAssumption DEF WireInit
  <2> QED
    BY <2>1, <2>2 DEF WireInit, WireInv, ReadsWhatWasMeant
<1>2. WireInv /\ [WireNext]_wireVars => WireInv'
  <2> SUFFICES ASSUME WireInv, [WireNext]_wireVars PROVE WireInv'
    OBVIOUS
  <2>1. CASE WriteHandshake
    BY <2>1, BarePacket DEF WriteHandshake, senderVars, WireInv
  <2>2. CASE WriteStop
    BY <2>2, BarePacket DEF WriteStop, senderVars, WireInv
  <2>3. CASE SendAll \/ UNCHANGED wireVars
    BY <2>3 DEF SendAll, wireVars, bufferVars, senderVars, WireInv,
                ReadsWhatWasMeant
  <2> QED
    BY <2>1, <2>2, <2>3, ElictAckReadBack, ApplicationReadBack, AckStep
       DEF WireNext
<1>3. WireInv => ReadsWhatWasMeant
  BY DEF WireInv
<1> QED
  BY <1>1, <1>2, <1>3, PTL DEF WireSpec
=============================================================================
