-------------------------------- MODULE Wire --------------------------------
(***************************************************************************)
(* Datagrams as bytes: what send_data writes into the application's output *)
(* buffer and what recv_slice makes of it (src/src/lib.rs), with Header's  *)
(* to_bytes and from_bytes (src/src/packet.rs).  The application passes    *)
(* the same buffer to every call of send_data and puts as many bytes on    *)
(* the wire as the call returned, so what an earlier packet left in the    *)
(* buffer is sent when that length is too large.                           *)
(*                                                                         *)
(* The buffer is a header, with its fields in the order of to_bytes, and a *)
(* row of cells of 8 bytes: one for an offset or a value of the payload,   *)
(* and one for some application data.  Lengths count cells.  Packet        *)
(* numbers are left out.  The two peers share the buffer here, so that it  *)
(* may hold the remains of any kind of packet.                             *)
(***************************************************************************)
EXTENDS Integers, Sequences, SequencesExt

CONSTANTS
    StreamOffs,  \* stream offsets, u64
    Payload,     \* a cell of application data
    ChunkCells,  \* cells of a full chunk
    ELICT_FLAG,  \* Application packets between two ElictAcks
    Room         \* cells behind the header in the output buffer

ASSUME WireAssumption ==
    /\ StreamOffs \subseteq Nat /\ IsFiniteSet(StreamOffs)
    /\ ChunkCells \in Nat \ {0} /\ ELICT_FLAG \in Nat \ {0}
    /\ Room \in Nat /\ Room >= ELICT_FLAG /\ Room >= ChunkCells

VARIABLES
    hdr, cells,  \* the output buffer
    unreported,  \* sent_pkt[ack_point..]: offsets no ElictAck has named
    sent_count,  \* Application packets since the last ElictAck
    stop_flag,   \* the window is over
    meant,       \* the packet the last call of send_data was to send
    wire         \* the datagram it returned, <<hdr, cells>>; <<>> if none

bufferVars == <<hdr, cells, meant, wire>>
senderVars == <<unreported, sent_count, stop_flag>>
wireVars == <<bufferVars, senderVars>>

WireInit ==
    /\ hdr = <<0, 0, 0, 0>> /\ cells = [i \in 1 .. Room |-> 0]
    /\ unreported = <<>> /\ sent_count = 0 /\ stop_flag = FALSE
    /\ meant = <<>> /\ wire = <<>>

\* The names of the codes 1 to 7.  StartAck is written as 7, too, and any
\* other code is read as StartAck; send_data makes neither Fin nor StartAck.
TypeNames == <<"Retry", "Handshake", "Application", "ElictAck", "ACK", "Stop",
               "Fin">>

Code(ty) ==
    IF \E c \in 1 .. 7 : TypeNames[c] = ty
      THEN CHOOSE c \in 1 .. 7 : TypeNames[c] = ty
      ELSE 7

TypeOf(c) == IF c \in 1 .. 7 THEN TypeNames[c] ELSE "StartAck"
-----------------------------------------------------------------------------
\* send_data writes s behind the header and returns 26 bytes and n cells.
\* What s does not cover keeps its contents.  When s does not fit, put_u64
\* fails once the buffer is full and nothing is sent.
Write(ty, priority, offset, s, n, packet) ==
    /\ hdr' = <<Code(ty), priority, offset, n>>
    /\ cells' = [i \in 1 .. Room |-> IF i <= Len(s) THEN s[i] ELSE cells[i]]
    /\ IF Len(s) <= Room
         THEN wire' = <<hdr', SubSeq(cells', 1, n)>> /\ meant' = packet
         ELSE wire' = <<>> /\ meant' = <<>>

WriteHandshake ==
    /\ Write("Handshake", 0, 0, <<>>, 0, <<"Handshake">>)
    /\ UNCHANGED senderVars

WriteStop ==
    /\ Write("Stop", 0, 0, <<>>, 0, <<"Stop">>)
    /\ UNCHANGED senderVars

\* write_pkt_type asks for an ElictAck.
ElictDue == stop_flag \/ (sent_count > 0 /\ sent_count % ELICT_FLAG = 0)

\* A chunk of n cells; emit says whether it ends the window.
WriteApplication(o, priority, n, stop) ==
    /\ ~ElictDue
    /\ LET chunk == [i \in 1 .. n |-> Payload]
       IN  Write("Application", priority, o, chunk, n,
                 <<"Application", o, priority, n, chunk>>)
    /\ sent_count' = sent_count + 1
    /\ unreported' = Append(unreported, o)
    /\ stop_flag' = (stop_flag \/ stop)

\* Variant that sends 64 bytes at the end of a window, too.
ElictAckCellsFixed == ELICT_FLAG

\* psize: 64 bytes in mid-window, whatever the number of offsets.
ElictAckCells == IF stop_flag THEN Len(unreported) ELSE ELICT_FLAG

WriteElictAck ==
    /\ ElictDue
    /\ Write("ElictAck", 0, 0, unreported, ElictAckCells,
             <<"ElictAck", unreported>>)
    /\ sent_count' = 0
    /\ unreported' = <<>>
    /\ UNCHANGED stop_flag

\* send_all opens the next window.
SendAll ==
    /\ stop_flag' = FALSE
    /\ UNCHANGED <<bufferVars, unreported, sent_count>>

\* The cells of an ACK: the largest offset, then keys and values in turn;
\* recv_hashmap is walked in any order.
AckCells(max_off, keys, recv) ==
    <<max_off>> \o [i \in 1 .. 2 * Len(keys) |->
                        IF i % 2 = 1 THEN keys[(i + 1) \div 2]
                        ELSE recv[keys[i \div 2]]]

WriteAck(max_off, keys, recv) ==
    /\ Write("ACK", 0, 0, AckCells(max_off, keys, recv), 1 + 2 * Len(keys),
             <<"ACK", max_off, recv>>)
    /\ UNCHANGED senderVars
-----------------------------------------------------------------------------
\* check_loss takes every cell for an offset.
ParseElictAck(s) == <<"ElictAck", s>>

\* process_ack takes the first cell for max_ack and the others in pairs.
ParseAck(s) ==
    LET pairs == 1 .. (Len(s) \div 2)
    IN  <<"ACK", s[1],
          [o \in {s[2 * i] : i \in pairs} |->
              s[1 + 2 * (CHOOSE i \in pairs : s[2 * i] = o)]]>>

\* recv_slice: the type, and what the type's handler reads.
Parse(h, s) ==
    LET ty == TypeOf(h[1])
    IN  CASE ty = "ElictAck"    -> ParseElictAck(s)
          [] ty = "ACK"         -> ParseAck(s)
          [] ty = "Application" -> <<ty, h[3], h[2], h[4], s>>
          [] OTHER              -> <<ty>>

WireNext ==
    \/ WriteHandshake \/ WriteStop \/ WriteElictAck \/ SendAll
    \/ \E o \in StreamOffs : \E n \in 1 .. ChunkCells :
           \E stop \in BOOLEAN : WriteApplication(o, 3, n, stop)
    \/ \E S \in SUBSET StreamOffs : \E max_off \in StreamOffs :
           \E keys \in SetToSeqs(S) : \E recv \in [S -> {0, 1}] :
               WriteAck(max_off, keys, recv)

WireSpec == WireInit /\ [][WireNext]_wireVars
-----------------------------------------------------------------------------
\* The receiver reads exactly the packet the sender meant: no offset is lost
\* from an ElictAck of fixed length, and nothing that earlier packets, also
\* ones that did not fit, left in the output buffer is taken for an offset,
\* an acknowledgement or data.
ReadsWhatWasMeant == wire # <<>> => Parse(wire[1], wire[2]) = meant
=============================================================================
