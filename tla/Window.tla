------------------------------- MODULE Window -------------------------------
(***************************************************************************)
(* The send buffer as a Connection drives it (send_all, write, and the     *)
(* Application branch of send_data in src/src/lib.rs), against a peer that *)
(* may settle any chunk that was ever emitted, at any time.  The window    *)
(* sizes are inputs here; Recovery says which ones occur.                  *)
(***************************************************************************)
EXTENDS SendBuf

CONSTANTS
    DataLen,    \* length of the application's data, send_data.len()
    Windows,    \* congestion windows that write may be given
    Interrupt   \* TRUE: send_all may be called before the window is over

ASSUME WindowAssumption ==
    /\ DataLen \in Nat
    /\ Windows \subseteq Nat
    /\ Interrupt \in BOOLEAN

VARIABLES
    total_offset,  \* bytes handed to the buffer (written_data, total_offset)
    open,          \* the application is still calling send_data
    emitted        \* offsets sent at least once: the keys of sent_dic

windowVars == <<data, pos, off, len, max_data, offset_recv, sent,
                total_offset, open, emitted>>

\* Connection::write: bytes missing to the next block boundary.
OffLen ==
    IF total_offset % SEND_BUFFER_SIZE = 0 THEN 0
    ELSE SEND_BUFFER_SIZE - (total_offset % SEND_BUFFER_SIZE)

WindowInit ==
    /\ \E w \in Windows : SendBufInit(w)
    /\ total_offset = 0
    /\ open = FALSE
    /\ emitted = {}

\* send_all with something to send.
SendAll(window) ==
    /\ Interrupt \/ ~open
    /\ total_offset < DataLen \/ data # {}
    /\ BufWrite(DataLen - total_offset, window, OffLen)
    /\ total_offset' = total_offset + Accepted(DataLen - total_offset, window)
    /\ open' = TRUE
    /\ UNCHANGED emitted

\* One Application packet.
SendChunk ==
    /\ open
    /\ OffFront < total_offset
    /\ BufEmit
    /\ emitted' = emitted \cup {OffFront}
    /\ open' = ~EmitStop
    /\ UNCHANGED total_offset

\* send_data returns Done: there is no chunk at pos.
SendDone ==
    /\ open
    /\ OffFront >= total_offset
    /\ BufEmit
    /\ open' = FALSE
    /\ UNCHANGED <<total_offset, emitted>>

\* An ACK settles one chunk: received, or out of retransmissions.
Settle(o) ==
    /\ BufAckAndDrop({o})
    /\ UNCHANGED <<total_offset, open, emitted>>

WindowNext ==
    \/ \E w \in Windows : SendAll(w)
    \/ SendChunk
    \/ SendDone
    \/ \E o \in emitted : Settle(o)

WindowSpec == WindowInit /\ [][WindowNext]_windowVars

\* The application keeps to its loop, and every chunk sent is reported on in
\* the end: it arrives, or its retransmissions run out.
WindowFairness ==
    /\ WF_windowVars(\E w \in Windows : SendAll(w))
    /\ WF_windowVars(SendChunk)
    /\ WF_windowVars(SendDone)
    /\ \A o \in 0 .. DataLen : WF_windowVars(o \in emitted /\ Settle(o))

WindowFairSpec == WindowSpec /\ WindowFairness
-----------------------------------------------------------------------------
\* Every variable stays in the range the code's types and uses give it.
WindowTypeOK ==
    /\ data \subseteq Chunk
    /\ IsFiniteSet(data)
    /\ pos \in Nat
    /\ off \in Nat
    /\ len \in Int
    /\ max_data \in Nat
    /\ DOMAIN offset_recv \subseteq Nat
    /\ offset_recv \in [DOMAIN offset_recv -> BOOLEAN]
    /\ sent \in Nat
    /\ total_offset \in Nat
    /\ open \in BOOLEAN
    /\ emitted \subseteq Nat

\* recv_and_drop pairs chunks and flags by position only; what it keeps is
\* nevertheless exactly the chunks whose own flag is still true.
DropsExactlySettled ==
    Kept = {b \in data : b.off \in DOMAIN offset_recv /\ offset_recv[b.off]}

\* No byte of the stream is in two chunks, and every buffered byte lies below
\* the offset at which the next one is written.
ChunksDisjoint ==
    /\ \A b, c \in data : b # c => \/ b.off + b.len <= c.off
                                   \/ c.off + c.len <= b.off
    /\ \A b \in data : b.off + b.len <= off

\* A chunk never crosses a block boundary, so priority_calculation(off)
\* (which looks at off/1024 only) speaks for all of its bytes.
WithinOneBlock ==
    \A b \in data : b.off \div SEND_BUFFER_SIZE
                        = (b.off + b.len - 1) \div SEND_BUFFER_SIZE

\* While the application is sending, the bytes at pos and after it are
\* covered by len, so emit's "self.len -= buf_len" cannot underflow.
LenCoversUnsent ==
    open => BytesIn({b \in data : Index(b) >= pos}) <= len

\* A window ends because the buffer was sent to its end or because the
\* congestion window is used up, and the next one starts at the front.
WindowDrained ==
    ~open => /\ pos = 0
             /\ len = 0 \/ sent >= max_data

\* The transfer ends: all data is handed to the buffer and settled, so that
\* send_all returns false for good.
Completes == <>[](total_offset = DataLen /\ data = {})
=============================================================================
