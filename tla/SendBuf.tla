------------------------------ MODULE SendBuf ------------------------------
(***************************************************************************)
(* The send buffer of a Connection (SendBuf in src/src/lib.rs): the chunks *)
(* of the application's data that one congestion window may send, and the  *)
(* map that says which of them the peer has settled.                       *)
(*                                                                         *)
(* data is a VecDeque to which chunks are only appended, at the growing    *)
(* offset off, so it is always sorted by offset: it is modelled as a set   *)
(* of chunks and a chunk's index is its rank.  The payload bytes are left  *)
(* out.  used_length is left out: write sets it equal to len and every     *)
(* later update of the two is the same.                                    *)
(***************************************************************************)
EXTENDS Integers, FiniteSets

CONSTANTS
    SEND_BUFFER_SIZE,  \* bytes of a full chunk, and of a priority block
    OUT_LEN            \* room for payload in the datagram offered to emit

ASSUME SizeAssumption ==
    /\ SEND_BUFFER_SIZE \in Nat \ {0}
    /\ OUT_LEN \in Nat
    /\ OUT_LEN >= SEND_BUFFER_SIZE

VARIABLES
    data,          \* set of chunks [off, len] waiting to be sent or settled
    pos,           \* index of the chunk that emit sends next
    off,           \* stream offset at which the next byte is buffered
    len,           \* bytes of the buffer not yet emitted in this window
    max_data,      \* size of the current congestion window
    offset_recv,   \* chunk offset -> TRUE while the chunk is still wanted
    sent           \* bytes emitted in this window

sendBufVars == <<data, pos, off, len, max_data, offset_recv, sent>>

Chunk == [off : Nat, len : Nat \ {0}]

Smaller(a, b) == IF a <= b THEN a ELSE b

Offsets(S) == {b.off : b \in S}

\* The place of chunk b in the VecDeque, from 0.
Index(b) == Cardinality({c \in data : c.off < b.off})

\* The place of key k in the BTreeMap's iteration order, from 0.
KeyIndex(k) == Cardinality({j \in DOMAIN offset_recv : j < k})

\* The stream offsets of the bytes that the chunks of S hold.
ByteSet(S) == UNION {b.off .. (b.off + b.len - 1) : b \in S}

\* len(): how many these are; chunks never overlap.
BytesIn(S) == Cardinality(ByteSet(S))

SendBufInit(window) ==
    /\ data = {}
    /\ pos = 0
    /\ off = 0
    /\ len = 0
    /\ max_data = window
    /\ offset_recv = [k \in {} |-> TRUE]
    /\ sent = 0
-----------------------------------------------------------------------------
\* Variant of recv_and_drop without the first retain.
KeptAll == data

(***************************************************************************)
(* recv_and_drop: the i-th chunk is kept when the i-th value of the map is *)
(* true; the map then keeps its true entries.  An empty buffer returns     *)
(* early and leaves the map as it is.                                      *)
(***************************************************************************)
Kept ==
    {b \in data : \E k \in DOMAIN offset_recv :
                      KeyIndex(k) = Index(b) /\ offset_recv[k]}

\* Variant without the map's own retain.
WantedAll == offset_recv

Wanted ==
    IF data = {}
      THEN offset_recv
      ELSE [k \in {j \in DOMAIN offset_recv : offset_recv[j]} |-> TRUE]

\* How many of the n bytes offered the window leaves room for.
Accepted(n, window) ==
    IF BytesIn(Kept) >= window THEN 0
    ELSE Smaller(n, window - BytesIn(Kept))

\* Variant that ignores off_len.
UnalignedChunks(m, off_len) ==
    LET starts == {o \in off .. (off + m - 1) :
                       (o - off) % SEND_BUFFER_SIZE = 0}
    IN  {[off |-> o, len |-> Smaller(SEND_BUFFER_SIZE, off + m - o)] :
             o \in starts}

\* Variant that cuts data.chunks(..) instead of data[off_len..].chunks(..).
OverlappingChunks(m, off_len) ==
    UnalignedChunks(m, off_len) \cup
    (IF off_len > 0 /\ m > 0
       THEN {[off |-> off, len |-> Smaller(off_len, m)]} ELSE {})

\* The chunks m new bytes are cut into: off_len bytes up to the next block
\* boundary first, then full chunks, the last one as long as what is left.
NewChunks(m, off_len) ==
    LET first  == off + off_len
        starts == {o \in first .. (off + m - 1) :
                       (o - first) % SEND_BUFFER_SIZE = 0}
        head   == IF off_len > 0 /\ m > 0
                    THEN {[off |-> off, len |-> Smaller(off_len, m)]}
                    ELSE {}
    IN  head \cup
        {[off |-> o, len |-> Smaller(SEND_BUFFER_SIZE, off + m - o)] :
             o \in starts}

\* Variants of write: one counts only the new bytes in len, the other moves
\* pos back by the number of chunks dropped.
BufWriteForgetsKept(n, window, off_len) ==
    LET m   == Accepted(n, window)
        new == NewChunks(m, off_len)
    IN  /\ data' = Kept \cup new
        /\ offset_recv' = [k \in DOMAIN Wanted \cup Offsets(new) |->
                              IF k \in Offsets(new) THEN TRUE ELSE Wanted[k]]
        /\ off' = off + m
        /\ len' = m
        /\ max_data' = window
        /\ sent' = 0
        /\ UNCHANGED pos

BufWriteShiftsPos(n, window, off_len) ==
    LET m   == Accepted(n, window)
        new == NewChunks(m, off_len)
    IN  /\ data' = Kept \cup new
        /\ offset_recv' = [k \in DOMAIN Wanted \cup Offsets(new) |->
                              IF k \in Offsets(new) THEN TRUE ELSE Wanted[k]]
        /\ off' = off + m
        /\ len' = BytesIn(Kept) + m
        /\ max_data' = window
        /\ sent' = 0
        /\ pos' = pos - Cardinality(data \ Kept)

\* write(data[..n], window, off_len): returns Accepted(n, window).  pos is
\* not touched.
BufWrite(n, window, off_len) ==
    LET m   == Accepted(n, window)
        new == NewChunks(m, off_len)
    IN  /\ data' = Kept \cup new
        /\ offset_recv' = [k \in DOMAIN Wanted \cup Offsets(new) |->
                              IF k \in Offsets(new) THEN TRUE ELSE Wanted[k]]
        /\ off' = off + m
        /\ len' = BytesIn(Kept) + m
        /\ max_data' = window
        /\ sent' = 0
        /\ UNCHANGED pos
-----------------------------------------------------------------------------
\* The chunk at index pos, if there is one: {} or a singleton.
Front == {b \in data : Index(b) = pos}

\* off_front(): where the next chunk starts, or the end of the buffer.
OffFront == IF Front = {} THEN off ELSE (CHOOSE b \in Front : TRUE).off

\* The three results of emit: payload length, offset, and "window is over".
\* A call that finds no chunk reports the whole output buffer as its length.
EmitLen ==
    IF Front = {} THEN OUT_LEN
    ELSE Smaller((CHOOSE b \in Front : TRUE).len, OUT_LEN)

NextPos == IF Front = {} THEN pos ELSE pos + 1

EmitStop ==
    \/ sent + EmitLen >= max_data
    \/ NextPos = Cardinality(data)

\* Variant that does not return to the front when the window ends.
BufEmitKeepsPos ==
    /\ sent' = sent + EmitLen
    /\ pos' = NextPos
    /\ len' = IF Front = {} THEN len ELSE len - EmitLen
    /\ UNCHANGED <<data, off, max_data, offset_recv>>

BufEmit ==
    /\ sent' = sent + EmitLen
    /\ pos' = IF EmitStop THEN 0 ELSE NextPos
    /\ len' = IF Front = {} THEN len ELSE len - EmitLen
    /\ UNCHANGED <<data, off, max_data, offset_recv>>
-----------------------------------------------------------------------------
\* ack_and_drop, for every offset of S.
BufAckAndDrop(S) ==
    /\ offset_recv' = [k \in DOMAIN offset_recv |->
                           offset_recv[k] /\ k \notin S]
    /\ UNCHANGED <<data, pos, off, len, max_data, sent>>

\* clear(), reached through Connection::reset: the map is not cleared.
BufClear ==
    /\ data' = {}
    /\ pos' = 0
    /\ off' = 0
    /\ UNCHANGED <<len, max_data, offset_recv, sent>>
============================================================================
