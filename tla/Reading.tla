------------------------------ MODULE Reading ------------------------------
(***************************************************************************)
(* The receive buffer as the receiving application uses it: chunks arrive  *)
(* in any order and any number of times (recv_slice), and the application  *)
(* reads with buffers of several sizes (read), in src/src/lib.rs.          *)
(***************************************************************************)
EXTENDS RecvBuf

CONSTANTS
    Chunks,    \* the chunks the sender cut the stream into: [off, len]
    Caps,      \* sizes of the buffers passed to read
    MaxRead    \* bound: read offset at which reading stops

ASSUME ReadingAssumption ==
    /\ Chunks \subseteq [off : Nat, len : Nat \ {0}]
    /\ \A b, c \in Chunks : b # c => \/ b.off + b.len <= c.off
                                     \/ c.off + c.len <= b.off
    /\ Caps \subseteq Nat \ {0}
    /\ MaxRead \in Nat

VARIABLES
    panicked,  \* the receiving process died in emit
    late       \* history: some chunk arrived behind the reader

readingVars == <<recvBufVars, panicked, late>>

ReadingInit ==
    /\ RecvBufInit
    /\ panicked = FALSE
    /\ late = FALSE

Arrive(c) ==
    /\ ~panicked
    /\ BufReceive(c.off, c.len)
    /\ late' = (late \/ c.off < last_maxoff)
    /\ UNCHANGED panicked

Read(cap) ==
    /\ ~panicked
    /\ last_maxoff < MaxRead
    /\ Emit(cap).status = "ok"
    /\ BufRead(cap)
    /\ UNCHANGED <<panicked, late>>

ReadPanics(cap) ==
    /\ ~panicked
    /\ Emit(cap).status = "panic"
    /\ panicked' = TRUE
    /\ UNCHANGED <<recvBufVars, late>>

ReadingNext ==
    \/ \E c \in Chunks : Arrive(c)
    \/ \E cap \in Caps : Read(cap) \/ ReadPanics(cap)

ReadingSpec == ReadingInit /\ [][ReadingNext]_readingVars
-----------------------------------------------------------------------------
\* Every variable stays in the range its Rust type and use give it.
ReadingTypeOK ==
    /\ DOMAIN rdata \subseteq Nat
    /\ \A k \in DOMAIN rdata : /\ rdata[k] \in Entry
                               /\ rdata[k].pos < rdata[k].len
                               /\ k = rdata[k].off + rdata[k].len
    /\ last_maxoff \in Nat
    /\ max_recv_off \in Nat
    /\ {overflow_checks, panicked, late} \subseteq BOOLEAN

\* While no chunk has arrived behind the reader, the unread part of every
\* entry lies at or after the read offset: emit's subtractions cannot
\* underflow, and a read cannot panic.
CursorBehindData ==
    ~late => /\ \A k \in DOMAIN rdata :
                    rdata[k].off + rdata[k].pos >= last_maxoff
             /\ ~panicked

\* An entry whose unread part starts behind the read offset.
Behind(k) == rdata[k].off + rdata[k].pos < last_maxoff

\* One chunk behind the reader blocks it for good: it stays first in the map
\* and no later read copies anything (a debug build dies of the first one).
LateChunkBlocksForever ==
    [][(DOMAIN rdata # {} /\ Behind(FirstKey(rdata)))
           => /\ DOMAIN rdata' # {} /\ Behind(FirstKey(rdata))'
              /\ \A cap \in Caps : Emit(cap).copies = {}]_readingVars

\* RecvBuf::emit's comment (lib.rs:1436): contiguous data goes to the output
\* from offset 0 on, so position i of the output is stream offset
\* last_maxoff + i.
ReadsInStreamOrder ==
    ~late => \A cap \in Caps : \A c \in Emit(cap).copies :
                 c.from = last_maxoff + c.at
=============================================================================
