------------------------------ MODULE Session ------------------------------
(***************************************************************************)
(* A sending Connection used for several data sets (data_send, send_all,   *)
(* send_data, recv_slice of ACKs and reset in src/src/lib.rs).  The send   *)
(* buffer is driven as in Window; each data_send replaces the data and its *)
(* norms, and reset clears the norms and the buffer's queue, but neither   *)
(* touches written_data, total_offset or the flags.                        *)
(*                                                                         *)
(* The peer may report on any chunk ever sent, at any time.  The budgets   *)
(* of retransmissions are Transfer's subject; here a panic is an index or  *)
(* slice out of bounds.                                                    *)
(***************************************************************************)
EXTENDS SendBuf, DataSend

CONSTANTS
    Windows,    \* congestion windows that write may be given
    MaxSets     \* bound: calls of data_send

ASSUME SessionAssumption ==
    /\ SEND_BUFFER_SIZE = FLOAT * GROUP
    /\ Windows \subseteq Nat
    /\ MaxSets \in Nat

VARIABLES
    written,     \* written_data and total_offset
    open,        \* the application is calling send_data
    status,      \* "running" or "panicked"
    \* history
    answer,      \* what send_all last returned for this data set
    taken,       \* bytes of this data set handed to the buffer
    current,     \* offsets sent since the last data_send or reset
    earlier,     \* offsets sent before it
    sets,        \* calls of data_send
    hasty,       \* data_send or reset was called with data left to send
    ragged,      \* data_send was given a text that is not Regular
    stale,       \* the panic came with a report on an earlier data set only
    was_reset    \* reset was called

useVars == <<written, open, status>>
traceVars == <<answer, taken, current, earlier, sets, hasty, ragged, stale,
               was_reset>>
sessionVars == <<sendBufVars, dataSendVars, useVars, traceVars>>

SessionInit ==
    /\ \E w \in Windows : SendBufInit(w)
    /\ DataSendInit
    /\ written = 0 /\ open = FALSE /\ status = "running"
    /\ answer = "none" /\ taken = 0
    /\ current = {} /\ earlier = {}
    /\ sets = 0
    /\ hasty = FALSE /\ ragged = FALSE /\ stale = FALSE /\ was_reset = FALSE

\* The single-threaded application is outside data_send and its send loop.
Between == status = "running" /\ reading = "no" /\ ~open
Sending == status = "running" /\ reading = "no" /\ open

\* send_all would return false.
Finished == data = {} /\ written >= send_len

OffLen ==
    IF written % SEND_BUFFER_SIZE = 0 THEN 0
    ELSE SEND_BUFFER_SIZE - (written % SEND_BUFFER_SIZE)

\* priority_calculation(o) indexes norm2_vec within bounds.
HasNorm(o) == o \div SEND_BUFFER_SIZE < norms

\* Another data set begins for the history variables.
NewEpoch ==
    /\ earlier' = earlier \cup current
    /\ current' = {}
    /\ hasty' = (hasty \/ ~Finished)
-----------------------------------------------------------------------------
\* Variant that clears the send buffer, as reset does, but not written.
NewDataClears(text) ==
    /\ Between /\ sets < MaxSets
    /\ StartInput(text)
    /\ BufClear
    /\ sets' = sets + 1
    /\ NewEpoch
    /\ ragged' = (ragged \/ ~Regular(text))
    /\ taken' = 0 /\ answer' = "none"
    /\ UNCHANGED <<useVars, stale, was_reset>>

NewData(text) ==
    /\ Between /\ sets < MaxSets
    /\ StartInput(text)
    /\ sets' = sets + 1
    /\ NewEpoch
    /\ ragged' = (ragged \/ ~Regular(text))
    /\ taken' = 0 /\ answer' = "none"
    /\ UNCHANGED <<sendBufVars, useVars, stale, was_reset>>

\* The rest of data_send; nothing else runs meanwhile.
Prepare ==
    /\ status = "running"
    /\ ReadFloat \/ EndPart \/ EndInput
    /\ status' = IF reading' = "panicked" THEN "panicked" ELSE "running"
    /\ UNCHANGED <<sendBufVars, written, open, traceVars>>

\* Connection::reset.
Reset ==
    /\ Between
    /\ norms' = 0
    /\ BufClear
    /\ NewEpoch
    /\ was_reset' = TRUE
    /\ UNCHANGED <<parts, it, send_len, reading, useVars, answer, taken, sets,
                   ragged, stale>>

\* send_all returning true; write slices send_data[written_data..].
SendAll(w) ==
    /\ Between /\ ~Finished
    /\ written <= send_len
    /\ BufWrite(send_len - written, w, OffLen)
    /\ written' = written + Accepted(send_len - written, w)
    /\ taken' = taken + Accepted(send_len - written, w)
    /\ open' = TRUE /\ answer' = "true"
    /\ UNCHANGED <<dataSendVars, status, current, earlier, sets, hasty, ragged,
                   stale, was_reset>>

SendAllFalse ==
    /\ Between /\ Finished
    /\ answer' = "false"
    /\ UNCHANGED <<sendBufVars, dataSendVars, useVars, taken, current, earlier,
                   sets, hasty, ragged, stale, was_reset>>

\* One Application packet.
SendChunk ==
    /\ Sending
    /\ OffFront < written /\ HasNorm(OffFront)
    /\ BufEmit
    /\ current' = current \cup {OffFront}
    /\ open' = ~EmitStop
    /\ UNCHANGED <<dataSendVars, written, status, answer, taken, earlier, sets,
                   hasty, ragged, stale, was_reset>>

SendDone ==
    /\ Sending
    /\ OffFront >= written
    /\ BufEmit
    /\ open' = FALSE
    /\ UNCHANGED <<dataSendVars, written, status, traceVars>>

\* An ACK reports chunk o as received or spent.
Report(o) ==
    /\ status = "running" /\ reading = "no"
    /\ HasNorm(o)
    /\ BufAckAndDrop({o})
    /\ UNCHANGED <<dataSendVars, useVars, traceVars>>

\* Out of bounds: the slice in write, or the norm of a chunk being sent or
\* reported on.
Panic ==
    /\ status' = "panicked"
    /\ UNCHANGED <<sendBufVars, dataSendVars, written, open, answer, taken,
                   current, earlier, sets, hasty, ragged, was_reset>>

SendAllPanics ==
    /\ Between /\ ~Finished /\ written > send_len
    /\ Panic /\ UNCHANGED stale

SendChunkPanics ==
    /\ Sending /\ OffFront < written /\ ~HasNorm(OffFront)
    /\ Panic /\ UNCHANGED stale

ReportPanics(o) ==
    /\ status = "running" /\ reading = "no" /\ ~HasNorm(o)
    /\ Panic /\ stale' = (o \notin current)

SessionNext ==
    \/ \E text \in Inputs : NewData(text)
    \/ Prepare
    \/ Reset
    \/ \E w \in Windows : SendAll(w)
    \/ SendAllFalse \/ SendAllPanics
    \/ SendChunk \/ SendDone \/ SendChunkPanics
    \/ \E o \in earlier \cup current : Report(o) \/ ReportPanics(o)

SessionSpec == SessionInit /\ [][SessionNext]_sessionVars
-----------------------------------------------------------------------------
\* Given Regular texts, an application that calls data_send and reset only
\* when send_all would return false meets at most one kind of panic, whether
\* in data_send, in the slice of send_data or in the index into norm2_vec: a
\* report on an earlier data set only, which comes when reset has cleared the
\* norms, or when the data set now loaded is shorter than what was written.
OnlyLateReportsPanic ==
    ~hasty /\ ~ragged /\ status = "panicked"
        => stale /\ (was_reset \/ send_len < written)

\* recv_and_drop never runs out of flags ("iter.next().unwrap()"), although
\* reset leaves the flags of the chunks it dropped behind.
FlagForEveryChunk == Cardinality(data) <= Cardinality(DOMAIN offset_recv)

\* Without reset, chunks of one data set never carry offsets of another: the
\* sender's budgets and the receiver's records, which are kept by offset,
\* cannot speak for a chunk of an earlier data set.
OffsetsFresh == ~hasty /\ ~was_reset => current \cap earlier = {}

\* send_all's comment (lib.rs:665-673): it returns false, after which the
\* application calls it no longer, when there is no data left to send.
FalseMeansAllTaken ==
    ~hasty /\ ~was_reset => (answer = "false" => taken = send_len)
=============================================================================
