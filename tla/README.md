# dmludp in TLA+

A model of dmludp, a UDP protocol that sends arrays of floats and retransmits a
block the more often the larger its norm is. The code is in `src/src/lib.rs`,
`src/src/packet.rs` and `src/src/recovery/mod.rs`; line numbers below refer to
`lib.rs` unless another file is named.

## The system

| Part | State | Operations | Module |
|---|---|---|---|
| Send buffer (`SendBuf`, 1591-1981) | chunk queue, `pos`, `off`, `len`, `max_data`, `sent`, one flag per chunk | `write`, `recv_and_drop`, `emit`, `off_front`, `ack_and_drop`, `clear` | `SendBuf`, driven by `Window` and `Session` |
| Congestion control (`Recovery`, `recovery/mod.rs`) | `congestion_window`, `incre_win`, `decre_win`, former windows, `roll_back_flag` | `update_win`, `cwnd`, `rollback` | `Recovery`, driven by `Congestion` |
| Receive buffer (`RecvBuf`, 1386-1579) | chunks by end offset, read offset, `max_recv_off` | `write`, `emit` | `RecvBuf`, driven by `Reading` |
| Data preparation (1212-1262) | `send_data`, `norm2_vec` | `data_send`, `process_string` | `DataSend` |
| Priorities (988-1000, 1230-1232) | none | `priority_calculation` | `Priority` |
| Connection (282-1208), one transfer | handshake, ElictAck and ACK bookkeeping of both ends | `recv_slice`, `send_all`, `send_data`, `process_ack`, `check_loss`, `read` | `Transfer`, which composes `SendBuf`, `Recovery`, `RecvBuf` and `Priority`; `Delivery` says what it promises |
| Connection, several data sets | `written_data`, `total_offset` and what they leave behind | `data_send`, `send_all`, `send_data`, ACKs, `reset` | `Session`, which composes `SendBuf` and `DataSend` |
| Packets as bytes (`packet.rs`, and the payloads of 691-1000) | the application's output buffer | `Header::to_bytes`, `from_bytes`, payload writing and reading | `Wire` |
| `PktNumWindow` (`packet.rs`) | `priority_record`, `record` | `additem`, `update_item`, `check_received`, `get_retrans_times`, `clear_record` | `PktNumWindow` |

How they interact. `send_all` asks `Recovery` for a window and lets `SendBuf`
drop settled chunks and take new bytes. `send_data` then emits one chunk per
call, counts down the chunk's retransmission budget in `sent_dic`, and after
every `ELICT_FLAG` packets, and at the end of the window, sends an ElictAck
naming the offsets sent. The receiver answers with an ACK that says of each
offset whether it arrived. `process_ack` clears the flags of chunks that
arrived or whose budget is 0, and turns the losses into a window change.

What makes this hard: ACKs about older transmissions, lost and duplicated
ElictAcks and ACKs, `send_all` on a timer, positions used as identities
(`recv_and_drop`), unsigned subtraction in five places, two unrelated counts
that must agree (norms and blocks), flags cleared before the step they announce
has succeeded, counters that outlive the data set they count, and one output
buffer for packets of different lengths. `PROJECT.json` lists these hazards
line by line.

## Modelling decisions

* Payload bytes, packet numbers, `recv_count`, addresses and printing are left
  out. `max_ack`/`max_off` travel in ACKs but `recv_and_drop` ignores them.
* `data` is a set of chunks; the queue is ordered by offset, so a chunk's index
  is the number of chunks below it (`Index`).
* Time is left out: `is_ack` may become true at any moment, and of `rtt` only
  "not yet measured" is kept, which `write_pkt_type` asks for (`rtt_known`).
* Loss weights are integers in units of 0.05. The weight 1.8 is a sum of
  inexact `f32`s in `HashMap` order, so it may fall on either side of the
  comparison in `update_win`.
* `overflow_checks` is the build, chosen in the initial state and never
  changed: in a debug build underflow panics, in a release build it wraps modulo
  `U64`, a stand-in for 2^64. A retransmission budget that has wrapped is kept at
  `U64 - 1`: only 0 is ever tested, and it is 2^64 - 1 transmissions away.
* The network is a set of datagrams: any order, and at most `MaxFaults` losses
  or duplications. `Endless` lets `Transfer` run any number of rounds without
  counting them, which liveness needs.
* `emit` copies nothing into an output buffer smaller than a chunk. `Window`,
  `Transfer` (`OUT_LEN`) and `Wire` (`Room`) assume a buffer that holds one.
* `Wire` counts in cells of 8 bytes and lets both peers write into one buffer,
  so that a packet may be written over the remains of any other.
* `Session` calls an application hasty when it calls `data_send` or `reset`
  with data left to send, ragged when it hands `data_send` a text that is not
  `Regular` (an array that neither fills its groups of floats nor lacks one of the
  last, or a first array too short for a norm), and the report of a panic stale
  when it is about a former data set only. A panic of `data_send` itself, on a text
  without any norm, ends the session like one in `write` or `priority_calculation`.
* Operators whose comment begins with "Variant" are deliberately wrong forms of
  the operator that follows; replacing the operator by its variant must make
  TLC report the property paired with it in `PROJECT.json`.

## Runs

| Run | Shows |
|---|---|
| `window` | With `send_all` also in mid-window: positional pairing drops exactly the settled chunks, chunks are disjoint and inside a priority block, `len` covers what is unsent |
| `window_live` | A window ends only at the end of the buffer or of the congestion window, and starts at the front; everything is sent and settled in the end |
| `congestion` | `rollback` can only ever return to 0; a window of 0 is handed out at most once; no window lies between 0 and the initial one |
| `reading` | Both builds: unless a chunk arrives behind the reader, `emit` cannot underflow; one that does blocks the reader for good |
| `reading_order` (violated) | Two contiguous chunks read in one call overwrite each other |
| `transfer` | Receiver calling at any time, ACKs that do not fit, both builds: an answer announced by `send_ack` is never a Stop, ElictAcks are as long as they say, an ACK that once did not fit never fits again, and the transfer implements `Delivery` |
| `transfer_live` | Any number of rounds: a chunk is given up only if it arrived or its budget is spent, the budget underflows only for a spent chunk, and the transfer ends if the receiver lives and its reports always fit into an ACK |
| `session` | Several data sets: orderly use of regular texts never indexes out of bounds, except for a late report on an earlier data set after `reset` or before a shorter one; `recv_and_drop` never runs out of flags, and without `reset` no offset is used twice |
| `session_second` (violated) | A second data set no longer than the first: `send_all` returns false and nothing of it is sent |
| `data_send_any` (violated) | Arrays that neither fill their last group nor lack one float: the last block has no norm |
| `wire` | Whatever the buffer held before, the receiver reads the packet that was meant |
| `pktnum` | A missing chunk is asked for priority + 1 times, and called received only for one of three reasons |

### Bounds

* `window`: blocks of 3 bytes, 8 bytes of data, windows of 0, 4 and 7 bytes:
  chunks are cut at window ends and completed by `off_len`, and retained across
  windows.
* `congestion`: packet and payload sizes that differ, as in the source, and
  reports from each branch of `update_win`.
* `reading`: the chunks such a sender produces, and output buffers smaller than,
  equal to and larger than a chunk.
* `transfer`: blocks of three bytes, four bytes of data and windows of two and
  more: the first window cuts a block, the second completes it with a chunk of
  `off_len` bytes and goes on to a block of another priority. An ElictAck after
  every packet, so that windows have one in the middle; ACKs for two entries, so
  that three reports do not fit; two losses or duplications.
* `transfer_live`: two chunks of one byte and different priority, a lost or
  duplicated datagram, and no bound on rounds: budgets run out and are overdrawn.
  An ACK has room for both chunks and nobody reads, so the hypothesis of
  `TransferCompletes` holds in every behaviour. The two ways to lose it, an ACK that
  does not fit and a receiver that dies in `read`, occur in run `transfer`.
* `session`: blocks of four floats, three data sets. Regular texts of less than a
  block, two blocks short of one float, and two whole blocks; an array of a group
  and one float, whose last block has no norm; and a text without data.
* `wire`: three offsets and ElictAcks of two, chunks of two cells, and room for
  more than either, so that every packet can follow a longer or shorter one.
* `pktnum`: two blocks of two chunks, priorities 1 and 3.

### Fairness

`WindowFairSpec`: weak fairness of `send_all`, `send_data` and of the report
about each chunk sent. The first two are the application's loop, as `send_all`'s
comments (663-676) describe it. The third stands for a peer that answers. A
window of 0 is excluded there; by `AtMostOneZeroWindow` it occurs once.

`TransferFairness` replaces that peer by the real one. Both applications keep to
their loops, and a datagram that is not lost arrives (weak fairness per
datagram); `MaxFaults` makes losses finite. In the code a send never waits for
the network. `MaxInFlight` is a bound of the model that disables sends for a
while, so the actions that transmit have strong fairness; the others have weak
fairness. `TransferCompletes` allows the panic of `PanicOnlyWhenExhausted`,
which does happen, and has a hypothesis that the code does not guarantee:
`[]PeerAnswers`, a receiver that lives and whose reports fit into the output
buffer it is given. One ACK that does not fit silences the receiver for good
(`OversizedAckStays`), as does a panic in `read`; no chunk is settled then, and a
release build of the sender goes on sending.

Deadlock is not checked where the system really stops: a finished or panicked
transfer, a drained buffer, a stream read to the bound.

### Refinement

`Delivery` knows units of data that are new, queued, settled and gone, the
number of times each was sent, and those the receiver has; units are sent and
received in groups. `Transfer` implements it with bytes as units, whatever the
size of a chunk: a byte is new until the buffer takes it, queued while the flag
of its chunk is true, settled while the chunk waits to be dropped with its flag
false, and gone afterwards. It is sent and received with its chunk, but its
budget is that of its own block: the mapping would fail if a chunk crossed into
a block of another priority. Windows, chunks, ElictAcks, ACKs and the network
are internal.

## Proofs

All hold for every value of the constants that satisfies the named assumptions
of the modules, unless a hypothesis is mentioned. Every invariant and every
action property that a passing run checks is also a theorem.

* `SendBufProofs`: lemmas on `write`, `emit` and `ack_and_drop`. `BufOK` says
  chunks are apart, below `off`, and have exactly the flags' keys as offsets;
  the positional pairing is then exact (`KeptIsWanted`). `IndexOfChunk`: the
  positions of n chunks are 0 to n - 1, each taken once. `NewChunksBytes` and
  `NewChunksInBlock`: `write` cuts what it takes without a gap or an overlap, and
  at every block boundary. Counting lemmas say what sets of chunks hold.
* `WindowProofs`: `WindowInv` is `BufOK` with the type invariant; it gives
  `WindowTypeOK`, `DropsExactlySettled` and `ChunksDisjoint`. `BlockInv` adds that
  the connection's `total_offset` is the buffer's `off`; without it `off_len`
  would be the remainder of the wrong offset. It gives `WithinOneBlock` and
  `LenCoversUnsent`. `DrainInv` makes the count exact: while a window is open,
  `len` is what the chunks from `pos` on hold. That is so only if `send_all` waits
  for the end of the window, so `WindowsDrain` has the hypothesis
  `Interrupt = FALSE`, the application loop of the comments (663-676).

  For `Congestion`, `CongestionInv` adds to the type invariant that the
  recorded windows are within {0}, that without `roll_back_flag` the window has
  not grown and no high-priority loss is counted, and that a zero window handed
  out means none is left to hand out. From it follow the four properties of run
  `congestion`. Assumes `NeverExact`: no report changes the window by exactly its
  number of entries.
* `TransferProofs`: `TransferInv` has four parts besides `NoSilentDrop`.
  `SenderInv`: the buffer is paired (`BufOK`) and the
  windows are natural numbers. `CountInv`: `sent_count` is the number of
  offsets not yet reported, at most `ELICT_FLAG`, until a panic comes between the
  two. `ReportInv`: no report, on its
  way or waiting, says "received" of a chunk the receiver lacks. `BudgetInv`:
  retransmissions left and transmissions made add up to priority + 1, or the
  counter has wrapped. An ACK then settles a chunk either because the receiver
  has it (`ReportInv`) or because the budget is spent (`BudgetInv`), and
  `send_all` drops what is settled (`KeptIsWanted`). A budget of 0 means by
  `BudgetInv` that the chunk was sent as often as allowed, which is
  `PanicOnlyWhenExhausted`, a property of the step that panics. `ElictAckFull` and
  `OversizedAckStays` follow from the same invariant; `FeedbackAnswered` is
  inductive by itself; `TransferTypeOK` needs it for the offsets and window sizes
  that the typed variables are computed from.
* `ChunkProofs`: what the refinement needs of chunks. `ChunkInv`: the
  chunks ever taken cut the prefix of the data up to `total_offset`, do not
  overlap and do not cross blocks. `TravelInv`: the buffer holds some of them, and
  an Application packet carries one of them whole. A byte then has one chunk
  (`OneHolder`), which tells its stage (`ByteStage`), its transmissions
  (`ByteTries`) and its priority (`BytePriority`).
* `DeliveryProofs`: `ImplementsDelivery`, for every chunk size. One lemma per step
  that changes Delivery's state (`send_all`, Application packets sent and
  received, ACKs), and a stutter for the rest.
* `SessionProofs`: `FlagForEveryChunk` is not inductive: stale flags may lie above
  `off`, where a new chunk takes them over instead of adding one. `FlagsBelow`
  counts only the flags below `off`, and through `recv_and_drop` it needs the
  pairing by rank (`IndexOfChunk`). `EpochInv` orders the offsets of data sets and
  gives `OffsetsFresh`. `InputInv` relates norms and bytes while a text is read:
  no byte lies beyond the last norm's block. It gives `EveryBlockHasNorm` when each
  array fills its groups of 256 floats or lacks one float of the last
  (`WholeGroups`); without that hypothesis it is false, as run `data_send_any`
  shows. `OnlyLateReportsPanic` needs no hypothesis on the texts, as `ragged`
  records that an irregular one was given. `OrderlyInv` holds until then and until
  a hasty call: `InputInv`; `FirstNorm`, that the first array has given a norm or
  still will, so `data_send` does not panic; that while chunks are buffered no more
  is written than `send_data` has and its norms cover it, so neither the slice nor a
  chunk to be sent is out of bounds; and that the offsets sent of the data set now
  loaded have norms, which leaves reports on earlier ones.
* `ReadingProofs`: `ReadingInv` says that entries are keyed by where they end,
  that their unread part is not empty, and that without a late chunk they lie at
  or after the read offset. `emit` is a loop, modelled by a function that recurses
  on the number of buffered entries. `EmitUnfolds` is an induction on that number
  (by the least counterexample, from the well-foundedness of the natural numbers)
  and turns what one iteration preserves (`StepCases`) into what a read preserves.
  It gives `ReadingTypeOK` and `CursorBehindData`. `LateChunkBlocksForever` has the
  hypothesis `FitsU64`: the stream and what a reader may skip end below 2^64 by the
  size of an output buffer. Otherwise the difference to a late chunk could wrap
  into the buffer's range and the chunk would be copied.
* `PacketProofs`: `PktNumInv` ties `retrans` to the requests made and gives both
  properties of run `pktnum`. `ReadsWhatWasMeant` is a property of one packet
  written over arbitrary cells (`AckReadBack`, `ElictAckReadBack`,
  `ApplicationReadBack`); the ACK's case takes any enumeration of the reports, as
  the code writes a `HashMap` in its own order.

Only model-checked: liveness (`Completes`, `TransferCompletes`), which needs
fairness and `ENABLED`; and the three properties of the violated runs.

## Disagreements with the code's comments

Three are checked: `reading_order` (1436-1437 against 1484), `data_send_any` (370
against 1255) and `session_second` (665-673 and 373 against 691). Six more were
met while modelling and are modelled as the code has them: `emit` returns the
number of gap bytes rather than the amount read (1441 against 1524) and skips a
gap rather than returning `Done` (1438 against 1448); `handshake_completed` is set
when the sender sends its first Handshake (305 against 1177); `stop_flag` is
raised when the congestion window is used up, with retained chunks still unsent
(463 against 1842); and `to_bytes` writes StartAck as 0x07, which `from_bytes`
reads as Fin, though no packet of that type is ever sent; and `RecvBuf::write`
neither enforces a limit nor looks for overlaps (1412-1414): a chunk replaces the
one that ends at the same offset, and any other overlap is kept twice. No run
checks these six.

## Not modelled

* `NewCubic`: of its operations only `on_init`, which is empty, is reached.
* `Config`, `accept` and `connect`: setters and constructors; their values are
  constants and initial states here.
* `ffi.rs` and `dmludp.h`: wrappers that do not fit the crate as it stands (a
  match on `Type` lacks three variants, `data_send` is given a `String`).
* The C++ programs, which use another library's interface.
* `recovery/modv1.rs`, which no `mod` names.
* In `Connection` `new_rtt`, by which the application may set `rtt` itself. It
  moves the timer, and before the first Handshake is answered it would also make
  `write_pkt_type` go on without the answer. Operations without a caller: `SendBuf::reset`, `update_max_data`, `RangeBuf::split_off`,
  `Recovery::reset`, `collapse_cwnd`, `cwnd_available`, `update_app_limited`,
  `RecvBuf::reset` and `shutdown`.

## Plan

1. Two data sets in the composed model: `Session`'s sender against `Transfer`'s
   receiver, whose `recv_dic` outlives the data set.
2. `WholeGroups`, `Regular` and `NeverExact` as conditions on the sizes of the source, with
   the sizes for which they hold.
