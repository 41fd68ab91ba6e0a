------------------------------ MODULE RecvBuf ------------------------------
(***************************************************************************)
(* The receive buffer of a Connection (RecvBuf in src/src/lib.rs).  data   *)
(* is a BTreeMap from a chunk's end offset to the chunk; it is called      *)
(* rdata here.  emit copies chunks into the application's buffer and skips *)
(* over gaps, which the application sees as zeros.                         *)
(*                                                                         *)
(* The payload is left out; what emit reports about a copy is where in the *)
(* output it lands and from which stream offset its bytes come.  The       *)
(* fields off and len of RecvBuf are never written and are left out.       *)
(***************************************************************************)
EXTENDS Integers, FiniteSets

CONSTANTS
    U64                \* the modulus of u64 arithmetic in a release build

ASSUME ArithmeticAssumption == U64 \in Nat \ {0}

VARIABLES
    overflow_checks,  \* the build: TRUE, u64 underflow panics; FALSE, it wraps
    rdata,         \* end offset -> [off, len, pos], pos bytes being consumed
    last_maxoff,   \* stream offset up to which the application has read
    max_recv_off   \* what max_ack() reports

recvBufVars == <<overflow_checks, rdata, last_maxoff, max_recv_off>>

Entry == [off : Nat, len : Nat \ {0}, pos : Nat]

RecvBufInit ==
    /\ overflow_checks \in BOOLEAN
    /\ rdata = [k \in {} |-> 0]
    /\ last_maxoff = 0
    /\ max_recv_off = 0

\* write(): a chunk with the same end offset is replaced.
BufReceive(o, n) ==
    /\ rdata' = [k \in DOMAIN rdata \cup {o + n} |->
                    IF k = o + n THEN [off |-> o, len |-> n, pos |-> 0]
                    ELSE rdata[k]]
    /\ max_recv_off' = IF /\ o \in DOMAIN rdata
                          /\ \A k \in DOMAIN rdata : k <= o
                         THEN o ELSE max_recv_off
    /\ UNCHANGED <<overflow_checks, last_maxoff>>
-----------------------------------------------------------------------------
(***************************************************************************)
(* emit() is a loop over the map in key order.  Its state: the map, the    *)
(* read offset, the output capacity and length, the copies made, and       *)
(* whether the loop goes on.                                               *)
(***************************************************************************)
FirstKey(m) == CHOOSE k \in DOMAIN m : \A j \in DOMAIN m : k <= j

Without(m, k) == [j \in DOMAIN m \ {k} |-> m[j]]

\* Bytes missing between the read offset and entry k; negative when the
\* subtraction of the code underflows.
Gap(m, k, last) == k - last - (m[k].len - m[k].pos)

\* Variant that never removes an entry.
EmitStepKeeps(s) ==
    LET k == FirstKey(s.rdata)
        e == s.rdata[k]
        n == IF e.len - e.pos <= s.cap THEN e.len - e.pos ELSE s.cap
    IN  [s EXCEPT !.last = s.last + n, !.rdata[k].pos = e.pos + n,
                  !.status = "ok"]

\* Variant that counts the whole output buffer as copied.
EmitStepOverrun(s) ==
    LET k    == FirstKey(s.rdata)
        zero == Gap(s.rdata, k, s.last) % U64
    IN  IF zero < s.cap
          THEN [s EXCEPT !.cap = s.cap - zero, !.len = s.len + zero,
                         !.last = s.last + s.cap,
                         !.rdata = Without(s.rdata, k)]
          ELSE [s EXCEPT !.last = s.last + s.cap, !.status = "ok"]

\* Variant that discards an entry lying behind the read offset.
EmitStepDiscards(s) ==
    LET k == FirstKey(s.rdata)
    IN  IF Gap(s.rdata, k, s.last) < 0
          THEN [s EXCEPT !.rdata = Without(s.rdata, k)]
          ELSE [s EXCEPT !.last = s.last + s.cap, !.status = "ok"]

EmitStep(s) ==
    LET k    == FirstKey(s.rdata)
        e    == s.rdata[k]
        gap  == Gap(s.rdata, k, s.last)
        zero == gap % U64
        room == s.cap - zero
        n    == IF e.len - e.pos <= room THEN e.len - e.pos ELSE room
        copy == [at |-> s.len + zero, from |-> e.off, n |-> n]
    IN  IF gap < 0 /\ overflow_checks
          THEN [s EXCEPT !.status = "panic"]
        ELSE IF zero < s.cap
          THEN [s EXCEPT
                  !.cap = room,
                  !.len = s.len + zero,
                  !.last = s.last + zero + n,
                  !.copies = s.copies \cup {copy},
                  !.rdata = IF n < e.len - e.pos
                              THEN [s.rdata EXCEPT ![k].pos = e.pos + n]
                              ELSE Without(s.rdata, k),
                  !.status = IF n < e.len - e.pos THEN "ok" ELSE "loop"]
        ELSE IF zero = s.cap
          THEN [s EXCEPT !.last = s.last + zero, !.len = s.len + zero,
                         !.status = "ok"]
          ELSE [s EXCEPT !.last = s.last + s.cap, !.status = "ok"]

\* emit(out) with out.len() = cap: "done", "panic" or "ok" with its results.
Emit(cap) ==
    LET start == [rdata |-> rdata, last |-> last_maxoff, cap |-> cap,
                  len |-> 0, copies |-> {}, status |-> "loop"]
        run[i \in 0 .. Cardinality(DOMAIN rdata)] ==
            IF i = 0 THEN start
            ELSE IF run[i-1].status = "loop" THEN EmitStep(run[i-1])
            ELSE run[i-1]
        end == run[Cardinality(DOMAIN rdata)]
    IN  IF DOMAIN rdata = {} THEN [start EXCEPT !.status = "done"]
        ELSE IF end.status = "loop" THEN [end EXCEPT !.status = "ok"]
        ELSE end

\* read(): the state after an emit that does not panic.
BufRead(cap) ==
    /\ rdata' = Emit(cap).rdata
    /\ last_maxoff' = Emit(cap).last
    /\ UNCHANGED <<overflow_checks, max_recv_off>>
=============================================================================
