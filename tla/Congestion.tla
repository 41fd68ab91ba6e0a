----------------------------- MODULE Congestion -----------------------------
(***************************************************************************)
(* Recovery as a Connection drives it: process_ack feeds every ACK to      *)
(* update_win and counts the high-priority chunks reported lost; write     *)
(* asks cwnd() or rollback() for the next window (src/src/lib.rs).  The    *)
(* ACKs are inputs: any number of chunks received and lost.                *)
(***************************************************************************)
EXTENDS Recovery

CONSTANTS
    Reports,   \* what ACKs say: chunks lost of priority 1, 2, 3, and received
    Bursts,    \* how many Application packets are sent at a time
    MaxSent,   \* bound: Application packets sent in a window
    MaxHigh,   \* bound: high-priority losses reported in a window
    MaxSwing   \* bound: accumulated window change at which ACKs stop

\* The weight of a report's lost chunks, and its number of entries.
Weight(rep) == 3 * rep.lost1 + 4 * rep.lost2 + 5 * rep.lost3
Entries(rep) == rep.lost1 + rep.lost2 + rep.lost3 + rep.received

ASSUME CongestionAssumption ==
    /\ Reports \subseteq [lost1 : Nat, lost2 : Nat, lost3 : Nat, received : Nat]
    /\ Bursts \subseteq Nat
    /\ MaxSent \in Nat
    /\ MaxHigh \in Nat
    /\ MaxSwing \in Nat

\* No ACK changes the window by exactly its number of entries, the one case
\* in which update_win would not set roll_back_flag.  (For the packet size
\* of the source, the cubics are no such integer below 9600 entries.)
ASSUME NeverExact ==
    \A rep \in Reports : \A a \in WinAdds(Weight(rep)) :
        a[1] # Entries(rep) * a[2]

VARIABLES
    high_priority,  \* lost chunks of priority 3 since the last write
    sent_number,    \* Application packets since the last write
    zero_windows    \* history: how many windows of size 0 write was given

congestionVars == <<congestion_window, incre_win, decre_win,
                    former_win_vecter, roll_back_flag,
                    high_priority, sent_number, zero_windows>>

CongestionInit ==
    /\ RecoveryInit
    /\ high_priority = 0
    /\ sent_number = 0
    /\ zero_windows = 0

\* n Application packets leave.
Sent(n) ==
    /\ sent_number + n <= MaxSent
    /\ sent_number' = sent_number + n
    /\ UNCHANGED <<congestion_window, incre_win, decre_win, former_win_vecter,
                   roll_back_flag, high_priority, zero_windows>>

\* process_ack: the report's losses become one window change.
Ack(rep) ==
    /\ incre_win + decre_win < MaxSwing
    /\ high_priority + rep.lost3 <= MaxHigh
    /\ UpdateWin(Weight(rep), Entries(rep))
    /\ high_priority' = high_priority + rep.lost3
    /\ UNCHANGED <<sent_number, zero_windows>>

\* Connection::write's choice: more than one high-priority loss per hundred
\* packets.  (0/0 is NaN, which is not greater; n/0 is infinite.)
HighRatio == 100 * high_priority > sent_number

Write ==
    /\ IF HighRatio THEN Rollback ELSE Cwnd
    /\ high_priority' = 0
    /\ sent_number' = 0
    /\ zero_windows' = IF congestion_window' = 0 THEN zero_windows + 1
                       ELSE zero_windows

CongestionNext ==
    \/ \E n \in Bursts : Sent(n)
    \/ \E rep \in Reports : Ack(rep)
    \/ Write

CongestionSpec == CongestionInit /\ [][CongestionNext]_congestionVars
-----------------------------------------------------------------------------
\* Every variable stays in the range its Rust type and use give it.
CongestionTypeOK ==
    /\ congestion_window \in Nat
    /\ incre_win \in Nat
    /\ decre_win \in Nat
    /\ former_win_vecter \subseteq Nat
    /\ roll_back_flag \in BOOLEAN
    /\ high_priority \in Nat
    /\ sent_number \in Nat
    /\ zero_windows \in Nat

\* cwnd() stops recording at the first ACK, before any window has grown: the
\* only former window rollback can ever find is 0.
OnlyZeroRecorded == former_win_vecter \subseteq {0}

\* A window is never between 0 and the initial window: cwnd() has a floor,
\* and rollback() knows only 0 and INI_WIN.
WindowZeroOrInitial == congestion_window = 0 \/ congestion_window >= INI_WIN

\* rollback() hands a window of 0 to the send buffer at most once in the
\* life of a connection.
AtMostOneZeroWindow == zero_windows <= 1
=============================================================================
