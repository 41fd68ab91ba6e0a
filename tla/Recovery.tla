------------------------------ MODULE Recovery ------------------------------
(***************************************************************************)
(* Congestion control (Recovery in src/src/recovery/mod.rs).  Every ACK    *)
(* turns the weight of the chunks it reports lost into a window change     *)
(* (update_win); the next write takes the accumulated change as its window *)
(* (cwnd), or goes back to a former window when too much high-priority     *)
(* data was lost (rollback).                                               *)
(*                                                                         *)
(* Weights are the source's f32 sums in units of 0.05 (priorities 1, 2, 3  *)
(* weigh 3, 4, 5).  The two cubics are the source's, with exact            *)
(* coefficients.                                                           *)
(***************************************************************************)
EXTENDS Integers

CONSTANTS
    PACKET_SIZE,               \* bytes of a packet, also max_datagram_size
    MAX_SEND_UDP_PAYLOAD_SIZE, \* the Config's payload size
    INITIAL_WINDOW_PACKETS     \* packets of the initial window

ASSUME RecoveryAssumption ==
    /\ PACKET_SIZE \in Nat \ {0}
    /\ MAX_SEND_UDP_PAYLOAD_SIZE \in Nat
    /\ MAX_SEND_UDP_PAYLOAD_SIZE >= PACKET_SIZE
    /\ INITIAL_WINDOW_PACKETS \in Nat \ {0}

INI_WIN == PACKET_SIZE * INITIAL_WINDOW_PACKETS

VARIABLES
    congestion_window,   \* the last window computed
    incre_win,           \* growth accumulated since the last cwnd()
    decre_win,           \* shrinkage accumulated since the last cwnd()
    former_win_vecter,   \* windows rollback can return to
    roll_back_flag       \* set by update_win; stops cwnd() recording windows

recoveryVars == <<congestion_window, incre_win, decre_win,
                  former_win_vecter, roll_back_flag>>

RecoveryInit ==
    /\ congestion_window = MAX_SEND_UDP_PAYLOAD_SIZE * INITIAL_WINDOW_PACKETS
    /\ incre_win = 0
    /\ decre_win = 0
    /\ former_win_vecter = {}
    /\ roll_back_flag = FALSE
-----------------------------------------------------------------------------
\* update_win's cubics in the weight v/20, times PACKET_SIZE: a numerator
\* over OuterDen below 0.2 and above 1.8, over InnerDen between them.
Outer(v) == (3200000 - 1037800 * v + 65830 * v * v - 1147 * v * v * v)
                * PACKET_SIZE
OuterDen == 400000

Inner(v) == (12280000 - 1815200 * v - 93160 * v * v - 1587 * v * v * v)
                * PACKET_SIZE
InnerDen == 80000000

\* The weight 1.8 is a sum of inexact f32 terms in the iteration order of a
\* HashMap: it may come out on either side of the comparison.
WinAdds(v) ==
    (IF v < 4 \/ v >= 36 THEN {<<Outer(v), OuterDen>>} ELSE {}) \cup
    (IF v >= 4 /\ v <= 36 THEN {<<Inner(v), InnerDen>>} ELSE {})

\* Variant that marks only shrinking windows.
UpdateWinMarksLoss(v, num) ==
    \E a \in WinAdds(v) :
        /\ roll_back_flag' = (roll_back_flag \/ a[1] <= 0)
        /\ IF a[1] > 0
             THEN /\ incre_win' = incre_win + a[1] \div a[2]
                  /\ UNCHANGED decre_win
             ELSE /\ decre_win' = decre_win + (-a[1]) \div a[2]
                  /\ UNCHANGED incre_win
        /\ UNCHANGED <<congestion_window, former_win_vecter>>

\* Variant that adds losses to the growth.
UpdateWinSigned(v, num) ==
    \E a \in WinAdds(v) :
        /\ roll_back_flag' = (roll_back_flag \/ a[1] # num * a[2])
        /\ incre_win' = incre_win + a[1] \div a[2]
        /\ UNCHANGED <<decre_win, congestion_window, former_win_vecter>>

\* update_win for an ACK with num entries whose lost chunks weigh v.
UpdateWin(v, num) ==
    \E a \in WinAdds(v) :
        /\ roll_back_flag' = (roll_back_flag \/ a[1] # num * a[2])
        /\ IF a[1] > 0
             THEN /\ incre_win' = incre_win + a[1] \div a[2]
                  /\ UNCHANGED decre_win
             ELSE /\ decre_win' = decre_win + (-a[1]) \div a[2]
                  /\ UNCHANGED incre_win
        /\ UNCHANGED <<congestion_window, former_win_vecter>>

\* The window cwnd() computes, before and after its floor.
TmpWin == IF 2 * incre_win > decre_win THEN 2 * incre_win - decre_win ELSE 0
FlooredWin == IF TmpWin >= INI_WIN THEN TmpWin ELSE INI_WIN

\* Variant of cwnd() without the floor.
CwndNoFloor ==
    /\ former_win_vecter' = IF roll_back_flag THEN former_win_vecter
                            ELSE former_win_vecter \cup {TmpWin}
    /\ congestion_window' = TmpWin
    /\ incre_win' = 0
    /\ decre_win' = 0
    /\ UNCHANGED roll_back_flag

\* cwnd(): the unfloored window is what is recorded.
Cwnd ==
    /\ former_win_vecter' = IF roll_back_flag THEN former_win_vecter
                            ELSE former_win_vecter \cup {TmpWin}
    /\ congestion_window' = FlooredWin
    /\ incre_win' = 0
    /\ decre_win' = 0
    /\ UNCHANGED roll_back_flag

\* rollback(): pops the largest recorded window.
RolledBackWin ==
    IF former_win_vecter = {} THEN INI_WIN
    ELSE CHOOSE w \in former_win_vecter :
             \A x \in former_win_vecter : x <= w

\* Variant that reads the largest window without removing it.
RollbackKeeps ==
    /\ congestion_window' = RolledBackWin
    /\ UNCHANGED <<incre_win, decre_win, roll_back_flag, former_win_vecter>>

Rollback ==
    /\ congestion_window' = RolledBackWin
    /\ former_win_vecter' = former_win_vecter \ {RolledBackWin}
    /\ UNCHANGED <<incre_win, decre_win, roll_back_flag>>
=============================================================================
