------------------------------ MODULE DataSend ------------------------------
(***************************************************************************)
(* Reading the application's data: data_send and process_string in         *)
(* src/src/lib.rs.  The text is a list of arrays of floats; every float    *)
(* becomes 4 bytes of send_data, and norm2_vec gets one entry per group of *)
(* floats.  priority_calculation later looks up entry off/1024 for the     *)
(* chunk at offset off.                                                    *)
(*                                                                         *)
(* An array is modelled by its number of floats; the norms' values are     *)
(* left to module Priority.                                                *)
(***************************************************************************)
EXTENDS Integers, Sequences

CONSTANTS
    GROUP,    \* floats per priority block (256)
    Inputs    \* texts: sequences of array lengths, EmptyPart for ""

EmptyPart == -1
FLOAT == 4

ASSUME DataSendAssumption ==
    /\ GROUP \in Nat \ {0, 1}
    /\ Inputs \subseteq Seq(Nat \cup {EmptyPart})

VARIABLES
    parts,       \* arrays still to be read, the current one first
    it,          \* floats of the current array already read
    send_len,    \* send_data.len()
    norms,       \* norm2_vec.len()
    reading      \* "no", "yes", or "panicked" at norm2_tmp[0] of an empty Vec

dataSendVars == <<parts, it, send_len, norms, reading>>

DataSendInit ==
    /\ parts = <<>> /\ it = 0
    /\ send_len = 0 /\ norms = 0
    /\ reading = "no"

\* data_send is called.
StartInput(text) ==
    /\ reading = "no"
    /\ parts' = text /\ it' = 0
    /\ send_len' = 0 /\ norms' = 0
    /\ reading' = "yes"

\* Variant that closes a group at its last float.
ClosesWholeGroup(n) == n % GROUP = 0

\* "it%256 == 255", with it counted from 1.
ClosesGroup(n) == n % GROUP = GROUP - 1

\* process_string reads one float.
ReadFloat ==
    /\ reading = "yes" /\ parts # <<>>
    /\ it < Head(parts)
    /\ it' = it + 1
    /\ send_len' = send_len + FLOAT
    /\ norms' = norms + (IF ClosesGroup(it + 1) THEN 1 ELSE 0)
    /\ UNCHANGED <<parts, reading>>

\* The array ends; the norm of an unfinished group is forgotten.
EndPart ==
    /\ reading = "yes" /\ parts # <<>>
    /\ it = Head(parts)
    /\ parts' = Tail(parts) /\ it' = 0
    /\ UNCHANGED <<send_len, norms, reading>>

\* An empty part ends the loop over the parts, as does their end; the split
\* points are then taken from the sorted norms.
EndInput ==
    /\ reading = "yes"
    /\ parts # <<>> => Head(parts) = EmptyPart
    /\ parts' = <<>>
    /\ reading' = IF norms = 0 THEN "panicked" ELSE "no"
    /\ UNCHANGED <<it, send_len, norms>>

DataSendNext ==
    \/ \E text \in Inputs : StartInput(text)
    \/ ReadFloat
    \/ EndPart
    \/ EndInput

DataSendSpec == DataSendInit /\ [][DataSendNext]_dataSendVars
-----------------------------------------------------------------------------
\* Every array fills its groups, or lacks only a float of the last.
WholeArrays(text) ==
    \A i \in 1 .. Len(text) :
        text[i] # EmptyPart => text[i] % GROUP \in {0, GROUP - 1}

\* Texts that data_send can handle: whole arrays, the first not empty.
Regular(text) ==
    /\ text # <<>> /\ Head(text) >= GROUP - 1
    /\ WholeArrays(text)

\* Once the data is read, every byte of it belongs to a block with a norm:
\* priority_calculation's norm2_vec[off/1024] is in bounds.
EveryBlockHasNorm ==
    (reading = "no" /\ send_len > 0)
        => (send_len - 1) \div (FLOAT * GROUP) < norms
=============================================================================
