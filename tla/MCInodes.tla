------------------------------ MODULE MCInodes ------------------------------
(* A small instance of Inodes for TLC: histories of at most MaxCalls       *)
(* operations.                                                             *)
EXTENDS Inodes

CONSTANTS clear, dirty, MaxCalls

VARIABLE calls   \* operations started so far

MCData == {clear, dirty}

MCInit == Init /\ calls = 0

MCNext ==
    \/ (Start \/ Writes) /\ calls < MaxCalls /\ calls' = calls + 1
    \/ (Step \/ Kill) /\ UNCHANGED calls
    \/ run = Idle /\ calls = MaxCalls /\ UNCHANGED <<vars, calls>>

MCSpec == MCInit /\ [][MCNext]_<<vars, calls>>
=============================================================================
