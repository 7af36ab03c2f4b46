----------------------------- MODULE MCRootList -----------------------------
(* Small instances of RootList for TLC.                                    *)
EXTENDS RootList

CONSTANTS none, opA, opB

MCRnum == {0, 1, 2}
MCOp   == {none, opA, opB}

\* What a stack slot can hold when swap_root finds nothing to copy.
MCJunk == {[rnum |-> 0, op |-> none], [rnum |-> 2, op |-> opA]}
=============================================================================
