------------------------------ MODULE MCTimer ------------------------------
(* Values of Timer's constants for TLC.                                    *)
EXTENDS Timer, TLC

CONSTANTS f1, f2, u1

MCFunctions == {f1, f2}
MCUsers == {u1}
MCTimeouts == {0, 2, 5}
=============================================================================
