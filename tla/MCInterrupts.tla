---------------------------- MODULE MCInterrupts ----------------------------
(* The lines of the timer (0), the keyboard (1) and the mouse (12), and one *)
(* without a driver (14, the disk).                                        *)
EXTENDS Interrupts

MCDrivers == <<0, 1, 12>>
=============================================================================
