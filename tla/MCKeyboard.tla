----------------------------- MODULE MCKeyboard -----------------------------
(* Values of Keyboard's constants for TLC: one key of each kind.  With the *)
(* readers left out, sequences of typing are long enough for a shift, two  *)
(* caps locks and characters before, between and after them.               *)
EXTENDS Keyboard

CONSTANTS a, one, left, none
=============================================================================
