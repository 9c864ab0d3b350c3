----------------------------- MODULE MCDrivers -----------------------------
(* Disks at two of the four positions, the mouse on a small screen, the    *)
(* console with lines of five characters, one key of each kind.            *)
EXTENDS Drivers

CONSTANTS a, one, left

MCPositions == {2, 3}
MCKinds == {"ATA", "ATAPI", "none"}
MCCounts == {0, 2}
MCLbas == {1, 97}
MCSlots == {0, 1}
MCBuilds == {"reloaded", "kept"}
MCMoves == {<<1, 2>>, <<-4, -1>>}
MCPointers == {<<2, 1>>}
MCEchoed == {"k", "newline"}
MCStrings == {<<"a", "newline">>, <<"tab", "newline", "newline">>}
MCLetters == {a}
MCSymbols == {one}
MCMute == {left}
MCSeconds == {0, 1, 3}

\* What a driver that does not run could start with is no matter.
MCInit ==
    /\ Init
    /\ unit # "disk" => compiled = "kept" /\ kind[2] = "none" /\ kind[3] = "none"
    /\ unit # "mouse" => hooked
    /\ unit # "timer" => build = "reload"

\* The fairness of each instance, for the behaviours in which it runs.
FairSpec ==
    /\ MCInit /\ [][Next]_vars
    /\ WF_vars(Alone("disk") /\ (D!Probing \/ D!Access))
    /\ \A p \in {2, 3} : WF_vars(Alone("disk") /\ D!DriveReady(p))
    /\ WF_vars(Alone("mouse") /\ (M!InitMouse \/ M!Handle))
    /\ WF_vars(Alone("mouse") /\ M!Hardware)
    /\ WF_vars(Alone("console") /\ C!Main)
    /\ WF_vars(Alone("timer") /\ T!Tick)
    /\ SF_vars(Alone("timer") /\ T!SleepReturn)

-----------------------------------------------------------------------------
\* What is begun ends: a call to the disk (ide.c:144-182), init_mouse, and the
\* stay of a byte in the output buffer (mouse.c:28-64), a print
\* (console.c:102-145), sleep() in a build that reloads `ticks' (timer.c:90).
CallsEnd ==
    /\ unit = "disk" => D!CallsReturn
    /\ unit = "mouse" => M!NeverStuck
    /\ unit = "console" => C!PrintEnds
    /\ T!SleepReturns
=============================================================================
