-------------------------------- MODULE Roms --------------------------------
(***************************************************************************)
(* The games side by side, one of which runs in each behaviour.  Each has  *)
(* its lengths in one record.                                              *)
(***************************************************************************)
EXTENDS Integers, Sequences

CONSTANTS PONG, YAKANOID, VADERS, HUNTER, LAUNCHER, SKATE

\* The middle of the field is between the bars with more than half a ball to
\* spare, a bar and a ball fit the height (pong.c:75-198).
ASSUME PongAssumption ==
    /\ \A d \in {PONG.Width, PONG.Height, PONG.Step} : d \in Int
    /\ \A d \in {PONG.BarWidth, PONG.BarHalf, PONG.Ball, PONG.Core, PONG.Touch, PONG.Standby} :
          d \in Nat
    /\ PONG.Speed \in Nat \ {0} /\ PONG.LaterSpeed \in Nat /\ PONG.Speed <= PONG.LaterSpeed
    /\ PONG.BarWidth + PONG.Core <= PONG.Width \div 2
    /\ PONG.Width \div 2 + PONG.Core < PONG.Width - PONG.BarWidth - 1
    /\ 2 * PONG.Ball < PONG.Height /\ 2 * PONG.BarHalf < PONG.Height

\* The field is wider than the ball, the ball is served inside it and above the
\* floor, and the wall ends above the floor (yakanoid.c:58-79, 99-144).
ASSUME YakanoidAssumption ==
    /\ \A d \in {YAKANOID.Rows, YAKANOID.Columns, YAKANOID.Ball} : d \in Nat
    /\ \A d \in {YAKANOID.BrickWidth, YAKANOID.BrickHeight, YAKANOID.Left, YAKANOID.BarHalf,
                 YAKANOID.Step, YAKANOID.Middle, YAKANOID.Start, YAKANOID.Floor} : d \in Int
    /\ YAKANOID.Lives \in Nat \ {0}
    /\ YAKANOID.Left + YAKANOID.Ball <= YAKANOID.Middle
    /\ YAKANOID.Middle + YAKANOID.Ball < YAKANOID.Left + YAKANOID.Columns * YAKANOID.BrickWidth
    /\ YAKANOID.Start + YAKANOID.Ball < YAKANOID.Floor
    /\ (YAKANOID.Rows + 1) * YAKANOID.BrickHeight <= YAKANOID.Floor

\* The player fits the screen; shots and bullets start on it (vaders.c:93-106, 180-223).
ASSUME VadersAssumption ==
    /\ \A d \in {VADERS.Half, VADERS.Step, VADERS.Cols, VADERS.NbMonsters} : d \in Nat
    /\ \A d \in {VADERS.Width, VADERS.Height} : d \in Int
    /\ VADERS.NbMonsters >= 1
    /\ 2 * VADERS.Half < VADERS.Width
    /\ VADERS.BoxY \in 1..(VADERS.Height - 1) /\ VADERS.Muzzle \in 1..(VADERS.Height - 1)

\* A monster comes up from behind the bush, at a side of the screen; lengths are in
\* tenths of a point, which is what gravity takes (hunter.c:91-127, 198-217).
ASSUME HunterAssumption ==
    /\ \A d \in {HUNTER.Width, HUNTER.Height, HUNTER.Bush, HUNTER.Margin, HUNTER.Pull} : d \in Int
    /\ HUNTER.NbMonsters \in Nat /\ HUNTER.MouseMoves \subseteq Int
    /\ HUNTER.Flights \in Seq([x : 0..HUNTER.Width, dx : Int, y : Int, dy : Int])
    /\ Len(HUNTER.Flights) >= 1
    /\ \A i \in 1..Len(HUNTER.Flights) : HUNTER.Flights[i].y <= HUNTER.Bush

\* A trick in the air is worth no less than a slide (skater.c:66-115).
ASSUME SkateAssumption ==
    /\ \A d \in {SKATE.SlideWorth, SKATE.FlipWorth, SKATE.RotateWorth, SKATE.Flip,
                 SKATE.Rotate, SKATE.Crash} : d \in Nat
    /\ SKATE.SlideWorth <= SKATE.FlipWorth /\ SKATE.SlideWorth <= SKATE.RotateWorth

VARIABLES unit, game

PO == INSTANCE Pong WITH
    Width <- PONG.Width, Height <- PONG.Height, BarWidth <- PONG.BarWidth,
    BarHalf <- PONG.BarHalf, Ball <- PONG.Ball, Core <- PONG.Core, Touch <- PONG.Touch,
    Step <- PONG.Step, Speed <- PONG.Speed, LaterSpeed <- PONG.LaterSpeed,
    Standby <- PONG.Standby
YA == INSTANCE Yakanoid WITH
    Rows <- YAKANOID.Rows, Columns <- YAKANOID.Columns, BrickWidth <- YAKANOID.BrickWidth,
    BrickHeight <- YAKANOID.BrickHeight, Left <- YAKANOID.Left, Ball <- YAKANOID.Ball,
    BarHalf <- YAKANOID.BarHalf, Step <- YAKANOID.Step, Middle <- YAKANOID.Middle,
    Start <- YAKANOID.Start, Floor <- YAKANOID.Floor, Lives <- YAKANOID.Lives,
    Above <- YAKANOID.Above
VA == INSTANCE Vaders WITH
    Width <- VADERS.Width, Height <- VADERS.Height, Half <- VADERS.Half, Deck <- VADERS.Deck,
    Muzzle <- VADERS.Muzzle, Step <- VADERS.Step, BoxX <- VADERS.BoxX, BoxY <- VADERS.BoxY,
    SeineStep <- VADERS.SeineStep, Fall <- VADERS.Fall, NbMonsters <- VADERS.NbMonsters,
    Cols <- VADERS.Cols, FirstX <- VADERS.FirstX, FirstY <- VADERS.FirstY,
    GapY <- VADERS.GapY, NumMove <- VADERS.NumMove
HU == INSTANCE Hunter WITH
    Width <- HUNTER.Width, Height <- HUNTER.Height, Bush <- HUNTER.Bush,
    Margin <- HUNTER.Margin, BoxX <- HUNTER.BoxX, BoxY <- HUNTER.BoxY,
    NbMonsters <- HUNTER.NbMonsters, Pull <- HUNTER.Pull,
    MouseMoves <- HUNTER.MouseMoves, Flights <- HUNTER.Flights
LA == INSTANCE Launcher WITH
    Quarter <- LAUNCHER.Quarter, Turn <- LAUNCHER.Turn, Angle <- LAUNCHER.Angle,
    FullPower <- LAUNCHER.FullPower, PowerStep <- LAUNCHER.PowerStep,
    FootX <- LAUNCHER.FootX, FootY <- LAUNCHER.FootY, Ground <- LAUNCHER.Ground,
    DivX <- LAUNCHER.DivX, DivY <- LAUNCHER.DivY, Fall <- LAUNCHER.Fall,
    Loss <- LAUNCHER.Loss, Gravity <- LAUNCHER.Gravity,
    MaxGravity <- LAUNCHER.MaxGravity, Far <- LAUNCHER.Far, High <- LAUNCHER.High
SK == INSTANCE Skate WITH
    ParkBegin <- SKATE.ParkBegin, ParkLoop <- SKATE.ParkLoop, BoxWidth <- SKATE.BoxWidth,
    BoxHeight <- SKATE.BoxHeight, RailHeight <- SKATE.RailHeight, Ground <- SKATE.Ground,
    Half <- SKATE.Half, Reach <- SKATE.Reach, Edge <- SKATE.Edge, Step <- SKATE.Step,
    JumpLow <- SKATE.JumpLow, JumpGain <- SKATE.JumpGain, Stopped <- SKATE.Stopped,
    Slowing <- SKATE.Slowing, Flip <- SKATE.Flip, Rotate <- SKATE.Rotate,
    Crash <- SKATE.Crash, FlipWorth <- SKATE.FlipWorth, RotateWorth <- SKATE.RotateWorth,
    SlideWorth <- SKATE.SlideWorth, MaxWorth <- SKATE.MaxWorth

vars == <<unit, game>>

Init ==
    \/ unit = "pong" /\ PO!Init
    \/ unit = "yakanoid" /\ YA!Init
    \/ unit = "vaders" /\ VA!Init
    \/ unit = "hunter" /\ HU!Init
    \/ unit = "launcher" /\ LA!Init
    \/ unit = "skate" /\ SK!Init

Alone(name) == unit = name /\ UNCHANGED unit

Launch == Alone("launcher") /\ LA!Next
Ride == Alone("skate") /\ SK!Next
Next ==
    \/ Alone("pong") /\ PO!Next
    \/ Alone("yakanoid") /\ YA!Next
    \/ Alone("vaders") /\ VA!Next
    \/ Alone("hunter") /\ HU!Next
    \/ Launch
    \/ Ride

\* The frames of a game come one after the other, whatever is pressed.
Spec == Init /\ [][Next]_vars /\ WF_vars(Launch) /\ WF_vars(Ride)

-----------------------------------------------------------------------------
\* The rules of the games: no ball passes a bar or an edge, a score is earned, a
\* winner has shot them all, the marks are the hits, a crash costs the combination
\* (pong.c:108-201, yakanoid.c:94-170, vaders.c:166-322, hunter.c:163-253,
\* skater.c:31-198).
RulesKept ==
    /\ unit = "pong" => PO!BallReturns
    /\ unit = "yakanoid" => YA!ScoreEarned
    /\ unit = "vaders" => VA!WinEarned
    /\ unit = "hunter" => HU!Tally
    /\ unit = "skate" => SK!CrashPaysNothing

\* A shot ends and a combination is decided, and a verdict stands
\* (perrod.c:164-183, skater.c:151-197, vaders.c:201-322).
RoundsEnd ==
    /\ (unit = "launcher" /\ LA!InFlight) ~> (unit = "launcher" /\ LA!Ended)
    /\ (unit = "skate" /\ SK!Open) ~> (unit = "skate" /\ ~SK!Open)
    /\ [][unit = "vaders" => VA!VerdictStep]_vars
=============================================================================
