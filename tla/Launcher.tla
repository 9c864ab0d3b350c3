------------------------------ MODULE Launcher ------------------------------
(***************************************************************************)
(* roms/perrodlauncher: one frame of game_loop per step, its statements in *)
(* their order.  `fire' is 0 while aiming, 1 while the power grows, 3 in   *)
(* the air.  The view, which follows the ball, is left out.                *)
(***************************************************************************)
EXTENDS Integers

CONSTANTS
    Quarter, Turn, Angle,   \* 90, 2, 45: the angles, a key's turn, the first one
    FullPower, PowerStep,   \* 90, 2
    FootX, FootY, Ground,   \* 10, 50, 10
    DivX, DivY,             \* 200, 150
    Fall, Loss,             \* 10, 4: what gravity takes off in a frame and on the ground
    Gravity,                \* 45
    MaxGravity,             \* bound: how far gravity is turned up, and 0 down
    Far, High               \* bounds: no further and no higher is the ball followed

VARIABLE game

New == [phase |-> "play", angle |-> Angle, x |-> 0, y |-> 0, dx |-> 0, dy |-> 0,
        fire |-> 0, power |-> 0, gravity |-> Gravity]

Init == game = [New EXCEPT !.phase = "splash"]

Keys == {"none", "left", "right", "up", "down", "space", "esc"}

splash_screen(k) ==
    game.phase = "splash" /\ game' = IF k = "none" THEN game ELSE New

Within(n, low, high) == IF n < low THEN low ELSE IF n > high THEN high ELSE n
\* Division in C goes towards zero.
Quotient(a, b) == IF a < 0 THEN -((-a) \div b) ELSE a \div b

\* Angle and gravity can be changed in the air, and power is let go once.
Steered(g, k) ==
    [CASE k = "right" -> [g EXCEPT !.angle = Within(@ + Turn, 0, Quarter)]
       [] k = "left"  -> [g EXCEPT !.angle = Within(@ - Turn, 0, Quarter)]
       [] k = "up"    -> [g EXCEPT !.gravity = Within(@ + 1, 0, MaxGravity)]
       [] k = "down"  -> [g EXCEPT !.gravity = Within(@ - 1, 0, MaxGravity)]
       [] k = "space" /\ g.fire < 3 -> [g EXCEPT !.fire = @ + 1]
       [] OTHER -> g
     EXCEPT !.power = IF @ >= FullPower THEN 0 ELSE @]

Shot(g) ==
    CASE g.fire = 0 -> [g EXCEPT !.power = 0, !.x = FootX + g.angle \div 2,
                                 !.y = FootY - g.angle \div 2]
      [] g.fire = 1 -> [g EXCEPT !.power = @ + PowerStep]
      [] g.fire = 2 -> [g EXCEPT !.fire = 3, !.dx = g.power * g.angle,
                                 !.dy = g.power * (Quarter - g.angle)]
      [] OTHER -> g

\* The first frame of the flight is the one that let go.
Flown(g) ==
    LET dx == IF g.dx < g.gravity THEN 0 ELSE g.dx - g.gravity
        dy == g.dy - g.gravity * Fall
        at == [g EXCEPT !.dx = dx, !.dy = dy,
                        !.x = Within(@ + Quotient(dx, DivX), 0, Far),
                        !.y = Within(@ + Quotient(dy, DivY), 0, High)]
    IN  IF g.fire = 3 THEN at ELSE g

BugLanded(g) ==
    IF g.fire = 3 /\ g.y <= Ground
    THEN [g EXCEPT !.dy = -@, !.fire = IF g.dx < 0 THEN 0 ELSE 3] ELSE g

Landed(g) ==
    LET dx == g.dx - g.gravity * Loss
    IN  IF g.fire = 3 /\ g.y <= Ground
        THEN [g EXCEPT !.dx = dx, !.dy = -@, !.fire = IF dx < 0 THEN 0 ELSE 3]
        ELSE g

game_loop(k) ==
    /\ game.phase = "play"
    /\ IF k = "esc" THEN game' = [game EXCEPT !.phase = "splash"]
       ELSE \E s \in {Shot(Steered(game, k))} : game' = Landed(Flown(s))

Next == \E k \in Keys : splash_screen(k) \/ game_loop(k)

-----------------------------------------------------------------------------
\* However often gravity is changed on the way, a shot that has been let go ends,
\* unless gravity is turned down to nothing or the game is left.
InFlight == game.phase = "play" /\ game.fire = 3
Ended == ~InFlight \/ game.gravity = 0
=============================================================================
