-------------------------------- MODULE Pong --------------------------------
(***************************************************************************)
(* roms/chichepong: one frame of game_loop per step, its statements in     *)
(* their order.  Lengths are parameters, so that a small field will do.    *)
(***************************************************************************)
EXTENDS Integers

CONSTANTS
    Width, Height,      \* 320, 200
    BarWidth, BarHalf,  \* 10, 20: the bars of the players
    Ball, Core, Touch,  \* 8, 5, 3: the half ball at the edges, for the bars' sides, for their ends
    Step,               \* 5
    Speed, LaterSpeed,  \* 2, 3: along both axes, and after a ball is lost
    Standby             \* 80 frames

VARIABLE game

New(speed) == [phase |-> "play", player1 |-> Height \div 2,
               x |-> Width \div 2, y |-> Height \div 2,
               dx |-> speed, dy |-> speed, standby |-> Standby]

Init == game = [New(Speed) EXCEPT !.phase = "splash"]

Keys == {"none", "up", "down", "esc"}

\* A key has been pressed, or not: getkey.
splash_screen(k) ==
    game.phase = "splash" /\ game' = IF k = "none" THEN game ELSE New(Speed)

OnField(bar) ==
    IF bar + BarHalf >= Height THEN Height - BarHalf - 1
    ELSE IF bar - BarHalf < 0 THEN BarHalf ELSE bar

\* No key is read during the standby.
Steered(g, k) ==
    LET turn == CASE g.standby # 0 -> 0 [] k = "down" -> Step [] k = "up" -> -Step [] OTHER -> 0
    IN  [g EXCEPT !.player1 = OnField(@ + turn)]

Moved(g) == IF g.standby # 0 THEN g ELSE [g EXCEPT !.x = @ + g.dx, !.y = @ + g.dy]

Bounced(g) ==
    IF g.y + Ball >= Height THEN [g EXCEPT !.y = Height - Ball - 1, !.dy = -@]
    ELSE IF g.y - Ball < 0 THEN [g EXCEPT !.y = Ball, !.dy = -@] ELSE g

Readied(g) == [g EXCEPT !.standby = IF @ = 0 THEN 0 ELSE @ - 1]

\* The computer's bar is always before the ball; the player's may not be.
AtBars(g) ==
    LET back == IF g.x + Core >= Width - BarWidth - 1 THEN [g EXCEPT !.dx = -@] ELSE g
        met == /\ g.player1 - BarHalf < g.y + Touch
               /\ g.player1 + BarHalf > g.y - Touch
    IN  IF back.x - Core >= BarWidth THEN back
        ELSE IF met THEN [back EXCEPT !.dx = -@]
        ELSE New(LaterSpeed)

game_loop(k) ==
    /\ game.phase = "play"
    /\ game' = IF game.standby = 0 /\ k = "esc" THEN [game EXCEPT !.phase = "splash"]
               ELSE AtBars(Readied(Bounced(Moved(Steered(game, k)))))

Next == \E k \in Keys : splash_screen(k) \/ game_loop(k)

-----------------------------------------------------------------------------
\* The ball is in the field or a step into a bar's column, and where it touches
\* an edge or a bar it is already on its way back: it can not be reversed twice.
BallReturns ==
    /\ game.y \in Ball..(Height - Ball - 1)
    /\ game.x - Core > BarWidth - LaterSpeed - 1
    /\ game.x + Core < Width - BarWidth - 1 + LaterSpeed
    /\ game.x + Core >= Width - BarWidth - 1 => game.dx < 0
    /\ game.x - Core < BarWidth => game.dx > 0
    /\ OnField(game.player1) = game.player1
=============================================================================
