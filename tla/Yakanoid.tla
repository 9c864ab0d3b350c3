------------------------------ MODULE Yakanoid ------------------------------
(***************************************************************************)
(* roms/yakanoid: one frame of game_loop per step.  `wall' are the bricks  *)
(* left, by row and column.  The wall is an array of rows behind each      *)
(* other: one column too far is the first of the next row, and what is     *)
(* read outside the array may be anything; what is cleared there may be    *)
(* anything too, and nothing is followed behind it.                        *)
(***************************************************************************)
EXTENDS Integers, FiniteSets

CONSTANTS
    Rows, Columns,              \* 5, 10
    BrickWidth, BrickHeight,    \* 20, 12
    Left,                       \* 10: the edge of the field
    Ball,                       \* 5: half of it
    BarHalf, Step,              \* 25, 10
    Middle, Start,              \* 105, 180: where bar and ball are put
    Floor,                      \* 190
    Lives,                      \* 3
    Above                       \* bound: how far up the ball is followed

VARIABLE game

Right == Left + Columns * BrickWidth
Bricks == (0..(Rows - 1)) \X (0..(Columns - 1))

Served(g) == [g EXCEPT !.pos = Middle, !.x = Middle, !.y = Start, !.dx = 1, !.dy = -1]
New == Served([phase |-> "play", wall |-> Bricks, score |-> 0, lives |-> Lives,
               pos |-> 0, x |-> 0, y |-> 0, dx |-> 0, dy |-> 0, stray |-> FALSE])

Init == game = [New EXCEPT !.phase = "splash"]

Keys == {"none", "left", "right", "esc"}

splash_screen(k) ==
    game.phase = "splash" /\ game' = IF k = "none" THEN game ELSE New

Steered(g, k) ==
    LET to == IF k = "right" THEN g.pos + Step ELSE IF k = "left" THEN g.pos - Step ELSE g.pos
    IN  [g EXCEPT !.pos = IF to - BarHalf < Left THEN Left + BarHalf
                          ELSE IF to + BarHalf >= Right THEN Right - BarHalf ELSE to]

\* Two sides; there is no ceiling.
Moved(g) ==
    LET x == g.x + g.dx
    IN  [g EXCEPT !.x = x, !.y = @ + g.dy,
                  !.dx = IF x + Ball >= Right \/ x - Ball < Left THEN -@ ELSE @]

\* Division in C goes towards zero.
Quotient(a, b) == IF a < 0 THEN -((-a) \div b) ELSE a \div b

\* The place in the array, counted through its rows, for a column of the ball.
Place(g, side) == Quotient(g.y - BrickHeight, BrickHeight) * Columns
                  + Quotient(g.x + side - Left, BrickWidth)
Inside(place) == place \in 0..(Rows * Columns - 1)
Brick(place) == <<place \div Columns, place % Columns>>
Outcomes(g, place) == IF Inside(place) THEN {Brick(place) \in g.wall} ELSE BOOLEAN

\* All that may come of the test of the wall.
Struck(g) ==
    LET p == Place(g, -Ball)
        q == Place(g, Ball)
        hit(a, b) ==
            IF ~a /\ ~b THEN g
            ELSE [g EXCEPT !.dy = -@, !.score = @ + (IF a /\ b THEN 25 ELSE 10),
                           !.wall = @ \ {Brick(n) : n \in {m \in {p, q} : Inside(m)}},
                           !.stray = @ \/ ~Inside(p) \/ ~Inside(q)]
    IN  IF g.y + Ball < (Rows + 1) * BrickHeight
        THEN {hit(o[1], o[2]) : o \in {c \in Outcomes(g, p) \X Outcomes(g, q) :
                                          p = q => c[1] = c[2]}}
        ELSE {g}

AtFloor(g) ==
    LET met == g.x + Ball >= g.pos - BarHalf /\ g.x - Ball <= g.pos + BarHalf
        lost == [g EXCEPT !.lives = @ - 1]
    IN  IF g.y + Ball < Floor THEN g
        ELSE IF met THEN [g EXCEPT !.dy = -@]
        ELSE IF lost.lives = 0 THEN [lost EXCEPT !.phase = "splash"]
        ELSE Served(lost)

game_loop(k) ==
    /\ game.phase = "play" /\ (k = "esc" \/ (~game.stray /\ game.y > -Above))
    /\ game' \in IF k = "esc" THEN {[game EXCEPT !.phase = "splash"]}
                 ELSE {AtFloor(g) : g \in Struck(Moved(Steered(game, k)))}

Next == \E k \in Keys : splash_screen(k) \/ game_loop(k)

-----------------------------------------------------------------------------
\* Ten points for one brick, twenty-five for two or for both ends in one: the
\* score is worth what is gone from the wall as long as nothing outside it was
\* hit.  The ball stays between the sides and above the floor, and where it
\* touches one it is on its way back.
ScoreEarned ==
    LET gone == Cardinality(Bricks \ game.wall)
    IN  /\ ~game.stray => game.score \in (10 * gone)..(25 * gone)
        /\ game.phase = "play" =>
             /\ game.lives \in 1..Lives
             /\ game.x + Ball <= Right /\ game.x - Ball >= Left - 1
             /\ game.x + Ball = Right => game.dx < 0
             /\ game.x - Ball < Left => game.dx > 0
             /\ game.y + Ball >= Floor => game.y + Ball = Floor /\ game.dy < 0
=============================================================================
