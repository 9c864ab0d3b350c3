------------------------------- MODULE Hunter -------------------------------
(***************************************************************************)
(* roms/chichehunter: one frame of game_loop per step.  A monster flies up *)
(* and falls, the mouse moves the crosshair and its button shoots, once    *)
(* until it is let go.                                                     *)
(***************************************************************************)
EXTENDS Integers, Sequences, FiniteSets

CONSTANTS
    Width, Height, Bush,    \* 320, 200, 150
    Margin,                 \* 10: of the crosshair
    BoxX, BoxY,             \* 20, 24
    NbMonsters,             \* 20
    Flights,                \* les_mx, les_dx, les_my, les_dy: [x, dx, y, dy]
    Pull,                   \* 0.1: added to dy in every frame
    MouseMoves              \* how far the mouse may go along an axis in a frame

VARIABLE game

New == [phase |-> "play", px |-> Width \div 2, py |-> Height \div 2,
        alive |-> FALSE, x |-> 0, y |-> 0, dx |-> 0, dy |-> 0,
        index |-> 1, monsters |-> -1, hit |-> {}, dead |-> 0,
        can_choot |-> TRUE, choot |-> FALSE, standby |-> FALSE, fin |-> FALSE]

Init == game = [New EXCEPT !.phase = "splash"]

Keys == {"none", "esc", "enter"}

splash_screen(k, button) ==
    game.phase = "splash" /\ game' = IF k = "enter" \/ button THEN New ELSE game

Active(g) == ~g.standby /\ ~g.fin
Kept(at, end) == IF at <= Margin THEN Margin + 1
                 ELSE IF at >= end - Margin THEN end - Margin - 1 ELSE at

Paused(g, k) == IF k = "esc" THEN [g EXCEPT !.standby = ~@] ELSE g

Aimed(g, move, button) ==
    IF ~Active(g) THEN [g EXCEPT !.choot = FALSE]
    ELSE [g EXCEPT !.px = Kept(@ + move[1], Width), !.py = Kept(@ - move[2], Height),
                   !.choot = button /\ g.can_choot, !.can_choot = ~button]

Flown(g) ==
    LET dy == g.dy + Pull
    IN  IF Active(g) THEN [g EXCEPT !.dy = dy, !.y = @ + dy, !.x = @ + g.dx] ELSE g
Gone(g) == g.y > Bush \/ g.x < 0 \/ g.x > Width

\* The monster flies on, perhaps away; or the next one comes, in a pause as well,
\* and when there is none it is over.
MonsterMoved(g) ==
    LET f == Flights[g.index]
        flown == Flown(g)
    IN  IF g.alive
        THEN IF Gone(flown) THEN [flown EXCEPT !.alive = FALSE, !.hit = @ \ {g.monsters}]
             ELSE flown
        ELSE [g EXCEPT !.alive = TRUE, !.monsters = @ + 1,
                       !.x = f.x, !.dx = f.dx, !.y = f.y, !.dy = f.dy,
                       !.index = (@ % Len(Flights)) + 1,
                       !.fin = @ \/ g.monsters + 1 = NbMonsters]

Shot(g) ==
    LET met == /\ Active(g) /\ g.choot /\ g.alive
               /\ g.px >= g.x /\ g.px <= g.x + BoxX /\ g.py >= g.y /\ g.py <= g.y + BoxY
    IN  IF met THEN [g EXCEPT !.dead = @ + 1, !.alive = FALSE, !.hit = @ \cup {g.monsters}]
        ELSE g

game_loop(k, move, button) ==
    /\ game.phase = "play"
    /\ LET g == Paused(game, k)
       IN  game' = IF k = "enter" /\ ~Active(g) THEN [game EXCEPT !.phase = "splash"]
                   ELSE Shot(MonsterMoved(Aimed(g, move, button)))

Next == \E k \in Keys, button \in BOOLEAN :
            \/ splash_screen(k, button)
            \/ \E move \in MouseMoves \X MouseMoves : game_loop(k, move, button)

-----------------------------------------------------------------------------
\* The score is the number of marks that show a hit, no monster is counted that
\* is still flying, each came once, and it is over when the last has gone.
Tally ==
    /\ game.dead = Cardinality(game.hit)
    /\ game.hit \subseteq 0..(NbMonsters - 1)
    /\ game.monsters \in -1..NbMonsters
    /\ game.fin <=> game.monsters = NbMonsters
    /\ game.alive => game.monsters \notin game.hit
=============================================================================
