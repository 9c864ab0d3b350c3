------------------------------- MODULE Vaders -------------------------------
(***************************************************************************)
(* roms/chichevaders: one frame of game_loop per step.  `seine' is the     *)
(* ship at the top, its shot falls, the player's bullet rises; a shot or a *)
(* bullet at <<-1, -1>> is none.                                           *)
(***************************************************************************)
EXTENDS Integers, Sequences, FiniteSets

CONSTANTS
    Width, Height,          \* 320, 200
    Half,                   \* 7: half of the player, P_SIZE / 2
    Deck, Muzzle,           \* 191, 195: where a shot meets the player, where a bullet starts
    Step,                   \* 5: of the player, a shot and a bullet
    BoxX, BoxY,             \* 20, 24: the boxes of a monster and of the seine
    SeineStep, Fall,        \* 2, 2
    NbMonsters, Cols,       \* 1, 6
    FirstX, FirstY, GapY,   \* 15, 10, 25
    NumMove                 \* 10

VARIABLE game

None == <<-1, -1>>
Monster(i) == [x |-> FirstX + ((i - 1) % Cols) * (Width \div Cols),
               y |-> FirstY + GapY * (1 + (i - 1) \div Cols), alive |-> TRUE]
New == [phase |-> "play", standby |-> FALSE, fin |-> FALSE, win |-> FALSE,
        p |-> Width \div 2, w |-> SeineStep, dw |-> SeineStep, shot |-> None, bullet |-> None,
        mdx |-> 1, mcnt |-> 0, dead |-> 0, kill |-> FALSE,
        monsters |-> [i \in 1..NbMonsters |-> Monster(i)]]

Init == game = [New EXCEPT !.phase = "splash"]

Keys == {"none", "left", "right", "space", "esc", "enter"}

splash_screen(k) ==
    game.phase = "splash" /\ game' = IF k = "enter" THEN New ELSE game

Active(g) == ~g.standby /\ ~g.fin
Lost(g) == [g EXCEPT !.fin = TRUE, !.win = FALSE]

Steered(g, k) ==
    IF k = "esc" THEN [g EXCEPT !.standby = ~@]
    ELSE IF ~Active(g) THEN g
    ELSE CASE k = "left" /\ g.p > Half + Step -> [g EXCEPT !.p = @ - Step]
           [] k = "right" /\ g.p < Width - (Half + Step) -> [g EXCEPT !.p = @ + Step]
           [] k = "space" /\ g.bullet = None -> [g EXCEPT !.bullet = <<g.p, Muzzle>>]
           [] OTHER -> g

SeineMoved(g) ==
    LET dw == IF g.w >= Width - 1 - BoxX \/ g.w <= 1 THEN -g.dw ELSE g.dw
    IN  IF Active(g) THEN [g EXCEPT !.dw = dw, !.w = @ + dw] ELSE g

OverPlayer(g, x) == x \in (g.p - Half)..(g.p + Half)

\* A shot moves, meets the player or the ground; without one, and over the
\* player, there is a new one, in a pause as well.
ShotMoved(g) ==
    LET at == IF Active(g) THEN <<g.shot[1], g.shot[2] + Step>> ELSE g.shot
        hit == Active(g) /\ OverPlayer(g, at[1]) /\ at[2] >= Deck
    IN  IF g.shot # None
        THEN [(IF hit THEN Lost(g) ELSE g) EXCEPT !.shot = IF at[2] >= Height THEN None ELSE at]
        ELSE IF OverPlayer(g, g.w) THEN [g EXCEPT !.shot = <<g.w, BoxY>>] ELSE g

\* The direction turns at the first of every row, and with the count, and does
\* so in a pause.
Direction(g, i) == IF (1 + (i - 1) \div Cols) % 2 = 1 THEN -g.mdx ELSE g.mdx
\* One monster after the other: the one that lands stops those behind it.
MonstersMoved(g) ==
    LET down == IF g.mcnt = NumMove THEN Fall ELSE 0
        lands(i) == g.monsters[i].alive /\ g.monsters[i].y + down + BoxY >= Height
        landed == Active(g) /\ \E i \in 1..NbMonsters : lands(i)
        moves(i) == Active(g) /\ g.monsters[i].alive /\ \A j \in 1..(i - 1) : ~lands(j)
        rows == 1 + (NbMonsters - 1) \div Cols
        turned == IF rows % 2 = 1 THEN -g.mdx ELSE g.mdx
    IN  [(IF landed THEN Lost(g) ELSE g)
            EXCEPT !.monsters = [i \in 1..NbMonsters |->
                      IF moves(i)
                      THEN [g.monsters[i] EXCEPT !.x = @ + Direction(g, i), !.y = @ + down]
                      ELSE g.monsters[i]],
                   !.mdx = IF g.mcnt = NumMove THEN -turned ELSE turned,
                   !.mcnt = (g.mcnt + 1) % (NumMove + 1)]

\* The first monster under the bullet dies; when all have, the seine may be hit.
BulletMoved(g) ==
    LET at == IF Active(g) THEN <<g.bullet[1], g.bullet[2] - Step>> ELSE g.bullet
        under == {i \in 1..NbMonsters :
                    /\ Active(g) /\ g.monsters[i].alive
                    /\ at[1] \in g.monsters[i].x..(g.monsters[i].x + BoxX)
                    /\ at[2] \in g.monsters[i].y..(g.monsters[i].y + BoxY)}
        good == under # {}
        dead == IF good THEN g.dead + 1 ELSE g.dead
        kill == g.kill \/ (Active(g) /\ dead = NbMonsters)
        won == kill /\ Active(g) /\ at[1] \in g.w..(g.w + BoxX) /\ at[2] <= BoxY
    IN  IF g.bullet = None THEN g
        ELSE [g EXCEPT !.bullet = IF good \/ at[2] <= 0 THEN None ELSE at,
                       !.monsters = [i \in 1..NbMonsters |->
                           IF i \in under /\ \A j \in under : i <= j
                           THEN [@[i] EXCEPT !.alive = FALSE] ELSE @[i]],
                       !.dead = dead, !.kill = kill,
                       !.fin = @ \/ won, !.win = @ \/ won]

game_loop(k) ==
    /\ game.phase = "play"
    /\ IF k = "enter" /\ ~Active(game) THEN game' = [game EXCEPT !.phase = "splash"]
       ELSE \E s \in {SeineMoved(Steered(game, k))} : \E m \in {MonstersMoved(ShotMoved(s))} :
                game' = BulletMoved(m)

Next == \E k \in Keys : splash_screen(k) \/ game_loop(k)

-----------------------------------------------------------------------------
\* The count of the dead is of those not alive, the seine may be hit when it is
\* full, and who has won has killed all; no shot or bullet leaves the screen.
WinEarned ==
    /\ game.dead = Cardinality({i \in 1..NbMonsters : ~game.monsters[i].alive})
    /\ game.kill <=> game.dead = NbMonsters
    /\ game.win => game.fin /\ game.kill
    /\ \A at \in {game.shot, game.bullet} \ {None} :
          at[1] \in 0..(Width - 1) /\ at[2] \in 1..(Height - 1)

\* A round that is over stays as it was decided until the next one.
VerdictStep ==
    game.phase = "play" /\ game.fin /\ game'.phase = "play" => game'.fin /\ game'.win = game.win
=============================================================================
