------------------------------- MODULE Skate -------------------------------
(***************************************************************************)
(* roms/skate: one frame of game_loop per step, its statements in their   *)
(* order: a key, skater_draw, the tick, and scroll.  Of the two timers the *)
(* time since is kept, of the place in the endless park the one in its     *)
(* first loop, of the current box its kind; the score is left out, what is *)
(* about to be paid is not.                                                *)
(***************************************************************************)
EXTENDS Integers, Sequences

CONSTANTS
    ParkBegin, ParkLoop,            \* the boxes of park_begin and of park_loop
    BoxWidth, BoxHeight, RailHeight,    \* 40, 40, 15
    Ground,                         \* 190: where the feet are without a box
    Half, Reach,                    \* 25, 6: half a skater, and how far he stands
    Edge, Step,                     \* 120, 2: from where the park moves, and by how much
    JumpLow, JumpGain,              \* 14, 8
    Stopped, Slowing,               \* 6, 20: the frames for a step when stopped, and to slow down
    Flip, Rotate, Crash,            \* 20, 25, 100: how long they take
    FlipWorth, RotateWorth, SlideWorth,    \* 20, 30, 3
    MaxWorth                        \* bound: slides are not counted beyond

VARIABLE game

New == [phase |-> "play", x |-> 0, y |-> Ground, fly |-> FALSE, jump |-> 0, delay |-> 0,
        trick |-> "RUN", slide |-> FALSE, combo |-> 0, tmp |-> 0, box |-> "NO_BOX",
        freq |-> Stopped, timer1 |-> 0, timer2 |-> 0, scroll |-> 0]

Init == game = [New EXCEPT !.phase = "splash"]

Keys == {"none", "space", "right", "down", "left", "up", "esc"}

splash_screen(k) ==
    game.phase = "splash" /\ game' = IF k = "none" THEN game ELSE New

\* Every kind of trick in the air.
Tricked(g, trick, delay, worth) ==
    IF g.fly THEN [g EXCEPT !.delay = delay, !.trick = trick, !.combo = @ + 1, !.tmp = @ + worth]
    ELSE g

skater_slide(g) ==
    IF g.box # "BOX_RAIL" \/ g.freq >= Stopped \/ g.tmp + SlideWorth > MaxWorth THEN g
    ELSE [g EXCEPT !.slide = TRUE, !.trick = "SLIDE", !.tmp = @ + SlideWorth,
                   !.combo = IF g.trick # "SLIDE" /\ ~g.fly THEN @ + 1 ELSE @]

\* Keys wait while a trick, or a crash, takes its time.
Played(g, k) ==
    IF g.delay > 0 THEN g
    ELSE CASE k = "space" /\ ~g.fly /\ g.jump = 0 ->
                 [g EXCEPT !.jump = g.y - JumpLow - JumpGain * (Stopped - g.freq)]
           [] k = "right" -> [g EXCEPT !.freq = IF @ < 2 THEN 0 ELSE @ - 2]
           [] k = "down"  -> skater_slide(g)
           [] k = "left"  -> Tricked(g, "ROTATE", Rotate, RotateWorth)
           [] k = "up"    -> Tricked(g, "FLIP", Flip, FlipWorth)
           [] OTHER -> g

get_park(pos) ==
    LET box == pos \div BoxWidth
    IN  IF box < Len(ParkBegin) THEN ParkBegin[box + 1]
        ELSE ParkLoop[((box - Len(ParkBegin)) % Len(ParkLoop)) + 1]

box_height(g, pos) ==
    CASE get_park(pos) = "BOX_UP" -> pos % BoxWidth
      [] get_park(pos) = "BOX_RAIL" /\ g.slide -> RailHeight
      [] get_park(pos) = "BOX" -> BoxHeight
      [] OTHER -> 0

\* The first of the highest places under the skater.
skater_height(g) ==
    LET pos == g.x + Half + g.scroll
        under == (pos - Reach)..(pos + Reach - 1)
    IN  CHOOSE x \in under : \A o \in under :
            box_height(g, o) <= box_height(g, x)
            /\ (o < x => box_height(g, o) < box_height(g, x))

\* On a box, and off the rail that is not under the skater any more.
Boxed(g, pos) ==
    [g EXCEPT !.box = get_park(pos), !.slide = @ /\ get_park(pos) = "BOX_RAIL"]

BugCrash(g) == [g EXCEPT !.delay = Crash, !.trick = "CRASH", !.tmp = 0]
skater_crash(g) == [g EXCEPT !.delay = Crash, !.trick = "CRASH", !.tmp = 0, !.combo = 0]

skater_height_update(g, floor) ==
    LET y == IF g.jump # 0 THEN g.y - 2
             ELSE IF g.y < floor THEN g.y + 2 ELSE floor
        at == [g EXCEPT !.y = y, !.fly = y < floor, !.jump = IF y <= @ THEN 0 ELSE @]
    IN  IF ~at.fly /\ at.delay > 0 /\ at.trick # "CRASH" THEN skater_crash(at) ELSE at

\* With nothing left of a trick there is a new one, by where the skater is.
skater_anim(g) ==
    LET delay == IF g.delay > 0 THEN g.delay - 1 ELSE 0
        trick == CASE delay > 0 -> g.trick
                   [] delay = 0 /\ g.fly -> "NONE"
                   [] delay = 0 /\ ~g.fly /\ g.box = "BOX_UP" -> "UP"
                   [] delay = 0 /\ ~g.fly /\ g.box = "BOX_RAIL" /\ g.slide -> g.trick
                   [] OTHER -> IF g.freq < Stopped THEN "RUN" ELSE "NONE"
    IN  [g EXCEPT !.delay = delay, !.trick = trick]

Paid(g) ==
    IF g.delay = 0 /\ ~g.slide /\ ~g.fly /\ g.trick # "CRASH"
    THEN [g EXCEPT !.combo = 0, !.tmp = 0] ELSE g

\* A frame later, kept no further than it is compared with.
Ticked(g) == [g EXCEPT !.timer1 = IF @ < Slowing THEN @ + 1 ELSE @,
                       !.timer2 = IF @ < Stopped THEN @ + 1 ELSE @]

Slowed(g) ==
    IF ~g.slide /\ g.timer1 >= Slowing
    THEN [g EXCEPT !.timer1 = 0, !.freq = IF @ < Stopped THEN @ + 1 ELSE Stopped] ELSE g

\* Two loops ahead is where one is.
Around(scroll) ==
    LET loop == Len(ParkLoop) * BoxWidth
    IN  IF scroll >= Len(ParkBegin) * BoxWidth + loop THEN scroll - loop ELSE scroll

Scrolled(g) ==
    LET on == [g EXCEPT !.timer2 = 0]
    IN  IF g.timer2 < g.freq THEN g
        ELSE IF g.freq >= Stopped THEN on
        ELSE IF g.x < Edge THEN [on EXCEPT !.x = @ + Step]
        ELSE [on EXCEPT !.scroll = Around(@ + Step)]

game_loop(k) ==
    /\ game.phase = "play"
    /\ IF k = "esc" /\ game.delay = 0 THEN game' = [game EXCEPT !.phase = "splash"]
       ELSE \E g \in {Played(game, k)} : \E max_x \in {skater_height(g)} :
            \E on \in {Boxed(g, max_x)} : \E floor \in {Ground - box_height(on, max_x)} :
            \E moved \in {skater_height_update(on, floor)} :
                game' = Scrolled(Slowed(Ticked(Paid(skater_anim(moved)))))

Next == \E k \in Keys : splash_screen(k) \/ game_loop(k)

-----------------------------------------------------------------------------
\* After a crash nothing is left to be paid and none of it comes back before the
\* next trick; a count of tricks never goes without their points; on the ground,
\* off the rail and with nothing going on, all is paid; and no trick that needs
\* the air goes on without it.
CrashPaysNothing ==
    /\ game.trick = "CRASH" => game.tmp = 0 /\ game.combo = 0
    /\ SlideWorth * game.combo <= game.tmp
    /\ ~game.fly /\ ~game.slide /\ game.delay = 0 => game.tmp = 0 /\ game.combo = 0
    /\ ~game.fly /\ game.delay > 0 => game.trick = "CRASH"

\* A combination is decided, by a landing or by a crash: no play keeps it open.
Open == game.phase = "play" /\ game.combo > 0
=============================================================================
