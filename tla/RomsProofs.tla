----------------------------- MODULE RomsProofs -----------------------------
(***************************************************************************)
(* The rules of the games, for fields of every size: an inductive          *)
(* invariant per game, and its theorem.                                    *)
(***************************************************************************)
EXTENDS Roms, FiniteSetTheorems, SequenceTheorems, WellFoundedInduction, TLAPS

-----------------------------------------------------------------------------
(* Pong.                                                                   *)

PongGame == [phase : {"splash", "play"}, player1 : Int, x : Int, y : Int,
             dx : Int, dy : Int, standby : Nat]

\* The ball keeps within a step of the field; while it waits it is in the middle.
PongRules(g) ==
    /\ g \in PongGame
    /\ g.y \in PONG.Ball..(PONG.Height - PONG.Ball - 1)
    /\ g.dx <= PONG.LaterSpeed /\ -g.dx <= PONG.LaterSpeed
    /\ g.x - PONG.Core > PONG.BarWidth - PONG.LaterSpeed - 1
    /\ g.x + PONG.Core < PONG.Width - PONG.BarWidth - 1 + PONG.LaterSpeed
    /\ g.x + PONG.Core >= PONG.Width - PONG.BarWidth - 1 =>
          g.dx < 0 /\ g.x + g.dx + PONG.Core < PONG.Width - PONG.BarWidth - 1
    /\ g.x - PONG.Core < PONG.BarWidth =>
          g.dx > 0 /\ g.x + g.dx - PONG.Core >= PONG.BarWidth
    /\ PO!OnField(g.player1) = g.player1
    /\ g.standby # 0 => g.x = PONG.Width \div 2

\* A bar that is put on the field stays there.
LEMMA PongBar ==
    ASSUME NEW bar \in Int
    PROVE  PO!OnField(bar) \in Int /\ PO!OnField(PO!OnField(bar)) = PO!OnField(bar)
  BY PongAssumption DEF PO!OnField

\* A ball that is put in the middle keeps the rules.
LEMMA PongServed ==
    ASSUME NEW speed \in {PONG.Speed, PONG.LaterSpeed}
    PROVE  PongRules(PO!New(speed))
<1>1. PICK g : g = PO!New(speed)
  OBVIOUS
<1>2. /\ g.phase = "play" /\ g.player1 = PONG.Height \div 2 /\ g.x = PONG.Width \div 2
      /\ g.y = PONG.Height \div 2 /\ g.dx = speed /\ g.dy = speed
      /\ g.standby = PONG.Standby
      /\ g \in PongGame
  BY <1>1, PongAssumption DEF PO!New, PongGame
<1>3. PO!OnField(g.player1) = g.player1
  BY <1>2, PongAssumption DEF PO!OnField
<1> QED
  BY <1>1, <1>2, <1>3, PongAssumption DEF PongRules

\* Every move of Pong keeps the rules.
LEMMA PongNext ==
    ASSUME PongRules(game), PO!Next
    PROVE  PongRules(game')
<1>1. PICK k \in PO!Keys : PO!splash_screen(k) \/ PO!game_loop(k)
  BY DEF PO!Next
<1>2. CASE PO!splash_screen(k)
  BY <1>2, PongServed DEF PO!splash_screen
<1>3. CASE PO!game_loop(k)
  <2>1. CASE game.standby = 0 /\ k = "esc"
    <3>1. game' = [game EXCEPT !.phase = "splash"]
      BY <1>3, <2>1 DEF PO!game_loop
    <3> QED
      BY <3>1, PongAssumption DEF PongRules, PongGame
  <2>2. CASE ~(game.standby = 0 /\ k = "esc")
    <3>1. PICK s : s = PO!Steered(game, k)
      OBVIOUS
    <3>2. PICK turn \in Int : s = [game EXCEPT !.player1 = PO!OnField(game.player1 + turn)]
      <4> DEFINE turn == CASE game.standby # 0 -> 0 [] k = "down" -> PONG.Step
                           [] k = "up" -> -PONG.Step [] OTHER -> 0
      <4>1. turn \in Int
        BY PongAssumption
      <4>2. s = [game EXCEPT !.player1 = PO!OnField(game.player1 + turn)]
        BY <3>1 DEF PO!Steered
      <4> QED
        BY <4>1, <4>2
    <3>3. /\ PongRules(s)
          /\ s.player1 \in Int
      BY <3>2, PongBar DEF PongRules, PongGame
    <3>4. PICK m : m = PO!Moved(s)
      OBVIOUS
    <3>5. /\ m \in PongGame /\ m.player1 = s.player1 /\ m.standby = s.standby
          /\ m.dx = s.dx
          /\ s.standby = 0 => m.x = s.x + s.dx
          /\ s.standby # 0 => m.x = s.x
      <4>1. CASE s.standby # 0
        BY <3>3, <3>4, <4>1 DEF PongRules, PO!Moved
      <4>2. CASE s.standby = 0
        <5>1. m = [[s EXCEPT !.x = s.x + s.dx] EXCEPT !.y = s.y + s.dy]
          BY <3>3, <3>4, <4>2 DEF PongRules, PongGame, PO!Moved
        <5>2. PICK n : n = [s EXCEPT !.x = s.x + s.dx]
          OBVIOUS
        <5>3. /\ n \in PongGame /\ n.player1 = s.player1 /\ n.standby = s.standby
              /\ n.dx = s.dx /\ n.x = s.x + s.dx
          BY <3>3, <5>2 DEF PongRules, PongGame
        <5>4. m = [n EXCEPT !.y = s.y + s.dy]
          BY <5>1, <5>2
        <5> QED
          BY <3>3, <4>2, <5>3, <5>4 DEF PongRules, PongGame
      <4> QED
        BY <4>1, <4>2
    <3>6. PICK b : b = PO!Bounced(m)
      OBVIOUS
    <3>7. /\ b \in PongGame /\ b.player1 = m.player1 /\ b.standby = m.standby
          /\ b.dx = m.dx /\ b.x = m.x
          /\ b.y \in PONG.Ball..(PONG.Height - PONG.Ball - 1)
      <4>1. PICK y \in Int : b = m \/ b = [[m EXCEPT !.y = y] EXCEPT !.dy = -m.dy]
        <5>1. PONG.Height - PONG.Ball - 1 \in Int /\ PONG.Ball \in Int
          BY PongAssumption
        <5>2. \/ b = m
              \/ b = [[m EXCEPT !.y = PONG.Height - PONG.Ball - 1] EXCEPT !.dy = -m.dy]
              \/ b = [[m EXCEPT !.y = PONG.Ball] EXCEPT !.dy = -m.dy]
          BY <3>5, <3>6 DEF PongGame, PO!Bounced
        <5> QED
          BY <5>1, <5>2
      <4>2. /\ b \in PongGame /\ b.player1 = m.player1 /\ b.standby = m.standby
            /\ b.dx = m.dx /\ b.x = m.x
        <5>1. PICK n : n = [m EXCEPT !.y = y]
          OBVIOUS
        <5>2. /\ n \in PongGame /\ n.player1 = m.player1 /\ n.standby = m.standby
              /\ n.dx = m.dx /\ n.x = m.x
          BY <3>5, <5>1 DEF PongGame
        <5>3. m.dy \in Int /\ (b = m \/ b = [n EXCEPT !.dy = -m.dy])
          BY <3>5, <4>1, <5>1 DEF PongGame
        <5> QED
          BY <3>5, <5>2, <5>3 DEF PongGame
      <4>3. b.y \in PONG.Ball..(PONG.Height - PONG.Ball - 1)
        BY <3>5, <3>6, PongAssumption DEF PongGame, PO!Bounced
      <4> QED
        BY <4>2, <4>3
    <3>8. PICK r : r = PO!Readied(b)
      OBVIOUS
    <3>9. /\ r \in PongGame /\ r.player1 = s.player1
          /\ r.dx = s.dx /\ r.x = m.x /\ r.y \in PONG.Ball..(PONG.Height - PONG.Ball - 1)
          /\ r.standby # 0 => s.standby # 0
      BY <3>5, <3>7, <3>8 DEF PongGame, PO!Readied
    <3>10. game' = PO!AtBars(r)
      BY <1>3, <2>2, <3>1, <3>4, <3>6, <3>8 DEF PO!game_loop
    <3>11. PICK back : back = IF r.x + PONG.Core >= PONG.Width - PONG.BarWidth - 1
                              THEN [r EXCEPT !.dx = -r.dx] ELSE r
      OBVIOUS
    <3>12. \/ game' = PO!New(PONG.LaterSpeed)
           \/ back.x - PONG.Core >= PONG.BarWidth /\ game' = back
           \/ back.x - PONG.Core < PONG.BarWidth /\ game' = [back EXCEPT !.dx = -back.dx]
      <4>1. back \in PongGame
        BY <3>9, <3>11 DEF PongGame
      <4> QED
        BY <3>10, <3>11, <4>1, PongAssumption DEF PO!AtBars, PongGame
    <3>13. /\ back \in PongGame /\ back.player1 = r.player1 /\ back.x = r.x /\ back.y = r.y
           /\ back.standby = r.standby
           /\ r.x + PONG.Core >= PONG.Width - PONG.BarWidth - 1 => back.dx = -r.dx
           /\ r.x + PONG.Core < PONG.Width - PONG.BarWidth - 1 => back.dx = r.dx
      BY <3>9, <3>11, PongAssumption DEF PongGame
    <3>14. PICK W \in Int, C \in Nat, B \in Nat, L \in Nat, mid \in Int :
              /\ W = PONG.Width /\ C = PONG.Core /\ B = PONG.BarWidth
              /\ L = PONG.LaterSpeed /\ mid = PONG.Width \div 2
              /\ B + C <= mid /\ mid + C < W - B - 1 /\ L > 0
      <4>1. /\ PONG.Width \div 2 \in Int /\ PONG.Width \in Int /\ PONG.Core \in Nat
            /\ PONG.BarWidth \in Nat /\ PONG.LaterSpeed \in Nat
        BY PongAssumption
      <4>2. PONG.LaterSpeed > 0
        BY PongAssumption
      <4> QED
        BY <4>1, <4>2, PongAssumption
    <3>15. /\ s.dx \in Int /\ s.x \in Int /\ s.dx <= L /\ -s.dx <= L
           /\ s.x - C > B - L - 1 /\ s.x + C < W - B - 1 + L
           /\ s.x + C >= W - B - 1 => s.dx < 0 /\ s.x + s.dx + C < W - B - 1
           /\ s.x - C < B => s.dx > 0 /\ s.x + s.dx - C >= B
           /\ s.standby # 0 => s.x = mid
      BY <3>3, <3>14 DEF PongRules, PongGame
    <3>16. /\ r.dx = s.dx /\ r.x \in Int /\ r.dx \in Int
           /\ s.standby = 0 => r.x = s.x + s.dx
           /\ s.standby # 0 => r.x = mid
           /\ r.standby # 0 => r.x = mid
      BY <3>5, <3>9, <3>15 DEF PongGame
    <3>17. /\ r.x + C < W - B - 1 + L /\ r.x - C > B - L - 1
           /\ r.x + C >= W - B - 1 => r.dx > 0 /\ r.x - r.dx + C < W - B - 1 /\ r.x - C >= B
           /\ r.x - C < B => r.dx < 0 /\ r.x - r.dx - C >= B
      BY <3>14, <3>15, <3>16
    <3>18. CASE game' = PO!New(PONG.LaterSpeed)
      BY <3>18, PongServed
    <3>19. CASE back.x - PONG.Core >= PONG.BarWidth /\ game' = back
      BY <3>3, <3>9, <3>13, <3>14, <3>15, <3>16, <3>17, <3>19 DEF PongRules
    <3>20. CASE back.x - PONG.Core < PONG.BarWidth /\ game' = [back EXCEPT !.dx = -back.dx]
      <4>1. /\ game' \in PongGame /\ game'.player1 = s.player1 /\ game'.x = r.x
            /\ game'.y = r.y /\ game'.standby = r.standby
            /\ r.x - C < B /\ game'.dx = -r.dx
        BY <3>9, <3>13, <3>14, <3>16, <3>17, <3>20 DEF PongGame
      <4> QED
        BY <3>3, <3>9, <3>14, <3>15, <3>16, <3>17, <4>1 DEF PongRules
    <3> QED
      BY <3>12, <3>18, <3>19, <3>20
  <2> QED
    BY <2>1, <2>2
<1> QED
  BY <1>1, <1>2, <1>3

-----------------------------------------------------------------------------
(* Hunter.                                                                 *)

HunterGame ==
    [phase : {"splash", "play"}, px : Int, py : Int, alive : BOOLEAN, x : Int, y : Int,
     dx : Int, dy : Int, index : 1..Len(HUNTER.Flights), monsters : -1..HUNTER.NbMonsters,
     hit : SUBSET (0..(HUNTER.NbMonsters - 1)), dead : Nat, can_choot : BOOLEAN,
     choot : BOOLEAN, standby : BOOLEAN, fin : BOOLEAN]

\* No mark is ahead of the monster that flies, and the last one, that ends the
\* game, stays where it came up.
HunterRules(g) ==
    /\ g \in HunterGame
    /\ g.dead = Cardinality(g.hit)
    /\ g.hit \subseteq 0..g.monsters
    /\ g.fin <=> g.monsters = HUNTER.NbMonsters
    /\ g.fin => g.alive
    /\ g.alive => g.monsters >= 0 /\ g.monsters \notin g.hit /\ ~HU!Gone(g)

\* The lengths are integers.
LEMMA HunterLengths ==
    /\ HUNTER.Width \in Int /\ HUNTER.Height \in Int /\ HUNTER.Bush \in Int
    /\ HUNTER.Margin \in Int /\ HUNTER.Pull \in Int
    /\ HUNTER.NbMonsters \in Nat /\ HUNTER.NbMonsters - 1 \in Int
  BY HunterAssumption

\* What the rules are about is not the player's aim.
LEMMA HunterSame ==
    ASSUME NEW g, HunterRules(g), NEW h \in HunterGame,
           h.alive = g.alive, h.x = g.x, h.y = g.y, h.monsters = g.monsters,
           h.hit = g.hit, h.dead = g.dead, h.fin = g.fin
    PROVE  HunterRules(h)
  BY DEF HunterRules, HU!Gone

\* A game that begins keeps the rules.
LEMMA HunterBegins == HunterRules(HU!New)
<1>1. HU!New \in HunterGame
  <2>1. /\ HUNTER.Width \div 2 \in Int /\ HUNTER.Height \div 2 \in Int
        /\ 1 \in 1..Len(HUNTER.Flights) /\ -1 \in -1..HUNTER.NbMonsters
    <3>1. HUNTER.Width \div 2 \in Int /\ HUNTER.Height \div 2 \in Int
      BY HunterLengths
    <3>2. 1 \in 1..Len(HUNTER.Flights)
      BY HunterAssumption
    <3> QED
      BY <3>1, <3>2, HunterLengths
  <2> QED
    BY <2>1 DEF HU!New, HunterGame
<1>2. /\ HU!New.dead = 0 /\ HU!New.hit = {} /\ HU!New.fin = FALSE /\ HU!New.alive = FALSE
      /\ HU!New.monsters = -1
  BY DEF HU!New
<1> QED
  BY <1>1, <1>2, FS_EmptySet, HunterLengths DEF HunterRules

\* A key and the mouse change nothing the rules are about.
LEMMA HunterAimed ==
    ASSUME NEW g, HunterRules(g), NEW k, NEW move \in HUNTER.MouseMoves \X HUNTER.MouseMoves,
           NEW button \in BOOLEAN
    PROVE  HunterRules(HU!Paused(g, k)) /\ HunterRules(HU!Aimed(g, move, button))
<1>1. g \in HunterGame
  BY DEF HunterRules
<1>2. HunterRules(HU!Paused(g, k))
  <2>1. CASE k = "esc"
    <3>1. PICK h : h = HU!Paused(g, k)
      OBVIOUS
    <3>2. h = [g EXCEPT !.standby = ~g.standby]
      BY <2>1, <3>1 DEF HU!Paused
    <3>3. (~g.standby) \in BOOLEAN
      OBVIOUS
    <3>4. PICK b \in BOOLEAN : h = [g EXCEPT !.standby = b]
      BY <3>2, <3>3
    <3>5. /\ h \in HunterGame
          /\ h.alive = g.alive /\ h.x = g.x /\ h.y = g.y /\ h.monsters = g.monsters
          /\ h.hit = g.hit /\ h.dead = g.dead /\ h.fin = g.fin
      BY <1>1, <3>4 DEF HunterGame
    <3> QED
      BY <3>1, <3>5, HunterSame
  <2>2. CASE k # "esc"
    BY <2>2 DEF HU!Paused
  <2> QED
    BY <2>1, <2>2
<1>3. HunterRules(HU!Aimed(g, move, button))
  <2>1. PICK h : h = HU!Aimed(g, move, button)
    OBVIOUS
  <2>2. \E px \in Int, py \in Int, choot \in BOOLEAN, can \in BOOLEAN :
            h = [[[[g EXCEPT !.px = px] EXCEPT !.py = py] EXCEPT !.choot = choot]
                    EXCEPT !.can_choot = can]
    <3>1. CASE HU!Active(g)
      <4>1. /\ HU!Kept(g.px + move[1], HUNTER.Width) \in Int
            /\ HU!Kept(g.py - move[2], HUNTER.Height) \in Int
        <5>1. /\ move[1] \in Int /\ move[2] \in Int
              /\ HUNTER.Width \in Int /\ HUNTER.Height \in Int /\ HUNTER.Margin \in Int
          <6>1. HUNTER.MouseMoves \subseteq Int
            BY HunterAssumption
          <6> QED
            BY <6>1, HunterLengths
        <5>2. g.px \in Int /\ g.py \in Int
          BY <1>1 DEF HunterGame
        <5> QED
          BY <5>1, <5>2 DEF HU!Kept
      <4>2. (button /\ g.can_choot) \in BOOLEAN /\ (~button) \in BOOLEAN
        OBVIOUS
      <4>3. h = [[[[g EXCEPT !.px = HU!Kept(g.px + move[1], HUNTER.Width)]
                       EXCEPT !.py = HU!Kept(g.py - move[2], HUNTER.Height)]
                       EXCEPT !.choot = button /\ g.can_choot]
                       EXCEPT !.can_choot = ~button]
        BY <1>1, <2>1, <3>1 DEF HU!Aimed, HunterGame
      <4> QED
        BY <4>1, <4>2, <4>3
    <3>2. CASE ~HU!Active(g)
      <4>1. h = [g EXCEPT !.choot = FALSE]
        BY <2>1, <3>2 DEF HU!Aimed
      <4>2. /\ g.px \in Int /\ g.py \in Int /\ g.can_choot \in BOOLEAN
            /\ h = [[[[g EXCEPT !.px = g.px] EXCEPT !.py = g.py] EXCEPT !.choot = FALSE]
                       EXCEPT !.can_choot = g.can_choot]
        BY <1>1, <4>1 DEF HunterGame
      <4> QED
        BY <4>2
    <3> QED
      BY <3>1, <3>2
  <2>3. PICK px \in Int, py \in Int, choot \in BOOLEAN, can \in BOOLEAN :
            h = [[[[g EXCEPT !.px = px] EXCEPT !.py = py] EXCEPT !.choot = choot]
                    EXCEPT !.can_choot = can]
    BY <2>2
  <2>4. /\ h \in HunterGame
        /\ h.alive = g.alive /\ h.x = g.x /\ h.y = g.y /\ h.monsters = g.monsters
        /\ h.hit = g.hit /\ h.dead = g.dead /\ h.fin = g.fin
    BY <1>1, <2>3 DEF HunterGame
  <2> QED
    BY <2>1, <2>4, HunterSame
<1> QED
  BY <1>2, <1>3

\* A monster that flies on, one that goes, and one that comes.
LEMMA HunterMoved ==
    ASSUME NEW g, HunterRules(g)
    PROVE  HunterRules(HU!MonsterMoved(g))
<1>1. g \in HunterGame
  BY DEF HunterRules
<1>2. PICK h : h = HU!MonsterMoved(g)
  OBVIOUS
<1>3. CASE g.alive
  <2>1. PICK f : f = HU!Flown(g)
    OBVIOUS
  <2>2. \E x \in Int, y \in Int, dy \in Int :
            f = [[[g EXCEPT !.dy = dy] EXCEPT !.y = y] EXCEPT !.x = x]
    <3>1. CASE HU!Active(g)
      <4>1. /\ g.dy + HUNTER.Pull \in Int /\ g.y + (g.dy + HUNTER.Pull) \in Int
            /\ g.x + g.dx \in Int
        <5>1. PICK pull \in Int : pull = HUNTER.Pull
          BY HunterLengths
        <5>2. g.dy \in Int /\ g.y \in Int /\ g.x \in Int /\ g.dx \in Int
          BY <1>1 DEF HunterGame
        <5> QED
          BY <5>1, <5>2
      <4>2. f = [[[g EXCEPT !.dy = g.dy + HUNTER.Pull] EXCEPT !.y = g.y + (g.dy + HUNTER.Pull)]
                     EXCEPT !.x = g.x + g.dx]
        BY <1>1, <2>1, <3>1 DEF HU!Flown, HunterGame
      <4> QED
        BY <4>1, <4>2
    <3>2. CASE ~HU!Active(g)
      <4>1. f = g
        BY <2>1, <3>2 DEF HU!Flown
      <4>2. /\ g.x \in Int /\ g.y \in Int /\ g.dy \in Int
            /\ g = [[[g EXCEPT !.dy = g.dy] EXCEPT !.y = g.y] EXCEPT !.x = g.x]
        BY <1>1 DEF HunterGame
      <4> QED
        BY <4>1, <4>2
    <3> QED
      BY <3>1, <3>2
  <2>3. /\ f \in HunterGame
        /\ f.alive = g.alive /\ f.monsters = g.monsters
        /\ f.hit = g.hit /\ f.dead = g.dead /\ f.fin = g.fin
    <3>1. PICK dy \in Int, y \in Int, x \in Int :
              f = [[[g EXCEPT !.dy = dy] EXCEPT !.y = y] EXCEPT !.x = x]
      BY <2>2
    <3>2. PICK u : u = [[g EXCEPT !.dy = dy] EXCEPT !.y = y]
      OBVIOUS
    <3>3. /\ u \in HunterGame
          /\ u.alive = g.alive /\ u.monsters = g.monsters
          /\ u.hit = g.hit /\ u.dead = g.dead /\ u.fin = g.fin
      BY <1>1, <3>2 DEF HunterGame
    <3>4. f = [u EXCEPT !.x = x]
      BY <3>1, <3>2
    <3> QED
      BY <3>3, <3>4 DEF HunterGame
  <2>4. CASE HU!Gone(f)
    <3>1. g.monsters \notin g.hit
      BY <1>3 DEF HunterRules
    <3>2. h = [[f EXCEPT !.alive = FALSE] EXCEPT !.hit = f.hit \ {g.monsters}]
      BY <1>2, <1>3, <2>1, <2>3, <2>4 DEF HU!MonsterMoved, HunterGame
    <3>3. f.hit \ {g.monsters} = f.hit
      BY <2>3, <3>1
    <3>4. /\ h \in HunterGame
          /\ h.alive = FALSE /\ h.monsters = g.monsters
          /\ h.hit = g.hit /\ h.dead = g.dead /\ h.fin = g.fin
      BY <2>3, <3>2, <3>3 DEF HunterGame
    <3>5. g.fin = FALSE
      <4>1. CASE HU!Active(g)
        BY <1>1, <4>1 DEF HU!Active, HunterGame
      <4>2. CASE ~HU!Active(g)
        BY <1>3, <2>1, <2>4, <4>2 DEF HU!Flown, HunterRules
      <4> QED
        BY <4>1, <4>2
    <3> QED
      BY <1>2, <3>4, <3>5 DEF HunterRules
  <2>5. CASE ~HU!Gone(f)
    <3>1. h = f
      BY <1>2, <1>3, <2>1, <2>5 DEF HU!MonsterMoved
    <3> QED
      BY <1>2, <2>3, <2>5, <3>1 DEF HunterRules
  <2> QED
    BY <2>4, <2>5
<1>4. CASE ~g.alive
  <2>1. PICK f : f = HUNTER.Flights[g.index]
    OBVIOUS
  <2>2. /\ f.x \in Int /\ f.x \in 0..HUNTER.Width /\ f.y \in Int /\ f.dx \in Int /\ f.dy \in Int
        /\ f.y <= HUNTER.Bush
    <3>1. g.index \in 1..Len(HUNTER.Flights)
      BY <1>1 DEF HunterGame
    <3>2. f \in [x : 0..HUNTER.Width, dx : Int, y : Int, dy : Int]
      <4>1. PICK fl : fl = HUNTER.Flights
        OBVIOUS
      <4>2. fl \in Seq([x : 0..HUNTER.Width, dx : Int, y : Int, dy : Int])
        BY <4>1, HunterAssumption
      <4>3. g.index \in 1..Len(fl) /\ f = fl[g.index]
        BY <2>1, <3>1, <4>1
      <4> QED
        BY <4>2, <4>3, ElementOfSeq
    <3>3. f.y <= HUNTER.Bush
      BY <2>1, <3>1, HunterAssumption
    <3> QED
      BY <3>2, <3>3, HunterLengths
  <2>3. /\ g.fin = FALSE /\ g.monsters # HUNTER.NbMonsters
        /\ g.monsters \in -1..HUNTER.NbMonsters
    BY <1>1, <1>4 DEF HunterRules, HunterGame
  <2>4. PICK n : n = g.monsters + 1
    OBVIOUS
  <2>5. /\ n \in 0..HUNTER.NbMonsters /\ n \in -1..HUNTER.NbMonsters
        /\ n \notin 0..g.monsters
        /\ \A i \in 0..g.monsters : i \in 0..n
    <3>1. PICK N \in Nat : N = HUNTER.NbMonsters
      BY HunterLengths
    <3>2. PICK m \in Int : m = g.monsters /\ m >= -1 /\ m < N
      BY <2>3, <3>1
    <3>3. n = m + 1
      BY <2>4, <3>2
    <3>4. n \in 0..N /\ n \in -1..N /\ n \notin 0..m /\ \A i \in 0..m : i \in 0..n
      BY <3>1, <3>2, <3>3
    <3> QED
      BY <3>1, <3>2, <3>4
  <2>6. PICK index \in 1..Len(HUNTER.Flights) : index = (g.index % Len(HUNTER.Flights)) + 1
    <3>1. PICK l \in Nat : l = Len(HUNTER.Flights) /\ l >= 1
      BY HunterAssumption
    <3>2. PICK i \in Nat : i = g.index
      BY <1>1 DEF HunterGame
    <3>3. (i % l) + 1 \in 1..l
      BY <3>1, <3>2
    <3> QED
      BY <3>1, <3>2, <3>3
  <2>7. PICK fin \in BOOLEAN : fin <=> n = HUNTER.NbMonsters
    OBVIOUS
  <2>8. h = [[[[[[[[g EXCEPT !.alive = TRUE] EXCEPT !.monsters = n] EXCEPT !.x = f.x]
                   EXCEPT !.dx = f.dx] EXCEPT !.y = f.y] EXCEPT !.dy = f.dy]
                   EXCEPT !.index = index] EXCEPT !.fin = fin]
    <3>1. (g.fin \/ g.monsters + 1 = HUNTER.NbMonsters) = fin
      BY <2>3, <2>4, <2>7
    <3>2. h = [g EXCEPT !.alive = TRUE, !.monsters = g.monsters + 1,
                       !.x = f.x, !.dx = f.dx, !.y = f.y, !.dy = f.dy,
                       !.index = (g.index % Len(HUNTER.Flights)) + 1,
                       !.fin = (g.fin \/ g.monsters + 1 = HUNTER.NbMonsters)]
      BY <1>1, <1>2, <1>4, <2>1 DEF HU!MonsterMoved, HunterGame
    <3>3. h = [g EXCEPT !.alive = TRUE, !.monsters = n,
                       !.x = f.x, !.dx = f.dx, !.y = f.y, !.dy = f.dy,
                       !.index = index, !.fin = fin]
      BY <3>1, <3>2, <2>4, <2>6
    <3> QED
      BY <3>3, <1>1 DEF HunterGame
  <2>9. /\ h \in HunterGame
        /\ h.alive = TRUE /\ h.monsters = n /\ h.x = f.x /\ h.y = f.y
        /\ h.hit = g.hit /\ h.dead = g.dead /\ h.fin = fin
    <3>1. PICK u : u = [[[[[g EXCEPT !.alive = TRUE] EXCEPT !.monsters = n] EXCEPT !.x = f.x]
                   EXCEPT !.dx = f.dx] EXCEPT !.y = f.y]
      OBVIOUS
    <3>2. /\ u \in HunterGame /\ u.alive = TRUE /\ u.monsters = n /\ u.x = f.x /\ u.y = f.y
          /\ u.hit = g.hit /\ u.dead = g.dead
      BY <1>1, <2>2, <2>5, <3>1 DEF HunterGame
    <3>3. h = [[[u EXCEPT !.dy = f.dy] EXCEPT !.index = index] EXCEPT !.fin = fin]
      BY <2>8, <3>1
    <3> QED
      BY <2>2, <3>2, <3>3 DEF HunterGame
  <2>10. ~HU!Gone(h)
    BY <2>2, <2>9, HunterLengths DEF HU!Gone
  <2>11. g.hit \subseteq 0..g.monsters /\ g.dead = Cardinality(g.hit)
    BY DEF HunterRules
  <2> QED
    BY <1>2, <2>5, <2>7, <2>9, <2>10, <2>11 DEF HunterRules
<1> QED
  BY <1>3, <1>4

\* A shot marks the monster that flies, and no other.
LEMMA HunterShot ==
    ASSUME NEW g, HunterRules(g)
    PROVE  HunterRules(HU!Shot(g))
<1>1. g \in HunterGame
  BY DEF HunterRules
<1>2. PICK h : h = HU!Shot(g)
  OBVIOUS
<1>3. CASE h = g
  BY <1>2, <1>3
<1>4. CASE h # g
  <2>1. /\ g.alive /\ HU!Active(g)
        /\ h = [g EXCEPT !.dead = g.dead + 1, !.alive = FALSE,
                         !.hit = g.hit \cup {g.monsters}]
    BY <1>1, <1>2, <1>4 DEF HU!Shot, HunterGame
  <2>2. /\ g.monsters \in 0..(HUNTER.NbMonsters - 1) /\ g.monsters \notin g.hit
        /\ g.hit \subseteq 0..g.monsters /\ g.dead = Cardinality(g.hit)
        /\ g.monsters # HUNTER.NbMonsters /\ g.fin = FALSE
    <3>1. g.fin = FALSE
      BY <1>1, <2>1 DEF HU!Active, HunterGame
    <3>2. g.monsters # HUNTER.NbMonsters
      BY <3>1 DEF HunterRules
    <3>3. /\ g.monsters >= 0 /\ g.monsters \in -1..HUNTER.NbMonsters /\ g.monsters \notin g.hit
          /\ g.hit \subseteq 0..g.monsters /\ g.dead = Cardinality(g.hit)
      BY <1>1, <2>1 DEF HunterRules, HunterGame
    <3>4. g.monsters \in 0..(HUNTER.NbMonsters - 1)
      <4>1. PICK n \in Nat, m \in Int : n = HUNTER.NbMonsters /\ m = g.monsters
        BY <3>3, HunterLengths
      <4>2. m \in 0..(n - 1)
        BY <3>2, <3>3, <4>1
      <4> QED
        BY <4>1, <4>2
    <3> QED
      BY <3>1, <3>2, <3>3, <3>4
  <2>3. Cardinality(g.hit \cup {g.monsters}) = g.dead + 1 /\ g.dead + 1 \in Nat
    <3>1. IsFiniteSet(g.hit)
      <4>1. IsFiniteSet(0..(HUNTER.NbMonsters - 1))
        BY FS_Interval, HunterLengths
      <4> QED
        BY <1>1, <4>1, FS_Subset DEF HunterGame
    <3>2. Cardinality(g.hit \cup {g.monsters}) = Cardinality(g.hit) + 1
      BY <2>2, <3>1, FS_AddElement
    <3>3. g.dead \in Nat
      BY <1>1 DEF HunterGame
    <3> QED
      BY <2>2, <3>2, <3>3
  <2>4. PICK hit \in SUBSET (0..(HUNTER.NbMonsters - 1)), dead \in Nat :
            /\ hit = g.hit \cup {g.monsters} /\ dead = g.dead + 1
    BY <1>1, <2>2, <2>3 DEF HunterGame
  <2>5. h = [[[g EXCEPT !.dead = dead] EXCEPT !.alive = FALSE] EXCEPT !.hit = hit]
    BY <1>1, <2>1, <2>4 DEF HunterGame
  <2>6. /\ h \in HunterGame /\ h.alive = FALSE /\ h.dead = dead /\ h.hit = hit
        /\ h.monsters = g.monsters /\ h.fin = g.fin
    BY <1>1, <2>5 DEF HunterGame
  <2>7. hit \subseteq 0..g.monsters
    BY <2>2, <2>4
  <2> QED
    BY <1>2, <2>2, <2>3, <2>4, <2>6, <2>7 DEF HunterRules
<1> QED
  BY <1>3, <1>4

\* Every move of Hunter keeps the rules.
LEMMA HunterNext ==
    ASSUME HunterRules(game), HU!Next
    PROVE  HunterRules(game')
<1>1. PICK k \in HU!Keys, button \in BOOLEAN :
          \/ HU!splash_screen(k, button)
          \/ \E move \in HUNTER.MouseMoves \X HUNTER.MouseMoves : HU!game_loop(k, move, button)
  BY DEF HU!Next
<1>2. CASE HU!splash_screen(k, button)
  BY <1>2, HunterBegins DEF HU!splash_screen
<1>3. ASSUME NEW move \in HUNTER.MouseMoves \X HUNTER.MouseMoves, HU!game_loop(k, move, button)
      PROVE  HunterRules(game')
  <2>1. PICK g : g = HU!Paused(game, k)
    OBVIOUS
  <2>2. HunterRules(HU!Shot(HU!MonsterMoved(HU!Aimed(g, move, button))))
    BY <2>1, HunterAimed, HunterMoved, HunterShot
  <2>3. \/ game' = [game EXCEPT !.phase = "splash"]
        \/ game' = HU!Shot(HU!MonsterMoved(HU!Aimed(g, move, button)))
    BY <1>3, <2>1 DEF HU!game_loop
  <2>4. CASE game' = [game EXCEPT !.phase = "splash"]
    <3>1. /\ game' \in HunterGame
          /\ game'.alive = game.alive /\ game'.x = game.x /\ game'.y = game.y
          /\ game'.monsters = game.monsters
          /\ game'.hit = game.hit /\ game'.dead = game.dead /\ game'.fin = game.fin
      BY <2>4 DEF HunterRules, HunterGame
    <3> QED
      BY <3>1, HunterSame
  <2> QED
    BY <2>2, <2>3, <2>4
<1> QED
  BY <1>1, <1>2, <1>3

-----------------------------------------------------------------------------
(* Skate.                                                                  *)

SkateFields == {"phase", "x", "y", "fly", "jump", "delay", "trick", "slide", "combo",
                "tmp", "box", "freq", "timer1", "timer2", "scroll"}
SkateTypes(g) ==
    /\ DOMAIN g = SkateFields
    /\ g.fly \in BOOLEAN /\ g.slide \in BOOLEAN
    /\ g.delay \in Nat /\ g.combo \in Nat /\ g.tmp \in Nat

\* What holds between any two statements of a frame.
SkateCounts(g) ==
    /\ SkateTypes(g)
    /\ g.trick = "CRASH" => g.tmp = 0 /\ g.combo = 0
    /\ SKATE.SlideWorth * g.combo <= g.tmp
\* What holds from the landing on, and at the end of the frame.
SkateLands(g) == ~g.fly /\ g.delay > 0 => g.trick = "CRASH"
SkatePays(g) == ~g.fly /\ ~g.slide /\ g.delay = 0 => g.tmp = 0 /\ g.combo = 0
SkateRules(g) == SkateCounts(g) /\ SkateLands(g) /\ SkatePays(g)

\* One trick more, with its points.
LEMMA SkateWorth ==
    ASSUME NEW worth \in Nat, NEW combo \in Nat, NEW tmp \in Nat,
           SKATE.SlideWorth <= worth, SKATE.SlideWorth * combo <= tmp
    PROVE  /\ SKATE.SlideWorth * (combo + 1) <= tmp + worth
           /\ SKATE.SlideWorth * combo <= tmp + worth
<1>1. PICK s \in Nat : s = SKATE.SlideWorth
  BY SkateAssumption
<1>2. s * (combo + 1) = s * combo + s
  BY <1>1
<1>3. PICK c \in Int : c = s * combo
  BY <1>1
<1> QED
  BY <1>1, <1>2, <1>3

\* The rest of the record is no matter.
LEMMA SkateSame ==
    ASSUME NEW g, NEW h, DOMAIN h = DOMAIN g,
           h.trick = g.trick, h.fly = g.fly, h.slide = g.slide, h.delay = g.delay,
           h.combo = g.combo, h.tmp = g.tmp
    PROVE  /\ SkateCounts(g) => SkateCounts(h)
           /\ SkateRules(g) => SkateRules(h)
  BY DEF SkateCounts, SkateTypes, SkateRules, SkateLands, SkatePays

\* The new game.
LEMMA SkateBegins == SkateRules(SK!New)
<1>1. /\ DOMAIN SK!New = SkateFields
      /\ SK!New.fly = FALSE /\ SK!New.slide = FALSE /\ SK!New.delay = 0
      /\ SK!New.combo = 0 /\ SK!New.tmp = 0 /\ SK!New.trick = "RUN"
  BY DEF SK!New, SkateFields
<1>2. SKATE.SlideWorth * 0 = 0
  BY SkateAssumption
<1>3. PICK g : g = SK!New
  OBVIOUS
<1>4. /\ DOMAIN g = SkateFields
      /\ g.fly = FALSE /\ g.slide = FALSE /\ g.delay = 0
      /\ g.combo = 0 /\ g.tmp = 0 /\ g.trick = "RUN"
  BY <1>1, <1>3
<1>5. g.fly \in BOOLEAN /\ g.slide \in BOOLEAN
  BY <1>4, Zenon
<1>6. SkateTypes(g) /\ SKATE.SlideWorth * g.combo <= g.tmp
  BY <1>2, <1>4, <1>5 DEF SkateTypes
<1>7. g.trick # "CRASH" /\ ~(g.delay > 0)
  BY <1>4
<1> QED
  BY <1>3, <1>4, <1>6, <1>7 DEF SkateRules, SkateCounts, SkateLands, SkatePays

\* A trick in the air.
LEMMA SkateTricked ==
    ASSUME NEW g, SkateCounts(g), NEW trick \in {"ROTATE", "FLIP"}, NEW delay \in Nat,
           NEW worth \in Nat, SKATE.SlideWorth <= worth
    PROVE  SkateCounts(SK!Tricked(g, trick, delay, worth))
<1>1. PICK h : h = SK!Tricked(g, trick, delay, worth)
  OBVIOUS
<1>2. CASE g.fly
  <2>1. h = [g EXCEPT !.delay = delay, !.trick = trick, !.combo = g.combo + 1,
                      !.tmp = g.tmp + worth]
    BY <1>1, <1>2 DEF SK!Tricked, SkateCounts, SkateTypes, SkateFields
  <2>2. /\ DOMAIN h = SkateFields
        /\ h.fly = g.fly /\ h.slide = g.slide /\ h.delay = delay /\ h.trick = trick
        /\ h.combo = g.combo + 1 /\ h.tmp = g.tmp + worth
    BY <2>1 DEF SkateCounts, SkateTypes, SkateFields
  <2>3. /\ g.combo \in Nat /\ g.tmp \in Nat /\ SKATE.SlideWorth * g.combo <= g.tmp
        /\ g.fly \in BOOLEAN /\ g.slide \in BOOLEAN
    BY DEF SkateCounts, SkateTypes
  <2>4. SKATE.SlideWorth * (g.combo + 1) <= g.tmp + worth
    BY <2>3, SkateWorth
  <2>5. SKATE.SlideWorth * h.combo <= h.tmp
    BY <2>2, <2>4
  <2>6. h.trick # "CRASH"
    BY <2>2
  <2>7. SkateTypes(h)
    BY <2>2, <2>3 DEF SkateTypes
  <2> QED
    BY <1>1, <2>5, <2>6, <2>7 DEF SkateCounts
<1>3. CASE ~g.fly
  BY <1>3 DEF SK!Tricked
<1> QED
  BY <1>2, <1>3

\* A slide.
LEMMA SkateSlide ==
    ASSUME NEW g, SkateCounts(g)
    PROVE  SkateCounts(SK!skater_slide(g))
<1>1. PICK h : h = SK!skater_slide(g)
  OBVIOUS
<1>2. CASE h = g
  BY <1>1, <1>2
<1>3. CASE h # g
  <2>1. PICK combo : combo = IF g.trick # "SLIDE" /\ ~g.fly THEN g.combo + 1 ELSE g.combo
    OBVIOUS
  <2>2. h = [g EXCEPT !.slide = TRUE, !.trick = "SLIDE", !.tmp = g.tmp + SKATE.SlideWorth,
                      !.combo = combo]
    <3>1. g.combo = g["combo"] /\ DOMAIN g = SkateFields
      BY DEF SkateCounts, SkateTypes
    <3> QED
      BY <1>1, <1>3, <2>1, <3>1 DEF SK!skater_slide, SkateFields
  <2>3. /\ DOMAIN h = SkateFields
        /\ h.fly = g.fly /\ h.slide = TRUE /\ h.delay = g.delay /\ h.trick = "SLIDE"
        /\ h.combo = combo /\ h.tmp = g.tmp + SKATE.SlideWorth
    BY <2>2 DEF SkateCounts, SkateTypes, SkateFields
  <2>4. /\ g.combo \in Nat /\ g.tmp \in Nat /\ SKATE.SlideWorth * g.combo <= g.tmp
        /\ g.fly \in BOOLEAN /\ g.slide \in BOOLEAN /\ g.delay \in Nat
        /\ SKATE.SlideWorth \in Nat
    BY SkateAssumption DEF SkateCounts, SkateTypes
  <2>5. /\ SKATE.SlideWorth * (g.combo + 1) <= g.tmp + SKATE.SlideWorth
        /\ SKATE.SlideWorth * g.combo <= g.tmp + SKATE.SlideWorth
    BY <2>4, SkateWorth
  <2>6. combo = g.combo + 1 \/ combo = g.combo
    BY <2>1
  <2>7. combo \in Nat /\ SKATE.SlideWorth * combo <= g.tmp + SKATE.SlideWorth
    BY <2>4, <2>5, <2>6
  <2>8. SkateTypes(h)
    <3>1. h.fly \in BOOLEAN /\ h.slide \in BOOLEAN
      BY <2>3, <2>4, Zenon
    <3>2. DOMAIN h = SkateFields /\ h.delay \in Nat /\ h.combo \in Nat /\ h.tmp \in Nat
      BY <2>3, <2>4, <2>7
    <3> QED
      BY <3>1, <3>2 DEF SkateTypes
  <2>9. SKATE.SlideWorth * h.combo <= h.tmp
    BY <2>3, <2>7
  <2> QED
    BY <1>1, <2>3, <2>8, <2>9 DEF SkateCounts
<1> QED
  BY <1>2, <1>3

\* A key.
LEMMA SkatePlayed ==
    ASSUME NEW g, SkateCounts(g), NEW k
    PROVE  SkateCounts(SK!Played(g, k))
<1>1. DOMAIN g = SkateFields
  BY DEF SkateCounts, SkateTypes
<1>2. ASSUME NEW v PROVE SkateCounts([g EXCEPT !.jump = v]) /\ SkateCounts([g EXCEPT !.freq = v])
  <2>1. PICK a : a = [g EXCEPT !.jump = v]
    OBVIOUS
  <2>2. PICK b : b = [g EXCEPT !.freq = v]
    OBVIOUS
  <2>3. /\ DOMAIN a = DOMAIN g /\ a.trick = g.trick /\ a.fly = g.fly /\ a.slide = g.slide
        /\ a.delay = g.delay /\ a.combo = g.combo /\ a.tmp = g.tmp
    BY <1>1, <2>1 DEF SkateFields
  <2>4. /\ DOMAIN b = DOMAIN g /\ b.trick = g.trick /\ b.fly = g.fly /\ b.slide = g.slide
        /\ b.delay = g.delay /\ b.combo = g.combo /\ b.tmp = g.tmp
    BY <1>1, <2>2 DEF SkateFields
  <2> QED
    BY <2>1, <2>2, <2>3, <2>4, SkateSame
<1>3. /\ SkateCounts(SK!Tricked(g, "ROTATE", SKATE.Rotate, SKATE.RotateWorth))
      /\ SkateCounts(SK!Tricked(g, "FLIP", SKATE.Flip, SKATE.FlipWorth))
  <2>1. /\ SKATE.Rotate \in Nat /\ SKATE.RotateWorth \in Nat
        /\ SKATE.Flip \in Nat /\ SKATE.FlipWorth \in Nat
        /\ SKATE.SlideWorth <= SKATE.FlipWorth /\ SKATE.SlideWorth <= SKATE.RotateWorth
    BY SkateAssumption
  <2> QED
    BY <2>1, SkateTricked
<1>4. SkateCounts(SK!skater_slide(g))
  BY SkateSlide
<1>5. PICK h : h = SK!Played(g, k)
  OBVIOUS
<1>6. \/ h = g
      \/ \E v : h = [g EXCEPT !.jump = v]
      \/ \E v : h = [g EXCEPT !.freq = v]
      \/ h = SK!skater_slide(g)
      \/ h = SK!Tricked(g, "ROTATE", SKATE.Rotate, SKATE.RotateWorth)
      \/ h = SK!Tricked(g, "FLIP", SKATE.Flip, SKATE.FlipWorth)
  <2>1. CASE g.delay > 0
    BY <1>5, <2>1 DEF SK!Played
  <2>2. CASE ~(g.delay > 0)
    <3>1. CASE k = "space" /\ ~g.fly /\ g.jump = 0
      <4>1. h = [g EXCEPT !.jump = g.y - SKATE.JumpLow
                                   - SKATE.JumpGain * (SKATE.Stopped - g.freq)]
        BY <1>5, <2>2, <3>1 DEF SK!Played
      <4> QED
        BY <4>1, Zenon
    <3>2. CASE k = "right"
      <4>1. h = [g EXCEPT !.freq = IF g.freq < 2 THEN 0 ELSE g.freq - 2]
        BY <1>1, <1>5, <2>2, <3>2 DEF SK!Played, SkateFields
      <4> QED
        BY <4>1, Zenon
    <3>3. CASE k \in {"down", "left", "up"}
      BY <1>5, <2>2, <3>3 DEF SK!Played
    <3>4. CASE ~(k = "space" /\ ~g.fly /\ g.jump = 0) /\ k \notin {"right", "down", "left", "up"}
      BY <1>5, <2>2, <3>4 DEF SK!Played
    <3> QED
      BY <3>1, <3>2, <3>3, <3>4
  <2> QED
    BY <2>1, <2>2
<1> QED
  BY <1>2, <1>3, <1>4, <1>5, <1>6

\* Where the skater is, and the rail that is left.
LEMMA SkateBoxed ==
    ASSUME NEW g, SkateCounts(g), NEW pos
    PROVE  SkateCounts(SK!Boxed(g, pos))
<1>1. PICK h : h = SK!Boxed(g, pos)
  OBVIOUS
<1>2. /\ DOMAIN g = SkateFields
      /\ g.fly \in BOOLEAN /\ g.slide \in BOOLEAN
      /\ g.delay \in Nat /\ g.combo \in Nat /\ g.tmp \in Nat
  BY DEF SkateCounts, SkateTypes
<1>3. PICK slide \in BOOLEAN : slide = (g.slide /\ SK!get_park(pos) = "BOX_RAIL")
  OBVIOUS
<1>4. h = [g EXCEPT !.box = SK!get_park(pos), !.slide = slide]
  BY <1>1, <1>2, <1>3 DEF SK!Boxed, SkateFields
<1>5. /\ DOMAIN h = SkateFields /\ h.fly = g.fly /\ h.slide = slide /\ h.delay = g.delay
      /\ h.combo = g.combo /\ h.tmp = g.tmp /\ h.trick = g.trick
  BY <1>2, <1>4 DEF SkateFields
<1>6. h.slide \in BOOLEAN
  BY <1>3, <1>5
<1>7. SkateTypes(h)
  BY <1>2, <1>5, <1>6 DEF SkateTypes
<1> QED
  BY <1>1, <1>5, <1>7 DEF SkateCounts

\* A crash, with everything lost.
LEMMA SkateCrash ==
    ASSUME NEW g, SkateCounts(g)
    PROVE  SkateCounts(SK!skater_crash(g)) /\ SkateLands(SK!skater_crash(g))
<1>1. PICK h : h = SK!skater_crash(g)
  OBVIOUS
<1>2. /\ DOMAIN g = SkateFields
      /\ g.fly \in BOOLEAN /\ g.slide \in BOOLEAN
  BY DEF SkateCounts, SkateTypes
<1>3. /\ DOMAIN h = SkateFields /\ h.fly = g.fly /\ h.slide = g.slide
      /\ h.delay = SKATE.Crash /\ h.combo = 0 /\ h.tmp = 0 /\ h.trick = "CRASH"
  BY <1>1, <1>2 DEF SK!skater_crash, SkateFields
<1>4. SKATE.Crash \in Nat /\ SKATE.SlideWorth * 0 = 0
  BY SkateAssumption
<1>5. SKATE.SlideWorth * h.combo <= h.tmp
  BY <1>3, <1>4
<1>6. SkateTypes(h)
  BY <1>2, <1>3, <1>4 DEF SkateTypes
<1> QED
  BY <1>1, <1>3, <1>5, <1>6 DEF SkateCounts, SkateLands

\* In the air or on the ground: there a trick that has not ended is a crash.
LEMMA SkateLanded ==
    ASSUME NEW g, SkateCounts(g), NEW floor
    PROVE  /\ SkateCounts(SK!skater_height_update(g, floor))
           /\ SkateLands(SK!skater_height_update(g, floor))
<1>1. DOMAIN g = SkateFields
  BY DEF SkateCounts, SkateTypes
<1>2. PICK y : y = IF g.jump # 0 THEN g.y - 2
                   ELSE IF g.y < floor THEN g.y + 2 ELSE floor
  OBVIOUS
<1>3. PICK jump : jump = IF y <= g.jump THEN 0 ELSE g.jump
  OBVIOUS
<1>4. PICK fly \in BOOLEAN : fly <=> y < floor
  OBVIOUS
<1>5. PICK at : at = [g EXCEPT !.y = y, !.fly = fly, !.jump = jump]
  OBVIOUS
<1>6. (y < floor) = fly
  BY <1>4
<1>7. PICK h : h = SK!skater_height_update(g, floor)
  OBVIOUS
<1>8. h = IF ~at.fly /\ at.delay > 0 /\ at.trick # "CRASH" THEN SK!skater_crash(at) ELSE at
  <2>1. at = [g EXCEPT !.y = IF g.jump # 0 THEN g.y - 2
                             ELSE IF g.y < floor THEN g.y + 2 ELSE floor,
                       !.fly = (IF g.jump # 0 THEN g.y - 2
                                ELSE IF g.y < floor THEN g.y + 2 ELSE floor) < floor,
                       !.jump = IF (IF g.jump # 0 THEN g.y - 2
                                    ELSE IF g.y < floor THEN g.y + 2 ELSE floor) <= g.jump
                                THEN 0 ELSE g.jump]
    BY <1>2, <1>3, <1>5, <1>6, Zenon
  <2> QED
    BY <1>1, <1>7, <2>1 DEF SK!skater_height_update, SkateFields
<1>9. /\ DOMAIN at = SkateFields /\ at.fly = fly /\ at.slide = g.slide /\ at.delay = g.delay
      /\ at.combo = g.combo /\ at.tmp = g.tmp /\ at.trick = g.trick
  BY <1>1, <1>5 DEF SkateFields
<1>10. SkateCounts(at)
  <2>1. at.fly \in BOOLEAN
    BY <1>4, <1>9
  <2> QED
    BY <1>9, <2>1 DEF SkateCounts, SkateTypes
<1> QED
  BY <1>7, <1>8, <1>10, SkateCrash DEF SkateLands

\* With nothing left of a trick there is another, which is no crash.
LEMMA SkateAnim ==
    ASSUME NEW g, SkateCounts(g), SkateLands(g)
    PROVE  SkateCounts(SK!skater_anim(g)) /\ SkateLands(SK!skater_anim(g))
<1>1. /\ DOMAIN g = SkateFields
      /\ g.fly \in BOOLEAN /\ g.slide \in BOOLEAN
      /\ g.delay \in Nat /\ g.combo \in Nat /\ g.tmp \in Nat
  BY DEF SkateCounts, SkateTypes
<1>2. PICK delay \in Nat : /\ delay = IF g.delay > 0 THEN g.delay - 1 ELSE 0
                           /\ delay > 0 => g.delay > 0
  <2>1. /\ (IF g.delay > 0 THEN g.delay - 1 ELSE 0) \in Nat
        /\ (IF g.delay > 0 THEN g.delay - 1 ELSE 0) > 0 => g.delay > 0
    BY <1>1
  <2> QED
    BY <2>1
<1>3. PICK trick :
          trick = CASE delay > 0 -> g.trick
                    [] delay = 0 /\ g.fly -> "NONE"
                    [] delay = 0 /\ ~g.fly /\ g.box = "BOX_UP" -> "UP"
                    [] delay = 0 /\ ~g.fly /\ g.box = "BOX_RAIL" /\ g.slide -> g.trick
                    [] OTHER -> IF g.freq < SKATE.Stopped THEN "RUN" ELSE "NONE"
  OBVIOUS
<1>4. PICK h : h = SK!skater_anim(g)
  OBVIOUS
<1>5. h = [g EXCEPT !.delay = delay, !.trick = trick]
  BY <1>2, <1>3, <1>4 DEF SK!skater_anim
<1>6. trick \in {g.trick, "NONE", "UP", "RUN"} /\ (delay > 0 => trick = g.trick)
  BY <1>2, <1>3
<1>7. /\ DOMAIN h = SkateFields /\ h.fly = g.fly /\ h.slide = g.slide /\ h.delay = delay
      /\ h.combo = g.combo /\ h.tmp = g.tmp /\ h.trick = trick
  BY <1>1, <1>5 DEF SkateFields
<1>8. SkateTypes(h)
  BY <1>1, <1>2, <1>7 DEF SkateTypes
<1>9. SkateLands(h)
  BY <1>2, <1>6, <1>7 DEF SkateLands
<1> QED
  BY <1>4, <1>6, <1>7, <1>8, <1>9 DEF SkateCounts

\* All is paid.
LEMMA SkatePaid ==
    ASSUME NEW g, SkateCounts(g), SkateLands(g)
    PROVE  SkateRules(SK!Paid(g))
<1>1. /\ DOMAIN g = SkateFields
      /\ g.fly \in BOOLEAN /\ g.slide \in BOOLEAN
      /\ g.delay \in Nat /\ g.combo \in Nat /\ g.tmp \in Nat
  BY DEF SkateCounts, SkateTypes
<1>2. PICK h : h = SK!Paid(g)
  OBVIOUS
<1>3. CASE g.delay = 0 /\ ~g.slide /\ ~g.fly /\ g.trick # "CRASH"
  <2>1. h = [g EXCEPT !.combo = 0, !.tmp = 0]
    BY <1>2, <1>3 DEF SK!Paid
  <2>2. /\ DOMAIN h = SkateFields /\ h.fly = g.fly /\ h.slide = g.slide /\ h.delay = g.delay
        /\ h.combo = 0 /\ h.tmp = 0 /\ h.trick = g.trick
    BY <1>1, <2>1 DEF SkateFields
  <2>3. SKATE.SlideWorth * h.combo <= h.tmp
    <3>1. SKATE.SlideWorth * 0 = 0
      BY SkateAssumption
    <3> QED
      BY <2>2, <3>1
  <2>4. SkateTypes(h)
    BY <1>1, <2>2 DEF SkateTypes
  <2>5. ~(h.delay > 0)
    BY <1>3, <2>2
  <2> QED
    BY <1>2, <2>2, <2>3, <2>4, <2>5 DEF SkateRules, SkateCounts, SkateLands, SkatePays
<1>4. CASE ~(g.delay = 0 /\ ~g.slide /\ ~g.fly /\ g.trick # "CRASH")
  <2>1. SK!Paid(g) = g
    BY <1>4 DEF SK!Paid
  <2> QED
    BY <1>4, <2>1 DEF SkateRules, SkateCounts, SkatePays
<1> QED
  BY <1>3, <1>4

\* The timers, the speed and the park are no matter.
LEMMA SkateOn ==
    ASSUME NEW g, SkateRules(g)
    PROVE  SkateRules(SK!Scrolled(SK!Slowed(SK!Ticked(g))))
<1>1. ASSUME NEW a, SkateRules(a), NEW h, NEW v, NEW w,
             \/ h = a
             \/ h = [a EXCEPT !.timer1 = v, !.timer2 = w]
             \/ h = [a EXCEPT !.timer1 = v, !.freq = w]
             \/ h = [a EXCEPT !.timer2 = v]
             \/ h = [[a EXCEPT !.timer2 = v] EXCEPT !.x = w]
             \/ h = [[a EXCEPT !.timer2 = v] EXCEPT !.scroll = w]
      PROVE  SkateRules(h)
  <2>1. DOMAIN a = SkateFields
    BY <1>1 DEF SkateRules, SkateCounts, SkateTypes
  <2>2. /\ DOMAIN h = DOMAIN a /\ h.trick = a.trick /\ h.fly = a.fly /\ h.slide = a.slide
        /\ h.delay = a.delay /\ h.combo = a.combo /\ h.tmp = a.tmp
    BY <1>1, <2>1 DEF SkateFields
  <2> QED
    BY <1>1, <2>2, SkateSame
<1>2. ASSUME NEW a, SkateRules(a) PROVE SkateRules(SK!Ticked(a))
  <2>1. DOMAIN a = SkateFields
    BY <1>2 DEF SkateRules, SkateCounts, SkateTypes
  <2>2. PICK v, w : /\ v = IF a.timer1 < SKATE.Slowing THEN a.timer1 + 1 ELSE a.timer1
                    /\ w = IF a.timer2 < SKATE.Stopped THEN a.timer2 + 1 ELSE a.timer2
    OBVIOUS
  <2>3. SK!Ticked(a) = [a EXCEPT !.timer1 = v, !.timer2 = w]
    BY <2>1, <2>2 DEF SK!Ticked, SkateFields
  <2> QED
    BY <1>1, <1>2, <2>3
<1>3. ASSUME NEW a, SkateRules(a) PROVE SkateRules(SK!Slowed(a))
  <2>1. DOMAIN a = SkateFields
    BY <1>3 DEF SkateRules, SkateCounts, SkateTypes
  <2>2. PICK w : w = IF a.freq < SKATE.Stopped THEN a.freq + 1 ELSE SKATE.Stopped
    OBVIOUS
  <2>3. SK!Slowed(a) = a \/ SK!Slowed(a) = [a EXCEPT !.timer1 = 0, !.freq = w]
    BY <2>1, <2>2 DEF SK!Slowed, SkateFields
  <2> QED
    BY <1>1, <1>3, <2>3
<1>4. ASSUME NEW a, SkateRules(a) PROVE SkateRules(SK!Scrolled(a))
  <2>1. DOMAIN a = SkateFields
    BY <1>4 DEF SkateRules, SkateCounts, SkateTypes
  <2>2. PICK h : h = SK!Scrolled(a)
    OBVIOUS
  <2>3. PICK u, w : u = a.x + SKATE.Step /\ w = SK!Around(a.scroll + SKATE.Step)
    OBVIOUS
  <2>4. \/ h = a
        \/ h = [a EXCEPT !.timer2 = 0]
        \/ h = [[a EXCEPT !.timer2 = 0] EXCEPT !.x = u]
        \/ h = [[a EXCEPT !.timer2 = 0] EXCEPT !.scroll = w]
    BY <2>1, <2>2, <2>3 DEF SK!Scrolled, SkateFields
  <2>5. \/ h = a
        \/ \E v : h = [a EXCEPT !.timer2 = v]
        \/ \E v, y : h = [[a EXCEPT !.timer2 = v] EXCEPT !.x = y]
        \/ \E v, y : h = [[a EXCEPT !.timer2 = v] EXCEPT !.scroll = y]
    BY <2>4, Zenon
  <2> QED
    BY <1>1, <1>4, <2>2, <2>5
<1> QED
  BY <1>2, <1>3, <1>4

\* Every move of Skate keeps the rules.
LEMMA SkateNext ==
    ASSUME SkateRules(game), SK!Next
    PROVE  SkateRules(game')
<1>1. PICK k \in SK!Keys : SK!splash_screen(k) \/ SK!game_loop(k)
  BY DEF SK!Next
<1>2. CASE SK!splash_screen(k)
  BY <1>2, SkateBegins DEF SK!splash_screen
<1>3. CASE SK!game_loop(k)
  <2>1. CASE game' = [game EXCEPT !.phase = "splash"]
    <3>1. DOMAIN game = SkateFields
      BY DEF SkateRules, SkateCounts, SkateTypes
    <3>2. /\ DOMAIN game' = DOMAIN game /\ game'.trick = game.trick /\ game'.fly = game.fly
          /\ game'.slide = game.slide /\ game'.delay = game.delay
          /\ game'.combo = game.combo /\ game'.tmp = game.tmp
      BY <2>1, <3>1 DEF SkateFields
    <3> QED
      BY <3>2, SkateSame
  <2>2. CASE game' # [game EXCEPT !.phase = "splash"]
    <3>1. PICK g, max_x, on, floor, moved :
              /\ g = SK!Played(game, k)
              /\ on = SK!Boxed(g, max_x)
              /\ moved = SK!skater_height_update(on, floor)
              /\ game' = SK!Scrolled(SK!Slowed(SK!Ticked(SK!Paid(SK!skater_anim(moved)))))
      BY <1>3, <2>2, Zenon DEF SK!game_loop
    <3>2. SkateCounts(g)
      BY <3>1, SkatePlayed DEF SkateRules
    <3>3. SkateCounts(on)
      BY <3>1, <3>2, SkateBoxed
    <3>4. SkateCounts(moved) /\ SkateLands(moved)
      BY <3>1, <3>3, SkateLanded
    <3>5. SkateRules(SK!Paid(SK!skater_anim(moved)))
      BY <3>4, SkateAnim, SkatePaid
    <3> QED
      BY <3>1, <3>5, SkateOn
  <2> QED
    BY <2>1, <2>2
<1> QED
  BY <1>1, <1>2, <1>3

-----------------------------------------------------------------------------
(* Vaders.                                                                 *)

VadersFields == {"phase", "standby", "fin", "win", "p", "w", "dw", "shot", "bullet",
                 "mdx", "mcnt", "dead", "kill", "monsters"}
OnScreen(at) == at \in (0..(VADERS.Width - 1)) \X (1..(VADERS.Height - 1))
Monsters(m) ==
    /\ DOMAIN m = 1..VADERS.NbMonsters
    /\ \A i \in 1..VADERS.NbMonsters :
          DOMAIN m[i] = {"x", "y", "alive"} /\ m[i].alive \in BOOLEAN
Dead(m) == {i \in 1..VADERS.NbMonsters : ~m[i].alive}

VadersTypes(g) ==
    /\ DOMAIN g = VadersFields
    /\ g.standby \in BOOLEAN /\ g.fin \in BOOLEAN /\ g.win \in BOOLEAN /\ g.kill \in BOOLEAN
    /\ Monsters(g.monsters)

\* The player is whole on the screen, where shots and bullets are to be.
VadersAims(g) ==
    /\ g.p \in VADERS.Half..(VADERS.Width - 1 - VADERS.Half)
    /\ g.shot = VA!None \/ OnScreen(g.shot)
    /\ g.bullet = VA!None \/ OnScreen(g.bullet)
VadersCounts(g) ==
    /\ g.dead = Cardinality(Dead(g.monsters))
    /\ g.kill <=> g.dead = VADERS.NbMonsters
    /\ g.win => g.fin /\ g.kill
VadersRules(g) == VadersTypes(g) /\ VadersAims(g) /\ VadersCounts(g)

\* The lengths are integers.
LEMMA VadersLengths ==
    /\ VADERS.Width \in Int /\ VADERS.Height \in Int
    /\ VADERS.Half \in Nat /\ VADERS.Step \in Nat /\ VADERS.Cols \in Nat
    /\ VADERS.NbMonsters \in Nat /\ VADERS.NbMonsters >= 1
    /\ 2 * VADERS.Half < VADERS.Width
    /\ VADERS.BoxY \in Int /\ VADERS.BoxY >= 1 /\ VADERS.BoxY <= VADERS.Height - 1
    /\ VADERS.Muzzle \in Int /\ VADERS.Muzzle >= 1 /\ VADERS.Muzzle <= VADERS.Height - 1
  BY VadersAssumption

\* The new game: nobody is dead.
LEMMA VadersBegins == VadersRules(VA!New)
<1>1. PICK g : g = VA!New
  OBVIOUS
<1>2. /\ DOMAIN g = VadersFields
      /\ g.standby = FALSE /\ g.fin = FALSE /\ g.win = FALSE /\ g.kill = FALSE
      /\ g.p = VADERS.Width \div 2 /\ g.shot = VA!None /\ g.bullet = VA!None /\ g.dead = 0
      /\ g.monsters = [i \in 1..VADERS.NbMonsters |-> VA!Monster(i)]
  BY <1>1 DEF VA!New, VadersFields
<1>3. \A i \in 1..VADERS.NbMonsters :
         DOMAIN VA!Monster(i) = {"x", "y", "alive"} /\ VA!Monster(i).alive = TRUE
  BY DEF VA!Monster
<1>4. Monsters(g.monsters) /\ Dead(g.monsters) = {}
  BY <1>2, <1>3 DEF Monsters, Dead
<1>5. VadersTypes(g)
  BY <1>2, <1>4 DEF VadersTypes
<1>6. VADERS.Width \div 2 \in VADERS.Half..(VADERS.Width - 1 - VADERS.Half)
  BY VadersLengths
<1>7. VadersAims(g)
  BY <1>2, <1>6 DEF VadersAims
<1>8. VadersCounts(g)
  <2>1. g.dead = Cardinality(Dead(g.monsters))
    BY <1>2, <1>4, FS_EmptySet
  <2>2. g.dead # VADERS.NbMonsters
    BY <1>2, VadersLengths
  <2> QED
    BY <1>2, <2>1, <2>2 DEF VadersCounts
<1> QED
  BY <1>1, <1>5, <1>7, <1>8 DEF VadersRules

\* Where the seine and the monsters are is no matter, nor a pause.
LEMMA VadersSame ==
    ASSUME NEW g, VadersRules(g), NEW h, DOMAIN h = DOMAIN g, h.standby \in BOOLEAN,
           h.fin = g.fin, h.win = g.win, h.kill = g.kill, h.dead = g.dead,
           h.p = g.p, h.shot = g.shot, h.bullet = g.bullet, h.monsters = g.monsters
    PROVE  VadersRules(h)
  BY DEF VadersRules, VadersTypes, VadersAims, VadersCounts

\* A key: a pause, a step that stays on the screen, a bullet.
LEMMA VadersSteered ==
    ASSUME NEW g, VadersRules(g), NEW k
    PROVE  VadersRules(VA!Steered(g, k))
<1>1. DOMAIN g = VadersFields
  BY DEF VadersRules, VadersTypes
<1>2. PICK h : h = VA!Steered(g, k)
  OBVIOUS
<1>3. g.p \in VADERS.Half..(VADERS.Width - 1 - VADERS.Half) /\ g.p \in Int
  BY VadersLengths DEF VadersRules, VadersAims
<1>4. ASSUME NEW p \in VADERS.Half..(VADERS.Width - 1 - VADERS.Half),
             h = [g EXCEPT !.p = p]
      PROVE  VadersRules(h)
  <2>1. /\ DOMAIN h = DOMAIN g /\ h.standby = g.standby /\ h.fin = g.fin /\ h.win = g.win
        /\ h.kill = g.kill /\ h.dead = g.dead /\ h.p = p /\ h.shot = g.shot
        /\ h.bullet = g.bullet /\ h.monsters = g.monsters
    BY <1>1, <1>4 DEF VadersFields
  <2> QED
    BY <2>1 DEF VadersRules, VadersTypes, VadersAims, VadersCounts
<1>5. CASE k = "esc"
  <2>1. h = [g EXCEPT !.standby = ~g.standby]
    BY <1>2, <1>5 DEF VA!Steered
  <2>2. PICK b \in BOOLEAN : h = [g EXCEPT !.standby = b]
    <3>1. (~g.standby) \in BOOLEAN
      OBVIOUS
    <3> QED
      BY <2>1, <3>1
  <2>3. /\ DOMAIN h = DOMAIN g /\ h.standby = b /\ h.fin = g.fin /\ h.win = g.win
        /\ h.kill = g.kill /\ h.dead = g.dead /\ h.p = g.p /\ h.shot = g.shot
        /\ h.bullet = g.bullet /\ h.monsters = g.monsters
    BY <1>1, <2>2 DEF VadersFields
  <2>4. h.standby \in BOOLEAN
    BY <2>2, <2>3
  <2> QED
    BY <1>2, <2>3, <2>4, VadersSame
<1>6. CASE k # "esc" /\ VA!Active(g) /\ k = "left" /\ g.p > VADERS.Half + VADERS.Step
  <2>1. h = [g EXCEPT !.p = g.p - VADERS.Step]
    BY <1>1, <1>2, <1>6 DEF VA!Steered, VadersFields
  <2>2. g.p - VADERS.Step \in VADERS.Half..(VADERS.Width - 1 - VADERS.Half)
    BY <1>3, <1>6, VadersLengths
  <2> QED
    BY <1>2, <1>4, <2>1, <2>2
<1>7. CASE k # "esc" /\ VA!Active(g) /\ k = "right"
           /\ g.p < VADERS.Width - (VADERS.Half + VADERS.Step)
  <2>1. h = [g EXCEPT !.p = g.p + VADERS.Step]
    BY <1>1, <1>2, <1>7 DEF VA!Steered, VadersFields
  <2>2. g.p + VADERS.Step \in VADERS.Half..(VADERS.Width - 1 - VADERS.Half)
    BY <1>3, <1>7, VadersLengths
  <2> QED
    BY <1>2, <1>4, <2>1, <2>2
<1>8. CASE k # "esc" /\ VA!Active(g) /\ k = "space" /\ g.bullet = VA!None
  <2>1. h = [g EXCEPT !.bullet = <<g.p, VADERS.Muzzle>>]
    BY <1>2, <1>8 DEF VA!Steered
  <2>2. OnScreen(<<g.p, VADERS.Muzzle>>)
    <3>1. g.p \in 0..(VADERS.Width - 1) /\ VADERS.Muzzle \in 1..(VADERS.Height - 1)
      BY <1>3, VadersLengths
    <3> QED
      BY <3>1 DEF OnScreen
  <2>3. PICK at : at = <<g.p, VADERS.Muzzle>>
    OBVIOUS
  <2>4. h = [g EXCEPT !.bullet = at]
    BY <2>1, <2>3
  <2>5. /\ DOMAIN h = DOMAIN g /\ h.standby = g.standby /\ h.fin = g.fin /\ h.win = g.win
        /\ h.kill = g.kill /\ h.dead = g.dead /\ h.p = g.p /\ h.shot = g.shot
        /\ h.bullet = at /\ h.monsters = g.monsters
    BY <1>1, <2>4 DEF VadersFields
  <2> QED
    BY <1>2, <2>2, <2>3, <2>5 DEF VadersRules, VadersTypes, VadersAims, VadersCounts
<1>9. CASE /\ k # "esc"
           /\ \/ ~VA!Active(g)
              \/ /\ ~(k = "left" /\ g.p > VADERS.Half + VADERS.Step)
                 /\ ~(k = "right" /\ g.p < VADERS.Width - (VADERS.Half + VADERS.Step))
                 /\ ~(k = "space" /\ g.bullet = VA!None)
  <2>1. h = g
    BY <1>2, <1>9 DEF VA!Steered
  <2> QED
    BY <1>2, <2>1
<1> QED
  BY <1>5, <1>6, <1>7, <1>8, <1>9

\* The seine.
LEMMA VadersSeine ==
    ASSUME NEW g, VadersRules(g)
    PROVE  VadersRules(VA!SeineMoved(g))
<1>1. DOMAIN g = VadersFields
  BY DEF VadersRules, VadersTypes
<1>2. PICK dw : dw = IF g.w >= VADERS.Width - 1 - VADERS.BoxX \/ g.w <= 1 THEN -g.dw ELSE g.dw
  OBVIOUS
<1>3. PICK w : w = g.w + dw
  OBVIOUS
<1>4. PICK h : h = VA!SeineMoved(g)
  OBVIOUS
<1>5. h = g \/ h = [g EXCEPT !.dw = dw, !.w = w]
  BY <1>1, <1>2, <1>3, <1>4 DEF VA!SeineMoved, VadersFields
<1>6. /\ DOMAIN h = DOMAIN g /\ h.standby = g.standby /\ h.fin = g.fin /\ h.win = g.win
      /\ h.kill = g.kill /\ h.dead = g.dead /\ h.p = g.p /\ h.shot = g.shot
      /\ h.bullet = g.bullet /\ h.monsters = g.monsters
  BY <1>1, <1>5 DEF VadersFields
<1>7. h.standby \in BOOLEAN
  BY <1>6 DEF VadersRules, VadersTypes
<1> QED
  BY <1>4, <1>6, <1>7, VadersSame

\* Who loses has not won.
LEMMA VadersLost ==
    ASSUME NEW g, VadersRules(g)
    PROVE  VadersRules(VA!Lost(g)) /\ VA!Lost(g).monsters = g.monsters
<1>1. DOMAIN g = VadersFields
  BY DEF VadersRules, VadersTypes
<1>2. PICK h : h = VA!Lost(g)
  OBVIOUS
<1>3. /\ DOMAIN h = DOMAIN g /\ h.standby = g.standby /\ h.fin = TRUE /\ h.win = FALSE
      /\ h.kill = g.kill /\ h.dead = g.dead /\ h.p = g.p /\ h.shot = g.shot
      /\ h.bullet = g.bullet /\ h.monsters = g.monsters
  BY <1>1, <1>2 DEF VA!Lost, VadersFields
<1>4. VadersTypes(h)
  BY <1>3 DEF VadersRules, VadersTypes
<1> QED
  BY <1>2, <1>3, <1>4 DEF VadersRules, VadersAims, VadersCounts

\* A shot that moves, ends or begins.
LEMMA VadersShot ==
    ASSUME NEW g, VadersRules(g)
    PROVE  VadersRules(VA!ShotMoved(g))
<1>1. ASSUME NEW a, VadersRules(a), NEW shot, shot = VA!None \/ OnScreen(shot)
      PROVE  VadersRules([a EXCEPT !.shot = shot])
  <2>1. DOMAIN a = VadersFields
    BY <1>1 DEF VadersRules, VadersTypes
  <2>2. PICK h : h = [a EXCEPT !.shot = shot]
    OBVIOUS
  <2>3. /\ DOMAIN h = DOMAIN a /\ h.standby = a.standby /\ h.fin = a.fin /\ h.win = a.win
        /\ h.kill = a.kill /\ h.dead = a.dead /\ h.p = a.p /\ h.shot = shot
        /\ h.bullet = a.bullet /\ h.monsters = a.monsters
    BY <2>1, <2>2 DEF VadersFields
  <2> QED
    BY <1>1, <2>2, <2>3 DEF VadersRules, VadersTypes, VadersAims, VadersCounts
<1>2. PICK h : h = VA!ShotMoved(g)
  OBVIOUS
<1>3. CASE g.shot # VA!None
  <2>1. PICK at : at = IF VA!Active(g) THEN <<g.shot[1], g.shot[2] + VADERS.Step>> ELSE g.shot
    OBVIOUS
  <2>2. at[2] < VADERS.Height => OnScreen(at)
    <3>1. OnScreen(g.shot)
      BY <1>3 DEF VadersRules, VadersAims
    <3>2. PICK x \in 0..(VADERS.Width - 1), y \in 1..(VADERS.Height - 1) : g.shot = <<x, y>>
      BY <3>1 DEF OnScreen
    <3>3. at = <<x, y + VADERS.Step>> \/ at = <<x, y>>
      BY <2>1, <3>2
    <3>4. \A n \in Int : n < VADERS.Height /\ n >= 1 => n \in 1..(VADERS.Height - 1)
      BY VadersLengths
    <3>5. y + VADERS.Step \in Int /\ y + VADERS.Step >= 1
      BY <3>2, VadersLengths
    <3>6. CASE at = <<x, y + VADERS.Step>>
      BY <3>2, <3>4, <3>5, <3>6 DEF OnScreen
    <3>7. CASE at = <<x, y>>
      BY <3>2, <3>7 DEF OnScreen
    <3> QED
      BY <3>3, <3>6, <3>7
  <2>3. PICK y : y = at[2]
    OBVIOUS
  <2>4. ~(y >= VADERS.Height) => y < VADERS.Height
    <3>1. OnScreen(g.shot)
      BY <1>3 DEF VadersRules, VadersAims
    <3>2. g.shot[2] \in Int
      BY <3>1, VadersLengths DEF OnScreen
    <3>3. y \in Int
      BY <2>1, <2>3, <3>2, VadersLengths
    <3> QED
      BY <3>3, VadersLengths
  <2>5. PICK shot : shot = IF y >= VADERS.Height THEN VA!None ELSE at
    OBVIOUS
  <2>6. shot = VA!None \/ OnScreen(shot)
    BY <2>2, <2>3, <2>4, <2>5
  <2>7. h = [VA!Lost(g) EXCEPT !.shot = shot] \/ h = [g EXCEPT !.shot = shot]
    BY <1>2, <1>3, <2>1, <2>3, <2>5 DEF VA!ShotMoved
  <2> QED
    BY <1>1, <1>2, <2>6, <2>7, VadersLost
<1>4. CASE g.shot = VA!None
  <2>1. CASE VA!OverPlayer(g, g.w)
    <3>1. h = [g EXCEPT !.shot = <<g.w, VADERS.BoxY>>]
      BY <1>2, <1>4, <2>1 DEF VA!ShotMoved
    <3>2. g.w \in (g.p - VADERS.Half)..(g.p + VADERS.Half)
      BY <2>1 DEF VA!OverPlayer
    <3>3. g.p \in VADERS.Half..(VADERS.Width - 1 - VADERS.Half)
      BY DEF VadersRules, VadersAims
    <3>4. g.w \in 0..(VADERS.Width - 1)
      BY <3>2, <3>3, VadersLengths
    <3>5. VADERS.BoxY \in 1..(VADERS.Height - 1)
      BY VadersLengths
    <3>6. OnScreen(<<g.w, VADERS.BoxY>>)
      BY <3>4, <3>5 DEF OnScreen
    <3> QED
      BY <1>1, <1>2, <3>1, <3>6
  <2>2. CASE ~VA!OverPlayer(g, g.w)
    BY <1>2, <1>4, <2>2 DEF VA!ShotMoved
  <2> QED
    BY <2>1, <2>2
<1> QED
  BY <1>3, <1>4

\* Monsters move, dead or alive as they were.
LEMMA VadersMonsters ==
    ASSUME NEW g, VadersRules(g)
    PROVE  VadersRules(VA!MonstersMoved(g))
<1>1. ASSUME NEW a, VadersRules(a), NEW m, NEW mdx, NEW mcnt,
             Monsters(m), \A i \in 1..VADERS.NbMonsters : m[i].alive = a.monsters[i].alive
      PROVE  VadersRules([a EXCEPT !.monsters = m, !.mdx = mdx, !.mcnt = mcnt])
  <2>1. DOMAIN a = VadersFields
    BY <1>1 DEF VadersRules, VadersTypes
  <2>2. PICK h : h = [a EXCEPT !.monsters = m, !.mdx = mdx, !.mcnt = mcnt]
    OBVIOUS
  <2>3. /\ DOMAIN h = DOMAIN a /\ h.standby = a.standby /\ h.fin = a.fin /\ h.win = a.win
        /\ h.kill = a.kill /\ h.dead = a.dead /\ h.p = a.p /\ h.shot = a.shot
        /\ h.bullet = a.bullet /\ h.monsters = m
    BY <2>1, <2>2 DEF VadersFields
  <2>4. Dead(m) = Dead(a.monsters)
    BY <1>1 DEF Dead
  <2> QED
    BY <1>1, <2>2, <2>3, <2>4 DEF VadersRules, VadersTypes, VadersAims, VadersCounts
<1>2. DOMAIN g = VadersFields /\ Monsters(g.monsters)
  BY DEF VadersRules, VadersTypes
<1> DEFINE
      down == IF g.mcnt = VADERS.NumMove THEN VADERS.Fall ELSE 0
      lands(i) == g.monsters[i].alive /\ g.monsters[i].y + down + VADERS.BoxY >= VADERS.Height
      landed == VA!Active(g) /\ \E i \in 1..VADERS.NbMonsters : lands(i)
      moves(i) == VA!Active(g) /\ g.monsters[i].alive /\ \A j \in 1..(i - 1) : ~lands(j)
      rows == 1 + (VADERS.NbMonsters - 1) \div VADERS.Cols
      turned == IF rows % 2 = 1 THEN -g.mdx ELSE g.mdx
<1>3. PICK b : b = IF landed THEN VA!Lost(g) ELSE g
  OBVIOUS
<1>4. VadersRules(b) /\ b.monsters = g.monsters
  BY <1>3, VadersLost
<1>5. PICK m : m = [i \in 1..VADERS.NbMonsters |->
          IF moves(i) THEN [g.monsters[i] EXCEPT !.x = @ + VA!Direction(g, i), !.y = @ + down]
          ELSE g.monsters[i]]
  OBVIOUS
<1>6. PICK mdx : mdx = IF g.mcnt = VADERS.NumMove THEN -turned ELSE turned
  OBVIOUS
<1>7. PICK mcnt : mcnt = (g.mcnt + 1) % (VADERS.NumMove + 1)
  OBVIOUS
<1>8. VA!MonstersMoved(g) = [b EXCEPT !.monsters = m, !.mdx = mdx, !.mcnt = mcnt]
  BY <1>3, <1>5, <1>6, <1>7, Zenon DEF VA!MonstersMoved
<1>9. \A i \in 1..VADERS.NbMonsters :
          DOMAIN m[i] = DOMAIN g.monsters[i] /\ m[i].alive = g.monsters[i].alive
  <2>1. SUFFICES ASSUME NEW i \in 1..VADERS.NbMonsters
                 PROVE  DOMAIN m[i] = DOMAIN g.monsters[i] /\ m[i].alive = g.monsters[i].alive
    OBVIOUS
  <2>2. PICK o : o = g.monsters[i]
    OBVIOUS
  <2>3. DOMAIN o = {"x", "y", "alive"}
    BY <1>2, <2>2 DEF Monsters
  <2>4. PICK x, y : x = o.x + VA!Direction(g, i) /\ y = o.y + down
    OBVIOUS
  <2>5. m[i] = o \/ m[i] = [o EXCEPT !.x = x, !.y = y]
    BY <1>5, <2>2, <2>3, <2>4
  <2> QED
    BY <2>2, <2>3, <2>5
<1>10. Monsters(m)
  BY <1>2, <1>5, <1>9 DEF Monsters
<1>11. VadersRules([b EXCEPT !.monsters = m, !.mdx = mdx, !.mcnt = mcnt])
  <2>1. \A i \in 1..VADERS.NbMonsters : m[i].alive = b.monsters[i].alive
    BY <1>4, <1>9
  <2> QED
    BY <1>1, <1>4, <1>10, <2>1
<1> QED
  BY <1>8, <1>11

\* The first of the monsters under the bullet.
LEMMA FirstUnder ==
    ASSUME NEW under, under \subseteq 1..VADERS.NbMonsters, under # {}
    PROVE  \E i \in under : \A j \in under : i <= j
<1>1. under \in SUBSET Nat /\ under # {}
  BY VadersLengths
<1>2. PICK i \in under : \A j \in under : ~(<<j, i>> \in OpToRel(<, Nat))
  BY <1>1, NatLessThanWellFounded, WFMin, Zenon
<1>3. OpToRel(<, Nat) = {ss \in Nat \X Nat : ss[1] < ss[2]}
  BY DEF OpToRel
<1>4. \A j \in under : <<j, i>> \in Nat \X Nat /\ <<j, i>>[1] = j /\ <<j, i>>[2] = i
  BY <1>1
<1>5. \A j \in under : ~(j < i)
  BY <1>2, <1>3, <1>4
<1> QED
  BY <1>1, <1>5

\* Whoever dies was alive: one more is dead, and the seine is next when all are.
LEMMA VadersBullet ==
    ASSUME NEW g, VadersRules(g)
    PROVE  VadersRules(VA!BulletMoved(g))
<1>1. CASE g.bullet = VA!None
  BY <1>1 DEF VA!BulletMoved
<1>2. CASE g.bullet # VA!None
  <2> DEFINE
        at == IF VA!Active(g) THEN <<g.bullet[1], g.bullet[2] - VADERS.Step>> ELSE g.bullet
        under == {i \in 1..VADERS.NbMonsters :
                    /\ VA!Active(g) /\ g.monsters[i].alive
                    /\ at[1] \in g.monsters[i].x..(g.monsters[i].x + VADERS.BoxX)
                    /\ at[2] \in g.monsters[i].y..(g.monsters[i].y + VADERS.BoxY)}
        good == under # {}
        dead == IF good THEN g.dead + 1 ELSE g.dead
        kill == g.kill \/ (VA!Active(g) /\ dead = VADERS.NbMonsters)
        won == /\ kill /\ VA!Active(g) /\ at[1] \in g.w..(g.w + VADERS.BoxX)
               /\ at[2] <= VADERS.BoxY
        monsters == [i \in 1..VADERS.NbMonsters |->
                       IF i \in under /\ \A j \in under : i <= j
                       THEN [g.monsters[i] EXCEPT !.alive = FALSE] ELSE g.monsters[i]]
        bullet == IF good \/ at[2] <= 0 THEN VA!None ELSE at
  <2>1. /\ DOMAIN g = VadersFields /\ Monsters(g.monsters)
        /\ g.standby \in BOOLEAN /\ g.fin \in BOOLEAN /\ g.win \in BOOLEAN
        /\ g.kill \in BOOLEAN
        /\ g.dead = Cardinality(Dead(g.monsters))
        /\ g.kill <=> g.dead = VADERS.NbMonsters
        /\ g.win => g.fin /\ g.kill
    BY DEF VadersRules, VadersTypes, VadersCounts
  <2>2. VA!BulletMoved(g) =
            [g EXCEPT !.bullet = bullet,
                      !.monsters = [i \in 1..VADERS.NbMonsters |->
                          IF i \in under /\ \A j \in under : i <= j
                          THEN [@[i] EXCEPT !.alive = FALSE] ELSE @[i]],
                      !.dead = dead, !.kill = kill, !.fin = @ \/ won, !.win = @ \/ won]
    BY <1>2 DEF VA!BulletMoved
  <2>3. PICK u : u = under
    OBVIOUS
  <2>4. /\ u \subseteq 1..VADERS.NbMonsters
        /\ \A i \in u : VA!Active(g) /\ g.monsters[i].alive
    BY <2>3
  <2>5. PICK a : a = at
    OBVIOUS
  <2>6. PICK b : b = bullet
    OBVIOUS
  <2>7. b = VA!None \/ OnScreen(b)
    <3>1. OnScreen(g.bullet)
      BY <1>2 DEF VadersRules, VadersAims
    <3>2. PICK x \in 0..(VADERS.Width - 1), y \in 1..(VADERS.Height - 1) : g.bullet = <<x, y>>
      BY <3>1 DEF OnScreen
    <3>3. a = <<x, y - VADERS.Step>> \/ a = <<x, y>>
      BY <2>5, <3>2
    <3>4. b = VA!None \/ (b = a /\ ~(a[2] <= 0))
      BY <2>5, <2>6
    <3>5. CASE b = a /\ a = <<x, y - VADERS.Step>> /\ ~(a[2] <= 0)
      <4>1. y - VADERS.Step \in 1..(VADERS.Height - 1)
        BY <3>2, <3>5, VadersLengths
      <4> QED
        BY <3>2, <3>5, <4>1 DEF OnScreen
    <3>6. CASE b = a /\ a = <<x, y>>
      BY <3>2, <3>6 DEF OnScreen
    <3> QED
      BY <3>3, <3>4, <3>5, <3>6
  <2>8. PICK m : m = monsters
    OBVIOUS
  <2>9. PICK d : d = dead
    OBVIOUS
  <2>10. PICK k \in BOOLEAN : k <=> kill
    OBVIOUS
  <2>11. PICK w \in BOOLEAN : w <=> won
    OBVIOUS
  <2>12. w => k
    BY <2>10, <2>11
  <2>13. k <=> (g.kill \/ (VA!Active(g) /\ d = VADERS.NbMonsters))
    BY <2>9, <2>10
  <2>14. d = IF u # {} THEN g.dead + 1 ELSE g.dead
    BY <2>3, <2>9
  <2>15. m = [i \in 1..VADERS.NbMonsters |->
                 IF i \in u /\ \A j \in u : i <= j
                 THEN [g.monsters[i] EXCEPT !.alive = FALSE] ELSE g.monsters[i]]
    BY <2>3, <2>8
  <2>16. PICK fin \in BOOLEAN : fin <=> g.fin \/ w
    OBVIOUS
  <2>17. PICK win \in BOOLEAN : win <=> g.win \/ w
    OBVIOUS
  <2>18. PICK h : h = VA!BulletMoved(g)
    OBVIOUS
  <2>19. h = [g EXCEPT !.bullet = b, !.monsters = m, !.dead = d, !.kill = k, !.fin = fin,
                       !.win = win]
    <3>1. (g.fin \/ won) = fin /\ (g.win \/ won) = win /\ kill = k
      BY <2>10, <2>11, <2>16, <2>17, Zenon
    <3>2. m = [i \in 1..VADERS.NbMonsters |->
                 IF i \in under /\ \A j \in under : i <= j
                 THEN [g.monsters[i] EXCEPT !.alive = FALSE] ELSE g.monsters[i]]
      BY <2>8
    <3> HIDE DEF kill, won, under, bullet, dead
    <3>3. h = [g EXCEPT !.bullet = bullet,
                      !.monsters = [i \in 1..VADERS.NbMonsters |->
                          IF i \in under /\ \A j \in under : i <= j
                          THEN [g.monsters[i] EXCEPT !.alive = FALSE] ELSE g.monsters[i]],
                      !.dead = dead, !.kill = kill, !.fin = (g.fin \/ won),
                      !.win = (g.win \/ won)]
      BY <2>1, <2>2, <2>18 DEF VadersFields
    <3> QED
      BY <2>6, <2>9, <3>1, <3>2, <3>3, Zenon
  <2> HIDE DEF at, under, good, dead, kill, won, monsters, bullet
  <2>20. /\ DOMAIN h = VadersFields /\ h.standby = g.standby /\ h.fin = fin /\ h.win = win
         /\ h.kill = k /\ h.dead = d /\ h.p = g.p /\ h.shot = g.shot
         /\ h.bullet = b /\ h.monsters = m
    BY <2>1, <2>19 DEF VadersFields
  <2>21. VadersAims(h)
    BY <2>7, <2>20 DEF VadersRules, VadersAims
  <2>22. CASE u = {}
    <3>1. m = g.monsters \/ \A i \in 1..VADERS.NbMonsters : m[i] = g.monsters[i]
      BY <2>15, <2>22
    <3>2. Monsters(m) /\ Dead(m) = Dead(g.monsters)
      BY <2>1, <2>15, <3>1 DEF Monsters, Dead
    <3>3. d = g.dead
      BY <2>14, <2>22
    <3>4. k <=> g.kill
      BY <2>1, <2>13, <3>3
    <3>5. VadersTypes(h)
      <4>1. h.standby \in BOOLEAN /\ h.fin \in BOOLEAN /\ h.win \in BOOLEAN
            /\ h.kill \in BOOLEAN
        BY <2>1, <2>10, <2>16, <2>17, <2>20, Zenon
      <4> QED
        BY <2>20, <3>2, <4>1 DEF VadersTypes
    <3>6. h.win => h.fin /\ h.kill
      BY <2>1, <2>12, <2>16, <2>17, <2>20, <3>4, Zenon
    <3>7. VadersCounts(h)
      BY <2>1, <2>20, <3>2, <3>3, <3>4, <3>6 DEF VadersCounts
    <3> QED
      BY <2>18, <2>21, <3>5, <3>7 DEF VadersRules
  <2>23. CASE u # {}
    <3>1. PICK i \in u : \A j \in u : i <= j
      BY <2>4, <2>23, FirstUnder
    <3>2. \A j \in u : (\A o \in u : j <= o) => j = i
      <4>1. u \subseteq Int
        BY <2>4, VadersLengths
      <4> QED
        BY <3>1, <4>1
    <3>3. /\ i \in 1..VADERS.NbMonsters /\ VA!Active(g) /\ g.monsters[i].alive = TRUE
      BY <2>1, <2>4, <3>1 DEF Monsters
    <3>4. /\ m[i] = [g.monsters[i] EXCEPT !.alive = FALSE]
          /\ \A j \in 1..VADERS.NbMonsters : j # i => m[j] = g.monsters[j]
          /\ DOMAIN m = 1..VADERS.NbMonsters
      BY <2>15, <3>1, <3>2, <3>3
    <3>5. m[i].alive = FALSE /\ DOMAIN m[i] = {"x", "y", "alive"}
      <4>1. PICK o : o = g.monsters[i]
        OBVIOUS
      <4>2. DOMAIN o = {"x", "y", "alive"}
        BY <2>1, <3>3, <4>1 DEF Monsters
      <4> QED
        BY <3>4, <4>1, <4>2
    <3>6. Monsters(m)
      <4>1. ASSUME NEW j \in 1..VADERS.NbMonsters
            PROVE  DOMAIN m[j] = {"x", "y", "alive"} /\ m[j].alive \in BOOLEAN
        <5>1. CASE j = i
          BY <3>5, <5>1
        <5>2. CASE j # i
          BY <2>1, <3>4, <5>2 DEF Monsters
        <5> QED
          BY <5>1, <5>2
      <4> QED
        BY <3>4, <4>1 DEF Monsters
    <3>7. i \notin Dead(g.monsters) /\ Dead(m) = Dead(g.monsters) \cup {i}
      BY <3>3, <3>4, <3>5 DEF Dead
    <3>8. /\ IsFiniteSet(Dead(g.monsters)) /\ IsFiniteSet(Dead(m))
          /\ Cardinality(Dead(m)) = Cardinality(Dead(g.monsters)) + 1
          /\ Cardinality(Dead(m)) <= VADERS.NbMonsters
          /\ Cardinality(Dead(g.monsters)) \in Nat
      <4>1. IsFiniteSet(1..VADERS.NbMonsters) /\ Cardinality(1..VADERS.NbMonsters) = VADERS.NbMonsters
        <5>1. 1 \in Int /\ VADERS.NbMonsters \in Int
          BY VadersLengths
        <5>2. /\ IsFiniteSet(1..VADERS.NbMonsters)
              /\ Cardinality(1..VADERS.NbMonsters) =
                    IF 1 > VADERS.NbMonsters THEN 0 ELSE VADERS.NbMonsters - 1 + 1
          BY <5>1, FS_Interval
        <5> QED
          BY <5>2, VadersLengths
      <4>2. Dead(g.monsters) \subseteq 1..VADERS.NbMonsters
            /\ Dead(m) \subseteq 1..VADERS.NbMonsters
        BY DEF Dead
      <4>3. /\ IsFiniteSet(Dead(g.monsters)) /\ IsFiniteSet(Dead(m))
            /\ Cardinality(Dead(m)) <= VADERS.NbMonsters
        BY <4>1, <4>2, FS_Subset
      <4>4. Cardinality(Dead(m)) = Cardinality(Dead(g.monsters)) + 1
        BY <3>7, <4>3, FS_AddElement
      <4>5. Cardinality(Dead(g.monsters)) \in Nat
        BY <4>3, FS_CardinalityType
      <4> QED
        BY <4>3, <4>4, <4>5
    <3>9. d = Cardinality(Dead(m)) /\ g.dead # VADERS.NbMonsters
      BY <2>1, <2>14, <2>23, <3>8, VadersLengths
    <3>10. k <=> d = VADERS.NbMonsters
      BY <2>1, <2>13, <3>3, <3>9
    <3>11. VadersTypes(h)
      <4>1. h.standby \in BOOLEAN /\ h.fin \in BOOLEAN /\ h.win \in BOOLEAN
            /\ h.kill \in BOOLEAN
        BY <2>1, <2>10, <2>16, <2>17, <2>20, Zenon
      <4> QED
        BY <2>20, <3>6, <4>1 DEF VadersTypes
    <3>12. h.win => h.fin /\ h.kill
      BY <2>1, <2>12, <2>13, <2>16, <2>17, <2>20, Zenon
    <3>13. VadersCounts(h)
      BY <2>20, <3>9, <3>10, <3>12 DEF VadersCounts
    <3> QED
      BY <2>18, <2>21, <3>11, <3>13 DEF VadersRules
  <2> QED
    BY <2>22, <2>23
<1> QED
  BY <1>1, <1>2

\* Every move of Vaders keeps the rules.
LEMMA VadersNext ==
    ASSUME VadersRules(game), VA!Next
    PROVE  VadersRules(game')
<1>1. PICK k \in VA!Keys : VA!splash_screen(k) \/ VA!game_loop(k)
  BY DEF VA!Next
<1>2. CASE VA!splash_screen(k)
  BY <1>2, VadersBegins DEF VA!splash_screen
<1>3. CASE VA!game_loop(k)
  <2>1. CASE game' = [game EXCEPT !.phase = "splash"]
    <3>1. DOMAIN game = VadersFields
      BY DEF VadersRules, VadersTypes
    <3>2. /\ DOMAIN game' = DOMAIN game /\ game'.standby = game.standby
          /\ game'.fin = game.fin /\ game'.win = game.win
          /\ game'.kill = game.kill /\ game'.dead = game.dead /\ game'.p = game.p
          /\ game'.shot = game.shot /\ game'.bullet = game.bullet
          /\ game'.monsters = game.monsters
      BY <2>1, <3>1 DEF VadersFields
    <3>3. game'.standby \in BOOLEAN
      BY <3>2 DEF VadersRules, VadersTypes
    <3> QED
      BY <3>2, <3>3, VadersSame
  <2>2. CASE game' # [game EXCEPT !.phase = "splash"]
    <3>1. game' = VA!BulletMoved(VA!MonstersMoved(VA!ShotMoved(
                      VA!SeineMoved(VA!Steered(game, k)))))
      BY <1>3, <2>2 DEF VA!game_loop
    <3> QED
      BY <3>1, VadersSteered, VadersSeine, VadersShot, VadersMonsters, VadersBullet
  <2> QED
    BY <2>1, <2>2
<1> QED
  BY <1>1, <1>2, <1>3

-----------------------------------------------------------------------------
(* Yakanoid.                                                               *)

YakanoidGame ==
    [phase : {"splash", "play"}, wall : SUBSET YA!Bricks, score : Int, lives : Int, pos : Int,
     x : Int, y : Int, dx : {-1, 1}, dy : {-1, 1}, stray : BOOLEAN]

Gone(wall) == Cardinality(YA!Bricks \ wall)
YakanoidScore(g) == ~g.stray => g.score >= 10 * Gone(g.wall) /\ g.score <= 25 * Gone(g.wall)

\* Between the sides, and on the way back from them.
BetweenSides(g) ==
    /\ g.x + YAKANOID.Ball <= YA!Right /\ g.x - YAKANOID.Ball >= YAKANOID.Left - 1
    /\ g.x + YAKANOID.Ball = YA!Right => g.dx = -1
    /\ g.x - YAKANOID.Ball < YAKANOID.Left => g.dx = 1
\* Above the floor, or at it and on the way down or up.
AboveFloor(g, dy) ==
    g.y + YAKANOID.Ball >= YAKANOID.Floor =>
        g.y + YAKANOID.Ball = YAKANOID.Floor /\ g.dy = dy
YakanoidPlay(g, dy) ==
    /\ g.lives \in 1..YAKANOID.Lives
    /\ BetweenSides(g) /\ AboveFloor(g, dy)
YakanoidRules(g) ==
    /\ g \in YakanoidGame /\ YakanoidScore(g)
    /\ g.phase = "play" => YakanoidPlay(g, -1)

\* The lengths are integers.
LEMMA YakanoidLengths ==
    /\ YAKANOID.Rows \in Nat /\ YAKANOID.Columns \in Nat /\ YAKANOID.Ball \in Nat
    /\ YAKANOID.BrickWidth \in Int /\ YAKANOID.BrickHeight \in Int /\ YAKANOID.Left \in Int
    /\ YAKANOID.BarHalf \in Int /\ YAKANOID.Step \in Int /\ YAKANOID.Middle \in Int
    /\ YAKANOID.Start \in Int /\ YAKANOID.Floor \in Int
    /\ YAKANOID.Lives \in Nat /\ YAKANOID.Lives >= 1
    /\ YA!Right \in Int
    /\ YAKANOID.Left + YAKANOID.Ball <= YAKANOID.Middle
    /\ YAKANOID.Middle + YAKANOID.Ball < YA!Right
    /\ YAKANOID.Start + YAKANOID.Ball < YAKANOID.Floor
    /\ (YAKANOID.Rows + 1) * YAKANOID.BrickHeight \in Int
    /\ (YAKANOID.Rows + 1) * YAKANOID.BrickHeight <= YAKANOID.Floor
<1>1. /\ YAKANOID.Rows \in Nat /\ YAKANOID.Columns \in Nat /\ YAKANOID.Ball \in Nat
      /\ YAKANOID.BrickWidth \in Int /\ YAKANOID.BrickHeight \in Int /\ YAKANOID.Left \in Int
      /\ YAKANOID.BarHalf \in Int /\ YAKANOID.Step \in Int /\ YAKANOID.Middle \in Int
      /\ YAKANOID.Start \in Int /\ YAKANOID.Floor \in Int
      /\ YAKANOID.Lives \in Nat /\ YAKANOID.Lives >= 1
  BY YakanoidAssumption
<1>2. PICK c \in Nat, w \in Int, r \in Nat, h \in Int, l \in Int :
          c = YAKANOID.Columns /\ w = YAKANOID.BrickWidth /\ r = YAKANOID.Rows
          /\ h = YAKANOID.BrickHeight /\ l = YAKANOID.Left
  BY <1>1
<1>3. l + c * w \in Int /\ (r + 1) * h \in Int
  BY <1>2
<1>4. YA!Right \in Int /\ (YAKANOID.Rows + 1) * YAKANOID.BrickHeight \in Int
  BY <1>2, <1>3 DEF YA!Right
<1> QED
  BY <1>1, <1>4, YakanoidAssumption DEF YA!Right

\* A wall of which a brick more has gone.
LEMMA BrickGone ==
    ASSUME NEW wall \in SUBSET YA!Bricks, NEW brick \in wall
    PROVE  /\ Gone(wall) \in Nat
           /\ Gone(wall \ {brick}) = Gone(wall) + 1
<1>1. IsFiniteSet(YA!Bricks)
  <2>1. /\ IsFiniteSet(0..(YAKANOID.Rows - 1)) /\ IsFiniteSet(0..(YAKANOID.Columns - 1))
    <3>1. YAKANOID.Rows - 1 \in Int /\ YAKANOID.Columns - 1 \in Int /\ 0 \in Int
      BY YakanoidLengths
    <3> QED
      BY <3>1, FS_Interval
  <2> QED
    BY <2>1, FS_Product DEF YA!Bricks
<1>2. PICK gone : gone = YA!Bricks \ wall
  OBVIOUS
<1>3. IsFiniteSet(gone) /\ brick \notin gone
  BY <1>1, <1>2, FS_Subset
<1>4. YA!Bricks \ (wall \ {brick}) = gone \cup {brick}
  BY <1>2
<1> QED
  BY <1>2, <1>3, <1>4, FS_AddElement, FS_CardinalityType DEF Gone

\* The number of bricks gone is a number.
LEMMA GoneNat ==
    ASSUME NEW wall \in SUBSET YA!Bricks
    PROVE  Gone(wall) \in Nat
<1>1. IsFiniteSet(YA!Bricks)
  <2>1. /\ IsFiniteSet(0..(YAKANOID.Rows - 1)) /\ IsFiniteSet(0..(YAKANOID.Columns - 1))
    <3>1. YAKANOID.Rows - 1 \in Int /\ YAKANOID.Columns - 1 \in Int /\ 0 \in Int
      BY YakanoidLengths
    <3> QED
      BY <3>1, FS_Interval
  <2> QED
    BY <2>1, FS_Product DEF YA!Bricks
<1> QED
  BY <1>1, FS_Subset, FS_CardinalityType DEF Gone

\* The ball is served between the sides and above the floor.
LEMMA YakanoidServed ==
    ASSUME NEW g \in YakanoidGame, g.lives \in 1..YAKANOID.Lives, YakanoidScore(g)
    PROVE  YakanoidRules(YA!Served(g))
<1>1. PICK h : h = YA!Served(g)
  OBVIOUS
<1>2. PICK m \in Int, s \in Int : m = YAKANOID.Middle /\ s = YAKANOID.Start
  BY YakanoidLengths
<1>3. h = [[[[[g EXCEPT !.pos = m] EXCEPT !.x = m] EXCEPT !.y = s] EXCEPT !.dx = 1]
              EXCEPT !.dy = -1]
  BY <1>1, <1>2 DEF YA!Served, YakanoidGame
<1>4. /\ h \in YakanoidGame
      /\ h.lives = g.lives /\ h.wall = g.wall /\ h.score = g.score /\ h.stray = g.stray
      /\ h.x = m /\ h.y = s /\ h.dx = 1 /\ h.dy = -1
  <2>1. PICK u : u = [[[g EXCEPT !.pos = m] EXCEPT !.x = m] EXCEPT !.y = s]
    OBVIOUS
  <2>2. /\ u \in YakanoidGame
        /\ u.lives = g.lives /\ u.wall = g.wall /\ u.score = g.score /\ u.stray = g.stray
        /\ u.x = m /\ u.y = s
    BY <2>1 DEF YakanoidGame
  <2>3. h = [[u EXCEPT !.dx = 1] EXCEPT !.dy = -1]
    BY <1>3, <2>1
  <2>4. -1 \in {-1, 1} /\ 1 \in {-1, 1}
    OBVIOUS
  <2> QED
    BY <2>2, <2>3, <2>4 DEF YakanoidGame
<1>5. BetweenSides(h)
  BY <1>2, <1>4, YakanoidLengths DEF BetweenSides
<1>6. AboveFloor(h, -1)
  BY <1>2, <1>4, YakanoidLengths DEF AboveFloor
<1> QED
  BY <1>1, <1>4, <1>5, <1>6 DEF YakanoidRules, YakanoidPlay, YakanoidScore

\* A new wall, whole.
LEMMA YakanoidBegins == YakanoidRules(YA!New)
<1>1. PICK g : g = [phase |-> "play", wall |-> YA!Bricks, score |-> 0,
                    lives |-> YAKANOID.Lives, pos |-> 0, x |-> 0, y |-> 0, dx |-> 0, dy |-> 0,
                    stray |-> FALSE]
  OBVIOUS
<1>2. PICK u : u = [[g EXCEPT !.dx = 1] EXCEPT !.dy = -1]
  OBVIOUS
<1>3. /\ u \in YakanoidGame
      /\ u.wall = YA!Bricks /\ u.score = 0 /\ u.lives = YAKANOID.Lives
  <2>1. YA!Bricks \in SUBSET YA!Bricks /\ YAKANOID.Lives \in Int /\ -1 \in {-1, 1}
    BY YakanoidLengths
  <2>2. u = [phase |-> "play", wall |-> YA!Bricks, score |-> 0,
                    lives |-> YAKANOID.Lives, pos |-> 0, x |-> 0, y |-> 0, dx |-> 1, dy |-> -1,
                    stray |-> FALSE]
    BY <1>1, <1>2
  <2> QED
    BY <2>1, <2>2 DEF YakanoidGame
<1>4. YA!Served(u) = YA!New
  BY <1>1, <1>2 DEF YA!Served, YA!New
<1>5. YakanoidScore(u)
  <2>1. YA!Bricks \ YA!Bricks = {}
    OBVIOUS
  <2>2. Gone(u.wall) = 0
    BY <1>3, <2>1, FS_EmptySet DEF Gone
  <2> QED
    BY <1>3, <2>2 DEF YakanoidScore
<1>6. u.lives \in 1..YAKANOID.Lives
  BY <1>3, YakanoidLengths
<1> QED
  BY <1>3, <1>4, <1>5, <1>6, YakanoidServed

\* The bar moves, nothing else.
LEMMA YakanoidSteered ==
    ASSUME NEW g \in YakanoidGame, NEW k \in YA!Keys, YakanoidScore(g), YakanoidPlay(g, -1)
    PROVE  LET h == YA!Steered(g, k)
           IN  h \in YakanoidGame /\ YakanoidScore(h) /\ YakanoidPlay(h, -1)
               /\ h.phase = g.phase
<1>1. PICK h : h = YA!Steered(g, k)
  OBVIOUS
<1>2. PICK to \in Int : to = IF k = "right" THEN g.pos + YAKANOID.Step
                             ELSE IF k = "left" THEN g.pos - YAKANOID.Step ELSE g.pos
  BY YakanoidLengths DEF YakanoidGame
<1>3. PICK pos \in Int : pos = IF to - YAKANOID.BarHalf < YAKANOID.Left
                               THEN YAKANOID.Left + YAKANOID.BarHalf
                               ELSE IF to + YAKANOID.BarHalf >= YA!Right
                               THEN YA!Right - YAKANOID.BarHalf ELSE to
  BY YakanoidLengths
<1>4. h = [g EXCEPT !.pos = pos]
  BY <1>1, <1>2, <1>3 DEF YA!Steered
<1>5. /\ h \in YakanoidGame /\ h.phase = g.phase /\ h.wall = g.wall /\ h.score = g.score
      /\ h.lives = g.lives /\ h.x = g.x /\ h.y = g.y /\ h.dx = g.dx /\ h.dy = g.dy
      /\ h.stray = g.stray
  BY <1>4 DEF YakanoidGame
<1> QED
  BY <1>1, <1>5 DEF YakanoidScore, YakanoidPlay, BetweenSides, AboveFloor

\* The ball moves by one and turns at the sides; at the floor it is on the way down.
LEMMA YakanoidMoved ==
    ASSUME NEW g \in YakanoidGame, YakanoidScore(g), YakanoidPlay(g, -1)
    PROVE  LET h == YA!Moved(g)
           IN  h \in YakanoidGame /\ YakanoidScore(h) /\ YakanoidPlay(h, 1)
               /\ h.phase = g.phase
<1>1. PICK h : h = YA!Moved(g)
  OBVIOUS
<1>2. PICK x \in Int, y \in Int : x = g.x + g.dx /\ y = g.y + g.dy
  BY DEF YakanoidGame
<1>3. PICK dx \in {-1, 1} : dx = IF x + YAKANOID.Ball >= YA!Right
                                    \/ x - YAKANOID.Ball < YAKANOID.Left THEN -g.dx ELSE g.dx
  BY DEF YakanoidGame
<1>4. h = [[[g EXCEPT !.x = x] EXCEPT !.y = y] EXCEPT !.dx = dx]
  BY <1>1, <1>2, <1>3 DEF YA!Moved, YakanoidGame
<1>5. /\ h \in YakanoidGame /\ h.phase = g.phase /\ h.wall = g.wall /\ h.score = g.score
      /\ h.lives = g.lives /\ h.x = x /\ h.y = y /\ h.dx = dx /\ h.dy = g.dy
      /\ h.stray = g.stray
  BY <1>4 DEF YakanoidGame
<1>6. BetweenSides(h)
  <2>1. BetweenSides(g) /\ g.x \in Int /\ g.dx \in {-1, 1}
    BY DEF YakanoidPlay, YakanoidGame
  <2>2. PICK left \in Int, right \in Int, ball \in Int :
            left = YAKANOID.Left /\ right = YA!Right /\ ball = YAKANOID.Ball
    BY YakanoidLengths
  <2>3. PICK u \in Int, v \in {-1, 1} : u = g.x /\ v = g.dx
    BY <2>1
  <2>4. /\ u + ball <= right /\ u - ball >= left - 1
        /\ u + ball = right => v = -1
        /\ u - ball < left => v = 1
    BY <2>1, <2>2, <2>3 DEF BetweenSides
  <2>5. x = u + v /\ dx = IF x + ball >= right \/ x - ball < left THEN -v ELSE v
    BY <1>2, <1>3, <2>2, <2>3
  <2>6. /\ x + ball <= right /\ x - ball >= left - 1
        /\ x + ball = right => dx = -1
        /\ x - ball < left => dx = 1
    <3>1. CASE v = 1
      BY <2>4, <2>5, <3>1
    <3>2. CASE v = -1
      BY <2>4, <2>5, <3>2
    <3> QED
      BY <3>1, <3>2
  <2> QED
    BY <1>5, <2>2, <2>6 DEF BetweenSides
<1>7. AboveFloor(h, 1)
  <2>1. AboveFloor(g, -1) /\ g.y \in Int /\ g.dy \in {-1, 1}
    BY DEF YakanoidPlay, YakanoidGame
  <2>2. PICK floor \in Int, ball \in Int : floor = YAKANOID.Floor /\ ball = YAKANOID.Ball
    BY YakanoidLengths
  <2>3. PICK u \in Int, v \in {-1, 1} : u = g.y /\ v = g.dy
    BY <2>1
  <2>4. u + ball >= floor => u + ball = floor /\ v = -1
    BY <2>1, <2>2, <2>3 DEF AboveFloor
  <2>5. y + ball >= floor => y + ball = floor /\ v = 1
    BY <1>2, <2>3, <2>4
  <2> QED
    BY <1>5, <2>2, <2>3, <2>5 DEF AboveFloor
<1> QED
  BY <1>1, <1>5, <1>6, <1>7 DEF YakanoidScore, YakanoidPlay

\* What is gone from a wall struck at one brick or at two.
LEMMA WallStruck ==
    ASSUME NEW wall \in SUBSET YA!Bricks, NEW p, NEW q, p \in wall \/ q \in wall
    PROVE  /\ Gone(wall) \in Nat /\ Gone(wall \ {p, q}) \in Nat
           /\ p \in wall /\ q \in wall =>
                 Gone(wall \ {p, q}) \in {Gone(wall) + 1, Gone(wall) + 2}
           /\ ~(p \in wall /\ q \in wall) => Gone(wall \ {p, q}) = Gone(wall) + 1
<1>1. Gone(wall) \in Nat /\ Gone(wall \ {p, q}) \in Nat
  BY GoneNat
<1>2. CASE p \in wall /\ q \in wall /\ p # q
  <2>1. q \in wall \ {p} /\ wall \ {p} \in SUBSET YA!Bricks
    BY <1>2
  <2>2. Gone(wall \ {p}) = Gone(wall) + 1
    BY <1>2, BrickGone
  <2>3. Gone((wall \ {p}) \ {q}) = Gone(wall \ {p}) + 1
    BY <2>1, BrickGone
  <2>4. (wall \ {p}) \ {q} = wall \ {p, q}
    OBVIOUS
  <2>5. Gone(wall \ {p, q}) = Gone(wall) + 2
    BY <1>1, <2>2, <2>3, <2>4
  <2> QED
    BY <1>1, <1>2, <2>5
<1>3. CASE p \in wall /\ (q \notin wall \/ p = q)
  <2>1. wall \ {p, q} = wall \ {p}
    BY <1>3
  <2>2. Gone(wall \ {p, q}) = Gone(wall) + 1
    BY <1>3, <2>1, BrickGone
  <2> QED
    BY <1>1, <2>2
<1>4. CASE p \notin wall /\ q \in wall
  <2>1. wall \ {p, q} = wall \ {q}
    BY <1>4
  <2>2. Gone(wall \ {p, q}) = Gone(wall) + 1
    BY <1>4, <2>1, BrickGone
  <2> QED
    BY <1>1, <1>4, <2>2
<1> QED
  BY <1>2, <1>3, <1>4

\* What the ball strikes is paid, and it turns well above the floor.
LEMMA YakanoidStruck ==
    ASSUME NEW g \in YakanoidGame, YakanoidScore(g), YakanoidPlay(g, 1),
           NEW h \in YA!Struck(g)
    PROVE  h \in YakanoidGame /\ YakanoidScore(h) /\ YakanoidPlay(h, 1) /\ h.phase = g.phase
<1>1. CASE h = g
  BY <1>1
<1>2. CASE h # g
  <2>1. PICK p, q : p = YA!Place(g, -YAKANOID.Ball) /\ q = YA!Place(g, YAKANOID.Ball)
    OBVIOUS
  <2>2. PICK gone : gone = {YA!Brick(n) : n \in {m \in {p, q} : YA!Inside(m)}}
    OBVIOUS
  <2>3. PICK stray : stray = (g.stray \/ ~YA!Inside(p) \/ ~YA!Inside(q))
    OBVIOUS
  <2>4. /\ g.y + YAKANOID.Ball < (YAKANOID.Rows + 1) * YAKANOID.BrickHeight
        /\ \E a \in YA!Outcomes(g, p), b \in YA!Outcomes(g, q) :
              /\ a \/ b
              /\ h = [g EXCEPT !.dy = -@, !.score = @ + (IF a /\ b THEN 25 ELSE 10),
                               !.wall = @ \ gone, !.stray = @ \/ ~YA!Inside(p) \/ ~YA!Inside(q)]
    BY <1>2, <2>1, <2>2 DEF YA!Struck
  <2>5. PICK a \in YA!Outcomes(g, p), b \in YA!Outcomes(g, q) :
              /\ a \/ b
              /\ h = [g EXCEPT !.dy = -@, !.score = @ + (IF a /\ b THEN 25 ELSE 10),
                               !.wall = @ \ gone, !.stray = @ \/ ~YA!Inside(p) \/ ~YA!Inside(q)]
    BY <2>4
  <2>6. PICK paid \in {10, 25} : paid = IF a /\ b THEN 25 ELSE 10
    OBVIOUS
  <2>7. PICK dy \in {-1, 1} : dy = -g.dy
    BY DEF YakanoidGame
  <2>8. PICK score \in Int : score = g.score + paid
    BY DEF YakanoidGame
  <2>9. h = [[[[g EXCEPT !.dy = dy] EXCEPT !.score = score]
               EXCEPT !.wall = g.wall \ gone] EXCEPT !.stray = stray]
    <3>1. h = [g EXCEPT !.dy = -@, !.score = @ + paid,
                        !.wall = @ \ gone, !.stray = @ \/ ~YA!Inside(p) \/ ~YA!Inside(q)]
      BY <2>5, <2>6
    <3>2. [g EXCEPT !.dy = -@, !.score = @ + paid,
                        !.wall = @ \ gone, !.stray = @ \/ ~YA!Inside(p) \/ ~YA!Inside(q)]
          = [g EXCEPT !.dy = -g.dy, !.score = g.score + paid,
                      !.wall = g.wall \ gone,
                      !.stray = g.stray \/ ~YA!Inside(p) \/ ~YA!Inside(q)]
      BY DEF YakanoidGame
    <3>3. h = [g EXCEPT !.dy = dy, !.score = score, !.wall = g.wall \ gone, !.stray = stray]
      BY <2>3, <2>7, <2>8, <3>1, <3>2
    <3> QED
      BY <3>3 DEF YakanoidGame
  <2>10. stray \in BOOLEAN
    BY <2>3
  <2>11. /\ h \in YakanoidGame /\ h.phase = g.phase /\ h.wall = g.wall \ gone
         /\ h.score = score /\ h.lives = g.lives /\ h.x = g.x /\ h.y = g.y /\ h.dx = g.dx
         /\ h.stray = stray
    <3>1. PICK u : u = [[g EXCEPT !.dy = dy] EXCEPT !.score = score]
      OBVIOUS
    <3>2. /\ u \in YakanoidGame /\ u.phase = g.phase /\ u.wall = g.wall /\ u.score = score
          /\ u.lives = g.lives /\ u.x = g.x /\ u.y = g.y /\ u.dx = g.dx
      BY <3>1 DEF YakanoidGame
    <3>3. h = [[u EXCEPT !.wall = g.wall \ gone] EXCEPT !.stray = stray]
      BY <2>9, <3>1
    <3> QED
      BY <2>10, <3>2, <3>3 DEF YakanoidGame
  <2>12. YakanoidScore(h)
    <3>1. CASE stray
      BY <2>11, <3>1 DEF YakanoidScore
    <3>2. CASE ~stray
      <4>1. ~g.stray /\ YA!Inside(p) /\ YA!Inside(q)
        BY <2>3, <3>2
      <4>2. PICK d, e : d = YA!Brick(p) /\ e = YA!Brick(q)
        OBVIOUS
      <4>3. gone = {d, e}
        BY <2>2, <4>1, <4>2
      <4>4. a = (d \in g.wall) /\ b = (e \in g.wall)
        BY <2>5, <4>1, <4>2 DEF YA!Outcomes
      <4>5. g.wall \in SUBSET YA!Bricks /\ g.score \in Int
        BY DEF YakanoidGame
      <4>6. PICK before \in Nat, after \in Nat :
                before = Gone(g.wall) /\ after = Gone(g.wall \ {d, e})
        BY <2>5, <4>4, <4>5, WallStruck
      <4>7. a /\ b => after \in {before + 1, before + 2}
        BY <4>4, <4>5, <4>6, WallStruck
      <4>8. ~(a /\ b) => after = before + 1
        BY <2>5, <4>4, <4>5, <4>6, WallStruck
      <4>9. g.score >= 10 * before /\ g.score <= 25 * before
        BY <4>1, <4>6 DEF YakanoidScore
      <4>10. score >= 10 * after /\ score <= 25 * after
        <5>1. CASE a /\ b
          <6>1. paid = 25 /\ after \in {before + 1, before + 2}
            BY <2>6, <4>7, <5>1
          <6> QED
            BY <2>8, <4>5, <4>9, <6>1
        <5>2. CASE ~(a /\ b)
          <6>1. paid = 10 /\ after = before + 1
            BY <2>6, <4>8, <5>2
          <6> QED
            BY <2>8, <4>5, <4>9, <6>1
        <5> QED
          BY <5>1, <5>2
      <4> QED
        BY <2>11, <4>3, <4>6, <4>10 DEF YakanoidScore
    <3> QED
      BY <2>10, <3>1, <3>2
  <2>13. AboveFloor(h, 1)
    <3>1. PICK top \in Int, floor \in Int, ball \in Int, y \in Int :
              /\ top = (YAKANOID.Rows + 1) * YAKANOID.BrickHeight
              /\ floor = YAKANOID.Floor /\ ball = YAKANOID.Ball /\ y = g.y
              /\ top <= floor
      BY YakanoidLengths DEF YakanoidGame
    <3>2. y + ball < top
      BY <2>4, <3>1
    <3>3. ~(y + ball >= floor)
      BY <3>1, <3>2
    <3> QED
      BY <2>11, <3>1, <3>3 DEF AboveFloor
  <2>14. BetweenSides(h) /\ h.lives \in 1..YAKANOID.Lives
    BY <2>11 DEF YakanoidPlay, BetweenSides
  <2> QED
    BY <2>11, <2>12, <2>13, <2>14 DEF YakanoidPlay
<1> QED
  BY <1>1, <1>2

\* At the floor the bar sends the ball up or a life is lost.
LEMMA YakanoidFloor ==
    ASSUME NEW g \in YakanoidGame, YakanoidScore(g), YakanoidPlay(g, 1)
    PROVE  YakanoidRules(YA!AtFloor(g))
<1>1. PICK floor \in Int, ball \in Int, y \in Int :
          floor = YAKANOID.Floor /\ ball = YAKANOID.Ball /\ y = g.y
  BY YakanoidLengths DEF YakanoidGame
<1>2. CASE y + ball < floor
  <2>1. YA!AtFloor(g) = g
    BY <1>1, <1>2 DEF YA!AtFloor
  <2>2. AboveFloor(g, -1)
    BY <1>1, <1>2 DEF AboveFloor
  <2> QED
    BY <2>1, <2>2 DEF YakanoidRules, YakanoidPlay
<1>3. CASE ~(y + ball < floor)
  <2>1. y + ball = floor /\ g.dy = 1
    BY <1>1, <1>3 DEF YakanoidPlay, AboveFloor
  <2>2. PICK lost : lost = [g EXCEPT !.lives = g.lives - 1]
    OBVIOUS
  <2>3. /\ lost \in YakanoidGame /\ lost.lives = g.lives - 1
        /\ lost.wall = g.wall /\ lost.score = g.score /\ lost.stray = g.stray
    BY <2>2 DEF YakanoidGame
  <2>4. YakanoidScore(lost)
    BY <2>3 DEF YakanoidScore
  <2>5. PICK h : h = YA!AtFloor(g)
    OBVIOUS
  <2>6. \/ h = [g EXCEPT !.dy = -g.dy]
        \/ lost.lives = 0 /\ h = [lost EXCEPT !.phase = "splash"]
        \/ lost.lives # 0 /\ h = YA!Served(lost)
    BY <1>1, <1>3, <2>2, <2>3, <2>5 DEF YA!AtFloor
  <2>7. CASE h = [g EXCEPT !.dy = -g.dy]
    <3>1. PICK dy \in {-1, 1} : dy = -g.dy
      BY DEF YakanoidGame
    <3>2. /\ h \in YakanoidGame /\ h.dy = dy /\ h.phase = g.phase /\ h.wall = g.wall
          /\ h.score = g.score /\ h.lives = g.lives /\ h.x = g.x /\ h.y = g.y
          /\ h.dx = g.dx /\ h.stray = g.stray
      BY <2>7, <3>1 DEF YakanoidGame
    <3>3. dy = -1
      BY <2>1, <3>1
    <3>4. AboveFloor(h, -1)
      BY <1>1, <2>1, <3>2, <3>3 DEF AboveFloor
    <3>5. BetweenSides(h) /\ YakanoidScore(h) /\ h.lives \in 1..YAKANOID.Lives
      BY <3>2 DEF YakanoidPlay, BetweenSides, YakanoidScore
    <3> QED
      BY <2>5, <3>2, <3>4, <3>5 DEF YakanoidRules, YakanoidPlay
  <2>8. CASE lost.lives = 0 /\ h = [lost EXCEPT !.phase = "splash"]
    <3>1. /\ h \in YakanoidGame /\ h.phase = "splash" /\ h.wall = g.wall
          /\ h.score = g.score /\ h.stray = g.stray
      BY <2>3, <2>8 DEF YakanoidGame
    <3> QED
      BY <2>5, <3>1 DEF YakanoidRules, YakanoidScore
  <2>9. CASE lost.lives # 0 /\ h = YA!Served(lost)
    <3>1. lost.lives \in 1..YAKANOID.Lives
      <4>1. PICK most \in Int, lives \in Int :
                most = YAKANOID.Lives /\ lives = g.lives /\ lives >= 1 /\ lives <= most
        BY YakanoidLengths DEF YakanoidPlay, YakanoidGame
      <4>2. lives - 1 # 0
        BY <2>3, <2>9, <4>1
      <4>3. lives - 1 \in 1..most
        BY <4>1, <4>2
      <4> QED
        BY <2>3, <4>1, <4>3
    <3> QED
      BY <2>3, <2>4, <2>5, <2>9, <3>1, YakanoidServed
  <2> QED
    BY <2>6, <2>7, <2>8, <2>9
<1> QED
  BY <1>2, <1>3

\* Every move of Yakanoid keeps the rules.
LEMMA YakanoidNext ==
    ASSUME YakanoidRules(game), YA!Next
    PROVE  YakanoidRules(game')
<1>1. PICK k \in YA!Keys : YA!splash_screen(k) \/ YA!game_loop(k)
  BY DEF YA!Next
<1>2. CASE YA!splash_screen(k)
  BY <1>2, YakanoidBegins DEF YA!splash_screen
<1>3. CASE YA!game_loop(k)
  <2>1. /\ game \in YakanoidGame /\ YakanoidScore(game) /\ YakanoidPlay(game, -1)
    BY <1>3 DEF YA!game_loop, YakanoidRules
  <2>2. CASE k = "esc"
    <3>1. game' = [game EXCEPT !.phase = "splash"]
      BY <1>3, <2>2 DEF YA!game_loop
    <3>2. /\ game' \in YakanoidGame /\ game'.phase = "splash"
          /\ game'.wall = game.wall /\ game'.score = game.score /\ game'.stray = game.stray
      BY <2>1, <3>1 DEF YakanoidGame
    <3> QED
      BY <2>1, <3>2 DEF YakanoidRules, YakanoidScore
  <2>3. CASE k # "esc"
    <3>1. PICK s : s = YA!Steered(game, k)
      OBVIOUS
    <3>2. PICK m : m = YA!Moved(s)
      OBVIOUS
    <3>3. PICK h \in YA!Struck(m) : game' = YA!AtFloor(h)
      BY <1>3, <2>3, <3>1, <3>2 DEF YA!game_loop
    <3>4. s \in YakanoidGame /\ YakanoidScore(s) /\ YakanoidPlay(s, -1)
      BY <2>1, <3>1, YakanoidSteered
    <3>5. m \in YakanoidGame /\ YakanoidScore(m) /\ YakanoidPlay(m, 1)
      BY <3>2, <3>4, YakanoidMoved
    <3>6. h \in YakanoidGame /\ YakanoidScore(h) /\ YakanoidPlay(h, 1)
      BY <3>3, <3>5, YakanoidStruck
    <3> QED
      BY <3>3, <3>6, YakanoidFloor
  <2> QED
    BY <2>2, <2>3
<1> QED
  BY <1>1, <1>2, <1>3

-----------------------------------------------------------------------------
(* The games side by side.                                                 *)

\* The rules of the game that runs.
GameRules ==
    /\ unit = "pong" => PongRules(game)
    /\ unit = "yakanoid" => YakanoidRules(game)
    /\ unit = "vaders" => VadersRules(game)
    /\ unit = "hunter" => HunterRules(game)
    /\ unit = "skate" => SkateRules(game)

\* A game waits for its first key with what it is begun with.
LEMMA InitRules ==
    ASSUME Init
    PROVE  GameRules
<1>1. CASE unit = "pong" /\ PO!Init
  <2>1. PongRules(PO!New(PONG.Speed))
    BY PongServed
  <2>2. PICK g : g = PO!New(PONG.Speed)
    OBVIOUS
  <2>3. game = [g EXCEPT !.phase = "splash"]
    BY <1>1, <2>2 DEF PO!Init
  <2>4. /\ game \in PongGame /\ game.player1 = g.player1 /\ game.x = g.x /\ game.y = g.y
        /\ game.dx = g.dx /\ game.standby = g.standby
    BY <2>1, <2>2, <2>3 DEF PongRules, PongGame
  <2>5. PongRules(game)
    BY <2>1, <2>2, <2>4 DEF PongRules
  <2> QED
    BY <1>1, <2>5 DEF GameRules
<1>2. CASE unit = "yakanoid" /\ YA!Init
  <2>1. PICK g : g = YA!New
    OBVIOUS
  <2>2. YakanoidRules(g) /\ game = [g EXCEPT !.phase = "splash"]
    BY <1>2, <2>1, YakanoidBegins DEF YA!Init
  <2>3. /\ game \in YakanoidGame /\ game.phase = "splash" /\ game.wall = g.wall
        /\ game.score = g.score /\ game.stray = g.stray
    BY <2>2 DEF YakanoidRules, YakanoidGame
  <2>4. YakanoidRules(game)
    BY <2>2, <2>3 DEF YakanoidRules, YakanoidScore
  <2> QED
    BY <1>2, <2>4 DEF GameRules
<1>3. CASE unit = "vaders" /\ VA!Init
  <2>1. PICK g : g = VA!New
    OBVIOUS
  <2>2. VadersRules(g) /\ game = [g EXCEPT !.phase = "splash"]
    BY <1>3, <2>1, VadersBegins DEF VA!Init
  <2>3. VadersRules(game)
    BY <2>2, VadersSame DEF VadersRules, VadersTypes, VadersFields
  <2> QED
    BY <1>3, <2>3 DEF GameRules
<1>4. CASE unit = "hunter" /\ HU!Init
  <2>1. PICK g : g = HU!New
    OBVIOUS
  <2>2. HunterRules(g) /\ game = [g EXCEPT !.phase = "splash"]
    BY <1>4, <2>1, HunterBegins DEF HU!Init
  <2>3. HunterRules(game)
    BY <2>2, HunterSame DEF HunterRules, HunterGame
  <2> QED
    BY <1>4, <2>3 DEF GameRules
<1>5. CASE unit = "launcher"
  BY <1>5 DEF GameRules
<1>6. CASE unit = "skate" /\ SK!Init
  <2>1. PICK g : g = SK!New
    OBVIOUS
  <2>2. SkateRules(g) /\ game = [g EXCEPT !.phase = "splash"]
    BY <1>6, <2>1, SkateBegins DEF SK!Init
  <2>3. SkateRules(game)
    BY <2>2, SkateSame DEF SkateRules, SkateCounts, SkateTypes, SkateFields
  <2> QED
    BY <1>6, <2>3 DEF GameRules
<1> QED
  BY <1>1, <1>2, <1>3, <1>4, <1>5, <1>6 DEF Init

\* A frame of any game keeps its rules.
LEMMA NextRules ==
    ASSUME GameRules, [Next]_vars
    PROVE  GameRules'
<1>1. CASE Alone("pong") /\ PO!Next
  BY <1>1, PongNext DEF GameRules, Alone
<1>2. CASE Alone("yakanoid") /\ YA!Next
  BY <1>2, YakanoidNext DEF GameRules, Alone
<1>3. CASE Alone("vaders") /\ VA!Next
  BY <1>3, VadersNext DEF GameRules, Alone
<1>4. CASE Alone("hunter") /\ HU!Next
  BY <1>4, HunterNext DEF GameRules, Alone
<1>5. CASE Launch
  BY <1>5 DEF GameRules, Launch, Alone
<1>6. CASE Ride
  BY <1>6, SkateNext DEF GameRules, Ride, Alone
<1>7. CASE UNCHANGED vars
  <2>1. unit' = unit /\ game' = game
    BY <1>7 DEF vars
  <2>2. /\ PongRules(game)' = PongRules(game)
        /\ YakanoidRules(game)' = YakanoidRules(game)
        /\ VadersRules(game)' = VadersRules(game)
        /\ HunterRules(game)' = HunterRules(game)
        /\ SkateRules(game)' = SkateRules(game)
    BY <2>1
  <2> QED
    BY <2>1, <2>2 DEF GameRules
<1> QED
  BY <1>1, <1>2, <1>3, <1>4, <1>5, <1>6, <1>7 DEF Next

\* The games count as this module does.
LEMMA SameCount ==
    ASSUME NEW S
    PROVE  /\ YA!Cardinality(S) = Cardinality(S)
           /\ VA!Cardinality(S) = Cardinality(S)
           /\ HU!Cardinality(S) = Cardinality(S)
  BY DEF YA!Cardinality, VA!Cardinality, HU!Cardinality, Cardinality

\* What the rules say of the running game.
LEMMA RulesMean ==
    ASSUME GameRules
    PROVE  RulesKept
<1>1. CASE unit = "pong"
  <2>1. PO!BallReturns
    BY <1>1 DEF GameRules, PongRules, PO!BallReturns
  <2> QED
    BY <1>1, <2>1 DEF RulesKept
<1>2. CASE unit = "yakanoid"
  <2>1. YakanoidRules(game)
    BY <1>2 DEF GameRules
  <2>2. PICK gone \in Nat : gone = Gone(game.wall)
    BY <2>1, GoneNat DEF YakanoidRules, YakanoidGame
  <2>3. game \in YakanoidGame
    BY <2>1 DEF YakanoidRules
  <2>4. ~game.stray => game.score \in (10 * gone)..(25 * gone)
    BY <2>1, <2>2, <2>3 DEF YakanoidRules, YakanoidScore, YakanoidGame
  <2>5. game.phase = "play" =>
             /\ game.lives \in 1..YAKANOID.Lives
             /\ game.x + YAKANOID.Ball <= YA!Right
             /\ game.x - YAKANOID.Ball >= YAKANOID.Left - 1
             /\ game.x + YAKANOID.Ball = YA!Right => game.dx < 0
             /\ game.x - YAKANOID.Ball < YAKANOID.Left => game.dx > 0
             /\ game.y + YAKANOID.Ball >= YAKANOID.Floor =>
                   game.y + YAKANOID.Ball = YAKANOID.Floor /\ game.dy < 0
    BY <2>1 DEF YakanoidRules, YakanoidPlay, BetweenSides, AboveFloor
  <2>6. gone = YA!Cardinality(YA!Bricks \ game.wall)
    BY <2>2, SameCount DEF Gone
  <2>7. YA!ScoreEarned
    BY <2>4, <2>5, <2>6 DEF YA!ScoreEarned
  <2> QED
    BY <1>2, <2>7 DEF RulesKept
<1>3. CASE unit = "vaders"
  <2>1. VadersRules(game)
    BY <1>3 DEF GameRules
  <2>2. game.dead = VA!Cardinality({i \in 1..VADERS.NbMonsters : ~game.monsters[i].alive})
    <3>1. PICK dead : dead = Dead(game.monsters)
      OBVIOUS
    <3>2. game.dead = VA!Cardinality(dead)
      BY <2>1, <3>1, SameCount DEF VadersRules, VadersCounts
    <3> QED
      BY <3>1, <3>2 DEF Dead
  <2>3. /\ game.kill <=> game.dead = VADERS.NbMonsters
        /\ game.win => game.fin /\ game.kill
    BY <2>1 DEF VadersRules, VadersCounts
  <2>4. \A at \in {game.shot, game.bullet} \ {VA!None} :
             at[1] \in 0..(VADERS.Width - 1) /\ at[2] \in 1..(VADERS.Height - 1)
    BY <2>1 DEF VadersRules, VadersAims, OnScreen
  <2>5. VA!WinEarned
    BY <2>2, <2>3, <2>4 DEF VA!WinEarned
  <2> QED
    BY <1>3, <2>5 DEF RulesKept
<1>4. CASE unit = "hunter"
  <2>1. HunterRules(game)
    BY <1>4 DEF GameRules
  <2>2. game.dead = HU!Cardinality(game.hit)
    BY <2>1, SameCount DEF HunterRules
  <2>3. /\ game.hit \subseteq 0..(HUNTER.NbMonsters - 1)
        /\ game.monsters \in -1..HUNTER.NbMonsters
        /\ game.fin <=> game.monsters = HUNTER.NbMonsters
        /\ game.alive => game.monsters \notin game.hit
    BY <2>1 DEF HunterRules, HunterGame
  <2>4. HU!Tally
    BY <2>2, <2>3 DEF HU!Tally
  <2> QED
    BY <1>4, <2>4 DEF RulesKept
<1>5. CASE unit = "skate"
  <2>1. SK!CrashPaysNothing
    BY <1>5 DEF GameRules, SkateRules, SkateCounts, SkateTypes, SkateLands, SkatePays,
                SK!CrashPaysNothing
  <2> QED
    BY <1>5, <2>1 DEF RulesKept
<1>6. CASE unit \notin {"pong", "yakanoid", "vaders", "hunter", "skate"}
  BY <1>6 DEF RulesKept
<1> QED
  BY <1>1, <1>2, <1>3, <1>4, <1>5, <1>6

\* The rules of every game hold in every frame, on fields of every size, for every
\* speed and every row of targets (pong.c, yakanoid.c, vaders.c, hunter.c, skater.c).
THEOREM RulesAlwaysKept == Spec => []RulesKept
<1>1. Init => GameRules
  BY InitRules
<1>2. GameRules /\ [Next]_vars => GameRules'
  BY NextRules
<1>3. GameRules => RulesKept
  BY RulesMean
<1> QED
  BY <1>1, <1>2, <1>3, PTL DEF Spec
=============================================================================
