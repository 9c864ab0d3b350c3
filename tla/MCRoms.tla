------------------------------- MODULE MCRoms -------------------------------
(* The games on small fields.                                              *)
EXTENDS Roms

MCPong ==
    [Width |-> 40, Height |-> 30, BarWidth |-> 4, BarHalf |-> 6, Ball |-> 4, Core |-> 3,
     Touch |-> 2, Step |-> 5, Speed |-> 2, LaterSpeed |-> 3, Standby |-> 2]
MCYakanoid ==
    [Rows |-> 2, Columns |-> 3, BrickWidth |-> 6, BrickHeight |-> 3, Left |-> 2, Ball |-> 1,
     BarHalf |-> 3, Step |-> 2, Middle |-> 11, Start |-> 12, Floor |-> 14, Lives |-> 2,
     Above |-> 4]
MCVaders ==
    [Width |-> 13, Height |-> 12, Half |-> 1, Deck |-> 10, Muzzle |-> 11, Step |-> 5,
     BoxX |-> 3, BoxY |-> 3, SeineStep |-> 5, Fall |-> 4, NbMonsters |-> 2, Cols |-> 1,
     FirstX |-> 3, FirstY |-> -5, GapY |-> 4, NumMove |-> 1]
MCHunter ==
    [Width |-> 20, Height |-> 20, Bush |-> 14, Margin |-> 2, BoxX |-> 5, BoxY |-> 5,
     NbMonsters |-> 2, Pull |-> 1, MouseMoves |-> {-5, 4},
     Flights |-> <<[x |-> 4, dx |-> 1, y |-> 13, dy |-> -5],
                   [x |-> 16, dx |-> -3, y |-> 13, dy |-> -4]>>]
MCLauncher ==
    [Quarter |-> 4, Turn |-> 2, Angle |-> 2, FullPower |-> 4, PowerStep |-> 2, FootX |-> 1,
     FootY |-> 5, Ground |-> 2, DivX |-> 8, DivY |-> 6, Fall |-> 3, Loss |-> 2,
     Gravity |-> 1, MaxGravity |-> 2, Far |-> 4, High |-> 8]
MCSkate ==
    [ParkBegin |-> <<"NO_BOX", "BOX", "BOX_UP">>,
     ParkLoop |-> <<"NO_BOX", "BOX_RAIL", "BOX_RAIL", "BOX_UP", "BOX">>,
     BoxWidth |-> 4, BoxHeight |-> 4, RailHeight |-> 1, Ground |-> 20, Half |-> 2,
     Reach |-> 1, Edge |-> 4, Step |-> 2, JumpLow |-> 2, JumpGain |-> 2, Stopped |-> 3,
     Slowing |-> 4, Flip |-> 2, Rotate |-> 3, Crash |-> 4, FlipWorth |-> 2,
     RotateWorth |-> 3, SlideWorth |-> 1, MaxWorth |-> 4]
=============================================================================
