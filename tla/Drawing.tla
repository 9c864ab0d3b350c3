------------------------------ MODULE Drawing ------------------------------
(***************************************************************************)
(* What the drawing functions paint: those of the ROMs, libk/graphic.c, in *)
(* the back buffer that draw_end shows, and those of the kernel,           *)
(* k/libvga.c, on the screen itself.  A function gives the set of the      *)
(* places of the buffer it writes; colours are left out.                   *)
(***************************************************************************)
EXTENDS Integers, Sequences, FiniteSets
LOCAL INSTANCE FiniteSetsExt

CONSTANTS
    Width, Height,  \* of the screen, 320 and 200
    Half,           \* u16 coordinates are below 2 * Half
    Cell,           \* of a character, 8
    Font            \* of each character: its lit pixels, <<row, column>>

Pixel(x, y) == y * Width + x
Total == Width * Height
OnScreen(x, y) == x \in 0..(Width - 1) /\ y \in 0..(Height - 1)
Between(a, b) == a..(b - 1)
Abs(n) == IF n < 0 THEN -n ELSE n

-----------------------------------------------------------------------------
(* graphic.c.  A negative coordinate is a large unsigned: off the screen.  *)

draw_pixel(x, y) == IF OnScreen(x, y) THEN {Pixel(x, y)} ELSE {}

\* The sloping lines: one pixel for every step along the longer side, from
\* the end with the smaller coordinate, the other end left out.
BugSlope(x1, y1, x2, y2) == {<<x, y1 + (x - x1)>> : x \in Between(x1, x2)}
Slope(x1, y1, x2, y2) ==
    LET dx == x2 - x1
        dy == Abs(y2 - y1)
        ystep == IF y1 < y2 THEN 1 ELSE -1
        at[x \in x1..x2] ==
            IF x = x1 THEN [y |-> y1, error |-> -(dx \div 2)]
            ELSE LET last == at[x - 1]
                     error == last.error + dy
                 IN  IF error > 0 THEN [y |-> last.y + ystep, error |-> error - dx]
                     ELSE [y |-> last.y, error |-> error]
    IN  {<<x, at[x].y>> : x \in Between(x1, x2)}
Rising(x1, y1, x2, y2) ==
    IF x1 > x2 THEN Slope(x2, y2, x1, y1) ELSE Slope(x1, y1, x2, y2)

LinePoints(x1, y1, x2, y2) ==
    IF ~OnScreen(x1, y1) \/ ~OnScreen(x2, y2) THEN {}
    ELSE IF x1 = x2 THEN {<<x1, i>> : i \in Between(y1, y2)}
    ELSE IF y1 = y2 THEN {<<i, y1>> : i \in Between(x1, x2)}
    ELSE IF Abs(y2 - y1) > Abs(x2 - x1)
    THEN {<<p[2], p[1]>> : p \in Rising(y1, x1, y2, x2)}
    ELSE Rising(x1, y1, x2, y2)

Painted(points) == UNION {draw_pixel(p[1], p[2]) : p \in points}
draw_line(x1, y1, x2, y2) == Painted(LinePoints(x1, y1, x2, y2))

Least(a, b) == IF a < b THEN a ELSE b

draw_rect(x1, y1, x2, y2) ==
    Painted(Between(x1, Least(x2, Width)) \X {y1, y2}
            \cup {x1, x2} \X Between(y1, Least(y2, Height)))

draw_fillrect(x1, y1, x2, y2) ==
    [border |-> Painted(Between(x1, Least(x2, Width)) \X {y1, y2}
                        \cup {x1, x2} \X Between(y1, Least(y2 + 1, Height))),
     interior |-> Painted(Between(x1 + 1, Least(x2, Width))
                          \X Between(y1 + 1, Least(y2, Height)))]

\* Rows are stored from the bottom up; the pixels of the colour alpha are not
\* painted.  `data' is a sequence of rows, the first one the lowest.
draw_image_alpha(data, x, y, alpha) ==
    UNION {draw_pixel(x + j - 1, y + Len(data) - i + 1) :
              <<i, j>> \in {<<k, l>> \in (DOMAIN data) \X (DOMAIN data[1]) :
                              alpha # data[k][l]}}
draw_image(data, x, y) == draw_image_alpha(data, x, y, -1)

\* Every pixel of the cells is painted unless it shows a background of -1;
\* nothing keeps the text on the screen.
draw_text(text, x, y, see_through) ==
    {Pixel(x + (strp - 1) * Cell + j, y + i) :
        <<strp, i, j>> \in {<<s, k, l>> \in (DOMAIN text) \X Between(0, Cell) \X Between(0, Cell) :
                              see_through => <<k, l>> \in Font[text[s]]}}

-----------------------------------------------------------------------------
(* libvga.c.  Only the place in the buffer is tested: what is beyond the   *)
(* right side of a row is painted at the left of the next.                 *)

U16(n) == n % (2 * Half)
VGA_graphics_put_pixel(x, y) ==
    LET index == Pixel(U16(x), U16(y)) IN IF index < Total THEN {index} ELSE {}
Put(points) == UNION {VGA_graphics_put_pixel(p[1], p[2]) : p \in points}

VGA_graphics_draw_line(x1, y1, x2, y2) ==
    IF y1 = y2 THEN Put((x1..x2) \X {y1})
    ELSE IF x1 = x2 THEN Put({x1} \X (y1..y2)) ELSE {}

VGA_graphics_draw_rect(x, y, width, height) ==
    VGA_graphics_draw_line(x, y, x + width, y)
    \cup VGA_graphics_draw_line(x, y, x, y + height)
    \cup VGA_graphics_draw_line(x + width, y, x + width, y + height)
    \cup VGA_graphics_draw_line(x, y + height, x + width, y + height)

VGA_graphics_fill_rect(x, y, width, height) ==
    VGA_graphics_draw_rect(x, y, width, height)
    \cup UNION {VGA_graphics_draw_line(x, y + i, x + width, y + i) : i \in Between(0, height)}

\* Bresenham's circle: the points of one octant, up to the first one beyond
\* the diagonal, and their images in the other seven.
Octant(radius) ==
    LET at[n \in Nat] ==
            IF n = 0 THEN [y |-> radius, d |-> 3 - 2 * radius]
            ELSE LET last == at[n - 1]
                 IN  IF last.d > 0
                     THEN [y |-> last.y - 1, d |-> last.d + 4 * (n - last.y + 1) + 10]
                     ELSE [y |-> last.y, d |-> last.d + 4 * n + 6]
        inside == {n \in 0..(radius + 1) : at[n].y >= n}
    IN  {<<n, at[n].y>> : n \in inside \cup {Max(inside) + 1}}
CirclePoints(radius) ==
    {<<sx * p[1], sy * p[2]>> : sx \in {-1, 1}, sy \in {-1, 1},
                                p \in Octant(radius) \cup {<<q[2], q[1]>> : q \in Octant(radius)}}
VGA_graphics_draw_circle(x, y, radius) ==
    Put({<<x + p[1], y + p[2]>> : p \in CirclePoints(radius)})

-----------------------------------------------------------------------------
(* The references.                                                         *)

\* A sloping line has one point for each step of its longer side, no point is
\* further than half a step from the true line, and all are within its ends; a
\* straight one that runs up or to the left has none.
LineRight(x1, y1, x2, y2) ==
    LET dx == x2 - x1
        dy == y2 - y1
        longer == IF Abs(dx) > Abs(dy) THEN Abs(dx) ELSE Abs(dy)
        points == LinePoints(x1, y1, x2, y2)
        straight == dx = 0 \/ dy = 0
    IN  /\ Cardinality(points) = (IF straight /\ dx + dy < 0 THEN 0 ELSE longer)
        /\ \A p \in points :
              /\ 2 * Abs(dx * (p[2] - y1) - dy * (p[1] - x1)) <= longer + 1
              /\ p[1] >= Least(x1, x2) /\ p[1] <= x1 + x2 - Least(x1, x2)
              /\ p[2] >= Least(y1, y2) /\ p[2] <= y1 + y2 - Least(y1, y2)

\* A rectangle with its corners on the screen: outline, interior, and the one
\* of the kernel, cover exactly their pixels.
RectRight(x1, y1, x2, y2) ==
    LET box == Painted((x1..x2) \X (y1..y2))
        frame == Painted({p \in (x1..x2) \X (y1..y2) : p[1] \in {x1, x2} \/ p[2] \in {y1, y2}})
        filled == draw_fillrect(x1, y1, x2, y2)
    IN  x1 < x2 /\ y1 < y2 =>
        /\ filled.border = frame /\ filled.interior = box \ frame
        /\ draw_rect(x1, y1, x2, y2) = frame \ {Pixel(x2, y2)}
        /\ VGA_graphics_fill_rect(x1, y1, x2 - x1, y2 - y1) = box
        /\ VGA_graphics_draw_rect(x1, y1, x2 - x1, y2 - y1) = frame

\* An image covers its rectangle, from one row below y, its first row the
\* lowest, but for the pixels of the colour alpha; a text that fits covers its
\* cells, or the lit pixels of its characters.
PictureRight(data, text, x, y) ==
    LET height == Len(data)
        width == Len(data[1])
        box == (x..(x + width - 1)) \X ((y + 1)..(y + height))
        cells == (x..(x + Cell * Len(text) - 1)) \X (y..(y + Cell - 1))
        lit(p) == <<p[2] - y, (p[1] - x) % Cell>> \in Font[text[(p[1] - x) \div Cell + 1]]
    IN  /\ draw_image(data, x, y) = Painted(box)
        /\ \A alpha \in {data[i][j] : i \in 1..height, j \in 1..width} :
              draw_image_alpha(data, x, y, alpha) =
                  Painted({p \in box : data[y + height - p[2] + 1][p[1] - x + 1] # alpha})
        /\ x + Cell * Len(text) <= Width /\ y + Cell <= Height =>
              /\ draw_text(text, x, y, FALSE) = Painted(cells)
              /\ draw_text(text, x, y, TRUE) = Painted({p \in cells : lit(p)})

\* A circle: no point is a step outside it, or two inside, and none of them, on
\* the screen or off it, is painted elsewhere unless it is beyond the right side.
CircleRight(x, y, radius) ==
    /\ \A p \in CirclePoints(radius) :
          /\ p[1] * p[1] + p[2] * p[2] <= (radius + 1) * (radius + 1)
          /\ radius > 1 => p[1] * p[1] + p[2] * p[2] >= (radius - 2) * (radius - 2)
    /\ x + radius < Width =>
         VGA_graphics_draw_circle(x, y, radius) =
             Painted({<<x + p[1], y + p[2]>> : p \in CirclePoints(radius)})
=============================================================================
