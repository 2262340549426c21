-------------------------------- MODULE Draw --------------------------------
(***************************************************************************)
(* Lines and rectangles on the LCD (tasks/display_driver/draw.c,           *)
(* drivers/Express-A9/Express-A9_lcd.c). One turn of the loop of           *)
(* draw_line() is one step; a rectangle is one step.                       *)
(***************************************************************************)
EXTENDS Integers, FiniteSets

CONSTANTS
    LCD_WIDTH, LCD_HEIGHT,   \* the screen, 640 x 480
    Points,                  \* ends of the lines considered: point_t values
    WordMod                  \* number of values of uint32_t: 2^32

ASSUME ScreenAssumption == LCD_WIDTH \in Nat /\ LCD_HEIGHT \in Nat
ASSUME PointsAssumption == Points \subseteq [x : Nat, y : Nat]
ASSUME DrawWordAssumption == WordMod \in Nat \ {0}

VARIABLES
    drawing,      \* draw_line() is running
    start, end,   \* its arguments
    x, y, err,    \* its locals
    lit           \* entries of framebuffer the routine at work has written

locals == <<drawing, start, end, x, y, err>>
dvars == <<drawing, start, end, x, y, err, lit>>

Origin == [x |-> 0, y |-> 0]

DrawIdle ==
    /\ drawing = FALSE
    /\ start = Origin /\ end = Origin
    /\ x = 0 /\ y = 0 /\ err = 0
    /\ lit = {}

-----------------------------------------------------------------------------
Dist_Signed(a, b) == b - a      \* draw.c:5, 6 without the two cases
Dist(a, b) == IF b > a THEN b - a ELSE a - b

dx == Dist(start.x, end.x)
dy == Dist(start.y, end.y)
sx == IF start.x < end.x THEN 1 ELSE -1
sy == IF start.y < end.y THEN 1 ELSE -1

(* put_pixel(): the entries of framebuffer it writes, one or none.         *)
Clipped_Loose(px, py) ==     \* `<=` for `<` in Express-A9_lcd.c:31
    IF px \in 0..LCD_WIDTH /\ py \in 0..LCD_HEIGHT
    THEN {py * LCD_WIDTH + px} ELSE {}

Clipped(px, py) ==
    IF px \in 0..(LCD_WIDTH - 1) /\ py \in 0..(LCD_HEIGHT - 1)
    THEN {py * LCD_WIDTH + px} ELSE {}

put_pixel(px, py) == lit' = lit \cup Clipped(px, py)

draw_line(s, e) ==
    /\ ~drawing
    /\ drawing' = TRUE
    /\ start' = s /\ end' = e
    /\ x' = s.x /\ y' = s.y
    /\ err' = Dist(s.x, e.x) - Dist(s.y, e.y)
    /\ lit' = {}

AtEnd == x = end.x /\ y = end.y

StepsX == 2 * err > -dy
StepsY_Always == 2 * err <= dx + dy  \* a looser test in draw.c:28
StepsY == 2 * err < dx

(* A turn of the loop that does not end it...                              *)
line_turn ==
    /\ drawing
    /\ ~AtEnd
    /\ put_pixel(x, y)
    /\ x' = IF StepsX THEN x + sx ELSE x
    /\ y' = IF StepsY THEN y + sy ELSE y
    /\ err' = err - (IF StepsX THEN dy ELSE 0) + (IF StepsY THEN dx ELSE 0)
    /\ UNCHANGED <<drawing, start, end>>

(* ... and the last one; the caller sees no result, so all is forgotten.   *)
line_break ==
    /\ drawing
    /\ AtEnd
    /\ drawing' = FALSE
    /\ start' = Origin /\ end' = Origin
    /\ x' = 0 /\ y' = 0 /\ err' = 0
    /\ lit' = {}

(* draw_rect(), whose sides and corner are uint32_t: a negative width or   *)
(* height counts as one near 2^32, a negative corner is left of or above   *)
(* the screen.                                                             *)
Covers(from, length, at) == (at - from) % WordMod < length % WordMod

RectPixels(x0, y0, width, height) ==
    {row * LCD_WIDTH + column :
        row \in {r \in 0..(LCD_HEIGHT - 1) : Covers(y0, height, r)},
        column \in {c \in 0..(LCD_WIDTH - 1) : Covers(x0, width, c)}}

DrawNext ==
    \/ \E s, e \in Points : draw_line(s, e)
    \/ line_turn
    \/ line_break

(* What other routines do to framebuffer meanwhile is left open.           *)
DrawSpec == DrawIdle /\ [][DrawNext]_locals

-----------------------------------------------------------------------------
Between(a, b, c) == (a <= b /\ b <= c) \/ (c <= b /\ b <= a)

(* No pixel outside the rectangle whose corners are the two ends, although *)
(* both coordinates move on the sign of one error term (draw.c:21-31).     *)
LineInBox ==
    drawing => Between(start.x, x, end.x) /\ Between(start.y, y, end.y)

(* Twice the distance to the ideal line, measured along the shorter axis   *)
(* and multiplied by the length of the longer one, is at most that length: *)
(* every pixel is the nearest one, or one of the two nearest.              *)
Longer == IF dx > dy THEN dx ELSE dy
Off == Dist(Dist(start.x, x) * dy, Dist(start.y, y) * dx)
LineNearest == drawing => 2 * Off <= Longer

(* A line that fits the screen has one pixel for each step along its       *)
(* longer axis: no gap, no pixel painted aside, none outside framebuffer.  *)
OnScreen(p) == p.x < LCD_WIDTH /\ p.y < LCD_HEIGHT
LineUnbroken ==
    /\ lit \subseteq 0..(LCD_WIDTH * LCD_HEIGHT - 1)
    /\ drawing /\ OnScreen(start) /\ OnScreen(end) =>
          Cardinality(lit) = IF dx > dy THEN Dist(start.x, x) ELSE Dist(start.y, y)
=============================================================================
