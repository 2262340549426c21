----------------------------- MODULE DrawProofs -----------------------------
(***************************************************************************)
(* Theorems about draw_line(), for lines of any length in any direction.   *)
(* Everything rests on what the error term means: it tells how far the     *)
(* point is off the ideal line, and how far it still has to go.            *)
(***************************************************************************)
EXTENDS Font, Recursion, TLAPS, FiniteSetTheorems

(* The steps made along each axis.                                         *)
a == Dist(start.x, x)
b == Dist(start.y, y)

Typed ==
    /\ drawing \in BOOLEAN
    /\ start \in [x : Nat, y : Nat] /\ end \in [x : Nat, y : Nat]
    /\ x \in Int /\ y \in Int /\ err \in Int

ErrMeans == drawing => err = (dx - dy) - a * dy + b * dx

IInv == Typed /\ LineInBox /\ ErrMeans

-----------------------------------------------------------------------------
LEMMA OneMore == ASSUME NEW m \in Int, NEW k \in Int PROVE (m + 1) * k = m * k + k
  BY SMT

LEMMA AtLeast == ASSUME NEW m \in Nat, NEW k \in Nat, m >= 1 PROVE m * k >= k
  BY SMT

LEMMA Spread == ASSUME NEW m \in Int, NEW j \in Int, NEW k \in Int
                PROVE (m - j) * k = m * k - j * k
  BY SMT

(* A coordinate that moves has not reached its end: the reason why a line  *)
(* stays in its box.                                                       *)
LEMMA MovesOnlyInside ==
  ASSUME NEW w \in Nat, NEW h \in Nat, NEW i \in Nat, NEW j \in Nat, NEW e \in Int,
         i <= w, j <= h, ~(i = w /\ j = h),
         e = (w - h) - i * h + j * w
  PROVE  /\ 2 * e > -h => i < w
         /\ 2 * e < w => j < h
<1>1. ASSUME i = w, 2 * e > -h PROVE FALSE
  <2>1. h - j \in Nat /\ h - j >= 1
    BY <1>1
  <2>2. (h - j) * w >= w
    BY <2>1, AtLeast
  <2>3. (h - j) * w = h * w - j * w
    BY Spread
  <2>4. i * h = h * w
    BY <1>1
  <2>5. h * w \in Int /\ j * w \in Int
    OBVIOUS
  <2> QED
    BY <1>1, <2>2, <2>3, <2>4, <2>5
<1>2. ASSUME j = h, 2 * e < w PROVE FALSE
  <2>1. w - i \in Nat /\ w - i >= 1
    BY <1>2
  <2>2. (w - i) * h >= h
    BY <2>1, AtLeast
  <2>3. (w - i) * h = w * h - i * h
    BY Spread
  <2>4. j * w = w * h
    BY <1>2
  <2>5. w * h \in Int /\ i * h \in Int
    OBVIOUS
  <2> QED
    BY <1>2, <2>2, <2>3, <2>4, <2>5
<1> QED
  BY <1>1, <1>2

(* One axis: a step towards the end adds one to the distance covered.      *)
LEMMA Towards ==
  ASSUME NEW s \in Nat, NEW t \in Nat, NEW c \in Int, Between(s, c, t)
  PROVE  /\ Dist(s, c) \in Nat /\ Dist(s, t) \in Nat
         /\ Dist(s, c) <= Dist(s, t)
         /\ Dist(s, c) = Dist(s, t) <=> c = t
         /\ Dist(s, c) < Dist(s, t) =>
               LET d == IF s < t THEN 1 ELSE -1
               IN  /\ Dist(s, c + d) = Dist(s, c) + 1
                   /\ Between(s, c + d, t)
                   /\ c + d \in Int
  BY DEF Between, Dist

-----------------------------------------------------------------------------
LEMMA OriginIsPoint == Origin \in [x : Nat, y : Nat]
  BY DEF Origin

LEMMA InitIInv == DrawIdle => IInv
<1> SUFFICES ASSUME DrawIdle PROVE IInv
  OBVIOUS
<1>1. ~drawing /\ drawing \in BOOLEAN
  BY Zenon DEF DrawIdle
<1>2. start = Origin /\ end = Origin /\ x = 0 /\ y = 0 /\ err = 0
  BY DEF DrawIdle
<1>3. Typed
  BY <1>1, <1>2, OriginIsPoint DEF Typed
<1> QED
  BY <1>1, <1>3 DEF IInv, LineInBox, ErrMeans

LEMMA CallIInv == ASSUME IInv, NEW s \in Points, NEW e \in Points, draw_line(s, e)
                  PROVE IInv'
<1>1. s \in [x : Nat, y : Nat] /\ e \in [x : Nat, y : Nat]
  BY PointsAssumption
<1>2. drawing' = TRUE /\ start' = s /\ end' = e /\ x' = s.x /\ y' = s.y
      /\ err' = Dist(s.x, e.x) - Dist(s.y, e.y)
  BY DEF draw_line
<1>3. s.x \in Nat /\ s.y \in Nat /\ e.x \in Nat /\ e.y \in Nat
  BY <1>1
<1>4. Typed'
  BY <1>1, <1>2, <1>3 DEF Typed, Dist
<1>5. LineInBox'
  BY <1>2, <1>3 DEF LineInBox, Between
<1>6. a' = 0 /\ b' = 0 /\ dx' = Dist(s.x, e.x) /\ dy' = Dist(s.y, e.y)
  BY <1>2, <1>3 DEF a, b, dx, dy, Dist
<1>7. Dist(s.x, e.x) \in Int /\ Dist(s.y, e.y) \in Int
  BY <1>3 DEF Dist
<1>8. ErrMeans'
  BY <1>2, <1>6, <1>7 DEF ErrMeans
<1> QED
  BY <1>4, <1>5, <1>8 DEF IInv

(* A turn moves each coordinate as its test says, one step towards the end.*)
LEMMA TurnMoves ==
  ASSUME IInv, line_turn
  PROVE  /\ a \in Nat /\ b \in Nat /\ dx \in Nat /\ dy \in Nat /\ dx' = dx /\ dy' = dy
         /\ err = (dx - dy) - a * dy + b * dx /\ ~(dx = 0 /\ dy = 0)
         /\ IF StepsX THEN a' = a + 1 ELSE a' = a
         /\ IF StepsY THEN b' = b + 1 ELSE b' = b
         /\ Between(start.x, x', end.x) /\ x' \in Int
         /\ Between(start.y, y', end.y) /\ y' \in Int
<1>1. drawing /\ drawing' = drawing /\ start' = start /\ end' = end /\ ~AtEnd
  BY DEF line_turn
<1>2. start.x \in Nat /\ start.y \in Nat /\ end.x \in Nat /\ end.y \in Nat
      /\ x \in Int /\ y \in Int /\ err \in Int
  BY DEF IInv, Typed
<1>3. Between(start.x, x, end.x) /\ Between(start.y, y, end.y)
  BY <1>1 DEF IInv, LineInBox
<1>4. /\ a \in Nat /\ dx \in Nat /\ a <= dx /\ (a = dx <=> x = end.x)
      /\ a < dx => /\ Dist(start.x, x + sx) = a + 1
                   /\ Between(start.x, x + sx, end.x) /\ x + sx \in Int
  BY <1>2, <1>3, Towards DEF a, dx, sx
<1>5. /\ b \in Nat /\ dy \in Nat /\ b <= dy /\ (b = dy <=> y = end.y)
      /\ b < dy => /\ Dist(start.y, y + sy) = b + 1
                   /\ Between(start.y, y + sy, end.y) /\ y + sy \in Int
  BY <1>2, <1>3, Towards DEF b, dy, sy
<1>6. err = (dx - dy) - a * dy + b * dx
  BY <1>1 DEF IInv, ErrMeans
<1>7. ~(a = dx /\ b = dy)
  BY <1>1, <1>4, <1>5 DEF AtEnd
<1>8. (2 * err > -dy => a < dx) /\ (2 * err < dx => b < dy)
  BY <1>2, <1>4, <1>5, <1>6, <1>7, MovesOnlyInside
<1>9. dx' = dx /\ dy' = dy
  BY <1>1 DEF dx, dy
<1>10. /\ IF StepsX THEN a' = a + 1 ELSE a' = a
       /\ Between(start.x, x', end.x) /\ x' \in Int
  BY <1>1, <1>2, <1>3, <1>4, <1>8 DEF line_turn, StepsX, a
<1>11. /\ IF StepsY THEN b' = b + 1 ELSE b' = b
       /\ Between(start.y, y', end.y) /\ y' \in Int
  BY <1>1, <1>2, <1>3, <1>5, <1>8 DEF line_turn, StepsY, b
<1>12. ~(dx = 0 /\ dy = 0)
  BY <1>4, <1>5, <1>7
<1> QED
  BY <1>4, <1>5, <1>6, <1>9, <1>10, <1>11, <1>12

LEMMA TurnIInv == ASSUME IInv, line_turn PROVE IInv'
<1>1. drawing /\ drawing' = drawing /\ start' = start /\ end' = end
  BY DEF line_turn
<1>2. err \in Int
  BY DEF IInv, Typed
<1>3. /\ a \in Nat /\ b \in Nat /\ dx \in Nat /\ dy \in Nat /\ dx' = dx /\ dy' = dy
      /\ err = (dx - dy) - a * dy + b * dx
      /\ IF StepsX THEN a' = a + 1 ELSE a' = a
      /\ IF StepsY THEN b' = b + 1 ELSE b' = b
  BY TurnMoves
<1>4. /\ Between(start.x, x', end.x) /\ x' \in Int
      /\ Between(start.y, y', end.y) /\ y' \in Int
  BY TurnMoves
<1>5. err' = err - (IF StepsX THEN dy ELSE 0) + (IF StepsY THEN dx ELSE 0)
  BY DEF line_turn
<1>6. (a + 1) * dy = a * dy + dy /\ (b + 1) * dx = b * dx + dx
  BY <1>3, OneMore
<1>7. a * dy \in Int /\ b * dx \in Int
  BY <1>3
<1>8. a' * dy = a * dy + (IF StepsX THEN dy ELSE 0)
  BY <1>3, <1>6, <1>7
<1>9. b' * dx = b * dx + (IF StepsY THEN dx ELSE 0)
  BY <1>3, <1>6, <1>7
<1>10. err' = (dx - dy) - a' * dy + b' * dx /\ err' \in Int
  <2> DEFINE u == IF StepsX THEN dy ELSE 0
             v == IF StepsY THEN dx ELSE 0
             m == a * dy
             k == b * dx
  <2>1. u \in Int /\ v \in Int /\ m \in Int /\ k \in Int
    BY <1>3, <1>7
  <2>2. err = (dx - dy) - m + k /\ err' = err - u + v /\ a' * dy = m + u /\ b' * dx = k + v
    BY <1>3, <1>5, <1>8, <1>9
  <2> HIDE DEF u, v, m, k
  <2> QED
    BY <1>3, <2>1, <2>2
<1>11. Typed'
  BY <1>1, <1>4, <1>10 DEF IInv, Typed
<1>12. LineInBox'
  BY <1>1, <1>4 DEF LineInBox
<1>13. ErrMeans'
  BY <1>3, <1>10 DEF ErrMeans
<1> QED
  BY <1>11, <1>12, <1>13 DEF IInv

LEMMA BreakIInv == ASSUME line_break PROVE IInv'
<1>1. ~drawing' /\ drawing' \in BOOLEAN
  BY Zenon DEF line_break
<1>2. start' = Origin /\ end' = Origin /\ x' = 0 /\ y' = 0 /\ err' = 0
  BY DEF line_break
<1>3. Typed'
  BY <1>1, <1>2, OriginIsPoint DEF Typed
<1> QED
  BY <1>1, <1>3 DEF IInv, LineInBox, ErrMeans

LEMMA StutterIInv == ASSUME IInv, UNCHANGED locals PROVE IInv'
  BY DEF locals, IInv, Typed, LineInBox, ErrMeans, a, b, dx, dy

LEMMA Inductive == DrawSpec => []IInv
<1>1. IInv /\ [DrawNext]_locals => IInv'
  BY CallIInv, TurnIInv, BreakIInv, StutterIInv DEF DrawNext
<1> QED
  BY InitIInv, <1>1, PTL DEF DrawSpec

(* draw_line() leaves the box between its two ends for no pair of points.  *)
THEOREM StaysInBox == DrawSpec => []LineInBox
<1>1. IInv => LineInBox
  BY DEF IInv
<1> QED
  BY Inductive, <1>1, PTL

-----------------------------------------------------------------------------
(* How far off the ideal line a point is, with its sign: the error term    *)
(* compares it with half the length, so it never gets past that.           *)
off == a * dy - b * dx

Near == drawing => /\ 2 * off <= dx \/ 2 * off <= dy
                   /\ -(2 * off) <= dx \/ -(2 * off) <= dy

LEMMA Nothing == \A k \in Nat : 0 * k = 0
  BY SMT

(* Along a diagonal there is no error at all.                              *)
LEMMA Multiple == ASSUME NEW m \in Int, NEW k \in Nat, 2 * (m * k) <= k, -(2 * (m * k)) <= k
                  PROVE m * k = 0
<1>1. CASE k = 0
  BY <1>1
<1>2. ASSUME k > 0, m >= 1 PROVE FALSE
  BY <1>2, AtLeast
<1>3. ASSUME k > 0, m <= -1 PROVE FALSE
  <2>1. (-m) * k >= k
    BY <1>3, AtLeast
  <2>2. (-m) * k = -(m * k)
    OBVIOUS
  <2> QED
    BY <1>3, <2>1, <2>2
<1>4. CASE m = 0
  BY <1>4
<1> QED
  BY <1>1, <1>2, <1>3, <1>4

LEMMA StepsNear ==
  ASSUME NEW w \in Nat, NEW h \in Nat, NEW d \in Int,
         2 * d <= w \/ 2 * d <= h, -(2 * d) <= w \/ -(2 * d) <= h,
         w = h => d = 0,
         NEW e \in Int, e = (w - h) - d, ~(w = 0 /\ h = 0),
         NEW d1 \in Int,
         d1 = d + (IF 2 * e > -h THEN h ELSE 0) - (IF 2 * e < w THEN w ELSE 0)
  PROVE  /\ 2 * d1 <= w \/ 2 * d1 <= h
         /\ -(2 * d1) <= w \/ -(2 * d1) <= h
  BY SMT

(* The error term is the distance from the ideal line, shifted.            *)
LEMMA ErrIsOff ==
  ASSUME IInv, Near, drawing
  PROVE  /\ off \in Int /\ err \in Int /\ dx \in Nat /\ dy \in Nat
         /\ err = (dx - dy) - off
         /\ dx = dy => off = 0
<1>1. start.x \in Nat /\ start.y \in Nat /\ end.x \in Nat /\ end.y \in Nat
      /\ x \in Int /\ y \in Int /\ err \in Int
  BY DEF IInv, Typed
<1>2. a \in Nat /\ b \in Nat /\ dx \in Nat /\ dy \in Nat
  BY <1>1 DEF a, b, dx, dy, Dist
<1>3. a * dy \in Int /\ b * dx \in Int
  BY <1>2
<1>4. off \in Int
  BY <1>3 DEF off
<1>5. err = (dx - dy) - off
  BY <1>1, <1>2, <1>3 DEF off, IInv, ErrMeans
<1>6. dx = dy => off = 0
  <2> HAVE dx = dy
  <2>1. off = (a - b) * dx
    BY <1>2, Spread DEF off
  <2> QED
    BY <1>2, <2>1, Multiple DEF Near
<1> QED
  BY <1>1, <1>2, <1>4, <1>5, <1>6

LEMMA TurnNear == ASSUME IInv, IInv', Near, line_turn PROVE Near'
<1>1. drawing /\ drawing' = drawing /\ start' = start /\ end' = end /\ ~AtEnd
  BY DEF line_turn
<1>2. start.x \in Nat /\ start.y \in Nat /\ end.x \in Nat /\ end.y \in Nat
      /\ x \in Int /\ y \in Int /\ err \in Int /\ x' \in Int /\ y' \in Int /\ err' \in Int
  BY DEF IInv, Typed
<1>3. a \in Nat /\ b \in Nat /\ dx \in Nat /\ dy \in Nat
  BY <1>2 DEF a, b, dx, dy, Dist
<1>4. a' \in Int /\ b' \in Int
  BY <1>1, <1>2 DEF a, b, Dist
<1>5. dx' = dx /\ dy' = dy
  BY <1>1 DEF dx, dy
<1>6. a * dy \in Int /\ b * dx \in Int /\ a' * dy \in Int /\ b' * dx \in Int
  BY <1>3, <1>4
<1>7. off \in Int /\ off' \in Int
  BY <1>5, <1>6 DEF off
<1>8. err = (dx - dy) - off /\ off = (dx - dy) - err
  BY <1>1, <1>2, <1>3, <1>7, ErrIsOff
<1>9. off' = (dx - dy) - err'
  BY <1>1, <1>2, <1>3, <1>5, <1>6 DEF off, IInv, ErrMeans
<1>10. off' = off + (IF 2 * err > -dy THEN dy ELSE 0) - (IF 2 * err < dx THEN dx ELSE 0)
  <2> DEFINE u == IF 2 * err > -dy THEN dy ELSE 0
             v == IF 2 * err < dx THEN dx ELSE 0
  <2>1. err' = err - u + v
    BY DEF line_turn, StepsX, StepsY
  <2>2. u \in Int /\ v \in Int
    BY <1>3
  <2> HIDE DEF u, v
  <2>3. off' = (dx - dy) - (err - u + v)
    BY <1>9, <2>1
  <2>4. off + u - v = (dx - dy) - (err - u + v)
    BY <1>2, <1>3, <1>8, <2>2
  <2>5. off' = off + u - v
    BY <2>3, <2>4
  <2> QED
    BY <2>5 DEF u, v
<1>11. dx = dy => off = 0
  BY <1>1, ErrIsOff
<1>12. ~(dx = 0 /\ dy = 0)
  BY TurnMoves
<1>13. /\ 2 * off <= dx \/ 2 * off <= dy
       /\ -(2 * off) <= dx \/ -(2 * off) <= dy
  BY <1>1 DEF Near
<1>14. /\ 2 * off' <= dx \/ 2 * off' <= dy
       /\ -(2 * off') <= dx \/ -(2 * off') <= dy
  BY <1>2, <1>3, <1>7, <1>8, <1>10, <1>11, <1>12, <1>13, StepsNear
<1> QED
  BY <1>5, <1>14 DEF Near

LEMMA CallNear == ASSUME NEW s \in Points, NEW e \in Points, draw_line(s, e)
                  PROVE Near'
<1>1. s.x \in Nat /\ s.y \in Nat /\ e.x \in Nat /\ e.y \in Nat
  BY PointsAssumption
<1>2. start' = s /\ end' = e /\ x' = s.x /\ y' = s.y
  BY DEF draw_line
<1>3. a' = 0 /\ b' = 0 /\ dx' \in Nat /\ dy' \in Nat
  BY <1>1, <1>2 DEF a, b, dx, dy, Dist
<1>4. off' = 0
  <2>1. a' * dy' = 0
    BY <1>3, Nothing
  <2>2. b' * dx' = 0
    BY <1>3, Nothing
  <2>3. off' = a' * dy' - b' * dx'
    BY DEF off
  <2>4. off' = 0 - 0
    BY <2>1, <2>2, <2>3
  <2> QED
    BY <2>4
<1> QED
  BY <1>3, <1>4 DEF Near

(* What the error term bounds is the distance of LineNearest.              *)
LEMMA NearIsNearest == ASSUME IInv, Near PROVE LineNearest
<1> SUFFICES ASSUME drawing PROVE 2 * Off <= Longer
  BY DEF LineNearest
<1>1. start.x \in Nat /\ start.y \in Nat /\ end.x \in Nat /\ end.y \in Nat
      /\ x \in Int /\ y \in Int
  BY DEF IInv, Typed
<1>2. a \in Nat /\ b \in Nat /\ dx \in Nat /\ dy \in Nat
  BY <1>1 DEF a, b, dx, dy, Dist
<1>3. a * dy \in Int /\ b * dx \in Int
  BY <1>2
<1>4. Off = off \/ Off = -off
  BY <1>3 DEF Off, off, a, b, Dist
<1>5. off \in Int
  BY <1>3 DEF off
<1> QED
  BY <1>2, <1>4, <1>5 DEF Near, Longer

LEMMA AlwaysNear == DrawSpec => []Near
<1>1. DrawIdle => Near
  BY DEF DrawIdle, Near
<1>2. ASSUME IInv, IInv', Near, [DrawNext]_locals PROVE Near'
  <2>1. CASE UNCHANGED locals
    BY <1>2, <2>1 DEF locals, Near, off, a, b, dx, dy
  <2>2. CASE line_break
    BY <2>2 DEF line_break, Near
  <2> QED
    BY <1>2, <2>1, <2>2, CallNear, TurnNear DEF DrawNext
<1> QED
  BY <1>1, <1>2, Inductive, PTL DEF DrawSpec

(* Every pixel of a line is the one nearest to the ideal line on its       *)
(* column or row, or one of two as near, for all points.                   *)
THEOREM PaintsNearest == DrawSpec => []LineNearest
<1>1. IInv /\ Near => LineNearest
  BY NearIsNearest
<1> QED
  BY <1>1, Inductive, AlwaysNear, PTL

-----------------------------------------------------------------------------
(* The pixels themselves. A point on the screen has an entry of            *)
(* framebuffer, and one of its own.                                        *)
LEMMA InScreen ==
  ASSUME NEW r \in 0..(LCD_HEIGHT - 1), NEW c \in 0..(LCD_WIDTH - 1)
  PROVE  r * LCD_WIDTH + c \in 0..(LCD_WIDTH * LCD_HEIGHT - 1)
<1> DEFINE w == LCD_WIDTH
           h == LCD_HEIGHT
<1>1. w \in Nat /\ h \in Nat /\ r \in Nat /\ c \in Nat /\ h - r \in Nat /\ h - r >= 1 /\ c < w
  BY ScreenAssumption
<1> HIDE DEF w, h
<1>2. (h - r) * w >= w
  BY <1>1, AtLeast
<1>3. (h - r) * w = h * w - r * w
  BY <1>1, Spread
<1>4. h * w = w * h /\ h * w \in Nat /\ r * w \in Nat
  BY <1>1
<1>5. r * w + c \in 0..(w * h - 1)
  BY <1>1, <1>2, <1>3, <1>4
<1> QED
  BY <1>5 DEF w, h

LEMMA OwnEntry ==
  ASSUME NEW w \in Nat, NEW r \in Nat, NEW s \in Nat,
         NEW c \in 0..(w - 1), NEW d \in 0..(w - 1), r * w + c = s * w + d
  PROVE  r = s /\ c = d
<1>1. ASSUME NEW i \in Nat, NEW j \in Nat, NEW k \in 0..(w - 1), NEW l \in 0..(w - 1),
             i > j
      PROVE  i * w + k # j * w + l
  <2>1. i - j \in Nat /\ i - j >= 1
    BY <1>1
  <2>2. (i - j) * w >= w
    BY <2>1, AtLeast
  <2>3. (i - j) * w = i * w - j * w
    BY Spread
  <2>4. i * w \in Int /\ j * w \in Int
    OBVIOUS
  <2> QED
    BY <2>2, <2>3, <2>4
<1>2. ~(r > s) /\ ~(s > r)
  BY <1>1
<1>3. r = s
  BY <1>2
<1>4. r * w \in Int
  OBVIOUS
<1> QED
  BY <1>3, <1>4

LEMMA PixelsOnScreen ==
  ASSUME NEW x0, NEW y0
  PROVE  /\ Clipped(x0, y0) \subseteq 0..(LCD_WIDTH * LCD_HEIGHT - 1)
         /\ \A width, height :
               RectPixels(x0, y0, width, height) \subseteq 0..(LCD_WIDTH * LCD_HEIGHT - 1)
  BY InScreen DEF Clipped, RectPixels

-----------------------------------------------------------------------------
(* A line on the screen: each turn moves along the longer axis, so what it *)
(* has painted are as many pixels as it has made steps, all behind it.     *)
Made == IF dx > dy THEN a ELSE b
Reached(px, py) == IF dx > dy THEN Dist(start.x, px) ELSE Dist(start.y, py)

Painted ==
    drawing /\ OnScreen(start) /\ OnScreen(end) =>
        /\ IsFiniteSet(lit) /\ Cardinality(lit) = Made
        /\ \A e \in lit : \E px \in 0..(LCD_WIDTH - 1), py \in 0..(LCD_HEIGHT - 1) :
              e = py * LCD_WIDTH + px /\ Reached(px, py) < Made

LEMMA LongerSteps ==
  ASSUME IInv, Near, line_turn
  PROVE  IF dx > dy THEN StepsX ELSE StepsY
<1>1. /\ off \in Int /\ err \in Int /\ dx \in Nat /\ dy \in Nat
      /\ err = (dx - dy) - off
      /\ dx = dy => off = 0
  BY ErrIsOff DEF line_turn
<1>2. ~(dx = 0 /\ dy = 0)
  BY TurnMoves
<1>3. /\ 2 * off <= dx \/ 2 * off <= dy
      /\ -(2 * off) <= dx \/ -(2 * off) <= dy
  BY DEF Near, line_turn
<1>4. dx > dy => 2 * err > -dy
  BY <1>1, <1>3
<1>5. dx <= dy => 2 * err < dx
  BY <1>1, <1>2, <1>3
<1> QED
  BY <1>1, <1>4, <1>5 DEF StepsX, StepsY

(* A point of the box of a line on the screen is on the screen.            *)
LEMMA BoxOnScreen ==
  ASSUME IInv, drawing, OnScreen(start), OnScreen(end)
  PROVE  x \in 0..(LCD_WIDTH - 1) /\ y \in 0..(LCD_HEIGHT - 1)
<1>1. start.x \in Nat /\ start.y \in Nat /\ end.x \in Nat /\ end.y \in Nat
      /\ x \in Int /\ y \in Int
  BY DEF IInv, Typed
<1>2. Between(start.x, x, end.x) /\ Between(start.y, y, end.y)
  BY DEF IInv, LineInBox
<1> QED
  BY <1>1, <1>2, ScreenAssumption DEF Between, OnScreen

LEMMA TurnPaints == ASSUME IInv, Near, Painted, line_turn PROVE Painted'
<1> SUFFICES ASSUME drawing', OnScreen(start)', OnScreen(end)' PROVE Painted!2'
  BY DEF Painted
<1>1. drawing /\ start' = start /\ end' = end /\ OnScreen(start) /\ OnScreen(end)
  BY DEF line_turn, OnScreen
<1>2. x \in 0..(LCD_WIDTH - 1) /\ y \in 0..(LCD_HEIGHT - 1)
  BY <1>1, BoxOnScreen
<1> DEFINE new == y * LCD_WIDTH + x
<1>3. lit' = lit \cup {new}
  BY <1>2 DEF line_turn, put_pixel, Clipped
<1>4. /\ IsFiniteSet(lit) /\ Cardinality(lit) = Made
      /\ \A e \in lit : \E px \in 0..(LCD_WIDTH - 1), py \in 0..(LCD_HEIGHT - 1) :
            e = py * LCD_WIDTH + px /\ Reached(px, py) < Made
  BY <1>1 DEF Painted
<1>5. a \in Nat /\ b \in Nat /\ dx \in Nat /\ dy \in Nat /\ dx' = dx /\ dy' = dy
      /\ Made \in Nat /\ Made' = Made + 1
  BY TurnMoves, LongerSteps DEF Made
<1>6. Reached(x, y) = Made
  BY DEF Reached, Made, a, b
<1>7. ASSUME NEW px \in 0..(LCD_WIDTH - 1), NEW py \in 0..(LCD_HEIGHT - 1)
      PROVE  Reached(px, py)' = Reached(px, py) /\ Reached(px, py) \in Int
  <2>1. start.x \in Nat /\ start.y \in Nat
    BY DEF IInv, Typed
  <2> QED
    BY <1>1, <1>5, <2>1 DEF Reached, Dist
<1>8. new \notin lit
  <2> SUFFICES ASSUME new \in lit PROVE FALSE
    OBVIOUS
  <2>1. PICK px \in 0..(LCD_WIDTH - 1), py \in 0..(LCD_HEIGHT - 1) :
           new = py * LCD_WIDTH + px /\ Reached(px, py) < Made
    BY <1>4
  <2>2. py = y /\ px = x
    BY <1>2, <2>1, OwnEntry, ScreenAssumption
  <2> QED
    BY <1>5, <1>6, <2>1, <2>2
<1>9. IsFiniteSet(lit') /\ Cardinality(lit') = Made'
  BY <1>3, <1>4, <1>5, <1>8, FS_AddElement
<1>10. ASSUME NEW e \in lit'
       PROVE  \E px \in 0..(LCD_WIDTH - 1), py \in 0..(LCD_HEIGHT - 1) :
                 e = py * LCD_WIDTH + px /\ Reached(px, py)' < Made'
  <2>1. PICK px \in 0..(LCD_WIDTH - 1), py \in 0..(LCD_HEIGHT - 1) :
           e = py * LCD_WIDTH + px /\ Reached(px, py) <= Made
    BY <1>2, <1>3, <1>4, <1>5, <1>6, <1>7
  <2>2. Reached(px, py)' < Made'
    BY <1>5, <1>7, <2>1
  <2> QED
    BY <2>1, <2>2
<1> QED
  BY <1>9, <1>10

LEMMA CallPaints == ASSUME NEW s \in Points, NEW e \in Points, draw_line(s, e)
                    PROVE Painted'
<1>1. s.x \in Nat /\ s.y \in Nat
  BY PointsAssumption
<1>2. start' = s /\ x' = s.x /\ y' = s.y /\ lit' = {}
  BY DEF draw_line
<1>3. a' = 0 /\ b' = 0
  BY <1>1, <1>2 DEF a, b, Dist
<1> QED
  BY <1>2, <1>3, FS_EmptySet DEF Painted, Made

-----------------------------------------------------------------------------
(* Fonts. The directory gives every table its place.                       *)
TablesOf(bytes) == [i \in 1..U16(bytes, 4) |-> [id |-> U32(bytes, 16 * i - 4),
                                               offset |-> U32(bytes, 16 * i + 4)]]

LEMMA TableFound ==
  ASSUME NEW bytes, Directory(bytes), tables = TablesOf(bytes), NEW tag \in TAGS
  PROVE  Offset(tag) = Place(bytes, tag)
<1> DEFINE last == U16(bytes, 4)
           Id(i) == U32(bytes, 16 * i - 4)
           At(i) == U32(bytes, 16 * i + 4)
<1>1. PICK k \in 1..last : \A j \in 1..last : Id(j) = tag <=> j = k
  BY DEF Directory
<1>0. last \in Nat
  BY DEF Directory
<1>2. tables = [i \in 1..last |-> [id |-> Id(i), offset |-> At(i)]]
  BY DEF TablesOf
<1>3. Place(bytes, tag) = At(CHOOSE i \in 1..last : Id(i) = tag)
  BY DEF Place
<1> HIDE DEF last, Id, At
<1>4. (CHOOSE i \in 1..last : Id(i) = tag) = k
  BY <1>1
<1>5. get_table_id(tag) = k
  <2>1. /\ DOMAIN tables = 1..last
        /\ \A i \in 1..last : tables[i].id = Id(i) /\ tables[i].offset = At(i)
    BY <1>2
  <2>2. \A j \in 1..(k - 1) : tables[j].id # tag
    <3> TAKE j \in 1..(k - 1)
    <3>1. j \in 1..last /\ j # k
      BY <1>0
    <3> QED
      BY <1>1, <2>1, <3>1
  <2> QED
    BY <1>1, <2>1, <2>2 DEF get_table_id
<1>6. tables[k].offset = At(k)
  BY <1>1, <1>2
<1> QED
  BY <1>3, <1>4, <1>5, <1>6 DEF Offset

(* What has been loaded at each point.                                     *)
Fields == {"units_per_em", "index_to_loc_format", "num_glyphs", "segments", "end_code",
           "start_code", "id_delta", "num_hor_metrics", "advance_width",
           "left_side_bearing", "offsets", "glyf", "cursor_x", "cursor_y"}

OfFile ==
    /\ at # "none" => raw_file \in Fonts
    /\ at \in {"head", "cmap", "metrics", "loca", "text"} => tables = TablesOf(raw_file.bytes)
    /\ DOMAIN font = Fields

HasHead ==
    at \in {"cmap", "metrics", "loca", "text"} =>
        /\ font.units_per_em = raw_file.face.units_per_em
        /\ font.num_glyphs = raw_file.face.num_glyphs
        /\ font.index_to_loc_format # 0

HasCharacters ==
    at \in {"metrics", "loca", "text"} =>
        \A c \in DOMAIN raw_file.face.glyph :
            Plain(raw_file.bytes, c) => glyph_index(c) \in Drawable(raw_file, c)

HasMetrics ==
    at \in {"loca", "text"} =>
        \A g \in 0..(raw_file.face.num_glyphs - 1) :
            /\ advance_width(g) = raw_file.face.advance[g]
            /\ font.left_side_bearing[g] = raw_file.face.bearing[g]

HasPlaces ==
    at = "text" =>
        /\ \A g \in 0..(raw_file.face.num_glyphs - 1) :
              font.offsets[g] = raw_file.face.offsets[g]
        /\ font.glyf = Place(raw_file.bytes, GLYF)
        /\ text \in Seq(DOMAIN raw_file.face.glyph)

DrawnSo == (drawn # <<>> => at = "text") /\ DrawsItsGlyph

FontInv == OfFile /\ HasHead /\ HasCharacters /\ HasMetrics /\ HasPlaces /\ DrawnSo

LEMMA FontInit == FontIdle => FontInv
  BY DEF FontIdle, NO_FONT, Fields, FontInv, OfFile, HasHead, HasCharacters, HasMetrics,
         HasPlaces, DrawnSo, DrawsItsGlyph

LEMMA FontBegins == ASSUME FontInv, NEW f \in Fonts, get_font(f) PROVE FontInv'
<1>1. at' = "directory" /\ raw_file' = f /\ font' = font /\ drawn' = drawn /\ at = "none"
  BY DEF get_font, Goes
<1> QED
  BY <1>1 DEF FontInv, OfFile, HasHead, HasCharacters, HasMetrics,
              HasPlaces, DrawnSo, DrawsItsGlyph

LEMMA FontStutters == ASSUME FontInv, UNCHANGED fvars PROVE FontInv'
  BY DEF fvars, FontInv, OfFile, HasHead, HasCharacters, HasMetrics, HasPlaces, DrawnSo,
         DrawsItsGlyph, Drawable, glyph_index, Supports, advance_width

(* The tables of a file are where the format has them.                     *)
LEMMA Described ==
  ASSUME FontInv, at # "none"
  PROVE  /\ raw_file \in Fonts
         /\ Glyphs(raw_file.bytes, raw_file.face)
         /\ Boxes(raw_file.bytes, raw_file.face)
         /\ Characters(raw_file.bytes, raw_file.face)
         /\ Texts \subseteq Seq(DOMAIN raw_file.face.glyph)
         /\ tables = TablesOf(raw_file.bytes) =>
               \A tag \in TAGS : Offset(tag) = Place(raw_file.bytes, tag)
<1>1. raw_file \in Fonts
  BY DEF FontInv, OfFile
<1>2. Directory(raw_file.bytes)
  BY <1>1, FontAssumption
<1> QED
  BY <1>1, <1>2, FontAssumption, TableFound

LEMMA DirectoryRead == ASSUME FontInv, read_directory PROVE FontInv'
<1>1. /\ at = "directory" /\ at' = "head" /\ raw_file' = raw_file /\ font' = font
      /\ drawn' = drawn /\ tables' = TablesOf(raw_file.bytes)
  BY DEF read_directory, Goes, TablesOf, read_uint16, read_uint32
<1> QED
  BY <1>1 DEF FontInv, OfFile, HasHead, HasCharacters, HasMetrics, HasPlaces, DrawnSo,
              DrawsItsGlyph

LEMMA HeadRead == ASSUME FontInv, read_head_maxp PROVE FontInv'
<1>1. /\ at = "head" /\ at' = "cmap" /\ raw_file' = raw_file /\ tables' = tables
      /\ drawn' = drawn
      /\ font' = [font EXCEPT !.units_per_em = read_uint16(Offset(HEAD) + 18),
                              !.index_to_loc_format = read_int16(Offset(HEAD) + 42),
                              !.num_glyphs = read_uint16(Offset(MAXP) + 4)]
  BY DEF read_head_maxp, Goes
<1>2. /\ Offset(HEAD) = Place(raw_file.bytes, HEAD)
      /\ Offset(MAXP) = Place(raw_file.bytes, MAXP)
  BY <1>1, Described DEF FontInv, OfFile, TAGS
<1>3. /\ DOMAIN font' = Fields
      /\ font'.units_per_em = read_uint16(Offset(HEAD) + 18)
      /\ font'.index_to_loc_format = read_int16(Offset(HEAD) + 42)
      /\ font'.num_glyphs = read_uint16(Offset(MAXP) + 4)
  BY <1>1 DEF FontInv, OfFile, Fields
<1>4. /\ font'.units_per_em = raw_file.face.units_per_em
      /\ font'.num_glyphs = raw_file.face.num_glyphs
      /\ font'.index_to_loc_format # 0
  BY <1>1, <1>2, <1>3, Described DEF Glyphs, read_uint16, read_int16
<1> QED
  BY <1>1, <1>3, <1>4 DEF FontInv, OfFile, HasHead, HasCharacters, HasMetrics, HasPlaces,
                          DrawnSo, DrawsItsGlyph

LEMMA FormatRefused == ASSUME FontInv, invalid_format PROVE FontInv'
<1>1. /\ at' = "invalid" /\ at = "cmap" /\ raw_file' = raw_file /\ font' = font
      /\ drawn' = drawn
  BY DEF invalid_format, Goes
<1> QED
  BY <1>1 DEF FontInv, OfFile, HasHead, HasCharacters, HasMetrics, HasPlaces, DrawnSo,
              DrawsItsGlyph

(* The first segment that has a character between its ends gives the       *)
(* glyph of the face.                                                      *)
GlyphIn(fnt, c) ==
    LET found == {i \in 0..(fnt.segments - 1) : fnt.start_code[i] < c /\ c < fnt.end_code[i]}
    IN  IF found = {} THEN 0
        ELSE (c + fnt.id_delta[CHOOSE i \in found : \A j \in found : i <= j]) % 65536

LEMMA GlyphIsIn == ASSUME NEW c PROVE glyph_index(c) = GlyphIn(font, c)
  BY DEF glyph_index, GlyphIn, Supports

LEMMA GlyphIsInNext == ASSUME NEW c PROVE glyph_index(c)' = GlyphIn(font', c)
  BY DEF glyph_index, GlyphIn, Supports

LEMMA FirstOf == \A S \in SUBSET Nat : S # {} => (CHOOSE i \in S : \A j \in S : i <= j) \in S
<1> SUFFICES ASSUME NEW S \in SUBSET Nat, S # {}
             PROVE  (CHOOSE i \in S : \A j \in S : i <= j) \in S
  OBVIOUS
<1>1. \E i \in S : \A j \in S : i <= j
  BY LeastNatural
<1> QED
  BY <1>1

Segmented(fnt, c, glyph) ==
    /\ fnt.segments \in Int /\ c \in Nat
    /\ \A i \in 0..(fnt.segments - 1) :
          /\ fnt.start_code[i] \in Nat /\ fnt.end_code[i] \in Nat
          /\ c \in fnt.start_code[i]..fnt.end_code[i] =>
                glyph = (c + fnt.id_delta[i]) % 65536

LEMMA GlyphOf ==
  ASSUME NEW fnt, NEW c, NEW glyph, Segmented(fnt, c, glyph)
  PROVE  \/ GlyphIn(fnt, c) = glyph
         \/ /\ GlyphIn(fnt, c) = 0
            /\ ~\E i \in 0..(fnt.segments - 1) : fnt.start_code[i] < c /\ c < fnt.end_code[i]
<1> DEFINE found == {i \in 0..(fnt.segments - 1) : fnt.start_code[i] < c /\ c < fnt.end_code[i]}
           k == CHOOSE i \in found : \A j \in found : i <= j
<1>1. GlyphIn(fnt, c) = IF found = {} THEN 0 ELSE (c + fnt.id_delta[k]) % 65536
  BY DEF GlyphIn
<1>2. ASSUME found # {} PROVE glyph = (c + fnt.id_delta[k]) % 65536
  <2>1. found \in SUBSET Nat
    BY DEF Segmented
  <2> HIDE DEF found
  <2>2. k \in found
    BY <1>2, <2>1, FirstOf
  <2> HIDE DEF k
  <2>3. k \in 0..(fnt.segments - 1) /\ fnt.start_code[k] < c /\ c < fnt.end_code[k]
    BY <2>2 DEF found
  <2>4. fnt.start_code[k] \in Nat /\ fnt.end_code[k] \in Nat
    BY <2>3 DEF Segmented
  <2>5. c \in fnt.start_code[k]..fnt.end_code[k]
    BY <2>3, <2>4 DEF Segmented
  <2> QED
    BY <2>3, <2>5 DEF Segmented
<1>3. found = {} =>
        ~\E i \in 0..(fnt.segments - 1) : fnt.start_code[i] < c /\ c < fnt.end_code[i]
  OBVIOUS
<1> HIDE DEF found, k
<1> QED
  BY <1>1, <1>2, <1>3

(* The subtable get_font() finds is the one of the format.                 *)
SubtableAt(bytes, cmap) ==
    cmap + U32(bytes, cmap + 4 + 8 * (CHOOSE i \in 0..(U16(bytes, cmap + 2) - 1) :
                 U16(bytes, cmap + 4 + 8 * i) = 3
                   /\ \A j \in 0..(i - 1) : ~(U16(bytes, cmap + 4 + 8 * j) = 3)) + 4)

LEMMA SubtableFound ==
  ASSUME Offset(CMAP) = Place(raw_file.bytes, CMAP)
  PROVE  cmap_table = CharacterTable(raw_file.bytes)
<1>1. cmap_table = SubtableAt(raw_file.bytes, Offset(CMAP))
  BY Zenon DEF cmap_table, cmap_table_offset, Subtable, SubtableAt, read_uint16, read_uint32
<1>2. CharacterTable(raw_file.bytes) = SubtableAt(raw_file.bytes, Place(raw_file.bytes, CMAP))
  BY Zenon DEF CharacterTable, SubtableAt
<1> QED
  BY <1>1, <1>2

LEMMA SegmentsRead == ASSUME FontInv, read_segments PROVE FontInv'
<1> DEFINE bytes == raw_file.bytes
           glyph == raw_file.face.glyph
           x2 == read_uint16(cmap_table + 6)
           last == x2 \div 2
           ends == Array(last, 2, cmap_table + Arrays.end)
           starts == Array(last, 2, cmap_table + Arrays.start + x2)
           deltas == Array(last, 2, cmap_table + Arrays.delta + 2 * x2)
<1>1. /\ at = "cmap" /\ at' = "metrics" /\ raw_file' = raw_file /\ tables' = tables
      /\ drawn' = drawn /\ read_uint16(cmap_table) = 4
      /\ font' = [font EXCEPT !.segments = last, !.end_code = ends,
                              !.start_code = starts, !.id_delta = deltas]
  BY DEF read_segments, Goes
<1>2. /\ DOMAIN font' = Fields
      /\ font'.segments = last /\ font'.end_code = ends
      /\ font'.start_code = starts /\ font'.id_delta = deltas
      /\ font'.units_per_em = font.units_per_em /\ font'.num_glyphs = font.num_glyphs
      /\ font'.index_to_loc_format = font.index_to_loc_format
  <2> HIDE DEF last, ends, starts, deltas
  <2> QED
    BY <1>1 DEF FontInv, OfFile, Fields
<1>3. Offset(CMAP) = Place(bytes, CMAP)
  BY <1>1, Described DEF FontInv, OfFile, TAGS
<1>4. cmap_table = CharacterTable(bytes)
  BY <1>3, SubtableFound
<1>5. Characters(bytes, raw_file.face)
  BY <1>1, Described
<1>6. /\ DOMAIN ends = 0..(last - 1) /\ DOMAIN starts = 0..(last - 1)
      /\ \A i \in 0..(last - 1) :
            /\ ends[i] = U16(bytes, cmap_table + 14 + 2 * i)
            /\ starts[i] = U16(bytes, cmap_table + 16 + x2 + 2 * i)
            /\ deltas[i] = U16(bytes, cmap_table + 16 + 2 * x2 + 2 * i)
  <2> HIDE DEF last, x2
  <2> QED
    BY DEF Array, Arrays, read_uint16
<1> DEFINE segments == SegmentsOf(bytes)
<1>7. /\ DOMAIN segments = 0..(last - 1)
      /\ \A i \in 0..(last - 1) : /\ segments[i].start = starts[i]
                                 /\ segments[i].end = ends[i]
                                 /\ segments[i].delta = deltas[i]
  <2>1. x2 = U16(bytes, CharacterTable(bytes) + 6)
    BY <1>4 DEF read_uint16
  <2>2. /\ DOMAIN segments = 0..(last - 1)
        /\ \A i \in 0..(last - 1) :
              /\ segments[i].start = U16(bytes, cmap_table + 16 + x2 + 2 * i)
              /\ segments[i].end = U16(bytes, cmap_table + 14 + 2 * i)
              /\ segments[i].delta = U16(bytes, cmap_table + 16 + 2 * x2 + 2 * i)
    <3> HIDE DEF x2
    <3> QED
      BY <1>4, <2>1 DEF SegmentsOf
  <2> HIDE DEF last, ends, starts, deltas, segments, x2
  <2> QED
    BY <1>6, <2>2
<1>8. ASSUME NEW c \in DOMAIN glyph, Plain(bytes, c)
      PROVE  glyph_index(c)' \in Drawable(raw_file, c)
  <2> DEFINE from(i) == segments[i].start
             to(i) == segments[i].end
  <2>1. /\ DOMAIN glyph \subseteq Nat /\ x2 \in Nat
        /\ \A i \in DOMAIN segments :
              /\ from(i) \in Nat /\ to(i) \in Nat
              /\ c \in from(i)..to(i) => glyph[c] = GlyphOfFormat(bytes, segments[i], c)
    <3>1. U16(bytes, CharacterTable(bytes)) = 4 /\ x2 = U16(bytes, CharacterTable(bytes) + 6)
      BY <1>1, <1>4 DEF read_uint16
    <3> HIDE DEF x2
    <3> QED
      BY <1>5, <3>1 DEF Characters, Holds
  <2>2. \A i \in DOMAIN segments :
           c \in from(i)..to(i) => glyph[c] = (c + segments[i].delta) % 65536
    BY <1>8, <2>1 DEF Plain, Holds, GlyphOfFormat
  <2>3. last \in Int /\ c \in Nat
    BY <2>1
  <2> HIDE DEF last, ends, starts, deltas, x2, segments
  <2>4. font'.segments = last /\ \A i \in 0..(font'.segments - 1) :
           /\ font'.start_code[i] \in Nat /\ font'.end_code[i] \in Nat
           /\ c \in font'.start_code[i]..font'.end_code[i] =>
                 glyph[c] = (c + font'.id_delta[i]) % 65536
    BY <1>2, <1>7, <2>1, <2>2
  <2>5. \/ GlyphIn(font', c) = glyph[c]
        \/ /\ GlyphIn(font', c) = 0
           /\ ~\E i \in 0..(last - 1) : font'.start_code[i] < c /\ c < font'.end_code[i]
    <3>1. Segmented(font', c, glyph[c])
      BY <2>3, <2>4 DEF Segmented
    <3>2. \/ GlyphIn(font', c) = glyph[c]
          \/ /\ GlyphIn(font', c) = 0
             /\ ~\E i \in 0..(font'.segments - 1) :
                   font'.start_code[i] < c /\ c < font'.end_code[i]
      BY <3>1, GlyphOf
    <3> QED
      BY <2>4, <3>2
  <2>6. GlyphIn(font', c) = glyph[c] \/ (GlyphIn(font', c) = 0 /\ ~Inner(bytes, c))
    BY <1>2, <1>7, <2>5 DEF Inner, segments
  <2> QED
    BY <2>6, GlyphIsInNext DEF Drawable
<1>9. at' = "metrics" /\ raw_file' = raw_file
  BY <1>1
<1> HIDE DEF last, x2, ends, starts, deltas, segments
<1>10. HasCharacters'
  BY <1>8, <1>9 DEF HasCharacters
<1> QED
  BY <1>1, <1>2, <1>10 DEF FontInv, OfFile, HasHead, HasMetrics, HasPlaces, DrawnSo, DrawsItsGlyph

LEMMA SegmentsKept ==
  ASSUME font'.segments = font.segments, font'.start_code = font.start_code,
         font'.end_code = font.end_code, font'.id_delta = font.id_delta, NEW c
  PROVE  glyph_index(c)' = glyph_index(c)
<1>1. GlyphIn(font', c) = GlyphIn(font, c)
  BY DEF GlyphIn
<1> QED
  BY <1>1, GlyphIsIn, GlyphIsInNext

LEMMA MetricsRead == ASSUME FontInv, read_metrics PROVE FontInv'
<1> DEFINE bytes == raw_file.bytes
           face == raw_file.face
           n == read_uint16(Offset(HHEA) + 34)
           advance == Array(n, 4, Offset(HMTX))
           bearing == [g \in 0..(font.num_glyphs - 1) |->
                         Int16(read_uint16(IF g < n
                                           THEN Offset(HMTX) + 4 * g + 2
                                           ELSE Offset(HMTX) + 4 * n + 2 * (g - n)))]
<1>1. /\ at = "metrics" /\ at' = "loca" /\ raw_file' = raw_file /\ tables' = tables
      /\ drawn' = drawn
      /\ font' = [font EXCEPT !.num_hor_metrics = n, !.advance_width = advance,
                              !.left_side_bearing = bearing]
  BY DEF read_metrics, Goes
<1>2. /\ DOMAIN font' = Fields
      /\ font'.num_hor_metrics = n /\ font'.advance_width = advance
      /\ font'.left_side_bearing = bearing
      /\ font'.units_per_em = font.units_per_em /\ font'.num_glyphs = font.num_glyphs
      /\ font'.index_to_loc_format = font.index_to_loc_format
      /\ font'.segments = font.segments /\ font'.start_code = font.start_code
      /\ font'.end_code = font.end_code /\ font'.id_delta = font.id_delta
  <2> HIDE DEF n, advance, bearing
  <2> QED
    BY <1>1 DEF FontInv, OfFile, Fields
<1>3. /\ Offset(HHEA) = Place(bytes, HHEA) /\ Offset(HMTX) = Place(bytes, HMTX)
      /\ Glyphs(bytes, face)
  BY <1>1, Described DEF FontInv, OfFile, TAGS
<1>4. font.num_glyphs = face.num_glyphs
  BY <1>1 DEF FontInv, HasHead
<1>5. n = U16(bytes, Place(bytes, HHEA) + 34)
  BY <1>3 DEF read_uint16
<1>6. /\ n \in 1..face.num_glyphs /\ face.num_glyphs \in Nat
      /\ \A g \in 0..(face.num_glyphs - 1) :
            /\ face.advance[g] = U16(bytes, Offset(HMTX) + 4 * (IF g < n THEN g ELSE n - 1))
            /\ face.bearing[g] = Int16(U16(bytes, IF g < n THEN Offset(HMTX) + 4 * g + 2
                                            ELSE Offset(HMTX) + 4 * n + 2 * (g - n)))
  <2> HIDE DEF n
  <2> QED
    BY <1>3, <1>5 DEF Glyphs
<1>7. ASSUME NEW g \in 0..(face.num_glyphs - 1)
      PROVE  advance_width(g)' = face.advance[g] /\ font'.left_side_bearing[g] = face.bearing[g]
  <2>1. font'.left_side_bearing[g] = face.bearing[g]
    <3> HIDE DEF n
    <3> QED
      BY <1>2, <1>4, <1>6 DEF read_uint16
  <2> DEFINE k == IF g < n THEN g ELSE n - 1
  <2>2. k \in 0..(n - 1)
    <3> HIDE DEF n
    <3> QED
      BY <1>6
  <2>3. advance[k] = U16(bytes, Offset(HMTX) + 4 * k)
    <3> HIDE DEF n, k
    <3> QED
      BY <2>2 DEF Array, read_uint16
  <2>4. advance_width(g)' = advance[k]
    <3> HIDE DEF n, advance, bearing
    <3> QED
      BY <1>2 DEF advance_width
  <2> HIDE DEF n, advance
  <2> QED
    BY <1>6, <2>1, <2>3, <2>4
<1>8. HasMetrics'
  <2> HIDE DEF n, advance, bearing
  <2> QED
    BY <1>1, <1>7 DEF HasMetrics
<1>9. HasCharacters'
  <2> HIDE DEF n, advance, bearing
  <2>1. \A c : glyph_index(c)' = glyph_index(c)
    BY <1>2, SegmentsKept
  <2> QED
    BY <1>1, <2>1 DEF FontInv, HasCharacters
<1> HIDE DEF n, advance, bearing
<1> QED
  BY <1>1, <1>2, <1>8, <1>9 DEF FontInv, OfFile, HasHead, HasPlaces, DrawnSo, DrawsItsGlyph

LEMMA LocaRead == ASSUME FontInv, read_loca PROVE FontInv'
<1> DEFINE bytes == raw_file.bytes
           face == raw_file.face
           offsets == [i \in 0..font.num_glyphs |-> LocaOf(i)]
<1>1. /\ at = "loca" /\ at' = "text" /\ raw_file' = raw_file /\ tables' = tables
      /\ drawn' = drawn /\ text' \in Texts
      /\ font' = [font EXCEPT !.offsets = offsets, !.glyf = Offset(GLYF),
                              !.cursor_x = 10, !.cursor_y = 70]
  BY DEF read_loca, Goes
<1>2. /\ DOMAIN font' = Fields
      /\ font'.offsets = offsets /\ font'.glyf = Offset(GLYF)
      /\ font'.units_per_em = font.units_per_em /\ font'.num_glyphs = font.num_glyphs
      /\ font'.index_to_loc_format = font.index_to_loc_format
      /\ font'.num_hor_metrics = font.num_hor_metrics
      /\ font'.advance_width = font.advance_width
      /\ font'.left_side_bearing = font.left_side_bearing
      /\ font'.segments = font.segments /\ font'.start_code = font.start_code
      /\ font'.end_code = font.end_code /\ font'.id_delta = font.id_delta
  <2> HIDE DEF offsets
  <2> QED
    BY <1>1 DEF FontInv, OfFile, Fields
<1>3. /\ Offset(LOCA) = Place(bytes, LOCA) /\ Offset(GLYF) = Place(bytes, GLYF)
      /\ Glyphs(bytes, face) /\ Texts \subseteq Seq(DOMAIN face.glyph)
  BY <1>1, Described DEF FontInv, OfFile, TAGS
<1>4. font.num_glyphs = face.num_glyphs /\ font.index_to_loc_format # 0
  BY <1>1 DEF FontInv, HasHead
<1>5. ASSUME NEW g \in 0..(face.num_glyphs - 1)
      PROVE  offsets[g] = face.offsets[g]
  <2>1. face.num_glyphs \in Nat /\ face.offsets[g] = U32(bytes, Place(bytes, LOCA) + 4 * g)
    BY <1>3 DEF Glyphs
  <2> QED
    BY <1>3, <1>4, <2>1 DEF LocaOf, read_uint32
<1> HIDE DEF offsets
<1>6. HasPlaces'
  BY <1>1, <1>2, <1>3, <1>5 DEF HasPlaces
<1>7. HasCharacters'
  <2>1. \A c : glyph_index(c)' = glyph_index(c)
    BY <1>2, SegmentsKept
  <2> QED
    BY <1>1, <2>1 DEF FontInv, HasCharacters
<1>8. HasMetrics'
  BY <1>1, <1>2 DEF FontInv, HasMetrics, advance_width
<1> QED
  BY <1>1, <1>2, <1>6, <1>7, <1>8 DEF FontInv, OfFile, HasHead, DrawnSo, DrawsItsGlyph

(* The glyphs of a character that have an outline are drawn in its box.    *)
LEMMA BoxRead ==
  ASSUME FontInv, at = "text", NEW g \in DOMAIN raw_file.face.box
  PROVE  BoxOf(g) = raw_file.face.box[g]
<1> DEFINE bytes == raw_file.bytes
           face == raw_file.face
           p == Place(bytes, GLYF) + face.offsets[g]
<1>1. Boxes(bytes, face)
  BY Described
<1>2. /\ g \in 0..(face.num_glyphs - 1) /\ p \in Nat /\ Int16(U16(bytes, p)) > 0
      /\ face.box[g] = [x_min |-> Int16(U16(bytes, p + 2)), y_min |-> Int16(U16(bytes, p + 4)),
                        x_max |-> Int16(U16(bytes, p + 6)), y_max |-> Int16(U16(bytes, p + 8))]
  BY <1>1 DEF Boxes
<1>3. font.glyf + font.offsets[g] = p
  BY <1>2 DEF FontInv, HasPlaces
<1> HIDE DEF p
<1>4. BoxAt(g) = p + 2
  BY <1>2, <1>3 DEF BoxAt, read_int16, read_uint16
<1>5. p + 2 + 2 = p + 4 /\ p + 2 + 4 = p + 6 /\ p + 2 + 6 = p + 8
  BY <1>2
<1> QED
  BY <1>2, <1>4, <1>5, Zenon DEF BoxOf, read_int16, read_uint16

LEMMA CharDrawn == ASSUME FontInv, draw_char PROVE FontInv'
<1> DEFINE face == raw_file.face
           c == Head(text)
           g == glyph_index(c)
<1>1. /\ at = "text" /\ at' = at /\ raw_file' = raw_file /\ tables' = tables
      /\ text # <<>> /\ text' = Tail(text)
      /\ drawn' = [c |-> c, glyph |-> g, box |-> BoxOf(g)]
      /\ font' = [font EXCEPT !.cursor_x = @ + Scale(advance_width(g))]
  BY DEF draw_char
<1>2. /\ DOMAIN font' = Fields
      /\ font'.offsets = font.offsets /\ font'.glyf = font.glyf
      /\ font'.units_per_em = font.units_per_em /\ font'.num_glyphs = font.num_glyphs
      /\ font'.index_to_loc_format = font.index_to_loc_format
      /\ font'.num_hor_metrics = font.num_hor_metrics
      /\ font'.advance_width = font.advance_width
      /\ font'.left_side_bearing = font.left_side_bearing
      /\ font'.segments = font.segments /\ font'.start_code = font.start_code
      /\ font'.end_code = font.end_code /\ font'.id_delta = font.id_delta
  BY <1>1 DEF FontInv, OfFile, Fields
<1>3. text \in Seq(DOMAIN face.glyph)
  BY <1>1 DEF FontInv, HasPlaces
<1>4. c \in DOMAIN face.glyph /\ text' \in Seq(DOMAIN face.glyph)
  BY <1>1, <1>3
<1>5. Plain(raw_file.bytes, c) => g \in Drawable(raw_file, c)
  BY <1>1, <1>4 DEF FontInv, HasCharacters
<1>6. g \in DOMAIN face.box => BoxOf(g) = face.box[g]
  BY <1>1, BoxRead
<1> HIDE DEF c, g
<1>7. drawn'.c = c /\ drawn'.glyph = g /\ drawn'.box = BoxOf(g)
  BY <1>1
<1>8. DrawnSo'
  BY <1>1, <1>5, <1>6, <1>7 DEF DrawnSo, DrawsItsGlyph
<1>9. HasCharacters'
  <2>1. \A d : glyph_index(d)' = glyph_index(d)
    BY <1>2, SegmentsKept
  <2> QED
    BY <1>1, <2>1 DEF FontInv, HasCharacters
<1>10. HasMetrics'
  BY <1>1, <1>2 DEF FontInv, HasMetrics, advance_width
<1>11. HasPlaces'
  BY <1>1, <1>2, <1>4 DEF FontInv, HasPlaces
<1> QED
  BY <1>1, <1>2, <1>8, <1>9, <1>10, <1>11 DEF FontInv, OfFile, HasHead

LEMMA FontForgotten == ASSUME Sleeps PROVE FontInv'
<1>1. at' = "none" /\ font' = NO_FONT /\ drawn' = <<>>
  BY DEF Sleeps
<1> QED
  BY <1>1 DEF FontInv, OfFile, HasHead, HasCharacters, HasMetrics, HasPlaces, DrawnSo,
              DrawsItsGlyph, NO_FONT, Fields

LEMMA FontKept ==
  ASSUME FontInv, [(\E f \in Fonts : get_font(f)) \/ Loading \/ draw_char \/ Sleeps]_fvars
  PROVE  FontInv'
<1>1. CASE \E f \in Fonts : get_font(f)
  BY <1>1, FontBegins
<1>2. CASE Loading
  BY <1>2, DirectoryRead, HeadRead, FormatRefused, SegmentsRead, MetricsRead, LocaRead
     DEF Loading
<1>3. CASE draw_char
  BY <1>3, CharDrawn
<1>4. CASE Sleeps
  BY <1>4, FontForgotten
<1>5. CASE UNCHANGED fvars
  BY <1>5, FontStutters
<1> QED
  BY <1>1, <1>2, <1>3, <1>4, <1>5

(* What is loaded is the face of the file.                                 *)
LEMMA FaceLoaded == ASSUME FontInv PROVE LoadsFace
  BY DEF FontInv, HasHead, HasMetrics, HasPlaces, LoadsFace
=============================================================================
