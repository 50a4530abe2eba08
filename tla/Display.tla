------------------------------ MODULE Display ------------------------------
(***************************************************************************)
(* Drawing on qemu: whoever draws (draw_tile of src/kernel) hands          *)
(* gpu_fbdraw of ioe.c a rectangle of pixels, which is copied to the frame *)
(* buffer row by row, cut off at the right and at the bottom of the        *)
(* screen.  x and y are signed and may be below 0: nothing is cut off      *)
(* there.  Sums and products stay below 2^31.                              *)
(***************************************************************************)
EXTENDS Integers

CONSTANTS
    ScreenW, ScreenH,   \* display.w, display.h
    MaxX, MaxY,         \* bounds on where the program draws, on each side of 0,
    MaxSide             \* and on the sides of what it draws

ASSUME DisplayAssumption == {ScreenW, ScreenH, MaxX, MaxY, MaxSide} \subseteq Nat

VARIABLES
    fb,      \* the frame buffer; a pixel is its place in the pixels drawn, or 0
    strays,  \* places counted from &fb[0] that were written and are not in fb
    draw     \* the rectangle, the row j, and where that row starts in pixels

drawVars == <<fb, strays, draw>>

FbDrawn == draw.j >= draw.h

DisplayInit ==
    /\ fb = [k \in 0 .. ScreenW * ScreenH - 1 |-> 0]
    /\ strays = {}
    /\ draw = [x |-> 0, y |-> 0, w |-> 0, h |-> 0, j |-> 0, pixels |-> 0]

\* gpu_fbdraw is handed a rectangle, which may reach beyond the screen.  One is
\* drawn, on an empty screen.
DrawTile(x, y, w, h) ==
    /\ draw.h = 0
    /\ draw' = [x |-> x, y |-> y, w |-> w, h |-> h, j |-> 0, pixels |-> 0]
    /\ UNCHANGED <<fb, strays>>

\* len: how much of a row is copied.
RowLen(d) == IF d.x + d.w >= ScreenW THEN ScreenW - d.x ELSE d.w

\* Where the row that is next begins, and what is written of it.
RowStart(d) == d.x + (d.y + d.j) * ScreenW

RowCells(d) ==
    IF d.y + d.j < ScreenH THEN RowStart(d) .. RowStart(d) + RowLen(d) - 1 ELSE {}

\* (Mutated form: the rows are as far apart as what is copied of them.)
NextClipped(d) == d.pixels + RowLen(d)

NextRow(d) == d.pixels + d.w

\* An iteration of the outer loop.
DrawRow ==
    /\ ~FbDrawn
    /\ fb' = [k \in DOMAIN fb |-> IF k \in RowCells(draw)
                                 THEN draw.pixels + (k - RowStart(draw)) + 1
                                 ELSE fb[k]]
    /\ strays' = strays \cup (RowCells(draw) \ DOMAIN fb)
    /\ draw' = [draw EXCEPT !.j = @ + 1, !.pixels = NextRow(draw)]

DisplayNext ==
    \/ DrawRow
    \/ \E x \in -MaxX .. MaxX, y \in -MaxY .. MaxY, w, h \in 0 .. MaxSide :
          DrawTile(x, y, w, h)

DisplaySpec == DisplayInit /\ [][DisplayNext]_drawVars

----------------------------------------------------------------------------

DisplayTypeOK ==
    /\ fb \in [0 .. ScreenW * ScreenH - 1 -> Nat]
    /\ strays \subseteq Int
    /\ draw \in [x : Int, y : Int, w : Nat, h : Nat, j : Nat, pixels : Nat]

\* What the pixel in column x and row y of the screen should be.
Wanted(x, y) ==
    IF x \in draw.x .. draw.x + draw.w - 1 /\ y \in draw.y .. draw.y + draw.h - 1
    THEN (y - draw.y) * draw.w + (x - draw.x) + 1
    ELSE 0

\* On the screen, in the columns that no row begun to its left runs into.
DrawnOnScreen ==
    FbDrawn => \A x \in 0 .. ScreenW - 1, y \in 0 .. ScreenH - 1 :
                  x < ScreenW + draw.x => fb[x + y * ScreenW] = Wanted(x, y)

\* Nothing is written behind the end of the frame buffer, and only by
\* rectangles that begin above the screen or to the left of it in front of it.
StraysInFront ==
    \A k \in strays : k < 0 /\ (draw.x < 0 \/ draw.y < 0)

(***************************************************************************)
(* The part of the rectangle that is on the screen shows its own pixels,   *)
(* and nothing else changes: what is cut off at the right does not come    *)
(* out at the left, and the rows stay in step with the pixels.             *)
(* gpu_fbdraw tests neither of its coordinates for being below 0: a        *)
(* rectangle that begins n columns to the left of the screen spoils the n  *)
(* columns at the right, where the row before ends, and only those; it, or *)
(* one that begins above the screen, may be written in front of the frame  *)
(* buffer, but never behind its end.                                       *)
(***************************************************************************)
DrawnIsClipped == DrawnOnScreen /\ StraysInFront
=============================================================================
