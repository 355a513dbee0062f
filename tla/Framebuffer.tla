---------------------------- MODULE Framebuffer -----------------------------
(***************************************************************************)
(* LcdRgb: lines, circles, rectangles and characters on a framebuffer that *)
(* is mapped into memory, with all drawing done by FbDrawPixel except that *)
(* of characters, which FbPutChar writes itself.                           *)
(*                                                                         *)
(* A screen is what the kernel says of it: xres, yres, bpp (bits of a      *)
(* pixel), line (bytes of a line), smem (bytes of the device's memory) and *)
(* the offsets xoffset, yoffset.  What is drawn is a set of writes: place, *)
(* number of bytes and value.                                              *)
(***************************************************************************)
EXTENDS Integers, Sequences, FiniteSetsExt

AbsOf(x) == IF x < 0 THEN -x ELSE x
SignOf(x) == IF x > 0 THEN 1 ELSE IF x < 0 THEN -1 ELSE 0

Write(at, len, value) == [at |-> at, len |-> len, value |-> value]

-----------------------------------------------------------------------------
(* Init: what is mapped, a screen's worth of bytes, and the two widths that *)
(* FbDrawPixel uses.                                                        *)
Mapped(s) == (s.xres * s.yres * s.bpp) \div 8
LineWidth(s) == (s.xres * s.bpp) \div 8
PixelWidth(s) == s.bpp \div 8

(* 24 bits of colour to 5, 6 and 5. *)
Rgb565(color) ==
  2048 * ((color \div 524288) % 32) + 32 * ((color \div 1024) % 64)
    + ((color \div 8) % 32)

(* FbDrawPixel has no check of x and y, and nothing for 24 bits. *)
FbDrawPixel(s, x, y, color) ==
  LET at == y * LineWidth(s) + x * PixelWidth(s)
  IN CASE s.bpp = 8 -> {Write(at, 1, color % 256)}
       [] s.bpp = 16 -> {Write(at, 2, Rgb565(color))}
       [] s.bpp = 32 -> {Write(at, 4, color)}
       [] OTHER -> {}

Draw(s, points, color) == UNION {FbDrawPixel(s, p[1], p[2], color) : p \in points}

-----------------------------------------------------------------------------
(* FbDrawLine: both coordinates collect their difference in each round and  *)
(* go one on when what they have collected is more than the longer one.     *)

Longer(x1, y1, x2, y2) == Max({AbsOf(x2 - x1), AbsOf(y2 - y1)})

(* One coordinate of a round, and of the rounds from 0 to last. *)
Round(r, c1, c2, distance) ==
  LET err == r.err + AbsOf(c2 - c1)
  IN IF err > distance
       THEN [at |-> r.at + SignOf(c2 - c1), err |-> err - distance]
     ELSE [at |-> r.at, err |-> err]

Along(c1, c2, distance, last) ==
  LET round[t \in 0 .. last] ==
        IF t = 0 THEN [at |-> c1, err |-> 0]
        ELSE LET r == round[t - 1] IN Round(r, c1, c2, distance)
  IN round

Rounds(x1, y1, x2, y2, last) ==
  LET distance == Longer(x1, y1, x2, y2)
      x == Along(x1, x2, distance, last)
      y == Along(y1, y2, distance, last)
  IN {<<x[t].at, y[t].at>> : t \in 0 .. last}

(* LinePoints with one round less (a mutant). *)
LinePointsShort(x1, y1, x2, y2) ==
  Rounds(x1, y1, x2, y2, Longer(x1, y1, x2, y2))

LinePoints(x1, y1, x2, y2) ==
  Rounds(x1, y1, x2, y2, Longer(x1, y1, x2, y2) + 1)

FbDrawLine(s, x1, y1, x2, y2, color) ==
  Draw(s, LinePoints(x1, y1, x2, y2), color)

FbDrawRectangle(s, x1, y1, x2, y2, color) ==
  FbDrawLine(s, x1, y1, x2, y1, color) \union FbDrawLine(s, x1, y1, x1, y2, color)
    \union FbDrawLine(s, x1, y2, x2, y2, color)
    \union FbDrawLine(s, x2, y1, x2, y2, color)

-----------------------------------------------------------------------------
(* FbDrawCircle: an eighth of it, from the top to the diagonal, and the     *)
(* other seven.  For a radius of 0 or less the loop has no end.             *)

(* A round: one on, unless that leaves the circle, then one down. *)
Onward(p, r) ==
  IF (p[1] + 1) * (p[1] + 1) + p[2] * p[2] > r * r THEN <<p[1], p[2] - 1>>
  ELSE <<p[1] + 1, p[2]>>

(* The points before it is below the diagonal, which is so after r rounds. *)
Arc(r) ==
  LET round[t \in 0 .. r] ==
        IF t = 0 THEN <<0, r>> ELSE LET p == round[t - 1] IN Onward(p, r)
  IN {p \in {round[t] : t \in 0 .. r} : 2 * p[2] * p[2] >= r * r}

CirclePoints(x, y, r) ==
  UNION {{<<x + i * p[1], y + j * p[2]>>, <<x + i * p[2], y + j * p[1]>>} :
           p \in Arc(r), i \in {-1, 1}, j \in {-1, 1}}

FbDrawCircle(s, x, y, r, color) == Draw(s, CirclePoints(x, y, r), color)

FillScreenSolid(s, color) ==
  Draw(s, (0 .. s.xres - 1) \X (0 .. s.yres - 1), color)

-----------------------------------------------------------------------------
(* Characters: a glyph is a set of <<column, row>> in 0 .. 7.               *)

TextAt(s, x, y) ==
  (x + s.xoffset) * (s.bpp \div 8) + (y + s.yoffset) * s.line

(* The case of 8 bits runs on into that of 16, and that of 24 writes 32. *)
FbPutChar(s, x, y, glyph, color) ==
  LET places == {TextAt(s, x + g[1], y + g[2]) : g \in glyph}
      len == IF s.bpp \in {8, 16} THEN 2 ELSE 4
  IN {Write(at, len, IF len = 2 THEN color % 65536 ELSE color) :
        at \in {p \in places : p >= 0 /\ p < s.smem}}

FbClearArea(s, x, y, w, h) ==
  {Write(TextAt(s, x, y + i), (w * s.bpp) \div 8, 0) : i \in 0 .. h - 1}

(* FbPutString and, of its digits, FbPutValue: up to maxlen characters, over
   clearlen cells if clear. *)
FbPutString(s, x, y, glyphs, maxlen, color, clear, clearlen) ==
  (IF clear THEN FbClearArea(s, x, y, 8 * clearlen, 8) ELSE {})
    \union UNION {FbPutChar(s, x + 8 * (i - 1), y, glyphs[i], color) :
                    i \in 1 .. Min({Len(glyphs), maxlen})}

FbPutValue(s, x, y, digits, maxlen, color, clear, clearlen) ==
  FbPutString(s, x, y, digits, maxlen, color, clear, clearlen)
=============================================================================
