--------------------------- MODULE MCFramebuffer ----------------------------
(***************************************************************************)
(* What is drawn is held against geometry, on a screen as the code takes   *)
(* it to be: lines without padding, and the picture at the start of the    *)
(* memory.  With longer lines or an offset FbDrawPixel, which looks at     *)
(* neither, and FbPutChar, which looks at both, draw in different places,  *)
(* and text at the bottom can leave what is mapped (common.cc:96 and 118). *)
(***************************************************************************)
EXTENDS Framebuffer

CONSTANTS
  Width, Height,   \* of the screen, in pixels
  Spare,           \* bytes of the device's memory that are not mapped
  DrawInputs       \* bound: what is drawn on it

(* The kernel's answers for such a screen; smem_len, which FbPutChar checks, is
   more than what Init maps where the device has memory for more than a
   screen. *)
Screen(bpp) ==
  [xres |-> Width, yres |-> Height, bpp |-> bpp, line |-> (Width * bpp) \div 8,
   smem |-> (Width * Height * bpp) \div 8 + Spare, xoffset |-> 0, yoffset |-> 0]

Glyph == {<<0, 0>>, <<7, 0>>, <<3, 4>>, <<0, 7>>, <<7, 7>>}

Columns == 0 .. Width - 1
Rows == 0 .. Height - 1

(* Shapes and text that have room on the screen. *)
Drawable(in) ==
  /\ in.bpp \in {16, 32}
  /\ \/ /\ in.kind \in {"line", "rectangle"}
        /\ {in.x1, in.x2} \subseteq Columns /\ {in.y1, in.y2} \subseteq Rows
     \/ /\ in.kind = "circle" /\ in.x \in Int /\ in.y \in Int /\ in.r \in Nat \ {0}
        /\ {in.x - in.r, in.x + in.r} \subseteq Columns
        /\ {in.y - in.r, in.y + in.r} \subseteq Rows
     \/ /\ in.kind \in {"string", "value"} /\ in.clear \in BOOLEAN
        /\ {in.x, in.y, in.n, in.max} \subseteq Nat
        /\ in.x + 8 * in.n <= Width /\ in.y + 8 <= Height
     \/ in.kind = "fill"

(* On a screen of 16 by 12. *)
SomeDrawings ==
  [bpp : {16, 32}, kind : {"line", "rectangle"}, x1 : {0, 7, 15}, y1 : {0, 5, 11},
   x2 : {0, 1, 5, 8, 13, 15}, y2 : {0, 2, 5, 6, 11}]
    \union [bpp : {16, 32}, kind : {"circle"}, x : {7, 9}, y : {5, 6}, r : 1 .. 5]
    \union {t \in [bpp : {16, 32}, kind : {"string", "value"}, x : 0 .. 8, y : 0 .. 4,
                   n : 0 .. 2, max : 0 .. 2, clear : BOOLEAN] :
              t.x + 8 * t.n <= 16}
    \union [bpp : {16, 32}, kind : {"fill"}]

ASSUME ScreenAssumption ==
  /\ Width \in Nat \ {0} /\ Height \in Nat \ {0} /\ Spare \in Nat
  /\ \A in \in DrawInputs : Drawable(in)

White == 16777215

Writes(in) ==
  LET s == Screen(in.bpp)
  IN CASE in.kind = "line" -> FbDrawLine(s, in.x1, in.y1, in.x2, in.y2, White)
       [] in.kind = "rectangle" ->
            FbDrawRectangle(s, in.x1, in.y1, in.x2, in.y2, White)
       [] in.kind = "circle" -> FbDrawCircle(s, in.x, in.y, in.r, White)
       [] in.kind = "string" ->
            FbPutString(s, in.x, in.y, [k \in 1 .. in.n |-> Glyph], in.max, White,
                        in.clear, in.n)
       [] in.kind = "value" ->
            FbPutValue(s, in.x, in.y, [k \in 1 .. in.n |-> Glyph], in.max, White,
                       in.clear, in.n)
       [] in.kind = "fill" -> FillScreenSolid(s, White)

(* The pixels that have become white, and the bytes that have been written. *)
Pixels(in) ==
  LET s == Screen(in.bpp)
  IN {<<(w.at % s.line) \div (s.bpp \div 8), w.at \div s.line>> :
        w \in {w \in Writes(in) : w.value # 0}}
Touched(in) == UNION {w.at .. w.at + w.len - 1 : w \in Writes(in)}

Between(a, b, c) == (a <= b /\ b <= c) \/ (c <= b /\ b <= a)
OnFrame(p, in) ==
  /\ Between(in.x1, p[1], in.x2) /\ Between(in.y1, p[2], in.y2)
  /\ p[1] \in {in.x1, in.x2} \/ p[2] \in {in.y1, in.y2}

(* A line goes from end to end, inside their rectangle, has one pixel in each
   column, or in each row if it is steeper, and none a pixel away from the ideal
   line. *)
IsLine(pixels, in) ==
  LET w == AbsOf(in.x2 - in.x1)
      h == AbsOf(in.y2 - in.y1)
  IN /\ {<<in.x1, in.y1>>, <<in.x2, in.y2>>} \subseteq pixels
     /\ Cardinality(pixels) = Max({w, h}) + 1
     /\ Cardinality({p[IF w >= h THEN 1 ELSE 2] : p \in pixels}) = Max({w, h}) + 1
     /\ \A p \in pixels :
          /\ Between(in.x1, p[1], in.x2) /\ Between(in.y1, p[2], in.y2)
          /\ AbsOf(h * AbsOf(p[1] - in.x1) - w * AbsOf(p[2] - in.y1)) <= Max({w, h})

(* A circle's pixels are on it or up to two inside, there are some in each row
   from its top to the diagonal, and they are the same from all four sides.
   (That the eighths meet is not so: a circle of radius 2 is four points.) *)
IsCircle(pixels, in) ==
  LET ring == {<<p[1] - in.x, p[2] - in.y>> : p \in pixels}
      Square(d) == d[1] * d[1] + d[2] * d[2]
  IN /\ \A d \in ring : Square(d) <= in.r * in.r
     /\ \A d \in ring : in.r < 3 \/ Square(d) > (in.r - 2) * (in.r - 2)
     /\ \A d \in ring : {<<-d[1], d[2]>>, <<d[2], d[1]>>} \subseteq ring
     /\ \A row \in 1 .. in.r :
          2 * row * row >= in.r * in.r => \E d \in ring : d[2] = row

(* The pixels of a text, and the bytes of all of its cells. *)
Letters(in) ==
  {<<in.x + 8 * (k - 1) + g[1], in.y + g[2]>> :
     k \in 1 .. Min({in.n, in.max}), g \in Glyph}
Cells(in) ==
  LET b == in.bpp \div 8
  IN {(in.y + g[2]) * (Width * b) + (in.x + g[1]) * b + k :
        g \in (0 .. 8 * in.n - 1) \X (0 .. 7), k \in 0 .. b - 1}

(* Each shape on the screen is what its name says, and what is written is in
   the memory that is mapped. *)
DrawnRight(in) ==
  LET pixels == Pixels(in)
  IN /\ in.kind = "line" => IsLine(pixels, in)
     /\ in.kind = "rectangle" =>
          pixels = {p \in Columns \X Rows : OnFrame(p, in)}
     /\ in.kind = "circle" => IsCircle(pixels, in)
     /\ in.kind \in {"string", "value"} =>
          /\ pixels = Letters(in)
          /\ in.clear => Touched(in) = Cells(in)
     /\ in.kind = "fill" => Touched(in) = 0 .. Mapped(Screen(in.bpp)) - 1
     /\ Touched(in) \subseteq 0 .. Mapped(Screen(in.bpp)) - 1
=============================================================================
