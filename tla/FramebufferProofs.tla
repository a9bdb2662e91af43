-------------------------- MODULE FramebufferProofs --------------------------
(***************************************************************************)
(* The pointers of a copy, and the writes of the device, stay inside the    *)
(* framebuffer for every geometry of the screen and every sprite.           *)
(***************************************************************************)
EXTENDS Framebuffer, TLAPS

\* The part that is copied lies within the screen and within the sprite.
ClipInside ==
    /\ sprite_w \in Nat /\ sprite_h \in Nat
    /\ dest_x \in Nat /\ dest_y \in Nat /\ src_x \in Nat /\ src_y \in Nat
    /\ src_w \in Nat /\ src_h \in Nat
    /\ dest_x + src_w <= width /\ dest_y + src_h <= height
    /\ src_x + src_w <= sprite_w /\ src_y + src_h <= sprite_h

\* The loops, and the pointers as functions of the loops.
PointersFollow ==
    /\ y \in Nat /\ y <= src_h
    /\ dest_row = (dest_y + y) * pitch + dest_x * bytes_per_pixel
    /\ src_row = (src_y + y) * sprite_w + src_x

PixelFollows ==
    /\ y < src_h
    /\ x \in Nat /\ x <= src_w
    /\ dest_pixel = dest_row + x * bytes_per_pixel

\* The inductive invariant.
Inv ==
    /\ pc \in {"idle", "row", "pixel"}
    /\ pc # "idle" => ClipInside /\ PointersFollow
    /\ pc = "pixel" => PixelFollows
    /\ WriteIsInside

-----------------------------------------------------------------------------
(* Products.                                                                *)

LEMMA ProductMonotone ==
    ASSUME NEW a \in Nat, NEW b \in Nat, NEW c \in Nat, a <= b
    PROVE  a * c <= b * c
<1>1. PICK d \in Nat : b = a + d
  BY b - a \in Nat
<1>2. b * c = a * c + d * c
  BY <1>1
<1>3. d * c \in Nat
  OBVIOUS
<1> QED BY <1>2, <1>3

LEMMA ProductNat ==
    ASSUME NEW a \in Nat, NEW b \in Nat
    PROVE  a * b \in Nat
OBVIOUS

LEMMA NextMultiple ==
    ASSUME NEW a \in Int, NEW c \in Int
    PROVE  (a + 1) * c = a * c + c
OBVIOUS

LEMMA SumTimes ==
    ASSUME NEW a \in Int, NEW b \in Int, NEW c \in Int
    PROVE  (a + b) * c = a * c + b * c
OBVIOUS

-----------------------------------------------------------------------------

\* Clipping one axis, when the sprite does not miss the screen there: what is left
\* lies within the screen and within the sprite (framebuffer_blit 71-100).
THEOREM ClippedInside ==
    ASSUME NEW dest \in Int, NEW length \in Nat, NEW limit \in Nat,
           ~Misses(dest, length, limit)
    PROVE  /\ Start(dest) \in Nat /\ Skipped(dest) \in Nat
           /\ Clipped(dest, length, limit) \in Nat
           /\ Start(dest) + Clipped(dest, length, limit) <= limit
           /\ Skipped(dest) + Clipped(dest, length, limit) <= length
BY DEF Misses, Start, Skipped, Clipped, Left

LEMMA BlitInv ==
    ASSUME Geometry, Inv, NEW to_x \in Int, NEW to_y \in Int, NEW w \in Nat, NEW h \in Nat,
           framebuffer_blit(to_x, to_y, w, h)
    PROVE  Inv'
<1> USE DEF framebuffer_blit
<1>1. width \in Nat /\ height \in Nat /\ pitch \in Nat /\ bytes_per_pixel \in Nat
  BY DEF Geometry
<1>2. ClipInside'
  <2>1. /\ dest_x' \in Nat /\ src_x' \in Nat /\ src_w' \in Nat
        /\ dest_x' + src_w' <= width /\ src_x' + src_w' <= sprite_w'
    BY <1>1, ClippedInside
  <2>2. /\ dest_y' \in Nat /\ src_y' \in Nat /\ src_h' \in Nat
        /\ dest_y' + src_h' <= height /\ src_y' + src_h' <= sprite_h'
    BY <1>1, ClippedInside
  <2> QED BY <2>1, <2>2 DEF ClipInside
<1>3. PointersFollow'
  BY <1>1, <1>2 DEF ClipInside, PointersFollow
<1>4. WriteIsInside'
  BY DEF Inv, WriteIsInside, size
<1> QED BY <1>2, <1>3, <1>4 DEF Inv

LEMMA InitInv == Init => Inv
BY DEF Init, Inv, WriteIsInside

\* A character of a cell of the terminal is a sprite like any other.
LEMMA CharIsBlit ==
    ASSUME Geometry, NEW cell \in framebuffer_get_dimensions,
           framebuffer_put_char(cell[1], cell[2])
    PROVE  \E to_x, to_y \in Int, w, h \in Nat : framebuffer_blit(to_x, to_y, w, h)
<1>1. /\ FONT8X8_WIDTH \in Nat \ {0} /\ FONT8X8_HEIGHT \in Nat \ {0}
      /\ width \in Nat /\ height \in Nat
  BY DEF Geometry
<1>2. width \div FONT8X8_WIDTH \in Int /\ height \div FONT8X8_HEIGHT \in Int
  BY <1>1
<1>3. cell[1] \in Int /\ cell[2] \in Int
  BY <1>2 DEF framebuffer_get_dimensions
<1>4. cell[1] * FONT8X8_WIDTH \in Int /\ cell[2] * FONT8X8_HEIGHT \in Int
  BY <1>1, <1>3
<1> QED BY <1>1, <1>4 DEF framebuffer_put_char

LEMMA NextInv == ASSUME Geometry, Inv, [Next]_vars PROVE Inv'
<1>0. width \in Nat /\ height \in Nat /\ pitch \in Nat /\ bytes_per_pixel \in Nat
  BY DEF Geometry
<1>1. ASSUME NEW to_x \in Int, NEW to_y \in Int, NEW w \in Nat, NEW h \in Nat,
             framebuffer_blit(to_x, to_y, w, h)
      PROVE  Inv'
  BY <1>1, BlitInv
<1>2. CASE RowStart
  BY <1>0, <1>2 DEF RowStart, callVars, Inv, ClipInside, PointersFollow, PixelFollows,
                    WriteIsInside, size
<1>3. CASE Pixel
  <2> USE <1>3 DEF Pixel, callVars
  <2>1. ClipInside' /\ PointersFollow' /\ WriteIsInside'
    BY DEF Inv, ClipInside, PointersFollow, WriteIsInside, size
  <2>2. x \in Nat /\ x < src_w /\ src_w \in Nat /\ dest_pixel = dest_row + x * bytes_per_pixel
    BY DEF Inv, PixelFollows, ClipInside
  <2>3. dest_row \in Int
    BY <1>0 DEF Inv, PointersFollow, ClipInside
  <2>4. dest_pixel' = dest_row' + x' * bytes_per_pixel
    BY <1>0, <2>2, <2>3, NextMultiple
  <2>5. PixelFollows'
    BY <2>2, <2>4 DEF Inv, PixelFollows
  <2> QED BY <2>1, <2>5 DEF Inv
<1>4. CASE RowEnd
  <2> USE <1>4 DEF RowEnd, callVars
  <2>1. ClipInside' /\ WriteIsInside'
    BY DEF Inv, ClipInside, WriteIsInside, size
  <2>2. /\ dest_y \in Nat /\ src_y \in Nat /\ sprite_w \in Nat /\ dest_x \in Nat /\ src_x \in Nat
        /\ src_h \in Nat /\ y \in Nat /\ y < src_h
    BY DEF Inv, ClipInside, PointersFollow, PixelFollows
  <2>3. (dest_y + y') * pitch = (dest_y + y) * pitch + pitch
    BY <1>0, <2>2, NextMultiple
  <2>4. (src_y + y') * sprite_w = (src_y + y) * sprite_w + sprite_w
    BY <2>2, NextMultiple
  <2>5. PointersFollow'
    BY <1>0, <2>2, <2>3, <2>4, ProductNat DEF Inv, PointersFollow
  <2> QED BY <2>1, <2>5 DEF Inv
<1>5. CASE BlitEnd
  BY <1>5 DEF BlitEnd, Inv, WriteIsInside, size
<1>6. ASSUME NEW cell \in framebuffer_get_dimensions,
             framebuffer_put_char(cell[1], cell[2])
      PROVE  Inv'
  BY <1>1, <1>6, CharIsBlit
<1>7. ASSUME NEW offset \in Nat, NEW length \in Nat, framebuffer_dev_write(offset, length)
      PROVE  Inv'
  <2>1. size \in Nat
    BY <1>0, ProductNat DEF size
  <2>2. offset .. offset + ToWrite(offset, length) - 1 \subseteq 0 .. size - 1
    BY <2>1 DEF ToWrite
  <2>3. WriteIsInside'
    BY <1>7, <2>2 DEF framebuffer_dev_write, WriteIsInside, size
  <2> QED BY <1>7, <2>3 DEF framebuffer_dev_write, callVars, Inv
<1>8. CASE UNCHANGED vars
  BY <1>8 DEF vars, callVars, Inv, ClipInside, PointersFollow, PixelFollows, WriteIsInside, size
<1> QED BY <1>1, <1>2, <1>3, <1>4, <1>5, <1>6, <1>7, <1>8 DEF Next

LEMMA InvIsInside == ASSUME Geometry, Inv PROVE PointersAreInside
<1> SUFFICES ASSUME pc = "pixel", x < src_w
             PROVE  /\ dest_y + y \in 0 .. height - 1
                    /\ dest_pixel >= (dest_y + y) * pitch
                    /\ dest_pixel + bytes_per_pixel
                          <= (dest_y + y) * pitch + width * bytes_per_pixel
                    /\ src_row + x \in 0 .. sprite_w * sprite_h - 1
  BY DEF PointersAreInside
<1>0. width \in Nat /\ height \in Nat /\ pitch \in Nat /\ bytes_per_pixel \in Nat
  BY DEF Geometry
<1>1. ClipInside /\ PointersFollow /\ PixelFollows
  BY DEF Inv
<1>2. dest_y + y \in 0 .. height - 1
  BY <1>0, <1>1 DEF ClipInside, PointersFollow, PixelFollows
<1> DEFINE column == dest_x + x
           base   == (dest_y + y) * pitch
<1>3. column \in Nat /\ column + 1 <= width
  BY <1>0, <1>1 DEF ClipInside, PixelFollows
<1>4. base \in Nat
  BY <1>0, <1>2, ProductNat
<1>5. dest_pixel = base + column * bytes_per_pixel
  <2>1. dest_x \in Int /\ x \in Int
    BY <1>1 DEF ClipInside, PixelFollows
  <2>2. column * bytes_per_pixel = dest_x * bytes_per_pixel + x * bytes_per_pixel
    BY <1>0, <2>1, SumTimes
  <2>3. dest_x * bytes_per_pixel \in Int /\ x * bytes_per_pixel \in Int
    BY <1>0, <2>1
  <2>4. dest_pixel = base + dest_x * bytes_per_pixel + x * bytes_per_pixel
    BY <1>1 DEF PointersFollow, PixelFollows
  <2> HIDE DEF column, base
  <2> QED BY <1>4, <2>2, <2>3, <2>4
<1>6. column * bytes_per_pixel \in Nat
  BY <1>0, <1>3, ProductNat
<1>7. column * bytes_per_pixel + bytes_per_pixel <= width * bytes_per_pixel
  <2>1. (column + 1) * bytes_per_pixel <= width * bytes_per_pixel
    BY <1>0, <1>3, ProductMonotone
  <2>2. (column + 1) * bytes_per_pixel = column * bytes_per_pixel + bytes_per_pixel
    BY <1>0, <1>3, NextMultiple
  <2> QED BY <2>1, <2>2
<1>8. width * bytes_per_pixel \in Nat
  BY <1>0, ProductNat
<1>9. dest_pixel >= base /\ dest_pixel + bytes_per_pixel <= base + width * bytes_per_pixel
  <2> HIDE DEF column, base
  <2> QED BY <1>0, <1>4, <1>5, <1>6, <1>7, <1>8
<1>10. src_row + x \in 0 .. sprite_w * sprite_h - 1
  <2> DEFINE row == src_y + y
  <2>1. /\ row \in Nat /\ row + 1 <= sprite_h /\ sprite_h \in Nat /\ sprite_w \in Nat
        /\ src_x + x \in Nat /\ src_x + x < sprite_w
        /\ src_x \in Nat /\ x \in Nat
        /\ src_row = row * sprite_w + src_x
    BY <1>1 DEF ClipInside, PointersFollow, PixelFollows
  <2> HIDE DEF row
  <2>2. (row + 1) * sprite_w <= sprite_h * sprite_w
    BY <2>1, ProductMonotone
  <2>3. (row + 1) * sprite_w = row * sprite_w + sprite_w
    BY <2>1, NextMultiple
  <2>4. row * sprite_w \in Nat /\ sprite_h * sprite_w \in Nat
    BY <2>1, ProductNat
  <2>5. sprite_h * sprite_w = sprite_w * sprite_h
    BY <2>1
  <2> QED BY <2>1, <2>2, <2>3, <2>4, <2>5
<1> QED BY <1>2, <1>9, <1>10

-----------------------------------------------------------------------------

\* For every geometry with room for a row in its pitch, every sprite and every place:
\* no pointer of framebuffer_blit leaves the visible part of its row or its sprite.
THEOREM BlitStaysInside == ASSUME Geometry PROVE Spec => []PointersAreInside
<1>1. Init => Inv
  BY InitInv
<1>2. Inv /\ [Next]_vars => Inv'
  BY NextInv
<1>3. Inv => PointersAreInside
  BY InvIsInside
<1> QED BY <1>1, <1>2, <1>3, PTL DEF Spec

\* For every geometry, offset and length: framebuffer_dev_write stays inside.
THEOREM DeviceWritesInside == ASSUME Geometry PROVE Spec => []WriteIsInside
<1>1. Init => Inv
  BY InitInv
<1>2. Inv /\ [Next]_vars => Inv'
  BY NextInv
<1>3. Inv => WriteIsInside
  BY DEF Inv
<1> QED BY <1>1, <1>2, <1>3, PTL DEF Spec

=============================================================================
