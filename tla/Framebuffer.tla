----------------------------- MODULE Framebuffer -----------------------------
(***************************************************************************)
(* The framebuffer: the copy of a sprite with its clipping, pixel by pixel  *)
(* through the pointers the code keeps, the drawing of a character, which   *)
(* is such a copy, and the write of /dev/framebuffer.  A pointer is its     *)
(* distance from the start of the framebuffer or of the sprite.  Colours    *)
(* and the bytes themselves are left out.  Sums of int and uint32_t are     *)
(* taken not to overflow.                                                   *)
(***************************************************************************)
EXTENDS Integers

CONSTANTS
    width, height,    \* in pixels
    pitch,            \* bytes from one row to the next
    bytes_per_pixel,  \* bpp / 8
    FONT8X8_WIDTH, FONT8X8_HEIGHT

\* What the boot loader reports of the screen.
Geometry ==
    /\ width \in Nat \ {0} /\ height \in Nat \ {0}
    /\ pitch \in Nat /\ bytes_per_pixel \in Nat \ {0}
    /\ pitch >= width * bytes_per_pixel
    /\ FONT8X8_WIDTH \in Nat \ {0} /\ FONT8X8_HEIGHT \in Nat \ {0}

VARIABLES
    sprite_w, sprite_h,             \* the sprite being copied
    dest_x, dest_y,                 \* where it goes, once clipped
    src_x, src_y, src_w, src_h,     \* the part of it that is copied
    y, x,                           \* the loops
    dest_row, src_row, dest_pixel,  \* the pointers
    written,                        \* the bytes of a write of /dev/framebuffer
    pc

callVars == <<sprite_w, sprite_h, dest_x, dest_y, src_x, src_y, src_w, src_h>>
vars == <<callVars, y, x, dest_row, src_row, dest_pixel, written, pc>>

size == pitch * height

\* One axis: where the source starts, how much of it is copied, and to where.
Skipped(dest) == IF dest < 0 THEN -dest ELSE 0
Start(dest) == IF dest < 0 THEN 0 ELSE dest
Left(dest, length) == IF dest < 0 THEN length + dest ELSE length
Clipped(dest, length, limit) ==
    IF Start(dest) + Left(dest, length) > limit THEN limit - Start(dest) ELSE Left(dest, length)

Misses(dest, length, limit) == dest >= limit \/ dest + length < 0

Init ==
    /\ sprite_w = 0 /\ sprite_h = 0 /\ dest_x = 0 /\ dest_y = 0
    /\ src_x = 0 /\ src_y = 0 /\ src_w = 0 /\ src_h = 0
    /\ y = 0 /\ x = 0 /\ dest_row = 0 /\ src_row = 0 /\ dest_pixel = 0
    /\ written = {}
    /\ pc = "idle"

\* Up to the loops.  A sprite that misses the screen is not copied at all.
framebuffer_blit(to_x, to_y, w, h) ==
    /\ pc = "idle"
    /\ ~Misses(to_x, w, width) /\ ~Misses(to_y, h, height)
    /\ sprite_w' = w /\ sprite_h' = h
    /\ dest_x' = Start(to_x) /\ dest_y' = Start(to_y)
    /\ src_x' = Skipped(to_x) /\ src_y' = Skipped(to_y)
    /\ src_w' = Clipped(to_x, w, width) /\ src_h' = Clipped(to_y, h, height)
    /\ dest_row' = dest_y' * pitch + dest_x' * bytes_per_pixel
    /\ src_row' = src_y' * sprite_w' + src_x'
    /\ y' = 0
    /\ pc' = "row"
    /\ UNCHANGED <<x, dest_pixel, written>>

RowStart ==
    /\ pc = "row" /\ y < src_h
    /\ dest_pixel' = dest_row
    /\ x' = 0
    /\ pc' = "pixel"
    /\ UNCHANGED <<callVars, y, dest_row, src_row, written>>

\* The pixel at src_row + x is read, the bytes from dest_pixel on are written.
Pixel ==
    /\ pc = "pixel" /\ x < src_w
    /\ dest_pixel' = dest_pixel + bytes_per_pixel
    /\ x' = x + 1
    /\ UNCHANGED <<callVars, y, dest_row, src_row, written, pc>>

RowEnd ==
    /\ pc = "pixel" /\ x >= src_w
    /\ dest_row' = dest_row + pitch
    /\ src_row' = src_row + sprite_w
    /\ y' = y + 1
    /\ pc' = "row"
    /\ UNCHANGED <<callVars, x, dest_pixel, written>>

BlitEnd ==
    /\ pc = "row" /\ y >= src_h
    /\ pc' = "idle"
    /\ UNCHANGED <<callVars, y, x, dest_row, src_row, dest_pixel, written>>

\* The terminal draws within its dimensions; a character is a sprite.
framebuffer_get_dimensions ==
    (0 .. width \div FONT8X8_WIDTH - 1) \X (0 .. height \div FONT8X8_HEIGHT - 1)

framebuffer_put_char(column, row) ==
    framebuffer_blit(column * FONT8X8_WIDTH, row * FONT8X8_HEIGHT,
                     FONT8X8_WIDTH, FONT8X8_HEIGHT)

\* Any offset, since a program may seek.
ToWrite(offset, length) ==
    IF offset >= size THEN 0
    ELSE IF length < size - offset THEN length ELSE size - offset

framebuffer_dev_write(offset, length) ==
    /\ pc = "idle"
    /\ written' = offset .. offset + ToWrite(offset, length) - 1
    /\ UNCHANGED <<callVars, y, x, dest_row, src_row, dest_pixel, pc>>

Next ==
    \/ \E to_x, to_y \in Int, w, h \in Nat : framebuffer_blit(to_x, to_y, w, h)
    \/ RowStart \/ Pixel \/ RowEnd \/ BlitEnd
    \/ \E cell \in framebuffer_get_dimensions : framebuffer_put_char(cell[1], cell[2])
    \/ \E offset, length \in Nat : framebuffer_dev_write(offset, length)

Spec == Init /\ [][Next]_vars

-----------------------------------------------------------------------------
(* Properties.                                                              *)

\* Wherever the sprite is, on, partly on or off the screen: what is written next
\* lies within the visible part of its row, not in the padding or the next row,
\* and what is read lies within the sprite (framebuffer_blit 108-143).
PointersAreInside ==
    pc = "pixel" /\ x < src_w =>
        /\ dest_y + y \in 0 .. height - 1
        /\ dest_pixel >= (dest_y + y) * pitch
        /\ dest_pixel + bytes_per_pixel <= (dest_y + y) * pitch + width * bytes_per_pixel
        /\ src_row + x \in 0 .. sprite_w * sprite_h - 1

\* A program's write to the device stays within the framebuffer, whatever offset
\* it sought to and however long it is (framebuffer_dev_write 203-212).
WriteIsInside == written \subseteq 0 .. size - 1

=============================================================================
