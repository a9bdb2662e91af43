------------------------------ MODULE Terminal ------------------------------
(***************************************************************************)
(* The text terminal: its buffer of characters, the cursor, and the screen  *)
(* that the display driver draws, cell by cell.  Programs write to it       *)
(* through /dev/terminal, the kernel through printf, and a program may      *)
(* paint over any part of the screen through /dev/framebuffer.  The bytes   *)
(* of one write are put one step at a time, so that the properties hold     *)
(* between them.                                                            *)
(***************************************************************************)
EXTENDS Integers

CONSTANTS
    Width, Height,    \* in characters, as get_dimensions reports them
    Printable,        \* characters with a glyph of their own
    MaxLength         \* bound: bytes of one write

ASSUME SizeAssumption == Width \in Nat \ {0} /\ Height \in Nat \ {0} /\ MaxLength \in Nat

VARIABLES
    buffer,           \* terminal.buffer, by cell
    cursor,           \* terminal.cursor
    screen,           \* what each cell shows: a character, CURSOR or PAINT
    rest              \* bytes of the write in progress still to come

vars == <<buffer, cursor, screen, rest>>

NEWLINE == "newline"
BACKSPACE == "backspace"
BLANK == " "
NUL == "nul"
CURSOR == "_"
PAINT == "painted"    \* pixels that came through /dev/framebuffer

Characters == Printable \cup {NEWLINE, BLANK, NUL}
Columns == 0 .. Width - 1
Rows == 0 .. Height - 1
Cells == Columns \X Rows

terminal_display_char(character) == IF character = NEWLINE THEN BLANK ELSE character

terminal_render(b) == [c \in Cells |-> terminal_display_char(b[c])]

terminal_scroll(b) ==
    [c \in Cells |-> IF c[2] = Height - 1 THEN NUL ELSE b[<<c[1], c[2] + 1>>]]

\* Where the cursor goes when it is sent to <<x, y>>, and whether that scrolls.
Outside(x, y) == x >= Width \/ y >= Height
Scrolls(x, y) == Outside(x, y) /\ y + 1 >= Height

Target(x, y) ==
    IF ~Outside(x, y) THEN <<x, y>>
    ELSE <<0, IF y + 1 >= Height THEN Height - 1 ELSE y + 1>>

DrawsOnlyCursor(b, s, x, y) ==  \* mutant: the old cursor stays on the screen
    /\ buffer' = IF Scrolls(x, y) THEN terminal_scroll(b) ELSE b
    /\ cursor' = Target(x, y)
    /\ screen' = [s EXCEPT ![Target(x, y)] = CURSOR]

\* b and s are the buffer and the screen as the caller has left them.  The old
\* place of the cursor is drawn again, from the buffer as it is after scrolling.
terminal_set_cursor(b, s, x, y) ==
    LET scrolled == IF Scrolls(x, y) THEN terminal_scroll(b) ELSE b
        drawn    == IF Scrolls(x, y) THEN terminal_render(scrolled) ELSE s
        redrawn  == [drawn EXCEPT ![cursor] = terminal_display_char(scrolled[cursor])]
    IN /\ buffer' = scrolled
       /\ cursor' = Target(x, y)
       /\ screen' = [redrawn EXCEPT ![Target(x, y)] = CURSOR]

put_newline ==
    terminal_set_cursor([buffer EXCEPT ![cursor] = NEWLINE], screen, 0, cursor[2] + 1)

BackspaceGoesUp ==  \* mutant: at the start of a line it goes on in the one above
    LET previous == IF cursor[1] > 0 THEN <<cursor[1] - 1, cursor[2]>>
                    ELSE <<Width - 1, cursor[2] - 1>>
    IN IF cursor = <<0, 0>> THEN UNCHANGED <<buffer, cursor, screen>>
       ELSE terminal_set_cursor([buffer EXCEPT ![previous] = BLANK],
                                [screen EXCEPT ![previous] = BLANK],
                                previous[1], previous[2])

put_backspace ==
    LET previous == <<cursor[1] - 1, cursor[2]>>
    IN IF cursor[1] = 0 THEN UNCHANGED <<buffer, cursor, screen>>
       ELSE terminal_set_cursor([buffer EXCEPT ![previous] = BLANK],
                                [screen EXCEPT ![previous] = BLANK],
                                previous[1], previous[2])

put_printable(character) ==
    terminal_set_cursor([buffer EXCEPT ![cursor] = character],
                        [screen EXCEPT ![cursor] = character],
                        cursor[1] + 1, cursor[2])

terminal_put_char(character) ==
    \/ character = NEWLINE /\ put_newline
    \/ character = BACKSPACE /\ put_backspace
    \/ character \notin {NEWLINE, BACKSPACE} /\ put_printable(character)

Init ==
    /\ buffer = [c \in Cells |-> NUL]
    /\ cursor = <<0, 0>>
    /\ screen = terminal_render(buffer)
    /\ rest = 0

\* A call of write, by whichever task: length bytes are to come.
terminal_write(length) ==
    /\ rest = 0
    /\ rest' = length
    /\ UNCHANGED <<buffer, cursor, screen>>

\* The next byte; a zero byte ends the write.
Put(character) ==
    /\ rest > 0
    /\ \/ /\ character = NUL
          /\ rest' = 0
          /\ UNCHANGED <<buffer, cursor, screen>>
       \/ /\ character # NUL
          /\ rest' = rest - 1
          /\ terminal_put_char(character)

\* A task writes pixels: any cells change, and the terminal does not know.
framebuffer_dev_write(cells) ==
    /\ rest = 0
    /\ screen' = [c \in Cells |-> IF c \in cells THEN PAINT ELSE screen[c]]
    /\ UNCHANGED <<buffer, cursor, rest>>

Next ==
    \/ \E length \in 1 .. MaxLength : terminal_write(length)
    \/ \E character \in Characters \cup {BACKSPACE} : Put(character)
    \/ \E cells \in SUBSET Cells : framebuffer_dev_write(cells)

Spec == Init /\ [][Next]_vars

-----------------------------------------------------------------------------
(* Properties.                                                              *)

TypeOK ==
    /\ buffer \in [Cells -> Characters]
    /\ cursor \in Cells
    /\ screen \in [Cells -> Characters \cup {CURSOR, PAINT}]
    /\ rest \in 0 .. MaxLength

\* Every cell shows what the buffer says, or what a program painted over it:
\* the mark of the cursor stands at the cursor and is never left behind, also
\* when the text wraps or scrolls while it is drawn (terminal_set_cursor).
ScreenShowsBuffer ==
    \A c \in Cells :
        \/ screen[c] = terminal_display_char(buffer[c])
        \/ screen[c] = PAINT
        \/ screen[c] = CURSOR /\ c = cursor

\* The cursor is on the last line that has text: whatever mixture of wrapping,
\* newlines, backspaces and scrolling came before, the lines below are empty.
BelowCursorIsEmpty ==
    \A c \in Cells : c[2] > cursor[2] => buffer[c] = NUL

=============================================================================
