-------------------------- MODULE ShellInputProofs --------------------------
(***************************************************************************)
(* Proofs about Terminal, for a screen of any size, and about ShellInput,   *)
(* which extends it: the keyboard's ring, what the shell makes of the keys, *)
(* and the line on the screen, for a ring, a line and a screen of any size  *)
(* and any number of keys.                                                  *)
(***************************************************************************)
EXTENDS ShellInput, SequenceTheorems, TLAPS

-----------------------------------------------------------------------------
(* The terminal.                                                            *)

\* A cell is a pair of a column and a row of the terminal.
LEMMA CellsArePairs ==
    /\ \A x, y : <<x, y>> \in Cells <=> x \in Columns /\ y \in Rows
    /\ \A c \in Cells : c = <<c[1], c[2]>> /\ c[1] \in Columns /\ c[2] \in Rows
BY DEF Cells

\* Where the cursor is sent always lies on the screen (terminal_set_cursor 14-34).
LEMMA TargetOnScreen ==
    ASSUME NEW x \in Nat, NEW y \in Nat
    PROVE  Target(x, y) \in Cells
<1>1. CASE ~Outside(x, y)
  <2>1. x \in Columns /\ y \in Rows
    BY <1>1, SizeAssumption DEF Outside, Columns, Rows
  <2> QED BY <2>1, <1>1, CellsArePairs DEF Target
<1>2. CASE Outside(x, y)
  <2> DEFINE row == IF y + 1 >= Height THEN Height - 1 ELSE y + 1
  <2>1. 0 \in Columns /\ row \in Rows
    <3>1. 0 \in Columns
      BY SizeAssumption DEF Columns
    <3>2. row \in Rows
      BY SizeAssumption DEF Rows
    <3> QED BY <3>1, <3>2
  <2>2. Target(x, y) = <<0, row>>
    BY <1>2 DEF Target
  <2> HIDE DEF row
  <2> QED BY <2>1, <2>2, CellsArePairs
<1> QED BY <1>1, <1>2

\* Scrolling keeps the buffer a buffer.
LEMMA ScrollType ==
    ASSUME NEW b \in [Cells -> Characters]
    PROVE  terminal_scroll(b) \in [Cells -> Characters]
<1>1. NUL \in Characters
  BY DEF Characters
<1>2. ASSUME NEW c \in Cells, c[2] # Height - 1
      PROVE  <<c[1], c[2] + 1>> \in Cells
  <2>1. c[1] \in Columns /\ c[2] + 1 \in Rows
    BY <1>2, CellsArePairs, SizeAssumption DEF Rows
  <2> QED BY <2>1, CellsArePairs
<1> QED BY <1>1, <1>2 DEF terminal_scroll

\* What is displayed of a character of the buffer.
LEMMA DisplayType ==
    ASSUME NEW character \in Characters
    PROVE  terminal_display_char(character) \in Characters
BY DEF terminal_display_char, Characters

\* The screen as terminal_render draws it.
LEMMA RenderType ==
    ASSUME NEW b \in [Cells -> Characters]
    PROVE  terminal_render(b) \in [Cells -> Characters \cup {CURSOR, PAINT}]
BY DisplayType DEF terminal_render

ScreenType == [Cells -> Characters \cup {CURSOR, PAINT}]

\* terminal_set_cursor keeps the types, whatever the caller has put into the buffer
\* and onto the screen.
LEMMA SetCursorType ==
    ASSUME cursor \in Cells,
           NEW b \in [Cells -> Characters], NEW s \in ScreenType,
           NEW x \in Nat, NEW y \in Nat,
           terminal_set_cursor(b, s, x, y)
    PROVE  buffer' \in [Cells -> Characters] /\ cursor' \in Cells /\ screen' \in ScreenType
<1> DEFINE scrolled == IF Scrolls(x, y) THEN terminal_scroll(b) ELSE b
           drawn    == IF Scrolls(x, y) THEN terminal_render(scrolled) ELSE s
           redrawn  == [drawn EXCEPT ![cursor] = terminal_display_char(scrolled[cursor])]
<1>1. scrolled \in [Cells -> Characters]
  BY ScrollType
<1>2. drawn \in ScreenType
  BY <1>1, RenderType DEF ScreenType
<1>3. redrawn \in ScreenType
  <2>1. terminal_display_char(scrolled[cursor]) \in Characters
    BY <1>1, DisplayType
  <2> HIDE DEF drawn, scrolled
  <2> QED BY <1>2, <2>1 DEF ScreenType
<1>4. Target(x, y) \in Cells
  BY TargetOnScreen
<1>5. buffer' = scrolled /\ cursor' = Target(x, y) /\ screen' = [redrawn EXCEPT ![Target(x, y)] = CURSOR]
  BY DEF terminal_set_cursor
<1> HIDE DEF redrawn, drawn, scrolled
<1> QED BY <1>1, <1>3, <1>4, <1>5 DEF ScreenType

\* If every cell but the cursor's shows the buffer before, every cell does after:
\* the cursor's old place is drawn again and the mark stands at the new one.
LEMMA SetCursorShows ==
    ASSUME cursor \in Cells,
           NEW b \in [Cells -> Characters], NEW s \in ScreenType,
           NEW x \in Nat, NEW y \in Nat,
           \A c \in Cells \ {cursor} : s[c] = terminal_display_char(b[c]) \/ s[c] = PAINT,
           terminal_set_cursor(b, s, x, y)
    PROVE  ScreenShowsBuffer'
<1> DEFINE scrolled == IF Scrolls(x, y) THEN terminal_scroll(b) ELSE b
           drawn    == IF Scrolls(x, y) THEN terminal_render(scrolled) ELSE s
           redrawn  == [drawn EXCEPT ![cursor] = terminal_display_char(scrolled[cursor])]
<1>1. drawn \in ScreenType
  BY ScrollType, RenderType DEF ScreenType
<1>2. ASSUME NEW c \in Cells \ {cursor}
      PROVE  drawn[c] = terminal_display_char(scrolled[c]) \/ drawn[c] = PAINT
  BY <1>2 DEF terminal_render
<1>3. buffer' = scrolled /\ cursor' = Target(x, y) /\ screen' = [redrawn EXCEPT ![Target(x, y)] = CURSOR]
  BY DEF terminal_set_cursor
<1>4. Target(x, y) \in Cells
  BY TargetOnScreen
<1> HIDE DEF drawn, scrolled
<1>5. redrawn \in [Cells -> UNION {Characters \cup {CURSOR, PAINT}, {terminal_display_char(scrolled[cursor])}}]
  BY <1>1 DEF ScreenType
<1>6. ASSUME NEW c \in Cells
      PROVE  redrawn[c] = terminal_display_char(scrolled[c]) \/ redrawn[c] = PAINT
  BY <1>1, <1>2, <1>6 DEF ScreenType
<1> HIDE DEF redrawn
<1>7. SUFFICES ASSUME NEW c \in Cells
               PROVE  \/ screen'[c] = terminal_display_char(buffer'[c])
                      \/ screen'[c] = PAINT
                      \/ screen'[c] = CURSOR /\ c = cursor'
  BY DEF ScreenShowsBuffer
<1> QED BY <1>3, <1>4, <1>5, <1>6

\* If nothing stands below the cursor before, nothing does after: the cursor does
\* not go up, and when it scrolls it is on the last line.
LEMMA SetCursorBelow ==
    ASSUME cursor \in Cells,
           NEW b \in [Cells -> Characters], NEW s, NEW x \in Nat, NEW y \in Nat,
           y >= cursor[2],
           \A c \in Cells : c[2] > cursor[2] => b[c] = NUL,
           terminal_set_cursor(b, s, x, y)
    PROVE  BelowCursorIsEmpty'
<1>1. cursor' = Target(x, y) /\ buffer' = IF Scrolls(x, y) THEN terminal_scroll(b) ELSE b
  BY DEF terminal_set_cursor
<1>2. cursor[2] \in Rows
  BY CellsArePairs
<1>3. SUFFICES ASSUME NEW c \in Cells, c[2] > cursor'[2]
               PROVE  buffer'[c] = NUL
  BY DEF BelowCursorIsEmpty
<1>4. c[2] \in Rows
  BY CellsArePairs
<1>5. ~Scrolls(x, y) /\ cursor'[2] >= cursor[2] /\ cursor'[2] \in Int
  BY <1>1, <1>2, <1>3, <1>4, SizeAssumption DEF Target, Outside, Scrolls, Rows
<1> QED BY <1>1, <1>2, <1>3, <1>4, <1>5 DEF Rows

-----------------------------------------------------------------------------

\* The three invariants together: each needs the others' types.
TerminalInv == TypeOK /\ ScreenShowsBuffer /\ BelowCursorIsEmpty

LEMMA InitInv == Init => TerminalInv
<1> SUFFICES ASSUME Init PROVE TerminalInv
  OBVIOUS
<1>1. TypeOK
  <2>1. buffer \in [Cells -> Characters]
    BY DEF Init, Characters
  <2>2. cursor \in Cells
    BY CellsArePairs, SizeAssumption DEF Init, Columns, Rows
  <2>3. screen \in [Cells -> Characters \cup {CURSOR, PAINT}]
    BY <2>1, RenderType DEF Init
  <2>4. rest \in 0 .. MaxLength
    BY SizeAssumption DEF Init
  <2> QED BY <2>1, <2>2, <2>3, <2>4 DEF TypeOK
<1>2. ScreenShowsBuffer
  BY DEF Init, ScreenShowsBuffer, terminal_render
<1>3. BelowCursorIsEmpty
  BY DEF Init, BelowCursorIsEmpty
<1> QED BY <1>1, <1>2, <1>3 DEF TerminalInv

\* What the three cases of terminal_put_char hand to terminal_set_cursor.
LEMMA PutCharInv ==
    ASSUME TerminalInv, NEW character \in Characters \cup {BACKSPACE},
           terminal_put_char(character)
    PROVE  /\ buffer' \in [Cells -> Characters] /\ cursor' \in Cells /\ screen' \in ScreenType
           /\ ScreenShowsBuffer' /\ BelowCursorIsEmpty'
<1> USE DEF TerminalInv
<1>1. buffer \in [Cells -> Characters] /\ cursor \in Cells /\ screen \in ScreenType
  BY DEF TypeOK, ScreenType
<1>2. cursor = <<cursor[1], cursor[2]>> /\ cursor[1] \in Columns /\ cursor[2] \in Rows
  BY <1>1, CellsArePairs
<1>3. cursor[1] \in Nat /\ cursor[2] \in Nat
  BY <1>2, SizeAssumption DEF Columns, Rows
<1>4. \A c \in Cells \ {cursor} : screen[c] = terminal_display_char(buffer[c]) \/ screen[c] = PAINT
  BY DEF ScreenShowsBuffer
<1>5. \A c \in Cells : c[2] > cursor[2] => buffer[c] = NUL
  BY DEF BelowCursorIsEmpty
<1>6. CASE character = NEWLINE
  <2> DEFINE b == [buffer EXCEPT ![cursor] = NEWLINE]
  <2>1. terminal_set_cursor(b, screen, 0, cursor[2] + 1)
    BY <1>6 DEF terminal_put_char, put_newline, NEWLINE, BACKSPACE
  <2>2. b \in [Cells -> Characters]
    BY <1>1 DEF Characters
  <2>3. \A c \in Cells \ {cursor} : screen[c] = terminal_display_char(b[c]) \/ screen[c] = PAINT
    BY <1>1, <1>4
  <2>4. \A c \in Cells : c[2] > cursor[2] => b[c] = NUL
    BY <1>1, <1>3, <1>5
  <2>5. 0 \in Nat /\ cursor[2] + 1 \in Nat /\ cursor[2] + 1 >= cursor[2]
    BY <1>3
  <2> HIDE DEF b
  <2>6. buffer' \in [Cells -> Characters] /\ cursor' \in Cells /\ screen' \in ScreenType
    BY <1>1, <2>1, <2>2, <2>5, SetCursorType
  <2>7. ScreenShowsBuffer'
    BY <1>1, <2>1, <2>2, <2>3, <2>5, SetCursorShows
  <2>8. BelowCursorIsEmpty'
    BY <1>1, <2>1, <2>2, <2>4, <2>5, SetCursorBelow
  <2> QED BY <2>6, <2>7, <2>8
<1>7. CASE character = BACKSPACE
  <2> DEFINE previous == <<cursor[1] - 1, cursor[2]>>
             b == [buffer EXCEPT ![previous] = BLANK]
             s == [screen EXCEPT ![previous] = BLANK]
  <2>1. put_backspace
    BY <1>7 DEF terminal_put_char, NEWLINE, BACKSPACE
  <2>2. CASE cursor[1] = 0
    <3>1. UNCHANGED <<buffer, cursor, screen>>
      BY <2>1, <2>2 DEF put_backspace
    <3> QED BY <3>1, <1>1 DEF ScreenShowsBuffer, BelowCursorIsEmpty
  <2>3. CASE cursor[1] # 0
    <3>1. terminal_set_cursor(b, s, previous[1], previous[2])
      BY <2>1, <2>3 DEF put_backspace
    <3>2. previous \in Cells /\ previous[1] = cursor[1] - 1 /\ previous[2] = cursor[2]
      <4>1. cursor[1] - 1 \in Columns
        BY <1>2, <2>3, SizeAssumption DEF Columns
      <4> QED BY <4>1, <1>2, CellsArePairs
    <3>3. previous[1] \in Nat /\ previous[2] \in Nat /\ previous[2] >= cursor[2]
      BY <3>2, <1>3, <2>3
    <3> HIDE DEF previous
    <3>4. b \in [Cells -> Characters] /\ s \in ScreenType
      BY <1>1, <3>2 DEF Characters, ScreenType
    <3>5. \A c \in Cells \ {cursor} : s[c] = terminal_display_char(b[c]) \/ s[c] = PAINT
      BY <1>1, <1>4, <3>2 DEF terminal_display_char, ScreenType, BLANK, NEWLINE
    <3>6. \A c \in Cells : c[2] > cursor[2] => b[c] = NUL
      BY <1>1, <1>3, <1>5, <3>2
    <3> HIDE DEF b, s
    <3>7. buffer' \in [Cells -> Characters] /\ cursor' \in Cells /\ screen' \in ScreenType
      BY <1>1, <3>1, <3>3, <3>4, SetCursorType
    <3>8. ScreenShowsBuffer'
      BY <1>1, <3>1, <3>3, <3>4, <3>5, SetCursorShows
    <3>9. BelowCursorIsEmpty'
      BY <1>1, <3>1, <3>3, <3>4, <3>6, SetCursorBelow
    <3> QED BY <3>7, <3>8, <3>9
  <2> QED BY <2>2, <2>3
<1>8. CASE character \notin {NEWLINE, BACKSPACE}
  <2> DEFINE b == [buffer EXCEPT ![cursor] = character]
             s == [screen EXCEPT ![cursor] = character]
  <2>1. terminal_set_cursor(b, s, cursor[1] + 1, cursor[2])
    BY <1>8 DEF terminal_put_char, put_printable
  <2>2. b \in [Cells -> Characters] /\ s \in ScreenType
    BY <1>1, <1>8 DEF ScreenType
  <2>3. \A c \in Cells \ {cursor} : s[c] = terminal_display_char(b[c]) \/ s[c] = PAINT
    BY <1>1, <1>4 DEF ScreenType
  <2>4. \A c \in Cells : c[2] > cursor[2] => b[c] = NUL
    BY <1>1, <1>3, <1>5
  <2>5. cursor[1] + 1 \in Nat /\ cursor[2] \in Nat /\ cursor[2] >= cursor[2]
    BY <1>3
  <2> HIDE DEF b, s
  <2>6. buffer' \in [Cells -> Characters] /\ cursor' \in Cells /\ screen' \in ScreenType
    BY <1>1, <2>1, <2>2, <2>5, SetCursorType
  <2>7. ScreenShowsBuffer'
    BY <1>1, <2>1, <2>2, <2>3, <2>5, SetCursorShows
  <2>8. BelowCursorIsEmpty'
    BY <1>1, <2>1, <2>2, <2>4, <2>5, SetCursorBelow
  <2> QED BY <2>6, <2>7, <2>8
<1> QED BY <1>6, <1>7, <1>8

LEMMA NextInv == TerminalInv /\ [Next]_vars => TerminalInv'
<1> SUFFICES ASSUME TerminalInv, [Next]_vars PROVE TerminalInv'
  OBVIOUS
<1>0. TypeOK /\ ScreenShowsBuffer /\ BelowCursorIsEmpty
  BY DEF TerminalInv
<1>1. ASSUME NEW length \in 1 .. MaxLength, terminal_write(length)
      PROVE  TerminalInv'
  <2>1. UNCHANGED <<buffer, cursor, screen>> /\ rest' \in 0 .. MaxLength
    BY <1>1, SizeAssumption DEF terminal_write
  <2> QED BY <1>0, <2>1 DEF TerminalInv, TypeOK, ScreenShowsBuffer, BelowCursorIsEmpty
<1>2. ASSUME NEW character \in Characters \cup {BACKSPACE}, Put(character)
      PROVE  TerminalInv'
  <2>1. rest' \in 0 .. MaxLength
    BY <1>0, <1>2, SizeAssumption DEF Put, TypeOK
  <2>2. CASE UNCHANGED <<buffer, cursor, screen>>
    BY <1>0, <2>1, <2>2 DEF TerminalInv, TypeOK, ScreenShowsBuffer, BelowCursorIsEmpty
  <2>3. CASE terminal_put_char(character)
    BY <2>1, <2>3, PutCharInv DEF TerminalInv, TypeOK, ScreenType
  <2> QED BY <1>2, <2>2, <2>3 DEF Put
<1>3. ASSUME NEW cells \in SUBSET Cells, framebuffer_dev_write(cells)
      PROVE  TerminalInv'
  <2>1. /\ screen' = [c \in Cells |-> IF c \in cells THEN PAINT ELSE screen[c]]
        /\ UNCHANGED <<buffer, cursor, rest>>
    BY <1>3 DEF framebuffer_dev_write
  <2>2. TypeOK'
    BY <1>0, <2>1 DEF TypeOK
  <2>3. ScreenShowsBuffer' /\ BelowCursorIsEmpty'
    BY <1>0, <2>1 DEF ScreenShowsBuffer, BelowCursorIsEmpty
  <2> QED BY <2>2, <2>3 DEF TerminalInv
<1>4. CASE UNCHANGED vars
  BY <1>0, <1>4 DEF vars, TerminalInv, TypeOK, ScreenShowsBuffer, BelowCursorIsEmpty
<1> QED BY <1>1, <1>2, <1>3, <1>4 DEF Next

\* The cursor and every character stay within the buffer, for every screen size.
THEOREM TerminalTypeCorrect == Spec => []TypeOK
<1>1. TerminalInv => TypeOK
  BY DEF TerminalInv
<1> QED BY <1>1, InitInv, NextInv, PTL DEF Spec

\* The screen shows the buffer and one mark at the cursor, for every screen size
\* and every text (terminal_set_cursor, terminal_put_char, terminal_scroll).
THEOREM ScreenAlwaysShowsBuffer == Spec => []ScreenShowsBuffer
<1>1. TerminalInv => ScreenShowsBuffer
  BY DEF TerminalInv
<1> QED BY <1>1, InitInv, NextInv, PTL DEF Spec

\* The lines below the cursor are empty, for every screen size and every text.
THEOREM BelowCursorAlwaysEmpty == Spec => []BelowCursorIsEmpty
<1>1. TerminalInv => BelowCursorIsEmpty
  BY DEF TerminalInv
<1> QED BY <1>1, InitInv, NextInv, PTL DEF Spec

-----------------------------------------------------------------------------
(* The ring is a queue.                                                     *)

Size == KEYBOARD_BUFFER_SIZE

\* The indices of the keys not yet read, and what stands there.
Queue ==
    /\ ring \in [0 .. Size - 1 -> Scancodes]
    /\ buffer_tail \in 0 .. Size - 1 /\ buffer_count \in 0 .. Size
    /\ buffer_head = (buffer_tail + buffer_count) % Size
    /\ pending \in Seq(Scancodes) /\ Len(pending) = buffer_count
    /\ \A i \in 1 .. buffer_count : ring[(buffer_tail + i - 1) % Size] = pending[i]

\* Once around the ring at most.
LEMMA Around ==
    ASSUME NEW x \in Nat, x < 2 * Size
    PROVE  x % Size = IF x < Size THEN x ELSE x - Size
<1>1. Size \in Nat \ {0}
  BY ShellAssumption DEF Size
<1>. HIDE DEF Size
<1>. QED
  BY <1>1

\* The place behind the last key is none of those in use.
LEMMA HeadIsFree ==
    ASSUME NEW tail \in 0 .. Size - 1, NEW count \in 0 .. Size - 1, NEW i \in 1 .. count
    PROVE  /\ (tail + count) % Size \in 0 .. Size - 1
           /\ (tail + i - 1) % Size \in 0 .. Size - 1
           /\ (tail + i - 1) % Size # (tail + count) % Size
<1>1. Size \in Nat \ {0}
  BY ShellAssumption DEF Size
<1>2. /\ (tail + count) % Size = IF tail + count < Size THEN tail + count ELSE tail + count - Size
      /\ (tail + i - 1) % Size = IF tail + i - 1 < Size THEN tail + i - 1 ELSE tail + i - 1 - Size
  <2>1. tail + count \in Nat /\ tail + count < 2 * Size /\ tail + i - 1 \in Nat /\ tail + i - 1 < 2 * Size
    BY <1>1
  <2>. QED BY <1>1, <2>1, Around
<1>. QED
  BY <1>1, <1>2

\* One step of an index around the ring.
LEMMA Forward ==
    ASSUME NEW tail \in 0 .. Size - 1, NEW i \in 0 .. Size
    PROVE  /\ (tail + 1) % Size \in 0 .. Size - 1
           /\ i >= 1 => (((tail + 1) % Size) + (i - 1)) % Size = (tail + i) % Size
           /\ i < Size => (((tail + i) % Size) + 1) % Size = (tail + (i + 1)) % Size
<1>1. Size \in Nat \ {0}
  BY ShellAssumption DEF Size
<1>2. (tail + 1) % Size = IF tail + 1 < Size THEN tail + 1 ELSE 0
  <2>1. (tail + 1 \in Nat /\ tail + 1 < 2 * Size) \/ (tail = 0 /\ Size = 1)
    BY <1>1
  <2>2. CASE tail + 1 \in Nat /\ tail + 1 < 2 * Size
    BY <1>1, <2>2, Around
  <2>. QED BY <1>1, <2>1, <2>2
<1>3. (tail + i) % Size = IF tail + i < Size THEN tail + i ELSE tail + i - Size
  <2>1. tail + i \in Nat /\ tail + i < 2 * Size
    BY <1>1
  <2>. QED BY <1>1, <2>1, Around
<1>4. ASSUME i >= 1 PROVE (((tail + 1) % Size) + (i - 1)) % Size = (tail + i) % Size
  <2>1. CASE tail + 1 < Size
    BY <1>1, <1>2, <1>4, <2>1, (tail + 1) + (i - 1) = tail + i
  <2>2. CASE tail + 1 = Size
    <3>1. ((tail + 1) % Size) + (i - 1) = i - 1 /\ i - 1 \in Nat /\ i - 1 < 2 * Size /\ i - 1 < Size
      BY <1>1, <1>2, <1>4, <2>2
    <3>2. (i - 1) % Size = i - 1
      BY <3>1, Around
    <3>. QED BY <1>1, <1>3, <3>1, <3>2, <2>2
  <2>. QED BY <1>1, <2>1, <2>2
<1>5. ASSUME i < Size PROVE (((tail + i) % Size) + 1) % Size = (tail + (i + 1)) % Size
  <2>1. tail + (i + 1) \in Nat /\ tail + (i + 1) < 2 * Size
    BY <1>1, <1>5
  <2>2. (tail + (i + 1)) % Size = IF tail + (i + 1) < Size THEN tail + (i + 1) ELSE tail + (i + 1) - Size
    BY <1>1, <2>1, Around
  <2>3. CASE tail + i < Size
    BY <1>1, <1>3, <2>1, <2>3, (tail + i) + 1 = tail + (i + 1)
  <2>4. CASE tail + i >= Size
    <3>1. ((tail + i) % Size) + 1 = tail + i - Size + 1 /\ tail + i - Size + 1 \in Nat
          /\ tail + i - Size + 1 < Size /\ tail + i - Size + 1 < 2 * Size
      BY <1>1, <1>3, <1>5, <2>4
    <3>2. (tail + i - Size + 1) % Size = tail + i - Size + 1
      BY <3>1, Around
    <3>. QED BY <1>1, <2>2, <2>4, <3>1, <3>2
  <2>. QED BY <1>1, <2>3, <2>4
<1>. QED
  BY <1>2, <1>1, <1>4, <1>5

-----------------------------------------------------------------------------
(* What the keys mean, the line, and the inductive invariant.               *)

IsShift(j) == pending[j].key \in Shifts

\* s is the state of shift that the shell will have when it comes to the i-th pending
\* key: that of the last shift key before it, or the one it has now.
ShiftBefore(i, s) ==
    \/ s = shift /\ \A j \in 1 .. i - 1 : ~IsShift(j)
    \/ \E j \in 1 .. i - 1 :
          IsShift(j) /\ s = ~pending[j].released /\ \A k \in j + 1 .. i - 1 : ~IsShift(k)

\* What the shell's one flag makes of the shift keys held: set, unless the last of them
\* to move was let go.
Flag == held # {} /\ ~slipped

\* What the shell reads for a scancode.
ReadAs(scancode) ==
    IF scancode.slipped THEN Character(scancode.key, FALSE) ELSE scancode.meant

\* Every pending key will be read as it should be, and the last state of shift will be
\* that of the user's fingers, as one flag shows them.
KeyInv ==
    ~lost =>
        /\ \A i \in 1 .. Len(pending), s \in BOOLEAN :
              ~pending[i].released /\ ShiftBefore(i, s)
                 => ReadAs(pending[i]) = Character(pending[i].key, s)
        /\ \A s \in BOOLEAN : ShiftBefore(Len(pending) + 1, s) => s = Flag

\* The line is in use from the prompt to the command.
LineInv ==
    /\ line \in Seq(Letters) /\ Len(line) + 1 <= LINE_MAX
    /\ held \subseteq Shifts /\ {slipped, shift, lost, wrapped} \subseteq BOOLEAN
    /\ at \in {"prompt", "blank", "read", "run", "command", "exited"}
    /\ at \in {"prompt", "blank", "command"} => line = <<>>
    /\ start \in Cells

IInv == TerminalInv /\ Queue /\ KeyInv /\ LineInv /\ ScreenShowsLine

-----------------------------------------------------------------------------
(* The keyboard's two operations.                                           *)

LEMMA CharacterType ==
    ASSUME NEW key, NEW s
    PROVE  /\ Character(key, s) \in Characters \cup {BACKSPACE}
           /\ Character(key, s) \in {"a", "A", NEWLINE, BACKSPACE, NUL}
BY ShellAssumption DEF Character, Characters

LEMMA WriteQueue ==
    ASSUME Queue, NEW scancode \in Scancodes, buffer_count < Size,
           ring' = [ring EXCEPT ![buffer_head] = scancode],
           buffer_head' = (buffer_head + 1) % Size,
           buffer_count' = buffer_count + 1,
           pending' = Append(pending, scancode),
           UNCHANGED buffer_tail
    PROVE  Queue'
<1>1. /\ ring \in [0 .. Size - 1 -> Scancodes]
      /\ buffer_tail \in 0 .. Size - 1 /\ buffer_count \in 0 .. Size
      /\ buffer_head = (buffer_tail + buffer_count) % Size
      /\ pending \in Seq(Scancodes) /\ Len(pending) = buffer_count
      /\ \A i \in 1 .. buffer_count : ring[(buffer_tail + i - 1) % Size] = pending[i]
  BY DEF Queue
<1>2. Size \in Nat \ {0} /\ buffer_count \in 0 .. Size - 1
  BY <1>1, ShellAssumption DEF Size
<1>3. buffer_head \in 0 .. Size - 1
  <2>1. buffer_tail + buffer_count \in Nat /\ buffer_tail + buffer_count < 2 * Size
    BY <1>1, <1>2
  <2>. QED BY <1>1, <1>2, <2>1, Around
<1>4. ring' \in [0 .. Size - 1 -> Scancodes]
  BY <1>1, <1>3
<1>5. buffer_count' \in 0 .. Size /\ pending' \in Seq(Scancodes) /\ Len(pending') = buffer_count'
  BY <1>1, <1>2
<1>6. buffer_head' = (buffer_tail' + buffer_count') % Size
  BY <1>1, <1>2, Forward
<1>7. ASSUME NEW i \in 1 .. buffer_count'
      PROVE  ring'[(buffer_tail' + i - 1) % Size] = pending'[i]
  <2>1. CASE i \in 1 .. buffer_count
    <3>1. /\ (buffer_tail + i - 1) % Size \in 0 .. Size - 1
          /\ (buffer_tail + i - 1) % Size # buffer_head
      BY <1>1, <1>2, <2>1, HeadIsFree
    <3>2. ring'[(buffer_tail + i - 1) % Size] = ring[(buffer_tail + i - 1) % Size]
      BY <1>1, <3>1
    <3>3. pending'[i] = pending[i]
      BY <1>1, <2>1
    <3>. QED BY <1>1, <2>1, <3>2, <3>3
  <2>2. CASE i = buffer_count + 1
    <3>1. buffer_tail + i - 1 = buffer_tail + buffer_count
      BY <1>1, <2>2
    <3>2. pending'[i] = scancode
      BY <1>1, <2>2
    <3>. QED BY <1>1, <1>3, <3>1, <3>2
  <2>. QED BY <1>1, <2>1, <2>2
<1>. QED
  BY <1>1, <1>4, <1>5, <1>6, <1>7 DEF Queue

LEMMA ReadQueue ==
    ASSUME Queue, keyboard_read
    PROVE  /\ Queue' /\ Len(pending) > 0 /\ Next_ = pending[1] /\ Next_ \in Scancodes
           /\ Len(pending') = Len(pending) - 1
           /\ \A i \in 1 .. Len(pending') : pending'[i] = pending[i + 1]
<1>1. /\ ring \in [0 .. Size - 1 -> Scancodes]
      /\ buffer_tail \in 0 .. Size - 1 /\ buffer_count \in 0 .. Size
      /\ buffer_head = (buffer_tail + buffer_count) % Size
      /\ pending \in Seq(Scancodes) /\ Len(pending) = buffer_count
      /\ \A i \in 1 .. buffer_count : ring[(buffer_tail + i - 1) % Size] = pending[i]
  BY DEF Queue
<1>2. /\ Size \in Nat \ {0} /\ buffer_count > 0
      /\ buffer_tail' = (buffer_tail + 1) % Size
      /\ buffer_count' = buffer_count - 1 /\ pending' = Tail(pending)
      /\ UNCHANGED <<ring, buffer_head>>
  BY ShellAssumption DEF Size, keyboard_read
<1>3. /\ buffer_tail' \in 0 .. Size - 1 /\ buffer_count' \in 0 .. Size
      /\ buffer_head' = (buffer_tail' + buffer_count') % Size
  <2>1. buffer_count >= 1 /\ buffer_count \in 0 .. Size
    BY <1>1, <1>2
  <2>2. /\ (buffer_tail + 1) % Size \in 0 .. Size - 1
        /\ (((buffer_tail + 1) % Size) + (buffer_count - 1)) % Size = (buffer_tail + buffer_count) % Size
    BY <1>1, <2>1, Forward
  <2>. QED BY <1>1, <1>2, <2>1, <2>2
<1>4. /\ pending' \in Seq(Scancodes) /\ Len(pending') = buffer_count' /\ Len(pending') = Len(pending) - 1
      /\ \A i \in 1 .. Len(pending') : pending'[i] = pending[i + 1]
  BY <1>1, <1>2
<1>5. ASSUME NEW i \in 1 .. buffer_count'
      PROVE  ring'[(buffer_tail' + i - 1) % Size] = pending'[i]
  <2>1. i + 1 \in 1 .. buffer_count /\ i \in 0 .. Size /\ i >= 1 /\ i \in Int
    BY <1>1, <1>2
  <2>2. (((buffer_tail + 1) % Size) + (i - 1)) % Size = (buffer_tail + i) % Size
    BY <1>1, <2>1, Forward
  <2>3. buffer_tail' \in Int /\ buffer_tail' + i - 1 = buffer_tail' + (i - 1)
        /\ buffer_tail + (i + 1) - 1 = buffer_tail + i
    BY <1>1, <1>3, <2>1
  <2>4. ring[(buffer_tail + (i + 1) - 1) % Size] = pending[i + 1]
    BY <1>1, <2>1
  <2>. QED BY <1>2, <1>4, <2>2, <2>3, <2>4
<1>6. Next_ = pending[1] /\ Next_ \in Scancodes
  <2>1. buffer_tail + 1 - 1 = buffer_tail /\ buffer_tail \in Nat /\ buffer_tail < 2 * Size /\ buffer_tail < Size
    BY <1>1, <1>2
  <2>2. buffer_tail % Size = buffer_tail
    BY <1>1, <1>2, <2>1, Around
  <2>3. 1 \in 1 .. buffer_count
    BY <1>1, <1>2
  <2>. QED BY <1>1, <2>1, <2>2, <2>3 DEF Next_
<1>. QED
  BY <1>1, <1>2, <1>3, <1>4, <1>5, <1>6 DEF Queue

\* A key goes into the ring: what the user means is what the shell will make of it.
LEMMA WriteKey ==
    ASSUME pending \in Seq(Scancodes), KeyInv, LineInv, NEW key \in Keys, NEW released \in BOOLEAN,
           NEW scancode \in Scancodes,
           scancode = [key |-> key, released |-> released,
                       meant |-> IF released THEN NUL ELSE Character(key, held # {}),
                       slipped |-> slipped],
           Flag' = (IF key \in Shifts THEN ~released ELSE Flag),
           pending' = Append(pending, scancode),
           UNCHANGED <<lost, shift>>
    PROVE  KeyInv'
<1>. SUFFICES ASSUME ~lost PROVE KeyInv'
  BY DEF KeyInv
<1>0. PICK n \in Nat : n = Len(pending)
  OBVIOUS
<1>1. /\ n \in Nat /\ Len(pending') = n + 1 /\ pending'[n + 1] = scancode
      /\ \A i \in 1 .. n : pending'[i] = pending[i]
  BY <1>0
<1>2. /\ scancode.key = key /\ scancode.released = released
      /\ ~released => ReadAs(scancode) = Character(key, Flag)
  <2>1. ASSUME ~released PROVE ReadAs(scancode) = Character(key, Flag)
    <3>1. slipped \in BOOLEAN /\ scancode.slipped = slipped /\ scancode.key = key
          /\ scancode.meant = Character(key, held # {})
      BY <2>1 DEF LineInv
    <3>2. CASE slipped
      BY <3>1, <3>2 DEF ReadAs, Flag
    <3>3. CASE ~slipped
      BY <3>1, <3>3 DEF ReadAs, Flag
    <3>. QED BY <3>2, <3>3
  <2>. QED BY <2>1
<1>3. /\ \A i \in 1 .. n, s \in BOOLEAN :
            ~pending[i].released /\ ShiftBefore(i, s) => ReadAs(pending[i]) = Character(pending[i].key, s)
      /\ \A s \in BOOLEAN : ShiftBefore(n + 1, s) => s = Flag
  BY <1>0 DEF KeyInv
<1>4. ASSUME NEW i \in 1 .. n + 1, NEW s \in BOOLEAN, ShiftBefore(i, s)'
      PROVE  ShiftBefore(i, s)
  <2>1. \A j \in 1 .. i - 1 : j \in 1 .. n /\ pending'[j] = pending[j]
    BY <1>1
  <2>2. \A j \in 1 .. i - 1 : IsShift(j)' <=> IsShift(j)
    BY <2>1 DEF IsShift
  <2>3. CASE s = shift' /\ \A j \in 1 .. i - 1 : ~IsShift(j)'
    BY <2>2, <2>3 DEF ShiftBefore
  <2>4. ASSUME NEW j \in 1 .. i - 1, IsShift(j)', s = ~pending'[j].released,
               \A k \in j + 1 .. i - 1 : ~IsShift(k)'
        PROVE  ShiftBefore(i, s)
    <3>1. IsShift(j) /\ s = ~pending[j].released
      BY <2>1, <2>2, <2>4
    <3>2. \A k \in j + 1 .. i - 1 : k \in 1 .. i - 1
      BY <1>1
    <3>3. \A k \in j + 1 .. i - 1 : ~IsShift(k)
      BY <2>2, <2>4, <3>2
    <3>. QED BY <3>1, <3>3 DEF ShiftBefore
  <2>. QED BY <1>4, <2>3, <2>4 DEF ShiftBefore
<1>5. ASSUME NEW i \in 1 .. n + 1, NEW s \in BOOLEAN, ~pending'[i].released, ShiftBefore(i, s)'
      PROVE  ReadAs(pending'[i]) = Character(pending'[i].key, s)
  <2>1. ShiftBefore(i, s)
    BY <1>4, <1>5
  <2>2. CASE i \in 1 .. n
    BY <1>1, <1>3, <1>5, <2>1, <2>2
  <2>3. CASE i = n + 1
    <3>1. s = Flag
      BY <1>3, <2>1, <2>3
    <3>. QED BY <1>1, <1>2, <1>5, <2>3, <3>1
  <2>. QED BY <1>1, <2>2, <2>3
<1>6. ASSUME NEW s \in BOOLEAN, ShiftBefore(n + 2, s)'
      PROVE  s = Flag'
  <2>0. (n + 2) - 1 = n + 1 /\ (n + 1) - 1 = n
    BY <1>1
  <2>1. IsShift(n + 1)' <=> key \in Shifts
    BY <1>1, <1>2 DEF IsShift
  <2>2. CASE key \in Shifts
    <3>1. PICK j \in 1 .. n + 1 : s = ~pending'[j].released /\ \A k \in j + 1 .. n + 1 : ~IsShift(k)'
      <4>1. n + 1 \in 1 .. n + 1
        BY <1>1
      <4>. QED BY <1>6, <2>0, <2>1, <2>2, <4>1 DEF ShiftBefore
    <3>2. j = n + 1
      <4>. SUFFICES ASSUME j # n + 1 PROVE FALSE
        OBVIOUS
      <4>1. n + 1 \in j + 1 .. n + 1
        BY <1>1
      <4>. QED BY <2>1, <2>2, <3>1, <4>1
    <3>. QED BY <1>1, <1>2, <2>2, <3>1, <3>2
  <2>3. CASE key \notin Shifts
    <3>1. ShiftBefore(n + 1, s)'
      <4>1. CASE s = shift' /\ \A j \in 1 .. n + 1 : ~IsShift(j)'
        <5>1. \A j \in 1 .. n : j \in 1 .. n + 1
          BY <1>1
        <5>. QED BY <2>0, <4>1, <5>1 DEF ShiftBefore
      <4>2. ASSUME NEW j \in 1 .. n + 1, IsShift(j)', s = ~pending'[j].released,
                   \A k \in j + 1 .. n + 1 : ~IsShift(k)'
            PROVE  ShiftBefore(n + 1, s)'
        <5>1. j \in 1 .. n
          BY <1>1, <2>1, <2>3, <4>2
        <5>2. \A k \in j + 1 .. n : k \in j + 1 .. n + 1
          BY <1>1
        <5>. QED BY <2>0, <4>2, <5>1, <5>2 DEF ShiftBefore
      <4>. QED BY <1>6, <2>0, <4>1, <4>2 DEF ShiftBefore
    <3>2. n + 1 \in 1 .. n + 1
      BY <1>1
    <3>3. ShiftBefore(n + 1, s)
      BY <1>4, <3>1, <3>2
    <3>. QED BY <1>3, <2>3, <3>3
  <2>. QED BY <2>2, <2>3
<1>7. Len(pending') + 1 = n + 2
  BY <1>1
<1>. QED
  BY <1>1, <1>5, <1>6, <1>7 DEF KeyInv

\* The shell reads a key and keeps the state of shift: the rest means what it did.
LEMMA ReadShift ==
    ASSUME Queue, KeyInv, keyboard_read,
           shift' = (IF Next_.key \in Shifts THEN ~Next_.released ELSE shift),
           UNCHANGED <<userVars, lost>>
    PROVE  KeyInv'
<1>. SUFFICES ASSUME ~lost PROVE KeyInv'
  BY DEF KeyInv
<1>0. PICK n \in Nat : n = Len(pending)
  BY DEF Queue
<1>1. /\ n \in Nat /\ n > 0 /\ Next_ = pending[1] /\ Len(pending') = n - 1
      /\ \A i \in 1 .. n - 1 : pending'[i] = pending[i + 1]
  BY <1>0, ReadQueue
<1>2. /\ \A i \in 1 .. n, s \in BOOLEAN :
            ~pending[i].released /\ ShiftBefore(i, s) => ReadAs(pending[i]) = Character(pending[i].key, s)
      /\ \A s \in BOOLEAN : ShiftBefore(n + 1, s) => s = Flag
  BY <1>0 DEF KeyInv
<1>3. ASSUME NEW i \in 1 .. n, NEW s \in BOOLEAN, ShiftBefore(i, s)'
      PROVE  ShiftBefore(i + 1, s)
  <2>0. (i + 1) - 1 = i /\ i \in Nat /\ 1 \in 1 .. i
    BY <1>1
  <2>1. \A j \in 1 .. i - 1 : j \in 1 .. n - 1 /\ pending'[j] = pending[j + 1]
    BY <1>1
  <2>2. \A j \in 1 .. i - 1 : IsShift(j)' <=> IsShift(j + 1)
    BY <2>1 DEF IsShift
  <2>3. \A k \in 2 .. i : k - 1 \in 1 .. i - 1 /\ (k - 1) + 1 = k
    BY <2>0
  <2>4. CASE s = shift' /\ \A j \in 1 .. i - 1 : ~IsShift(j)'
    <3>1. \A k \in 2 .. i : ~IsShift(k)
      BY <2>2, <2>3, <2>4
    <3>2. CASE Next_.key \in Shifts
      <4>1. IsShift(1) /\ s = ~pending[1].released
        BY <1>1, <2>4, <3>2 DEF IsShift
      <4>2. \A k \in 1 + 1 .. i : k \in 2 .. i
        BY <2>0
      <4>. QED BY <2>0, <3>1, <4>1, <4>2 DEF ShiftBefore
    <3>3. CASE Next_.key \notin Shifts
      <4>1. s = shift /\ ~IsShift(1)
        BY <1>1, <2>4, <3>3 DEF IsShift
      <4>2. \A k \in 1 .. i : k = 1 \/ k \in 2 .. i
        BY <2>0
      <4>. QED BY <2>0, <3>1, <4>1, <4>2 DEF ShiftBefore
    <3>. QED BY <3>2, <3>3
  <2>5. ASSUME NEW j \in 1 .. i - 1, IsShift(j)', s = ~pending'[j].released,
               \A k \in j + 1 .. i - 1 : ~IsShift(k)'
        PROVE  ShiftBefore(i + 1, s)
    <3>1. j + 1 \in 1 .. i
      BY <2>0
    <3>2. IsShift(j + 1) /\ s = ~pending[j + 1].released
      BY <2>1, <2>2, <2>5
    <3>3. ASSUME NEW k \in (j + 1) + 1 .. i PROVE ~IsShift(k)
      <4>1. k - 1 \in j + 1 .. i - 1 /\ k - 1 \in 1 .. i - 1 /\ (k - 1) + 1 = k
        BY <2>0
      <4>. QED BY <2>2, <2>5, <4>1
    <3>. QED BY <2>0, <3>1, <3>2, <3>3 DEF ShiftBefore
  <2>. QED BY <1>3, <2>4, <2>5 DEF ShiftBefore
<1>4. ASSUME NEW i \in 1 .. n - 1, NEW s \in BOOLEAN, ~pending'[i].released, ShiftBefore(i, s)'
      PROVE  ReadAs(pending'[i]) = Character(pending'[i].key, s)
  <2>1. i \in 1 .. n /\ i + 1 \in 1 .. n
    BY <1>1
  <2>2. ShiftBefore(i + 1, s)
    BY <1>3, <1>4, <2>1
  <2>. QED BY <1>1, <1>2, <1>4, <2>1, <2>2
<1>5. ASSUME NEW s \in BOOLEAN, ShiftBefore((n - 1) + 1, s)'
      PROVE  s = Flag'
  <2>1. n \in 1 .. n /\ (n - 1) + 1 = n
    BY <1>1
  <2>2. ShiftBefore(n + 1, s)
    BY <1>3, <1>5, <2>1
  <2>. QED BY <1>2, <2>2 DEF Flag, userVars
<1>. QED
  BY <1>1, <1>4, <1>5 DEF KeyInv

\* What does not touch the keys keeps what they mean.
LEMMA SameKeys ==
    ASSUME KeyInv, UNCHANGED <<pending, shift, userVars, lost>>
    PROVE  KeyInv'
BY DEF KeyInv, ShiftBefore, IsShift, Flag, userVars

LEMMA SameQueue ==
    ASSUME Queue, UNCHANGED keyboardVars
    PROVE  Queue'
BY DEF Queue, keyboardVars

-----------------------------------------------------------------------------
(* The echo on the screen.                                                  *)

\* A printed character stands where the cursor was; the cursor goes on in the row, or
\* to the start of a row.
LEMMA PutPrintable ==
    ASSUME TypeOK, NEW character, character \notin {NEWLINE, BACKSPACE},
           terminal_put_char(character)
    PROVE  \/ cursor'[1] = 0
           \/ /\ cursor' = <<cursor[1] + 1, cursor[2]>>
              /\ buffer' = [buffer EXCEPT ![cursor] = character]
<1>1. terminal_set_cursor([buffer EXCEPT ![cursor] = character],
                          [screen EXCEPT ![cursor] = character], cursor[1] + 1, cursor[2])
  BY DEF terminal_put_char, put_printable
<1>. DEFINE b == [buffer EXCEPT ![cursor] = character]
            x == cursor[1] + 1
            y == cursor[2]
<1>2. /\ buffer' = IF Scrolls(x, y) THEN terminal_scroll(b) ELSE b
      /\ cursor' = Target(x, y)
  BY <1>1 DEF terminal_set_cursor
<1>. HIDE DEF b, x, y
<1>3. CASE Outside(x, y)
  BY <1>2, <1>3 DEF Target
<1>4. CASE ~Outside(x, y)
  BY <1>2, <1>4 DEF Target, Scrolls, b, x, y
<1>. QED
  BY <1>3, <1>4

\* Within a row, backspace leaves a blank and stands on it.
LEMMA PutBackspace ==
    ASSUME TypeOK, cursor[1] # 0, terminal_put_char(BACKSPACE)
    PROVE  /\ cursor' = <<cursor[1] - 1, cursor[2]>>
           /\ buffer' = [buffer EXCEPT ![<<cursor[1] - 1, cursor[2]>>] = BLANK]
<1>. DEFINE x == cursor[1] - 1
            y == cursor[2]
            b == [buffer EXCEPT ![<<x, y>>] = BLANK]
<1>1. put_backspace
  BY DEF terminal_put_char, NEWLINE, BACKSPACE
<1>2. /\ buffer' = IF Scrolls(x, y) THEN terminal_scroll(b) ELSE b
      /\ cursor' = Target(x, y)
  BY <1>1 DEF put_backspace, terminal_set_cursor
<1>3. ~Outside(x, y)
  <2>1. cursor[1] \in Columns /\ cursor[2] \in Rows
    BY CellsArePairs DEF TypeOK
  <2>. QED BY <2>1, SizeAssumption DEF Outside, Columns, Rows
<1>. QED
  BY <1>2, <1>3 DEF Target, Scrolls

\* The terminal's part of a step of the shell.
LEMMA PutKeepsTerminal ==
    ASSUME TerminalInv, NEW character \in Characters \cup {BACKSPACE},
           terminal_put_char(character), UNCHANGED rest
    PROVE  TerminalInv'
BY PutCharInv DEF TerminalInv, TypeOK, ScreenType

LEMMA SameTerminal ==
    ASSUME TerminalInv, UNCHANGED vars
    PROVE  TerminalInv'
BY NextInv

\* The line without its last letter.
LEMMA WithoutLast ==
    ASSUME NEW S, NEW s \in Seq(S), Len(s) > 0
    PROVE  /\ SubSeq(s, 1, Len(s) - 1) \in Seq(S)
           /\ Len(SubSeq(s, 1, Len(s) - 1)) = Len(s) - 1
           /\ \A i \in 1 .. Len(s) - 1 : SubSeq(s, 1, Len(s) - 1)[i] = s[i]
<1>. DEFINE n == Len(s) - 1
            t == SubSeq(s, 1, n)
<1>1. n \in Nat /\ 1 \in Int /\ \A i \in 1 .. n : s[i] \in S
  OBVIOUS
<1>. HIDE DEF n
<1>2. /\ t \in Seq(S) /\ Len(t) = IF 1 <= n THEN n - 1 + 1 ELSE 0
      /\ \A i \in 1 .. n - 1 + 1 : t[i] = s[1 + i - 1]
  BY <1>1, SubSeqProperties, n \in Int
<1>. HIDE DEF t
<1>3. Len(t) = n
  BY <1>1, <1>2
<1>4. ASSUME NEW i \in 1 .. n PROVE t[i] = s[i]
  <2>1. i \in 1 .. n - 1 + 1 /\ 1 + i - 1 = i
    BY <1>1
  <2>. QED BY <1>2, <2>1
<1>. QED
  BY <1>2, <1>3, <1>4 DEF n, t

\* A letter is added to the line and echoed.
LEMMA LetterShown ==
    ASSUME TypeOK, LineInv, ScreenShowsLine, NEW character \in Letters,
           at = "read", line' = Append(line, character), Echo(character), UNCHANGED <<at, start>>
    PROVE  ScreenShowsLine'
<1>. SUFFICES ASSUME ~wrapped', start[1] > 0
              PROVE  /\ cursor' = <<start[1] + Len(line'), start[2]>>
                     /\ \A i \in 1 .. Len(line') : buffer'[<<start[1] + i - 1, start[2]>>] = line'[i]
                     /\ buffer'[<<start[1] - 1, start[2]>>] = BLANK
  BY DEF ScreenShowsLine
<1>1. ~wrapped /\ cursor'[1] # 0
  BY DEF Echo
<1>2. /\ cursor = <<start[1] + Len(line), start[2]>>
      /\ \A i \in 1 .. Len(line) : buffer[<<start[1] + i - 1, start[2]>>] = line[i]
      /\ buffer[<<start[1] - 1, start[2]>>] = BLANK
  BY <1>1 DEF ScreenShowsLine
<1>3. /\ cursor' = <<cursor[1] + 1, cursor[2]>>
      /\ buffer' = [buffer EXCEPT ![cursor] = character]
  BY <1>1, PutPrintable DEF Echo, Letters, NEWLINE, BACKSPACE
<1>4. start[1] \in Nat /\ buffer \in [Cells -> Characters] /\ cursor \in Cells
  BY CellsArePairs, SizeAssumption DEF LineInv, TypeOK, Columns
<1>5. /\ line \in Seq(Letters) /\ Len(line) \in Nat /\ Len(line') = Len(line) + 1
      /\ line'[Len(line) + 1] = character /\ \A i \in 1 .. Len(line) : line'[i] = line[i]
  <2>1. line \in Seq(Letters) /\ line' = Append(line, character)
    BY DEF LineInv
  <2>. HIDE DEF Letters
  <2>2. Len(line) \in Nat /\ Len(line') = Len(line) + 1
    BY <2>1
  <2>3. line'[Len(line) + 1] = character
    BY <2>1
  <2>4. ASSUME NEW i \in 1 .. Len(line) PROVE line'[i] = line[i]
    BY <2>1
  <2>. QED BY <2>1, <2>2, <2>3, <2>4
<1>. HIDE DEF Letters
<1>6. cursor' = <<start[1] + Len(line'), start[2]>>
  <2>1. cursor[1] = start[1] + Len(line) /\ cursor[2] = start[2]
    BY <1>2
  <2>2. start[1] \in Nat /\ Len(line) \in Nat
    BY <1>4, <1>5
  <2>3. ASSUME NEW a \in Nat, NEW b \in Nat PROVE (a + b) + 1 = a + (b + 1)
    OBVIOUS
  <2>4. cursor' = <<(start[1] + Len(line)) + 1, start[2]>>
    BY <1>3, <2>1
  <2>. QED BY <1>5, <2>2, <2>3, <2>4
<1>7. \A c \in Cells : c # cursor => buffer'[c] = buffer[c]
  BY <1>3, <1>4
<1>8. buffer'[cursor] = character
  BY <1>3, <1>4
<1>9. \A x \in Nat : x < cursor[1] => <<x, cursor[2]>> \in Cells /\ <<x, cursor[2]>> # cursor
  BY <1>4, CellsArePairs, SizeAssumption DEF Columns
<1>10. cursor[1] = start[1] + Len(line) /\ cursor[2] = start[2]
  BY <1>2
<1>11. ASSUME NEW i \in 1 .. Len(line')
       PROVE  buffer'[<<start[1] + i - 1, start[2]>>] = line'[i]
  <2>1. CASE i \in 1 .. Len(line)
    <3>1. start[1] + i - 1 \in Nat /\ start[1] + i - 1 < cursor[1]
      BY <1>4, <1>5, <1>10, <2>1
    <3>2. <<start[1] + i - 1, start[2]>> \in Cells /\ <<start[1] + i - 1, start[2]>> # cursor
      BY <1>9, <1>10, <3>1
    <3>. QED BY <1>2, <1>5, <1>7, <2>1, <3>2
  <2>2. CASE i = Len(line) + 1
    <3>1. start[1] + i - 1 = start[1] + Len(line)
      BY <1>4, <1>5, <2>2
    <3>. QED BY <1>2, <1>5, <1>8, <2>2, <3>1
  <2>. QED BY <1>5, <2>1, <2>2
<1>12. buffer'[<<start[1] - 1, start[2]>>] = BLANK
  <2>1. start[1] - 1 \in Nat /\ start[1] - 1 < cursor[1]
    BY <1>4, <1>5, <1>10
  <2>. QED BY <1>2, <1>7, <1>9, <1>10, <2>1
<1>. QED
  BY <1>6, <1>11, <1>12

\* The last letter of the line is erased, and its echo.
LEMMA LetterErased ==
    ASSUME TypeOK, LineInv, ScreenShowsLine, at = "read", Len(line) > 0,
           line' = SubSeq(line, 1, Len(line) - 1), Echo(BACKSPACE), UNCHANGED <<at, start>>
    PROVE  ScreenShowsLine'
<1>. SUFFICES ASSUME ~wrapped', start[1] > 0
              PROVE  /\ cursor' = <<start[1] + Len(line'), start[2]>>
                     /\ \A i \in 1 .. Len(line') : buffer'[<<start[1] + i - 1, start[2]>>] = line'[i]
                     /\ buffer'[<<start[1] - 1, start[2]>>] = BLANK
  BY DEF ScreenShowsLine
<1>1. /\ cursor = <<start[1] + Len(line), start[2]>>
      /\ \A i \in 1 .. Len(line) : buffer[<<start[1] + i - 1, start[2]>>] = line[i]
      /\ buffer[<<start[1] - 1, start[2]>>] = BLANK
  BY DEF ScreenShowsLine, Echo
<1>2. start[1] \in Nat /\ buffer \in [Cells -> Characters] /\ cursor \in Cells
  BY CellsArePairs, SizeAssumption DEF LineInv, TypeOK, Columns
<1>3. /\ line \in Seq(Letters) /\ Len(line) \in Nat /\ Len(line') = Len(line) - 1
      /\ \A i \in 1 .. Len(line) - 1 : line'[i] = line[i]
  <2>1. line \in Seq(Letters) /\ Len(line) \in Nat
    BY DEF LineInv
  <2>. QED BY <2>1, WithoutLast
<1>4. cursor[1] = start[1] + Len(line) /\ cursor[2] = start[2] /\ cursor[1] # 0 /\ cursor[1] \in Nat
  BY <1>1, <1>2, <1>3
<1>5. /\ cursor' = <<cursor[1] - 1, cursor[2]>>
      /\ buffer' = [buffer EXCEPT ![<<cursor[1] - 1, cursor[2]>>] = BLANK]
  BY <1>4, PutBackspace DEF Echo
<1>6. cursor' = <<start[1] + Len(line'), start[2]>>
  BY <1>2, <1>3, <1>4, <1>5
<1>7. \A x \in Nat : x < cursor[1] - 1 => buffer'[<<x, cursor[2]>>] = buffer[<<x, cursor[2]>>]
  <2>1. \A x \in Nat : x < cursor[1] - 1 => <<x, cursor[2]>> \in Cells /\ <<x, cursor[2]>> # <<cursor[1] - 1, cursor[2]>>
    BY <1>2, <1>4, CellsArePairs, SizeAssumption DEF Columns
  <2>. QED BY <1>2, <1>5, <2>1
<1>8. ASSUME NEW i \in 1 .. Len(line')
      PROVE  buffer'[<<start[1] + i - 1, start[2]>>] = line'[i]
  <2>1. start[1] + i - 1 \in Nat /\ start[1] + i - 1 < cursor[1] - 1 /\ i \in 1 .. Len(line) - 1
        /\ i \in 1 .. Len(line)
    BY <1>2, <1>3, <1>4
  <2>. QED BY <1>1, <1>3, <1>4, <1>7, <2>1
<1>9. buffer'[<<start[1] - 1, start[2]>>] = BLANK
  <2>1. start[1] - 1 \in Nat /\ start[1] - 1 < cursor[1] - 1
    BY <1>2, <1>3, <1>4
  <2>. QED BY <1>1, <1>4, <1>7, <2>1
<1>. QED
  BY <1>6, <1>8, <1>9

-----------------------------------------------------------------------------
(* The steps.                                                               *)

LEMMA ShellInit == SInit => IInv
<1>. SUFFICES ASSUME SInit PROVE IInv
  OBVIOUS
<1>1. TerminalInv
  BY InitInv DEF SInit
<1>2. Queue
  <2>1. Size \in Nat \ {0} /\ 0 % Size = 0
    BY ShellAssumption DEF Size
  <2>2. [key |-> "dead", released |-> FALSE, meant |-> NUL, slipped |-> FALSE] \in Scancodes
    BY DEF Scancodes, Keys, Characters
  <2>3. ring \in [0 .. Size - 1 -> Scancodes]
    BY <2>2 DEF SInit, Size
  <2>4. /\ buffer_head = 0 /\ buffer_tail = 0 /\ buffer_count = 0 /\ pending = <<>>
        /\ pending \in Seq(Scancodes) /\ Len(pending) = 0 /\ 0 + 0 = 0
    BY DEF SInit
  <2>. QED BY <2>1, <2>3, <2>4 DEF Queue
<1>3. KeyInv
  <2>1. pending = <<>> /\ Len(pending) = 0 /\ shift = FALSE /\ Flag = FALSE
    BY DEF SInit, Flag
  <2>2. \A s \in BOOLEAN : ShiftBefore(Len(pending) + 1, s) => s = Flag
    <3>1. \A j \in 1 .. (Len(pending) + 1) - 1 : FALSE
      BY <2>1
    <3>. QED BY <2>1, <3>1, Zenon DEF ShiftBefore
  <2>. QED BY <2>1, <2>2 DEF KeyInv
<1>4. LineInv /\ ScreenShowsLine
  <2>1. <<0, 0>> \in Cells
    BY CellsArePairs, SizeAssumption DEF Columns, Rows
  <2>2. line = <<>> /\ Len(line) = 0 /\ line \in Seq(Letters) /\ 0 + 1 <= LINE_MAX
    BY ShellAssumption DEF SInit
  <2>3. /\ held = {} /\ slipped = FALSE /\ shift = FALSE /\ lost = FALSE /\ wrapped = FALSE
        /\ at = "prompt" /\ start = <<0, 0>>
    BY DEF SInit
  <2>4. held \subseteq Shifts /\ {slipped, shift, lost, wrapped} \subseteq BOOLEAN
    BY <2>3, Zenon
  <2>5. ScreenShowsLine
    BY <2>3 DEF ScreenShowsLine
  <2>. QED BY <2>1, <2>2, <2>3, <2>4, <2>5 DEF LineInv
<1>. QED
  BY <1>1, <1>2, <1>3, <1>4 DEF IInv

\* A keyboard interrupt, at any moment.
LEMMA IrqIInv ==
    ASSUME IInv, NEW key \in Keys, NEW released \in BOOLEAN, keyboard_irq_handler(key, released)
    PROVE  IInv'
<1>. DEFINE scancode == [key |-> key, released |-> released,
                         meant |-> IF released THEN NUL ELSE Character(key, held # {}),
                         slipped |-> slipped]
<1>1. /\ IF key \in Shifts
         THEN /\ held' = IF released THEN held \ {key} ELSE held \cup {key}
              /\ slipped' = (released /\ held' # {})
         ELSE UNCHANGED userVars
      /\ keyboard_buffer_write(scancode)
      /\ UNCHANGED vars /\ UNCHANGED shellVars
  BY DEF keyboard_irq_handler
<1>2. scancode \in Scancodes
  <2>1. Character(key, held # {}) \in Characters \cup {BACKSPACE} /\ NUL \in Characters
        /\ slipped \in BOOLEAN
    BY CharacterType DEF Characters, IInv, LineInv
  <2>. QED BY <2>1 DEF Scancodes
<1>. HIDE DEF scancode
<1>3. TerminalInv'
  BY <1>1, SameTerminal DEF IInv
<1>4. LineInv'
  <2>1. held' \subseteq Shifts /\ slipped' \in BOOLEAN
    <3>1. CASE key \in Shifts
      BY <1>1, <3>1 DEF IInv, LineInv
    <3>2. CASE key \notin Shifts
      BY <1>1, <3>2 DEF IInv, LineInv, userVars
    <3>. QED BY <3>1, <3>2
  <2>2. lost' \in BOOLEAN
    BY <1>1 DEF IInv, LineInv, keyboard_buffer_write
  <2>. QED BY <1>1, <2>1, <2>2 DEF IInv, LineInv, shellVars
<1>5. ScreenShowsLine'
  BY <1>1 DEF IInv, ScreenShowsLine, shellVars, vars
<1>7. Flag' = (IF key \in Shifts THEN ~released ELSE Flag)
  <2>1. ASSUME key \in Shifts, released PROVE Flag' = FALSE
    BY <1>1, <2>1 DEF Flag
  <2>2. ASSUME key \in Shifts, ~released PROVE Flag' = TRUE
    BY <1>1, <2>2 DEF Flag
  <2>3. ASSUME key \notin Shifts PROVE Flag' = Flag
    BY <1>1, <2>3 DEF Flag, userVars
  <2>. QED BY <2>1, <2>2, <2>3
<1>6. Queue' /\ KeyInv'
  <2>1. CASE buffer_count = Size
    <3>1. lost' = TRUE /\ UNCHANGED keyboardVars
      BY <1>1, <2>1 DEF keyboard_buffer_write, Size
    <3>. QED BY <3>1, SameQueue DEF IInv, KeyInv
  <2>2. CASE buffer_count # Size
    <3>1. /\ ring' = [ring EXCEPT ![buffer_head] = scancode]
          /\ buffer_head' = (buffer_head + 1) % Size
          /\ buffer_count' = buffer_count + 1
          /\ pending' = Append(pending, scancode)
          /\ UNCHANGED <<buffer_tail, lost>>
      BY <1>1, <2>2 DEF keyboard_buffer_write, Size
    <3>2. buffer_count < Size /\ pending \in Seq(Scancodes)
      BY <2>2, ShellAssumption DEF IInv, Queue, Size
    <3>3. Queue'
      BY <1>2, <3>1, <3>2, WriteQueue DEF IInv
    <3>4. UNCHANGED <<lost, shift>>
      BY <1>1, <3>1 DEF shellVars
    <3>5. KeyInv'
      BY <1>2, <1>7, <3>1, <3>2, <3>4, WriteKey DEF IInv, scancode
    <3>. QED BY <3>3, <3>5
  <2>. QED BY <2>1, <2>2
<1>. QED
  BY <1>3, <1>4, <1>5, <1>6 DEF IInv

\* The shell reads a key.
LEMMA ReadKeyIInv == ASSUME IInv, ReadKey PROVE IInv'
<1>. DEFINE character == Character(Next_.key, ShiftSeen)
<1>1. /\ at = "read" /\ keyboard_read
      /\ shift' = (IF Next_.key \in Shifts THEN ~Next_.released ELSE shift)
      /\ UNCHANGED <<rest, userVars, lost, keys, start>>
  BY DEF ReadKey
<1>2. Queue' /\ KeyInv' /\ Next_ \in Scancodes
  BY <1>1, ReadQueue, ReadShift DEF IInv
<1>3. shift' \in BOOLEAN
  BY <1>1, <1>2 DEF IInv, LineInv, Scancodes
<1>4. \/ UNCHANGED <<buffer, cursor, screen, line, at, wrapped>>
      \/ CanErase /\ line' = SubSeq(line, 1, Len(line) - 1) /\ Echo(BACKSPACE) /\ UNCHANGED at
      \/ /\ character \in Letters /\ HasRoom /\ line' = Append(line, character)
         /\ Echo(character) /\ UNCHANGED at
      \/ terminal_put_char(NEWLINE) /\ at' = "run" /\ UNCHANGED <<line, wrapped>>
  BY DEF ReadKey, terminalVars
<1>. HIDE DEF character
<1>5. TerminalInv' /\ LineInv' /\ ScreenShowsLine'
  <2>0. TerminalInv /\ LineInv /\ ScreenShowsLine /\ TypeOK
    BY DEF IInv, TerminalInv
  <2>1. /\ line \in Seq(Letters) /\ Len(line) \in Nat /\ Len(line) + 1 <= LINE_MAX
        /\ LINE_MAX \in Nat
    BY <2>0, ShellAssumption DEF LineInv
  <2>2. CASE UNCHANGED <<buffer, cursor, screen, line, at, wrapped>>
    <3>1. TerminalInv'
      BY <1>1, <2>0, <2>2, SameTerminal DEF vars
    <3>2. LineInv'
      BY <1>1, <1>3, <2>0, <2>2 DEF LineInv, userVars
    <3>3. ScreenShowsLine'
      BY <1>1, <2>0, <2>2 DEF ScreenShowsLine
    <3>. QED BY <3>1, <3>2, <3>3
  <2>3. CASE CanErase /\ line' = SubSeq(line, 1, Len(line) - 1) /\ Echo(BACKSPACE) /\ UNCHANGED at
    <3>1. TerminalInv'
      BY <1>1, <2>0, <2>3, PutKeepsTerminal DEF Echo
    <3>2. Len(line) > 0
      BY <2>3 DEF CanErase
    <3>3. line' \in Seq(Letters) /\ Len(line') = Len(line) - 1
      BY <2>1, <2>3, <3>2, WithoutLast
    <3>4. Len(line') + 1 <= LINE_MAX
      BY <2>1, <3>3
    <3>5. wrapped' \in BOOLEAN
      BY <2>3 DEF Echo
    <3>6. LineInv'
      BY <1>1, <1>3, <2>0, <2>3, <3>3, <3>4, <3>5 DEF LineInv, userVars
    <3>7. ScreenShowsLine'
      BY <1>1, <2>0, <2>3, <3>2, LetterErased
    <3>. QED BY <3>1, <3>6, <3>7
  <2>4. CASE /\ character \in Letters /\ HasRoom /\ line' = Append(line, character)
             /\ Echo(character) /\ UNCHANGED at
    <3>1. character \in Characters
      BY <2>4, ShellAssumption DEF Letters, Characters
    <3>2. TerminalInv'
      BY <1>1, <2>0, <2>4, <3>1, PutKeepsTerminal DEF Echo
    <3>3. line' \in Seq(Letters) /\ Len(line') = Len(line) + 1
      BY <2>1, <2>4
    <3>4. Len(line') + 1 <= LINE_MAX
      BY <2>1, <2>4, <3>3 DEF HasRoom
    <3>5. wrapped' \in BOOLEAN
      BY <2>4 DEF Echo
    <3>6. LineInv'
      BY <1>1, <1>3, <2>0, <2>4, <3>3, <3>4, <3>5 DEF LineInv, userVars
    <3>7. ScreenShowsLine'
      BY <1>1, <2>0, <2>4, LetterShown
    <3>. QED BY <3>2, <3>6, <3>7
  <2>5. CASE terminal_put_char(NEWLINE) /\ at' = "run" /\ UNCHANGED <<line, wrapped>>
    <3>1. NEWLINE \in Characters
      BY DEF Characters
    <3>2. TerminalInv'
      BY <1>1, <2>0, <2>5, <3>1, PutKeepsTerminal
    <3>3. LineInv'
      BY <1>1, <1>3, <2>0, <2>5 DEF LineInv, userVars
    <3>4. ScreenShowsLine'
      BY <2>5 DEF ScreenShowsLine
    <3>. QED BY <3>2, <3>3, <3>4
  <2>. QED BY <1>4, <2>2, <2>3, <2>4, <2>5
<1>. QED
  BY <1>2, <1>5 DEF IInv

\* The line is handed over, or the command ends: the screen and the keys stay.
LEMMA RunIInv == ASSUME IInv, run_command \/ CommandEnds PROVE IInv'
<1>1. /\ UNCHANGED vars /\ UNCHANGED keyboardVars /\ UNCHANGED <<userVars, lost, shift, start, wrapped>>
      /\ at' \in {"prompt", "command", "exited"} /\ line' = <<>>
  BY DEF run_command, CommandEnds, IInv, LineInv
<1>2. TerminalInv' /\ Queue'
  BY <1>1, SameTerminal, SameQueue DEF IInv
<1>3. KeyInv'
  BY <1>1, SameKeys DEF IInv, keyboardVars
<1>4. LineInv' /\ ScreenShowsLine'
  BY <1>1, ShellAssumption DEF IInv, LineInv, ScreenShowsLine, userVars
<1>. QED
  BY <1>2, <1>3, <1>4 DEF IInv

\* The prompt, in two steps; the line begins behind it.
LEMMA PromptIInv == ASSUME IInv, Prompt PROVE IInv'
<1>1. /\ UNCHANGED rest /\ UNCHANGED keyboardVars /\ UNCHANGED <<userVars, lost, line, shift>>
      /\ \/ at = "prompt" /\ terminal_put_char(">") /\ at' = "blank" /\ UNCHANGED <<start, wrapped>>
         \/ /\ at = "blank" /\ terminal_put_char(BLANK) /\ at' = "read"
            /\ start' = cursor' /\ wrapped' = FALSE
  BY DEF Prompt
<1>2. Queue' /\ KeyInv'
  BY <1>1, SameQueue, SameKeys DEF IInv, keyboardVars
<1>3. line = <<>> /\ TypeOK
  BY <1>1 DEF IInv, LineInv, TerminalInv
<1>4. TerminalInv'
  <2>1. ">" \in Characters /\ BLANK \in Characters
    BY ShellAssumption DEF Characters
  <2>. QED BY <1>1, <2>1, PutKeepsTerminal DEF IInv
<1>5. LineInv'
  <2>1. cursor' \in Cells
    BY <1>4 DEF TerminalInv, TypeOK
  <2>. QED BY <1>1, <1>3, <2>1 DEF IInv, LineInv, userVars
<1>6. ScreenShowsLine'
  <2>. SUFFICES ASSUME at' = "read", start'[1] > 0
                PROVE  /\ cursor' = <<start'[1] + Len(line'), start'[2]>>
                       /\ \A i \in 1 .. Len(line') : buffer'[<<start'[1] + i - 1, start'[2]>>] = line'[i]
                       /\ buffer'[<<start'[1] - 1, start'[2]>>] = BLANK
    BY DEF ScreenShowsLine
  <2>1. start' = cursor' /\ terminal_put_char(BLANK) /\ line' = <<>> /\ Len(line') = 0
    BY <1>1, <1>3
  <2>2. cursor' \in Cells /\ cursor'[1] > 0
    BY <1>4, <2>1 DEF TerminalInv, TypeOK
  <2>3. cursor' = <<cursor'[1], cursor'[2]>> /\ cursor'[1] \in Nat
    BY <2>2, CellsArePairs, SizeAssumption DEF Columns
  <2>4. /\ cursor' = <<cursor[1] + 1, cursor[2]>>
        /\ buffer' = [buffer EXCEPT ![cursor] = BLANK]
    <3>1. cursor'[1] # 0
      BY <2>2, <2>3
    <3>2. BLANK \notin {NEWLINE, BACKSPACE}
      BY DEF BLANK, NEWLINE, BACKSPACE
    <3>. QED BY <1>3, <2>1, <3>1, <3>2, PutPrintable
  <2>5. cursor = <<cursor[1], cursor[2]>> /\ cursor[1] \in Nat /\ cursor \in Cells
        /\ buffer \in [Cells -> Characters]
    BY <1>3, CellsArePairs, SizeAssumption DEF TypeOK, Columns
  <2>6. buffer'[cursor] = BLANK
    BY <2>4, <2>5
  <2>7. start'[1] - 1 = cursor[1] /\ start'[2] = cursor[2]
    BY <2>1, <2>4, <2>5
  <2>8. buffer'[<<start'[1] - 1, start'[2]>>] = BLANK
    BY <2>5, <2>6, <2>7
  <2>9. cursor' = <<start'[1] + Len(line'), start'[2]>>
    <3>1. cursor'[1] + 0 = cursor'[1]
      BY <2>3
    <3>. QED BY <2>1, <2>3, <3>1
  <2>. QED BY <2>1, <2>8, <2>9
<1>. QED
  BY <1>2, <1>4, <1>5, <1>6 DEF IInv

\* The command reads a key, which the shell will miss.
LEMMA CommandReadsIInv == ASSUME IInv, CommandReads PROVE IInv'
<1>1. keyboard_read /\ lost' = TRUE /\ UNCHANGED vars /\ UNCHANGED <<userVars, keys>> /\ UNCHANGED shellVars
  BY DEF CommandReads
<1>2. Queue' /\ KeyInv'
  BY <1>1, ReadQueue DEF IInv, KeyInv
<1>3. TerminalInv'
  BY <1>1, SameTerminal DEF IInv
<1>4. LineInv' /\ ScreenShowsLine'
  BY <1>1 DEF IInv, LineInv, ScreenShowsLine, shellVars, vars, userVars
<1>. QED
  BY <1>2, <1>3, <1>4 DEF IInv

\* The command writes to the terminal or paints over it.
LEMMA CommandWritesIInv == ASSUME IInv, CommandWrites PROVE IInv'
<1>1. /\ at = "command" /\ UNCHANGED keyboardVars /\ UNCHANGED <<userVars, lost, keys>> /\ UNCHANGED shellVars
      /\ \/ \E length \in 1 .. MaxLength : terminal_write(length)
         \/ \E character \in {"a", NEWLINE, BACKSPACE, NUL} : Put(character)
         \/ framebuffer_dev_write(Cells)
  BY DEF CommandWrites
<1>2. Queue' /\ KeyInv'
  BY <1>1, SameQueue, SameKeys DEF IInv, keyboardVars, shellVars
<1>3. TerminalInv'
  <2>1. \A character \in {"a", NEWLINE, BACKSPACE, NUL} : character \in Characters \cup {BACKSPACE}
    BY ShellAssumption DEF Characters
  <2>2. Cells \in SUBSET Cells
    OBVIOUS
  <2>3. Next
    BY <1>1, <2>1, <2>2 DEF Next
  <2>. QED BY <2>3, NextInv DEF IInv
<1>4. LineInv' /\ ScreenShowsLine'
  BY <1>1 DEF IInv, LineInv, ScreenShowsLine, shellVars, userVars
<1>. QED
  BY <1>2, <1>3, <1>4 DEF IInv

LEMMA SameAllIInv == ASSUME IInv, UNCHANGED allVars PROVE IInv'
<1>1. UNCHANGED vars /\ UNCHANGED keyboardVars /\ UNCHANGED <<userVars, lost>> /\ UNCHANGED shellVars
  BY DEF allVars
<1>2. TerminalInv' /\ Queue' /\ KeyInv'
  BY <1>1, SameTerminal, SameQueue, SameKeys DEF IInv, keyboardVars, shellVars
<1>3. LineInv' /\ ScreenShowsLine'
  BY <1>1 DEF IInv, LineInv, ScreenShowsLine, shellVars, vars, userVars
<1>. QED
  BY <1>2, <1>3 DEF IInv

LEMMA ShellNext == IInv /\ [SNext]_allVars => IInv'
<1>1. Shifts \cup {"dead"} \subseteq Keys
  BY DEF Keys
<1>2. ASSUME IInv, NEW key \in Keys PROVE keyboard_irq_handler(key, FALSE) => IInv'
  BY <1>2, IrqIInv
<1>3. ASSUME IInv, NEW key \in Shifts \cup {"dead"} PROVE keyboard_irq_handler(key, TRUE) => IInv'
  BY <1>1, <1>3, IrqIInv
<1>. QED
  BY <1>2, <1>3, ReadKeyIInv, RunIInv, PromptIInv, CommandReadsIInv, CommandWritesIInv, SameAllIInv
     DEF SNext

-----------------------------------------------------------------------------
(* The theorems.                                                            *)

LEMMA ShellInvariance == SSpec => []IInv
BY ShellInit, ShellNext, PTL DEF SSpec

\* keyboard.c 13-36: whatever comes in and whoever reads, the ring gives back what was
\* pressed, in order; and the shell's line and its final zero fit (shell.c 143).
THEOREM KeyboardIsQueue == SSpec => []RingIsQueue
<1>1. IInv => RingIsQueue
  <2>. SUFFICES ASSUME IInv PROVE RingIsQueue
    OBVIOUS
  <2>1. buffer_head \in 0 .. Size - 1
    <3>1. Size \in Nat \ {0} /\ buffer_tail + buffer_count \in Nat
      BY ShellAssumption DEF IInv, Queue, Size
    <3>. QED BY <3>1 DEF IInv, Queue
  <2>2. STypeOK
    BY <2>1 DEF IInv, TerminalInv, Queue, LineInv, STypeOK, Size
  <2>. QED
    BY <2>2 DEF IInv, Queue, RingIsQueue, Size
<1>. QED
  BY <1>1, ShellInvariance, PTL

\* shell.c 120-132: as long as no key was dropped or read by a command, the shell reads
\* every key as the user meant it, however late, save while one shift key is held and the
\* other was let go after it was pressed: then it reads the key without shift.
THEOREM KeysAreUnderstood == SSpec => []KeysMeanWhatWasTyped
<1>1. IInv => KeysMeanWhatWasTyped
  <2>. SUFFICES ASSUME IInv, buffer_count > 0, ~lost, ~Next_.released
                PROVE  Character(Next_.key, shift) = ReadAs(Next_)
    BY DEF KeysMeanWhatWasTyped, ShiftSeen, ReadAs
  <2>1. Len(pending) = buffer_count /\ buffer_count \in Nat /\ 1 \in 1 .. Len(pending)
    BY ShellAssumption DEF IInv, Queue, Size
  <2>2. Next_ = pending[1]
    <3>1. /\ Size \in Nat \ {0} /\ buffer_tail \in 0 .. Size - 1
          /\ ring[(buffer_tail + 1 - 1) % Size] = pending[1]
      BY <2>1, ShellAssumption DEF IInv, Queue, Size
    <3>2. buffer_tail + 1 - 1 = buffer_tail /\ buffer_tail \in Nat
      BY <3>1
    <3>3. buffer_tail % Size = buffer_tail
      BY <3>1, <3>2
    <3>. QED BY <3>1, <3>2, <3>3 DEF Next_
  <2>3. ShiftBefore(1, shift) /\ shift \in BOOLEAN
    BY DEF ShiftBefore, IInv, LineInv
  <2>. QED BY <2>1, <2>2, <2>3 DEF IInv, KeyInv
<1>. QED
  BY <1>1, ShellInvariance, PTL

\* shell.c 134-146 and terminal.c 51-72: the line that will be run stands between the
\* prompt and the cursor, as long as it has not left its row.
THEOREM LineIsOnScreen == SSpec => []ScreenShowsLine
<1>1. IInv => ScreenShowsLine
  BY DEF IInv
<1>. QED
  BY <1>1, ShellInvariance, PTL

\* The shell, its command and the keyboard drive the terminal as Terminal allows: the
\* screen shows the buffer, with nothing below the cursor.
THEOREM ShellKeepsTerminal == SSpec => [](ScreenShowsBuffer /\ BelowCursorIsEmpty)
<1>1. IInv => ScreenShowsBuffer /\ BelowCursorIsEmpty
  BY DEF IInv, TerminalInv
<1>. QED
  BY <1>1, ShellInvariance, PTL
=============================================================================
