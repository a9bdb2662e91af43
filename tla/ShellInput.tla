----------------------------- MODULE ShellInput -----------------------------
(***************************************************************************)
(* From the keyboard to the screen: the ring buffer that the interrupt      *)
(* handler fills, the shell that turns scancodes into a line, its echo on   *)
(* the terminal, and the command that runs while the shell waits and may    *)
(* read the same keyboard.  Every write of a character is a system call of  *)
(* its own, so keys may arrive between any two of them.                     *)
(***************************************************************************)
EXTENDS Terminal, Sequences

CONSTANTS
    KEYBOARD_BUFFER_SIZE,
    LINE_MAX,         \* size of the shell's line, the final zero included
    MaxKeys           \* bound: keyboard interrupts

ASSUME ShellAssumption ==
    /\ KEYBOARD_BUFFER_SIZE \in Nat \ {0} /\ LINE_MAX \in Nat \ {0} /\ MaxKeys \in Nat
    /\ {"a", "A", ">"} \subseteq Printable

VARIABLES
    ring, buffer_head, buffer_tail, buffer_count,  \* keyboard_t
    held,             \* the shift keys that the user holds
    slipped,          \* history: one was let go while the other was held, and since
                      \* then none was pressed
    pending,          \* history: the scancodes still to be read, in order
    lost,             \* history: a scancode was dropped, or read by a command
    keys,             \* interrupts so far
    line, shift,      \* of the shell's main
    at,               \* where the shell or its command is
    start, wrapped    \* history: where the line starts, and if it left its row

keyboardVars == <<ring, buffer_head, buffer_tail, buffer_count, pending>>
shellVars == <<line, shift, at, start, wrapped>>
terminalVars == <<buffer, cursor, screen>>
userVars == <<held, slipped>>
allVars == <<vars, keyboardVars, userVars, lost, keys, shellVars>>

\* keymap and keymap_shift, for one letter; "dead" stands for the keys without a character.
Character(key, shifted) ==
    CASE key = "letter" -> IF shifted THEN "A" ELSE "a"
      [] key = "enter" -> NEWLINE
      [] key = "back" -> BACKSPACE
      [] OTHER -> NUL

Shifts == {"left shift", "right shift"}
Keys == Shifts \cup {"letter", "enter", "back", "dead"}

\* A scancode, and what the user meant by it; slipped is as it was at that moment.
Scancodes == [key : Keys, released : BOOLEAN, meant : Characters \cup {BACKSPACE},
              slipped : BOOLEAN]
Letters == {"a", "A"}

SInit ==
    /\ Init
    /\ ring = [i \in 0 .. KEYBOARD_BUFFER_SIZE - 1 |->
                 [key |-> "dead", released |-> FALSE, meant |-> NUL, slipped |-> FALSE]]
    /\ buffer_head = 0 /\ buffer_tail = 0 /\ buffer_count = 0
    /\ held = {} /\ slipped = FALSE /\ pending = <<>> /\ lost = FALSE /\ keys = 0
    /\ line = <<>> /\ shift = FALSE
    /\ at = "prompt" /\ start = <<0, 0>> /\ wrapped = FALSE

-----------------------------------------------------------------------------
(* The keyboard.                                                            *)

WritesOver(scancode) ==  \* mutant: a full buffer is not noticed
    /\ ring' = [ring EXCEPT ![buffer_head] = scancode]
    /\ buffer_head' = (buffer_head + 1) % KEYBOARD_BUFFER_SIZE
    /\ buffer_count' = IF buffer_count = KEYBOARD_BUFFER_SIZE THEN buffer_count ELSE buffer_count + 1
    /\ pending' = IF buffer_count = KEYBOARD_BUFFER_SIZE THEN pending ELSE Append(pending, scancode)
    /\ lost' = (lost \/ buffer_count = KEYBOARD_BUFFER_SIZE)
    /\ UNCHANGED buffer_tail

keyboard_buffer_write(scancode) ==
    IF buffer_count = KEYBOARD_BUFFER_SIZE
    THEN lost' = TRUE /\ UNCHANGED keyboardVars
    ELSE /\ ring' = [ring EXCEPT ![buffer_head] = scancode]
         /\ buffer_head' = (buffer_head + 1) % KEYBOARD_BUFFER_SIZE
         /\ buffer_count' = buffer_count + 1
         /\ pending' = Append(pending, scancode)
         /\ UNCHANGED <<buffer_tail, lost>>

\* A key goes down (again) or up.  What the user means by it follows from the keys held.
keyboard_irq_handler(key, released) ==
    /\ keys < MaxKeys
    /\ key \in Shifts /\ released => key \in held
    /\ keys' = keys + 1
    /\ IF key \in Shifts
       THEN /\ held' = IF released THEN held \ {key} ELSE held \cup {key}
            /\ slipped' = (released /\ held' # {})
       ELSE UNCHANGED userVars
    /\ keyboard_buffer_write([key |-> key, released |-> released,
                              meant |-> IF released THEN NUL ELSE Character(key, held # {}),
                              slipped |-> slipped])
    /\ UNCHANGED <<vars, shellVars>>

Next_ == ring[buffer_tail]

\* A read of one byte that finds one; otherwise the reader blocks and tries again.
keyboard_read ==
    /\ buffer_count > 0
    /\ buffer_tail' = (buffer_tail + 1) % KEYBOARD_BUFFER_SIZE
    /\ buffer_count' = buffer_count - 1
    /\ pending' = Tail(pending)
    /\ UNCHANGED <<ring, buffer_head>>

-----------------------------------------------------------------------------
(* The shell.                                                               *)

\* Echo of one character; the line leaves its row when the cursor goes to the next.
Echo(character) ==
    /\ terminal_put_char(character)
    /\ wrapped' = (wrapped \/ cursor'[1] = 0)

ShiftOfKeyboard == held # {}  \* mutant: the state of the keys now, not when they were pressed

ShiftSeen == shift

ErasesPrompt == TRUE  \* mutant: an empty line is not noticed

CanErase == Len(line) > 0

HasRoom == Len(line) < LINE_MAX - 1

\* One turn of the loop in main, up to the first write of a character.
ReadKey ==
    LET scancode  == Next_
        character == Character(scancode.key, ShiftSeen)
    IN /\ at = "read"
       /\ keyboard_read
       /\ shift' = IF scancode.key \in Shifts THEN ~scancode.released ELSE shift
       /\ LET Ignored == scancode.key \in Shifts \/ scancode.released \/ character = NUL
          IN \/ /\ \/ Ignored
                   \/ ~Ignored /\ character = BACKSPACE /\ ~CanErase
                   \/ ~Ignored /\ character \in Letters /\ ~HasRoom
                /\ UNCHANGED <<terminalVars, line, at, wrapped>>
             \/ /\ ~Ignored /\ character = BACKSPACE /\ CanErase
                /\ line' = SubSeq(line, 1, Len(line) - 1)
                /\ Echo(BACKSPACE)
                /\ UNCHANGED at
             \/ /\ ~Ignored /\ character \in Letters /\ HasRoom
                /\ line' = Append(line, character)
                /\ Echo(character)
                /\ UNCHANGED at
             \/ /\ ~Ignored /\ character = NEWLINE
                /\ terminal_put_char(NEWLINE)
                /\ at' = "run"
                /\ UNCHANGED <<line, wrapped>>
       /\ UNCHANGED <<rest, userVars, lost, keys, start>>

\* run_command: an empty line is none; "exit" ends the shell; else fork, and waitpid
\* until the command ends.
run_command ==
    /\ at = "run"
    /\ at' \in IF line = <<>> THEN {"prompt"} ELSE {"command", "exited"}
    /\ line' = <<>>
    /\ UNCHANGED <<vars, keyboardVars, userVars, lost, keys, shift, start, wrapped>>

\* The two characters of the prompt are one write; here two steps.
Prompt ==
    /\ \/ at = "prompt" /\ terminal_put_char(">") /\ at' = "blank" /\ UNCHANGED <<start, wrapped>>
       \/ /\ at = "blank"
          /\ terminal_put_char(BLANK)
          /\ at' = "read"
          /\ start' = cursor' /\ wrapped' = FALSE
    /\ UNCHANGED <<rest, keyboardVars, userVars, lost, keys, line, shift>>

\* The command reads keys, prints, and ends, in any order.
CommandReads ==
    /\ at = "command" /\ rest = 0
    /\ keyboard_read
    /\ lost' = TRUE
    /\ UNCHANGED <<vars, userVars, keys, shellVars>>

\* A write of several bytes to /dev/terminal, byte by byte, or of a whole frame to
\* /dev/framebuffer.
CommandWrites ==
    /\ at = "command"
    /\ \/ \E length \in 1 .. MaxLength : terminal_write(length)
       \/ \E character \in {"a", NEWLINE, BACKSPACE, NUL} : Put(character)
       \/ framebuffer_dev_write(Cells)
    /\ UNCHANGED <<keyboardVars, userVars, lost, keys, shellVars>>

CommandEnds ==
    /\ at = "command" /\ rest = 0
    /\ at' = "prompt"
    /\ UNCHANGED <<vars, keyboardVars, userVars, lost, keys, line, shift, start, wrapped>>

\* No reader looks further at the release of a key other than shift: that of a dead key
\* stands for all of them.
SNext ==
    \/ \E key \in Keys : keyboard_irq_handler(key, FALSE)
    \/ \E key \in Shifts \cup {"dead"} : keyboard_irq_handler(key, TRUE)
    \/ ReadKey \/ run_command \/ Prompt
    \/ CommandReads \/ CommandWrites \/ CommandEnds

SSpec == SInit /\ [][SNext]_allVars

-----------------------------------------------------------------------------
(* Properties.                                                              *)

\* The line and its final zero fit, the indices stay in the ring.
STypeOK ==
    /\ TypeOK
    /\ ring \in [0 .. KEYBOARD_BUFFER_SIZE - 1 -> Scancodes]
    /\ {buffer_head, buffer_tail} \subseteq 0 .. KEYBOARD_BUFFER_SIZE - 1
    /\ buffer_count \in 0 .. KEYBOARD_BUFFER_SIZE
    /\ line \in Seq(Letters) /\ Len(line) + 1 <= LINE_MAX
    /\ held \subseteq Shifts /\ {slipped, shift, lost, wrapped} \subseteq BOOLEAN
    /\ at \in {"prompt", "blank", "read", "run", "command", "exited"}

\* The line fits and the indices are in the ring (STypeOK), and
\* what will be read is what was pressed, in order, as the indices of the ring run
\* around and it is filled and drained by shell and commands (keyboard.c 13-36).
RingIsQueue ==
    /\ STypeOK
    /\ buffer_count = Len(pending)
    /\ \A i \in 1 .. buffer_count :
         ring[(buffer_tail + i - 1) % KEYBOARD_BUFFER_SIZE] = pending[i]

\* However late the shell reads a key, it takes it for the character the user meant
\* when it was pressed (shell.c 120-132), with two exceptions.  Once a scancode was
\* dropped, or read by a command, the release of shift may be missing, and shift stays
\* set.  While one shift key is held and the other was the last to move, upwards, the
\* shell, which keeps one flag for both, reads the key as if there were no shift.
KeysMeanWhatWasTyped ==
    at = "read" /\ buffer_count > 0 /\ ~lost /\ ~Next_.released =>
        Character(Next_.key, ShiftSeen) =
            IF Next_.slipped THEN Character(Next_.key, FALSE) ELSE Next_.meant

\* What stands between the prompt and the cursor is the line that will be run, as
\* long as it has not left its row: backspace stops at the start of a row while the
\* shell goes on shortening its line (terminal.c 51-58, shell.c 134-142).
ScreenShowsLine ==
    at = "read" /\ ~wrapped /\ start[1] > 0 =>
        /\ cursor = <<start[1] + Len(line), start[2]>>
        /\ \A i \in 1 .. Len(line) : buffer[<<start[1] + i - 1, start[2]>>] = line[i]
        /\ buffer[<<start[1] - 1, start[2]>>] = BLANK

=============================================================================
