CONSTANTS
    Width = 4
    Height = 2
    Printable = {"a", "A", ">"}
    MaxLength = 1
    KEYBOARD_BUFFER_SIZE = 2
    LINE_MAX = 3
    MaxKeys = 5
SPECIFICATION SSpec
INVARIANTS RingIsQueue KeysMeanWhatWasTyped ScreenShowsLine ScreenShowsBuffer
           BelowCursorIsEmpty
CHECK_DEADLOCK FALSE
