---------------------------- MODULE FrameAllocator ----------------------------
(***************************************************************************)
(* What the kernel expects of its allocator of physical frames: a frame is  *)
(* handed to one caller at a time, a frame that was given back can be       *)
(* handed out again, and an allocation fails only when no frame is left.    *)
(***************************************************************************)
CONSTANTS
    Frames,         \* the frames that may ever be handed out
    InitiallyHeld,  \* the ones that are in use at the start
    NoFrame         \* the answer of an allocation that fails

VARIABLES
    held,           \* the frames in use
    result          \* the answer of the last allocation

vars == <<held, result>>

Init == held = InitiallyHeld /\ result = NoFrame

Allocate ==
    \E frame \in Frames \ held :
        /\ held' = held \cup {frame}
        /\ result' = frame

AllocateFails ==
    /\ held = Frames
    /\ result' = NoFrame
    /\ UNCHANGED held

Free ==
    \E frame \in held :
        /\ held' = held \ {frame}
        /\ UNCHANGED result

Next == Allocate \/ AllocateFails \/ Free

Spec == Init /\ [][Next]_vars
=============================================================================
