----------------------------- MODULE SharedFiles -----------------------------
(***************************************************************************)
(* What the system promises of open files: a file is a sequence of bytes    *)
(* without holes, an open file has a position and an access mode of its     *)
(* own, whoever shares it, and a call either happens as a whole or not at   *)
(* all.  Blocks of memory, descriptor tables and tasks do not appear.       *)
(***************************************************************************)
EXTENDS Integers, Sequences

CONSTANTS
    Files,            \* the plain files
    OpenFiles,        \* names of open files
    Bytes,            \* the values of a byte
    Buffers,          \* what a program may write: sequences of bytes
    Lengths,          \* how much it may read
    Zero,             \* what fills a gap
    Modes,            \* access modes: "read", "write", "both"
    Deltas,           \* what a program may seek by
    Limit,            \* no position or size reaches this
    Safe              \* no promise covers a file that grows to this size

VARIABLES
    contents,         \* file -> its bytes
    opened,           \* open file -> [file, position, mode], or NotOpen
    reply,            \* the answer to the last call
    undefined         \* a file grew to Safe bytes or more: nothing is promised any more

vars == <<contents, opened, reply, undefined>>

NotOpen == [file |-> "none"]
Error == <<"error">>

\* Bytes from at on are replaced; a gap behind the old end is filled with Zero.
Overwritten(old, at, new) ==
    LET size == IF at + Len(new) > Len(old) THEN at + Len(new) ELSE Len(old)
    IN [i \in 1 .. size |->
          IF i \in at + 1 .. at + Len(new) THEN new[i - at]
          ELSE IF i <= Len(old) THEN old[i] ELSE Zero]

Between(bytes, from, upto) ==
    SubSeq(bytes, from + 1, IF upto < Len(bytes) THEN upto ELSE Len(bytes))

Init ==
    /\ contents \in [Files -> Seq(Bytes)]
    /\ opened = [d \in OpenFiles |-> NotOpen]
    /\ reply = Error
    /\ undefined = FALSE

Open(d, f, mode, truncate) ==
    /\ reply' = <<"open", d>>
    /\ opened[d] = NotOpen
    /\ opened' = [opened EXCEPT ![d] = [file |-> f, position |-> 0, mode |-> mode]]
    /\ contents' = IF truncate THEN [contents EXCEPT ![f] = <<>>] ELSE contents

\* The one call that is not all or nothing: without a free descriptor it
\* fails, but has truncated the file.
OpenFails(f, truncate) ==
    /\ reply' = Error
    /\ contents' = IF truncate THEN [contents EXCEPT ![f] = <<>>] ELSE contents
    /\ UNCHANGED opened

\* By close, or all those that only a task which ends still had.
Close(those) ==
    /\ \A d \in those : opened[d] # NotOpen
    /\ opened' = [d \in OpenFiles |-> IF d \in those THEN NotOpen ELSE opened[d]]
    /\ UNCHANGED <<contents, reply>>

Read(d, length) ==
    /\ opened[d] # NotOpen
    /\ LET from  == opened[d].position
           bytes == Between(contents[opened[d].file], from, from + length)
       IN IF length = 0 \/ opened[d].mode = "write"
          THEN reply' = Error /\ UNCHANGED opened
          ELSE /\ reply' = <<"read", d, bytes>>
               /\ opened' = [opened EXCEPT ![d].position = from + Len(bytes)]
    /\ UNCHANGED contents

Write(d, bytes) ==
    /\ opened[d] # NotOpen
    /\ LET at == opened[d].position
       IN IF bytes = <<>> \/ opened[d].mode = "read"
          THEN reply' = Error /\ UNCHANGED <<contents, opened>>
          ELSE /\ reply' = <<"write", d, Len(bytes)>>
               /\ at + Len(bytes) < Limit
               /\ opened' = [opened EXCEPT ![d].position = at + Len(bytes)]
               /\ contents' = [contents EXCEPT ![opened[d].file] = Overwritten(@, at, bytes)]

\* There is no memory for the file as it would be.
WriteFails(d, bytes) ==
    /\ reply' = Error
    /\ opened[d] # NotOpen
    /\ opened[d].position + Len(bytes) > Len(contents[opened[d].file])
    /\ UNCHANGED <<contents, opened>>

WriteTooFar(d, bytes) ==
    /\ undefined' = TRUE
    /\ opened[d] # NotOpen
    /\ opened[d].mode # "read"
    /\ opened[d].position + Len(bytes) >= Safe
    /\ opened[d].position + Len(bytes) > Len(contents[opened[d].file])
    /\ UNCHANGED <<contents, opened, reply>>

Seek(d, base, delta) ==
    /\ opened[d] # NotOpen
    /\ LET from == CASE base = "set" -> 0
                     [] base = "cur" -> opened[d].position
                     [] OTHER -> Len(contents[opened[d].file])
       IN IF from + delta < 0
          THEN reply' = Error /\ UNCHANGED opened
          ELSE /\ reply' = <<"seek", d, (from + delta) % Limit>>
               /\ opened' = [opened EXCEPT ![d].position = (from + delta) % Limit]
    /\ UNCHANGED contents

SetMode(d, mode) ==
    /\ reply' = <<"fcntl", d>>
    /\ opened[d] # NotOpen
    /\ opened' = [opened EXCEPT ![d].mode = mode]
    /\ UNCHANGED contents

Step ==
    \/ \E d \in OpenFiles, f \in Files, mode \in Modes, truncate \in BOOLEAN :
           Open(d, f, mode, truncate)
    \/ \E f \in Files, truncate \in BOOLEAN : OpenFails(f, truncate)
    \/ \E those \in SUBSET OpenFiles : Close(those)
    \/ \E d \in OpenFiles, length \in Lengths : Read(d, length)
    \/ \E d \in OpenFiles, bytes \in Buffers : Write(d, bytes) \/ WriteFails(d, bytes)
    \/ \E d \in OpenFiles, base \in {"set", "cur", "end"}, delta \in Deltas :
           Seek(d, base, delta)
    \/ \E d \in OpenFiles, mode \in Modes : SetMode(d, mode)

Next ==
    /\ ~undefined
    /\ \/ UNCHANGED undefined /\ Step
       \/ \E d \in OpenFiles, bytes \in Buffers : WriteTooFar(d, bytes)

Spec == Init /\ [][Next]_vars

=============================================================================
