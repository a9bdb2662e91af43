------------------------------ MODULE FileData ------------------------------
(***************************************************************************)
(* The contents of files: open, read, write, lseek, fcntl and close on the  *)
(* files of ramfs through descriptors that tasks share by fork.  A file is  *)
(* one block of the kernel heap that every write beyond its end replaces.   *)
(* Each call is one step: nothing interrupts a handler.  The path walk and  *)
(* the life of nodes are in Vfs; here the files are there from the start.   *)
(***************************************************************************)
EXTENDS Integers, Sequences, FiniteSetsExt

CONSTANTS
    Tasks,            \* tasks, of which task_init is there from the start
    task_init,
    Slots,            \* descriptors of a task: 0 .. TASK_MAX_RESOURCES - 1
    Resources,        \* addresses of resources
    Files,            \* the files
    MaxLength,        \* bound: bytes of one call
    SizeModulus,      \* 2^32: size_t wraps here
    Seeks,            \* the sizes of the steps of lseek
    HeapBytes,        \* the bytes the kernel heap has for files
    GrowthLimit,      \* from this size on the sums of a heap growth may wrap
    HeaderSize        \* sizeof(kernel_heap_header_t)

ASSUME FilesAssumption == task_init \in Tasks
ASSUME FiniteAssumption == IsFiniteSet(Tasks) /\ IsFiniteSet(Slots) /\ IsFiniteSet(Files)
ASSUME BoundsAssumption ==
    /\ {MaxLength, SizeModulus, HeapBytes, GrowthLimit, HeaderSize} \subseteq Nat \ {0}
    /\ HeapBytes < GrowthLimit /\ GrowthLimit + HeaderSize <= SizeModulus + 1
    /\ Slots \subseteq Nat /\ Resources \subseteq Nat \ {0} /\ Seeks \subseteq Nat
    /\ Cardinality(Resources) >= Cardinality(Tasks) * Cardinality(Slots)

VARIABLES
    inode,            \* ramfs_node_t of a file: data, data_size
    heap,             \* address -> the bytes of the block there
    resource,         \* resource_t: node, offset, flags, ref_count
    resources,        \* per task its table, 0 for no resource
    alive,            \* the tasks there are
    reply,            \* what the last call returned
    undefined         \* memory outside of a block has been written

vars == <<inode, heap, resource, resources, alive, reply, undefined>>

NULL == 0
Astray == -1                \* malloc has left the heap, or gives a header without bytes
Garbage == -1               \* what malloc returns has any contents
Free == <<-2>>               \* no block at this address
Addresses == 1 .. Cardinality(Files) + 1
Flags == {"read", "write", "both"}     \* O_RDONLY, O_WRONLY, O_RDWR
Bytes == 0 .. MaxLength                 \* a byte tells its place in the buffer
Buffers == {[i \in 1 .. n |-> i] : n \in 0 .. MaxLength}
NoResource == [node |-> "none"]
Error == <<"error">>

-----------------------------------------------------------------------------
(* ramfs.                                                                   *)

\* The last sizes a size_t has: rounded up to headers they wrap to none, and malloc gives
\* the block's own header as if it were a block.
RoundsToNone(size) == size > SizeModulus - HeaderSize

\* What malloc may answer (KernelHeap has the blocks themselves).  The rest of the kernel
\* takes from the same heap: any request may be refused.
kernel_heap_malloc(h, size) ==
    LET used == MapThenSumSet(LAMBDA a : IF h[a] = Free THEN 0 ELSE Len(h[a]), Addresses)
        free == {a \in Addresses : h[a] = Free}
    IN {NULL} \cup (IF used + size > HeapBytes \/ free = {} THEN {} ELSE {Min(free)})
              \cup (IF size >= GrowthLimit \/ RoundsToNone(size) THEN {Astray} ELSE {})

kernel_heap_free(h, address) == [h EXCEPT ![address] = Free]

ramfs_truncate(file) ==
    /\ heap' = IF inode[file].data = NULL THEN heap
               ELSE kernel_heap_free(heap, inode[file].data)
    /\ inode' = [inode EXCEPT ![file] = [data |-> NULL, data_size |-> 0]]

\* How many bytes a read gets.
ReadLength(file, offset, length) ==
    IF offset >= inode[file].data_size THEN 0
    ELSE Min({length, inode[file].data_size - offset})

ramfs_read(file, offset, length) ==
    [i \in 1 .. ReadLength(file, offset, length) |-> heap[inode[file].data][offset + i]]

\* The new block: the old bytes, zeroes up to offset, the rest as malloc left it.
Moved(file, offset, size) ==
    [i \in 1 .. size |-> IF i <= inode[file].data_size THEN heap[inode[file].data][i]
                         ELSE IF i <= offset THEN 0 ELSE Garbage]

KeepsOldBlock(file, address, block) ==  \* mutant: the old block is not freed
    [heap EXCEPT ![address] = block]

\* The new block takes the place of the old one.
Replaced(file, address, block) ==
    LET placed == [heap EXCEPT ![address] = block]
    IN IF inode[file].data = NULL THEN placed
       ELSE kernel_heap_free(placed, inode[file].data)

Written(block, offset, buffer) ==
    [i \in 1 .. Len(block) |-> IF i \in offset + 1 .. offset + Len(buffer)
                               THEN buffer[i - offset] ELSE block[i]]

\* offset + length, which may wrap.
Wraps(offset, buffer) == offset + Len(buffer) >= SizeModulus
RequiredSize(offset, buffer) == (offset + Len(buffer)) % SizeModulus

\* length > 0, and the copies stay inside of the block.  ok is what the caller learns: the
\* block could be had.
ramfs_write(file, offset, buffer, ok) ==
    LET required_size == RequiredSize(offset, buffer)
        grows == required_size > inode[file].data_size
    IN /\ IF ok THEN ~Wraps(offset, buffer) ELSE grows
       /\ CASE ~ok -> UNCHANGED <<heap, inode>>
            [] ok /\ grows -> \E new \in kernel_heap_malloc(heap, required_size) \ {NULL, Astray} :
                 /\ heap' = Replaced(file, new, Written(Moved(file, offset, required_size),
                                                        offset, buffer))
                 /\ inode' = [inode EXCEPT ![file] = [data |-> new, data_size |-> required_size]]
            [] OTHER ->
                 /\ heap' = [heap EXCEPT ![inode[file].data] = Written(@, offset, buffer)]
                 /\ UNCHANGED inode

\* The copies go elsewhere.  When offset + length wraps, the block is taken to be large
\* enough, or a small one is allocated; when it does not, malloc's own sums may.
LeavesBlock(file, offset, buffer) ==
    LET required_size == RequiredSize(offset, buffer)
        grows  == required_size > inode[file].data_size
        answer == kernel_heap_malloc(heap, required_size)
    IN IF Wraps(offset, buffer) THEN ~grows \/ answer # {NULL} ELSE grows /\ Astray \in answer

-----------------------------------------------------------------------------
(* Descriptors and system calls.                                            *)

Init ==
    /\ inode = [f \in Files |-> [data |-> NULL, data_size |-> 0]]
    /\ heap = [a \in Addresses |-> Free]
    /\ resource = [r \in Resources |-> NoResource]
    /\ resources = [t \in Tasks |-> [s \in Slots |-> NULL]]
    /\ alive = {task_init}
    /\ reply = Error
    /\ undefined = FALSE

Running(t) == t \in alive /\ ~undefined

\* The truncation comes before the search for a free slot.
syscall_open(t, file, flags, truncate) ==
    LET free == {s \in Slots : resources[t][s] = NULL}
        new  == Min({r \in Resources : resource[r] = NoResource})
    IN /\ Running(t)
       /\ IF truncate THEN ramfs_truncate(file) ELSE UNCHANGED <<inode, heap>>
       /\ IF free = {}
          THEN /\ reply' = Error
               /\ UNCHANGED <<resource, resources>>
          ELSE /\ resource' = [resource EXCEPT ![new] =
                                 [node |-> file, offset |-> 0, flags |-> flags, ref_count |-> 1]]
               /\ resources' = [resources EXCEPT ![t][Min(free)] = new]
               /\ reply' = <<"open", new>>
       /\ UNCHANGED <<alive, undefined>>

ClosedAtOnce(table) ==  \* mutant: the first close ends it for all who share it
    [r \in Resources |-> IF r \in {table[s] : s \in Slots} THEN NoResource ELSE resource[r]]

\* The resources when one of them, or a whole table, is removed.
resource_remove(table) ==
    LET Count(r) == Cardinality({s \in Slots : table[s] = r})
    IN [r \in Resources |->
          IF Count(r) = 0 THEN resource[r]
          ELSE IF resource[r].ref_count = Count(r) THEN NoResource
          ELSE [resource[r] EXCEPT !.ref_count = @ - Count(r)]]

syscall_close(t, s) ==
    /\ Running(t)
    /\ resources[t][s] # NULL
    /\ resource' = resource_remove([i \in Slots |-> IF i = s THEN resources[t][s] ELSE NULL])
    /\ resources' = [resources EXCEPT ![t][s] = NULL]
    /\ UNCHANGED <<inode, heap, alive, reply, undefined>>

syscall_read(t, s, length) ==
    /\ Running(t)
    /\ resources[t][s] # NULL
    /\ LET r == resources[t][s]
           bytes == ramfs_read(resource[r].node, resource[r].offset, length)
       IN IF resource[r].flags = "write" \/ length = 0
          THEN reply' = Error /\ UNCHANGED resource
          ELSE /\ reply' = <<"read", r, bytes>>
               /\ resource' = [resource EXCEPT ![r].offset = @ + Len(bytes)]
    /\ UNCHANGED <<inode, heap, resources, alive, undefined>>

MovesAnyway(r, buffer, ok) ==  \* mutant: a failed write moves the offset too
    [resource EXCEPT ![r].offset = @ + Len(buffer)]

\* The offset moves by what was written.
OffsetMoved(r, buffer, ok) ==
    IF ok THEN [resource EXCEPT ![r].offset = @ + Len(buffer)] ELSE resource

syscall_write(t, s, buffer) ==
    /\ Running(t)
    /\ resources[t][s] # NULL
    /\ LET r == resources[t][s]
           file == resource[r].node
           offset == resource[r].offset
       IN \/ /\ resource[r].flags = "read" \/ buffer = <<>>
             /\ reply' = Error
             /\ UNCHANGED <<inode, heap, resource, undefined>>
          \/ /\ resource[r].flags # "read" /\ buffer # <<>>
             /\ \E ok \in BOOLEAN :
                  /\ ramfs_write(file, offset, buffer, ok)
                  /\ resource' = OffsetMoved(r, buffer, ok)
                  /\ reply' = IF ok THEN <<"write", r, Len(buffer)>> ELSE Error
             /\ UNCHANGED undefined
          \/ /\ resource[r].flags # "read" /\ buffer # <<>>
             /\ LeavesBlock(file, offset, buffer)
             /\ undefined' = TRUE
             /\ UNCHANGED <<inode, heap, resource, reply>>
    /\ UNCHANGED <<resources, alive>>

\* The sum has 64 bits; the offset it becomes has 32.
syscall_lseek(t, s, whence, delta) ==
    /\ Running(t)
    /\ resources[t][s] # NULL
    /\ LET r == resources[t][s]
           base == CASE whence = "set" -> 0
                     [] whence = "cur" -> resource[r].offset
                     [] OTHER -> inode[resource[r].node].data_size
       IN IF base + delta < 0
          THEN reply' = Error /\ UNCHANGED resource
          ELSE /\ resource' = [resource EXCEPT ![r].offset = (base + delta) % SizeModulus]
               /\ reply' = <<"seek", r, (base + delta) % SizeModulus>>
    /\ UNCHANGED <<inode, heap, resources, alive, undefined>>

\* F_SETFL stores what it is given, the access mode included.
syscall_fcntl(t, s, flags) ==
    /\ Running(t)
    /\ resources[t][s] # NULL
    /\ resource' = [resource EXCEPT ![resources[t][s]].flags = flags]
    /\ reply' = <<"fcntl", resources[t][s]>>
    /\ UNCHANGED <<inode, heap, resources, alive, undefined>>

resource_share(r, table) ==
    [resource[r] EXCEPT !.ref_count = @ + Cardinality({s \in Slots : table[s] = r})]

task_manager_task_copy(t, child) ==
    /\ Running(t)
    /\ child \notin alive
    /\ resources' = [resources EXCEPT ![child] = resources[t]]
    /\ resource' = [r \in Resources |->
                      IF resource[r] = NoResource THEN NoResource
                      ELSE resource_share(r, resources[t])]
    /\ alive' = alive \cup {child}
    /\ UNCHANGED <<inode, heap, reply, undefined>>

task_manager_destroy_task(t) ==
    /\ Running(t)
    /\ t # task_init
    /\ resource' = resource_remove(resources[t])
    /\ resources' = [resources EXCEPT ![t] = [s \in Slots |-> NULL]]
    /\ alive' = alive \ {t}
    /\ UNCHANGED <<inode, heap, reply, undefined>>

Next ==
    \/ \E t \in Tasks, file \in Files, flags \in Flags, truncate \in BOOLEAN :
           syscall_open(t, file, flags, truncate)
    \/ \E t \in Tasks, s \in Slots :
           \/ syscall_close(t, s)
           \/ \E length \in 0 .. MaxLength : syscall_read(t, s, length)
           \/ \E buffer \in Buffers : syscall_write(t, s, buffer)
           \/ \E whence \in {"set", "cur", "end"}, step \in Seeks :
                  syscall_lseek(t, s, whence, step) \/ syscall_lseek(t, s, whence, -step)
           \/ \E flags \in Flags : syscall_fcntl(t, s, flags)
    \/ \E t, child \in Tasks : task_manager_task_copy(t, child)
    \/ \E t \in Tasks : task_manager_destroy_task(t)

Spec == Init /\ [][Next]_vars

-----------------------------------------------------------------------------
(* Properties.                                                              *)

TypeOK ==
    /\ inode \in [Files -> [data : Addresses \cup {NULL}, data_size : 0 .. SizeModulus - 1]]
    /\ \A a \in Addresses : heap[a] = Free \/ heap[a] \in Seq(Bytes)
    /\ \A r \in Resources :
         \/ resource[r] = NoResource
         \/ /\ resource[r].node \in Files /\ resource[r].flags \in Flags
            /\ resource[r].offset \in 0 .. SizeModulus - 1
            /\ resource[r].ref_count \in 1 .. Cardinality(Tasks) * Cardinality(Slots)
    /\ resources \in [Tasks -> [Slots -> Resources \cup {NULL}]]
    /\ alive \subseteq Tasks /\ undefined \in BOOLEAN

\* No byte of a block is left as malloc gave it (TypeOK), every block of a file is
\* owned by that file alone, has exactly the size the file says, and there are no other blocks: writes that move a file and
\* truncations free the old block once and keep nothing (ramfs_write 218-230).
BlocksAreOwned ==
    /\ TypeOK
    /\ \A f \in Files :
         /\ (inode[f].data = NULL) = (inode[f].data_size = 0)
         /\ inode[f].data # NULL =>
              /\ heap[inode[f].data] # Free
              /\ Len(heap[inode[f].data]) = inode[f].data_size
    /\ \A f, g \in Files : f # g /\ inode[f].data = inode[g].data => inode[f].data = NULL
    /\ {a \in Addresses : heap[a] # Free} \subseteq {inode[f].data : f \in Files}

\* A task never holds a descriptor whose resource is gone, and a resource that
\* nobody holds is gone: sharing by fork and closing in any order balance.
DescriptorsAreLive ==
    \A r \in Resources :
        (resource[r] # NoResource) = (\E t \in Tasks, s \in Slots : resources[t][s] = r)

-----------------------------------------------------------------------------
(* What the abstract files see of this.                                     *)

Contents(f) ==
    IF inode[f].data = NULL THEN <<>>
    ELSE SubSeq(heap[inode[f].data], 1, inode[f].data_size)

Opened(r) ==
    IF resource[r] = NoResource THEN [file |-> "none"]
    ELSE [file |-> resource[r].node, position |-> resource[r].offset, mode |-> resource[r].flags]

Abstract == INSTANCE SharedFiles WITH
    OpenFiles <- Resources, Zero <- 0, Modes <- Flags, Limit <- SizeModulus, Safe <- GrowthLimit,
    Lengths <- 0 .. MaxLength, Deltas <- Seeks \cup {-step : step \in Seeks},
    contents <- [f \in Files |-> Contents(f)],
    opened <- [r \in Resources |-> Opened(r)]

\* read, write, lseek, open and close on blocks, shared resources and tables
\* are those on plain files with one position per open file: no byte that was
\* not written is ever read but zeroes, and a failed write changes nothing.  Only a
\* write that would make a file of GrowthLimit bytes or more may leave its block.
FilesSpec == Abstract!Spec

=============================================================================
