---------------------------- MODULE AddressSpaces ----------------------------
(***************************************************************************)
(* Paging: physical frames, page directories and page tables, the bounce    *)
(* slots through which the kernel looks at a physical page, the queue of    *)
(* directories to destroy, and the operations of the kernel that use them:  *)
(* fork, execve, sbrk, signal delivery, exit, waitpid and the scheduler's   *)
(* switch of CR3.  Interrupts are off in all of these, so each is one step. *)
(*                                                                          *)
(* Physical memory is a record: the free frames, what each frame holds when *)
(* it is read as a directory or a table, the number of bounce slots in use  *)
(* and whether the kernel has faulted (it then halts in isr_handler) or a   *)
(* fork or execve has made a task without all it needs, after which nothing *)
(* is claimed (torn).  The bytes of a page, the flags of an entry and the   *)
(* TLB are left out.  The contents of a frame are forgotten when it is      *)
(* given back: while NothingLiveIsFree holds no directory reaches it.       *)
(***************************************************************************)
EXTENDS Integers, FiniteSets, Sequences, SequencesExt, TLC

CONSTANTS
    Tasks,            \* the user tasks there may be
    task_init,        \* the one the kernel starts at boot
    task_idle,        \* the kernel task that runs when no other can
    FrameCount,       \* frames 0 .. FrameCount - 1; frame 0 is NULL
    BounceSlots,      \* KERNEL_BOUNCE_PAGE_SIZE
    Programs,         \* what may be executed: the pages <<from, upto>> of each segment
    FirstProgram,     \* the one of init
    ArgumentSizes,    \* do the arguments of execve fit in a page?
    HeapSteps,        \* what sbrk may be asked to add or take, in half pages
    KernelHeapSteps,  \* how many pages the kernel heap may need at once
    MaxCalls          \* bound: calls that take memory in one run

ASSUME TasksAssumption == task_init \in Tasks /\ task_idle \notin Tasks
ASSUME SizesAssumption ==
    /\ {FrameCount, BounceSlots, MaxCalls} \subseteq Nat
    /\ HeapSteps \subseteq Nat /\ KernelHeapSteps \subseteq Nat \ {0}
    /\ ArgumentSizes \subseteq {"fit", "too_large"}

\* A program lies below the stack.  Its segments may overlap, or leave pages out.
ASSUME ProgramsAssumption ==
    /\ FirstProgram \in Programs
    /\ \A program \in Programs : \A i \in DOMAIN program :
           program[i] \in {<<from, upto>> \in (0 .. 4) \X (0 .. 4) : from <= upto}

VARIABLES
    memory,           \* [free, table, bounce, fault, torn]
    task,             \* per task: state, task_cr3, heap_start, heap_break and, a
                      \* history, the pages of its image
    task_current,     \* task_manager.task_current
    cr3,              \* the register
    to_destroy,       \* page_directories_to_destroy
    kernel_heap_break,\* kernel_heap.heap_break, in pages
    lost,             \* history: frames dropped by the loader, sbrk and the kernel heap
    probes,           \* history: lookups of an address that was not mapped
    calls             \* how many of the MaxCalls have been made

vars == <<memory, task, task_current, cr3, to_destroy, kernel_heap_break, lost, probes, calls>>

-----------------------------------------------------------------------------
(* The layout: three entries to a table; pages 0 .. 8 are the user's (the   *)
(* image from 0, the heap above it, one page of stack at the top), page 10  *)
(* is the kernel stack, 12 .. 17 the kernel heap, in two tables, and the    *)
(* directory's last entry the framebuffer.                                  *)

NULL == 0
Absent == -1
TableSize == 3
Entries == 0 .. 6
KERNEL_PDE_START == 3
USER_STACK == 8
USER_HEAP_VIRTUAL_CEILING == 4
KERNEL_STACK == 10
KERNEL_HEAP == 12
KERNEL_HEAP_END == 18
FRAMEBUFFER == 18
UserPages == 0 .. USER_STACK
Frames == 0 .. FrameCount - 1
HalfPages == 2          \* the unit of HeapSteps: half a page

Pde(page) == page \div TableSize
Pte(page) == page % TableSize
Pages(from, upto) == [i \in 1 .. upto - from |-> from + i - 1]
ALIGN_UP(units) == (units + HalfPages - 1) \div HalfPages

Blank == [i \in Entries |-> Absent]
BlankTable == [i \in 0 .. TableSize - 1 |-> Absent]

-----------------------------------------------------------------------------
(* Frames and bounce slots.                                                 *)

memory_bitmap_allocate(m) ==
    IF m.free = {} THEN [m |-> m, frame |-> NULL]
    ELSE LET frame == Min(m.free)
         IN [m |-> [m EXCEPT !.free = @ \ {frame}], frame |-> frame]

memory_bitmap_free(m, frames) ==
    [m EXCEPT !.free = @ \cup frames,
              !.table = [f \in DOMAIN @ \ frames |-> @[f]]]

\* Without a free slot the answer is NULL, which the callers write through.
bounce_alloc(m) ==
    IF m.bounce = BounceSlots THEN [m EXCEPT !.fault = TRUE]
    ELSE [m EXCEPT !.bounce = @ + 1]

bounce_free(m) == IF m.fault THEN m ELSE [m EXCEPT !.bounce = @ - 1]

Bounced(m) == bounce_free(bounce_alloc(m))

-----------------------------------------------------------------------------
(* Mapping.                                                                 *)

\* What a frame holds when it is read as a directory or a table.
Contents(m, frame) == IF frame \in DOMAIN m.table THEN m.table[frame] ELSE Blank

memory_paging_reset_entry(m, frame, entries) ==
    [m EXCEPT !.table = (frame :> entries) @@ @]

SetEntry(m, table, index, frame) ==
    [m EXCEPT !.table = (table :> [Contents(m, table) EXCEPT ![index] = frame]) @@ @]

\* The walk and the store that all three mapping functions share: a table is
\* allocated when the directory has none there.
MapInNewTable(new, directory, frame, page) ==
    LET blank  == memory_paging_reset_entry(new.m, new.frame, BlankTable)
        linked == SetEntry(blank, directory, Pde(page), new.frame)
    IN IF new.frame = NULL THEN [m |-> new.m, ok |-> FALSE]
       ELSE [m |-> SetEntry(linked, new.frame, Pte(page), frame), ok |-> TRUE]

memory_paging_map_current(m, directory, frame, page) ==
    LET table == Contents(m, directory)[Pde(page)]
    IN IF table = Absent
       THEN MapInNewTable(memory_bitmap_allocate(m), directory, frame, page)
       ELSE [m |-> SetEntry(m, table, Pte(page), frame), ok |-> TRUE]

WithSlot(mapped) == [mapped EXCEPT !.m = IF mapped.ok THEN Bounced(@) ELSE @]

memory_paging_map(m, directory, frame, page) ==
    WithSlot(memory_paging_map_current(m, directory, frame, page))

memory_paging_unmap_current(m, directory, page) ==
    LET table == Contents(m, directory)[Pde(page)]
    IN IF table = Absent THEN m ELSE SetEntry(m, table, Pte(page), Absent)

Lookup(m, directory, page) ==
    LET table == Contents(m, directory)[Pde(page)]
    IN IF table = Absent THEN Absent ELSE Contents(m, table)[Pte(page)]

\* The two early returns of virtual_to_physical keep their slot.
memory_paging_virtual_to_physical(m, directory, page) ==
    LET table == Contents(m, directory)[Pde(page)]
        frame == Lookup(m, directory, page)
        first == bounce_alloc(m)
    IN CASE table = Absent -> [m |-> first, frame |-> NULL]
         [] table # Absent /\ frame = Absent ->
              [m |-> bounce_alloc(bounce_free(first)), frame |-> NULL]
         [] OTHER ->
              [m |-> Bounced(bounce_free(first)), frame |-> frame]

-----------------------------------------------------------------------------
(* Directories.                                                             *)

KernelDirectory == 1     \* kernel_page_directory_phys: the first frame of all

\* The kernel's entries are copied as they are at this moment.
memory_paging_create_page_directory(m) ==
    LET new     == memory_bitmap_allocate(m)
        kernel  == Contents(m, KernelDirectory)
        entries == [i \in Entries |-> IF i >= KERNEL_PDE_START THEN kernel[i] ELSE Absent]
    IN IF new.frame = NULL THEN [m |-> new.m, directory |-> NULL]
       ELSE [m |-> memory_paging_reset_entry(Bounced(new.m), new.frame, entries),
             directory |-> new.frame]

\* The tables a directory does not share with the kernel, and their pages.
OwnTables(m, directory) ==
    {Contents(m, directory)[i] : i \in
        {j \in Entries : Contents(m, directory)[j] \notin
                            {Absent, Contents(m, KernelDirectory)[j]}}}

PagesOf(m, table) ==
    {Contents(m, table)[j] : j \in 0 .. TableSize - 1} \ {Absent}

FreedWithKernel(m, directory) ==  \* mutant: the kernel's tables are freed too
    LET tables == Range(Contents(m, directory)) \ {Absent}
    IN memory_bitmap_free(Bounced(m), tables \cup UNION {PagesOf(m, table) : table \in tables})

FreedPagesOnly(m, directory) ==  \* mutant: the tables themselves are forgotten
    memory_bitmap_free(Bounced(m), UNION {PagesOf(m, table) : table \in OwnTables(m, directory)})

memory_paging_free_page_directory(m, directory) ==
    LET tables == OwnTables(m, directory)
        pages  == UNION {PagesOf(m, table) : table \in tables}
    IN memory_bitmap_free(IF tables = {} THEN m ELSE Bounced(m), tables \cup pages)

DestroyKeepsSlot(m, directory) ==  \* mutant: the slot is not given back
    memory_bitmap_free(memory_paging_free_page_directory(bounce_alloc(m), directory), {directory})

\* Through a slot of its own; then the frame of the directory itself.
DestroyDirectory(m, directory) ==
    memory_bitmap_free(
        bounce_free(memory_paging_free_page_directory(bounce_alloc(m), directory)),
        {directory})

memory_paging_queue_to_destroy(queue, directory) ==
    IF directory = KernelDirectory THEN queue ELSE Append(queue, directory)

memory_paging_destroy_queued(m, queue) == FoldLeft(DestroyDirectory, m, queue)

\* Every present page below the kernel, in order.  A frame that could not be
\* had is NULL, and a page that could not be mapped is passed over.
memory_paging_copy_mapped_memory(m, source, target) ==
    LET Copy(n, page) ==
            LET new == memory_bitmap_allocate(n)
                held == bounce_alloc(new.m)
            IN bounce_free(memory_paging_map(held, target, new.frame, page).m)
        Present(page) == Lookup(m, source, page) # Absent
    IN FoldLeft(Copy, m, SelectSeq(Pages(0, USER_STACK + 1), Present))

-----------------------------------------------------------------------------
(* The stacks of a task, and the pages of a program.                        *)

task_manager_prepare_new_stack(m, directory) ==
    LET stack == memory_bitmap_allocate(m)
    IN Bounced(memory_paging_map(stack.m, directory, stack.frame, KERNEL_STACK).m)

\* Its callers drop the answer, so only the memory is returned: without a user
\* stack, or when the arguments do not fit in it, there is no kernel stack.
task_manager_prepare_new_stack_with_args(m, directory, is_user, arguments) ==
    LET stack == memory_bitmap_allocate(m)
        user  == Bounced(memory_paging_map(stack.m, directory, stack.frame, USER_STACK).m)
    IN CASE ~is_user -> task_manager_prepare_new_stack(m, directory)
         [] is_user /\ stack.frame = NULL -> stack.m
         [] OTHER -> IF arguments = "fit"
                     THEN task_manager_prepare_new_stack(user, directory)
                     ELSE user

task_manager_task_create(m, is_user) ==
    LET made == memory_paging_create_page_directory(m)
        held == bounce_alloc(made.m)
    IN [m |-> bounce_free(task_manager_prepare_new_stack_with_args(
                              held, made.directory, is_user, "fit")),
        directory |-> made.directory]

\* One page of a segment, up to the first that cannot be had.  A page that another
\* segment has mapped already is mapped again, and its first frame dropped.
LoadPage(load, directory, page) ==
    LET new    == memory_bitmap_allocate(load.m)
        mapped == memory_paging_map(new.m, directory, new.frame, page)
    IN CASE ~load.ok -> load
         [] load.ok /\ new.frame = NULL -> [load EXCEPT !.m = new.m, !.ok = FALSE]
         [] OTHER ->
              IF mapped.ok
              THEN [m |-> mapped.m, ok |-> TRUE,
                    dropped |-> load.dropped \cup ({Lookup(load.m, directory, page)} \ {Absent})]
              ELSE [load EXCEPT !.m = memory_bitmap_free(mapped.m, {new.frame}), !.ok = FALSE]

\* The bytes of a segment and the zeroes behind them, through virtual_to_physical.
CopySegment(load, directory, pages) ==
    LET CopyPage(m, page) == Bounced(memory_paging_virtual_to_physical(m, directory, page).m)
    IN IF load.ok THEN [load EXCEPT !.m = FoldLeft(CopyPage, @, pages)] ELSE load

\* The loop over the segments: the header of each is read, then its pages are mapped,
\* then its bytes read.  reads says how many of these reads succeed.
LoadSegments(m, directory, program, reads) ==
    LET Readable(load, read) == [load EXCEPT !.ok = @ /\ read <= reads]
        LoadSegment(load, i) ==
            LET pages  == Pages(program[i][1], program[i][2])
                Page(l, page) == LoadPage(l, directory, page)
                mapped == FoldLeft(Page, Readable(load, 2 * i - 1), pages)
            IN Readable(CopySegment(mapped, directory, pages), 2 * i)
    IN FoldLeft(LoadSegment, [m |-> m, ok |-> TRUE, dropped |-> {}],
                [i \in DOMAIN program |-> i])

\* Into the directory made for it: the stacks, then the segments.
LoadInto(made, program, arguments, reads) ==
    LET directory == made.directory
        stacks == task_manager_prepare_new_stack_with_args(
                      bounce_alloc(made.m), directory, TRUE, arguments)
        load   == LoadSegments(stacks, directory, program, reads)
    IN IF directory = NULL
       THEN [m |-> made.m, ok |-> FALSE, dropped |-> {}, directory |-> NULL]
       ELSE [m |-> bounce_free(load.m), ok |-> load.ok, dropped |-> load.dropped,
             directory |-> directory]

elf_load_into_task(m, program, arguments, reads) ==
    LoadInto(memory_paging_create_page_directory(m), program, arguments, reads)

ImageOf(program) == UNION {program[i][1] .. program[i][2] - 1 : i \in DOMAIN program}

HeapStart(program) == Max({0} \cup {program[i][2] : i \in DOMAIN program})

-----------------------------------------------------------------------------
(* Boot: the kernel's directory with its heap, the idle task, then the      *)
(* framebuffer, then init, which gets a directory from task_create and      *)
(* another one from the loader.                                             *)

\* The framebuffer lies above the frames of the allocator.
DeviceFrames == FrameCount .. FrameCount + 1

memory_paging_module_init ==
    LET all  == [free |-> Frames \ {NULL}, table |-> <<>>, bounce |-> 0,
             fault |-> FALSE, torn |-> FALSE]
        root == memory_bitmap_allocate(all).m
    IN memory_paging_reset_entry(root, KernelDirectory, Blank)

KernelStarted ==
    LET heap == memory_bitmap_allocate(memory_paging_module_init)
    IN memory_paging_map(heap.m, KernelDirectory, heap.frame, KERNEL_HEAP).m

IdleCreated == task_manager_task_create(KernelStarted, FALSE)

memory_paging_map_kernel(m, frame, page) ==
    memory_paging_map_current(m, KernelDirectory, frame, page).m

memory_paging_map_physical_range(m, frames, base) ==
    LET MapPage(n, frame) == memory_paging_map_kernel(n, frame, base + frame - Min(frames))
    IN FoldLeft(MapPage, m, Pages(Min(frames), Min(frames) + Cardinality(frames)))

framebuffer_driver_init ==
    memory_paging_map_physical_range(IdleCreated.m, DeviceFrames, FRAMEBUFFER)

InitCreated == task_manager_task_create(framebuffer_driver_init, TRUE)

elf_load_and_execute ==
    elf_load_into_task(InitCreated.m, FirstProgram, "fit", 2 * Len(FirstProgram))

NoTask == [state |-> "none", task_cr3 |-> NULL, heap_start |-> 0, heap_break |-> 0,
           image |-> {}]

Task(directory, program) ==
    [state |-> "ready", task_cr3 |-> directory, heap_start |-> HeapStart(program),
     heap_break |-> HeapStart(program), image |-> ImageOf(program)]

\* The directory the loader replaced is dropped: it is the kernel's that the
\* loader finds in CR3 and does not queue.
LostAtBoot ==
    (framebuffer_driver_init.free \ InitCreated.m.free) \cup elf_load_and_execute.dropped

Init ==
    /\ memory = elf_load_and_execute.m
    /\ task = [t \in Tasks \cup {task_idle} |->
                 CASE t = task_idle -> Task(IdleCreated.directory, <<>>)
                   [] t = task_init -> Task(elf_load_and_execute.directory, FirstProgram)
                   [] OTHER -> NoTask]
    /\ task_current = task_idle
    /\ cr3 = IdleCreated.directory
    /\ to_destroy = <<>>
    /\ kernel_heap_break = KERNEL_HEAP + 1
    /\ lost = [loader |-> LostAtBoot, sbrk |-> {}, heap |-> {}]
    /\ probes = 0
    /\ calls = 0

-----------------------------------------------------------------------------
(* The operations.  Every system call runs in the caller's directory, and   *)
(* isr_stub_handler reloads CR3 from the caller before it returns.          *)

GoesOn == ~memory.fault /\ ~memory.torn

Running == GoesOn /\ task_current \in Tasks

\* A system call that takes memory: at most MaxCalls of them in a run.
Call == Running /\ calls < MaxCalls /\ calls' = calls + 1

NoReload == UNCHANGED cr3  \* mutant

isr_stub_handler == cr3' = task'[task_current].task_cr3

\* Which task is next is the task manager's affair.  Only a switch loads CR3.
task_manager_schedule(m, next) ==
    /\ memory' = memory_paging_destroy_queued(m, to_destroy)
    /\ to_destroy' = <<>>
    /\ task_current' = next
    /\ cr3' = IF next = task_current THEN cr3 ELSE task'[next].task_cr3

Ready(next) == next = task_idle \/ task[next].state = "ready"

timer_irq_handler(next) ==
    /\ GoesOn
    /\ Ready(next)
    /\ UNCHANGED task
    /\ task_manager_schedule(memory, next)
    /\ UNCHANGED <<kernel_heap_break, lost, probes, calls>>

\* No allocation is tested: a frame that is not there is NULL, and physical page 0
\* becomes part of the child, or a page is passed over.  The model stops there (torn).
task_manager_task_copy(child) ==
    /\ Call
    /\ task[child].state = "none"
    /\ LET made   == memory_paging_create_page_directory(memory)
           held   == bounce_alloc(made.m)
           stack  == memory_bitmap_allocate(held)
           mapped == memory_paging_map(stack.m, made.directory, stack.frame, KERNEL_STACK).m
           copied == memory_paging_copy_mapped_memory(mapped, cr3, made.directory)
           Whole(page) == Lookup(copied, made.directory, page) \notin {Absent, NULL}
           whole  == /\ made.directory # NULL /\ Whole(KERNEL_STACK)
                     /\ \A page \in UserPages : Lookup(memory, cr3, page) # Absent => Whole(page)
       IN /\ memory' = [bounce_free(Bounced(copied)) EXCEPT !.torn = ~whole]
          /\ task' = [task EXCEPT ![child] = [task[task_current] EXCEPT
                                                 !.task_cr3 = made.directory]]
    /\ isr_stub_handler
    /\ UNCHANGED <<task_current, to_destroy, kernel_heap_break, lost, probes>>

\* A program that cannot be loaded leaves its directory behind.  One whose arguments
\* do not fit is started without a kernel stack: the model stops there (torn).
syscall_execve(program, arguments, reads) ==
    /\ Call
    /\ \E load \in {elf_load_into_task(memory, program, arguments, reads)} :
       LET no_stack == Lookup(load.m, load.directory, KERNEL_STACK) = Absent
       IN /\ memory' = [load.m EXCEPT !.torn = load.ok /\ no_stack]
          /\ IF load.ok
             THEN /\ task' = [task EXCEPT ![task_current] = Task(load.directory, program)]
                  /\ to_destroy' = memory_paging_queue_to_destroy(to_destroy, cr3)
                  /\ lost' = [lost EXCEPT !.loader = @ \cup load.dropped]
             ELSE /\ lost' = [lost EXCEPT !.loader = @ \cup (memory.free \ load.m.free)]
                  /\ UNCHANGED <<task, to_destroy>>
    /\ isr_stub_handler
    /\ UNCHANGED <<task_current, kernel_heap_break, probes>>

\* One page of sbrk.  Whether the page could be mapped is not looked at.
SbrkPage(grow, page) ==
    LET new    == memory_bitmap_allocate(grow.m)
        mapped == memory_paging_map_current(new.m, cr3, new.frame, page)
    IN CASE ~grow.ok -> grow
         [] grow.ok /\ new.frame = NULL -> [grow EXCEPT !.m = new.m, !.ok = FALSE]
         [] OTHER -> [m |-> mapped.m, ok |-> TRUE, upto |-> page + 1,
                      dropped |-> grow.dropped \cup (IF mapped.ok THEN {} ELSE {new.frame})]

SbrkFreePage(m, page) ==
    LET found == memory_paging_virtual_to_physical(m, cr3, page)
        gone  == memory_paging_unmap_current(found.m, cr3, page)
    IN IF found.frame = NULL THEN gone ELSE memory_bitmap_free(gone, {found.frame})

Unmapped(m, directory, from, upto) ==
    Cardinality({page \in from .. upto - 1 : Lookup(m, directory, page) = Absent})

SbrkKeepsPages(pages) ==  \* mutant: a failed call does not undo its pages
    LET from == task[task_current].heap_break
        grow == FoldLeft(SbrkPage, [m |-> memory, ok |-> TRUE, upto |-> from, dropped |-> {}],
                         Pages(from, from + pages))
    IN /\ from + pages <= USER_HEAP_VIRTUAL_CEILING
       /\ lost' = [lost EXCEPT !.sbrk = @ \cup grow.dropped]
       /\ memory' = grow.m
       /\ task' = [task EXCEPT ![task_current].heap_break = IF grow.ok THEN @ + pages ELSE @]
       /\ UNCHANGED probes

syscall_sbrk_allocate_physical_memory(pages) ==
    LET from == task[task_current].heap_break
        grow == FoldLeft(SbrkPage, [m |-> memory, ok |-> TRUE, upto |-> from, dropped |-> {}],
                         Pages(from, from + pages))
    IN /\ from + pages <= USER_HEAP_VIRTUAL_CEILING
       /\ lost' = [lost EXCEPT !.sbrk = @ \cup grow.dropped]
       /\ IF grow.ok
          THEN /\ memory' = grow.m
               /\ task' = [task EXCEPT ![task_current].heap_break = from + pages]
               /\ UNCHANGED probes
          ELSE /\ memory' = FoldLeft(SbrkFreePage, grow.m, Pages(from, grow.upto))
               /\ probes' = probes + Unmapped(grow.m, cr3, from, grow.upto)
               /\ UNCHANGED task

syscall_sbrk_free_physical_memory(pages) ==
    LET heap_break == task[task_current].heap_break
    IN /\ memory' = FoldLeft(SbrkFreePage, memory,
                             Reverse(Pages(heap_break - pages, heap_break)))
       /\ probes' = probes + Unmapped(memory, cr3, heap_break - pages, heap_break)
       /\ task' = [task EXCEPT ![task_current].heap_break = heap_break - pages]
       /\ UNCHANGED lost

syscall_sbrk(delta) ==
    /\ Call
    /\ LET new_break == HalfPages * task[task_current].heap_break + delta
       IN /\ new_break < HalfPages * USER_HEAP_VIRTUAL_CEILING
          /\ new_break >= HalfPages * task[task_current].heap_start
    /\ \/ delta > 0 /\ syscall_sbrk_allocate_physical_memory(ALIGN_UP(delta))
       \/ delta < 0 /\ syscall_sbrk_free_physical_memory(ALIGN_UP(-delta))
    /\ isr_stub_handler
    /\ UNCHANGED <<task_current, to_destroy, kernel_heap_break>>

Zombie(target) == [task EXCEPT ![target].state = "zombie"]

\* A handler is run on the user stack of the target: the page its stack pointer
\* is in is looked up, and a target without one is killed.
task_manager_deliver_signal(target, page, next) ==
    /\ Running
    /\ task[target].state = "ready"
    /\ LET found == memory_paging_virtual_to_physical(memory, task[target].task_cr3, page)
       IN IF found.frame # NULL
          THEN /\ memory' = found.m
               /\ next = task_current
               /\ UNCHANGED <<task, task_current, to_destroy, probes>>
               /\ isr_stub_handler
          ELSE /\ task' = Zombie(target)
               /\ probes' = probes + 1
               /\ IF target = task_current
                  THEN next # target /\ Ready(next) /\ task_manager_schedule(found.m, next)
                  ELSE /\ next = task_current
                       /\ memory' = found.m
                       /\ isr_stub_handler
                       /\ UNCHANGED <<task_current, to_destroy>>
    /\ UNCHANGED <<kernel_heap_break, lost, calls>>

syscall_exit(next) ==
    /\ Running
    /\ next # task_current /\ Ready(next)
    /\ task' = Zombie(task_current)
    /\ task_manager_schedule(memory, next)
    /\ UNCHANGED <<kernel_heap_break, lost, probes, calls>>

\* waitpid.  Any running task may turn out to be the parent, but init has none.
task_manager_destroy_task(child) ==
    /\ Running
    /\ child # task_init
    /\ task[child].state = "zombie"
    /\ memory' = DestroyDirectory(memory, task[child].task_cr3)
    /\ task' = [task EXCEPT ![child] = NoTask]
    /\ isr_stub_handler
    /\ UNCHANGED <<task_current, to_destroy, kernel_heap_break, lost, probes, calls>>

\* A page of the kernel heap.  Whether it could be mapped is not looked at; where an
\* earlier call that ran out of frames left a page above the break, that one is dropped.
KernelHeapPage(grow, page) ==
    LET new    == memory_bitmap_allocate(grow.m)
        mapped == memory_paging_map(new.m, KernelDirectory, new.frame, page)
        gone   == IF mapped.ok THEN {Lookup(grow.m, KernelDirectory, page)} \ {Absent}
                  ELSE {new.frame}
    IN CASE ~grow.ok -> grow
         [] grow.ok /\ new.frame = NULL -> [grow EXCEPT !.m = new.m, !.ok = FALSE]
         [] OTHER -> [m |-> mapped.m, ok |-> TRUE, dropped |-> grow.dropped \cup gone]

\* The kernel heap needs more pages, whoever is running.  They are written at once
\* (a header, and what they were needed for), which faults where the directory in use
\* lacks one: the kernel's directory has got a new table, or no table could be had.
\* heap_end is the last address of the heap rounded down: the last page is never used.
kernel_heap_allocate_physical_memory(pages) ==
    /\ Call
    /\ kernel_heap_break + pages < KERNEL_HEAP_END
    /\ LET new  == Pages(kernel_heap_break, kernel_heap_break + pages)
           grow == FoldLeft(KernelHeapPage, [m |-> memory, ok |-> TRUE, dropped |-> {}], new)
           seen == \A page \in Range(new) : Lookup(grow.m, cr3, page) # Absent
       IN /\ memory' = [grow.m EXCEPT !.fault = @ \/ (grow.ok /\ ~seen)]
          /\ kernel_heap_break' = IF grow.ok THEN kernel_heap_break + pages ELSE kernel_heap_break
          /\ lost' = [lost EXCEPT !.heap = @ \cup grow.dropped]
    /\ UNCHANGED <<task, task_current, cr3, to_destroy, probes>>

Next ==
    \/ \E next \in Tasks \cup {task_idle} : timer_irq_handler(next)
    \/ \E child \in Tasks : task_manager_task_copy(child)
    \/ \E program \in Programs, arguments \in ArgumentSizes :
           \E reads \in 0 .. 2 * Len(program) : syscall_execve(program, arguments, reads)
    \/ \E step \in HeapSteps : syscall_sbrk(step) \/ syscall_sbrk(-step)
    \/ \E target \in Tasks, page \in UserPages, next \in Tasks \cup {task_idle} :
           task_manager_deliver_signal(target, page, next)
    \/ \E next \in Tasks \cup {task_idle} : syscall_exit(next)
    \/ \E child \in Tasks : task_manager_destroy_task(child)
    \/ \E pages \in KernelHeapSteps : kernel_heap_allocate_physical_memory(pages)

Spec == Init /\ [][Next]_vars

-----------------------------------------------------------------------------
(* Properties.                                                              *)

TypeOK ==
    /\ memory.free \subseteq Frames
    /\ DOMAIN memory.table \subseteq Frames
    /\ \A f \in DOMAIN memory.table : \A i \in DOMAIN memory.table[f] :
           memory.table[f][i] \in {Absent} \cup DeviceFrames \cup Frames
    /\ memory.bounce \in 0 .. BounceSlots /\ {memory.fault, memory.torn} \subseteq BOOLEAN
    /\ task \in [Tasks \cup {task_idle} ->
                    [state : {"none", "ready", "zombie"}, task_cr3 : Frames,
                     heap_start : UserPages, heap_break : UserPages,
                     image : SUBSET UserPages]]
    /\ task_current \in Tasks \cup {task_idle}
    /\ cr3 \in Frames /\ to_destroy \in Seq(Frames)
    /\ kernel_heap_break \in KERNEL_HEAP .. KERNEL_HEAP_END
    /\ lost \in [{"loader", "sbrk", "heap"} -> SUBSET Frames]
    /\ probes \in Nat /\ calls \in 0 .. MaxCalls

Alive == {t \in DOMAIN task : task[t].state # "none"}

Directories == {task[t].task_cr3 : t \in Alive} \cup Range(to_destroy) \cup {cr3}

\* The entries that refer to a frame: the kernel's, and the own ones of a directory.
EntriesOf(table) == {<<table, i>> : i \in {j \in DOMAIN Contents(memory, table) :
                                             Contents(memory, table)[j] # Absent}}
Target(entry) == Contents(memory, entry[1])[entry[2]]
OwnEntries(directory) ==
    {entry \in EntriesOf(directory) :
        Target(entry) # Contents(memory, KernelDirectory)[entry[2]]}
Below(entries) == entries \cup UNION {EntriesOf(Target(entry)) : entry \in entries}
References ==
    Below(EntriesOf(KernelDirectory))
        \cup UNION {Below(OwnEntries(directory)) : directory \in Directories}
Live == Directories \cup {KernelDirectory} \cup {Target(entry) : entry \in References}

\* What a task runs on is not given back while it is in CR3, queued or waiting to
\* run (the queue exists because execve cannot free the directory it runs in).
NothingLiveIsFree == Live \cap memory.free = {}

\* No frame is referred to twice: two tasks share no page, no table and no
\* directory, apart from the kernel's tables, and none maps physical page 0.
NothingIsShared ==
    /\ Cardinality({Target(entry) : entry \in References}) = Cardinality(References)
    /\ {Target(entry) : entry \in References}
          \cap (Directories \cup {KernelDirectory, NULL}) = {}
    /\ \A t, u \in Alive : t # u => task[t].task_cr3 # task[u].task_cr3

\* Every frame a directory in use refers to is a frame, is allocated, and has one reference,
\* also when execve and sbrk run out of frames in the middle and undo what they did.
\* A fork that runs out is excepted: it uses NULL as a frame (copy_mapped_memory 157).
FramesHaveOneOwner == ~memory.torn => TypeOK /\ NothingLiveIsFree /\ NothingIsShared

\* Every frame is free, in use, or one of those the code is known to drop: the
\* first directory of init, those of failed calls of execve, the first frame of a page
\* that two segments share, a page sbrk or the kernel heap got but could not map, and a
\* page above the break of the kernel heap when it is mapped again.  Fork, execve, sbrk,
\* exit and waitpid return all else they take.
FramesAccounted ==
    ~memory.torn =>
        (Frames \ {NULL}) \ (memory.free \cup Live) = lost.loader \cup lost.sbrk \cup lost.heap

\* Every task sees the kernel's mappings; idle was created before there was a
\* framebuffer and lacks that one.  The second table of the kernel heap
\* (memory_paging.c:303) is missing in the directories that are older.
KernelIsMapped ==
    \A t \in Alive : \A i \in KERNEL_PDE_START .. Pde(FRAMEBUFFER) :
        LET entry == Contents(memory, task[t].task_cr3)[i]
        IN \/ i = Pde(KERNEL_STACK)
           \/ t = task_idle /\ i = Pde(FRAMEBUFFER)
           \/ i = Pde(KERNEL_HEAP) + 1 /\ entry = Absent
           \/ entry = Contents(memory, KernelDirectory)[i]

HeapIsMapped(directory) ==
    \A page \in KERNEL_HEAP .. kernel_heap_break - 1 : Lookup(memory, directory, page) # Absent

HeapHasOneTable == kernel_heap_break <= KERNEL_HEAP + TableSize

\* The task that runs has its own directory in CR3, with a kernel stack and the
\* kernel's tables in it, and that directory is not on the queue that the next tick
\* destroys: execve replaces it, and isr_stub_handler reloads it, before any tick.
\* While one table holds the kernel heap, the heap is whole in it up to its break.
RunsInItsOwnDirectory ==
    ~memory.torn => /\ cr3 = task[task_current].task_cr3
                    /\ cr3 \notin Range(to_destroy)
                    /\ Lookup(memory, cr3, KERNEL_STACK) \notin {Absent, NULL}
                    /\ KernelIsMapped
                    /\ HeapHasOneTable => HeapIsMapped(cr3)

\* Bounce slots are returned by every operation, except one for each lookup of
\* an address that was not mapped; the kernel faults only when those have used
\* up all but the three slots fork needs, or when its heap has grown into a second
\* table that the directory in use lacks.
SlotsAreReturned ==
    IF memory.fault
    THEN probes > BounceSlots - 3 \/ (~HeapHasOneTable /\ ~HeapIsMapped(cr3))
    ELSE memory.bounce = probes

UserPagesOf(t) == {page \in UserPages : Lookup(memory, task[t].task_cr3, page) # Absent}

\* What a task has mapped is its image, its heap up to the break, and its stack.
\* Nothing else is mapped, and the image is always whole.  A page of the heap is missing
\* only after a call of sbrk could not map what it had got, and went on.
SpaceMatchesBreak ==
    ~memory.torn =>
        \A t \in Alive \ {task_idle} :
            LET heap  == task[t].heap_start .. task[t].heap_break - 1
                space == task[t].image \cup heap \cup {USER_STACK}
            IN /\ UserPagesOf(t) \subseteq space
               /\ task[t].image \subseteq UserPagesOf(t)
               /\ task[t].heap_break \in task[t].heap_start .. USER_HEAP_VIRTUAL_CEILING
               /\ lost.sbrk = {} => UserPagesOf(t) = space

=============================================================================
