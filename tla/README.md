# TLA+ verification of alura-os

alura-os is a small 32-bit x86 kernel with preemptive user tasks: a multi-level
feedback queue, fork/execve/waitpid, signals, a keyboard driver, a VFS over a ram
file system, paging, a kernel heap and a physical frame allocator. This directory
models its core in TLA+, checks the models with TLC on small instances, and proves
the central invariants with TLAPS for every size of the system.

Paths below are those of the repository (`src/task_manager.c` and so on).

## Inventory

| Component | State | Operations | Used by |
|---|---|---|---|
| Scheduler (`src/task_manager.c`, `src/task_switch.s`) | `task_queues` (ready levels, blocked, zombie), `task_current`, `task_next`, `task_needs_switching`, per task `task_state`, `task_queue_level`, `task_time_slice`, `yield` | enqueue, dequeue, remove, pick, requeue, boost, schedule, block, unblock, wake, yield, switch | timer, system calls, keyboard, exceptions |
| Life of a task (`src/task_manager.c`, `src/syscall.c`) | `parent`, `children`, `children_tail`, node `previous`, `return_code` | fork, exit, kill, waitpid, reparenting, destroy | user programs |
| System calls and signals (`src/syscall.c`, `task_manager_deliver_signal`) | `syscall_retry`, `syscall_execution`, `saved_signal_frame`, `in_signal_handler`, the interrupt frame | dispatch, block and retry, deliver, sigreturn | user programs, exceptions |
| Interrupt entry (`src/idt.c`, `src/irq*.s`, `src/isr*.s`) | the frame on the kernel stack | call the handler, switch if asked to, return | hardware |
| Timer (`src/drivers/timer.c`) | `timer_ticks` | tick | scheduler |
| Keyboard (`src/drivers/keyboard.c`) | ring buffer of 256 scancodes | irq, read | VFS through `/dev/keyboard` |
| Frame allocator (`src/memory_bitmap.c`) | bitmap, `last_allocated_page_index` | boot, allocate, free | paging, heap, tasks, sbrk, ELF |
| Kernel heap (`src/kernel_heap.c`) | address-ordered ring of free blocks, `heap_break` | malloc, calloc, free, growth | everything |
| Paging (`src/memory_paging.c`) | page directories, 16 bounce slots, queue of directories to destroy | map, copy, destroy | tasks, ELF, sbrk |
| Resources and VFS (`src/resource.c`, `src/vfs.c`, `src/fs/*`) | descriptor tables, shared resources, node cache with reference counts, ramfs nodes with link counts | open, close, read, write, link, unlink, share | system calls |
| ELF loader, sbrk (`src/elf_executable.c`, `src/syscall.c`) | mapped segments, `heap_break` of a task | execve, sbrk | system calls |
| Terminal, framebuffer (`src/terminal.c`, `src/drivers/framebuffer.c`) | buffer of characters, cursor, pixels | put a character, scroll, draw, copy a sprite, write pixels | VFS through `/dev/terminal` and `/dev/framebuffer`, printing |
| Printing, VGA (`src/print.c`, `src/drivers/vga.c`) | - | format, print | kernel messages |
| The initrd (`src/fs/ramfs.c`, `src/fs/ustar.c`) | the archive in memory, the tree of ramfs nodes | copy, unpack | boot |
| Shell (`initrd/src/shell.c`) | the line, the state of shift | read keys, edit, run a command | the user |
| Boot, GDT, TSS, PIC | hardware tables | initialise | - |

There is one CPU, and every gate is an interrupt gate: a handler runs to its end with
interrupts off. What makes the system hard is therefore the order in which whole
handlers come (ticks, key presses, system calls of different tasks), the state
that one handler leaves for a later one (a task that has blocked but still owns the CPU
until the stub switches; a system call that is executed again after a wake-up; a
task that somebody kills while it is ready, blocked or running), and pointers between
objects with different lives (queues, child lists, the frame saved for a signal).

What makes each component correct:

- *Scheduler*: a task is in exactly the queue its state calls for; user code that runs
  belongs to the running task; a ready task eventually runs; the unsigned time
  slice does not wrap.
- *Blocking*: no wake-up is lost; a blocked task has something that will wake it.
- *Life of a task*: states change in the order of a life; nothing points to a freed task;
  child lists stay linked.
- *Signals and retry*: `eip` is moved back only to the `int 0x80` that blocked; the
  call that is executed is the one the program made; a handler returns to what it
  interrupted.
- *Kernel heap*: blocks in use never overlap, the free ones stay ordered and merged, and
  every search ends, although the heap grows underneath it.
- *Open files*: a node lives as long as somebody refers to it and not longer, a file as
  long as it has a name or is open.
- *Paging*: what CR3 points to is never given back; a frame has one owner; every
  operation returns the frames and bounce slots it takes, also when it fails in the
  middle; what is mapped agrees with the break of the heap.
- *Contents of files*: descriptors on blocks that move behave as plain files with
  positions; a failed call changes nothing.
- *Display and input*: the screen shows the text, nothing is drawn outside, keys are read
  in order and mean what was typed.
- *Initrd*: the tree is what the archive says.
- *Frame allocator*: one holder per frame, reserved memory is never handed out, NULL only
  when nothing is left.

`PROJECT.json` lists the hazards line by line.

## Modules

| Module | Models | Lines of reasoning |
|---|---|---|
| `TaskManager` | scheduler, blocking, keyboard, timer, fork/exit/kill/waitpid | specification, properties, fairness |
| `MCTaskManager` | - | instances for TLC, and the view that drops dead fields |
| `SignalContext` | the user context of one task under system calls, switches and signals | specification and properties |
| `FrameAllocator` | what a frame allocator promises | abstract specification |
| `MemoryBitmap` | boot layout, allocate, free, hint | specification, refinement mapping |
| `MCMemoryBitmap` | - | an awkward memory map |
| `BlockAllocator` | what a heap promises | abstract specification |
| `KernelHeap` | malloc, free, growth | specification, refinement mapping |
| `Vfs` | descriptors, node cache, path walk, ramfs links, devfs | specification and properties |
| `MCVfs` | - | devices and paths for TLC |
| `AddressSpaces` | directories, tables, bounce slots, fork, execve, sbrk, exit and signals as users of memory | specification and properties |
| `MCAddressSpaces` | - | three programs: one segment, two that overlap, two with a gap |
| `SharedFiles` | what open files promise | abstract specification |
| `FileData` | open, read, write, lseek, fcntl, close on ramfs files | specification, refinement mapping |
| `MCFileData` | - | view and symmetry for TLC |
| `FamilyMemory` | fork, exit, kill, waitpid when the kernel heap runs out | specification, the property that fails |
| `Initrd` | copying and unpacking the archive | specification, reference definition of the tree |
| `Terminal` | buffer, cursor, scrolling, drawing | specification and properties |
| `Framebuffer` | clipping and copying pixels, `/dev/framebuffer` | specification, proved and not run |
| `ShellInput` | keyboard ring, shell and command over `Terminal` | composition |
| `TaskManagerProofs`, `SignalContextProofs`, `MemoryBitmapProofs`, `KernelHeapProofs`, `VfsProofs`, `FileDataProofs`, `ShellInputProofs`, `FramebufferProofs` | - | theorems about the module they extend (`ShellInputProofs` about `Terminal` too) |

### TaskManager

The variable `kernel` is the program counter of the handler. In `"user"` the current
task executes; `"wake"`, `"boost"`, `"schedule"` and `"return"` are the points at which
a handler calls `task_manager_wake_blocked_on`, the boost, `task_manager_schedule` and
the end of the interrupt stub. The two loops take one step per iteration, so the
invariants are checked at every point of them. `"undefined"` is entered when a
child list operation writes through a pointer that is no node of that list; then nothing
is known any more and the model only stutters.

The linked lists are sequences. `children[p]` holds what is reachable from the head;
the `previous` field of each node and `children_tail` are kept beside it exactly as
the code writes them, because reparenting (`task_manager_exit_task`) sets neither. A
field that the code leaves uninitialised takes any value of `Uninitialised`.

`task_time_slice` is kept for the current task only: picking a task overwrites its old
slice before it is read. `since_boost` is `timer_ticks - last_priority_boost_at_ticks`.
`RetryIsPrompt` says that a task which was switched to in order to retry a call reaches
its `int 0x80`, one instruction away, before its fresh time slice ends.

`init` is the program `initrd/src/init.c`: it forks once and then calls waitpid(-1) for
ever, and installs no handlers. Other programs make arbitrary calls. `idle` makes none.

### SignalContext

One task; the others are its environment. A frame keeps what kind of instruction `eip`
points to (code, an `int 0x80`, the one behind it, bytes that are no instruction of the
program, the trampoline's final jump), the call in `eax`, and the depth of handlers on
the stack. After a fork the model follows the parent or the child; the child has its
parent's frame, but neither `in_signal_handler` nor `saved_signal_frame` (`ForkedChild`).
execve starts a frame anew. A task that shares the descriptor may change its access mode
while the read is blocked (`SetFlags`). Histories let the properties name what the code is
known to do: `interrupted` marks a call that a signal came into, `nested` a handler that a
signal came into, `forked` a handler that the task was forked in, and `refused` says that a
read was refused when it was retried.

### MemoryBitmap

Addresses are bytes, pages have `PageSize` bytes, `size_t` has modulus `SizeModulus`. The
memory map, the modules and the kernel's bounds are constants; a page may hold bytes of the
initrd and of something that is reserved. `Free` frees pages that
are in use (allocated ones, or the initrd's), which is what the callers do.

### KernelHeap

Addresses and sizes are counted in headers from `heap_start`; `next` and `size` are the
fields of the headers, by address. `Base` is the header inside `kernel_heap`, which lies
in the kernel image below the heap. The loops of malloc and free take one step per
iteration (`pc`), so the invariants hold at every point of them. Growth calls free, and
malloc then goes on with the pointers it had: `Place` returns to `"search"` when
`grown` says so. The sums of the code wrap at 2^32 (`Word`): in rounding up the size
(`HeadersFor`), in the bytes to grow by (`Wanted`) and in the comparison with the end of the
heap (`SeemsToFit`). Where such a sum lets a growth go past the heap, the code writes to
memory that is not mapped, or maps pages over what lies above: `GrowLeavesHeap` sets `pc` to
`"outside"`, and the model stops. `frames` stands for the frame allocator. calloc differs from malloc in
the contents only. `kernel_heap_free` is called with what malloc returned.

### Vfs

`fs` holds the nodes (`vnodes`, by address), the cache, the ramfs nodes (`inodes`) and the
directory entries. The operators of the first half of the module are the functions of
`src/vfs.c` and `src/fs/ramfs.c` as functions from one such record to the next; the
actions string them together as the code does. `call` is the system call in progress:
`rest` is the part of the path that is left, `current` the node the walk stands on.

The code loses locks: when a lookup fails, when a mount is crossed, when a directory is
opened, when no descriptor is free, and when execve succeeds. The history variable `lost`
of a node counts them where it happens. `CountsAreExact` then says two things: there are
no other leaks, and no count is ever too low.

The model starts after `devfs_module_init`. The opens that `kernel_initialize` makes for
init are ordinary calls of the model. A file created as `/dev/x` goes to the ramfs
directory that devfs covers, where only unlink and a further O_CREAT find it;
`CreateNode` follows the code in this. close with an index beyond the table, which the
code does not check, is left out.

### AddressSpaces

Physical memory is one record: the free frames, what each frame holds when it is read as
a directory or table, the bounce slots in use, and whether the kernel has faulted. The
functions of `src/memory_paging.c` are operators from such a record to the next; an
action is a whole system call, because interrupts are off in it. Pages of the program and
its heap are numbered; the contents of pages and the flags of entries are left out. A
program is a sequence of segments, which may overlap; the loader maps them page by page, in
their order. The kernel heap lies in two tables; a growth maps several pages, and one that
finds no frame half way leaves its pages mapped above the break.

Histories count what the code is known to drop. `lost` keeps the frames: those of the loader
(the first directory of init, the directory of a failed execve, a page that the next segment
maps again), of sbrk (a page it could not map) and of the kernel heap (a page above the
break that the next growth maps again). `probes` counts the lookups that find nothing and
keep their bounce slot. `image` is what the segments of a task cover. So `FramesAccounted`
and `SlotsAreReturned` say that nothing else is lost. `task_manager_schedule` frees the
queued directories before it switches, as in the code. A page fault of the kernel halts it
(`fault`). `torn` marks the two steps that produce a task without all it needs, a fork that
runs out of frames and an execve whose arguments do not fit in a page: the model stops there,
and the properties say that no other sequence of calls leads to such a task.

### FileData and SharedFiles

A file is one block of the kernel heap that a growing write replaces; a descriptor is an
index into a table of resources that fork shares. A byte says where in the written buffer
it came from, memory from malloc is `Garbage`. Sizes wrap at `SizeModulus`, as `size_t`
does at 2^32. malloc answers with one of a set: NULL, which it may always do; a block; or
`Astray`, when the size is one of the last that cannot be rounded up (`RoundsToNone`) or so
large that its growth may leave the heap (`GrowthLimit`). A write that thereby leaves its
block (`LeavesBlock`) sets `undefined`, and then nothing is promised; `SharedFiles` allows it
only for a write that would make a file of `GrowthLimit` bytes or more. `SharedFiles` knows neither blocks nor tables: a file is a sequence, an open
file a position and a mode, a call happens as a whole or not at all, with one exception
that the code has (an open that truncates and then finds no descriptor). The refinement
mapping reads the blocks as sequences and the resources as open files.

### FamilyMemory

The heap is a number of free blocks, of which the rest of the kernel may take and return
any at any time. A `task_t` and a list node are a block each. The reparenting loop of exit
is modelled turn by turn (`Reparented`): because each turn frees the node it replaces,
only its first allocation can fail. fork does not test its allocations: `halted` stands for
the write through NULL. The same goes for an exit that looks at a parent that is gone.
Queues and links inside lists are those of `TaskManager`, where allocation never fails.

### Initrd

`ramfs_driver_init` copies the module page by page; a byte is known by its physical
address, so the property can say which bytes must arrive where. The archive is chosen
header by header as it is read (`CanFollow`): any entries with distinct paths, directories
before, after or without their contents. `TreeIsArchive` compares the finished tree with
a reference that finds the headers by searching for the first whole block. Every allocation
may be denied, up to `MaxDenied` of them: that of the copy, the root, a node, the copy of a
name, the data of a file. A node is made first and entered into its directory then: when
that is full, or there is no memory for the name, it is lost (`Unlinked`), and the code goes
on in it. Where a bad pointer is written through, the model stops. `dropped` collects the
entries this happens to. The property excepts them, and says that only a full directory or a
denied allocation makes one. It also excepts the size of the root, which the code creates
with 9 bytes that are not there (`src/fs/ustar.c:31`).

### Terminal, Framebuffer, ShellInput

`screen` is what each cell shows: a character, the mark of the cursor, or pixels a
program painted over it. The bytes of one write are put one step at a time.
`Framebuffer` follows the pointers of `framebuffer_blit` pixel by pixel, as distances from
the start of the framebuffer and of the sprite; it has no bounds to run it with, and is
proved for all sizes instead. `ShellInput` extends
`Terminal` with the ring of the keyboard, the loop of the shell and the command that runs
while the shell waits; `Terminal` is run through it. A scancode carries, as a history, the
character the user meant by it, so `KeysMeanWhatWasTyped` relates the moment of pressing to
the moment of reading. The keyboard has two shift keys; `held` is the set of those that are
down, and what the user means follows from it alone. The shell keeps one flag for both:
`slipped` marks the keys pressed while one of them is held and the other was let go last.

## Runs

| Run | Configuration | Result |
|---|---|---|
| `task_manager` | pids 0 to 4, two ready levels, boost every 2 ticks, a buffer of one scancode | all safety properties hold (1.3 million states) |
| `no_starvation` | pids 0 to 3, boost every 3 ticks, fairness | every ready task runs |
| `signal_context` | handlers nested up to 3 | rewinding and retry are sound; BUSY is seen only after a signal, the trampoline's loop only after a signal or a fork inside the handler, anything else only once a retried read was refused (0.7 million states) |
| `nested_signals` | handlers nested up to 2 | **violated**: the loop is reached, by a fork in a handler or by a second signal |
| `memory_bitmap` | 14 pages of 2 bytes, hole, unaligned ends, a page of the initrd and another module, region ending at 2^32 | all hold, refines `FrameAllocator` |
| `kernel_heap` | 6 pages of 2 headers of addresses in words of 32 headers, 5 or 7 frames, requests of 1, 4, 7, 40, 60, 62 and 63 bytes, fairness | all hold, refines `BlockAllocator`, every call ends (0.24 million states) |
| `open_files` | 2 tasks with one descriptor each, 8 paths, 2 files created, 3 locks lost | all hold (1.0 million states) |
| `address_spaces` | 2 tasks, 36 frames, 4 bounce slots, three programs, a kernel heap that grows by 1 or 2 pages, 4 calls | all hold; memory runs out inside fork, execve, sbrk and the kernel heap (0.42 million states) |
| `file_contents` | 2 tasks with one descriptor each, 2 files, 3 bytes of heap, sizes modulo 6, growth may wrap from 4 | all hold, refines `SharedFiles` (0.11 million states) |
| `shell_input` | 4 by 2 cells, ring of 2, line of 3, 5 key events | all hold (4.2 million states) |
| `initrd` | archives of 1 or 5 blocks, pages of 2 blocks, an aligned and an unaligned module, paths of up to 2 names, 2 entries to a directory, one denied allocation | the tree is the archive (0.9 million states) |
| `exit_without_memory` | 5 tasks, 7 free blocks | **violated**: a parent sleeps on beside its zombie |

The type invariants of modules other than `TaskManager` and `MemoryBitmap` are conjuncts
of the first property of their runs, where they are needed to make sense of it.

*Bounds.* `MaxPid` bounds the ids ever given out; ids are never reused. With pids 2, 3
and 4 a task can have two children, a grandchild can be orphaned, and a list can lose its
head, middle or tail. Two ready levels are the least at which demotion and boost differ
from a queue; time slices are then 2 and 4 ticks, as the code's formula gives. A
buffer of one scancode is empty, or full, after one step. The view `LiveState`
identifies states that differ only in fields of tasks that do not exist or wait for
nothing, which no action and no property reads. Two nested handlers are the least number
at which the single saved frame is overwritten; the third shows that an inner handler
goes wrong in no other way.

In `kernel_heap` the sizes 1, 4 and 7 need 2, 3 and 5 headers: one below the minimum growth,
one that leaves a remainder, one above it. 40 bytes are more than the heap; for 60 and 62 the
sums of the growth wrap in different ways, and 63 cannot be rounded up. 12 headers of
addresses let the heap grow up to three times, and with 5 frames it runs out of frames
before it runs out of addresses, with 7 the other way round. In `open_files`
`MaxInodes` allows two new files, so that a name can be unlinked while open and used again;
a directory holds two names, so that the root is full and `/bin` can become so;
`MaxLost` stops the walking of paths, not the closing of files, when locks have been lost
three times, one of them at boot.

In `address_spaces` four calls suffice to fork, execute, grow and shrink, in any order and
by both tasks; four bounce slots are one more than fork needs; and with 36 frames a second
task or a second program exhausts them in the middle of fork, of execve, of sbrk and of a
kernel heap that grows by two pages. A table holds three pages, so that two
growths take the kernel's heap into its second table, which the running directory lacks:
within four calls that is always a fault. In `file_contents` sizes modulo 6 make offsets reach the wrap
and the last size that cannot be rounded up by writes and seeks, and three bytes of heap
make a growing write fail beside a file of two bytes. In `exit_without_memory` seven blocks pay for two forks with something left to hand
out, and five tasks give an exiting parent two children. The archives of `initrd` hold
up to three entries, with files of zero bytes, less than and more than a block, in modules
that start at the beginning and in the middle of a page; one denied allocation is enough to
lose a node, its name or its data; the third entry of a directory no longer fits. In
`shell_input` every fourth character wraps and every second line scrolls; five key events
fill the ring of two, run it around twice and fill the line of two characters and
its zero.

*Deadlock* is not checked where a model may stop: `SignalContext` when its task is a
zombie or loops; `KernelHeap` once a growth has left the heap; `AddressSpaces` when the kernel has faulted or the calls are used up;
`FileData` once memory has been overwritten (`undefined`); `FamilyMemory` when the kernel
has followed a bad pointer, or init waits with no child left; `Initrd` when the
archive is unpacked; `ShellInput` when no more keys come or the shell has exited. Elsewhere some
interrupt or call is always possible.

*Fairness* (`Fairness` in `TaskManager`): a handler runs to its end (`WF` of
`KernelStep`; nothing interrupts it); the timer's interrupt has the highest priority of
the controller and stays latched while a handler runs (`SF` of `TimerIrq`); and the one
instruction that retries a call is executed in the end (`SF` of `RetriedSyscall`).
Nothing is assumed about programs: they may loop for ever. In `KernelHeap` a call in
progress is executed to its end (`WF` of `Step`). The other modules state safety only and
assume no fairness.

## Findings

Two runs show that the code does other than its comments say:

1. *Nested signals* (`src/task_manager.c:565`, run `nested_signals`). There is one saved
   frame; a signal inside a handler overwrites it. After the inner handler returns to the
   outer one, the outer one's sigreturn finds no frame and falls through to the jump
   "never reached". The same happens to the child of a fork inside a handler, which gets
   neither the frame nor the flag (`src/task_manager.c:151`); TLC finds this shorter one first.
2. *exit without memory* (`src/task_manager.c:369`, run `exit_without_memory`). When the
   reparenting loop gets no list node, exit returns before it wakes the waiting parent. The
   children it has left behind keep pointing to the task, which waitpid may free.

The properties of the passing runs name, by their exceptions and assumptions, what else
does not hold. Each exception is exact: the property says that it is the only one.

- *A signal ends a blocked call* (`src/task_manager.c:568`). The retry flag is saved in
  `saved_syscall_retry` and cleared, and nothing restores it: the program sees -BUSY
  (`BusyOnlyAfterSignal`).
- *A rejected retry keeps its flag* (`src/syscall.c:54`). The early returns of
  `syscall_read` leave `syscall_retry` set. The next `int 0x80` then executes the old
  call, and the next switch moves `eip` back from an arbitrary instruction. It takes a
  task that changes the flags of a shared descriptor during the read; `refused` marks the
  states behind such a read, and the properties except exactly these.
- *A second table for the kernel heap* (`src/memory_paging.c:303`). A directory gets the
  kernel's entries when it is created; a table added later is missing in the older ones, and
  the kernel faults when it uses its heap there (`RunsInItsOwnDirectory`, `SlotsAreReturned`).
- *The initrd gives back whole pages* (`src/fs/ramfs.c:168`), also those that hold something
  else: a page of another module is then handed out (`ReservedStaysSet`).
- *fork without frames* (`src/memory_paging.c:157`): the NULL of a failed allocation is
  mapped as a frame. *Arguments larger than a page* (`src/elf_executable.c:55`): the result
  is dropped, and execve succeeds without a kernel stack. Both set `torn`.
- *Frames, bounce slots and locks that are dropped*: counted by `lost` and `probes` of
  `AddressSpaces` and `lost` of `Vfs`. Two of them do not come from a failed call: segments
  that share a page (`src/elf_executable.c:87`), and the growth of the kernel heap after
  one that failed half way (`src/kernel_heap.c:18`).
- *A full directory, or no memory for a name* (`src/fs/ramfs.c:334`, `:251`). The node is made
  first and is lost when it cannot be entered. *The root has 9 bytes* (`src/fs/ustar.c:31`)
  and no data (`TreeIsArchive`).
- *Sizes that wrap*. malloc answers the last seven sizes of 32 bits with a header and no
  bytes (`src/kernel_heap.c:44`, `Oversized`), and a growth by almost 4 GB passes the test
  against the end of the heap (`src/kernel_heap.c:12`, `GrowLeavesHeap`). A write at
  an offset near 2^32 leaves its block, through these or through its own sum
  (`src/fs/ramfs.c:215`, `undefined` of `FileData`).
- *Children of init*: orphans that are zombies already do not wake it, and its list has
  undefined `previous` pointers (`WaitersCanBeWoken`, `FamilyIsLinked`, `Undefined`).
- *Keys of two readers*: a shift key whose release is dropped by a full ring, or read by a
  command, leaves the shell with the wrong case; *one flag for two shift keys*
  (`initrd/src/shell.c:123`): letting go of one ends the shift of the other
  (`KeysMeanWhatWasTyped`). A line that has
  left its row cannot be erased across it (`ScreenShowsLine`).

## Proofs

`TaskManagerProofs` proves every safety property of the run `task_manager`, for every
number of tasks, levels and buffer slots, in two layers.

The first inductive invariant, `IInv`, gives `TypeOK`, `QueueDiscipline`,
`RunnerIsRunning`, `SliceNeverWraps`, `KeyboardWakesReaders` and `LifecycleRespected`. It
adds what the code relies on between handlers: which tasks have been created, that
idle is in no queue and never blocks, where the handler is when the current task is no
longer running, that `task_next` is the running task while a switch is pending, and at
which points of the wake-up walk a reader may still be asleep beside a full buffer.

The second, `LinkInv`, is proved on top of it and gives `NoDanglingTask`,
`FamilyIsLinked` and `WaitersCanBeWoken`. waitpid frees a zombie without looking for
pointers to it, so the proof must show that there are none: `ParentsInv` says that the
child of a task other than init is in the list of a parent that is *not a zombie*, because
exit hands over everything in its list and the list is complete; `SwitchInv` says that
`task_next` is the caller itself once the switch is done. `ListsInv` says that the lists
are linked; two lemmas about `previous` and `children_tail` show that fork's append and
the removal of any node (`LinkedAppend`, `LinkedRemove`) keep them so. A node whose `previous`
is null is then the head, so removal never drops what stands before it. For init's
list, where `previous` may be anything, nothing of this is claimed; `InitWaits` (init waits
for any child) is why its own waits do not depend on it. The list operations enter through the
lemmas at the top of the module (what appending, dropping the head and removing an element do
to membership, order and uniqueness, and that a search that finds nothing has no least
match).

`SignalContextProofs` proves the four properties of the run `signal_context` for handlers
nested to any depth. The inductive invariant
follows a call through the frame *and* the saved frame: where `eip` stands while the call is
to be retried (behind the `int 0x80` until the switch moves it back, on it from then
on), that the stored call is the read in the frame, that a frame holds BUSY only in a
retry or after a signal, and that a handler which does not own the saved frame has
been interrupted by another or is that of a forked child. What it says of retries holds up to
a retried read that is refused.

`KernelHeapProofs` proves `RingIsOrdered`, `BlocksTile` and the refinement of
`BlockAllocator` for a heap of any length, pages and headers of any size, words of any width, any requests (those whose sums wrap
included, up to a growth that leaves the heap) and
any point at which frames or addresses run out. The inductive invariant describes the heap
between any two iterations of the loops of malloc and free: the ring is closed and in the
order of addresses, blocks are disjoint, each has one owner, no two free ones are adjacent,
and what no block covers is the end of a page. `Growing` is why one call grows the
heap at most twice, unless the bytes it asks for are 0 in 32 bits (`NeverServed`) and every
growth is the smallest one: the new block is the topmost one, and the search that goes on behind
the old head meets it, or the block it was joined to, before it is back at the head, or
after growing once more.

`MemoryBitmapProofs` proves, for every memory map that satisfies the named assumptions, whatever pages the initrd shares,
the type invariant, `HintSound`, `ReservedStaysSet` and the refinement of
`FrameAllocator`. The refinement needs `HintSound`'s companion that a page outside
`Frames` stays set, and that page 0 is reserved, so that NULL is no frame.

`ShellInputProofs` first proves, of `Terminal`, `TypeOK`, `ScreenShowsBuffer` and
`BelowCursorIsEmpty` for a screen of any size and writes of any length. Their conjunction is inductive. All three
ways of putting a character end in `terminal_set_cursor`, so the argument is in three
lemmas about it (it keeps the types; if every cell but the cursor's shows the buffer
before, every cell does after; if nothing stands below the cursor and it does not go up,
nothing does after), and the proof for each character shows only that what it hands over
satisfies their hypotheses.

It then proves, of `ShellInput`, `RingIsQueue`, `KeysMeanWhatWasTyped` and
`ScreenShowsLine` for a ring, a line and a screen of any size and any number of keys, and that the shell and its
command drive the terminal as `Terminal` allows, so that its two properties hold
for `SSpec`. `Queue` ties head, tail and count to the sequence of pending keys. The state of
shift at each pending key would be a recursion over the keys; the invariant says instead
(`ShiftBefore`) what it is at the first key and how it goes from one to the next.

`VfsProofs` proves the four properties of the run `open_files`, `NothingDangles`, `OneNodePerFile`,
`CountsAreExact` and `LinksAreExact`, for any number of tasks, descriptors, paths, devices, files and
entries of a directory, and any number of locks lost. No one of them is inductive: a node is freed because its count
says so, an inode because its node is freed and its link count says so, and nobody looks
for what still points there. `IInv` therefore holds all of it at once:

- `NodesInv`: every node is in the cache, at the address of its file, and only the directory
  `/dev` is mounted on. There is never a second node for a file, so the addresses that the model would
  give one are not used.
- `InodesInv`, `EntriesInv`, `FilesInv`: the file of a ramfs node and both ends of every name
  are there; a directory is never unlinked.
- `LinksInv`: the link count is the number of names, and a file without a name has a node,
  which is what deletes it later.
- `CountsInv`: the count of a node is the cache's reference, the kernel's own on the root and
  the mount, its users and its `lost`.
- `SlotsInv`: a resource counts the slots that hold it; the slots of a task that does not
  exist are empty.
- `CallInv`: what the walk of each call stands on, and that only link holds a second node.

A system call takes and drops locks in the middle of a step, so these are not stated of the
variables but of a file system `s` and of the number `U[v]` of users of each node, and there is
a lemma for each function of `src/vfs.c` and `src/fs/ramfs.c` that says how it takes one such pair to another
(`OneLessKeeps`: a dropped reference, `RegisterKeeps`: a new resource, and so on). While a
lock has been dropped and the node not yet evicted, a node may have no user: `UsedBut` carries
the set of such nodes. Only at the end of the action is `U` again what the resources and the
call make it (`Sound`). The assumptions are that init is a task, that paths are sequences of
names, and that the limits are numbers.

`FileDataProofs` proves `BlocksAreOwned`, `DescriptorsAreLive` and the refinement of
`SharedFiles` for any number of tasks, descriptors and files, writes of any length and a heap
of any size, up to the first write that leaves its block, which is always one that would make
a file of `GrowthLimit` bytes or more. `DescriptorsAreLive` is not inductive: the code frees a resource when its
count reaches zero and never looks at the tables, so the invariant (`HolderInv`) says that
the count *is* the number of entries that hold the resource, over the tables of all tasks,
and that the table of a task that does not exist is empty. One lemma (`RowReplaced`: when one
table is replaced by another, each count changes by the difference) serves open, close, fork and
exit; that open finds a resource whenever it finds an entry is a pigeonhole argument
(`ResourceIsLeft`). `BlockInv` is the ownership of blocks; that no byte of a new block is
left as malloc gave it is in `WriteKeepsBlocks`. The refinement maps each call to the
call on plain files of the same name; fork changes nothing they know of, and exit closes
those files that nobody else has. The tasks, descriptors and files are assumed to be
finitely many, and the resources to be no fewer than the entries of all tables.

`FramebufferProofs` proves, for every geometry of the screen (`Geometry`: sizes are positive
and a row holds its pixels), every sprite and every place on or off the screen, that no
pointer of the copy leaves the visible part of its row or the sprite
(`BlitStaysInside`) and that a write of `/dev/framebuffer` stays within it
(`DeviceWritesInside`). The code never looks at the pointers, only at its loops: the
inductive invariant says that the clipped part lies inside the screen and the sprite
(`ClipInside`) and what each pointer is as a function of the loops (`PointersFollow`,
`PixelFollows`). Products of two unknowns are beyond the arithmetic of the prover, so
lemmas state the few facts that are needed of them. Sums are taken not to overflow.

Assumptions are named in the modules. One of them excludes a case in which the code is
wrong: `BitmapAssumption` (memory sizes for which the last byte of the bitmap lies
behind its locked pages). `InitrdAssumption` only says that no part of the initrd lies in the
first megabyte.

Each inductive invariant was checked with TLC on the run's instance before it was proved;
of `KernelHeap`'s, which quantifies over the naturals in one place, the part without it.

Only model-checked:

- *Liveness* (`ReadyTaskRuns`, `CallsEnd`): fairness is out of the prover's reach.
- `AddressSpaces` (`FramesHaveOneOwner`, `FramesAccounted`, `RunsInItsOwnDirectory`,
  `SlotsAreReturned`, `SpaceMatchesBreak`): interrupts are off in fork, execve, sbrk and the
  scheduler, so one step of the model allocates or frees a whole sequence of pages, or
  destroys a whole queue of directories, with a fold. What a fold computes for every sequence is an
  induction over data, which the prover does not have. The properties also presuppose a memory in
  which boot succeeds, and the initial state is the result of running it.
- `Initrd` (`TreeIsArchive`) makes the directories of a path by recursion over the path and
  unpacks the archive with a fold, with the same difficulty.
- `FamilyMemory` (`exit_without_memory`) and `nested_signals` are runs of properties that fail.

## Not modelled

- *Formatting* (`src/print.c`), the *C library* (`src/libc/string.c`) and the *text of tar
  headers*: sequential functions on bytes with no state that anything else reads. A
  property of them would be about single characters, which a unit test reaches. `%x`
  writes its two characters of prefix without looking at the end of the buffer of 512
  bytes; no caller prints that much.
- *VGA* (`src/drivers/vga.c`): initialised at boot; the terminal is given the framebuffer's
  driver, and nothing draws through VGA.
- *CPU tables, PIC, PIT* (`src/gdt.c`, `src/tss.c`, `src/idt.c`, `src/pic.c`,
  `src/boot.s`, `src/bootstrap.c`): constants written to hardware once. What they bring
  about (every gate switches interrupts off) is built into the models.
- *Code without callers*: `memory_paging_unmap`, `framebuffer_put_pixel`, the overflow and
  scroll settings of the terminal. `O_APPEND` is defined and used nowhere.
- *Flags of page table entries, the TLB*, and the page table of the bounce window, which
  boot creates once.
- *The checks of user pointers* in the system calls, which compare with one constant.
- *The counts of ticks* behind `times`, which nothing else reads; it returns its 64-bit
  count as `int32_t` (`src/syscall.c:523`). *Colours* of the framebuffer.
- *Calls that only read*: getpid, isatty, fstat, ioctl, and the reading of directories.
- In `TaskManager` and `Vfs` allocations of the kernel heap never fail (they do in
  `FamilyMemory`, `FileData` and `Initrd`), and `write` never blocks: no device returns
  WILL_BLOCK from a write.

One property cannot be had: waitpid(-1) of a task without children blocks it for ever, by
the code's own decision (`src/syscall.c:202`).

## Plan

1. Done: `TaskManager`, `SignalContext`, `MemoryBitmap` and `KernelHeap` with their
   abstract allocators, `Vfs`, `AddressSpaces`, `FileData` with its abstract files,
   `FamilyMemory`, `Initrd`, `Terminal`, `Framebuffer`, `ShellInput`; theorems for
   every safety property of the task manager, the signals, the frame allocator, the
   kernel heap, the node cache with its ramfs, the contents of files, the terminal, the
   shell's input and the framebuffer.
2. Left: theorems about `AddressSpaces`. They would need its folds as loops with one step
   for each page, which lets the invariant be stated of a half-built address space.
