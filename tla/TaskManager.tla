------------------------------ MODULE TaskManager ------------------------------
(***************************************************************************)
(* The task manager of the kernel: the multi-level feedback queue, the     *)
(* context switch, blocking and waking, and the life of a task from fork    *)
(* to reaping (src/task_manager.c and the callers in src/syscall.c,         *)
(* src/idt.c, src/drivers/timer.c, src/drivers/keyboard.c).                 *)
(*                                                                         *)
(* The machine has one CPU and every gate is an interrupt gate, so a        *)
(* handler runs to its end with interrupts off.  The variable "kernel" is   *)
(* the handler's program counter: "user" means that the CPU executes the    *)
(* current task with interrupts on; every other value is a point inside a   *)
(* handler from which exactly one action leads on.  A handler is cut into   *)
(* several actions only at the calls it makes in sequence (the loop that    *)
(* wakes tasks, the loop that boosts priorities, schedule, the stub's exit).*)
(***************************************************************************)
EXTENDS Integers, Sequences, SequencesExt

CONSTANTS
    MaxPid,              \* bound on task_id: tasks 0 .. MaxPid can be created
    Levels,              \* TASK_MANAGER_QUEUE_LEVELS
    BoostInterval,       \* TASK_MANAGER_PRIORITY_BOOST_INTERVAL, in ticks
    DefaultTimeSlice,    \* TASK_MANAGER_DEFAULT_TIME_SLICE
    SliceModulus,        \* 2^32: task_time_slice is a uint32_t
    KeyboardBufferSize,  \* KEYBOARD_BUFFER_SIZE
    Uninitialised        \* what the "previous" field of a fresh node may hold

NoTask   == -1  \* the null pointer
Wild     == -2  \* a pointer to memory that is no node of a child list
AnyChild == -1  \* waitpid(-1)
Keyboard == -3  \* &keyboard, the object a keyboard reader waits on

IdlePid == 0
InitPid == 1

Tasks        == 0 .. MaxPid
Ready        == 0 .. Levels - 1
BlockedQueue == Levels
ZombieQueue  == Levels + 1
Queues       == 0 .. Levels + 1

\* task_manager_calculate_time_slice: TASK_MANAGER_QUEUE_INDEX_BLOCKED is Levels.
TimeSlice(level) == BlockedQueue * 2^level

ASSUME MaxPidAssumption == MaxPid \in Nat /\ MaxPid >= 1
ASSUME LevelsAssumption == Levels \in Nat /\ Levels >= 1
ASSUME SliceAssumption ==
    /\ SliceModulus \in Nat
    /\ DefaultTimeSlice \in 1 .. SliceModulus - 1
    /\ \A level \in Ready : TimeSlice(level) \in 1 .. SliceModulus - 1
ASSUME BoostAssumption == BoostInterval \in Nat /\ BoostInterval >= 1
ASSUME KeyboardAssumption == KeyboardBufferSize \in Nat /\ KeyboardBufferSize >= 1
ASSUME UninitialisedAssumption == Uninitialised # {} /\ Uninitialised \subseteq {NoTask, Wild}

VARIABLES
    task_id,              \* the id the next task will get
    task_state,           \* "FREE" is an id with no task_t: not created yet, or destroyed
    task_queues,          \* the Levels ready queues, the blocked and the zombie queue
    task_queue_level,
    task_time_slice,      \* of the current (or the picked) task; picking overwrites the others'
    task_current,
    task_next,
    task_needs_switching,
    since_boost,          \* timer_ticks - last_priority_boost_at_ticks
    yield,                \* of the current task
    syscall_retry,
    wait_reason,
    wait_object,          \* also the parameter of the syscall that is to be retried
    parent,
    children,             \* the nodes reachable from the list's head, in order
    children_tail,
    previous,             \* the previous field of the child's node
    buffer_count,         \* of the keyboard ring buffer
    kernel

queueVars  == <<task_state, task_queues, task_queue_level>>
cpuVars    == <<task_current, task_next, task_needs_switching>>
sliceVars  == <<task_time_slice, since_boost, yield>>
waitVars   == <<wait_reason, wait_object>>
familyVars == <<parent, children, children_tail, previous>>
vars == <<task_id, queueVars, cpuVars, sliceVars, syscall_retry, waitVars,
          familyVars, buffer_count, kernel>>

States == {"FREE", "READY", "RUNNING", "BLOCKED", "ZOMBIE"}

(***************************************************************************)
(* kernel_initialize: idle is task 0 and is to be switched to by the first  *)
(* interrupt; init is task 1, waiting in the top queue.                     *)
(***************************************************************************)
Init ==
    /\ task_id = 2
    /\ task_state = [t \in Tasks |-> CASE t = IdlePid -> "RUNNING"
                                       [] t = InitPid -> "READY"
                                       [] OTHER -> "FREE"]
    /\ task_queues = [q \in Queues |-> IF q = 0 THEN <<InitPid>> ELSE <<>>]
    /\ task_queue_level = [t \in Tasks |-> 0]
    /\ task_time_slice = DefaultTimeSlice
    /\ task_current = NoTask
    /\ task_next = IdlePid
    /\ task_needs_switching = TRUE
    /\ since_boost = 0
    /\ yield = FALSE
    /\ syscall_retry = [t \in Tasks |-> FALSE]
    /\ wait_reason = [t \in Tasks |-> "NONE"]
    /\ wait_object = [t \in Tasks |-> NoTask]
    /\ parent = [t \in Tasks |-> NoTask]
    /\ children = [t \in Tasks |-> <<>>]
    /\ children_tail = [t \in Tasks |-> NoTask]
    /\ previous = [t \in Tasks |-> NoTask]
    /\ buffer_count = 0
    /\ kernel = "user"

-----------------------------------------------------------------------------
(***************************************************************************)
(* The queues: singly linked lists walked from the head, as sequences.      *)
(***************************************************************************)
EnqueueInFront(queues, q, t) ==  \* mutant: the list is pushed to at its head
    IF t = IdlePid THEN queues ELSE [queues EXCEPT ![q] = <<t>> \o @]

\* task_manager_enqueue_task, task_manager_dequeue_task, task_manager_remove_task_from_queue.
Enqueue(queues, q, t) ==
    IF t = IdlePid THEN queues ELSE [queues EXCEPT ![q] = Append(@, t)]

Dequeue(queues, q) == [queues EXCEPT ![q] = Tail(@)]

RemoveFromQueue(queues, q, t) == [queues EXCEPT ![q] = RemoveFirst(@, t)]

\* task_manager_block_task: the current task is in no queue, so the removal finds nothing.
BlockTask(t, reason, object) ==
    /\ task_state' = [task_state EXCEPT ![t] = "BLOCKED"]
    /\ wait_reason' = [wait_reason EXCEPT ![t] = reason]
    /\ wait_object' = [wait_object EXCEPT ![t] = object]
    /\ task_queues' = Enqueue(RemoveFromQueue(task_queues, task_queue_level[t], t),
                              BlockedQueue, t)
    /\ task_queue_level' = [task_queue_level EXCEPT ![t] = BlockedQueue]

\* task_manager_unblock_task, for a task that is blocked.
UnblockTask(t) ==
    /\ task_state' = [task_state EXCEPT ![t] = "READY"]
    /\ task_queues' = Enqueue(RemoveFromQueue(task_queues, task_queue_level[t], t), 0, t)
    /\ task_queue_level' = [task_queue_level EXCEPT ![t] = 0]

-----------------------------------------------------------------------------
(***************************************************************************)
(* The scheduler.                                                           *)
(***************************************************************************)

\* Where task_manager_schedule starts: with the boost when the interval has passed.
ScheduleEntry(ticks) == IF ticks >= BoostInterval THEN "boost" ELSE "schedule"

\* task_manager_boost_priority_of_all_tasks, one iteration of its inner loop.
BoostStep ==
    /\ kernel = "boost"
    /\ \E q \in 1 .. Levels - 1 :
          /\ task_queues[q] # <<>>
          /\ \A lower \in 1 .. q - 1 : task_queues[lower] = <<>>
          /\ LET t == Head(task_queues[q])
             IN  /\ task_queues' = Enqueue(Dequeue(task_queues, q), 0, t)
                 /\ task_queue_level' = [task_queue_level EXCEPT ![t] = 0]
    /\ UNCHANGED <<task_id, task_state, cpuVars, sliceVars, syscall_retry, waitVars,
                   familyVars, buffer_count, kernel>>

\* ... and its end.
BoostEnd ==
    /\ kernel = "boost"
    /\ \A q \in 1 .. Levels - 1 : task_queues[q] = <<>>
    /\ since_boost' = 0
    /\ kernel' = "schedule"
    /\ UNCHANGED <<task_id, queueVars, cpuVars, task_time_slice, yield, syscall_retry,
                   waitVars, familyVars, buffer_count>>

PickedSliceNotRefilled(q) == (task_time_slice - 1) % SliceModulus  \* mutant

\* The time slice of the task picked from queue q; idle's is that of queue 0.
PickedSlice(q) == TimeSlice(q)

\* task_manager_pick_task on the given queues and the end of task_manager_schedule.
Pick(queues, levels, states, old) ==
    LET Switch(new) ==
            /\ task_state' = [states EXCEPT ![new] = "RUNNING"]
            /\ IF new # old
               THEN task_next' = new /\ task_needs_switching' = TRUE
               ELSE UNCHANGED <<task_next, task_needs_switching>>
    IN  \/ \E q \in Ready :
              /\ queues[q] # <<>>
              /\ \A higher \in 0 .. q - 1 : queues[higher] = <<>>
              /\ task_queues' = Dequeue(queues, q)
              /\ task_queue_level' = levels
              /\ task_time_slice' = PickedSlice(q)
              /\ Switch(Head(queues[q]))
        \/ /\ \A q \in Ready : queues[q] = <<>>
           /\ task_queues' = queues
           /\ task_queue_level' = levels
           /\ task_time_slice' = PickedSlice(0)
           /\ Switch(IdlePid)

DemotedTooFar(level) == IF level < Levels THEN level + 1 ELSE level  \* mutant

DemotedLevel(level) == IF level < Levels - 1 THEN level + 1 ELSE level

\* task_manager_requeue_task(old, used_time_slice = 1), then the pick.
Reschedule ==
    LET old   == task_current
        again == old # IdlePid /\ task_state[old] = "RUNNING"
        level == DemotedLevel(task_queue_level[old])
    IN  IF again
        THEN Pick(Enqueue(task_queues, level, old),
                  [task_queue_level EXCEPT ![old] = level],
                  [task_state EXCEPT ![old] = "READY"], old)
        ELSE Pick(task_queues, task_queue_level, task_state, old)

\* task_manager_schedule after the boost; the decrement wraps as uint32_t does.
Schedule ==
    /\ kernel = "schedule"
    /\ kernel' = "return"
    /\ LET left == (task_time_slice - 1) % SliceModulus
       IN  \/ /\ task_current = NoTask
              /\ UNCHANGED <<queueVars, task_next, task_needs_switching, task_time_slice, yield>>
           \/ /\ task_current # NoTask
              /\ left # 0 /\ ~yield
              /\ task_time_slice' = left
              /\ UNCHANGED <<queueVars, task_next, task_needs_switching, yield>>
           \/ /\ task_current # NoTask
              /\ left = 0 \/ yield
              /\ yield' = FALSE
              /\ Reschedule
    /\ UNCHANGED <<task_id, task_current, since_boost, syscall_retry, waitVars, familyVars,
                   buffer_count>>

\* The end of irq_stub_handler and isr_stub_handler, with task_manager_task_switch.
ReturnFromInterrupt ==
    /\ kernel = "return"
    /\ kernel' = "user"
    /\ task_needs_switching' = FALSE
    /\ task_current' = IF task_needs_switching THEN task_next ELSE task_current
    /\ UNCHANGED <<task_id, queueVars, task_next, sliceVars, syscall_retry, waitVars,
                   familyVars, buffer_count>>

-----------------------------------------------------------------------------
(***************************************************************************)
(* Interrupts.                                                              *)
(***************************************************************************)

\* A task that was switched to with a syscall to retry executes int 0x80 first; this
\* takes it less than the ticks of its fresh time slice.
RetryIsPrompt ==
    task_current # NoTask /\ syscall_retry[task_current] => task_time_slice > 1

\* timer_irq_handler.
TimerIrq ==
    /\ kernel = "user"
    /\ RetryIsPrompt
    /\ since_boost' = since_boost + 1
    /\ kernel' = ScheduleEntry(since_boost')
    /\ UNCHANGED <<task_id, queueVars, cpuVars, task_time_slice, yield, syscall_retry,
                   waitVars, familyVars, buffer_count>>

BufferedUnchecked(count) == count + 1  \* mutant

\* keyboard_buffer_write: the scancode is dropped when the buffer is full.
Buffered(count) == IF count = KeyboardBufferSize THEN count ELSE count + 1

\* keyboard_irq_handler up to the wake-up.
KeyboardIrq ==
    /\ kernel = "user"
    /\ buffer_count' = Buffered(buffer_count)
    /\ kernel' = "wake"
    /\ UNCHANGED <<task_id, queueVars, cpuVars, sliceVars, syscall_retry, waitVars, familyVars>>

WaitsOnKeyboard(t) == wait_reason[t] = "IO" /\ wait_object[t] = Keyboard

WalkStops == "return"  \* mutant: the walk ends at the first task it wakes

\* Once a task is woken the walk goes on.
WalkGoesOn == "wake"

\* task_manager_wake_blocked_on(IO, &keyboard), one iteration that wakes a task.
WakeStep ==
    /\ kernel = "wake"
    /\ \E i \in DOMAIN task_queues[BlockedQueue] :
          /\ WaitsOnKeyboard(task_queues[BlockedQueue][i])
          /\ \A j \in 1 .. i - 1 : ~WaitsOnKeyboard(task_queues[BlockedQueue][j])
          /\ UnblockTask(task_queues[BlockedQueue][i])
    /\ kernel' = WalkGoesOn
    /\ UNCHANGED <<task_id, cpuVars, sliceVars, syscall_retry, waitVars, familyVars,
                   buffer_count>>

\* ... and the end of its walk.
WakeEnd ==
    /\ kernel = "wake"
    /\ \A i \in DOMAIN task_queues[BlockedQueue] : ~WaitsOnKeyboard(task_queues[BlockedQueue][i])
    /\ kernel' = "return"
    /\ UNCHANGED <<task_id, queueVars, cpuVars, sliceVars, syscall_retry, waitVars,
                   familyVars, buffer_count>>

-----------------------------------------------------------------------------
(***************************************************************************)
(* The child lists: doubly linked, appended to at children_tail by fork,    *)
(* prepended to by the reparenting of orphans, which sets neither the       *)
(* previous fields nor the tail.                                            *)
(***************************************************************************)

\* The memory writes of an operation are defined, or the kernel's state is lost.
ContinueIf(defined, next) == kernel' = IF defined THEN next ELSE "undefined"

\* task_manager_add_child_to_task, for a child with a fresh id.
AddChild(p, c) ==
    /\ previous' = [previous EXCEPT ![c] = children_tail[p]]
    /\ children' = [children EXCEPT ![p] = Append(@, c)]
    /\ children_tail' = [children_tail EXCEPT ![p] = c]

\* The append follows children_tail, so it extends the list only from its last node.
AddChildDefined(p) == children[p] = <<>> \/ children_tail[p] = Last(children[p])

TailKept(p, i) == children_tail[p]  \* mutant

\* children_tail once the i-th node of p's list is gone.
TailWithout(p, i) ==
    IF i < Len(children[p]) THEN children_tail[p] ELSE previous[children[p][i]]

\* task_manager_remove_child_from_task for the i-th node of p's list: a node whose previous
\* field is null is taken for the head, and what stands before it is dropped.
RemoveChild(p, i) ==
    LET list == children[p]
        prev == previous[list[i]]
    IN  /\ children' = [children EXCEPT ![p] = IF prev = NoTask THEN SubSeq(list, i + 1, Len(list))
                                               ELSE RemoveFirst(list, list[i])]
        /\ previous' = IF i < Len(list) THEN [previous EXCEPT ![list[i + 1]] = prev] ELSE previous
        /\ children_tail' = [children_tail EXCEPT ![p] = TailWithout(p, i)]

\* previous is followed and written through: it must be null or the node before.
RemoveChildDefined(p, i) ==
    LET prev == previous[children[p][i]]
    IN  prev = NoTask \/ (i > 1 /\ prev = children[p][i - 1])

-----------------------------------------------------------------------------
(***************************************************************************)
(* The end of a task.                                                       *)
(***************************************************************************)

WakesWaiterForPidOnly(t) ==  \* mutant
    LET p == parent[t]
    IN  /\ p # NoTask
        /\ task_state[p] = "BLOCKED"
        /\ wait_reason[p] = "CHILD"
        /\ wait_object[p] = t

\* The parent is blocked in a waitpid that the end of t satisfies.
WakesParent(t) ==
    LET p == parent[t]
    IN  /\ p # NoTask
        /\ task_state[p] = "BLOCKED"
        /\ wait_reason[p] = "CHILD"
        /\ wait_object[p] \in {t, AnyChild}

KeepsParent(t, u) == parent[u]  \* mutant

\* The parent of u after the exit of t.
AdoptedParent(t, u) == IF Contains(children[t], u) THEN InitPid ELSE parent[u]

\* task_manager_exit_task: leave the queue, hand the children to init (each in a fresh node,
\* whose previous field is not set), wake the parent that waits, enter the zombie queue.
ExitTask(t) ==
    LET p       == parent[t]
        wakes   == WakesParent(t)
        orphans == ToSet(children[t])
        without == CASE task_state[t] = "READY" ->
                            RemoveFromQueue(task_queues, task_queue_level[t], t)
                     [] task_state[t] = "BLOCKED" ->
                            RemoveFromQueue(task_queues, BlockedQueue, t)
                     [] OTHER -> task_queues
        woken   == IF wakes THEN Enqueue(RemoveFromQueue(without, task_queue_level[p], p), 0, p)
                   ELSE without
    IN  /\ task_queues' = Enqueue(woken, ZombieQueue, t)
        /\ task_state' = [u \in Tasks |-> CASE u = t -> "ZOMBIE"
                                            [] u # t /\ wakes /\ u = p -> "READY"
                                            [] OTHER -> task_state[u]]
        /\ task_queue_level' = [u \in Tasks |-> CASE u = t -> ZombieQueue
                                                  [] u # t /\ wakes /\ u = p -> 0
                                                  [] OTHER -> task_queue_level[u]]
        /\ parent' = [u \in Tasks |-> AdoptedParent(t, u)]
        /\ children' = [children EXCEPT ![InitPid] = Reverse(children[t]) \o @, ![t] = <<>>]
        /\ \E garbage \in [orphans -> Uninitialised] :
              previous' = [u \in Tasks |-> IF u \in orphans THEN garbage[u] ELSE previous[u]]
        /\ UNCHANGED children_tail

YieldWithoutSchedule == yield' = TRUE /\ kernel' = "return"  \* mutant

\* task_manager_yield_current after the current task has blocked or exited.
YieldCurrent == yield' = TRUE /\ kernel' = ScheduleEntry(since_boost)

-----------------------------------------------------------------------------
(***************************************************************************)
(* System calls of the current task.  syscall_handler executes the call in  *)
(* the registers, or the stored one when the task is to retry it.  Init is  *)
(* the program initrd/src/init.c: it forks once and then waits for any      *)
(* child for ever.  All other programs are arbitrary.                       *)
(***************************************************************************)
Running == kernel = "user" /\ task_current \notin {NoTask, IdlePid}

NewSyscall == Running /\ ~syscall_retry[task_current]

InitHasForked == task_id > 2

\* syscall_fork with task_manager_task_copy.
Fork ==
    /\ NewSyscall
    /\ task_id <= MaxPid
    /\ task_current = InitPid => ~InitHasForked
    /\ task_id' = task_id + 1
    /\ task_state' = [task_state EXCEPT ![task_id] = "READY"]
    /\ task_queue_level' = [task_queue_level EXCEPT ![task_id] = 0]
    /\ task_queues' = Enqueue(task_queues, 0, task_id)
    /\ parent' = [parent EXCEPT ![task_id] = task_current]
    /\ AddChild(task_current, task_id)
    /\ ContinueIf(AddChildDefined(task_current), "return")
    /\ UNCHANGED <<cpuVars, sliceVars, syscall_retry, waitVars, buffer_count>>

\* syscall_exit, and isr_handler for an exception the task does not handle.
Exit ==
    /\ NewSyscall
    /\ task_current # InitPid
    /\ ExitTask(task_current)
    /\ YieldCurrent
    /\ UNCHANGED <<task_id, cpuVars, task_time_slice, since_boost, syscall_retry, waitVars,
                   buffer_count>>

\* The waitpid a task may call: a new one, or the stored one on a retry.
WaitpidCall(pid) ==
    /\ Running
    /\ IF syscall_retry[task_current]
       THEN wait_reason[task_current] = "CHILD" /\ wait_object[task_current] = pid
       ELSE task_current = InitPid => InitHasForked /\ pid = AnyChild

ReapableAlive(pid, i) ==  \* mutant: the state of the child is not tested
    LET list == children[task_current]
    IN  /\ pid \in {AnyChild, list[i]}
        /\ \A j \in 1 .. i - 1 : pid \notin {AnyChild, list[j]}

\* The i-th child is the one waitpid(pid) reaps.
Reapable(pid, i) ==
    LET list == children[task_current]
    IN  /\ task_state[list[i]] = "ZOMBIE"
        /\ pid \in {AnyChild, list[i]}
        /\ \A j \in 1 .. i - 1 : ~(task_state[list[j]] = "ZOMBIE" /\ pid \in {AnyChild, list[j]})

\* syscall_waitpid finds a zombie: task_manager_destroy_task.
WaitpidReaps(pid) ==
    /\ WaitpidCall(pid)
    /\ \E i \in DOMAIN children[task_current] :
          LET z == children[task_current][i]
          IN  /\ Reapable(pid, i)
              /\ RemoveChild(parent[z], i)
              /\ ContinueIf(RemoveChildDefined(parent[z], i), "return")
              /\ task_queues' = RemoveFromQueue(task_queues, task_queue_level[z], z)
              /\ task_state' = [task_state EXCEPT ![z] = "FREE"]
    /\ syscall_retry' = [syscall_retry EXCEPT ![task_current] = FALSE]
    /\ UNCHANGED <<task_id, task_queue_level, cpuVars, sliceVars, waitVars, parent, buffer_count>>

NoZombieFor(pid) == \A i \in DOMAIN children[task_current] : ~Reapable(pid, i)

IsChild(pid) == Contains(children[task_current], pid)

\* syscall_waitpid of a pid that is no child fails.
WaitpidFails(pid) ==
    /\ WaitpidCall(pid)
    /\ NoZombieFor(pid)
    /\ pid # AnyChild /\ ~IsChild(pid)
    /\ syscall_retry' = [syscall_retry EXCEPT ![task_current] = FALSE]
    /\ kernel' = "return"
    /\ UNCHANGED <<task_id, queueVars, cpuVars, sliceVars, waitVars, familyVars, buffer_count>>

\* syscall_waitpid blocks, to be retried.
WaitpidBlocks(pid) ==
    /\ WaitpidCall(pid)
    /\ NoZombieFor(pid)
    /\ pid = AnyChild \/ IsChild(pid)
    /\ BlockTask(task_current, "CHILD", pid)
    /\ YieldCurrent
    /\ syscall_retry' = [syscall_retry EXCEPT ![task_current] = TRUE]
    /\ UNCHANGED <<task_id, cpuVars, task_time_slice, since_boost, familyVars, buffer_count>>

\* The read of /dev/keyboard a task may call: a new one, or the stored one on a retry.
ReadCall ==
    /\ Running
    /\ IF syscall_retry[task_current]
       THEN WaitsOnKeyboard(task_current)
       ELSE task_current # InitPid

\* syscall_read with keyboard_read: takes as many scancodes as fit the caller's buffer.
ReadDelivers ==
    /\ ReadCall
    /\ \E n \in 1 .. buffer_count : buffer_count' = buffer_count - n
    /\ syscall_retry' = [syscall_retry EXCEPT ![task_current] = FALSE]
    /\ kernel' = "return"
    /\ UNCHANGED <<task_id, queueVars, cpuVars, sliceVars, waitVars, familyVars>>

\* syscall_read of the empty keyboard through a descriptor with O_NONBLOCK.
ReadWouldBlock ==
    /\ ReadCall
    /\ buffer_count = 0
    /\ syscall_retry' = [syscall_retry EXCEPT ![task_current] = FALSE]
    /\ kernel' = "return"
    /\ UNCHANGED <<task_id, queueVars, cpuVars, sliceVars, waitVars, familyVars, buffer_count>>

\* syscall_read of the empty keyboard blocks, to be retried.
ReadBlocks ==
    /\ ReadCall
    /\ buffer_count = 0
    /\ BlockTask(task_current, "IO", Keyboard)
    /\ YieldCurrent
    /\ syscall_retry' = [syscall_retry EXCEPT ![task_current] = TRUE]
    /\ UNCHANGED <<task_id, cpuVars, task_time_slice, since_boost, familyVars, buffer_count>>

\* task_manager_find_task searches the tree of child lists from init: the least set of
\* tasks that holds init and the children of its members.
Reachable(t) ==
    \A S \in SUBSET Tasks :
        InitPid \in S /\ (\A u \in S : ToSet(children[u]) \subseteq S) => t \in S

KillCall(t) ==
    /\ NewSyscall
    /\ task_current # InitPid
    /\ Reachable(t)
    /\ task_state[t] # "ZOMBIE"

\* syscall_kill of a task that leaves the signal to its default, or whose stack cannot
\* take the handler's frame.
KillTerminates(t) ==
    /\ KillCall(t)
    /\ ExitTask(t)
    /\ IF t = task_current THEN YieldCurrent ELSE kernel' = "return" /\ UNCHANGED yield
    /\ UNCHANGED <<task_id, cpuVars, task_time_slice, since_boost, syscall_retry, waitVars,
                   buffer_count>>

\* syscall_kill of a task that handles the signal: a blocked one is woken, and
\* task_manager_deliver_signal clears its retry.  Init installs no handler.
KillHandled(t) ==
    /\ KillCall(t)
    /\ t # InitPid
    /\ IF task_state[t] = "BLOCKED" THEN UnblockTask(t) ELSE UNCHANGED queueVars
    /\ syscall_retry' = [syscall_retry EXCEPT ![t] = FALSE]
    /\ kernel' = "return"
    /\ UNCHANGED <<task_id, cpuVars, sliceVars, waitVars, familyVars, buffer_count>>

\* After a write through a wild pointer nothing is known of the kernel.
Undefined == kernel = "undefined" /\ UNCHANGED vars

-----------------------------------------------------------------------------
Waitpid(pid) == WaitpidReaps(pid) \/ WaitpidFails(pid) \/ WaitpidBlocks(pid)
Read         == ReadDelivers \/ ReadWouldBlock \/ ReadBlocks
Kill(t)      == KillTerminates(t) \/ KillHandled(t)

KernelStep == BoostStep \/ BoostEnd \/ Schedule \/ ReturnFromInterrupt \/ WakeStep \/ WakeEnd

Next ==
    \/ TimerIrq
    \/ KeyboardIrq
    \/ KernelStep
    \/ Fork
    \/ Exit
    \/ \E pid \in Tasks \cup {AnyChild} : Waitpid(pid)
    \/ Read
    \/ \E t \in Tasks : Kill(t)
    \/ Undefined

Spec == Init /\ [][Next]_vars

\* The current task executes the int 0x80 it was rewound to.
RetriedSyscall ==
    /\ Running /\ syscall_retry[task_current]
    /\ Read \/ \E pid \in Tasks \cup {AnyChild} : Waitpid(pid)

\* A handler runs to its end.  The interrupt controller latches the timer's request and
\* serves it before the keyboard's, so the timer is not overtaken for ever; nor is the
\* single instruction that retries a syscall.
Fairness == WF_vars(KernelStep) /\ SF_vars(TimerIrq) /\ SF_vars(RetriedSyscall)

FairSpec == Spec /\ Fairness

-----------------------------------------------------------------------------
(***************************************************************************)
(* Properties.                                                              *)
(***************************************************************************)

\* Every variable has its type.
TypeOK ==
    /\ task_id \in 2 .. MaxPid + 1
    /\ task_state \in [Tasks -> States]
    /\ task_queues \in [Queues -> Seq(Tasks)]
    /\ task_queue_level \in [Tasks -> Queues]
    /\ task_time_slice \in 0 .. SliceModulus - 1
    /\ task_current \in Tasks \cup {NoTask}
    /\ task_next \in Tasks
    /\ task_needs_switching \in BOOLEAN
    /\ since_boost \in 0 .. BoostInterval
    /\ yield \in BOOLEAN
    /\ syscall_retry \in [Tasks -> BOOLEAN]
    /\ wait_reason \in [Tasks -> {"NONE", "CHILD", "IO"}]
    /\ wait_object \in [Tasks -> Tasks \cup {NoTask, AnyChild, Keyboard}]
    /\ parent \in [Tasks -> Tasks \cup {NoTask}]
    /\ children \in [Tasks -> Seq(Tasks)]
    /\ children_tail \in [Tasks -> Tasks \cup {NoTask, Wild}]
    /\ previous \in [Tasks -> Tasks \cup {NoTask, Wild}]
    /\ buffer_count \in 0 .. KeyboardBufferSize
    /\ kernel \in {"user", "wake", "boost", "schedule", "return", "undefined"}

\* The queues a task in the given state may be in; running and freed tasks are in none.
QueuesFor(state) ==
    CASE state = "READY"   -> Ready
      [] state = "BLOCKED" -> {BlockedQueue}
      [] state = "ZOMBIE"  -> {ZombieQueue}
      [] OTHER -> {}

\* At every point of every handler a task is in exactly the queue its state calls for, once,
\* and task_queue_level names that queue: no sequence of preemption, boost, blocking, waking,
\* exit and reaping loses a task, queues it twice or leaves it in a stale queue, although
\* removal trusts task_queue_level and ignores a miss.
QueueDiscipline ==
    /\ \A q \in Queues : \A i, j \in DOMAIN task_queues[q] :
          task_queues[q][i] = task_queues[q][j] => i = j
    /\ \A q \in Queues : \A i \in DOMAIN task_queues[q] :
          LET t == task_queues[q][i] IN task_queue_level[t] = q /\ q \in QueuesFor(task_state[t])
    /\ \A t \in Tasks : QueuesFor(task_state[t]) # {} => Contains(task_queues[task_queue_level[t]], t)

\* Whenever user code runs, it is that of the one task in state RUNNING (beside idle): a
\* task that has blocked, exited or been killed never executes another instruction, because
\* every yield leads to a switch before the interrupt returns.
RunnerIsRunning ==
    kernel = "user" /\ task_current # NoTask =>
        /\ task_state[task_current] = "RUNNING"
        /\ \A t \in Tasks \ {IdlePid} : task_state[t] = "RUNNING" => t = task_current

\* The unsigned task_time_slice is never 0 when the next tick or yield decrements it, so it
\* never wraps to four billion ticks.
SliceNeverWraps == task_time_slice >= 1

\* No lost wake-up on the keyboard: while scancodes are buffered and a task runs, no task
\* is asleep in a keyboard read, whatever the order of reads, key presses and kills.
KeyboardWakesReaders ==
    kernel = "user" /\ buffer_count > 0 =>
        \A t \in Tasks : task_state[t] = "BLOCKED" => ~WaitsOnKeyboard(t)

\* A blocked task has its syscall to retry and an object whose owner will wake it: it waits
\* on the keyboard, or on a child in its list, and never on a child that is a zombie
\* already.  (Init is excepted: zombies handed to it by exit_task do not wake it.)
WaitersCanBeWoken ==
    \A t \in Tasks : task_state[t] = "BLOCKED" =>
        /\ syscall_retry[t]
        /\ WaitsOnKeyboard(t) \/ wait_reason[t] = "CHILD"
        /\ wait_reason[t] = "CHILD" /\ wait_object[t] # AnyChild => Contains(children[t], wait_object[t])
        /\ wait_reason[t] = "CHILD" /\ t # InitPid =>
              \A i \in DOMAIN children[t] :
                  wait_object[t] \in {AnyChild, children[t][i]} => task_state[children[t][i]] # "ZOMBIE"

Allocated(t) == task_state[t] # "FREE"

\* Nothing the kernel still follows points to a destroyed task: not the CPU, not a parent
\* field, not a child list (which holds only tasks whose parent is its owner).
NoDanglingTask ==
    /\ task_current # NoTask => Allocated(task_current)
    /\ Allocated(task_next)
    /\ \A t \in Tasks : Allocated(t) /\ parent[t] # NoTask => Allocated(parent[t])
    /\ \A p \in Tasks : \A i \in DOMAIN children[p] :
          Allocated(children[p][i]) /\ parent[children[p][i]] = p

\* The child list of every task but init is a well formed doubly linked list of all its
\* children, so that waitpid finds each of them and fork appends behind the last.
FamilyIsLinked ==
    \A p \in Tasks \ {InitPid} : Allocated(p) /\ task_state[p] # "ZOMBIE" =>
        /\ \A t \in Tasks : Allocated(t) /\ parent[t] = p => Contains(children[p], t)
        /\ \A i \in DOMAIN children[p] :
              previous[children[p][i]] = IF i = 1 THEN NoTask ELSE children[p][i - 1]
        /\ children_tail[p] = IF children[p] = <<>> THEN NoTask ELSE Last(children[p])

\* An action property: a task's id is used once, a zombie is only ever destroyed, a task
\* is destroyed only by its parent's waitpid, and only the scheduler starts a task.
Lifecycle ==
    \A t \in Tasks :
        /\ task_state[t] = "FREE" /\ task_state'[t] # "FREE" => t = task_id /\ task_state'[t] = "READY"
        /\ task_state[t] = "ZOMBIE" /\ task_state'[t] # "ZOMBIE" =>
              task_state'[t] = "FREE" /\ parent[t] = task_current
        /\ task_state[t] # "ZOMBIE" /\ task_state'[t] = "FREE" => task_state[t] = "FREE"
        /\ task_state[t] # "RUNNING" /\ task_state'[t] = "RUNNING" =>
              task_state[t] = "READY" /\ kernel = "schedule"
LifecycleRespected == [][Lifecycle]_vars

\* No starvation: a ready task is eventually switched to (or ends), whatever the tasks above
\* it do; the demotion of every preempted task and the periodic boost guarantee it.
ReadyTaskRuns ==
    \A t \in Tasks : task_state[t] = "READY" ~> task_state[t] # "READY" \/ kernel = "undefined"
=============================================================================
