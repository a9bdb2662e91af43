---------------------------- MODULE FamilyMemory ----------------------------
(***************************************************************************)
(* Families of tasks when the kernel heap runs out: fork, exit, kill and    *)
(* waitpid with allocations that fail.  Every list node and every task_t    *)
(* is one block of the heap; the rest of the kernel takes and gives back    *)
(* blocks at any time.  Queues, the CPU and the links inside a child list   *)
(* are in TaskManager, where allocation never fails.                        *)
(***************************************************************************)
EXTENDS Integers, Sequences, SequencesExt

CONSTANTS
    MaxPid,           \* bound: tasks 1 .. MaxPid; 1 is init and 2 the shell it forked
    Blocks            \* bound: blocks of the kernel heap that are still free at boot

VARIABLES
    task_id,          \* the id the next task gets
    task_state,
    wait_object,      \* of a task that waits for a child
    parent,
    children,         \* the child list
    queued,           \* the tasks in the zombie queue
    heap_free,        \* free blocks of the kernel heap
    elsewhere,        \* blocks the rest of the kernel holds
    halted            \* the kernel has followed a null or a stale pointer

vars == <<task_id, task_state, wait_object, parent, children, queued, heap_free, elsewhere, halted>>

Init0 == 1
Shell == 2
Tasks == 1 .. MaxPid
AnyChild == -1
NoTask == 0

Init ==
    /\ task_id = 3
    /\ task_state = [t \in Tasks |-> IF t \in {Init0, Shell} THEN "READY" ELSE "FREE"]
    /\ wait_object = [t \in Tasks |-> AnyChild]
    /\ parent = [t \in Tasks |-> IF t = Shell THEN Init0 ELSE NoTask]
    /\ children = [t \in Tasks |-> IF t = Init0 THEN <<Shell>> ELSE <<>>]
    /\ queued = {}
    /\ heap_free = Blocks
    /\ elsewhere = 0
    /\ halted = FALSE

Exists(t) == t \in Tasks /\ task_state[t] # "FREE"
Runs(t) == ~halted /\ task_state[t] = "READY"

\* Neither the task_t of calloc nor the node of malloc is tested before it is used.
syscall_fork(t) ==
    /\ Runs(t)
    /\ t # Init0
    /\ task_id <= MaxPid
    /\ IF heap_free < 2
       THEN /\ halted' = TRUE
            /\ UNCHANGED <<task_id, task_state, parent, children, heap_free>>
       ELSE /\ heap_free' = heap_free - 2
            /\ task_id' = task_id + 1
            /\ task_state' = [task_state EXCEPT ![task_id] = "READY"]
            /\ parent' = [parent EXCEPT ![task_id] = t]
            /\ children' = [children EXCEPT ![t] = Append(@, task_id)]
            /\ UNCHANGED halted
    /\ UNCHANGED <<wait_object, queued, elsewhere>>

\* One turn of the loop over the children: the new node, then the old one.
NodeMoved(free) == (free - 1) + 1

\* The loop: how many children init has got, and the free blocks left.  It stops
\* at the first allocation that fails.
Reparented(t) ==
    LET turns[i \in 0 .. Len(children[t])] ==
            IF i = 0 THEN [moved |-> 0, free |-> heap_free]
            ELSE IF turns[i - 1].moved < i - 1 \/ turns[i - 1].free = 0 THEN turns[i - 1]
            ELSE [moved |-> i, free |-> NodeMoved(turns[i - 1].free)]
    IN turns[Len(children[t])]

\* The parent waits for t, or for any child.
WakesParent(t) ==
    /\ task_state[parent[t]] = "BLOCKED"
    /\ wait_object[parent[t]] \in {t, AnyChild}

\* The child in hand has been given to init before its node is asked for.  When that
\* fails, the task is a zombie, but in no queue, and nobody is woken.  A parent that
\* is gone is memory that may hold anything: nothing is known of what follows.
task_manager_exit_task(t) ==
    LET list  == children[t]
        turns == Reparented(t)
        fails == turns.moved < Len(list)
        wakes == ~fails /\ WakesParent(t)
        adopted == {list[i] : i \in 1 .. turns.moved + (IF fails THEN 1 ELSE 0)}
    IN /\ task_state' = [u \in Tasks |-> IF u = t THEN "ZOMBIE"
                                         ELSE IF wakes /\ u = parent[t] THEN "READY"
                                         ELSE task_state[u]]
       /\ parent' = [u \in Tasks |-> IF u \in adopted THEN Init0 ELSE parent[u]]
       /\ children' = [children EXCEPT ![Init0] = Reverse(SubSeq(list, 1, turns.moved)) \o @,
                                       ![t] = IF fails THEN list ELSE <<>>]
       /\ heap_free' = turns.free
       /\ queued' = IF fails THEN queued ELSE queued \cup {t}
       /\ halted' = (~fails /\ ~Exists(parent[t]))
       /\ UNCHANGED <<task_id, wait_object, elsewhere>>

\* task_manager_find_task: along the child lists from init.
Reachable(t) ==
    \A S \in SUBSET Tasks :
        Init0 \in S /\ (\A u \in S : ToSet(children[u]) \subseteq S) => t \in S

\* syscall_exit, an exception, or syscall_kill with the default action.
End(t) ==
    /\ ~halted
    /\ t # Init0
    /\ task_state[t] = "READY" \/ (task_state[t] = "BLOCKED" /\ Reachable(t))
    /\ task_manager_exit_task(t)

\* syscall_kill of a blocked task that handles the signal.
Signal(t) ==
    /\ ~halted
    /\ t # Init0
    /\ task_state[t] = "BLOCKED" /\ Reachable(t)
    /\ task_state' = [task_state EXCEPT ![t] = "READY"]
    /\ UNCHANGED <<task_id, wait_object, parent, children, queued, heap_free, elsewhere, halted>>

Zombies(t, pid) == {i \in DOMAIN children[t] : /\ task_state[children[t][i]] = "ZOMBIE"
                                               /\ pid \in {AnyChild, children[t][i]}}

\* The child lists once z is out of its parent's.
task_manager_remove_child_from_task(z) ==
    [children EXCEPT ![parent[z]] = SelectSeq(@, LAMBDA u : u # z)]

task_manager_destroy_task(z) ==
    /\ children' = task_manager_remove_child_from_task(z)
    /\ queued' = queued \ {z}
    /\ task_state' = [task_state EXCEPT ![z] = "FREE"]
    /\ heap_free' = heap_free + 2

\* Init waits for any child, for ever.
syscall_waitpid(t, pid) ==
    /\ Runs(t)
    /\ t = Init0 => pid = AnyChild
    /\ \/ \E i \in Zombies(t, pid) :
             /\ \A j \in Zombies(t, pid) : i <= j
             /\ task_manager_destroy_task(children[t][i])
             /\ UNCHANGED wait_object
       \/ /\ Zombies(t, pid) = {}
          /\ pid = AnyChild \/ Contains(children[t], pid)
          /\ task_state' = [task_state EXCEPT ![t] = "BLOCKED"]
          /\ wait_object' = [wait_object EXCEPT ![t] = pid]
          /\ UNCHANGED <<children, queued, heap_free>>
    /\ UNCHANGED <<task_id, parent, elsewhere, halted>>

\* The rest of the kernel: files, resources, nodes of the VFS.
kernel_heap_malloc ==
    /\ ~halted
    /\ heap_free > 0
    /\ heap_free' = heap_free - 1
    /\ elsewhere' = elsewhere + 1
    /\ UNCHANGED <<task_id, task_state, wait_object, parent, children, queued, halted>>

kernel_heap_free ==
    /\ ~halted
    /\ elsewhere > 0
    /\ elsewhere' = elsewhere - 1
    /\ heap_free' = heap_free + 1
    /\ UNCHANGED <<task_id, task_state, wait_object, parent, children, queued, halted>>

Next ==
    \/ \E t \in Tasks : syscall_fork(t) \/ End(t) \/ Signal(t)
    \/ \E t \in Tasks, pid \in Tasks \cup {AnyChild} : syscall_waitpid(t, pid)
    \/ kernel_heap_malloc
    \/ kernel_heap_free

Spec == Init /\ [][Next]_vars

-----------------------------------------------------------------------------
(* Properties.                                                              *)

\* A task that waits for a child has no child that it waits for and that has
\* ended: every exit wakes its waiting parent (exit_task 383-393).  Init is left
\* out: it is not woken for the children it adopts when they have ended already.
WaitersAreWoken ==
    \A t \in Tasks \ {Init0} :
        task_state[t] = "BLOCKED" => Zombies(t, wait_object[t]) = {}

=============================================================================
