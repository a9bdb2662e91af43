---------------------------- MODULE MCTaskManager ----------------------------
(***************************************************************************)
(* TaskManager on small instances.                                          *)
(***************************************************************************)
EXTENDS TaskManager

MCUninitialised == {NoTask, Wild}

\* What the kernel can still read: the wait fields count while a task is blocked or is to
\* retry its syscall, the family fields while the task exists.
LiveState ==
    LET Of(f, live(_)) == [t \in Tasks |-> IF live(t) THEN <<f[t]>> ELSE <<>>]
        Waits(t) == task_state[t] = "BLOCKED" \/ (syscall_retry[t] /\ task_state[t] \in {"READY", "RUNNING"})
    IN  <<task_id, task_state, task_queues, task_time_slice, cpuVars, since_boost, yield,
          Of(task_queue_level, Allocated), Of(syscall_retry, Allocated),
          Of(wait_reason, Waits), Of(wait_object, Waits), Of(parent, Allocated), children,
          Of(children_tail, Allocated), Of(previous, Allocated), buffer_count, kernel>>
=============================================================================
