----------------------------- MODULE SignalContext -----------------------------
(***************************************************************************)
(* The user context of one task: where its next instruction is, and what    *)
(* the kernel does to it when the task makes a system call, is switched     *)
(* out and in (src/task_switch.s), or gets a signal that it handles         *)
(* (task_manager_deliver_signal and syscall_sigreturn).  The rest of the    *)
(* system - the tasks that signal it, share its descriptors or preempt it - *)
(* is the environment.  After a fork the model follows the parent or the    *)
(* child.                                                                   *)
(*                                                                         *)
(* A frame is the user part of register_interrupt_data_t.  Its eip is kept  *)
(* as the kind of instruction it points to:                                 *)
(*   "code"    some instruction that is not int 0x80,                       *)
(*   "call"    an int 0x80; "call" in the frame says which one,             *)
(*   "after"   the instruction after that int 0x80,                         *)
(*   "astray"  two bytes before an instruction that is not "after",         *)
(*   "loop"    the jmp $ at the end of the signal trampoline.               *)
(* depth counts the handlers that the stack at useresp is inside of; eax is *)
(* the number of the call before int 0x80 and its answer after it.  The     *)
(* fields "interrupted", "nested" and "forked" and the variable "refused"   *)
(* are no part of the program: they record, for the properties, that a      *)
(* signal came before the call behind "after" was done, that one came       *)
(* inside the handler of this frame, that the task was forked inside it,    *)
(* and that a read was refused when it was retried.                         *)
(***************************************************************************)
EXTENDS Integers

CONSTANT MaxDepth     \* bound on nested handlers

ASSUME DepthAssumption == MaxDepth \in Nat

VARIABLES
    task_state,
    frame,                \* in the registers, or on the kernel stack when switched out
    syscall_retry,
    syscall_execution,    \* the stored call
    saved_signal_frame,
    in_signal_handler,
    saved_syscall_retry,
    readable,             \* the descriptor's access mode allows reading
    refused               \* history: a retried read was refused and its flag left set

kernelVars == <<syscall_retry, syscall_execution, saved_signal_frame, in_signal_handler,
                saved_syscall_retry>>
vars == <<task_state, frame, kernelVars, readable, refused>>

Calls  == {"read", "other", "kill", "fork", "execve", "sigreturn"}
Places == {"code", "call", "after", "astray", "loop"}
Values == {"number", "done", "busy", "bad", "none"}
Frames == [depth : 0 .. MaxDepth, at : Places, call : Calls, eax : Values, interrupted : BOOLEAN,
           nested : BOOLEAN, forked : BOOLEAN]

\* The frame of a program that starts.
Entry == [depth |-> 0, at |-> "code", call |-> "other", eax |-> "none", interrupted |-> FALSE,
          nested |-> FALSE, forked |-> FALSE]

Init ==
    /\ task_state = "READY"
    /\ frame = Entry
    /\ syscall_retry = FALSE
    /\ syscall_execution = "other"
    /\ saved_signal_frame = Entry
    /\ in_signal_handler = FALSE
    /\ saved_syscall_retry = FALSE
    /\ readable \in BOOLEAN
    /\ refused = FALSE

-----------------------------------------------------------------------------
(***************************************************************************)
(* The program.                                                             *)
(***************************************************************************)
Running == task_state = "RUNNING"

AtCall(c) == [frame EXCEPT !.at = "call", !.call = c, !.eax = "number", !.interrupted = FALSE]

\* The program goes on to an instruction of its own, or to a system call.
Proceed ==
    /\ Running
    /\ frame.at \in {"code", "after"}
    /\ \/ frame' = [frame EXCEPT !.at = "code", !.eax = "none"]
       \/ \E c \in Calls \ {"sigreturn"} : frame' = AtCall(c)
    /\ UNCHANGED <<task_state, kernelVars, readable, refused>>

\* The handler returns to the trampoline on the stack, which calls sigreturn.
ReturnFromHandler ==
    /\ Running
    /\ frame.at \in {"code", "after"} /\ frame.depth > 0
    /\ frame' = AtCall("sigreturn")
    /\ UNCHANGED <<task_state, kernelVars, readable, refused>>

-----------------------------------------------------------------------------
(***************************************************************************)
(* syscall_handler: the call in the registers, or the stored one.           *)
(***************************************************************************)
CurrentCall == IF syscall_retry THEN syscall_execution ELSE frame.call

Int80(call) ==
    /\ Running
    /\ frame.at = "call"
    /\ CurrentCall = call
    /\ syscall_execution' = call

\* The frame behind the int 0x80, with the answer in eax.
Answered(value) == [frame EXCEPT !.at = "after", !.eax = value]

RetryKept(retry) == retry  \* mutant: the flag survives the call it was set for

\* A call that is done clears the flag.
RetryDone(retry) == FALSE

\* syscall_read, data available.
ReadDelivers ==
    /\ Int80("read") /\ readable
    /\ frame' = Answered("done")
    /\ syscall_retry' = RetryDone(syscall_retry)
    /\ UNCHANGED <<task_state, saved_signal_frame, in_signal_handler, saved_syscall_retry, readable, refused>>

RetryForgotten == FALSE  \* mutant: the task blocks without its retry

\* A call that blocks sets the flag.
RetrySet == TRUE

\* syscall_read, no data: block, yield, retry later; the frame holds the result BUSY.
ReadBlocks ==
    /\ Int80("read") /\ readable
    /\ task_state' = "BLOCKED"
    /\ frame' = Answered("busy")
    /\ syscall_retry' = RetrySet
    /\ UNCHANGED <<saved_signal_frame, in_signal_handler, saved_syscall_retry, readable, refused>>

\* syscall_read rejects the descriptor before it comes to the flag.
ReadRejected ==
    /\ Int80("read") /\ ~readable
    /\ frame' = Answered("bad")
    /\ refused' = (refused \/ syscall_retry)
    /\ UNCHANGED <<task_state, syscall_retry, saved_signal_frame, in_signal_handler,
                   saved_syscall_retry, readable>>

\* A system call that never blocks and touches no context.  fork is one for the parent, and
\* execve when it fails.
OtherCall ==
    /\ \E call \in {"other", "fork", "execve"} : Int80(call)
    /\ frame' = Answered("done")
    /\ UNCHANGED <<task_state, syscall_retry, saved_signal_frame, in_signal_handler,
                   saved_syscall_retry, readable, refused>>

\* The interrupted frame with the handler's eip and stack.
HandlerEntry(f) == [f EXCEPT !.depth = @ + 1, !.at = "code", !.interrupted = FALSE,
                             !.nested = FALSE, !.forked = FALSE]

HandlerUnmarked == FALSE  \* mutant

\* The task is inside a handler.
HandlerMarked == TRUE

\* task_manager_deliver_signal on the interrupted frame f, which has room for the handler.
DeliverSignal(f) ==
    /\ frame.depth < MaxDepth
    /\ saved_signal_frame' = [f EXCEPT !.interrupted = @ \/ syscall_retry,
                                       !.nested = @ \/ f.depth > 0]
    /\ in_signal_handler' = HandlerMarked
    /\ saved_syscall_retry' = syscall_retry
    /\ syscall_retry' = FALSE

\* syscall_kill of the task itself: the frame is saved before the answer gets into eax, which
\* syscall_handler then puts into the handler's frame.
KillSelf ==
    /\ Int80("kill")
    /\ DeliverSignal(Answered("number"))
    /\ frame' = [HandlerEntry(frame) EXCEPT !.eax = "done"]
    /\ UNCHANGED <<task_state, readable, refused>>

\* syscall_sigreturn: back to the saved frame - or on to jmp $.
Sigreturn ==
    /\ Int80("sigreturn")
    /\ frame' = IF in_signal_handler THEN saved_signal_frame ELSE [frame EXCEPT !.at = "loop"]
    /\ in_signal_handler' = FALSE
    /\ UNCHANGED <<task_state, syscall_retry, saved_signal_frame, saved_syscall_retry, readable, refused>>

\* syscall_execve succeeds: the program starts anew on a stack of its own.  The flag and the
\* saved frame stay, but no handler does that could return to it.
Execve ==
    /\ Int80("execve")
    /\ frame' = [Entry EXCEPT !.eax = frame.eax]
    /\ UNCHANGED <<task_state, syscall_retry, saved_signal_frame, in_signal_handler,
                   saved_syscall_retry, readable, refused>>

Syscall ==
    ReadDelivers \/ ReadBlocks \/ ReadRejected \/ OtherCall \/ Execve \/ KillSelf \/ Sigreturn

\* task_manager_task_copy, seen by the child: the frame is the parent's, with 0 for an answer,
\* and of the handler the parent is in nothing is copied; all else is zero.
ForkedChild ==
    /\ Running /\ frame.at = "call" /\ CurrentCall = "fork"
    /\ task_state' = "READY"
    /\ frame' = [Answered("done") EXCEPT !.forked = frame.depth > 0]
    /\ syscall_retry' = FALSE
    /\ syscall_execution' = "other"
    /\ saved_signal_frame' = Entry
    /\ in_signal_handler' = FALSE
    /\ saved_syscall_retry' = FALSE
    /\ UNCHANGED <<readable, refused>>

\* isr_handler: an exception the task handles.
Fault ==
    /\ Running
    /\ frame.at = "code"
    /\ DeliverSignal(frame)
    /\ frame' = HandlerEntry(frame)
    /\ UNCHANGED <<task_state, syscall_execution, readable, refused>>

-----------------------------------------------------------------------------
(***************************************************************************)
(* The rest of the system.                                                  *)
(***************************************************************************)

\* The timer preempts the task.  A fresh time slice outlasts the one instruction that a
\* task executes to retry its call.
Preempt ==
    /\ Running
    /\ ~(syscall_retry /\ frame.at = "call")
    /\ task_state' = "READY"
    /\ UNCHANGED <<frame, kernelVars, readable, refused>>

\* task_manager_task_switch: eip is moved back over int 0x80 when the call is to be retried.
SwitchIn ==
    /\ task_state = "READY"
    /\ task_state' = "RUNNING"
    /\ frame' = IF syscall_retry
                THEN [frame EXCEPT !.at = IF @ = "after" THEN "call" ELSE "astray"]
                ELSE frame
    /\ UNCHANGED <<kernelVars, readable, refused>>

\* task_manager_wake_blocked_on.
Wake ==
    /\ task_state = "BLOCKED"
    /\ task_state' = "READY"
    /\ UNCHANGED <<frame, kernelVars, readable, refused>>

\* syscall_kill by another task: unblock, then deliver into the saved frame.
KilledByOther ==
    /\ task_state \in {"READY", "BLOCKED"}
    /\ task_state' = "READY"
    /\ DeliverSignal(frame)
    /\ frame' = HandlerEntry(frame)
    /\ UNCHANGED <<syscall_execution, readable, refused>>

\* Another task kills it, or the stack has no room for the handler's frame.
Killed ==
    /\ task_state \in {"READY", "BLOCKED", "RUNNING"}
    /\ task_state' = "ZOMBIE"
    /\ UNCHANGED <<frame, kernelVars, readable, refused>>

\* syscall_fcntl(F_SETFL) by a task that shares the descriptor.
SetFlags ==
    /\ ~Running
    /\ readable' \in BOOLEAN
    /\ UNCHANGED <<task_state, frame, kernelVars, refused>>

Next ==
    \/ Proceed \/ ReturnFromHandler \/ Syscall \/ ForkedChild \/ Fault
    \/ Preempt \/ SwitchIn \/ Wake \/ KilledByOther \/ Killed \/ SetFlags

Spec == Init /\ [][Next]_vars

-----------------------------------------------------------------------------
\* Every variable has its type.
TypeOK ==
    /\ task_state \in {"READY", "RUNNING", "BLOCKED", "ZOMBIE"}
    /\ frame \in Frames
    /\ syscall_retry \in BOOLEAN
    /\ syscall_execution \in Calls
    /\ saved_signal_frame \in Frames
    /\ in_signal_handler \in BOOLEAN
    /\ saved_syscall_retry \in BOOLEAN
    /\ {readable, refused} \subseteq BOOLEAN

\* The context switch moves eip back only onto the int 0x80 that blocked, and only once:
\* no interleaving of blocking, waking, preemption and signals makes a task execute the
\* bytes before some other instruction.  The one exception is a read that is refused when it
\* is retried, because another task has changed the flags of the descriptor they share.
RewindsOnlyToSyscall == TypeOK /\ (frame.at = "astray" => refused)

\* Each int 0x80 executes the call the program asked for, never a stored one that has
\* been answered already (nor does a trampoline's sigreturn turn into it), unless a read
\* was refused when it was retried.
ExecutesRequestedCall == [][Syscall /\ ~refused => syscall_execution' = frame.call]_vars

\* A program that continues behind a call it made sees BUSY only if a signal interrupted
\* that call: without signals every blocked call is retried until it is answered.  (Once a
\* retried read was refused, a stored call may be executed in the place of another.)
BusyOnlyAfterSignal ==
    Running /\ frame.at = "after" /\ frame.eax = "busy" /\ ~refused => frame.interrupted

\* The trampoline of a handler loops only when another signal came inside that handler or
\* the task was forked inside it: otherwise it always resumes the code it interrupted,
\* whatever calls, switches and retries came between.
LoopsOnlyAfterNestingOrFork == frame.at = "loop" => frame.nested \/ frame.forked

\* "jmp $ never reached" (src/task_manager.c:542): sigreturn always finds a frame to return
\* to, so that a handler that returns resumes the code it interrupted.
TrampolineNeverLoops == frame.at # "loop"
=============================================================================
