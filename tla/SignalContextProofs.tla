------------------------- MODULE SignalContextProofs -------------------------
(***************************************************************************)
(* The user context of a task is sound under every interleaving of system   *)
(* calls, switches, forks and signals, for handlers nested to any depth.    *)
(***************************************************************************)
EXTENDS SignalContext, TLAPS

\* Only a read is ever retried.
StoredIsRead == syscall_retry => syscall_execution = "read"

\* The only saved frame belongs to the innermost handler; an outer one has been told, and
\* so has one that came into the task with a fork.
HandlersKnow ==
    /\ frame.depth > 0 => in_signal_handler \/ frame.nested \/ frame.forked
    /\ saved_signal_frame.depth > 0 => saved_signal_frame.nested

\* Only a trampoline calls sigreturn, and it runs on the stack of a handler.
SigreturnInHandler ==
    /\ frame.call = "sigreturn" => frame.depth > 0
    /\ saved_signal_frame.call = "sigreturn" => saved_signal_frame.depth > 0

LoopsAreKnown ==
    /\ frame.at = "loop" => frame.depth > 0 /\ (frame.nested \/ frame.forked)
    /\ saved_signal_frame.at = "loop" => saved_signal_frame.depth > 0 /\ saved_signal_frame.nested

\* A call that is to be retried: the call in the frame is the read, and eip is behind the int
\* 0x80 until the switch moves it back, and on it from then on.
RetryIsRead ==
    syscall_retry =>
        /\ frame.call = "read"
        /\ task_state \in {"READY", "BLOCKED"} => frame.at = "after"
        /\ task_state = "RUNNING" => frame.at = "call"

\* BUSY stands in a frame only while the call is to be retried, or after a signal.
BusyIsKnown ==
    /\ frame.at = "after" /\ frame.eax = "busy" => syscall_retry \/ frame.interrupted
    /\ saved_signal_frame.at = "after" /\ saved_signal_frame.eax = "busy" =>
           saved_signal_frame.interrupted

\* What holds until a read is refused when it is retried, which leaves the flag set.
ContextInv ==
    /\ frame.at # "astray" /\ saved_signal_frame.at # "astray"
    /\ RetryIsRead
    /\ BusyIsKnown

\* The inductive invariant.
IInv ==
    /\ TypeOK
    /\ StoredIsRead
    /\ HandlersKnow
    /\ SigreturnInHandler
    /\ LoopsAreKnown
    /\ ~refused => ContextInv

-----------------------------------------------------------------------------
(* What the frames that the actions build contain.                          *)

LEMMA EntryFields ==
    /\ Entry \in Frames
    /\ Entry.at = "code" /\ Entry.call = "other" /\ Entry.depth = 0
  BY DepthAssumption DEF Entry, Frames, Places, Calls, Values

LEMMA AtCallFields ==
    ASSUME frame \in Frames, NEW c \in Calls
    PROVE  /\ AtCall(c) \in Frames
           /\ AtCall(c).at = "call" /\ AtCall(c).call = c /\ AtCall(c).eax = "number"
           /\ AtCall(c).depth = frame.depth /\ AtCall(c).nested = frame.nested
           /\ AtCall(c).forked = frame.forked
  BY DEF Frames, AtCall, Places, Values

LEMMA AnsweredFields ==
    ASSUME frame \in Frames, NEW v \in Values
    PROVE  /\ Answered(v) \in Frames
           /\ Answered(v).at = "after" /\ Answered(v).eax = v
           /\ Answered(v).call = frame.call /\ Answered(v).depth = frame.depth
           /\ Answered(v).nested = frame.nested /\ Answered(v).interrupted = frame.interrupted
           /\ Answered(v).forked = frame.forked
  BY DEF Frames, Answered, Places

\* The handler's frame, and the frame that is saved for it.
LEMMA DeliverFields ==
    ASSUME TypeOK, NEW f \in Frames, f.depth = frame.depth, DeliverSignal(f)
    PROVE  /\ HandlerEntry(f) \in Frames
           /\ HandlerEntry(f).at = "code" /\ HandlerEntry(f).call = f.call
           /\ HandlerEntry(f).depth > 0
           /\ saved_signal_frame' \in Frames
           /\ saved_signal_frame'.at = f.at /\ saved_signal_frame'.call = f.call
           /\ saved_signal_frame'.eax = f.eax /\ saved_signal_frame'.depth = f.depth
           /\ saved_signal_frame'.interrupted = (f.interrupted \/ syscall_retry)
           /\ saved_signal_frame'.nested = (f.nested \/ f.depth > 0)
           /\ in_signal_handler' = TRUE
           /\ saved_syscall_retry' = syscall_retry
           /\ syscall_retry' = FALSE
<1>1. frame.depth \in 0 .. MaxDepth /\ frame.depth < MaxDepth
  BY DEF TypeOK, Frames, DeliverSignal
<1>2. f.depth + 1 \in 0 .. MaxDepth
  BY <1>1, DepthAssumption
<1>3. /\ HandlerEntry(f) \in Frames
      /\ HandlerEntry(f).at = "code" /\ HandlerEntry(f).call = f.call
      /\ HandlerEntry(f).depth = f.depth + 1
  BY <1>2 DEF Frames, HandlerEntry, Places
<1>4. f.interrupted \in BOOLEAN /\ f.nested \in BOOLEAN /\ syscall_retry \in BOOLEAN
  BY DEF Frames, TypeOK
<1>5. (f.interrupted \/ syscall_retry) \in BOOLEAN /\ (f.nested \/ f.depth > 0) \in BOOLEAN
  OBVIOUS
<1>6. /\ saved_signal_frame' \in Frames
      /\ saved_signal_frame'.at = f.at /\ saved_signal_frame'.call = f.call
      /\ saved_signal_frame'.eax = f.eax /\ saved_signal_frame'.depth = f.depth
      /\ saved_signal_frame'.interrupted = (f.interrupted \/ syscall_retry)
      /\ saved_signal_frame'.nested = (f.nested \/ f.depth > 0)
  BY <1>4, <1>5 DEF Frames, DeliverSignal
<1>. QED
  BY <1>1, <1>3, <1>6 DEF DeliverSignal, HandlerMarked

-----------------------------------------------------------------------------
(* The program and its system calls.                                        *)

LEMMA InitIInv == Init => IInv
<1>. SUFFICES ASSUME Init PROVE IInv
  OBVIOUS
<1>1. frame \in Frames /\ saved_signal_frame = frame
  BY EntryFields DEF Init
<1>2. frame.at = "code" /\ frame.call = "other" /\ frame.depth = 0 /\ syscall_retry = FALSE
  BY EntryFields DEF Init
<1>3. TypeOK
  BY <1>1 DEF Init, TypeOK, Calls
<1>. QED
  BY <1>1, <1>2, <1>3 DEF IInv, StoredIsRead, ContextInv, RetryIsRead, BusyIsKnown, HandlersKnow, SigreturnInHandler,
     LoopsAreKnown

LEMMA ProceedIInv == ASSUME IInv, Proceed PROVE IInv'
<1>1. CASE frame' = [frame EXCEPT !.at = "code", !.eax = "none"]
  <2>1. /\ frame' \in Frames /\ frame'.at = "code"
        /\ frame'.call = frame.call /\ frame'.depth = frame.depth /\ frame'.nested = frame.nested
        /\ frame'.forked = frame.forked
    BY <1>1 DEF IInv, TypeOK, Frames, Places, Values
  <2>. QED
    BY <2>1 DEF IInv, Proceed, Running, kernelVars, TypeOK, StoredIsRead, ContextInv, RetryIsRead, BusyIsKnown,
       HandlersKnow, SigreturnInHandler, LoopsAreKnown
<1>2. ASSUME NEW c \in Calls \ {"sigreturn"}, frame' = AtCall(c) PROVE IInv'
  <2>. QED
    BY <1>2, AtCallFields DEF IInv, Proceed, Running, kernelVars, TypeOK, StoredIsRead, ContextInv, RetryIsRead,
       BusyIsKnown, HandlersKnow, SigreturnInHandler, LoopsAreKnown
<1>. QED
  BY <1>1, <1>2 DEF Proceed

LEMMA ReturnFromHandlerIInv == ASSUME IInv, ReturnFromHandler PROVE IInv'
<1>1. "sigreturn" \in Calls
  BY DEF Calls
<1>. QED
  BY <1>1, AtCallFields DEF IInv, ReturnFromHandler, Running, kernelVars, TypeOK, StoredIsRead, ContextInv, RetryIsRead,
     BusyIsKnown, HandlersKnow, SigreturnInHandler, LoopsAreKnown

\* Only the read that blocked is retried, so every call is the one in the frame.
LEMMA CurrentCallIsRequested ==
    ASSUME IInv, Running, ~refused \/ CurrentCall # "read"
    PROVE  CurrentCall = frame.call
  BY DEF IInv, ContextInv, RetryIsRead, StoredIsRead, Running, CurrentCall

\* A call other than a read is executed only if none is to be retried.
LEMMA OthersAreNoRetry ==
    ASSUME IInv, NEW call \in Calls \ {"read"}, Int80(call)
    PROVE  frame.call = call /\ syscall_retry = FALSE
  BY DEF IInv, TypeOK, StoredIsRead, Int80, CurrentCall

LEMMA AnsweringIInv ==
    ASSUME IInv, NEW call \in Calls, Int80(call), NEW v \in Values, frame' = Answered(v),
           UNCHANGED <<saved_signal_frame, in_signal_handler, saved_syscall_retry, readable>>,
           \/ task_state' = task_state /\ v # "busy" /\ syscall_retry' = FALSE
           \/ task_state' = "BLOCKED" /\ syscall_retry' = TRUE /\ call = "read"
           \/ task_state' = task_state /\ syscall_retry' = syscall_retry /\ syscall_retry /\ refused',
           refused' \in BOOLEAN, refused => refused'
    PROVE  IInv'
<1>. USE DEF Int80, Running
<1>1. TypeOK'
  BY AnsweredFields DEF IInv, TypeOK
<1>2. StoredIsRead'
  BY DEF IInv, StoredIsRead, CurrentCall
<1>3. HandlersKnow' /\ SigreturnInHandler' /\ LoopsAreKnown'
  BY AnsweredFields DEF IInv, TypeOK, HandlersKnow, SigreturnInHandler, LoopsAreKnown
<1>4. ASSUME ~refused' PROVE ContextInv'
  <2>1. ~refused /\ ContextInv /\ frame \in Frames
    BY <1>4 DEF IInv, TypeOK
  <2>2. call = frame.call
    BY <2>1, CurrentCallIsRequested
  <2>. QED
    BY <1>4, <2>1, <2>2, AnsweredFields DEF ContextInv, RetryIsRead, BusyIsKnown
<1>. QED
  BY <1>1, <1>2, <1>3, <1>4 DEF IInv

LEMMA ReadIInv == ASSUME IInv, ReadDelivers \/ ReadBlocks \/ ReadRejected PROVE IInv'
<1>1. "read" \in Calls /\ {"done", "busy", "bad"} \subseteq Values
  BY DEF Calls, Values
<1>2. refused \in BOOLEAN /\ syscall_retry \in BOOLEAN
  BY DEF IInv, TypeOK
<1>3. CASE ReadDelivers
  BY <1>1, <1>2, <1>3, AnsweringIInv DEF ReadDelivers, RetryDone
<1>4. CASE ReadBlocks
  BY <1>1, <1>2, <1>4, AnsweringIInv DEF ReadBlocks, RetrySet
<1>5. CASE ReadRejected
  BY <1>1, <1>2, <1>5, AnsweringIInv DEF ReadRejected
<1>. QED
  BY <1>3, <1>4, <1>5

LEMMA OtherCallIInv == ASSUME IInv, OtherCall PROVE IInv'
<1>1. PICK call \in {"other", "fork", "execve"} : Int80(call)
  BY DEF OtherCall
<1>2. call \in Calls \ {"read"} /\ "done" \in Values /\ refused \in BOOLEAN
  BY DEF Calls, Values, IInv, TypeOK
<1>3. syscall_retry = FALSE
  BY <1>1, <1>2, OthersAreNoRetry
<1>. QED
  BY <1>1, <1>2, <1>3, AnsweringIInv DEF OtherCall

\* A program that starts is in no handler.
LEMMA ExecveIInv == ASSUME IInv, Execve PROVE IInv'
<1>1. "execve" \in Calls \ {"read"}
  BY DEF Calls
<1>2. syscall_retry = FALSE /\ syscall_retry' = FALSE
  BY <1>1, OthersAreNoRetry DEF Execve
<1>3. frame' \in Frames /\ frame'.at = "code" /\ frame'.call = "other" /\ frame'.depth = 0
  <2>1. frame.eax \in Values
    BY DEF IInv, TypeOK, Frames
  <2>. QED
    BY <2>1, EntryFields DEF Execve, Entry, Frames
<1>. QED
  BY <1>1, <1>2, <1>3 DEF Execve, Int80, Running, IInv, TypeOK, StoredIsRead, HandlersKnow,
     SigreturnInHandler, LoopsAreKnown, ContextInv, RetryIsRead, BusyIsKnown

\* The child is inside the handler of its parent, which it will not be able to leave.
LEMMA ForkedChildIInv == ASSUME IInv, ForkedChild PROVE IInv'
<1>1. CurrentCall = frame.call /\ frame.call = "fork"
  BY CurrentCallIsRequested DEF ForkedChild
<1>2. /\ frame' \in Frames /\ frame'.at = "after" /\ frame'.eax = "done" /\ frame'.call = "fork"
      /\ frame'.depth = frame.depth /\ (frame'.depth > 0 => frame'.forked)
  <2> DEFINE f == Answered("done")
             inside == frame.depth > 0
  <2>1. "done" \in Values /\ frame \in Frames
    BY DEF Values, IInv, TypeOK
  <2>2. /\ f \in Frames /\ f.at = "after" /\ f.eax = "done" /\ f.call = "fork"
        /\ f.depth = frame.depth
    BY <1>1, <2>1, AnsweredFields
  <2>3. frame' = [f EXCEPT !.forked = inside] /\ inside \in BOOLEAN
    BY DEF ForkedChild
  <2> HIDE DEF f, inside
  <2>4. /\ frame' \in Frames /\ frame'.at = f.at /\ frame'.eax = f.eax /\ frame'.call = f.call
        /\ frame'.depth = f.depth /\ frame'.forked = inside
    BY <2>2, <2>3 DEF Frames
  <2>. QED
    BY <2>2, <2>4 DEF inside
<1>3. saved_signal_frame' \in Frames /\ saved_signal_frame'.at = "code"
      /\ saved_signal_frame'.call = "other" /\ saved_signal_frame'.depth = 0
  BY EntryFields DEF ForkedChild
<1>4. TypeOK'
  BY <1>2, <1>3 DEF ForkedChild, IInv, TypeOK, Calls
<1>5. StoredIsRead' /\ HandlersKnow' /\ SigreturnInHandler' /\ LoopsAreKnown'
  BY <1>2, <1>3 DEF ForkedChild, StoredIsRead, HandlersKnow, SigreturnInHandler, LoopsAreKnown
<1>6. ContextInv'
  BY <1>2, <1>3 DEF ForkedChild, ContextInv, RetryIsRead, BusyIsKnown
<1>. QED
  BY <1>4, <1>5, <1>6 DEF IInv

\* A signal is delivered into the frame f, which is kept for sigreturn.
LEMMA DeliverIInv ==
    ASSUME IInv, NEW f \in Frames, f.depth = frame.depth, DeliverSignal(f),
           ~refused => f.at # "astray",
           f.at = "loop" => f.depth > 0,
           f.at = "after" /\ f.eax = "busy" /\ ~refused => syscall_retry \/ f.interrupted,
           f.call = "sigreturn" => f.depth > 0,
           frame' \in Frames, frame'.at = "code", frame'.depth > 0,
           task_state' \in {"READY", "RUNNING"}, syscall_execution' \in Calls,
           UNCHANGED <<readable, refused>>
    PROVE  IInv'
<1>1. TypeOK'
  BY DeliverFields DEF IInv, TypeOK
<1>2. StoredIsRead' /\ SigreturnInHandler' /\ HandlersKnow'
  BY DeliverFields DEF IInv, StoredIsRead, SigreturnInHandler, HandlersKnow
<1>3. LoopsAreKnown'
  BY DeliverFields DEF IInv, LoopsAreKnown
<1>4. ~refused' => ContextInv'
  BY DeliverFields DEF IInv, ContextInv, RetryIsRead, BusyIsKnown
<1>. QED
  BY <1>1, <1>2, <1>3, <1>4 DEF IInv

LEMMA KillSelfIInv == ASSUME IInv, KillSelf PROVE IInv'
<1>1. frame \in Frames /\ "number" \in Values /\ "done" \in Values
  BY DEF IInv, TypeOK, Values
<1>2. frame.call = "kill"
  BY OthersAreNoRetry DEF KillSelf, Calls
<1>3. frame.depth < MaxDepth /\ frame.depth \in 0 .. MaxDepth
  BY <1>1 DEF KillSelf, DeliverSignal, Frames
<1>4. frame.depth + 1 \in 0 .. MaxDepth
  BY <1>3, DepthAssumption
<1>5. frame' \in Frames /\ frame'.at = "code" /\ frame'.depth = frame.depth + 1
  BY <1>1, <1>4 DEF KillSelf, HandlerEntry, Frames, Places
<1>6. task_state' = "RUNNING" /\ syscall_execution' \in Calls /\ UNCHANGED <<readable, refused>>
  BY DEF KillSelf, Int80, Running, Calls
<1>. QED
  BY <1>1, <1>2, <1>3, <1>5, <1>6, AnsweredFields, DeliverIInv DEF KillSelf, IInv

LEMMA SigreturnIInv == ASSUME IInv, Sigreturn PROVE IInv'
<1>1. frame.call = "sigreturn" /\ syscall_retry = FALSE /\ syscall_retry' = FALSE
  BY OthersAreNoRetry DEF Sigreturn, Calls
<1>2. CASE in_signal_handler
  BY <1>1, <1>2 DEF Sigreturn, Int80, Running, IInv, TypeOK, StoredIsRead, ContextInv, RetryIsRead,
     BusyIsKnown, HandlersKnow, SigreturnInHandler, LoopsAreKnown, Calls
<1>3. CASE ~in_signal_handler
  \* An outer handler, whose frame an inner one has taken, or one that was forked: it knows.
  <2>1. frame.nested \/ frame.forked
    BY <1>1, <1>3 DEF IInv, SigreturnInHandler, HandlersKnow
  <2>2. frame' = [frame EXCEPT !.at = "loop"]
    BY <1>3 DEF Sigreturn
  <2>3. /\ frame' \in Frames /\ frame'.at = "loop"
        /\ frame'.call = frame.call /\ frame'.depth = frame.depth /\ frame'.nested = frame.nested
        /\ frame'.forked = frame.forked
    BY <2>2 DEF IInv, TypeOK, Frames, Places
  <2>. QED
    BY <1>1, <1>3, <2>1, <2>3 DEF Sigreturn, Int80, Running, IInv, TypeOK, StoredIsRead, ContextInv,
       RetryIsRead, BusyIsKnown, HandlersKnow, SigreturnInHandler, LoopsAreKnown, Calls
<1>. QED
  BY <1>2, <1>3

LEMMA SyscallIInv == ASSUME IInv, Syscall PROVE IInv'
  BY ReadIInv, OtherCallIInv, ExecveIInv, KillSelfIInv, SigreturnIInv DEF Syscall

-----------------------------------------------------------------------------
(* Signals from elsewhere, and the rest of the system.                      *)

LEMMA FaultIInv == ASSUME IInv, Fault PROVE IInv'
<1>1. frame \in Frames
  BY DEF IInv, TypeOK
<1>2. task_state' = "RUNNING" /\ syscall_execution' \in Calls /\ UNCHANGED <<readable, refused>>
  BY DEF Fault, Running, IInv, TypeOK
<1>. QED
  BY <1>1, <1>2, DeliverFields, DeliverIInv
     DEF Fault, IInv, SigreturnInHandler, LoopsAreKnown, ContextInv, BusyIsKnown

LEMMA KilledByOtherIInv == ASSUME IInv, KilledByOther PROVE IInv'
<1>1. frame \in Frames
  BY DEF IInv, TypeOK
<1>2. task_state' = "READY" /\ syscall_execution' \in Calls /\ UNCHANGED <<readable, refused>>
  BY DEF KilledByOther, IInv, TypeOK
<1>. QED
  BY <1>1, <1>2, DeliverFields, DeliverIInv
     DEF KilledByOther, IInv, SigreturnInHandler, LoopsAreKnown, ContextInv, BusyIsKnown

LEMMA SwitchInIInv == ASSUME IInv, SwitchIn PROVE IInv'
<1>1. CASE syscall_retry
  <2>1. PICK at \in {"call", "astray"} : /\ frame' = [frame EXCEPT !.at = at]
                                         /\ ~refused => frame.at = "after" /\ at = "call"
    <3>1. frame' = [frame EXCEPT !.at = IF frame.at = "after" THEN "call" ELSE "astray"]
      BY <1>1 DEF SwitchIn
    <3>2. ~refused => frame.at = "after"
      BY <1>1 DEF IInv, ContextInv, RetryIsRead, SwitchIn
    <3>. QED
      BY <3>1, <3>2
  <2>2. /\ frame' \in Frames /\ frame'.at = at
        /\ frame'.call = frame.call /\ frame'.depth = frame.depth /\ frame'.eax = frame.eax
        /\ frame'.nested = frame.nested /\ frame'.forked = frame.forked
    BY <2>1 DEF IInv, TypeOK, Frames, Places
  <2>. QED
    BY <1>1, <2>1, <2>2 DEF SwitchIn, kernelVars, IInv, TypeOK, StoredIsRead, ContextInv,
       RetryIsRead, BusyIsKnown, HandlersKnow, SigreturnInHandler, LoopsAreKnown
<1>2. CASE ~syscall_retry
  BY <1>2 DEF SwitchIn, kernelVars, IInv, TypeOK, StoredIsRead, ContextInv, RetryIsRead,
     BusyIsKnown, HandlersKnow, SigreturnInHandler, LoopsAreKnown
<1>. QED
  BY <1>1, <1>2

LEMMA EnvironmentIInv ==
    ASSUME IInv, Preempt \/ Wake \/ Killed \/ SetFlags \/ UNCHANGED vars
    PROVE  IInv'
<1>. USE DEF IInv, TypeOK, StoredIsRead, ContextInv, RetryIsRead, BusyIsKnown, HandlersKnow, SigreturnInHandler,
         LoopsAreKnown, kernelVars, Running
<1>1. CASE Preempt
  BY <1>1 DEF Preempt
<1>2. CASE Wake
  BY <1>2 DEF Wake
<1>3. CASE Killed
  BY <1>3 DEF Killed
<1>4. CASE SetFlags
  BY <1>4 DEF SetFlags
<1>5. CASE UNCHANGED vars
  BY <1>5 DEF vars
<1>. QED
  BY <1>1, <1>2, <1>3, <1>4, <1>5

LEMMA NextIInv == ASSUME IInv, [Next]_vars PROVE IInv'
  BY ProceedIInv, ReturnFromHandlerIInv, SyscallIInv, ForkedChildIInv, FaultIInv, KilledByOtherIInv, SwitchInIInv,
     EnvironmentIInv DEF Next

LEMMA Invariance == Spec => []IInv
<1>1. Init => IInv
  BY InitIInv
<1>2. IInv /\ [Next]_vars => IInv'
  BY NextIInv
<1>. QED
  BY <1>1, <1>2, PTL DEF Spec

-----------------------------------------------------------------------------
(* The theorems.                                                            *)

\* task_switch.s moves eip back only onto the int 0x80 that blocked, whatever blocking,
\* waking, preemption, forks and signals to any depth come between, unless a retried read
\* was refused.
THEOREM EipNeverGoesAstray == Spec => []RewindsOnlyToSyscall
<1>1. IInv => RewindsOnlyToSyscall
  BY DEF IInv, ContextInv, RewindsOnlyToSyscall
<1>. QED
  BY <1>1, Invariance, PTL

\* A program sees the answer BUSY of a blocked call only when a signal came into it.
THEOREM BusyNeedsSignal == Spec => []BusyOnlyAfterSignal
<1>1. IInv => BusyOnlyAfterSignal
  BY DEF IInv, ContextInv, BusyOnlyAfterSignal, BusyIsKnown, RetryIsRead, Running
<1>. QED
  BY <1>1, Invariance, PTL

\* The trampoline of a handler reaches its jmp $ only when a signal came inside that
\* handler or the task was forked inside it: otherwise sigreturn always finds the frame
\* that was saved for it.
THEOREM LoopNeedsNestingOrFork == Spec => []LoopsOnlyAfterNestingOrFork
<1>1. IInv => LoopsOnlyAfterNestingOrFork
  BY DEF IInv, LoopsOnlyAfterNestingOrFork, LoopsAreKnown
<1>. QED
  BY <1>1, Invariance, PTL

\* Every int 0x80 executes the call that the program put into eax: the stored call of
\* syscall_handler is only ever the one that is being retried, until a retry is refused.
THEOREM CallsAreThoseRequested == Spec => ExecutesRequestedCall
<1>1. IInv /\ [Next]_vars => [Syscall /\ ~refused => syscall_execution' = frame.call]_vars
  <2>1. ASSUME IInv, Syscall, ~refused PROVE syscall_execution' = frame.call
    <3>1. Running /\ syscall_execution' = CurrentCall
      BY <2>1 DEF Syscall, ReadDelivers, ReadBlocks, ReadRejected, OtherCall, Execve, KillSelf,
         Sigreturn, Int80
    <3>. QED
      BY <2>1, <3>1, CurrentCallIsRequested
  <2>. QED
    BY <2>1
<1>. QED
  BY <1>1, Invariance, PTL DEF Spec, ExecutesRequestedCall

=============================================================================
