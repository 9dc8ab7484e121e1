------------------------------- MODULE Kernel -------------------------------
(***************************************************************************)
(* The kernel's cooperative multitasking on one CPU: the executor of      *)
(* task/executor.rs (run, run_ready_tasks, sleep_if_idle, TaskWaker), the  *)
(* interrupt-fed streams of buffer/keyboard.rs, timer/cursor.rs and       *)
(* timer/sleep.rs (an ArrayQueue and an AtomicWaker each, poll_next and   *)
(* the push called by a handler) and the timer and keyboard handlers of   *)
(* interrupts.rs.  Tasks are those main.rs spawns: print_keypresses reads *)
(* the scancode stream, print_timerfifo the cursor stream, and each       *)
(* sleeper (task2::run_command on a "sleep" command, terminal1's editor   *)
(* loop) awaits sleep_timerfifo_005s(1) SleepRounds times.                 *)
(*                                                                         *)
(* Queue items are counted, not named: no consumer here branches on them. *)
(* A handler runs with interrupts off, so it is one step; the executor's  *)
(* steps are split where an interrupt can fall between them.              *)
(***************************************************************************)
EXTENDS Naturals, Sequences, FiniteSets

CONSTANTS
    Sleepers,          \* tasks awaiting the sleep timer, a subset of {"terminal1", "task2"}
    SleepRounds,       \* sleep_timerfifo_005s(1) calls each sleeper makes
    ScancodeCapacity,  \* ArrayQueue::new(100) in ScancodeStream::new
    CursorCapacity,    \* ArrayQueue::new(100) in cursor's TimerFifoStream::new
    CursorEvery,       \* TIMER_COUNT % 10 == 0 in timer_interrupt_handler
    MaxKeys,           \* keystrokes delivered
    MaxQueued,         \* interrupts are not taken while the task queue holds this many
    TicksPerPoll       \* timer ticks that fall within one poll (50 ms against microseconds)

ASSUME Sleepers \subseteq {"terminal1", "task2"}

\* task_queue: ArrayQueue::new(1000) in Executor::new.
TaskQueueCapacity == 1000

ASSUME MaxQueued + Cardinality(Sleepers) + 2 < TaskQueueCapacity

Keys == "print_keypresses"
Cursor == "print_timerfifo"
Tasks == {Keys, Cursor} \cup Sleepers

\* The statics of the three stream modules.
Scancodes == "SCANCODE_QUEUE"
CursorFifo == "cursor::TIMER_FIFO"
SleepFifo == "sleep::TIMER_FIFO"
Streams == {Scancodes, CursorFifo, SleepFifo}

StreamOf(t) == CASE t = Keys -> Scancodes [] t = Cursor -> CursorFifo [] OTHER -> SleepFifo

\* sleep_timerfifo_005s(1) passes times = 1 as TimerFifoStream::new's length.
SleepLength == 1
Capacity(s) == CASE s = Scancodes -> ScancodeCapacity
                 [] s = CursorFifo -> CursorCapacity
                 [] OTHER -> SleepLength

NoWaker == "none"

VARIABLES
    taskQueue,  \* Executor.task_queue: ids of woken tasks
    exec,       \* where the CPU is: run_ready_tasks, a poll, sleep_if_idle, halted
    current,    \* the task being polled
    at,         \* each task's position in its future
    fifo,       \* items in each stream's ArrayQueue
    init,       \* whether each stream's OnceCell is initialised
    waker,      \* the task each stream's AtomicWaker holds
    rounds,     \* sleeps each sleeper has still to make
    command,    \* a sleeper's command: none yet, queued, taken
    keys,       \* keystrokes delivered so far
    timerCount, \* TIMER_COUNT modulo CursorEvery
    pollTicks   \* ticks taken since the current poll began

vars == << taskQueue, exec, current, at, fifo, init, waker, rounds, command, keys, timerCount, pollTicks >>

Positions == {"start", "wait_cmd", "new", "pop1", "register", "pop2", "pending", "done"}

KernelTypeOK ==
    /\ taskQueue \in Seq(Tasks) /\ Len(taskQueue) <= TaskQueueCapacity
    /\ exec \in {"run", "poll", "sleep", "idle", "hlt", "halted"}
    /\ current \in Tasks
    /\ at \in [Tasks -> Positions]
    /\ fifo \in [Streams -> Nat] /\ \A s \in Streams : fifo[s] <= Capacity(s)
    /\ init \in [Streams -> BOOLEAN]
    /\ waker \in [Streams -> Tasks \cup {NoWaker}]
    /\ rounds \in [Sleepers -> 0 .. SleepRounds]
    /\ command \in [Sleepers -> {"none", "queued", "taken"}]
    /\ keys \in 0 .. MaxKeys
    /\ timerCount \in 0 .. CursorEvery - 1
    /\ pollTicks \in 0 .. TicksPerPoll

\* main.rs spawns its tasks in this order; spawn pushes each id.
SpawnOrder == << Keys, "terminal1", "task2", Cursor >>

Init ==
    /\ taskQueue = SelectSeq(SpawnOrder, LAMBDA t : t \in Tasks)
    /\ exec = "run"
    /\ current = Keys
    /\ at = [t \in Tasks |-> "start"]
    /\ fifo = [s \in Streams |-> 0]
    /\ init = [s \in Streams |-> FALSE]
    /\ waker = [s \in Streams |-> NoWaker]
    /\ rounds = [t \in Sleepers |-> SleepRounds]
    /\ command = [t \in Sleepers |-> "none"]
    /\ keys = 0
    /\ timerCount = 0
    /\ pollTicks = 0

-----------------------------------------------------------------------------
(* Interrupt side.  The queues, wakers and task queue a handler touches.  *)

\* (Mutant: `interrupts::enable(); hlt()`, interrupts back on before the hlt.)
InterruptsEnabledBeforeHlt == exec # "idle"

\* x86 interrupts are off from interrupts::disable() in sleep_if_idle to
\* enable_and_hlt() or interrupts::enable(); a request raised meanwhile is
\* latched by the PIC and taken when they come back on.
InterruptsEnabled == exec \notin {"idle", "hlt"}

\* TaskWaker::wake_task: push the id; expect("task_queue full").
WakeTask(q, t) == Append(q, t)

\* (Mutant: the push's Err(full) not checked.)
PushedIgnoringFull(q, s) ==
    IF ~init[s] THEN q
    ELSE [fifo      |-> [q.fifo EXCEPT ![s] = @ + 1],
          waker     |-> [q.waker EXCEPT ![s] = NoWaker],
          taskQueue |-> IF q.waker[s] = NoWaker THEN q.taskQueue
                        ELSE WakeTask(q.taskQueue, q.waker[s])]

\* add_scancode / timerfifo_push on stream s, over the record q of the
\* queues, wakers and task queue: nothing before the OnceCell is set (a
\* warning), drop when the ArrayQueue is full (a warning), else push and
\* AtomicWaker::wake, which takes the registered waker and wakes it.
Pushed(q, s) ==
    IF ~init[s] \/ q.fifo[s] = Capacity(s) THEN q
    ELSE [fifo      |-> [q.fifo EXCEPT ![s] = @ + 1],
          waker     |-> [q.waker EXCEPT ![s] = NoWaker],
          taskQueue |-> IF q.waker[s] = NoWaker THEN q.taskQueue
                        ELSE WakeTask(q.taskQueue, q.waker[s])]

Shared == [fifo |-> fifo, waker |-> waker, taskQueue |-> taskQueue]

\* A handler's effect on the CPU: a halted CPU resumes after hlt.
Handled(q) ==
    /\ fifo' = q.fifo /\ waker' = q.waker /\ taskQueue' = q.taskQueue
    /\ exec' = IF exec = "halted" THEN "run" ELSE exec

\* keyboard_interrupt_handler: read the scancode, add_scancode.
KeyboardInterrupt ==
    /\ InterruptsEnabled /\ keys < MaxKeys /\ Len(taskQueue) < MaxQueued
    /\ keys' = keys + 1
    /\ Handled(Pushed(Shared, Scancodes))
    /\ UNCHANGED << current, at, init, rounds, command, timerCount, pollTicks >>

\* timer_interrupt_handler: TIMER_COUNT += 1, a cursor blink every
\* CursorEvery ticks, then TIMER_COUNT to the sleep timer.
TimerInterrupt ==
    /\ InterruptsEnabled /\ Len(taskQueue) < MaxQueued
    /\ exec = "poll" => pollTicks < TicksPerPoll
    /\ pollTicks' = IF exec = "poll" THEN pollTicks + 1 ELSE pollTicks
    /\ timerCount' = (timerCount + 1) % CursorEvery
    /\ LET blinked == IF timerCount' = 0 THEN Pushed(Shared, CursorFifo) ELSE Shared
       IN  Handled(Pushed(blinked, SleepFifo))
    /\ UNCHANGED << current, at, init, rounds, command, keys >>

\* A sleeper's command arrives on its own command stream (task2's from
\* terminal2, terminal1's from its keystrokes), whose waker wakes it.
Command(t) ==
    /\ InterruptsEnabled /\ Len(taskQueue) < MaxQueued
    /\ command[t] = "none" /\ at[t] = "wait_cmd" /\ ~(exec = "poll" /\ current = t)
    /\ command' = [command EXCEPT ![t] = "queued"]
    /\ Handled([Shared EXCEPT !.taskQueue = WakeTask(taskQueue, t)])
    /\ UNCHANGED << current, at, init, rounds, keys, timerCount, pollTicks >>

-----------------------------------------------------------------------------
(* Executor side.                                                          *)

\* run_ready_tasks: pop a task id and poll the task; a task suspended at an
\* await resumes by polling its stream again.
RunReadyTasks ==
    /\ exec = "run" /\ taskQueue # << >>
    /\ LET t == Head(taskQueue) IN
       /\ taskQueue' = Tail(taskQueue)
       /\ current' = t
       /\ at' = [at EXCEPT ![t] = IF @ = "pending" THEN "pop1" ELSE @]
    /\ exec' = "poll" /\ pollTicks' = 0
    /\ UNCHANGED << fifo, init, waker, rounds, command, keys, timerCount >>

\* The pop fails: run_ready_tasks returns and sleep_if_idle disables
\* interrupts (two steps: an interrupt may come between them).
RunReadyTasksEmpty ==
    /\ exec = "run" /\ taskQueue = << >>
    /\ exec' = "sleep"
    /\ UNCHANGED << taskQueue, current, at, fifo, init, waker, rounds, command, keys, timerCount, pollTicks >>

DisableInterrupts ==
    /\ exec = "sleep"
    /\ exec' = "idle"
    /\ UNCHANGED << taskQueue, current, at, fifo, init, waker, rounds, command, keys, timerCount, pollTicks >>

\* sleep_if_idle: with interrupts off, an empty queue goes on to
\* enable_and_hlt, a non-empty one re-enables and returns to run.
SleepIfIdle ==
    /\ exec = "idle"
    /\ exec' = IF taskQueue = << >> THEN "hlt" ELSE "run"
    /\ UNCHANGED << taskQueue, current, at, fifo, init, waker, rounds, command, keys, timerCount, pollTicks >>

\* enable_and_hlt: sti; hlt, which takes no interrupt in between.
EnableAndHlt ==
    /\ exec = "hlt"
    /\ exec' = "halted"
    /\ UNCHANGED << taskQueue, current, at, fifo, init, waker, rounds, command, keys, timerCount, pollTicks >>

-----------------------------------------------------------------------------
(* The task being polled, one step per atomic operation of its future.    *)

Polling(t) == exec = "poll" /\ current = t

\* (Mutant: the sleeper's loop counter never advances.)
ConsumedWithoutCount(t) ==
    IF t \in Sleepers
    THEN at' = [at EXCEPT ![t] = "new"] /\ UNCHANGED rounds
    ELSE at' = [at EXCEPT ![t] = "pop1"] /\ UNCHANGED rounds

\* The task's loop body after next().await returned an item: the keyboard
\* and cursor tasks print and await the next item; a sleeper's
\* sleep_timerfifo_005s(1) returns, and its for loop calls the next one or
\* goes back to awaiting its command stream.
Consumed(t) ==
    IF t \in Sleepers
    THEN /\ rounds' = [rounds EXCEPT ![t] = @ - 1]
         /\ at' = [at EXCEPT ![t] = IF rounds[t] = 1 THEN "done" ELSE "new"]
    ELSE /\ at' = [at EXCEPT ![t] = "pop1"]
         /\ UNCHANGED rounds

\* The first poll: print_keypresses and print_timerfifo go on to their
\* stream's new(); a sleeper awaits its command stream.
StartTask(t) ==
    /\ Polling(t) /\ at[t] = "start"
    /\ at' = [at EXCEPT ![t] = IF t \in Sleepers THEN "wait_cmd" ELSE "new"]
    /\ UNCHANGED << taskQueue, exec, current, fifo, init, waker, rounds, command, keys, timerCount, pollTicks >>

\* ScancodeStream::new / TimerFifoStream::new: set the OnceCell with an
\* ArrayQueue of the stream's capacity; the sleep timer's new(length), on
\* every later call, pops the queue empty instead.
StreamNew(t) ==
    /\ Polling(t) /\ at[t] = "new"
    /\ LET s == StreamOf(t) IN
       IF t \in Sleepers /\ init[s]
       THEN fifo' = [fifo EXCEPT ![s] = 0] /\ UNCHANGED init
       ELSE init' = [init EXCEPT ![s] = TRUE] /\ UNCHANGED fifo
    /\ at' = [at EXCEPT ![t] = "pop1"]
    /\ UNCHANGED << taskQueue, exec, current, waker, rounds, command, keys, timerCount, pollTicks >>

\* (Mutant: an empty queue returns Pending without registering a waker.)
PollNextPopNoRegister(t) ==
    /\ Polling(t) /\ at[t] = "pop1"
    /\ LET s == StreamOf(t) IN
       IF fifo[s] > 0
       THEN fifo' = [fifo EXCEPT ![s] = @ - 1] /\ Consumed(t) /\ UNCHANGED exec
       ELSE at' = [at EXCEPT ![t] = "pending"] /\ exec' = "run" /\ UNCHANGED << fifo, rounds >>
    /\ UNCHANGED << taskQueue, current, init, waker, command, keys, timerCount, pollTicks >>

\* poll_next: if let Ok(item) = queue.pop() { return Ready(Some(item)) }.
PollNextPop(t) ==
    /\ Polling(t) /\ at[t] = "pop1"
    /\ LET s == StreamOf(t) IN
       IF fifo[s] > 0
       THEN fifo' = [fifo EXCEPT ![s] = @ - 1] /\ Consumed(t)
       ELSE at' = [at EXCEPT ![t] = "register"] /\ UNCHANGED << fifo, rounds >>
    /\ UNCHANGED << taskQueue, exec, current, init, waker, command, keys, timerCount, pollTicks >>

\* (Mutant: register, then Pending without popping again.)
PollNextRegisterThenPending(t) ==
    /\ Polling(t) /\ at[t] = "register"
    /\ waker' = [waker EXCEPT ![StreamOf(t)] = t]
    /\ at' = [at EXCEPT ![t] = "pending"] /\ exec' = "run"
    /\ UNCHANGED << taskQueue, current, fifo, init, rounds, command, keys, timerCount, pollTicks >>

\* poll_next: WAKER.register(cx.waker()), replacing whatever it held.
PollNextRegister(t) ==
    /\ Polling(t) /\ at[t] = "register"
    /\ waker' = [waker EXCEPT ![StreamOf(t)] = t]
    /\ at' = [at EXCEPT ![t] = "pop2"]
    /\ UNCHANGED << taskQueue, exec, current, fifo, init, rounds, command, keys, timerCount, pollTicks >>

\* poll_next: pop again; an item takes the waker back and is returned,
\* none leaves the task Pending and the poll returns to run_ready_tasks.
PollNextPopAgain(t) ==
    /\ Polling(t) /\ at[t] = "pop2"
    /\ LET s == StreamOf(t) IN
       IF fifo[s] > 0
       THEN /\ fifo' = [fifo EXCEPT ![s] = @ - 1]
            /\ waker' = [waker EXCEPT ![s] = NoWaker]
            /\ Consumed(t) /\ UNCHANGED exec
       ELSE /\ at' = [at EXCEPT ![t] = "pending"] /\ exec' = "run"
            /\ UNCHANGED << fifo, waker, rounds >>
    /\ UNCHANGED << taskQueue, current, init, command, keys, timerCount, pollTicks >>

\* A sleeper polls its command stream: a "sleep" (task2) or "edit"
\* (terminal1) command starts its sleeps, otherwise the poll is Pending.
PollCommand(t) ==
    /\ Polling(t) /\ at[t] \in {"wait_cmd", "done"}
    /\ IF command[t] = "queued"
       THEN /\ command' = [command EXCEPT ![t] = "taken"]
            /\ at' = [at EXCEPT ![t] = "new"] /\ UNCHANGED exec
       ELSE exec' = "run" /\ UNCHANGED << command, at >>
    /\ UNCHANGED << taskQueue, current, fifo, init, waker, rounds, keys, timerCount, pollTicks >>

Poll(t) ==
    \/ StartTask(t) \/ StreamNew(t) \/ PollNextPop(t) \/ PollNextRegister(t)
    \/ PollNextPopAgain(t) \/ PollCommand(t)

-----------------------------------------------------------------------------

\* Executor::run: loop { run_ready_tasks(); sleep_if_idle(); }
Executor ==
    \/ RunReadyTasks \/ RunReadyTasksEmpty \/ DisableInterrupts
    \/ SleepIfIdle \/ EnableAndHlt \/ \E t \in Tasks : Poll(t)

Interrupts == KeyboardInterrupt \/ TimerInterrupt \/ \E t \in Sleepers : Command(t)

Next == Executor \/ Interrupts

\* The CPU runs the executor whenever no handler runs: weak fairness.  The
\* PIT fires every 50 ms and the PIC latches a tick raised while interrupts
\* are off, so a tick is taken whenever they are on often enough: strong
\* fairness.  Keystrokes and commands come from the user: no fairness.
Spec == Init /\ [][Next]_vars /\ WF_vars(Executor) /\ SF_vars(TimerInterrupt)

-----------------------------------------------------------------------------
(* Properties.                                                             *)

Queued(t) == \E i \in 1 .. Len(taskQueue) : taskQueue[i] = t
Scheduled(t) == Polling(t) \/ Queued(t)

(***************************************************************************)
(* No lost wakeup: a task suspended at a stream's await while that        *)
(* stream's queue holds an item is in the task queue or being polled.     *)
(* About poll_next's register-then-pop-again against add_scancode /       *)
(* timerfifo_push and AtomicWaker::wake running from an interrupt between *)
(* any two of its steps.                                                   *)
(***************************************************************************)
NoLostWakeup ==
    \A t \in Tasks : at[t] = "pending" /\ fifo[StreamOf(t)] > 0 => Scheduled(t)

(***************************************************************************)
(* The CPU halts only with an empty task queue: sleep_if_idle tests       *)
(* is_empty with interrupts off and enable_and_hlt leaves no window for a *)
(* wake between the test and the hlt.                                     *)
(***************************************************************************)
HaltOnlyWhenIdle == exec = "halted" => taskQueue = << >>

(***************************************************************************)
(* Every scancode pushed by the keyboard handler is eventually popped by  *)
(* print_keypresses.  About add_scancode, poll_next and the executor's    *)
(* run loop together.                                                      *)
(***************************************************************************)
KeysRead == fifo[Scancodes] > 0 ~> fifo[Scancodes] = 0

(***************************************************************************)
(* A sleeper that has started sleeping finishes its sleeps: each          *)
(* sleep_timerfifo_005s(1) returns after a timer tick.  About the sleep   *)
(* timer's one TIMER_FIFO and one WAKER shared by every sleeper.          *)
(***************************************************************************)
SleepEnds == \A t \in Sleepers : at[t] = "new" ~> at[t] = "done"
=============================================================================
