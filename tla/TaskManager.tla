------------------------------ MODULE TaskManager ------------------------------
(***************************************************************************)
(* The process table and the pre-emptive round-robin scheduler:            *)
(* PalmyraOS/source/core/tasks/ProcessManager.cpp with the life cycle of a *)
(* Process (Process.cpp) and the system calls that change it               *)
(* (SystemCalls.cpp).                                                      *)
(*                                                                         *)
(* One processor runs one process at a time.  Between two actions the      *)
(* interrupts are enabled, so the clock may tick there; a system call runs *)
(* behind an interrupt gate and is one action, except the two that enable  *)
(* interrupts again and loop on sched_yield: waitpid and clock_nanosleep.  *)
(*                                                                         *)
(* Process 0 is WindowManager::thread, the only kernel process and the     *)
(* only user of atomic sections: its frame loop is modelled as far as the  *)
(* scheduler sees it.                                                      *)
(***************************************************************************)
EXTENDS Integers

CONSTANTS
    MaxProcesses,     \* MAX_PROCESSES; newProcess refuses the last slot
    BootCount,        \* processes created by kernelEntry before interrupts
    Medium, Low,      \* Process::Priority: the quantum, in ticks
    MaxPages,         \* bound of the model: pages one process registers
    MaxWindows,       \* bound of the model: windows one process opens
    MaxAtomicLevel,   \* bound of the model: nesting of atomic sections
    ElfLoadMayFail,   \* may a segment of an ELF image find no memory?
    OffScreenWindows  \* may a visible window lie outside of the screen?

ASSUME SizeAssumption ==
    /\ MaxProcesses \in Nat
    /\ BootCount \in 1 .. MaxProcesses - 1

ASSUME PriorityAssumption == Medium \in Nat \ {0} /\ Low \in Nat \ {0}

ASSUME BoundAssumption ==
    /\ MaxPages \in Nat \ {0}
    /\ MaxWindows \in Nat
    /\ MaxAtomicLevel \in Nat \ {0}
    /\ ElfLoadMayFail \in BOOLEAN
    /\ OffScreenWindows \in BOOLEAN

Pid == 0 .. MaxProcesses - 2    \* pid_count is also the index in processes_
WM == 0                         \* WindowManager::thread
NoProcess == MaxProcesses       \* currentProcessIndex_ before the first tick

State == {"New", "Ready", "Running", "Terminated", "Killed"}

\* Where a process is in its own code, as far as the scheduler can tell: in
\* user mode, in the loop of a blocking system call, or, for the window
\* manager, between two frames, in composite(), in composeWindow(), or past
\* the frame and about to yield.
Place == {"user", "waitpid", "sleep", "idle", "composing", "copying", "composed"}

VARIABLES
    processes,   \* processes_: state_, age_, #physicalPages_, #windows_
    pidCount,    \* pid_count, always processes_.size()
    current,     \* currentProcessIndex_
    atomicLevel, \* atomicSectionLevel_
    place,       \* the point its code has reached, per process
    waitsFor     \* the child of a pending waitpid, per process

vars == <<processes, pidCount, current, atomicLevel, place, waitsFor>>

Process == [state : State, age : Nat, pages : Nat, windows : Nat]

TypeOK ==
    /\ processes \in [Pid -> Process]
    /\ pidCount \in 0 .. MaxProcesses - 1
    /\ current \in Pid \cup {NoProcess}
    /\ atomicLevel \in Nat
    /\ place \in [Pid -> Place]
    /\ waitsFor \in [Pid -> Pid]

-----------------------------------------------------------------------------
(* The process object.                                                     *)

Priority(p) == IF p = WM THEN Medium ELSE Low

Absent == [state |-> "New", age |-> 0, pages |-> 0, windows |-> 0]

\* The constructor: age 2, Ready, with its kernel stack and argument block.
Constructed == [state |-> "Ready", age |-> 2, pages |-> 1, windows |-> 0]

\* Process::kill frees every registered page and closes every window.
Kill(r) == [r EXCEPT !.state = "Killed", !.age = 0, !.pages = 0, !.windows = 0]

\* newProcess keeps one slot of the table free.
TableFull_OffByOne == pidCount = MaxProcesses
TableFull == pidCount = MaxProcesses - 1

Terminate(p) == [processes EXCEPT ![p].state = "Terminated"]

-----------------------------------------------------------------------------
(* TaskManager::interruptHandler, entered with the process table ps of     *)
(* size n: from the clock, or at the end of a system call.                 *)

\* The interrupted process may go on: it has not terminated.
Alive_EvenTerminated(ps) == current \in Pid
Alive(ps) == current \in Pid /\ ps[current].state \notin {"Terminated", "Killed"}

\* Its age, once decremented, is still positive.
InQuantum(ps) == Alive(ps) /\ ps[current].age > 1

\* The loop over processes_ kills those that have terminated, but for the
\* current one; that one loses a tick and, at age 0, goes back to Ready with
\* a new quantum.
Aged_StaysRunning(r, p) ==
    IF r.age > 1 THEN [r EXCEPT !.age = @ - 1] ELSE [r EXCEPT !.age = Priority(p)]
Aged(r, p) ==
    IF r.age > 1 THEN [r EXCEPT !.age = @ - 1]
                 ELSE [r EXCEPT !.state = "Ready", !.age = Priority(p)]

Updated_KillsCurrent(ps) ==
    [p \in Pid |->
        CASE ps[p].state = "Terminated"    -> Kill(ps[p])
          [] p = current /\ Alive(ps)      -> Aged(ps[p], p)
          [] OTHER                         -> ps[p]]
Updated_SkipsLast(ps) ==
    [p \in Pid |->
        CASE p = current /\ Alive(ps)                   -> Aged(ps[p], p)
          [] /\ p # current /\ p < pidCount - 1
             /\ ps[p].state = "Terminated"             -> Kill(ps[p])
          [] OTHER                                      -> ps[p]]
Updated(ps) ==
    [p \in Pid |->
        CASE p = current /\ Alive(ps)                       -> Aged(ps[p], p)
          [] p # current /\ ps[p].state = "Terminated"      -> Kill(ps[p])
          [] OTHER                                          -> ps[p]]

Continue(ps) == InQuantum(ps) /\ processes' = Updated(ps) /\ UNCHANGED current

\* The i-th candidate of the scan that starts after the current process.
Candidate_FromTheStart(i, n) == i
Candidate(i, n) == (current + 1 + i) % n

\* The first Ready process from there on, or the last one looked at, runs.
SwitchTo(ps, n, i) ==
    LET next == Candidate(i, n) IN
    /\ \A j \in 0 .. i - 1 : ps[Candidate(j, n)].state # "Ready"
    /\ ps[next].state = "Ready" \/ i = n - 1
    /\ processes' = [ps EXCEPT ![next].state = "Running"]
    /\ current' = next

Switch(ps, n) == ~InQuantum(ps) /\ \E i \in 0 .. n - 1 : SwitchTo(Updated(ps), n, i)

\* No process yet, or an atomic section: nothing at all happens.
Deferred_IgnoresLevel(n) == n = 0
Deferred(n) == n = 0 \/ atomicLevel > 0

InterruptHandler(ps, n) ==
    \/ Deferred(n) /\ processes' = ps /\ UNCHANGED current
    \/ ~Deferred(n) /\ (Continue(ps) \/ Switch(ps, n))

\* SystemCallsManager::handleInterrupt, once the handler has returned.
SystemCallReturn(ps, n) ==
    IF ps[current].state = "Terminated" \/ ps[current].age = 0
    THEN InterruptHandler(ps, n)
    ELSE processes' = ps /\ UNCHANGED current

\* SystemClock::handleInterrupt: the timer may fire before every action.
Tick ==
    /\ InterruptHandler(processes, pidCount)
    /\ UNCHANGED <<pidCount, atomicLevel, place, waitsFor>>

-----------------------------------------------------------------------------
(* System calls of a user process p.  A call that fails without changing   *)
(* the state (no such file, table full, unknown pid) is a stuttering step. *)

Calls(p) == current = p /\ p # WM /\ place[p] = "user"

Yielded(p) == [processes EXCEPT ![p].age = 0]

\* handleExit, and every call that finds a pointer of the caller invalid.
HandleExit(p) ==
    /\ Calls(p)
    /\ SystemCallReturn(Terminate(p), pidCount)
    /\ UNCHANGED <<pidCount, atomicLevel, place, waitsFor>>

HandleYield(p) ==
    /\ Calls(p)
    /\ SystemCallReturn(Yielded(p), pidCount)
    /\ UNCHANGED <<pidCount, atomicLevel, place, waitsFor>>

\* mmap, and brk past max_brk: pages are allocated and registered.
HandleMmap(p) ==
    /\ Calls(p)
    /\ processes[p].pages < MaxPages
    /\ SystemCallReturn([processes EXCEPT ![p].pages = @ + 1], pidCount)
    /\ UNCHANGED <<pidCount, atomicLevel, place, waitsFor>>

HandleInitWindow(p) ==
    /\ Calls(p)
    /\ processes[p].pages < MaxPages
    /\ processes[p].windows < MaxWindows
    /\ SystemCallReturn([processes EXCEPT ![p].pages = @ + 1,
                                          ![p].windows = @ + 1], pidCount)
    /\ UNCHANGED <<pidCount, atomicLevel, place, waitsFor>>

\* The pages of the window's buffer stay with the process.
HandleCloseWindow(p) ==
    /\ Calls(p)
    /\ processes[p].windows > 0
    /\ SystemCallReturn([processes EXCEPT ![p].windows = @ - 1], pidCount)
    /\ UNCHANGED <<pidCount, atomicLevel, place, waitsFor>>

\* handleSpawn: newProcess appends child, and the caller is terminated when
\* the pointer that receives the pid is invalid (checked last).
Spawn(p, child) ==
    /\ Calls(p)
    /\ ~TableFull
    /\ \E ps \in {processes, Terminate(p)} :
          SystemCallReturn([ps EXCEPT ![pidCount] = child], pidCount + 1)
    /\ pidCount' = pidCount + 1
    /\ UNCHANGED <<atomicLevel, place, waitsFor>>

\* execv_builtin, or execv_elf that loads every segment.
HandleSpawn(p) == Spawn(p, Constructed)

\* execv_elf out of memory: the process stays in the state that execv_elf
\* gave it while it loads the segments, with the pages registered so far,
\* and handleSpawn returns before it looks at the pid pointer.
HandleSpawnFails(p) ==
    /\ ElfLoadMayFail
    /\ Calls(p)
    /\ ~TableFull
    /\ SystemCallReturn(
          [processes EXCEPT ![pidCount] = [Constructed EXCEPT !.state = "Killed"]],
          pidCount + 1)
    /\ pidCount' = pidCount + 1
    /\ UNCHANGED <<atomicLevel, place, waitsFor>>

\* handleWaitPID up to its loop, which runs with interrupts enabled.
HandleWaitPID(p, child) ==
    /\ Calls(p)
    /\ child < pidCount
    /\ place' = [place EXCEPT ![p] = "waitpid"]
    /\ waitsFor' = [waitsFor EXCEPT ![p] = child]
    /\ UNCHANGED <<processes, pidCount, current, atomicLevel>>

Gone_Terminated(child) == processes[child].state = "Terminated"
Gone(child) == processes[child].state = "Killed"

\* One turn of the loop: the child is alive, sched_yield.
WaitYield(p) ==
    /\ current = p /\ place[p] = "waitpid"
    /\ ~Gone(waitsFor[p])
    /\ SystemCallReturn(Yielded(p), pidCount)
    /\ UNCHANGED <<pidCount, atomicLevel, place, waitsFor>>

WaitDone(p) ==
    /\ current = p /\ place[p] = "waitpid"
    /\ Gone(waitsFor[p])
    /\ SystemCallReturn(processes, pidCount)
    /\ place' = [place EXCEPT ![p] = "user"]
    /\ UNCHANGED <<pidCount, atomicLevel, waitsFor>>

HandleClockNanoSleep(p) ==
    /\ Calls(p)
    /\ place' = [place EXCEPT ![p] = "sleep"]
    /\ UNCHANGED <<processes, pidCount, current, atomicLevel, waitsFor>>

SleepYield(p) ==
    /\ current = p /\ place[p] = "sleep"
    /\ SystemCallReturn(Yielded(p), pidCount)
    /\ UNCHANGED <<pidCount, atomicLevel, place, waitsFor>>

\* The target tick is an arbitrary number of ticks away.
SleepDone(p) ==
    /\ current = p /\ place[p] = "sleep"
    /\ SystemCallReturn(processes, pidCount)
    /\ place' = [place EXCEPT ![p] = "user"]
    /\ UNCHANGED <<pidCount, atomicLevel, waitsFor>>

-----------------------------------------------------------------------------
(* WindowManager::thread: yield until the next frame is due, compose it in *)
(* an atomic section, yield.                                               *)

AtWM(here, there) ==
    /\ current = WM /\ place[WM] = here
    /\ place' = [place EXCEPT ![WM] = there]

StartAtomicOperation == atomicLevel' = atomicLevel + 1
EndAtomicOperation == atomicLevel' = IF atomicLevel > 0 THEN atomicLevel - 1 ELSE 0

WMYield ==
    /\ \/ AtWM("idle", "idle")
       \/ AtWM("composed", "idle")
    /\ SystemCallReturn(Yielded(WM), pidCount)
    /\ UNCHANGED <<pidCount, atomicLevel, waitsFor>>

BeginFrame ==
    /\ AtWM("idle", "composing")
    /\ StartAtomicOperation
    /\ UNCHANGED <<processes, pidCount, current, waitsFor>>

\* composeWindow opens a section of its own and copies the buffer ...
CopyWindow ==
    /\ AtWM("composing", "copying")
    /\ atomicLevel < MaxAtomicLevel
    /\ StartAtomicOperation
    /\ UNCHANGED <<processes, pidCount, current, waitsFor>>

CopyDone ==
    /\ AtWM("copying", "composing")
    /\ EndAtomicOperation
    /\ UNCHANGED <<processes, pidCount, current, waitsFor>>

\* ... but returns without closing it when nothing of the window is visible.
SkipWindow ==
    /\ OffScreenWindows
    /\ AtWM("composing", "composing")
    /\ atomicLevel < MaxAtomicLevel
    /\ StartAtomicOperation
    /\ UNCHANGED <<processes, pidCount, current, waitsFor>>

EndFrame ==
    /\ AtWM("composing", "composed")
    /\ EndAtomicOperation
    /\ UNCHANGED <<processes, pidCount, current, waitsFor>>

ComposeStep == BeginFrame \/ CopyWindow \/ CopyDone \/ SkipWindow \/ EndFrame

-----------------------------------------------------------------------------

\* kernelEntry has created its processes and enables the interrupts.
Init ==
    /\ processes = [p \in Pid |-> IF p < BootCount THEN Constructed ELSE Absent]
    /\ pidCount = BootCount
    /\ current = NoProcess
    /\ atomicLevel = 0
    /\ place = [p \in Pid |-> IF p = WM THEN "idle" ELSE "user"]
    /\ waitsFor = [p \in Pid |-> p]

SystemCall(p) ==
    \/ HandleExit(p)
    \/ HandleYield(p)
    \/ HandleMmap(p)
    \/ HandleInitWindow(p)
    \/ HandleCloseWindow(p)
    \/ HandleSpawn(p)
    \/ HandleSpawnFails(p)
    \/ \E child \in Pid : HandleWaitPID(p, child)
    \/ HandleClockNanoSleep(p)

Blocked(p) ==
    \/ WaitYield(p)
    \/ WaitDone(p)
    \/ SleepYield(p)
    \/ SleepDone(p)

Next ==
    \/ Tick
    \/ \E p \in Pid : SystemCall(p) \/ Blocked(p)
    \/ WMYield
    \/ ComposeStep

Spec == Init /\ [][Next]_vars

\* The timer keeps firing.  The frame loop of the window manager waits for
\* nobody: while it has the processor it ends the copy it is at, composes a
\* finite number of windows, and yields.  A blocked caller that is scheduled
\* again and again tests its condition: a quantum holds many turns of its
\* loop.
Fairness ==
    /\ WF_vars(Tick)
    /\ WF_vars(CopyDone)
    /\ SF_vars(EndFrame)
    /\ SF_vars(WMYield)
    /\ \A p \in Pid : SF_vars(WaitDone(p)) /\ SF_vars(SleepDone(p))

FairSpec == Spec /\ Fairness

-----------------------------------------------------------------------------
(* Properties.                                                             *)

\* interruptHandler leaves exactly one process Running, the one whose stack
\* it returns: never a second one, never one that has exited.
CurrentIsRunning ==
    \A p \in Pid : processes[p].state = "Running" <=> p = current

\* Other processes run only while no section is open, so an atomic section
\* of the window manager really is atomic for them.
AtomicSectionsExclude == atomicLevel > 0 => current = WM

\* The level counts the open sections, in the words of ProcessManager.h:90:
\* between two frames the window manager has none.
LevelIsNesting ==
    place[WM] \in {"idle", "composed"} => atomicLevel = 0

\* A process that has exited is never scheduled again, whatever the scan of
\* interruptHandler falls back to when it finds no Ready process.
NoResurrection ==
    [][\A p \in Pid :
          /\ processes[p].state = "Terminated" =>
                processes'[p].state \in {"Terminated", "Killed"}
          /\ processes[p].state = "Killed" => processes'[p].state = "Killed"]_vars

\* Process.h:135 on kill: it "cannot be called within the process stack, as
\* memory will be freed"; and the note of interruptHandler: no window is
\* closed while the window manager composes.
KilledFromOutside ==
    [][\A p \in Pid :
          processes[p].pages > 0 /\ processes'[p].pages = 0 =>
              p # current /\ p # current' /\ atomicLevel = 0]_vars

\* Once a section is left open behind a frame it is never closed again, and
\* the scheduler switches no more (LevelIsNesting fails).
Leaked == place[WM] \in {"idle", "composed"} /\ atomicLevel > 0

\* Every exited process is reaped: its memory comes back, unless a section
\* leaks first.
ExitedIsReaped ==
    \A p \in Pid : processes[p].state = "Terminated" ~> (processes[p].state = "Killed" \/ Leaked)

\* Round robin: nobody who is Ready waits for ever, unless a section leaks.
NoStarvation ==
    \A p \in Pid : processes[p].state = "Ready" ~> (processes[p].state = "Running" \/ Leaked)

\* waitpid on a process that has exited returns, unless a section leaks.
WaitReturns ==
    \A p \in Pid :
        (place[p] = "waitpid" /\ processes[waitsFor[p]].state \in {"Terminated", "Killed"})
            ~> (place[p] = "user" \/ Leaked)

=============================================================================
