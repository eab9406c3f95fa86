--------------------------- MODULE TaskManager_proofs ---------------------------
(***************************************************************************)
(* Safety of the scheduler, for every size of the table and every quantum. *)
(*                                                                         *)
(* The property that carries the others is that interruptHandler always    *)
(* finds a Ready process: the window manager never exits, so it is Ready   *)
(* whenever it does not run.  SchedulerInv adds that fact, and what the    *)
(* table looks like before the first tick, to the invariants of the model. *)
(***************************************************************************)
EXTENDS TaskManager, TLAPS

WMPlaces == {"idle", "composing", "copying", "composed"}

\* The window manager never exits and runs its own loop only.
WMLives ==
    /\ processes[WM].state \in {"Ready", "Running"}
    /\ place[WM] \in WMPlaces

\* The slots from pidCount on, and no other, are unused.
TableFilled ==
    /\ pidCount >= 1
    /\ \A p \in Pid : processes[p].state = "New" <=> p >= pidCount

\* Until the first tick every process is Ready and no section was opened.
BeforeFirstTick ==
    current = NoProcess =>
        /\ atomicLevel = 0
        /\ \A p \in Pid : p < pidCount => processes[p].state = "Ready"

SchedulerInv ==
    /\ TypeOK
    /\ WMLives
    /\ TableFilled
    /\ BeforeFirstTick
    /\ CurrentIsRunning
    /\ AtomicSectionsExclude

-----------------------------------------------------------------------------
(* The interrupt handler.                                                  *)

\* What every caller of interruptHandler guarantees of the table it passes:
\* the current process is Running, or has just been terminated.
HandlerPre(ps, n) ==
    /\ ps \in [Pid -> Process]
    /\ n \in 1 .. MaxProcesses - 1
    /\ atomicLevel \in Nat
    /\ current \in Pid \cup {NoProcess}
    /\ \A p \in Pid : ps[p].state = "New" <=> p >= n
    /\ ps[WM].state \in {"Ready", "Running"}
    /\ \A p \in Pid : ps[p].state = "Running" => p = current
    /\ current \in Pid => ps[current].state \in {"Running", "Terminated"}
    /\ current = NoProcess =>
          atomicLevel = 0 /\ \A p \in Pid : p < n => ps[p].state = "Ready"
    /\ atomicLevel > 0 => current = WM

\* What it leaves behind.
HandlerPost(ps, n) ==
    /\ processes' \in [Pid -> Process]
    /\ current' \in Pid
    /\ \A p \in Pid : processes'[p].state = "New" <=> p >= n
    /\ processes'[WM].state \in {"Ready", "Running"}
    /\ \A p \in Pid : processes'[p].state = "Running" <=> p = current'
    /\ atomicLevel > 0 => current' = WM
    /\ \A p \in Pid :
          /\ ps[p].state = "Terminated" => processes'[p].state \in {"Terminated", "Killed"}
          /\ ps[p].state = "Killed" => processes'[p].state = "Killed"
          /\ \/ processes'[p].pages = ps[p].pages
             \/ p # current /\ p # current' /\ atomicLevel = 0

LEMMA ModuloRange ==
    ASSUME NEW a \in Nat, NEW n \in Nat \ {0}
    PROVE  a % n \in 0 .. n - 1
  OBVIOUS

LEMMA ModuloSelf ==
    ASSUME NEW n \in Nat \ {0}
    PROVE  n % n = 0
  OBVIOUS

LEMMA PidFacts ==
    /\ WM \in Pid
    /\ NoProcess \notin Pid
    /\ NoProcess \in Nat
    /\ Medium \in Nat /\ Low \in Nat
    /\ MaxProcesses \in Nat
    /\ MaxProcesses >= 2
  BY SizeAssumption, PriorityAssumption DEF WM, Pid, NoProcess

\* The table update, one process at a time.
LEMMA UpdatedAt ==
    ASSUME NEW STATE ps, NEW p \in Pid
    PROVE  /\ p = current /\ Alive(ps) => Updated(ps)[p] = Aged(ps[p], p)
           /\ p # current /\ ps[p].state = "Terminated" => Updated(ps)[p] = Kill(ps[p])
           /\ p = current /\ ~Alive(ps) => Updated(ps)[p] = ps[p]
           /\ p # current /\ ps[p].state # "Terminated" => Updated(ps)[p] = ps[p]
  BY DEF Updated

LEMMA AgedFacts ==
    ASSUME NEW r \in Process, NEW p \in Pid
    PROVE  /\ Aged(r, p) \in Process
           /\ r.age > 1 => Aged(r, p).state = r.state
           /\ ~(r.age > 1) => Aged(r, p).state = "Ready"
           /\ Aged(r, p).pages = r.pages
  <1>1. r.age \in Nat /\ Priority(p) \in Nat
    BY PidFacts DEF Process, Priority
  <1>2. CASE r.age > 1
    <2>1. r.age - 1 \in Nat
      BY <1>1, <1>2
    <2> QED BY <1>2, <2>1 DEF Aged, Process
  <1>3. CASE ~(r.age > 1)
    BY <1>1, <1>3 DEF Aged, Process, State
  <1> QED BY <1>2, <1>3

LEMMA KillFacts ==
    ASSUME NEW r \in Process
    PROVE  Kill(r) \in Process /\ Kill(r).state = "Killed"
  BY DEF Kill, Process, State

\* Updating the table keeps the facts about it and makes nobody Running.
LEMMA UpdatedTable ==
    ASSUME NEW STATE ps, NEW STATE n, HandlerPre(ps, n)
    PROVE  /\ Updated(ps) \in [Pid -> Process]
           /\ \A p \in Pid : Updated(ps)[p].state = "New" <=> p >= n
           /\ \A p \in Pid : p # current => Updated(ps)[p].state # "Running"
           /\ current # WM => Updated(ps)[WM].state = "Ready"
           /\ \A p \in Pid :
                 /\ ps[p].state = "Terminated" => Updated(ps)[p].state \in {"Terminated", "Killed"}
                 /\ ps[p].state = "Killed" => Updated(ps)[p].state = "Killed"
                 /\ \/ Updated(ps)[p].pages = ps[p].pages
                    \/ p # current /\ Updated(ps)[p].state = "Killed"
           /\ InQuantum(ps) => Updated(ps)[current].state = "Running"
           /\ current \in Pid /\ ~InQuantum(ps) =>
                 Updated(ps)[current].state \in {"Ready", "Terminated"}
           /\ current = WM /\ ~InQuantum(ps) => Updated(ps)[WM].state = "Ready"
           /\ current = NoProcess =>
                 \A p \in Pid : p < n => Updated(ps)[p].state = "Ready"
  <1> USE PidFacts
  <1>1. \A p \in Pid : ps[p] \in Process /\ ps[p].state \in State
    BY DEF HandlerPre, Process
  <1>2. ASSUME NEW p \in Pid
        PROVE  /\ Updated(ps)[p] \in Process
               /\ Updated(ps)[p].state = "New" <=> p >= n
               /\ p # current => Updated(ps)[p].state # "Running"
               /\ p # current /\ ps[p].state # "Terminated" =>
                     Updated(ps)[p].state = ps[p].state
               /\ ps[p].state = "Terminated" => Updated(ps)[p].state \in {"Terminated", "Killed"}
               /\ ps[p].state = "Killed" => Updated(ps)[p].state = "Killed"
               /\ \/ Updated(ps)[p].pages = ps[p].pages
                  \/ p # current /\ Updated(ps)[p].state = "Killed"
    <2>1. CASE p = current /\ Alive(ps)
      <3>1. ps[p].state = "Running"
        BY <2>1 DEF HandlerPre, Alive
      <3>2. ~(p >= n)
        BY <3>1 DEF HandlerPre
      <3> QED BY <1>1, <2>1, <3>1, <3>2, UpdatedAt, AgedFacts
    <2>2. CASE p = current /\ ~Alive(ps)
      BY <1>1, <2>2, UpdatedAt DEF HandlerPre
    <2>3. CASE p # current /\ ps[p].state = "Terminated"
      BY <1>1, <2>3, UpdatedAt, KillFacts DEF HandlerPre
    <2>4. CASE p # current /\ ps[p].state # "Terminated"
      BY <1>1, <2>4, UpdatedAt DEF HandlerPre
    <2> QED BY <2>1, <2>2, <2>3, <2>4
  <1>3. Updated(ps) \in [Pid -> Process]
    BY <1>2 DEF Updated
  <1>4. current # WM => Updated(ps)[WM].state = "Ready"
    BY <1>2 DEF HandlerPre
  <1>5. ASSUME current \in Pid
        PROVE  /\ InQuantum(ps) => Updated(ps)[current].state = "Running"
               /\ ~InQuantum(ps) => Updated(ps)[current].state \in {"Ready", "Terminated"}
               /\ current = WM /\ ~InQuantum(ps) => Updated(ps)[WM].state = "Ready"
    <2>1. CASE Alive(ps)
      <3>1. ps[current].state = "Running"
        BY <1>5, <2>1 DEF HandlerPre, Alive
      <3>2. Updated(ps)[current] = Aged(ps[current], current)
        BY <1>5, <2>1, UpdatedAt
      <3> QED BY <1>1, <1>5, <2>1, <3>1, <3>2, AgedFacts DEF InQuantum
    <2>2. CASE ~Alive(ps)
      <3>1. ps[current].state = "Terminated" /\ current # WM
        BY <1>5, <2>2 DEF HandlerPre, Alive
      <3> QED BY <1>5, <2>2, <3>1, UpdatedAt DEF InQuantum
    <2> QED BY <2>1, <2>2
  <1>6. InQuantum(ps) => current \in Pid
    BY DEF InQuantum, Alive
  <1>7. current = NoProcess =>
          \A p \in Pid : p < n => Updated(ps)[p].state = "Ready"
    BY <1>2 DEF HandlerPre
  <1> QED BY <1>2, <1>3, <1>4, <1>5, <1>6, <1>7

\* The scan never falls through: it finds a Ready process, at the latest
\* the window manager.
LEMMA ScanFindsReady ==
    ASSUME NEW STATE ps, NEW STATE n, HandlerPre(ps, n), ~InQuantum(ps),
           NEW i \in 0 .. n - 1, SwitchTo(Updated(ps), n, i)
    PROVE  /\ Candidate(i, n) \in Pid
           /\ Updated(ps)[Candidate(i, n)].state = "Ready"
  <1> DEFINE us == Updated(ps)
             next == Candidate(i, n)
  <1> USE PidFacts
  <1>1. n \in Nat \ {0} /\ n <= MaxProcesses - 1 /\ current \in Nat
    BY DEF HandlerPre, Pid
  <1>2. next \in 0 .. n - 1
    <2>1. current + 1 + i \in Nat
      BY <1>1
    <2> QED BY <1>1, <2>1, ModuloRange DEF Candidate
  <1>3. next \in Pid
    BY <1>1, <1>2 DEF Pid
  <1>4. /\ \A j \in 0 .. i - 1 : us[Candidate(j, n)].state # "Ready"
        /\ us[next].state = "Ready" \/ i = n - 1
    BY DEF SwitchTo
  <1>5. CASE current = NoProcess
    <2>1. \A p \in Pid : p < n => us[p].state = "Ready"
      BY <1>5, UpdatedTable
    <2>2. next < n
      BY <1>1, <1>2
    <2> QED BY <1>3, <2>1, <2>2
  <1>6. CASE current \in Pid
    <2>1. current < n
      BY <1>1, <1>6 DEF HandlerPre, Pid
    <2> DEFINE j == n - 1 - current
    <2>2. j \in 0 .. n - 1 /\ current + 1 + j = n
      BY <1>1, <2>1, <1>6 DEF Pid
    <2>3. Candidate(j, n) = WM
      BY <1>1, <2>2, ModuloSelf DEF Candidate, WM
    <2>4. us[WM].state = "Ready"
      BY <1>6, UpdatedTable
    <2>5. CASE i = n - 1
      <3>1. ~(j < i)
        BY <1>4, <2>2, <2>3, <2>4, <2>5
      <3>2. j = i
        BY <2>2, <2>5, <3>1
      <3> QED BY <1>3, <2>3, <2>4, <3>2
    <2>6. CASE i # n - 1
      BY <1>3, <1>4, <2>6
    <2> QED BY <2>5, <2>6
  <1>7. current \in Pid \/ current = NoProcess
    BY DEF HandlerPre
  <1> QED BY <1>5, <1>6, <1>7

LEMMA SwitchPost ==
    ASSUME NEW STATE ps, NEW STATE n, HandlerPre(ps, n), Switch(ps, n), atomicLevel = 0
    PROVE  HandlerPost(ps, n)
  <1> DEFINE us == Updated(ps)
  <1> USE PidFacts
  <1>1. ~InQuantum(ps)
    BY DEF Switch
  <1>2. PICK i \in 0 .. n - 1 : SwitchTo(us, n, i)
    BY DEF Switch
  <1> DEFINE next == Candidate(i, n)
  <1>3. next \in Pid /\ us[next].state = "Ready"
    BY <1>1, <1>2, ScanFindsReady
  <1>4. /\ processes' = [us EXCEPT ![next].state = "Running"]
        /\ current' = next
    BY <1>2 DEF SwitchTo
  <1>5. /\ us \in [Pid -> Process]
        /\ \A p \in Pid : us[p].state = "New" <=> p >= n
        /\ \A p \in Pid : us[p].state # "Running"
        /\ us[WM].state = "Ready"
        /\ \A p \in Pid :
              /\ ps[p].state = "Terminated" => us[p].state \in {"Terminated", "Killed"}
              /\ ps[p].state = "Killed" => us[p].state = "Killed"
              /\ us[p].pages = ps[p].pages \/ (p # current /\ us[p].state = "Killed")
    <2>1. current \in Pid => us[current].state # "Running"
      BY <1>1, UpdatedTable
    <2> QED BY <1>1, <2>1, UpdatedTable
  <1> HIDE DEF us, next
  <1>6. processes' \in [Pid -> Process]
    BY <1>3, <1>4, <1>5 DEF Process, State
  <1>7. \A p \in Pid : /\ processes'[p].state = IF p = next THEN "Running" ELSE us[p].state
                       /\ processes'[p].pages = us[p].pages
    BY <1>3, <1>4, <1>5 DEF Process
  <1> QED BY <1>3, <1>4, <1>5, <1>6, <1>7 DEF HandlerPost

LEMMA ContinuePost ==
    ASSUME NEW STATE ps, NEW STATE n, HandlerPre(ps, n), Continue(ps), atomicLevel = 0
    PROVE  HandlerPost(ps, n)
  <1>1. /\ InQuantum(ps)
        /\ processes' = Updated(ps)
        /\ current' = current
        /\ current \in Pid
    BY DEF Continue, InQuantum, Alive
  <1>2. \A p \in Pid : Updated(ps)[p].state = "Running" <=> p = current
    BY <1>1, UpdatedTable
  <1>3. Updated(ps)[WM].state \in {"Ready", "Running"}
    BY <1>1, UpdatedTable
  <1>4. /\ Updated(ps) \in [Pid -> Process]
        /\ \A p \in Pid : Updated(ps)[p].state = "New" <=> p >= n
        /\ \A p \in Pid :
              /\ ps[p].state = "Terminated" => Updated(ps)[p].state \in {"Terminated", "Killed"}
              /\ ps[p].state = "Killed" => Updated(ps)[p].state = "Killed"
              /\ \/ Updated(ps)[p].pages = ps[p].pages
                 \/ p # current /\ Updated(ps)[p].state = "Killed"
    BY UpdatedTable
  <1> QED BY <1>1, <1>2, <1>3, <1>4 DEF HandlerPost

LEMMA HandlerKeeps ==
    ASSUME NEW STATE ps, NEW STATE n, HandlerPre(ps, n), InterruptHandler(ps, n)
    PROVE  HandlerPost(ps, n)
  <1> USE PidFacts
  <1>1. n # 0 /\ atomicLevel \in Nat
    BY DEF HandlerPre
  <1>2. CASE atomicLevel > 0
    <2>1. processes' = ps /\ current' = current /\ current = WM
      BY <1>1, <1>2 DEF InterruptHandler, Deferred, HandlerPre
    <2>2. ps[WM].state = "Running"
      BY <2>1 DEF HandlerPre
    <2>3. \A p \in Pid : ps[p].state = "Running" <=> p = current
      BY <2>1, <2>2 DEF HandlerPre
    <2> QED BY <2>1, <2>2, <2>3 DEF HandlerPre, HandlerPost
  <1>3. CASE atomicLevel = 0
    <2>1. Continue(ps) \/ Switch(ps, n)
      BY <1>1, <1>3 DEF InterruptHandler, Deferred
    <2> QED BY <1>3, <2>1, ContinuePost, SwitchPost
  <1> QED BY <1>1, <1>2, <1>3

LEMMA ReturnKeeps ==
    ASSUME NEW STATE ps, NEW STATE n, HandlerPre(ps, n), current \in Pid,
           SystemCallReturn(ps, n)
    PROVE  HandlerPost(ps, n)
  <1>1. CASE ps[current].state = "Terminated" \/ ps[current].age = 0
    BY <1>1, HandlerKeeps DEF SystemCallReturn
  <1>2. CASE ~(ps[current].state = "Terminated" \/ ps[current].age = 0)
    <2>1. processes' = ps /\ current' = current
      BY <1>2 DEF SystemCallReturn
    <2>2. ps[current].state = "Running"
      BY <1>2 DEF HandlerPre
    <2>3. \A p \in Pid : ps[p].state = "Running" <=> p = current
      BY <2>2 DEF HandlerPre
    <2> QED BY <2>1, <2>2, <2>3 DEF HandlerPre, HandlerPost
  <1> QED BY <1>1, <1>2

-----------------------------------------------------------------------------
(* The actions.                                                            *)

\* The body of NoResurrection.
NeverRevived ==
    \A p \in Pid :
        /\ processes[p].state = "Terminated" =>
              processes'[p].state \in {"Terminated", "Killed"}
        /\ processes[p].state = "Killed" => processes'[p].state = "Killed"

\* The body of KilledFromOutside.
FreedFromOutside ==
    \A p \in Pid :
        processes[p].pages > 0 /\ processes'[p].pages = 0 =>
            p # current /\ p # current' /\ atomicLevel = 0

StepSafe == NeverRevived /\ FreedFromOutside

\* What the actions do to the variables the handler does not touch.
PlacesKept ==
    /\ place' \in [Pid -> Place]
    /\ place'[WM] \in WMPlaces
    /\ waitsFor' \in [Pid -> Pid]

LEMMA InvGivesPre ==
    ASSUME SchedulerInv
    PROVE  HandlerPre(processes, pidCount)
  <1> USE PidFacts
  <1>1. pidCount \in 1 .. MaxProcesses - 1
    BY DEF SchedulerInv, TypeOK, TableFilled
  <1> QED
    BY <1>1 DEF SchedulerInv, TypeOK, WMLives, TableFilled, BeforeFirstTick,
                CurrentIsRunning, AtomicSectionsExclude, HandlerPre

LEMMA PostGivesInv ==
    ASSUME NEW STATE ps, NEW STATE n, n \in 1 .. MaxProcesses - 1, atomicLevel \in Nat,
           HandlerPost(ps, n), pidCount' = n, atomicLevel' = atomicLevel, PlacesKept
    PROVE  SchedulerInv'
  <1> USE PidFacts
  <1>1. TypeOK'
    BY DEF TypeOK, HandlerPost, PlacesKept
  <1>2. WMLives' /\ TableFilled'
    BY DEF WMLives, TableFilled, HandlerPost, PlacesKept
  <1>3. BeforeFirstTick' /\ CurrentIsRunning' /\ AtomicSectionsExclude'
    BY DEF BeforeFirstTick, CurrentIsRunning, AtomicSectionsExclude, HandlerPost
  <1> QED BY <1>1, <1>2, <1>3 DEF SchedulerInv

\* A system call that replaces the record of its caller.
LEMMA CallKeeps ==
    ASSUME SchedulerInv, NEW p \in Pid, current = p,
           NEW STATE r, r \in Process,
           r.state = "Running" \/ (r.state = "Terminated" /\ p # WM),
           processes[p].pages > 0 => r.pages > 0,
           SystemCallReturn([processes EXCEPT ![p] = r], pidCount),
           UNCHANGED <<pidCount, atomicLevel>>, PlacesKept
    PROVE  SchedulerInv' /\ StepSafe
  <1> USE PidFacts
  <1> DEFINE ps == [processes EXCEPT ![p] = r]
  <1>1. HandlerPre(processes, pidCount) /\ processes[p].state = "Running"
    BY InvGivesPre DEF SchedulerInv, CurrentIsRunning
  <1>2. ps \in [Pid -> Process] /\ \A q \in Pid : ps[q] = IF q = p THEN r ELSE processes[q]
    BY DEF SchedulerInv, TypeOK
  <1>3. HandlerPre(ps, pidCount)
    <2>1. \A q \in Pid : ps[q].state = "New" <=> q >= pidCount
      BY <1>1, <1>2 DEF HandlerPre
    <2>2. ps[WM].state \in {"Ready", "Running"}
      BY <1>1, <1>2 DEF HandlerPre
    <2> HIDE DEF ps
    <2> QED BY <1>1, <1>2, <2>1, <2>2 DEF HandlerPre
  <1>4. SystemCallReturn(ps, pidCount)
    OBVIOUS
  <1>5. HandlerPost(ps, pidCount)
    BY <1>3, <1>4, ReturnKeeps
  <1>6. pidCount \in 1 .. MaxProcesses - 1 /\ atomicLevel \in Nat
    BY <1>1 DEF HandlerPre
  <1>7. SchedulerInv'
    BY <1>5, <1>6, PostGivesInv
  <1> HIDE DEF ps
  <1>8. NeverRevived
    BY <1>1, <1>2, <1>5 DEF NeverRevived, HandlerPost
  <1>9. FreedFromOutside
    BY <1>2, <1>5 DEF FreedFromOutside, HandlerPost
  <1> QED BY <1>7, <1>8, <1>9 DEF StepSafe

\* A system call that also appends a process to the table.
LEMMA SpawnKeeps ==
    ASSUME SchedulerInv, NEW p \in Pid, current = p, p # WM, ~TableFull,
           NEW STATE ps, ps \in {processes, Terminate(p)},
           NEW STATE child, child \in Process, child.state \in {"Ready", "Killed"}, child.pages > 0,
           SystemCallReturn([ps EXCEPT ![pidCount] = child], pidCount + 1),
           pidCount' = pidCount + 1, UNCHANGED <<atomicLevel, place, waitsFor>>
    PROVE  SchedulerInv' /\ StepSafe
  <1> USE PidFacts
  <1> DEFINE qs == [ps EXCEPT ![pidCount] = child]
  <1>1. HandlerPre(processes, pidCount) /\ processes[p].state = "Running"
    BY InvGivesPre DEF SchedulerInv, CurrentIsRunning
  <1>2. /\ pidCount \in 1 .. MaxProcesses - 1 /\ pidCount # MaxProcesses - 1
        /\ pidCount \in Pid /\ pidCount + 1 \in 1 .. MaxProcesses - 1
        /\ pidCount # p /\ pidCount # WM
        /\ processes[pidCount].state = "New"
    <2>1. pidCount \in 1 .. MaxProcesses - 1 /\ pidCount # MaxProcesses - 1
      BY <1>1 DEF HandlerPre, TableFull
    <2>2. pidCount \in Pid /\ pidCount + 1 \in 1 .. MaxProcesses - 1 /\ pidCount # WM
      BY <2>1 DEF Pid, WM
    <2>3. processes[pidCount].state = "New"
      BY <1>1, <2>1, <2>2 DEF HandlerPre
    <2> QED BY <1>1, <2>1, <2>2, <2>3
  <1>3. /\ ps \in [Pid -> Process]
        /\ \A q \in Pid \ {p} : ps[q] = processes[q]
        /\ ps[p].state \in {"Running", "Terminated"}
        /\ ps[p].pages = processes[p].pages
    BY <1>1 DEF SchedulerInv, TypeOK, Terminate, Process, State
  <1>4. /\ qs \in [Pid -> Process]
        /\ \A q \in Pid : qs[q] = IF q = pidCount THEN child ELSE ps[q]
    BY <1>2, <1>3
  <1>5. SystemCallReturn(qs, pidCount + 1)
    OBVIOUS
  <1> HIDE DEF qs
  <1>6. HandlerPre(qs, pidCount + 1)
    <2>1. \A q \in Pid : qs[q].state = "New" <=> q >= pidCount + 1
      <3>1. \A q \in Pid : q >= pidCount + 1 <=> (q >= pidCount /\ q # pidCount)
        BY <1>2 DEF Pid
      <3> QED BY <1>1, <1>2, <1>3, <1>4, <3>1 DEF HandlerPre
    <2>2. qs[WM].state \in {"Ready", "Running"} /\ qs[p].state \in {"Running", "Terminated"}
      BY <1>1, <1>2, <1>3, <1>4 DEF HandlerPre
    <2>3. \A q \in Pid : qs[q].state = "Running" => q = current
      BY <1>1, <1>3, <1>4 DEF HandlerPre
    <2> QED BY <1>1, <1>2, <1>4, <2>1, <2>2, <2>3 DEF HandlerPre
  <1>7. HandlerPost(qs, pidCount + 1)
    BY <1>5, <1>6, ReturnKeeps
  <1>8. SchedulerInv'
    <2>1. PlacesKept
      BY DEF SchedulerInv, TypeOK, WMLives, PlacesKept
    <2> QED BY <1>1, <1>2, <1>7, <2>1, PostGivesInv DEF HandlerPre
  <1>9. NeverRevived
    BY <1>1, <1>2, <1>3, <1>4, <1>7 DEF NeverRevived, HandlerPost
  <1>10. FreedFromOutside
    <2>1. \A q \in Pid : processes[q].pages > 0 => qs[q].pages > 0
      BY <1>3, <1>4
    <2> QED BY <1>7, <2>1 DEF FreedFromOutside, HandlerPost
  <1> QED BY <1>8, <1>9, <1>10 DEF StepSafe

LEMMA ConstructedFacts ==
    /\ Constructed \in Process /\ Constructed.state = "Ready" /\ Constructed.pages > 0
    /\ [Constructed EXCEPT !.state = "Killed"] \in Process
    /\ [Constructed EXCEPT !.state = "Killed"].state = "Killed"
    /\ [Constructed EXCEPT !.state = "Killed"].pages > 0
    /\ Absent \in Process /\ Absent.state = "New"
  BY DEF Constructed, Absent, Process, State

LEMMA InitInv == Init => SchedulerInv
  <1> SUFFICES ASSUME Init PROVE SchedulerInv
    OBVIOUS
  <1> USE PidFacts, ConstructedFacts
  <1>1. BootCount \in 1 .. MaxProcesses - 1
    BY SizeAssumption
  <1>2. \A p \in Pid : processes[p] = IF p < BootCount THEN Constructed ELSE Absent
    BY DEF Init
  <1>3. TypeOK
    BY <1>1 DEF Init, TypeOK, Place
  <1>4. WMLives /\ TableFilled
    BY <1>1, <1>2 DEF Init, WMLives, TableFilled, WMPlaces, WM, Pid
  <1>5. BeforeFirstTick /\ CurrentIsRunning /\ AtomicSectionsExclude
    BY <1>1, <1>2 DEF Init, BeforeFirstTick, CurrentIsRunning, AtomicSectionsExclude
  <1> QED BY <1>3, <1>4, <1>5 DEF SchedulerInv

\* The steps of the frame loop that leave the process table alone.
LEMMA ComposeKeeps ==
    ASSUME SchedulerInv, ComposeStep
    PROVE  SchedulerInv' /\ StepSafe
  <1> USE PidFacts
  <1>1. /\ UNCHANGED <<processes, pidCount, current, waitsFor>>
        /\ current = WM
        /\ \E there \in WMPlaces : place' = [place EXCEPT ![WM] = there]
    BY DEF ComposeStep, BeginFrame, CopyWindow, CopyDone, SkipWindow, EndFrame, AtWM, WMPlaces
  <1>2. atomicLevel' \in Nat
    BY DEF ComposeStep, BeginFrame, CopyWindow, CopyDone, SkipWindow, EndFrame,
           StartAtomicOperation, EndAtomicOperation, SchedulerInv, TypeOK
  <1>3. TypeOK' /\ WMLives'
    BY <1>1, <1>2 DEF SchedulerInv, TypeOK, WMLives, WMPlaces, Place
  <1>4. /\ TableFilled'
        /\ BeforeFirstTick'
        /\ CurrentIsRunning'
        /\ AtomicSectionsExclude'
    BY <1>1 DEF SchedulerInv, TableFilled, BeforeFirstTick, CurrentIsRunning,
                AtomicSectionsExclude
  <1> QED BY <1>1, <1>3, <1>4 DEF SchedulerInv, StepSafe, NeverRevived, FreedFromOutside

LEMMA TickKeeps ==
    ASSUME SchedulerInv, Tick
    PROVE  SchedulerInv' /\ StepSafe
  <1>1. HandlerPre(processes, pidCount)
    BY InvGivesPre
  <1>2. HandlerPost(processes, pidCount)
    BY <1>1, HandlerKeeps DEF Tick
  <1>3. PlacesKept
    BY DEF Tick, PlacesKept, SchedulerInv, TypeOK, WMLives
  <1>4. SchedulerInv'
    BY <1>1, <1>2, <1>3, PostGivesInv DEF Tick, HandlerPre
  <1> QED BY <1>2, <1>4 DEF StepSafe, NeverRevived, FreedFromOutside, HandlerPost

LEMMA SystemCallKeeps ==
    ASSUME SchedulerInv, NEW p \in Pid, SystemCall(p)
    PROVE  SchedulerInv' /\ StepSafe
  <1> USE PidFacts
  <1> DEFINE r == processes[p]
  <1>1. /\ Calls(p)
        /\ current = p /\ p # WM
        /\ r \in Process /\ r.state = "Running"
        /\ processes \in [Pid -> Process]
        /\ r.age \in Nat /\ r.pages \in Nat /\ r.windows \in Nat
    <2>1. Calls(p)
      BY DEF SystemCall, HandleExit, HandleYield, HandleMmap, HandleInitWindow,
             HandleCloseWindow, HandleSpawn, Spawn, HandleSpawnFails, HandleWaitPID,
             HandleClockNanoSleep
    <2> QED BY <2>1 DEF Calls, SchedulerInv, TypeOK, CurrentIsRunning, Process
  <1>2. UNCHANGED <<place, waitsFor>> => PlacesKept
    BY DEF PlacesKept, SchedulerInv, TypeOK, WMLives
  <1>3. CASE HandleExit(p)
    <2> DEFINE q == [r EXCEPT !.state = "Terminated"]
    <2>1. q \in Process /\ q.state = "Terminated" /\ q.pages = r.pages
      BY <1>1 DEF Process, State
    <2>2. SystemCallReturn([processes EXCEPT ![p] = q], pidCount)
      BY <1>3 DEF HandleExit, Terminate
    <2> HIDE DEF q
    <2> QED BY <1>1, <1>2, <1>3, <2>1, <2>2, CallKeeps DEF HandleExit
  <1>4. CASE HandleYield(p)
    <2> DEFINE q == [r EXCEPT !.age = 0]
    <2>1. q \in Process /\ q.state = "Running" /\ q.pages = r.pages
      BY <1>1 DEF Process
    <2>2. SystemCallReturn([processes EXCEPT ![p] = q], pidCount)
      BY <1>4 DEF HandleYield, Yielded
    <2> HIDE DEF q
    <2> QED BY <1>1, <1>2, <1>4, <2>1, <2>2, CallKeeps DEF HandleYield
  <1>5. CASE HandleMmap(p)
    <2> DEFINE q == [r EXCEPT !.pages = @ + 1]
    <2>1. q \in Process /\ q.state = "Running" /\ q.pages = r.pages + 1
      BY <1>1 DEF Process
    <2>2. SystemCallReturn([processes EXCEPT ![p] = q], pidCount)
      BY <1>5 DEF HandleMmap
    <2>3. processes[p].pages > 0 => q.pages > 0
      BY <1>1, <2>1
    <2> HIDE DEF q
    <2> QED BY <1>1, <1>2, <1>5, <2>1, <2>2, <2>3, CallKeeps DEF HandleMmap
  <1>6. CASE HandleInitWindow(p)
    <2> DEFINE q == [r EXCEPT !.pages = @ + 1, !.windows = @ + 1]
    <2>1. q \in Process /\ q.state = "Running" /\ q.pages = r.pages + 1
      <3>1. r.pages + 1 \in Nat /\ r.windows + 1 \in Nat
        BY <1>1
      <3>2. q = [r EXCEPT !.pages = r.pages + 1, !.windows = r.windows + 1]
        BY <1>1 DEF Process
      <3> QED BY <1>1, <3>1, <3>2 DEF Process
    <2>2. SystemCallReturn([processes EXCEPT ![p] = q], pidCount)
      BY <1>1, <1>6 DEF HandleInitWindow
    <2>3. processes[p].pages > 0 => q.pages > 0
      BY <1>1, <2>1
    <2> HIDE DEF q
    <2> QED BY <1>1, <1>2, <1>6, <2>1, <2>2, <2>3, CallKeeps DEF HandleInitWindow
  <1>7. CASE HandleCloseWindow(p)
    <2> DEFINE q == [r EXCEPT !.windows = @ - 1]
    <2>1. r.windows - 1 \in Nat
      BY <1>1, <1>7 DEF HandleCloseWindow
    <2>2. q \in Process /\ q.state = "Running" /\ q.pages = r.pages
      BY <1>1, <2>1 DEF Process
    <2>3. SystemCallReturn([processes EXCEPT ![p] = q], pidCount)
      BY <1>7 DEF HandleCloseWindow
    <2> HIDE DEF q
    <2> QED BY <1>1, <1>2, <1>7, <2>2, <2>3, CallKeeps DEF HandleCloseWindow
  <1>8. CASE HandleSpawn(p)
    <2>1. PICK ps \in {processes, Terminate(p)} :
             SystemCallReturn([ps EXCEPT ![pidCount] = Constructed], pidCount + 1)
      BY <1>8 DEF HandleSpawn, Spawn
    <2> QED BY <1>1, <1>8, <2>1, SpawnKeeps, ConstructedFacts DEF HandleSpawn, Spawn
  <1>9. CASE HandleSpawnFails(p)
    BY <1>1, <1>9, SpawnKeeps, ConstructedFacts DEF HandleSpawnFails
  <1>10. CASE \E child \in Pid : HandleWaitPID(p, child)
    <2>1. TypeOK' /\ WMLives'
      BY <1>1, <1>10 DEF HandleWaitPID, SchedulerInv, TypeOK, WMLives, Place
    <2> QED
      BY <1>10, <2>1 DEF HandleWaitPID, SchedulerInv, TableFilled, BeforeFirstTick,
                         CurrentIsRunning, AtomicSectionsExclude,
                StepSafe, NeverRevived, FreedFromOutside
  <1>11. CASE HandleClockNanoSleep(p)
    <2>1. TypeOK' /\ WMLives'
      BY <1>1, <1>11 DEF HandleClockNanoSleep, SchedulerInv, TypeOK, WMLives, Place
    <2> QED
      BY <1>11, <2>1 DEF HandleClockNanoSleep, SchedulerInv, TableFilled, BeforeFirstTick,
                         CurrentIsRunning, AtomicSectionsExclude,
                StepSafe, NeverRevived, FreedFromOutside
  <1> QED
    BY <1>3, <1>4, <1>5, <1>6, <1>7, <1>8, <1>9, <1>10, <1>11 DEF SystemCall

\* The loops of waitpid and clock_nanosleep, and the yields of the frame loop.
LEMMA BlockedKeeps ==
    ASSUME SchedulerInv, NEW p \in Pid, Blocked(p) \/ (p = WM /\ WMYield)
    PROVE  SchedulerInv' /\ StepSafe
  <1> USE PidFacts
  <1> DEFINE r == processes[p]
             q == [r EXCEPT !.age = 0]
  <1>1. /\ current = p
        /\ UNCHANGED <<pidCount, atomicLevel>>
        /\ r \in Process /\ r.state = "Running"
        /\ processes \in [Pid -> Process]
        /\ q \in Process /\ q.state = "Running" /\ q.pages = r.pages
    <2>1. current = p /\ UNCHANGED <<pidCount, atomicLevel>>
      BY DEF Blocked, WaitYield, WaitDone, SleepYield, SleepDone, WMYield, AtWM
    <2> QED BY <2>1 DEF SchedulerInv, TypeOK, CurrentIsRunning, Process
  <1>2. PlacesKept
    <2>1. CASE Blocked(p)
      <3>1. p # WM
        BY <2>1 DEF Blocked, WaitYield, WaitDone, SleepYield, SleepDone,
                    SchedulerInv, WMLives, WMPlaces
      <3> QED
        BY <2>1, <3>1 DEF Blocked, WaitYield, WaitDone, SleepYield, SleepDone,
                          PlacesKept, SchedulerInv, TypeOK, WMLives, Place
    <2>2. CASE p = WM /\ WMYield
      BY <2>2 DEF WMYield, AtWM, PlacesKept, SchedulerInv, TypeOK, WMLives, WMPlaces, Place
    <2> QED BY <2>1, <2>2
  <1>3. \/ SystemCallReturn([processes EXCEPT ![p] = q], pidCount)
        \/ SystemCallReturn([processes EXCEPT ![p] = r], pidCount)
    <2>1. processes = [processes EXCEPT ![p] = r]
      BY <1>1
    <2>2. Yielded(p) = [processes EXCEPT ![p] = q]
      BY DEF Yielded
    <2>3. \/ SystemCallReturn(Yielded(p), pidCount)
          \/ SystemCallReturn(processes, pidCount)
      BY DEF Blocked, WaitYield, WaitDone, SleepYield, SleepDone, WMYield
    <2> QED BY <2>1, <2>2, <2>3
  <1>4. /\ processes[p].pages > 0 => q.pages > 0
        /\ processes[p].pages > 0 => r.pages > 0
    BY <1>1
  <1> HIDE DEF q, r
  <1> QED BY <1>1, <1>2, <1>3, <1>4, CallKeeps

LEMMA StepKeeps == SchedulerInv /\ [Next]_vars => SchedulerInv' /\ StepSafe
  <1> SUFFICES ASSUME SchedulerInv, [Next]_vars PROVE SchedulerInv' /\ StepSafe
    OBVIOUS
  <1>1. CASE UNCHANGED vars
    BY <1>1 DEF vars, SchedulerInv, TypeOK, WMLives, TableFilled, BeforeFirstTick,
                CurrentIsRunning, AtomicSectionsExclude,
                StepSafe, NeverRevived, FreedFromOutside
  <1>2. CASE Tick
    BY <1>2, TickKeeps
  <1>3. CASE \E p \in Pid : SystemCall(p) \/ Blocked(p)
    BY <1>3, SystemCallKeeps, BlockedKeeps
  <1>4. CASE WMYield
    BY <1>4, BlockedKeeps, PidFacts
  <1>5. CASE ComposeStep
    BY <1>5, ComposeKeeps
  <1> QED BY <1>1, <1>2, <1>3, <1>4, <1>5 DEF Next

-----------------------------------------------------------------------------

\* The invariant that carries the others: the window manager never exits, so
\* the scan of interruptHandler always finds a Ready process.
THEOREM InvTheorem == Spec => []SchedulerInv
  <1>1. SchedulerInv /\ [Next]_vars => SchedulerInv'
    BY StepKeeps
  <1> QED BY InitInv, <1>1, PTL DEF Spec

\* Every variable keeps its type; in particular processes_ never grows past
\* the slots it has reserved.
THEOREM TypeTheorem == Spec => []TypeOK
  <1>1. SchedulerInv => TypeOK
    BY DEF SchedulerInv
  <1> QED BY InvTheorem, <1>1, PTL

\* interruptHandler leaves exactly one process Running, the current one.
THEOREM CurrentTheorem == Spec => []CurrentIsRunning
  <1>1. SchedulerInv => CurrentIsRunning
    BY DEF SchedulerInv
  <1> QED BY InvTheorem, <1>1, PTL

\* While an atomic section is open no other process runs.
THEOREM AtomicTheorem == Spec => []AtomicSectionsExclude
  <1>1. SchedulerInv => AtomicSectionsExclude
    BY DEF SchedulerInv
  <1> QED BY InvTheorem, <1>1, PTL

\* An exited process is never scheduled again.
THEOREM ResurrectionTheorem == Spec => NoResurrection
  <1>1. SchedulerInv /\ [Next]_vars => [NeverRevived]_vars
    BY StepKeeps DEF StepSafe
  <1>2. Spec => [][NeverRevived]_vars
    BY InvTheorem, <1>1, PTL DEF Spec
  <1> QED BY <1>2 DEF NoResurrection, NeverRevived

\* Memory is given back only on the stack of another process, and not within
\* a frame of the window manager (Process.h:135).
THEOREM KillTheorem == Spec => KilledFromOutside
  <1>1. SchedulerInv /\ [Next]_vars => [FreedFromOutside]_vars
    BY StepKeeps DEF StepSafe
  <1>2. Spec => [][FreedFromOutside]_vars
    BY InvTheorem, <1>1, PTL DEF Spec
  <1> QED BY <1>2 DEF KilledFromOutside, FreedFromOutside

=============================================================================
