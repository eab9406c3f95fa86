------------------------------- MODULE Launch -------------------------------
(***************************************************************************)
(* How a process is put together (core/tasks/Process.cpp and execv_elf):   *)
(* its directory and stacks, the block of arguments, the segments, the     *)
(* frame on the kernel stack from which the scheduler starts it, and what  *)
(* /proc/<pid> tells of it.  A cell is a word or a character; characters   *)
(* and unwritten cells are negative numbers, so that NULL and the end of a *)
(* string are 0.                                                           *)
(***************************************************************************)
EXTENDS Integers, Sequences, SequencesExt, FiniteSets

CONSTANTS
    PageSize,        \* PAGE_SIZE, in cells
    KernelPages,     \* kernelLastPage
    KernelStack,     \* PROCESS_KERNEL_STACK_SIZE
    UserStack,       \* PROCESS_USER_STACK_SIZE
    RedZone,         \* the 512 bytes above the first user stack pointer
    Argvs, Envps,    \* what the callers pass; NoEnvironment is a null envp
    Files,           \* the executables: sequences of PT_LOAD segments
    ProcBuffer,      \* the buffer that cmdline and environ are written to
    Chunk            \* what a reader of /proc asks for at a time

VARIABLES
    given,     \* the arguments of newProcess
    process,   \* the Process
    mem,       \* the frames handed out so far, cell by cell
    step,      \* where the construction is
    seen,      \* what the program finds when it starts
    reader     \* somebody who reads a file of /proc/<pid> piece by piece

vars == <<given, process, mem, step, seen, reader>>

Unwritten == -9
Equals == -1
Platform == <<-8>>
NoEnvironment == <<"none">>

Dispatcher == 1       \* the address of Process::dispatcher
Entry == 2            \* the entry point, of the kernel's pages or of the file

Cells(pages) == pages * PageSize
Pages(cells) == (cells + PageSize - 1) \div PageSize
Page(a) == a \div PageSize
FreeFrame == Len(mem) \div PageSize

-----------------------------------------------------------------------------
\* Memory: cell a is mem[a + 1].  A write past what was handed out is lost.
Put(m, a, cells) ==
    [i \in DOMAIN m |-> IF i - 1 - a \in 0 .. Len(cells) - 1 THEN cells[i - a] ELSE m[i]]

More(m, pages) == m \o [i \in 1 .. Cells(pages) |-> Unwritten]

\* mapPages of frames at first, for the process.
Mapped(dir, frame, page, count, user) ==
    [v \in DOMAIN dir \cup (page .. page + count - 1) |->
        IF v \in page .. page + count - 1
        THEN [frame |-> frame + (v - page), user |-> user] ELSE dir[v]]

\* What the code at an address finds there, NULL and garbage included.
Found(p, m, a) ==
    IF p.mode = "Kernel" THEN IF a + 1 \in DOMAIN m THEN m[a + 1] ELSE Unwritten
    ELSE IF Page(a) \notin DOMAIN p.dir \/ ~p.dir[Page(a)].user THEN Unwritten
    ELSE m[Cells(p.dir[Page(a)].frame) + (a % PageSize) + 1]

\* The cells from an address up to the first 0.
UpToZero(p, m, a) ==
    LET ends == {k \in 0 .. Len(m) : Found(p, m, a + k) = 0}
    IN  IF ends = {} THEN <<Unwritten>>
        ELSE LET n == CHOOSE k \in ends : \A j \in ends : k <= j
             IN  [i \in 1 .. n |-> Found(p, m, a + i - 1)]

Strings(p, m, pointers) == [i \in DOMAIN pointers |-> UpToZero(p, m, pointers[i])]

-----------------------------------------------------------------------------
\* The environment: captureEnvironment keeps the last value of every key.
Defaults == << <<-2, Equals, -7>>, <<-3, Equals, -6>> >>

Parsed(envp) ==
    LET entries == IF envp = NoEnvironment THEN Defaults ELSE envp
        Split(e) == SelectInSeq(e, LAMBDA c : c = Equals)
        Key(e) == SubSeq(e, 1, Split(e) - 1)
    IN  {entries[i] : i \in {j \in DOMAIN entries :
            /\ Split(entries[j]) # 0
            /\ \A k \in j + 1 .. Len(entries) :
                   Split(entries[k]) # 0 => Key(entries[k]) # Key(entries[j])}}

\* The order of the map.
Environment(p) == SetToSeq(p.env)

Ended(string) == Append(string, 0)
Written(strings) == FlattenSeq([i \in DOMAIN strings |-> Ended(strings[i])])

\* The pointers to strings written one after the other from address a on.
Pointers(strings, a) ==
    [i \in DOMAIN strings |-> a + Len(Written(SubSeq(strings, 1, i - 1)))]

-----------------------------------------------------------------------------
\* A frame of CPURegisters: cr3, intNo, errorCode, eip, userEsp, ss.
FrameSize == 6
IntNo == 1
Frame(regs) == <<regs.cr3, 0, 0, regs.eip, regs.userEsp, regs.ss>>

\* initializePagingDirectory: the directory, the kernel stack, the user stack.
Paged(g) ==
    LET user == g.mode = "User"
        own == IF user THEN 1 ELSE 0
        k == FreeFrame + own
        u == k + KernelStack
        base == IF ~user THEN <<>>
                ELSE Mapped(Mapped(Mapped(<<>>, FreeFrame, FreeFrame, 1, TRUE),
                                   u, u, UserStack, TRUE),
                            0, 0, KernelPages, g.internal)
    IN  [mem |-> More(mem, own + KernelStack + (IF user THEN UserStack ELSE 0)),
         kernelStack |-> Cells(k), userStack |-> Cells(u),
         cr3 |-> IF user THEN FreeFrame ELSE 0,
         dir |-> IF user THEN Mapped(base, k, k, KernelStack, FALSE) ELSE base]

\* initializeCPUState
State(g, paged) ==
    [cr3 |-> paged.cr3, eip |-> Dispatcher, ss |-> Unwritten,
     esp |-> paged.kernelStack + Cells(KernelStack),
     userEsp |-> IF g.mode = "User" THEN paged.userStack + Cells(UserStack) - RedZone ELSE 0]

RedZoned(g, paged) ==
    IF g.mode = "Kernel" THEN paged.mem
    ELSE Put(paged.mem, paged.userStack + Cells(UserStack) - RedZone,
             [i \in 1 .. RedZone |-> 0])

\* allocatePages of the process: at the frames' own addresses.
Allocated(p, m, pages) ==
    [p EXCEPT !.dir = IF p.mode = "Kernel" THEN @
                      ELSE Mapped(@, Len(m) \div PageSize, Len(m) \div PageSize, pages, TRUE)]

Size(strings) == Len(Written(strings))

\* initializeArguments: [argv] [strings], and the Arguments struct on the
\* stack that the dispatcher is entered with.
BuiltinSize(argv) == (Len(argv) + 1) + Size(argv)

Arguments(p, m, argv) ==
    LET block == Len(m)
        strAt == block + Len(argv) + 1
        laid == Put(More(m, Pages(BuiltinSize(argv))), block,
                    Pointers(argv, strAt) \o <<0>> \o Written(argv))
        args == <<Entry, Len(argv), block>>
        q == Allocated(p, m, Pages(BuiltinSize(argv)))
    IN  IF p.mode = "Kernel"
        THEN LET esp == p.regs.esp - Len(args)
             IN  [process |-> [q EXCEPT !.regs.esp = esp, !.regs.ss = esp],
                  mem |-> Put(laid, esp, args)]
        ELSE LET at == p.regs.userEsp - Len(args)
             IN  [process |-> [q EXCEPT !.regs.userEsp = at - 2],
                  mem |-> Put(laid, at - 1, <<at>> \o args)]

\* The frame that is written to the kernel stack; esp is left at its intNo.
Snapshot(p, m) ==
    LET at == p.regs.esp - FrameSize
    IN  [process |-> [p EXCEPT !.regs.esp = at + IntNo],
         mem |-> Put(m, at, Frame(p.regs))]

\* The constructor of Process.
Construct(g) ==
    LET paged == Paged(g)
        p == [mode |-> g.mode, state |-> "Ready", dir |-> paged.dir,
              regs |-> State(g, paged), env |-> Parsed(g.envp), args |-> g.argv,
              aux |-> <<>>, brk |-> 0, loaded |-> 0]
        m == RedZoned(g, paged)
        ready == IF g.internal THEN Arguments(p, m, g.argv)
                 ELSE [process |-> p, mem |-> m]
    IN  Snapshot(ready.process, ready.mem)

-----------------------------------------------------------------------------
\* execv_elf.  A segment is put at its address in fresh frames, the part that
\* the file does not hold is zeroed.
Loaded(p, m, s) ==
    LET offset == s.vaddr % PageSize
        pages == Pages(s.memsz + offset)
        zeros == [i \in 1 .. s.memsz - Len(s.data) |-> 0]
    IN  [process |-> [p EXCEPT !.dir = Mapped(@, Len(m) \div PageSize, Page(s.vaddr), pages, TRUE),
                               !.brk = IF s.vaddr + s.memsz > @ THEN s.vaddr + s.memsz ELSE @,
                               !.loaded = @ + 1],
         mem |-> Put(More(m, pages), Len(m) + offset, s.data \o zeros)]

AlignedBreak(p) == [p EXCEPT !.brk = Cells(Pages(@))]

\* buildAuxiliaryVectorForELF, of which the entries with a value of their own.
AtPhnum == 5
AtPagesz == 6
AtEntry == 9
AtPlatform == 15
AuxiliaryVector(file) ==
    << <<AtPagesz, PageSize>>, <<AtPhnum, Len(file)>>, <<AtEntry, Entry>>, <<AtPlatform, 0>> >>

\* A bug: the strings are counted without their ends.
ElfSize_NoEnds(p, argv) ==
    (Len(argv) + 1) + (Cardinality(p.env) + 1) + (Len(p.aux) + 1) * 2
        + Len(FlattenSeq(argv)) + Len(FlattenSeq(Environment(p))) + Len(Platform)

\* totalSize of initializeArgumentsForELF.
ElfSize(p, argv) ==
    (Len(argv) + 1) + (Cardinality(p.env) + 1) + (Len(p.aux) + 1) * 2
        + Size(argv) + Size(Environment(p)) + Size(<<Platform>>)

\* initializeArgumentsForELF: [argv] [envp] [auxv] [strings] in a block, and
\* the three arrays and argc pushed on the user stack.
ArgumentsForELF(p, m, argv) ==
    LET block == Len(m)
        envp == Environment(p)
        strings == argv \o envp \o <<Platform>>
        strAt == block + (Len(argv) + 1) + (Len(envp) + 1) + (Len(p.aux) + 1) * 2
        pointers == Pointers(strings, strAt)
        argvCells == SubSeq(pointers, 1, Len(argv)) \o <<0>>
        envpCells == SubSeq(pointers, Len(argv) + 1, Len(argv) + Len(envp)) \o <<0>>
        aux == [i \in DOMAIN p.aux |->
                   IF p.aux[i][1] = AtPlatform THEN <<AtPlatform, Last(pointers)>> ELSE p.aux[i]]
        auxCells == FlattenSeq(aux) \o <<0, 0>>
        pages == Pages(ElfSize(p, argv))
        laid == Put(More(m, pages), block, argvCells \o envpCells \o auxCells \o Written(strings))
        pushed == <<Len(argv)>> \o argvCells \o envpCells \o auxCells
        userEsp == p.regs.userEsp - Len(pushed)
    IN  [process |-> [Allocated(p, m, pages) EXCEPT !.aux = aux, !.regs.userEsp = userEsp],
         mem |-> Put(laid, userEsp, pushed)]

\* The frame that the constructor wrote gets the entry point and the stack.
Patched(p, m) ==
    [process |-> [p EXCEPT !.regs.eip = Entry, !.state = "Ready"],
     mem |-> Put(Put(m, p.regs.esp + 2, <<Entry>>),
                 (p.regs.esp - IntNo) + 4, <<p.regs.userEsp>>)]

-----------------------------------------------------------------------------
Nothing == [mode |-> "none"]
Idle == [file |-> "none", got |-> <<>>, done |-> FALSE]

Init ==
    /\ given = Nothing /\ process = Nothing /\ seen = Nothing
    /\ mem = [i \in 1 .. Cells(KernelPages) |-> Unwritten]
    /\ step = "none" /\ reader = Idle

Built(made, next) == process' = made.process /\ mem' = made.mem /\ step' = next

\* execv_builtin: the process is ready when its constructor ends.
ExecvBuiltin ==
    /\ step = "none"
    /\ \E mode \in {"Kernel", "User"}, argv \in Argvs, envp \in Envps :
           given' = [mode |-> mode, internal |-> TRUE, argv |-> argv, envp |-> envp, file |-> <<>>]
    /\ Built(Construct(given'), "ready")
    /\ UNCHANGED <<seen, reader>>

\* execv_elf, after the header was found to be good: the process is in the
\* table, and Killed until it is complete.
ExecvElf ==
    /\ step = "none"
    /\ \E argv \in Argvs, envp \in Envps, file \in Files :
           given' = [mode |-> "User", internal |-> FALSE, argv |-> argv, envp |-> envp, file |-> file]
    /\ LET made == Construct(given')
       IN  Built([made EXCEPT !.process.state = "Killed"], "loading")
    /\ UNCHANGED <<seen, reader>>

MoreSegments == step = "loading" /\ process.loaded < Len(given.file)

LoadSegment ==
    /\ MoreSegments
    /\ Built(Loaded(process, mem, given.file[process.loaded + 1]), "loading")
    /\ UNCHANGED <<given, seen, reader>>

\* No frames for a segment: the process stays Killed, with what it has.
LoadFails ==
    /\ MoreSegments
    /\ step' = "failed"
    /\ UNCHANGED <<given, process, mem, seen, reader>>

Complete ==
    /\ step = "loading" /\ ~MoreSegments
    /\ LET p == [AlignedBreak(process) EXCEPT !.aux = AuxiliaryVector(given.file)]
           args == ArgumentsForELF(p, mem, given.argv)
       IN  Built(Patched(args.process, args.mem), "ready")
    /\ UNCHANGED <<given, seen, reader>>

\* The scheduler returns into the frame.  A return to the kernel's ring leaves
\* the stack pointer in the frame, at userEsp, where ss is the first argument.
Start(p, m) ==
    LET sp == IF p.mode = "Kernel" THEN p.regs.esp + 3 ELSE m[p.regs.esp + 4]
    IN  [eip |-> m[p.regs.esp + 3], sp |-> sp]

\* What dispatcher hands to the entry point.
SeenByBuiltin(p, m) ==
    LET args == Found(p, m, Start(p, m).sp + 1)
    IN  [eip |-> Start(p, m).eip, entry |-> Found(p, m, args), argc |-> Found(p, m, args + 1),
         argv |-> Strings(p, m, UpToZero(p, m, Found(p, m, args + 2)))]

\* What the start code of a program finds on its stack.
SeenByElf(p, m) ==
    LET sp == Start(p, m).sp
        argv == UpToZero(p, m, sp + 1)
        envp == UpToZero(p, m, sp + 1 + Len(argv) + 1)
        auxAt == sp + 1 + Len(argv) + 1 + Len(envp) + 1
        n == CHOOSE k \in 0 .. Len(m) :
                 k = Len(m) \/ (Found(p, m, auxAt + 2 * k) = 0
                                 /\ \A j \in 0 .. k - 1 : Found(p, m, auxAt + 2 * j) # 0)
        Value(type) == {Found(p, m, auxAt + 2 * k + 1) :
                           k \in {j \in 0 .. n - 1 : Found(p, m, auxAt + 2 * j) = type}}
    IN  [eip |-> Start(p, m).eip, argc |-> Found(p, m, sp), argv |-> Strings(p, m, argv),
         env |-> ToSet(Strings(p, m, envp)), entry |-> Value(AtEntry),
         platform |-> {UpToZero(p, m, a) : a \in Value(AtPlatform)},
         image |-> [i \in DOMAIN given.file |->
                       [k \in 1 .. given.file[i].memsz |-> Found(p, m, given.file[i].vaddr + k - 1)]]]

Run ==
    /\ step = "ready" /\ process.state = "Ready"
    /\ step' = "running" /\ process' = [process EXCEPT !.state = "Running"]
    /\ seen' = IF given.internal THEN SeenByBuiltin(process, mem) ELSE SeenByElf(process, mem)
    /\ UNCHANGED <<given, mem, reader>>

-----------------------------------------------------------------------------
\* The program ends (Process::terminate).
Exit ==
    /\ step = "running" /\ process.state = "Running"
    /\ process' = [process EXCEPT !.state = "Terminated"]
    /\ UNCHANGED <<given, mem, step, seen, reader>>

\* The strings that fit in the buffer together (cmdline and environ stop at the
\* first that does not).
Fitting(strings) ==
    LET n == CHOOSE k \in 0 .. Len(strings) :
                 /\ Size(SubSeq(strings, 1, k)) <= ProcBuffer
                 /\ k = Len(strings) \/ Size(SubSeq(strings, 1, k + 1)) > ProcBuffer
    IN  SubSeq(strings, 1, n)

SerializeCmdline(p) == Written(Fitting(p.args))
SerializeEnviron(p) == Written(Fitting(Environment(p)))
StateCode(p) == CASE p.state = "Running" -> -2 [] p.state = "Ready" -> -3
                  [] p.state = "Terminated" -> -4 [] p.state = "Killed" -> -5
Status(p) == <<StateCode(p), FreeFrame - KernelPages>>
SerializeStat(p) == <<StateCode(p), FreeFrame - KernelPages, 0>>

\* The reads of the FunctionInodes under /proc/<pid>.
Content(file) ==
    CASE file = "cmdline" -> SerializeCmdline(process) [] file = "environ" -> SerializeEnviron(process)
      [] file \in {"stdout", "stderr"} -> <<>>   \* nothing writes them
      [] file = "status" -> Status(process) [] file = "stat" -> SerializeStat(process)

\* A bug: what is left is counted from the start of the file.
Piece_FromStart(content, size, offset) ==
    LET toCopy == IF Len(content) < size THEN Len(content) ELSE size
    IN  IF offset >= Len(content) THEN <<>> ELSE SubSeq(content, 1, toCopy)

\* The slice that every read function cuts from what it has written.
Piece(content, size, offset) ==
    LET available == Len(content) - offset
        toCopy == IF available < size THEN available ELSE size
    IN  IF offset >= Len(content) THEN <<>> ELSE SubSeq(content, offset + 1, offset + toCopy)

Open ==
    /\ step # "none" /\ reader = Idle
    /\ \E file \in {"cmdline", "environ", "stdout", "stderr", "status", "stat"} :
           reader' = [Idle EXCEPT !.file = file]
    /\ UNCHANGED <<given, process, mem, step, seen>>

Read ==
    /\ reader # Idle /\ ~reader.done
    /\ LET piece == Piece(Content(reader.file), Chunk, Len(reader.got))
       IN  reader' = [reader EXCEPT !.got = @ \o piece, !.done = piece = <<>>]
    /\ UNCHANGED <<given, process, mem, step, seen>>

Next ==
    \/ ExecvBuiltin \/ ExecvElf \/ LoadSegment \/ LoadFails \/ Complete
    \/ Run \/ Exit \/ Open \/ Read

Spec == Init /\ [][Next]_vars

-----------------------------------------------------------------------------
\* A program starts with what its parent gave it: the entry point is reached
\* through the frame, the arguments through the stack, the block and the pages
\* that its own directory shows it; a file's program finds its segments, zeroed
\* to their ends, the last value of each variable, and a free page at its break
\* (Process::Process, initializeArguments, initializeArgumentsForELF, execv_elf).
LastValues(envp) ==
    {envp[i] : i \in {j \in DOMAIN envp :
        \E c \in DOMAIN envp[j] : 
            /\ envp[j][c] = Equals /\ \A b \in 1 .. c - 1 : envp[j][b] # Equals
            /\ \A k \in j + 1 .. Len(envp) : ~IsPrefix(SubSeq(envp[j], 1, c), envp[k])}}

StartsAsGiven ==
    seen # Nothing =>
        /\ seen.argc = Len(given.argv) /\ seen.argv = given.argv
        /\ IF given.internal THEN seen.eip = Dispatcher /\ seen.entry = Entry
           ELSE /\ seen.eip = Entry /\ seen.entry = {Entry} /\ seen.platform = {Platform}
                /\ seen.env = LastValues(IF given.envp = NoEnvironment THEN Defaults ELSE given.envp)
                /\ \A i \in DOMAIN given.file :
                       LET s == given.file[i]
                       IN  /\ IsPrefix(s.data, seen.image[i])
                           /\ \A k \in Len(s.data) + 1 .. s.memsz : seen.image[i][k] = 0
                           /\ s.vaddr + s.memsz <= process.brk
                /\ process.brk % PageSize = 0 /\ Page(process.brk) \notin DOMAIN process.dir

\* Reading a file of /proc/<pid> piece by piece while the process goes on gives
\* what the program was started with, in whole strings
\* (Process::initializeProcessInVFS).
ProcTellsTheStart ==
    reader.done =>
        CASE reader.file = "cmdline" ->
                 /\ \E n \in 0 .. Len(given.argv) : reader.got = Written(SubSeq(given.argv, 1, n))
                 /\ Size(given.argv) <= ProcBuffer => reader.got = Written(given.argv)
          [] reader.file = "environ" /\ seen # Nothing /\ ~given.internal ->
                 /\ reader.got # <<>> => Last(reader.got) = 0
                 /\ Size(SetToSeq(seen.env)) <= ProcBuffer => Len(reader.got) = Size(SetToSeq(seen.env))
          [] OTHER -> TRUE

=============================================================================
