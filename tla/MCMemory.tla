------------------------------- MODULE MCMemory -------------------------------
(* Small instances of Memory.tla, of Boot.tla, which ends where Memory     *)
(* begins, and of Launch.tla, which fills the pages that Memory hands out: *)
(* a behaviour is of one of them.                                          *)
EXTENDS Memory

CONSTANT Kinds

VARIABLES machine, pc, up, on, ticked, wild, power,
          given, process, mem, step, seen, reader, kind

bootVars == <<machine, pc, up, on, ticked, wild, power>>
launchVars == <<given, process, mem, step, seen, reader>>

Start == INSTANCE Boot

\* Names and values of a few characters; no argument at all, an empty one, one
\* that does not fit in a page; a variable set twice and one without a value;
\* segments that start in the middle of a page and take two.
Exec == INSTANCE Launch WITH
    PageSize <- 8, KernelPages <- 1, KernelStack <- 2, UserStack <- 4, RedZone <- 2,
    ProcBuffer <- 6, Chunk <- 4,
    Argvs <- { <<>>, << <<-2>>, <<-3, -4, -5>> >>, << <<-2, -2>>, <<>>, <<-4>> >> },
    Envps <- { <<"none">>, <<>>,
               << <<-2, -1, -3>>, <<-4>>, <<-2, -1, -1, -5>>, <<-2, -3, -1>> >> },
    Files <- { << [vaddr |-> 164, data |-> <<-2, -3, -4, -5, -6>>, memsz |-> 5],
                  [vaddr |-> 177, data |-> <<-7>>, memsz |-> 9] >>,
               << [vaddr |-> 168, data |-> <<-2>>, memsz |-> 8] >> }

\* One page for the directory and one for the stacks.
TwoStarts == <<1, 1>>
OneStart == <<1>>
\* Programs are linked above the memory of the machine, or inside of it.
AboveMemory == {16}
InsideMemory == {8}

\* The part that is not looked at stays where it starts.
Unlooked == machine = CHOOSE m \in Start!Machines : Start!Supported(m)

MCInit ==
    /\ Init /\ Start!Init /\ Exec!Init
    /\ kind \in Kinds
    /\ kind # "boot" => Unlooked

MCNext ==
    /\ \/ kind = "memory" /\ Next /\ UNCHANGED bootVars /\ UNCHANGED launchVars
       \/ kind = "boot" /\ Start!Next /\ UNCHANGED vars /\ UNCHANGED launchVars
       \/ kind = "launch" /\ Exec!Next /\ UNCHANGED vars /\ UNCHANGED bootVars
    /\ UNCHANGED kind

all == <<vars, bootVars, launchVars, kind>>

MCSpec ==
    /\ MCInit /\ [][MCNext]_all
    /\ WF_all(kind = "boot" /\ Start!KernelEntry /\ UNCHANGED <<vars, launchVars, kind>>)
    /\ WF_all(kind = "boot" /\ Start!Tick /\ UNCHANGED <<vars, launchVars, kind>>)
    /\ WF_all(kind = "boot" /\ Start!PowerManagement /\ UNCHANGED <<vars, launchVars, kind>>)

\* Boot!NothingUsedTooEarly: everything is used only while it is initialised
\* and mapped (kernelEntry).
NothingUsedTooEarly == Start!NothingUsedTooEarly

\* Boot!BootEnds: kernelEntry comes to its end (kernelEntry).
BootEnds == kind = "boot" => Start!BootEnds

\* Boot!RebootResets: a reboot that was asked for resets (PowerManagement::reboot).
RebootResets == Start!RebootResets

\* Launch!StartsAsGiven: a program finds what its parent gave it (Process::Process
\* and execv_elf).
StartsAsGiven == Exec!StartsAsGiven

\* Launch!ProcTellsTheStart: /proc/<pid> tells what a program was started with
\* (Process::initializeProcessInVFS).
ProcTellsTheStart == Exec!ProcTellsTheStart
=============================================================================
