--------------------------------- MODULE Boot ---------------------------------
(***************************************************************************)
(* From the boot loader to the scheduler and back to the power button:     *)
(* PalmyraOS/source/kernelEntry.cpp, core/kernel.cpp and the parts of the  *)
(* kernel it brings up.  kernelEntry is a list of calls, each of which     *)
(* needs what others have set up, on a machine that may lack a device.     *)
(* Three things change underneath: kmalloc may not be called once the      *)
(* physical memory is managed, memory that was not mapped is lost when     *)
(* paging is switched on, and a few calls run with interrupts enabled.     *)
(*                                                                         *)
(* "up" holds what may be used; a call uses some of it, adds some and      *)
(* takes some away.  Whatever is used while it is not up goes to "wild".   *)
(***************************************************************************)
EXTENDS Naturals, Sequences

VARIABLES
    machine,  \* what the boot loader and the hardware offer
    pc,       \* the call of kernelEntry that comes next
    up,       \* what is initialised, reachable or allowed
    on,       \* interrupts are enabled
    ticked,   \* the timer has interrupted the current call
    wild,     \* what was used while it was not up
    power     \* "on", how the machine is being stopped, or how it ended

vars == <<machine, pc, up, on, ticked, wild, power>>

-----------------------------------------------------------------------------
(* The machine. *)

Machines == [
    loader  : BOOLEAN,                              \* Multiboot 2 with a valid structure
    memory  : BOOLEAN,                              \* the memory tag
    screen  : BOOLEAN,                              \* a VBE or framebuffer tag
    adapter : {"none", "same", "other"},            \* BGA, at the tag's address or not
    acpi    : BOOLEAN,                              \* a valid RSDP and root table
    hpet    : BOOLEAN,                              \* an HPET table in system memory
    mcfg    : BOOLEAN,                              \* an MCFG table
    reset   : {"none", "port", "memory"},           \* the FADT's reset register
    s5      : BOOLEAN,                              \* _S5_ and the PM1a control block
    nic     : {"none", "broken", "good"},           \* a PCnet card on buses 0 to 63
    disk    : {"none", "other", "fat32"}]           \* the type of a partition

\* What the code takes for granted without asking: where it draws, what memory
\* there is, and that nothing but its own tables lies outside of the RAM it maps.
Supported(m) ==
    /\ m.screen /\ m.memory
    /\ m.adapter # "other"
    /\ m.reset # "memory"
    /\ ~m.acpi => ~m.hpet /\ ~m.mcfg /\ m.reset = "none" /\ ~m.s5
    /\ ~m.mcfg => m.nic = "none"

\* Physical addresses outside of what the kernel directory maps by itself.
Regions == {"video", "tables", "hpet registers", "config space", "reset register"}

-----------------------------------------------------------------------------
(* kernelEntry *)

Early == <<"constructors", "serial", "multiboot", "graphics", "adapter", "clear", "console">>
Tables == <<"acpi", "log tables", "power", "hpet", "pcie", "enumerate", "gdt", "idt", "clock">>
Memory == <<"frames", "sti", "map", "switch", "cli", "nics", "protocols", "connectivity", "vfs", "rtc">>
Measure == <<"sti", "measure", "cli", "tune">>
Devices_NoTicks == <<"drives", "partitions", "calls", "windows", "keyboard", "mouse", "binaries">>
Devices == <<"sti", "drives", "partitions", "cli", "calls", "windows", "keyboard", "mouse", "binaries">>
Programs == <<"tasks", "processes", "sti">>

Order == Early \o Tables \o Memory \o Measure \o Devices \o Measure \o Programs

At(call) == power = "on" /\ pc <= Len(Order) /\ Order[pc] = call
Running == power = "on" /\ pc > Len(Order)
If(condition, things) == IF condition THEN things ELSE {}

Use(things) == wild' = wild \cup (things \ up)

Call(call, uses, gives, loses) ==
    /\ At(call)
    /\ pc' = pc + 1
    /\ Use(uses)
    /\ up' = (up \ loses) \cup gives
    /\ on' = CASE call = "sti" -> TRUE
               [] call = "cli" -> FALSE
               [] OTHER -> on
    /\ ticked' = FALSE
    /\ UNCHANGED <<machine, power>>

Panic(call) ==
    /\ At(call)
    /\ power' = "panic"
    /\ UNCHANGED <<machine, pc, up, on, ticked, wild>>

Init ==
    /\ machine \in {m \in Machines : Supported(m)}
    /\ pc = 1
    /\ up = Regions \cup {"kmalloc"}
    /\ on = FALSE
    /\ ticked = FALSE
    /\ wild = {}
    /\ power = "on"

EnableInterrupts == Call("sti", {"idt"}, {}, {})
DisableInterrupts == Call("cli", {}, {}, {})

-----------------------------------------------------------------------------
(* The boot loader's information, the screen and the log. *)

CallConstructors == Call("constructors", {}, {"statics"}, {})
InitializeSerialPort == Call("serial", {"statics"}, {"log"}, {})

CheckMultiboot ==
    IF machine.loader THEN Call("multiboot", {"log"}, {"information"}, {})
                      ELSE Panic("multiboot")

\* initializeGraphicsWithFramebuffer
Screen == {"display", "text renderer"}

\* The result is not looked at.
InitializeGraphics == Call("graphics", {"information", "kmalloc", "log"}, If(machine.screen, Screen), {})

\* A second back buffer, display and renderer take the place of the first.
InitializeBGA ==
    Call("adapter", If(machine.adapter # "none", {"kmalloc"}), If(machine.adapter # "none", Screen), {})

Draw == Screen \cup {"video"}

ClearScreen == Call("clear", Draw, {}, {})
MakeConsole == Call("console", Draw \cup {"kmalloc"}, {"console"}, {})
Write == Draw \cup {"console"}

-----------------------------------------------------------------------------
(* ACPI: power management, HPET and PCIe are only looked for behind it. *)

Has(thing) == thing \in up

InitializeACPI ==
    Call("acpi", {"information"} \cup Write \cup If(machine.acpi, {"tables"}), If(machine.acpi, {"acpi"}), {})

LogAllTables == Call("log tables", {"log"} \cup If(Has("acpi"), {"tables"}), {}, {})

InitializePower ==
    Call("power", Write \cup If(Has("acpi"), {"tables"}), If(Has("acpi"), {"power"}), {})

InitializeHPET ==
    LET found == Has("acpi") /\ machine.hpet
    IN Call("hpet", Write \cup If(Has("acpi"), {"tables"}) \cup If(found, {"hpet registers"}), If(found, {"hpet"}), {})

InitializePCIe ==
    Call("pcie", Write \cup If(Has("acpi"), {"tables"}), If(Has("acpi") /\ machine.mcfg, {"pcie"}), {})

\* A bus that the table does not name reads as all ones, without an access.
ConfigReads == If(Has("pcie"), {"config space"})

EnumerateDevices == Call("enumerate", Write \cup ConfigReads, {}, {})

InitializeGDT == Call("gdt", Write \cup {"kmalloc"}, {"gdt"}, {})
InitializeInterrupts == Call("idt", Write \cup {"kmalloc", "gdt"}, {"idt"}, {})
InitializeClock == Call("clock", Write \cup {"idt"}, {"clock"}, {})

-----------------------------------------------------------------------------
(* Memory *)

\* Without a memory tag the call fails and nobody looks at it.
InitializePhysicalMemory ==
    Call("frames",
         Write \cup {"information"} \cup If(machine.memory, {"kmalloc"}),
         If(machine.memory, {"frames"}),
         If(machine.memory, {"kmalloc"}))

\* What the new directory maps besides the kernel and the tables of all pages:
\* the address of the boot loader's screen, the HPET and the configuration space.
Mapped_NoTimer ==
    If(machine.screen /\ machine.adapter # "other", {"video"})
        \cup If(Has("acpi") /\ machine.mcfg, {"config space"})
Mapped ==
    If(machine.screen /\ machine.adapter # "other", {"video"})
        \cup If(Has("hpet"), {"hpet registers"})
        \cup If(Has("acpi") /\ machine.mcfg, {"config space"})

MapMemory ==
    Call("map", Write \cup {"information", "frames"} \cup If(Has("acpi"), {"tables"}), If(machine.memory, {"directory"}), {})

SwitchDirectory ==
    IF Has("directory")
    THEN Call("switch", Write \cup {"directory", "idt"}, {"paging", "heap"}, Regions \ Mapped)
    ELSE Call("switch", Write, {}, {})

-----------------------------------------------------------------------------
(* The network and the first files. *)

\* PCnetDriver::initialize sets the interrupt handler before it can fail, and
\* the driver that failed is freed: the handler asks for the default interface.
DriverInitialize == {"nic handler"}
DriverBuffers == {"heap", "idt"}
Registered == {"interface"}
DriverEnable == {"poll handler"}

InitializePCIeDrivers ==
    Call("nics",
         Write \cup ConfigReads
             \cup If(machine.nic # "none", DriverBuffers) \cup If(machine.nic = "good", {"clock"}),
         If(machine.nic # "none", DriverInitialize) \cup If(machine.nic = "good", Registered \cup DriverEnable),
         {})

InitializeNetworkProtocols ==
    Call("protocols", Write \cup If(Has("interface"), {"heap"}), If(Has("interface"), {"protocols"}), {})

\* Each of the calls asks whether its protocol was initialised.
TestNetworkConnectivity ==
    Call("connectivity", Write \cup If(Has("protocols"), {"interface", "heap"}), {}, {})

InitializeVirtualFileSystem == Call("vfs", Write \cup {"heap"}, {"vfs"}, {})

InitializeRTC ==
    IF Has("vfs") THEN Call("rtc", Write \cup {"heap"}, {"rtc"}, {}) ELSE Panic("rtc")

-----------------------------------------------------------------------------
(* Clocks, disks, system calls, windows and input. *)

\* At least one of three measurements with the HPET counts.
MeasureWithHPET ==
    /\ Has("hpet")
    /\ Call("measure", Write \cup {"hpet registers"}, {"cpu frequency"}, {})

\* CPU::initialize, without an HPET or when none of the measurements counted:
\* the clock's ticks are counted while the RTC advances by two seconds.
MeasureWithRTC ==
    /\ ticked
    /\ Call("measure", Write \cup If(Has("hpet"), {"hpet registers"}) \cup {"clock"}, {"cpu frequency", "tick frequency"}, {})

TuneClock == Call("tune", Write \cup If(Has("tick frequency"), {"clock"}), {}, {})

\* A drive that does not answer is given up after so many ticks.
InitializeDrivers ==
    /\ machine.disk = "none" => ticked
    /\ Call("drives", Write \cup {"heap", "clock"}, {"drives"}, {})

\* Of each drive, present or not, the first sector is read within so many ticks.
InitializePartitions ==
    /\ machine.disk = "none" => ticked
    /\ Call("partitions",
            Write \cup {"heap", "clock"} \cup If(machine.disk = "fat32", {"vfs"}),
            If(machine.disk = "fat32", {"disk files"}), {})

InitializeSystemCalls == Call("calls", Write \cup {"idt", "heap"}, {"calls"}, {})

\* The queues of events are made here and not by the constructors.
InitializeWindows == Call("windows", Write \cup {"heap"}, {"event queues"}, {})

\* The handlers are set only if the device acknowledges the commands before.
InitializeKeyboard ==
    \E acknowledged \in BOOLEAN :
        Call("keyboard", Write \cup {"idt"}, If(acknowledged, {"keyboard handler"}), {})
InitializeMouse ==
    \E acknowledged \in BOOLEAN :
        Call("mouse", Write \cup {"idt"}, If(acknowledged, {"mouse handler"}), {})
InitializeBinaries == Call("binaries", Write \cup {"heap", "vfs"}, {"binaries"}, {})
InitializeTasks == Call("tasks", Write \cup {"clock", "heap"}, {"scheduler"}, {})

\* execv_builtin: the window manager, the menu bar and the clock.
StartProcesses == Call("processes", Write \cup {"scheduler", "vfs", "heap", "frames", "directory", "gdt"}, {"processes"}, {})

-----------------------------------------------------------------------------
(* What interrupts the calls. *)

Interrupt(handler, uses) ==
    /\ on /\ power = "on"
    /\ Has(handler)
    /\ Use(uses \cup {"idt"} \cup If(Has("paging"), {"directory"}))
    /\ UNCHANGED <<machine, pc, up, on, power>>

\* SystemClock::handleInterrupt: the network driver's poll, then the scheduler.
Tick ==
    /\ Interrupt("clock", If(Has("poll handler"), {"interface"}) \cup If(Has("scheduler") /\ Has("processes"), {"gdt"}))
    /\ ticked' = TRUE

KeyPressed == Interrupt("keyboard handler", {"event queues"}) /\ UNCHANGED ticked
MouseMoved == Interrupt("mouse handler", {"event queues", "display"}) /\ UNCHANGED ticked

\* handleInterruptTrampoline: nothing is done without a default interface.
FrameArrived == Interrupt("nic handler", If(Has("interface"), {"protocols", "heap"})) /\ UNCHANGED ticked

-----------------------------------------------------------------------------
(* The end: reboot(2) of a program. *)

FirstWays ==
    {IF machine.reset # "none" THEN "acpi reset" ELSE "keyboard reset",
     IF machine.s5 THEN "acpi shutdown" ELSE "apm shutdown"}

\* kernel::reboot and kernel::shutdown come back if there is no power management.
HandleReboot ==
    /\ Running /\ Has("processes")
    /\ Use({"calls"})
    /\ power' \in IF Has("power") THEN FirstWays ELSE {"on"}
    /\ UNCHANGED <<machine, pc, up, on, ticked>>

\* Each of the ways may work; if it does not, the next one is tried.
Goes(from, to, uses) ==
    /\ power = from
    /\ power' \in to
    /\ Use(uses)
    /\ UNCHANGED <<machine, pc, up, ticked>>

\* A register in memory was never mapped: the write is a page fault.
AcpiReset_Halts == Goes("acpi reset", {"reset", "off"}, {}) /\ on' = FALSE
AcpiReset ==
    IF machine.reset = "memory"
    THEN Goes("acpi reset", {"panic"}, {"reset register"}) /\ UNCHANGED on
    ELSE Goes("acpi reset", {"reset", "keyboard reset"}, {}) /\ UNCHANGED on
KeyboardReset == Goes("keyboard reset", {"reset", "triple fault"}, {}) /\ UNCHANGED on
TripleFault == Goes("triple fault", {"reset"}, {}) /\ UNCHANGED on
AcpiShutdown == Goes("acpi shutdown", {"off", "apm shutdown"}, {}) /\ on' = FALSE

\* The BIOS cannot be called from here: the gate of interrupt 0x15 is empty.
ApmShutdown == Goes("apm shutdown", {"panic"}, {"idt"}) /\ UNCHANGED on

-----------------------------------------------------------------------------
KernelEntry ==
    \/ EnableInterrupts \/ DisableInterrupts
    \/ CallConstructors \/ InitializeSerialPort \/ CheckMultiboot
    \/ InitializeGraphics \/ InitializeBGA \/ ClearScreen \/ MakeConsole
    \/ InitializeACPI \/ InitializePower \/ InitializeHPET \/ InitializePCIe
    \/ LogAllTables \/ EnumerateDevices
    \/ InitializeGDT \/ InitializeInterrupts \/ InitializeClock
    \/ InitializePhysicalMemory \/ MapMemory \/ SwitchDirectory
    \/ InitializePCIeDrivers \/ InitializeNetworkProtocols \/ TestNetworkConnectivity
    \/ InitializeVirtualFileSystem \/ InitializeRTC
    \/ MeasureWithHPET \/ MeasureWithRTC \/ TuneClock \/ InitializeDrivers \/ InitializePartitions
    \/ InitializeSystemCalls \/ InitializeWindows \/ InitializeKeyboard \/ InitializeMouse
    \/ InitializeBinaries \/ InitializeTasks \/ StartProcesses

PowerManagement == AcpiReset \/ KeyboardReset \/ TripleFault \/ AcpiShutdown \/ ApmShutdown

Next == KernelEntry \/ Tick \/ KeyPressed \/ MouseMoved \/ FrameArrived \/ HandleReboot \/ PowerManagement

\* The processor goes on, and the timer goes on interrupting it.
Fairness == WF_vars(KernelEntry) /\ WF_vars(Tick) /\ WF_vars(PowerManagement)

Spec == Init /\ [][Next]_vars /\ Fairness

-----------------------------------------------------------------------------
(* Properties *)

\* No call of kernelEntry and no interrupt handler uses anything before it is
\* initialised, kmalloc after the frames are managed, or memory that the new
\* page directory does not map (kernelEntry, initializeVirtualMemory).
NothingUsedTooEarly == wild = {}

\* Every boot comes to the end of kernelEntry or to a panic: no call waits for
\* ticks while interrupts are disabled (kernelEntry's enableInterrupts).
BootEnds == <>(Running \/ power # "on")

\* A reboot that was asked for resets the machine, whatever fails on the way
\* (PowerManagement::reboot: "fall through to next method").
RebootResets == (power \in {"acpi reset", "keyboard reset"}) ~> (power = "reset")
=============================================================================
