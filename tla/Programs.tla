------------------------------- MODULE Programs -------------------------------
(***************************************************************************)
(* The programs in source/userland and the library functions they are made *)
(* of, as what they take and give back: descriptors, blocks, windows.      *)
(*                                                                         *)
(* A program executes a sequence of steps.  A step that fails goes on with *)
(* the steps in its field otherwise, which is what the code does before it *)
(* returns early, and after that with what its caller does.  So a function *)
(* that others call takes the continuation of its caller as a parameter.   *)
(*                                                                         *)
(* What a call returns is left open: files come and go, memory runs out,   *)
(* a peer does not answer.  malloc returns MAP_FAILED then, never a null   *)
(* pointer, so the tests for one are never true: the program goes on, and  *)
(* its page fault stops the machine.                                       *)
(*                                                                         *)
(* Text, drawing and sorting are left out.                                 *)
(***************************************************************************)
EXTENDS Naturals, Sequences, Bags

CONSTANTS
    MaxEntries,   \* bound of the model: entries of a directory that are looked at
    DnsServers    \* how many DNS servers gethostbyname tries

VARIABLES
    app,         \* which program this is, "ended", or "panic"
    todo,        \* the steps it has still to execute
    held,        \* what it has taken and not given back
    isOpen       \* of the launcher of the menu bar

progVars == <<app, todo, held, isOpen>>

Step(do, what, otherwise) == [do |-> do, what |-> what, otherwise |-> otherwise]

\* A call that returns something to be given back, or fails.
Take(r, otherwise) == Step("take", r, otherwise)
Give(r) == Step("give", r, <<>>)
\* A test, or a call that takes nothing.
May(otherwise) == Step("may", "", otherwise)
\* A block of the heap: there is memory for it, or a page fault.
Alloc(r) == Take(r, <<Step("panic", "", <<>>)>>)
Mark(what) == Step("mark", what, <<>>)
Exit == Step("exit", "", <<>>)

Gives(rs) == [i \in DOMAIN rs |-> Give(rs[i])]
Tests(n, otherwise) == [i \in 1 .. n |-> May(otherwise)]

-----------------------------------------------------------------------------
(* The library. *)

\* A window of the SDK: without one a program goes on.
Window(k) == LET canvas == <<Alloc("canvas")>> \o k IN <<Take("window", canvas)>> \o canvas

\* constructDirectoryPath fits the path into the buffer, or not.
ConstructDirectoryPath(k) == May(k)

\* isElf: too short a path; too short a file, no ELF; no way back to the start, no header, half a header,
\* not executable.
IsElf(k) ==
    LET cleanup == Gives(<<"e_ident", "elf">>) \o k
    IN  <<May(k), Take("elf", k), Alloc("e_ident")>>
        \o Tests(6, cleanup) \o Gives(<<"elf", "e_ident">>) \o k

GetScreenDimensions(k) ==
    <<Take("modes", k), Give("modes")>> \o k

\* One query to one server: the name, the size, the sending, the reading, the
\* patience and the answer may each end it.
GetHostByNameDns(found, failed) ==
    <<Take("socket", failed)>> \o Tests(6, <<Give("socket")>> \o failed)
    \o <<Give("socket")>> \o found

GetHostByName(found, failed) ==
    LET from[s \in 0 .. DnsServers] ==
            IF s = 0 THEN failed ELSE GetHostByNameDns(found, from[s - 1])
    IN  from[DnsServers]

\* Sending, receiving and the patience.
PingAddress == <<Take("socket", <<>>)>> \o Tests(3, <<Give("socket")>>) \o <<Give("socket")>>

\* An address is pinged at once, a name is looked up first.
PingHost == <<May(GetHostByName(PingAddress, <<>>))>> \o PingAddress

-----------------------------------------------------------------------------
(* The commands of the terminal.  echo, clear, uname and reboot take       *)
(* nothing, and the others begin with a test of their arguments.           *)

Usage == May(<<>>)

\* What is shown and what is typed.
Buffers == <<Alloc("stdout buffer"), Alloc("stdin buffer")>>

Cat_SeekKeepsFile ==
    <<Usage, May(<<>>), May(<<>>), Take("file", <<>>), May(<<>>),
      Alloc("buffer")>> \o Gives(<<"file", "buffer">>)
Cat ==
    \* No offset, no length.
    <<Usage, May(<<>>), May(<<>>), Take("file", <<>>), May(<<Give("file")>>),
      Alloc("buffer")>> \o Gives(<<"file", "buffer">>)

Ls == <<Take("directory", <<>>), Alloc("buffer")>> \o Gives(<<"directory", "buffer">>)

Sleep == <<Usage, May(<<>>)>>
Touch == <<Usage, Take("file", <<>>), Give("file")>>
MakeDirectory == <<Usage, May(<<>>)>>
RemoveDirectory == <<Usage, May(<<>>)>>
Remove == <<Usage, May(<<>>)>>
ChangeDirectory == <<Take("directory", <<>>), Give("directory"), May(<<>>)>>

\* Too short, no ELF; for 32 bits no way back, no header, half a header.
IsElfCommand ==
    <<Usage, Take("file", <<>>), Alloc("e_ident")>>
    \o Tests(5, Gives(<<"e_ident", "file">>)) \o Gives(<<"file", "e_ident">>)

WaitPid == <<Usage, May(<<>>), May(<<>>)>>

\* The arguments, the new process, the end of it, and what it has written.
Exec ==
    <<Usage, Alloc("argv"), Give("argv"), May(<<>>), May(<<>>),
      Take("stdout", <<>>), Give("stdout")>>

Ping == <<Usage>> \o PingHost
NsLookup == <<Usage>> \o GetHostByName(<<>>, <<>>)

-----------------------------------------------------------------------------
(* The file manager. *)

\* The name tells an image, the header tells a program.
PushArchive(k) == <<May(k)>> \o IsElf(k)

FetchContent(k) ==
    LET entries[n \in 0 .. MaxEntries] ==
            IF n = 0 THEN Gives(<<"buffer", "directory">>) \o k
            ELSE \* The directory ends here, or has an entry that is no file.
                 <<May(Gives(<<"buffer", "directory">>) \o k), May(entries[n - 1])>>
                 \o PushArchive(entries[n - 1])
    IN  <<ConstructDirectoryPath(k), Take("directory", k), Alloc("buffer"),
          May(Gives(<<"buffer", "directory">>) \o k)>> \o entries[MaxEntries]

\* A link to a directory, and a link to a file: what posix_spawn returns is ignored.
OpenDirectory == FetchContent(<<>>)
OpenFile == <<ConstructDirectoryPath(<<>>), May(<<>>)>>

-----------------------------------------------------------------------------
(* The image viewer. *)

\* The two headers and the signature between them.
GetImageDimensions(k) == <<Take("file", k)>> \o Tests(3, <<Give("file")>> \o k) \o <<Give("file")>> \o k

\* The file header, the signature, the other header and its size, compression,
\* dimensions and depth, and the size of the picture.
BmpHeaders(failed) == <<Take("file", failed)>> \o Tests(8, <<Give("file")>> \o failed)

\* The block for the picture, the place of its data, the size of the file.
BmpBlocks(failed) ==
    <<Alloc("pixels")>> \o Tests(2, Gives(<<"pixels", "file">>) \o failed) \o <<Alloc("rowBuffer")>>

BmpPixels(failed) ==
    <<Alloc("rawPixelData"),
      May(Gives(<<"rawPixelData", "rowBuffer", "pixels", "file">>) \o failed)>>
    \o Gives(<<"rawPixelData", "rowBuffer", "file">>)

LoadBmpImage(failed) == BmpHeaders(failed) \o BmpBlocks(failed) \o BmpPixels(failed)

LoadImageSafely ==
    <<Take("file", <<>>), Give("file"), Alloc("imgData")>> \o LoadBmpImage(Gives(<<"imgData">>))

ImageViewer == <<May(<<Exit>>)>> \o GetImageDimensions(Window(LoadImageSafely))

-----------------------------------------------------------------------------
(* The menu bar and its launcher. *)

MenuBar ==
    GetScreenDimensions(<<Take("canvas", <<Exit>>), Take("window", <<Exit>>), Take("rtc", <<>>)>>)

Launcher == <<"text", "brush", "frameBuffer", "launcher", "backBuffer">>

\* Nothing is done when it is open.  allocateBackBuffer ends the menu bar when there is no memory.
OpenAppLauncher ==
    IF isOpen THEN <<>>
    ELSE <<Take("backBuffer", <<Exit>>), Take("launcher", <<Give("backBuffer")>>),
           Alloc("frameBuffer"), Alloc("brush"), Alloc("text"), Mark("open")>>

CloseAppLauncher == IF ~isOpen THEN <<>> ELSE Gives(Launcher) \o <<Mark("closed")>>

\* A program that was clicked is started, whatever comes of it; a click elsewhere and
\* another active window close the launcher, too.
UpdateAppLauncher == IF ~isOpen THEN <<>> ELSE <<May(<<>>)>> \o CloseAppLauncher

-----------------------------------------------------------------------------
(* The task manager, the clock and the echo server. *)

\* No number, no file, nothing to read, and five places where the text may end.
ParseProcessStat(k) == <<Take("stat", k), Give("stat")>> \o Tests(5, k) \o k

CollectProcesses ==
    LET entries[n \in 0 .. MaxEntries] ==
            IF n = 0 THEN <<>>
            ELSE <<May(<<>>), May(entries[n - 1])>> \o ParseProcessStat(entries[n - 1])
    IN  <<Take("proc", <<>>), Give("proc"), May(<<>>)>> \o entries[MaxEntries]

TaskManager == Window(CollectProcesses)
Clock == GetScreenDimensions(Window(<<Take("rtc", <<>>)>>))
FileManager == Window(FetchContent(<<>>))
Terminal == Window(Buffers)

UdpEchoServer ==
    <<May(<<Exit>>), Take("socket", <<Exit>>), May(<<Give("socket"), Exit>>)>>

-----------------------------------------------------------------------------
Main ==
    [terminal |-> Terminal, manager |-> FileManager, viewer |-> ImageViewer, menu |-> MenuBar,
     tasks |-> TaskManager, clock |-> Clock, echo |-> UdpEchoServer]

\* What the main loop of a program does when there is something to do.
Commands ==
    [terminal |->
        [cat |-> Cat, ls |-> Ls, sleep |-> Sleep, touch |-> Touch, mkdir |-> MakeDirectory,
         rmdir |-> RemoveDirectory, rm |-> Remove, cd |-> ChangeDirectory, iself |-> IsElfCommand,
         waitpid |-> WaitPid, exec |-> Exec, ping |-> Ping, nslookup |-> NsLookup, exit |-> <<Exit>>],
     manager |-> [directory |-> OpenDirectory, file |-> OpenFile],
     viewer |-> [draw |-> <<>>],
     menu |-> [apps |-> OpenAppLauncher, update |-> UpdateAppLauncher],
     tasks |-> [refresh |-> CollectProcesses],
     clock |-> [draw |-> <<>>],
     echo |-> [receive |-> <<May(<<>>)>>]]

ProgInit ==
    /\ app \in DOMAIN Main
    /\ todo = Main[app]
    /\ held = EmptyBag /\ isOpen = FALSE

Choose ==
    /\ todo = <<>>
    /\ app \notin {"ended", "panic"}
    /\ \E c \in DOMAIN Commands[app] : todo' = Commands[app][c]
    /\ UNCHANGED <<app, held, isOpen>>

Ending == [exit |-> "ended", panic |-> "panic"]

Succeed ==
    /\ todo # <<>>
    /\ LET step == Head(todo)
           this == SetToBag({step.what})
           ends == step.do \in DOMAIN Ending
       IN  /\ todo' = IF ends THEN <<>> ELSE Tail(todo)
           /\ app' = IF ends THEN Ending[step.do] ELSE app
           /\ held' = CASE step.do = "take" -> held (+) this
                        [] step.do = "give" -> held (-) this
                        [] OTHER -> held
           /\ isOpen' = IF step.do = "mark" THEN step.what = "open" ELSE isOpen

Fail ==
    /\ todo # <<>>
    /\ Head(todo).do \in {"take", "may"}
    /\ todo' = Head(todo).otherwise
    /\ UNCHANGED <<app, held, isOpen>>

ProgNext == Choose \/ Succeed \/ Fail

ProgSpec == ProgInit /\ [][ProgNext]_progVars

-----------------------------------------------------------------------------
\* What a program may hold between two commands, besides its window and its clock.
AtRest ==
    CASE app = "terminal" -> {{"stdout buffer", "stdin buffer"}}
      [] app = "viewer" -> {{}, {"imgData", "pixels"}}
      [] app = "menu" -> {IF isOpen THEN {Launcher[i] : i \in DOMAIN Launcher} ELSE {}}
      [] app = "echo" -> {{"socket"}}
      [] OTHER -> {{}}

\* Whatever fails on the way, a program has given back what it took when it comes to
\* rest, and it gives nothing back twice: the early returns of the commands, of
\* fetchContent, isElf, loadBMPImage, gethostbyname, ping and the launcher.
NothingLeaked ==
    /\ \A r \in BagToSet(held) : CopiesIn(r, held) = 1
    /\ todo # <<>> /\ Head(todo).do = "give" => BagIn(Head(todo).what, held)
    /\ todo = <<>> /\ app \in DOMAIN Main => BagToSet(held) \ {"window", "canvas", "rtc"} \in AtRest
=============================================================================
