----------------------------- MODULE WindowManager -----------------------------
(***************************************************************************)
(* The compositing window manager:                                         *)
(* PalmyraOS/source/core/tasks/WindowManager.cpp, with the system calls    *)
(* that open and close windows and the part of Process::kill that does.    *)
(*                                                                         *)
(* Three kinds of code run here.  The window manager's thread composes a   *)
(* frame in an atomic section.  The system calls of the processes run only *)
(* when the section is closed (TaskManager.tla proves that).  The keyboard *)
(* and mouse interrupts run at any time, in the middle of a frame too:     *)
(* an atomic section stops the scheduler, not the interrupts.              *)
(***************************************************************************)
EXTENDS Integers, Sequences, FiniteSets

CONSTANTS
    Owners,          \* the processes that open windows
    Shapes,          \* [x, y, w, h, movable] a process may ask for
    ScreenWidth, ScreenHeight,
    TitleBar,        \* height of the strip that starts a drag (22)
    Margin,          \* the 2 pixels of updateDragging
    QueueLimit,      \* a window's queue drops its front beyond this size (20)
    Moves,           \* <<dx, dy>> a mouse packet may report
    MaxWindows,      \* bound of the model: windows ever opened
    MaxKeyEvents,    \* bound of the model: keys in the global queue
    MaxMouseEvents,  \* bound of the model: mouse events in the global queue
    MaxAtomicLevel   \* bound of the model: nesting of atomic sections

ASSUME ScreenAssumption ==
    /\ ScreenWidth \in Nat /\ ScreenHeight \in Nat
    /\ Margin \in Nat \ {0} /\ Margin < ScreenWidth /\ Margin < ScreenHeight
    /\ Shapes \subseteq [x : Int, y : Int, w : Nat, h : Nat, movable : BOOLEAN]
    /\ Moves \subseteq Int \X Int /\ MaxWindows \in Nat

VARIABLES
    windows,       \* windows_, bottom to top once sorted
    count,         \* Window::count
    active,        \* activeWindowId_
    deleted,       \* deletedWindows_
    sortingNeeded, \* sortingNeeded_
    level,         \* TaskManager::atomicSectionLevel_
    keyEvents,     \* number of events in keyboardsEvents_
    mouseEvents,   \* mouseEvents_, as screen positions
    mouse,         \* mouseX_, mouseY_
    leftDown,      \* isLeftButtonDown_
    drag,          \* dragState_
    at, index,     \* the point the frame has reached, and its loop counter
    owned,         \* Process::windows_ of every process
    dead           \* the processes that kill() has freed

inputVars == <<keyEvents, mouseEvents, mouse, leftDown, drag>>
frameVars == <<level, at, index>>
vars == <<windows, count, active, deleted, sortingNeeded, owned, dead,
          inputVars, frameVars>>

Ids == 1 .. MaxWindows
NoDrag == [on |-> FALSE, id |-> 0, dx |-> 0, dy |-> 0]

-----------------------------------------------------------------------------
(* Geometry and the list of windows.                                       *)

Clamp(v, lo, hi) == IF v < lo THEN lo ELSE IF v > hi THEN hi ELSE v

Contains(w, p) ==
    /\ w.x <= p[1] /\ p[1] < w.x + w.w
    /\ w.y <= p[2] /\ p[2] < w.y + w.h

OnScreen(w) ==
    /\ w.x < ScreenWidth /\ 0 < w.x + w.w
    /\ w.y < ScreenHeight /\ 0 < w.y + w.h

\* The elements of s at these places, in their order.
Picked(s, places) ==
    [r \in 1 .. Cardinality(places) |->
        s[CHOOSE i \in places : Cardinality({j \in places : j < i}) = r - 1]]

Listed(id) == \E i \in DOMAIN windows : windows[i].id = id
IndexOf(id) == CHOOSE i \in DOMAIN windows : windows[i].id = id
WindowIds == {windows[i].id : i \in DOMAIN windows}

\* getWindowAtPosition: the last visible one, as the list is drawn in order.
AtPosition(p) == {i \in DOMAIN windows : windows[i].visible /\ Contains(windows[i], p)}
TopAt(p) == CHOOSE i \in AtPosition(p) : \A j \in AtPosition(p) : j <= i

\* std::sort by z_; with this few windows an insertion sort, which is stable.
Below(ws, i, j) == ws[i].z < ws[j].z \/ (ws[i].z = ws[j].z /\ i < j)
ByHeight(ws) ==
    [r \in DOMAIN ws |->
        ws[CHOOSE i \in DOMAIN ws :
             Cardinality({j \in DOMAIN ws : Below(ws, j, i)}) = r - 1]]

\* setActiveWindow: the window gets the height Len(ws), all others sink.
Raised(ws, id) ==
    [i \in DOMAIN ws |->
        [ws[i] EXCEPT !.z = IF ws[i].id = id THEN Len(ws)
                            ELSE IF @ > 0 THEN @ - 1 ELSE 0]]

SetActiveWindow(ws, id) ==
    /\ windows' = Raised(ws, id)
    /\ active' = IF \E i \in DOMAIN ws : ws[i].id = id THEN id ELSE active
    /\ sortingNeeded' = TRUE

\* closeWindow, for each of the ids in turn: the window is hidden, and then
\* setActiveWindow(0), which names no window, makes all of them sink.
Closed(ws, ids) ==
    [i \in DOMAIN ws |->
        [ws[i] EXCEPT !.visible = @ /\ \A k \in DOMAIN ids : ids[k] # ws[i].id,
                      !.z = IF @ > Len(ids) THEN @ - Len(ids) ELSE 0]]

CloseWindows(ids) ==
    /\ windows' = Closed(windows, ids)
    /\ deleted' = deleted \o Picked(ids, {k \in DOMAIN ids : Listed(ids[k])})
    /\ sortingNeeded' = (sortingNeeded \/ ids # <<>>)
    /\ UNCHANGED active

-----------------------------------------------------------------------------
(* Processes.  The scheduler runs them only while no section is open, and  *)
(* the window manager's thread is then between two frames.                 *)

Scheduled(o) == level = 0 /\ at = "idle" /\ o \notin dead

\* handleInitWindow, requestWindow and the constructor of Window.
RequestWindow(o, shape) ==
    /\ Scheduled(o)
    /\ count < MaxWindows
    /\ LET w == [id |-> count + 1, owner |-> o, z |-> 0, visible |-> TRUE,
                 x |-> shape.x, y |-> shape.y, w |-> shape.w, h |-> shape.h,
                 movable |-> shape.movable, keys |-> 0, clicks |-> 0]
       IN SetActiveWindow(Append(windows, w), w.id)
    /\ count' = count + 1
    /\ owned' = [owned EXCEPT ![o] = Append(@, count + 1)]
    /\ UNCHANGED <<deleted, dead, inputVars, frameVars>>

\* handleCloseWindow: any id is accepted, whoever owns the window.
Without(s, id) == Picked(s, {k \in DOMAIN s : s[k] # id})
CloseWindow(o, id) ==
    /\ Scheduled(o)
    /\ Len(deleted) < MaxWindows
    /\ CloseWindows(<<id>>)
    /\ owned' = [owned EXCEPT ![o] = Without(@, id)]
    /\ UNCHANGED <<count, dead, inputVars, frameVars>>

\* Process::kill frees the buffers, then closes the windows.
Abandoned_LastOnly(o) == IF owned[o] = <<>> THEN <<>> ELSE <<owned[o][Len(owned[o])]>>
Abandoned(o) == owned[o]
Kill(o) ==
    /\ Scheduled(o)
    /\ dead' = dead \cup {o}
    /\ CloseWindows(Abandoned(o))
    /\ owned' = [owned EXCEPT ![o] = <<>>]
    /\ UNCHANGED <<count, inputVars, frameVars>>

\* handleNextKeyboardEvent and handleNextMouseEvent.
PopEvents(o) ==
    /\ Scheduled(o)
    /\ \E i \in DOMAIN windows :
          /\ windows[i].keys + windows[i].clicks > 0
          /\ windows' = [windows EXCEPT ![i].keys = IF @ > 0 THEN @ - 1 ELSE 0,
                                        ![i].clicks = IF @ > 0 THEN @ - 1 ELSE 0]
    /\ UNCHANGED <<count, active, deleted, sortingNeeded, owned, dead,
                   inputVars, frameVars>>

-----------------------------------------------------------------------------
(* The frame: composite().                                                 *)

Goto(here, there) == at = here /\ at' = there

\* startAtomicOperation, then doEraseWindows.
Remaining_FrontOnly(ws, ids) ==
    Picked(ws, {i \in DOMAIN ws : ids = <<>> \/ ws[i].id # Head(ids)})
Remaining_None(ws, ids) == ws
Remaining(ws, ids) ==
    Picked(ws, {i \in DOMAIN ws : \A k \in DOMAIN ids : ws[i].id # ids[k]})
BeginFrame ==
    /\ Goto("idle", "sort")
    /\ level < MaxAtomicLevel
    /\ level' = level + 1
    /\ windows' = Remaining(windows, deleted)
    /\ deleted' = <<>>
    /\ UNCHANGED <<count, active, sortingNeeded, owned, dead, inputVars, index>>

\* std::sort, if some height has changed since the last one ...
SortWindows ==
    /\ at = "sort"
    /\ at' = IF sortingNeeded THEN "clear" ELSE "compose"
    /\ windows' = IF sortingNeeded THEN ByHeight(windows) ELSE windows
    /\ index' = 1
    /\ UNCHANGED <<count, active, deleted, sortingNeeded, owned, dead,
                   inputVars, level>>

\* ... and then the flag, which an interrupt may have raised again by now.
ClearSortingNeeded ==
    /\ Goto("clear", "compose")
    /\ sortingNeeded' = FALSE
    /\ UNCHANGED <<windows, count, active, deleted, owned, dead, inputVars,
                   level, index>>

\* composeWindow: a section of its own, left open by the early return.
LevelAfter(w) == IF ~w.visible \/ OnScreen(w) THEN level ELSE level + 1
ComposeWindow ==
    /\ at = "compose" /\ index <= Len(windows)
    /\ LevelAfter(windows[index]) <= MaxAtomicLevel
    /\ level' = LevelAfter(windows[index])
    /\ index' = index + 1
    /\ UNCHANGED <<windows, count, active, deleted, sortingNeeded, owned, dead,
                   inputVars, at>>

\* forwardKeyboardEvents reads the size of the queue once ...
StartForwarding ==
    /\ Goto("compose", "keys")
    /\ index > Len(windows)
    /\ keyEvents' = IF windows = <<>> THEN 0 ELSE keyEvents
    /\ index' = keyEvents'
    /\ UNCHANGED <<windows, count, active, deleted, sortingNeeded, owned, dead,
                   mouseEvents, mouse, leftDown, drag, level>>

\* ... and hands each event to the window that is active by then, if any.
Queued(n) == IF n > QueueLimit THEN n ELSE n + 1
ForwardKey ==
    /\ at = "keys" /\ index > 0
    /\ index' = index - 1
    /\ IF Listed(active)
       THEN /\ windows' = [windows EXCEPT ![IndexOf(active)].keys = Queued(@)]
            /\ keyEvents' = keyEvents - 1
       ELSE UNCHANGED <<windows, keyEvents>>
    /\ UNCHANGED <<count, active, deleted, sortingNeeded, owned, dead,
                   mouseEvents, mouse, leftDown, drag, level, at>>

KeysForwarded ==
    /\ Goto("keys", "mouse")
    /\ index = 0
    /\ mouseEvents' = IF windows = <<>> THEN <<>> ELSE mouseEvents
    /\ index' = Len(mouseEvents')
    /\ UNCHANGED <<windows, count, active, deleted, sortingNeeded, owned, dead,
                   keyEvents, mouse, leftDown, drag, level>>

ForwardMouse ==
    /\ at = "mouse" /\ index > 0
    /\ index' = index - 1
    /\ mouseEvents' = Tail(mouseEvents)
    /\ LET p == Head(mouseEvents) IN
          windows' = IF AtPosition(p) = {} THEN windows
                     ELSE [windows EXCEPT ![TopAt(p)].clicks = Queued(@)]
    /\ UNCHANGED <<count, active, deleted, sortingNeeded, owned, dead,
                   keyEvents, mouse, leftDown, drag, level, at>>

EndFrame ==
    /\ Goto("mouse", "idle")
    /\ index = 0
    /\ level' = IF level > 0 THEN level - 1 ELSE 0
    /\ UNCHANGED <<windows, count, active, deleted, sortingNeeded, owned, dead,
                   inputVars, index>>

FrameStep ==
    \/ BeginFrame
    \/ SortWindows
    \/ ClearSortingNeeded
    \/ ComposeWindow
    \/ StartForwarding
    \/ ForwardKey
    \/ KeysForwarded
    \/ ForwardMouse
    \/ EndFrame

-----------------------------------------------------------------------------
(* Interrupts.                                                             *)

\* queueKeyboardEvent, for any key but the release of Alt+Tab.
KeyEvent ==
    /\ keyEvents < MaxKeyEvents
    /\ keyEvents' = keyEvents + 1
    /\ UNCHANGED <<windows, count, active, deleted, sortingNeeded, owned, dead,
                   mouseEvents, mouse, leftDown, drag, frameVars>>

\* The distance from the active window to another, going round the list.
Around(i, k) == ((i - 1 + k) % Len(windows)) + 1

AltTab ==
    /\ IF Listed(active)
       THEN LET i == IndexOf(active) IN
            \E k \in 1 .. Len(windows) :
                /\ windows[Around(i, k)].visible \/ k = Len(windows)
                /\ \A j \in 1 .. k - 1 : ~windows[Around(i, j)].visible
                /\ IF windows[Around(i, k)].visible
                   THEN SetActiveWindow(windows, windows[Around(i, k)].id)
                   ELSE UNCHANGED <<windows, active, sortingNeeded>>
       ELSE SetActiveWindow(windows, 0)
    /\ UNCHANGED <<count, deleted, owned, dead, inputVars, frameVars>>

\* startDragging at the position p: a click raises the window, a click in
\* its title bar also grabs it, unless it is not movable.
InTitleBar(dy) == dy <= TitleBar
StartDragging(p) ==
    IF AtPosition(p) = {} \/ ~windows[TopAt(p)].movable
    THEN UNCHANGED <<windows, active, sortingNeeded, drag>>
    ELSE LET w == windows[TopAt(p)] IN
         /\ SetActiveWindow(windows, w.id)
         /\ drag' = IF InTitleBar(p[2] - w.y)
                    THEN [on |-> TRUE, id |-> w.id, dx |-> p[1] - w.x, dy |-> p[2] - w.y]
                    ELSE drag

DraggedTo_CornerAtPointer(p) ==
    [x |-> p[1] + drag.dx, y |-> p[2] + drag.dy]
DraggedTo(p) ==
    [x |-> Clamp(p[1] - drag.dx, -ScreenWidth + Margin, ScreenWidth - Margin),
     y |-> Clamp(p[2] - drag.dy, 0, ScreenHeight - Margin)]

UpdateDragging(p) ==
    /\ windows' = IF ~Listed(drag.id) THEN windows
                  ELSE [windows EXCEPT ![IndexOf(drag.id)].x = DraggedTo(p).x,
                                       ![IndexOf(drag.id)].y = DraggedTo(p).y]
    /\ UNCHANGED <<active, sortingNeeded, drag>>

StopDragging ==
    /\ drag' = [drag EXCEPT !.on = FALSE, !.id = 0]
    /\ UNCHANGED <<windows, active, sortingNeeded>>

Moved(d) == <<Clamp(mouse[1] + d[1], 0, ScreenWidth - 1),
              Clamp(mouse[2] + d[2], 0, ScreenHeight - 1)>>

\* queueMouseEvent: the position, the button, then the queue.
Press(d) == ~leftDown /\ leftDown' = TRUE /\ StartDragging(Moved(d))
Hold(d) == leftDown /\ drag.on /\ leftDown' = TRUE /\ UpdateDragging(Moved(d))
Release(d) == leftDown /\ drag.on /\ leftDown' = FALSE /\ StopDragging
Move(d, down) ==
    /\ IF down THEN leftDown /\ ~drag.on ELSE ~(leftDown /\ drag.on)
    /\ leftDown' = down
    /\ UNCHANGED <<windows, active, sortingNeeded, drag>>

MouseMove(d) ==
    /\ Len(mouseEvents) < MaxMouseEvents
    /\ \/ Press(d)
       \/ Hold(d)
       \/ Release(d)
       \/ \E down \in BOOLEAN : Move(d, down)
    /\ mouse' = Moved(d)
    /\ mouseEvents' = Append(mouseEvents, Moved(d))
    /\ UNCHANGED <<count, deleted, owned, dead, keyEvents, frameVars>>

-----------------------------------------------------------------------------

Init ==
    /\ windows = <<>> /\ count = 0 /\ active = 0 /\ deleted = <<>>
    /\ sortingNeeded = FALSE
    /\ level = 0 /\ at = "idle" /\ index = 0
    /\ keyEvents = 0 /\ mouseEvents = <<>>
    /\ mouse = <<ScreenWidth \div 2, ScreenHeight \div 2>>
    /\ leftDown = FALSE /\ drag = NoDrag
    /\ owned = [o \in Owners |-> <<>>] /\ dead = {}

Next ==
    \/ \E o \in Owners :
          \/ \E shape \in Shapes : RequestWindow(o, shape)
          \/ \E id \in Ids : CloseWindow(o, id)
          \/ Kill(o)
          \/ PopEvents(o)
    \/ FrameStep
    \/ KeyEvent
    \/ AltTab
    \/ \E d \in Moves : MouseMove(d)

Spec == Init /\ [][Next]_vars

\* The thread is scheduled again and again and nothing in a frame waits.
FairSpec == Spec /\ WF_vars(FrameStep)

-----------------------------------------------------------------------------
(* Properties.                                                             *)

\* A frame draws no window of a process whose memory kill() has given back:
\* the buffer of every window the compositor may still read is mapped.
\* (kill frees the pages of the buffer before it closes the window, and
\* the window stays in the list until a frame erases it.)
BuffersLive ==
    \A i \in DOMAIN windows : windows[i].visible => windows[i].owner \notin dead

\* After doEraseWindows no closed window is left for the rest of the frame,
\* however many were closed, or closed twice, since the last one.
FrameSeesOpenWindows ==
    at # "idle" => \A i \in DOMAIN windows : windows[i].visible

\* Every window that is closed is erased by some later frame.
ClosedIsErased ==
    \A id \in Ids :
        (\E i \in DOMAIN windows : windows[i].id = id /\ ~windows[i].visible)
            ~> ~Listed(id)

\* The window that is dragged stays under the cursor, although the clamp of
\* updateDragging moves it away from the point it was grabbed at.  As the
\* cursor is on the screen, the window is never lost outside of it.  (A window
\* narrower than the margin falls behind the cursor at the far edge.)
AsWideAsMargin(w) == w.w >= Margin /\ w.h >= Margin
DragHoldsCursor ==
    drag.on /\ Listed(drag.id) =>
        LET w == windows[IndexOf(drag.id)] IN AsWideAsMargin(w) => Contains(w, mouse)
=============================================================================
