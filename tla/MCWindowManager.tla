--------------------------- MODULE MCWindowManager ---------------------------
(* Two small instances of WindowManager.tla over the same variables.  Each  *)
(* behaviour is of one of them: the windows of two processes, with the      *)
(* keyboard, or the windows of one process that are dragged with the mouse. *)
EXTENDS WindowManager

VARIABLE instance

\* Keyboard: the geometry does not matter, every window has the same place.
FullShape == {[x |-> 0, y |-> 0, w |-> 2, h |-> 2, movable |-> TRUE]}
NoMoves == {}

\* Mouse: a wide window and a small one that overlap on a 3 by 3 screen.
CONSTANTS dragger, DragScreen

DragShapes == {[x |-> 0, y |-> 1, w |-> 2, h |-> 3, movable |-> TRUE],
               [x |-> 1, y |-> 0, w |-> 2, h |-> 2, movable |-> FALSE]}
DragMoves == {<<-1, 1>>, <<2, -2>>}

Drag == INSTANCE WindowManager WITH
            Owners <- {dragger}, Shapes <- DragShapes, Moves <- DragMoves,
            ScreenWidth <- DragScreen, ScreenHeight <- DragScreen,
            QueueLimit <- 0, MaxKeyEvents <- 0

MCInit ==
    \/ instance = "windows" /\ Init
    \/ instance = "drag" /\ Drag!Init

MCNext ==
    /\ \/ instance = "windows" /\ Next
       \/ instance = "drag" /\ Drag!Next
    /\ UNCHANGED instance

MCSpec ==
    /\ MCInit /\ [][MCNext]_<<vars, instance>>
    /\ WF_vars(instance = "windows" /\ FrameStep)
    /\ WF_vars(instance = "drag" /\ Drag!FrameStep)
=============================================================================
