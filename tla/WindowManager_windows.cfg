CONSTANTS
    Owners = {o1, o2}
    Shapes <- FullShape
    Moves <- NoMoves
    ScreenWidth = 5
    ScreenHeight = 4
    TitleBar = 1
    Margin = 2
    QueueLimit = 1
    MaxWindows = 2
    MaxKeyEvents = 2
    MaxMouseEvents = 1
    MaxAtomicLevel = 2
    dragger = o1
    DragScreen = 3
SPECIFICATION MCSpec
INVARIANTS
    BuffersLive
    FrameSeesOpenWindows
    
PROPERTY ClosedIsErased
