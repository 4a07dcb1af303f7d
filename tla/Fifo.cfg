\* Four slots: the smallest ring in which a wrapped index, a full ring and a
\* reader half way through an entry can all meet.
CONSTANTS
    p0 = p0
    p1 = p1
    Depth = 4
    Data <- MCData
    Blank = p0
SPECIFICATION Spec
INVARIANTS
    TypeOK
    NoOverwrite
PROPERTIES
    ImplementsQueue
    SeenIsTaken
CHECK_DEADLOCK TRUE
