CONSTANTS
    p0 = p0
    p1 = p1
    Depth = 4
    Data <- MCData
    Blank = p0
SPECIFICATION Spec
PROPERTY CollisionDiscards
