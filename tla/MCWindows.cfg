SPECIFICATION Spec
CONSTANTS
    i1 = i1
    i2 = i2
    b1 = b1
    b2 = b2
    d1 = d1
    d2 = d2
    Instance = {i1, i2}
    Position <- MCPosition
    Drawable <- MCDrawable
    Area <- MCArea
    Size = 2
    Nested = {}
    None = None
    MaxDepth = 3
INVARIANTS
    WindowRestored
    InvalidationsCovered
PROPERTIES
    PaintsInPlace
    BrowserIsTold
