SPECIFICATION Spec
CONSTANTS
    NoObj = NoObj
    NoPlace = NoPlace
    o1 = o1
    o2 = o2
    o3 = o3
    o4 = o4
    Plain = {"red", "green"}
    Contents = {"x", "y"}
    Whites = {"w", "v"}
    Obj = {o1, o2, o3, o4}
    Given <- MadeElsewhere
INVARIANT TypeOK
INVARIANT RefsCounted
PROPERTY ImplementsStore
PROPERTY WhiteKept
