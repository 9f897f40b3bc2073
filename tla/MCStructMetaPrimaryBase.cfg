\* Which base the codecs of an inherited field come from.
CONSTANTS
    slotted = slotted
    open = open
    ctor = ctor
    lower = lower
    one = one
    list = list
    bad = bad
    dump1 = dump1
    dump2 = dump2
    T = T
    Name = {"x", "y", "z"}
    Key = {"x", "y", "z", "X", "Y", "Z", "z-", "type"}
    Mixin = {slotted, open, ctor}
    WithDict = {open}
    WithWeakref = {open}
    WithInit = {ctor}
    Plain = {one}
    Empty = {list}
    Rename <- MCRename
    Callable = {lower}
    Unusable = {bad}
    Escaped = {"z-"}
    TypeKey = "type"
    Menu <- MCDiamond
    NODEFAULT = NODEFAULT
    Null = Null
SPECIFICATION Spec
INVARIANT PrimaryBaseWins
CHECK_DEADLOCK FALSE
