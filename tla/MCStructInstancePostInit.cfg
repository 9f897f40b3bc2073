\* One instance of a class whose __post_init__ assigns to it.
CONSTANTS
    a1 = a1
    a2 = a2
    o1 = o1
    o2 = o2
    n1 = n1
    list = list
    tuple = tuple
    Actor = {a1, a2}
    Object = {o1}
    Scalar = {n1}
    Container = {list}
    Tuple = {tuple}
    Class <- MCHooked
    MaxFresh = 1
    MaxItems = 3
    NoValue = NoValue
    NODEFAULT = NODEFAULT
    Null = Null
SPECIFICATION Spec
INVARIANT CollectorSeesAll
