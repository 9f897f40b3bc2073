\* Two instances, two calls at once, four classes.
CONSTANTS
    a1 = a1
    a2 = a2
    o1 = o1
    o2 = o2
    n1 = n1
    list = list
    tuple = tuple
    Actor = {a1, a2}
    Object = {o1, o2}
    Scalar = {n1}
    Container = {list}
    Tuple = {tuple}
    Class <- MCClass
    MaxFresh = 1
    MaxItems = 3
    NoValue = NoValue
    NODEFAULT = NODEFAULT
    Null = Null
SPECIFICATION Spec
INVARIANTS TypeOK CollectorSees BindsAsDeclared HashesAgree
SYMMETRY Symmetry
