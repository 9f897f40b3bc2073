\* Unions of up to three members, in every order.
CONSTANTS
    Member <- MCMember
    MaxMembers = 3
    MaxInt = 7
    IntLiterals <- MCIntLiterals
    ArrayLike <- MCArrayLike
    Tag <- MCTag
    Null = Null
SPECIFICATION Spec
INVARIANTS TypeOK DetailsFound FillsAllocation ReleasesWhatItHolds
    OrderDoesNotMatter BoundsAreExact
