\* A Serializer on a member of a union with native types.
CONSTANTS
    Member <- CodedMember
    MaxMembers = 2
    MaxInt = 7
    IntLiterals <- MCIntLiterals
    ArrayLike <- MCArrayLike
    Tag <- MCTag
    Null = Null
SPECIFICATION Spec
INVARIANT SerializersAvoidNativeTypes
