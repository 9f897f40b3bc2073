\* Mappings of up to four keys, asked for every key there is and more.
CONSTANTS
    a = a
    b = b
    c = c
    d = d
    e = e
    Hash <- MCHash
    IntDict <- MCIntDict
    StrDict <- MCStrDict
    FieldDict <- MCFieldDict
    TagField = e
    AskedInt <- MCAskedInt
    MaxInt = 7
    Null = Null
    Made = Made
SPECIFICATION FairSpec
INVARIANTS TypeOK AnswersAreExact SlotIsFree
PROPERTY ProbesEnd
