CONSTANTS
    NODEFAULT = NODEFAULT
    Null = Null
    Class <- MCClass
    Numeral <- MCNumeral
    DateText <- MCDateText
    Calls <- MCCalls
    ValidateLoaded <- MCValidateLoaded
    NeedsEscape <- MCNeedsEscape
    Bytes <- MCBytes
    CUTOFF = 2
    ReadRequests <- MCReadRequests
    WriteRequests <- MCWriteRequests
SPECIFICATION Spec
INVARIANTS LoadsAlike DumpsAlike RoundTrips SortedIsCanonical
PROPERTY Terminates
CHECK_DEADLOCK FALSE
