CONSTANTS
    c1 = c1
    c2 = c2
    m1 = m1
    Unset = Unset
    All = All
    Opaque = Opaque
    Types <- MCTypes
    NoType = Opaque
    Shapes <- MCShapes
    Requests <- MCRequests
    Linked = {c1, c2}
    Variant = {m1}
    NoPlan = Unset
    Orders <- MCOrders
    Whole = All
    Filter <- MCFilter
    FilterMembers <- MCFilterMembers
    Decode <- MCDecode
    DecodeMembers <- MCDecodeMembers
    Mark <- MCMark
    Validate <- MCValidate
    Reading <- MCReading
    ReadMembers <- MCReadMembers
    Unmarked <- MCUnmarked
    Shown <- MCShown
    Unduplicated <- MCUnduplicated
    Complete <- MCComplete
SPECIFICATION Spec
INVARIANTS
    HeldExact
    ReadsThePublicPart
    MarksAuthored
    RequiredAgrees
\* Callers stop once they are served.
CHECK_DEADLOCK FALSE
