SPECIFICATION Spec
CONSTANTS
    PACKETS <- All
    TRAILERS <- Trailers
    CUT = TRUE
INVARIANTS RoundTrip CutIsPrefix NeverRaises ChecksumsVerify LengthsAgree
CHECK_DEADLOCK FALSE
