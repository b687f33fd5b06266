SPECIFICATION MultipartSpec
CONSTANTS
    CR = CR
    LF = LF
    Dash = Dash
    Boundary <- MCBoundary
    Types = {"octet", "json"}
    Disposition = "disposition"
    ContentLength = "length"
    NoType = "none"
    Bodies <- MCBodies
    HEADER_MAX_LENGTH = 4
CHECK_DEADLOCK FALSE
INVARIANTS
    MultipartTypeOK
    PartsFaithful
    WholeBodyParsed
PROPERTY
    ParseEnds
