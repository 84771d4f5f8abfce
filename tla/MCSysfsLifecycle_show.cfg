CONSTANTS
    u1 = u1
    u2 = u2
    NoCall = NoCall
    Users <- OneUser
    MaxRemount = 1
SPECIFICATION Spec
INVARIANT
    ShowGcThreadLive
