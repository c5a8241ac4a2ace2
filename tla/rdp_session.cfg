SPECIFICATION DesktopFairSpec
CONSTANTS
    Guests = {a}
    Enables = {e1}
    Sessions = {s1}
    Secrets = {c1}
    Has <- BothServers
    MaxStrays = 1
    NoGuest = NoGuest
    NoSecret = NoSecret
PROPERTIES SessionEnds
