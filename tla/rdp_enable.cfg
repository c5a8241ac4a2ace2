SPECIFICATION DesktopFairSpec
CONSTANTS
    Guests = {a}
    Enables = {e1, e2}
    Sessions = {}
    Secrets = {c1, c2}
    Has <- BothServers
    MaxStrays = 1
    NoGuest = NoGuest
    NoSecret = NoSecret
INVARIANTS DesktopTypeOK CredentialsFirst EnabledIsTrue
PROPERTIES EnableAnswered
