SPECIFICATION FairSpec
CONSTANTS
    MaxGen = 1
    Replaced = {"cert", "key", "ca", "crl"}
    Refresh = TRUE
    Handshakes = {h1}
    h1 = h1
INVARIANTS
    CertInv
    ServedIsValid
    RevokedRefused
PROPERTIES
    ReloadConverges
\* New may fail.
CHECK_DEADLOCK FALSE
