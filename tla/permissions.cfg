SPECIFICATION Spec
CONSTANTS
    r1 = r1
    r2 = r2
    c1 = c1
    c2 = c2
    Roles <- MCRoles
    Everyone = everyone
    Me = me
    Channels <- MCChannels
    MaxChanges = 3
SYMMETRY Symmetry
\* The server may have made its last change.
CHECK_DEADLOCK FALSE
INVARIANT ComputesWhatIsGranted
