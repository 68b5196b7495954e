SPECIFICATION Spec
CONSTANTS
    s1 = s1
    s2 = s2
    r1 = r1
    r2 = r2
    r3 = r3
    Sensors <- MCSensors
    Runs <- MCRuns
    MaxOther = 1
SYMMETRY Symmetric
INVARIANTS
    ScriptsTypeOK
    RolesHaveCertificates
    PackagedKeyIsCurrent
    RoleGoneOrOvertaken
PROPERTY CrlCompleteWhenDone
CHECK_DEADLOCK FALSE
