SPECIFICATION Spec
CONSTANTS
    u1 = u1
    u2 = u2
    u3 = u3
    s1 = s1
    s2 = s2
    Urls = {u1, u2, u3}
    Sites = {s1, s2}
    Malformed = malformed
    SiteOf <- MCSiteOf
    CandidatesOf <- MCCandidatesOf
    Linkless <- MCLinkless
    Calls = {c1, c2}
    MaxId = 2
    StampOf <- MCStampOf
    FEEDS_LIMIT = 1
    None = None
SYMMETRY Symmetric
INVARIANTS TypeOK ListUpToDate
PROPERTIES ConflictIsOld MessageTrue OwnAnswers
