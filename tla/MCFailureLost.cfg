SPECIFICATION Spec
CONSTANTS
    None = None
    u1 = u1  u2 = u2
    s1 = s1  s2 = s2
    e1 = e1  e2 = e2
    d1 = d1  d2 = d2  d3 = d3
    FeedIds = {f1, f2, f3}
    Urls = {u1}
    Sites = {s1, s2}
    Exts = {e1, e2}
    Docs = {d1, d2, d3}
    Requests = {r1}
    Workers = {w1}
    Procs = {r1, w1}
    refreshDueLimit = 1
    Faults = {"timeout"}
    ItemsOf <- MCItemsOf
    SiteOf <- MCSiteOf
    Tagged <- MCTagged
    CandidatesOf <- MCCandidatesOf
    Twin <- MCTwin
SYMMETRY Symmetry

PROPERTIES FailureAdvances
