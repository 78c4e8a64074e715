SPECIFICATION Spec
CONSTANTS
    Links <- MCLinks
    MaxTokens = 4
    maxDiscoveryHTMLBytes = 3
INVARIANTS TypeOK PageOrder NotFoundIsSure
