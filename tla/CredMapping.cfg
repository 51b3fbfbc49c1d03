SPECIFICATION CredSpec
CONSTANTS
    Contexts = {c1, c2}
    UrlPrefixes <- NestedPrefixes
    CredUrls <- AllUrls
    Types = {1, 2}
    Values = {v1, v2}
    NoValue = NoValue
    Slash = 1

SYMMETRY Symmetric
INVARIANT BestMatchPicked
PROPERTY ListIsMap
