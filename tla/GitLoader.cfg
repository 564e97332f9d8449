\* Two handlers listing concurrently; stores created, updated and deleted
\* between requests; clones that may fail.
CONSTANTS
    Handlers = {h1, h2}
    Names = {n1, n2}
    Owners = {o1}
    Kinds <- MCNoKinds
    NoKind = NoKind
    Data = {d1, d2}
    NoStore = NoStore
    None = None
    Missing = Missing
    CatalogOps = {"create", "update", "delete"}
SPECIFICATION Spec
INVARIANT ListingMatchesClone
