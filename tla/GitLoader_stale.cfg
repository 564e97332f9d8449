\* One handler; two owners, whose stores may share a name; the main server
\* creates, updates and deletes stores between listings.
CONSTANTS
    Handlers = {h1}
    Names = {n1, n2}
    Owners = {o1, o2}
    Kinds <- MCNoKinds
    NoKind = NoKind
    Data = {d1, d2}
    NoStore = NoStore
    None = None
    Missing = Missing
    CatalogOps = {"create", "update", "delete"}
SPECIFICATION Spec
INVARIANT ListingUsesCurrentStore
