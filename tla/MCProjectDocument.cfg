\* A root, an element that cannot be a generation root again after a restart,
\* and two managers with one meta element or one manager with two.
CONSTANTS
    m = m
    n = n
    i = i
    j = j
    k = k
    Elements = {r, e}
    Root = r
    Packages = {r}
    Managers = {m, n}
    Ids = {i, j, k}
    ManagerOf <- MCManagerOf
    Takes <- MCTakes
    MaxMeta = 3
    None = None
SPECIFICATION Spec
INVARIANTS
    TypeOK
    TrackedAreFound
PROPERTIES
    RoundTrip
