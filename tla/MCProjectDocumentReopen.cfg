\* One package and one stereotype applied to it.
CONSTANTS
    m = m
    n = n
    i = i
    j = j
    k = k
    Elements = {r}
    Root = r
    Packages = {r}
    Managers = {m}
    Ids = {i}
    ManagerOf <- MCManagerOf
    Takes <- MCTakes
    MaxMeta = 3
    None = None
SPECIFICATION Spec
PROPERTIES
    Reopens
