SPECIFICATION FairSpec
CONSTANTS
    Pids = {p1, p2}
    Slots = {0, 1}
    Modules = {m1, m2}
    Hosts = {h1}
    None = None
    ModuleCap = 1
    HostCap = 1
    ConnectionLimits = {1, 3}
INVARIANTS
    CapsHeldUnlessRaced
    RegistryHeals
PROPERTY
    DeadChildrenReaped
