SPECIFICATION FairSpec
CONSTANTS
    Mounts = {m1, m2, m3}
    Devices = {d1, d2, d3}
    Disks = {d1, d2}
    None = None
    StackDepth = 3
INVARIANTS
    DeviceRefsExact
    OneMountPerDevice
    FailedMountClean
PROPERTIES
    MountEnds
    DelegationOverflows
