SPECIFICATION Spec
CONSTANTS
    Threads = {t1, t2}
    Lower = {d, f, g}
    Upper = {ud, uf, ug}
    t1 = t1  d = d  f = f  g = g
    ud = ud  uf = uf  ug = ug
    m1 = m1
    Below <- Tree
    Mount <- Mounts
    InitialLive = {ud, uf}
    Files = {uf}
    Calls <- OneBusy
    LowerUnlocks = {"read", "getattr", "setattr", "open", "create", "remove", "rmdir", "rename"}
    Null = Null
INVARIANT LockOwnershipMoves
