SPECIFICATION ServerFairSpec
CONSTANTS
    a = a
    t = t
    x = x
    y = y
    m = m
    m2 = m2
    u1 = u1
    r1 = r1
    r2 = r2
    e1 = e1
    e2 = e2
    Junk = Junk
    NoFile = NoFile
    NoFd = NoFd
    Names = {a, t}
    Dirs = {"im/img", "temp"}
    DirOf <- MCDirOf
    StartupDirs = {"temp"}
    TempNames = {t}
    BucketOf <- MCBucketOf
    Units <- MCUnits
    Body <- MCBody
    Slots = {u1, r1, e1}
    Uploaders = {u1}
    Requests <- MCDataAndTemp
    MaxUploads = 1
    Readers = {r1}
    ReadKinds = {"get", "temp"}
    ChunkSize = 1
    Editors = {e1}
    EditKinds = {"delete"}
    Patches <- MCPatches
    MaxRestarts = 1
    EmptyVolume = TRUE
INVARIANT
    ServerTypeOK
PROPERTY
    StoredIsBackedUp
