SPECIFICATION ServerSpec
CONSTANTS
    a = a
    t = t
    x = x
    y = y
    m = m
    m2 = m2
    u1 = u1
    r1 = r1
    r2 = r2
    e1 = e1
    e2 = e2
    Junk = Junk
    NoFile = NoFile
    NoFd = NoFd
    Names = {a}
    Dirs = {"im/img", "temp"}
    DirOf <- MCDirOf
    StartupDirs = {"temp"}
    TempNames = {}
    BucketOf <- MCBucketOf
    Units <- MCUnits
    Body <- MCBody
    Slots = {u1, r1, r2, e1, e2}
    Uploaders = {u1}
    Requests <- MCData
    MaxUploads = 1
    Readers = {r1, r2}
    ReadKinds = {"get"}
    ChunkSize = 1
    Editors = {e1}
    EditKinds = {"delete"}
    Patches <- MCPatches
    MaxRestarts = 0
    EmptyVolume = FALSE
INVARIANT
    DownloadWhole
