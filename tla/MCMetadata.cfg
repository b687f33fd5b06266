SPECIFICATION ServerSpec
CONSTANTS
    a = a
    t = t
    x = x
    y = y
    m = m
    m2 = m2
    u1 = u1
    r1 = r1
    r2 = r2
    e1 = e1
    e2 = e2
    Junk = Junk
    NoFile = NoFile
    NoFd = NoFd
    Names = {a}
    Dirs = {"im/img", "temp"}
    DirOf <- MCDirOf
    StartupDirs = {"temp"}
    TempNames = {}
    BucketOf <- MCBucketOf
    Units <- MCUnits
    Body <- MCShortBody
    Slots = {u1, r1, r2, e1, e2}
    Uploaders = {u1}
    Requests <- MCDataAndLongMeta
    MaxUploads = 1
    Readers = {r1}
    ReadKinds = {"getmeta"}
    ChunkSize = 1
    Editors = {e1, e2}
    EditKinds = {"patch", "deletemeta"}
    Patches <- MCTwoPatches
    MaxRestarts = 0
    EmptyVolume = FALSE
INVARIANTS
    MetadataOneVersion
CONSTRAINT MCUnmixed
VIEW MCMetadataView
SYMMETRY MCSymmetry
