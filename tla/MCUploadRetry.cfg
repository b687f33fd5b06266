SPECIFICATION UploadSpec
CONSTANTS
    a = a
    t = t
    x = x
    y = y
    Junk = Junk
    NoFile = NoFile
    NoFd = NoFd
    u1 = u1
    u2 = u2
    Names <- MCNames
    Dirs = {"im", "temp"}
    DirOf <- MCDirOf
    StartupDirs = {"temp"}
    Units <- MCUnits
    Body <- MCBody
    Slots <- MCUploaders
    Uploaders <- MCUploaders
    TempNames = {t}
    Requests <- MCRequests
    MaxUploads = 3
INVARIANT
    RetryAccepted
CHECK_DEADLOCK FALSE
