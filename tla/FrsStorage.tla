---------------------------- MODULE FrsStorage ----------------------------
(***************************************************************************)
(* The local file cache (/app/run/frs/dat/fileCache) that every HTTP        *)
(* handler and the Ceph thread of FRS share without any lock, and the       *)
(* helpers of fileUtils.cpp through which they touch it.                    *)
(*                                                                         *)
(* A resource name stands for one <apptype>/<restype>/<filename>, or one    *)
(* temp/<filename>.  Each name owns three paths: the data file, the ".tmp"  *)
(* file an upload is received into, and the ".metadata" file.  A content is *)
(* a sequence of units (runs of bytes).                                     *)
(*                                                                         *)
(* The helpers open a file, write it and close it; other threads run        *)
(* between the open and the write.  fd[s] is the path at which the inode    *)
(* opened by slot s is linked NOW: rename() carries an open descriptor      *)
(* along, and unlinking an inode (remove, or a rename over it) detaches the *)
(* descriptor, whose writes then reach no path.                             *)
(***************************************************************************)
EXTENDS Naturals, Sequences

CONSTANTS
    Names,      \* resources clients ask for
    Dirs,       \* the <apptype>/<restype> directories, and temp/
    DirOf,      \* the directory of each name
    StartupDirs,\* the directories http_server_thread creates: temp/
    TempNames,  \* names under /api/v1/temp/
    Units,      \* units of content
    Junk,       \* a unit no client sent: bytes past a buffer, or a file hole
    Body,       \* Body[n]: the content whose md5 is the filename of n
    Slots,      \* threads that hold at most one file open for writing
    NoFile,     \* content of a path that does not exist
    NoFd        \* no open file, or one whose inode is unlinked

Kinds == {"data", "tmp", "metadata"}
Paths == Names \X Kinds

File(n) == <<n, "data">>
Tmp(n)  == <<n, "tmp">>
Meta(n) == <<n, "metadata">>

(* What a path variable holds while it is not in use. *)
AnyPath == CHOOSE p \in Paths : TRUE

Contents == Seq(Units)

(* Md5 is taken to be collision free on the contents in play: a content has *)
(* the md5 that names n exactly when it is Body[n].                          *)
ASSUME StorageAssumption ==
    /\ DirOf \in [Names -> Dirs]
    /\ StartupDirs \subseteq Dirs
    /\ TempNames \subseteq Names
    /\ Junk \in Units
    /\ Body \in [Names -> Contents]
    /\ NoFile \notin Contents
    /\ NoFd \notin Paths

VARIABLES
    fs,         \* fs[p]: content of path p, or NoFile
    fd,         \* fd[s]: path of the file slot s has open for writing
    dirs        \* directories that exist

storageVars == <<fs, fd, dirs>>

StorageTypeOK ==
    /\ fs \in [Paths -> Contents \cup {NoFile}]
    /\ fd \in [Slots -> Paths \cup {NoFd}]
    /\ dirs \in SUBSET Dirs

---------------------------------------------------------------------------
(* Contents *)

Larger(a, b) == IF a > b THEN a ELSE b

(* The content c after d was written at offset off. *)
WriteAt(c, off, d) ==
    [i \in 1 .. Larger(Len(c), off + Len(d)) |->
        IF i > off /\ i <= off + Len(d) THEN d[i - off]
        ELSE IF i <= Len(c) THEN c[i]
        ELSE Junk]

---------------------------------------------------------------------------
(* fileUtils.cpp *)

file_exists(p) == fs[p] # NoFile

(* calculate_file_md5(p) is the filename of n; md5sum prints nothing for a  *)
(* missing file, and the empty string is no filename.                       *)
md5_is(p, n) == fs[p] = Body[n]

(* mkdir -p *)
MakeDir(d) == dirs' = dirs \cup {d}

(* An fopen that creates files fails, and the helper writes nothing, when   *)
(* the directory is missing.                                                *)
CanCreate(p) == DirOf[p[1]] \in dirs

(* fopen(p, "w+"), ofstream(p): create or truncate. *)
OpenTrunc(s, p) ==
    /\ CanCreate(p)
    /\ fs' = [fs EXCEPT ![p] = <<>>]
    /\ fd' = [fd EXCEPT ![s] = p]

(* fopen(p, "a+"): create, or keep what is there. *)
OpenAppend(s, p) ==
    /\ CanCreate(p)
    /\ fs' = [fs EXCEPT ![p] = IF @ = NoFile THEN <<>> ELSE @]
    /\ fd' = [fd EXCEPT ![s] = p]

(* The open failed: the helper returns without writing. *)
OpenFailed(s, p) ==
    /\ ~CanCreate(p)
    /\ UNCHANGED <<fs, fd>>

(* What writing c' for the old content c into the open file of s does. *)
WriteFd(s, New(_)) ==
    fs' = IF fd[s] = NoFd THEN fs ELSE [fs EXCEPT ![fd[s]] = New(@)]

CloseFd(s) == fd' = [fd EXCEPT ![s] = NoFd]

(* Descriptors after the inode at path p was unlinked. *)
Detached(p) == [s \in Slots |-> IF fd[s] = p THEN NoFd ELSE fd[s]]

(* Descriptors after the inode at path p replaced the one at path q. *)
Moved(p, q) ==
    [s \in Slots |-> IF fd[s] = p THEN q
                     ELSE IF fd[s] = q THEN NoFd
                     ELSE fd[s]]

(* Does nothing when p does not exist; its callers ignore the result. *)
file_rename(p, q) ==
    IF file_exists(p)
    THEN /\ fs' = [fs EXCEPT ![q] = fs[p], ![p] = NoFile]
         /\ fd' = Moved(p, q)
    ELSE UNCHANGED <<fs, fd>>

(* remove(3) of an existing path. *)
Remove(p) ==
    /\ fs' = [fs EXCEPT ![p] = NoFile]
    /\ fd' = Detached(p)

---------------------------------------------------------------------------
(* The process starts on the cache directory it finds, creating the fixed   *)
(* directories but none of the <restype> ones below them.                   *)
StorageInit ==
    /\ fs = [p \in Paths |-> NoFile]
    /\ fd = [s \in Slots |-> NoFd]
    /\ dirs = StartupDirs

(* Process death closes every descriptor; the files survive as they are. *)
CloseAll == fd' = [s \in Slots |-> NoFd]
===========================================================================
