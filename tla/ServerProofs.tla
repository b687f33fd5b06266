---------------------------- MODULE ServerProofs ----------------------------
(***************************************************************************)
(* Proofs about FrsServer: what uploads, downloads, edits, the Ceph thread  *)
(* and restarts may do to each other's files, for any number of threads,    *)
(* names, requests and contents.                                            *)
(***************************************************************************)
EXTENDS FrsServer, UploadProofs

(* Who has a file open, and which.  An upload's file is the data file only  *)
(* if another upload of the name renamed it there.                          *)
FdOfUpload(s) ==
    /\ s \in Uploaders /\ upc[s] \in {"append", "overwrite"}
    /\ \/ fd[s] \in {Tmp(NameOf(s)), Meta(NameOf(s))}
       \/ fd[s] = File(NameOf(s)) /\ NameOf(s) \in raced

FdOfFetch(s) == s \in Readers /\ rpc[s] = "fill" /\ fd[s] = Local(s)

FdOfEdit(s) == s \in Editors /\ epc[s] = "write" /\ fd[s] = epath[s]

FdsOwned ==
    \A s \in Slots : fd[s] # NoFd => FdOfUpload(s) \/ FdOfFetch(s) \/ FdOfEdit(s)

(* A handler that writes metadata writes no other file, and none deletes a  *)
(* .tmp file.                                                               *)
EditPaths ==
    \A s \in Editors :
        /\ epc[s] \in {"open", "write"} => \E n \in Names : epath[s] = Meta(n)
        /\ epc[s] = "remove" => \E n \in Names : epath[s] \in {File(n), Meta(n)}

(* What has passed the md5 check is what the rename will commit. *)
CheckedIsRight ==
    \A u \in Uploaders :
        upc[u] = "rename" /\ NameOf(u) \notin raced => fs[Tmp(NameOf(u))] = Body[NameOf(u)]

(* A reader's variables agree with the place it is at. *)
ReaderInOrder(s) ==
    /\ rpc[s] \notin {"fill", "exists"} => rpos[s] = 0
    /\ rpc[s] # "stream" => rout[s] = <<>>
    /\ rpc[s] = "stream" => Serve(rkind[s]) = "stream"
    /\ rpc[s] = "metadata" => Serve(rkind[s]) = "metadata"
    /\ rpc[s] \in {"open", "fill"} => rbody[s] \in Contents
    /\ rpc[s] = "fill" => rpos[s] <= Len(rbody[s])

(* The first k units of c are those of the content that names n. *)
Begins(c, k, n) == k <= Len(c) /\ k <= Len(Body[n]) /\ \A i \in 1 .. k : c[i] = Body[n][i]

(* What it fetched of an undisturbed name, and what it has streamed of it,  *)
(* is right.                                                                *)
ReaderRight(s) ==
    Undisturbed(rname[s]) =>
        /\ rpc[s] \in {"open", "fill"} /\ rkind[s] # "getmeta" => rbody[s] = Body[rname[s]]
        /\ rpc[s] = "stream" => Begins(rout[s], Len(rout[s]), rname[s])

ReadersRight == \A s \in Readers : ReaderInOrder(s) /\ ReaderRight(s)

(* Some thread that fills the data file of n has written all up to its      *)
(* position: the one that opened it last, or any once the file is whole.    *)
FilledBy(s, n) ==
    /\ rpc[s] = "fill" /\ fd[s] = File(n)
    /\ Begins(fs[File(n)], rpos[s], n)

(* Right units and holes. *)
Partial(c, n) ==
    /\ c \in Contents /\ Len(c) <= Len(Body[n])
    /\ \A i \in 1 .. Len(c) : c[i] \in {Body[n][i], Junk}

(* A data file that is being filled holds right units and holes, and the    *)
(* thread that opened it last will have closed all holes when it is done.   *)
DataRight(n) ==
    IF Filling(File(n))
    THEN Partial(fs[File(n)], n) /\ \E s \in Readers : FilledBy(s, n)
    ELSE fs[File(n)] \in {NoFile, Body[n]}

DataFilesRight == \A n \in Names : Undisturbed(n) => DataRight(n)

ServerInv ==
    /\ ServerTypeOK /\ OpenFileExists
    /\ FdsOwned /\ EditPaths
    /\ OverlapIsRaced /\ CheckedIsRight
    /\ ReadersRight /\ DataFilesRight
    /\ CephIntegrity /\ DownloadIntegrity

---------------------------------------------------------------------------
(* Frames: what a step leaves alone when it touches other variables. *)

(* There is a name, so there is a path. *)
LEMMA AnyPathIsPath == Names # {} /\ AnyPath \in Paths
<1>1. PICK r \in Requests : r.name \in Names
  BY UploadAssumption DEF UploadRequest
<1>2. File(r.name) \in Paths
  BY <1>1, PathFacts
<1> QED BY <1>1, <1>2 DEF AnyPath

(* Histories only grow, so an undisturbed name was undisturbed before. *)
LEMMA StillUndisturbed ==
    ASSUME raced \subseteq raced', torn \subseteq torn'
    PROVE  \A n : Undisturbed(n)' => Undisturbed(n)
BY DEF Undisturbed

LEMMA ReadersFrame ==
    ASSUME ReadersRight, raced \subseteq raced', torn \subseteq torn',
           UNCHANGED <<rpc, rkind, rname, rbody, rpos, rout>>
    PROVE  ReadersRight'
<1>1. \A n : Undisturbed(n)' => Undisturbed(n)
  BY StillUndisturbed
<1> QED BY <1>1 DEF ReadersRight, ReaderInOrder, ReaderRight, Begins

LEMMA DownloadFrame ==
    ASSUME DownloadIntegrity, raced \subseteq raced', torn \subseteq torn',
           UNCHANGED <<rpc, rkind, rname, rresp>>
    PROVE  DownloadIntegrity'
<1>1. \A n : Undisturbed(n)' => Undisturbed(n)
  BY StillUndisturbed
<1> QED BY <1>1 DEF DownloadIntegrity

LEMMA CephFrame ==
    ASSUME CephIntegrity, raced \subseteq raced', torn \subseteq torn', UNCHANGED ceph
    PROVE  CephIntegrity'
<1>1. \A n : Undisturbed(n)' => Undisturbed(n)
  BY StillUndisturbed
<1> QED BY <1>1 DEF CephIntegrity

(* A data file nobody touches stays right, if the same threads fill it. *)
LEMMA DataFrame ==
    ASSUME NEW n \in Names, DataRight(n), fs'[File(n)] = fs[File(n)],
           \A s \in Readers : (rpc'[s] = "fill" /\ fd'[s] = File(n))
                                 <=> (rpc[s] = "fill" /\ fd[s] = File(n)),
           \A s \in Readers : rpc[s] = "fill" /\ fd[s] = File(n) => rpos'[s] = rpos[s]
    PROVE  DataRight(n)'
<1>1. Filling(File(n))' <=> Filling(File(n))
  BY DEF Filling, File
<1>2. \A s \in Readers : FilledBy(s, n) => FilledBy(s, n)'
  BY DEF FilledBy, Begins, File
<1> QED BY <1>1, <1>2 DEF DataRight, Partial, File

(* An open data file of a name whose uploads never overlapped is being      *)
(* filled from Ceph.                                                        *)
LEMMA OpenDataFile ==
    ASSUME ServerInv, NEW n \in Names \ raced, NEW s \in Slots, fd[s] = File(n)
    PROVE  /\ s \in Readers /\ rpc[s] = "fill" /\ rname[s] = n /\ rkind[s] # "getmeta"
           /\ Local(s) = File(n)
<1>1. fd[s] # NoFd
  BY PathFacts, StorageAssumption
<1>2. ~FdOfUpload(s)
  BY PathFacts, NameFacts DEF FdOfUpload, ServerInv, ServerTypeOK
<1>3. ~FdOfEdit(s)
  BY PathFacts DEF FdOfEdit, ServerInv, EditPaths
<1>4. FdOfFetch(s)
  BY <1>1, <1>2, <1>3 DEF ServerInv, FdsOwned
<1>5. rname[s] \in Names
  BY <1>4 DEF FdOfFetch, ServerInv, ServerTypeOK, FetchTypeOK
<1> QED BY <1>4, <1>5, PathFacts DEF FdOfFetch, Local, LocalPath

(* A slot belongs to one kind of handler. *)
LEMMA SlotKinds ==
    /\ \A u \in Uploaders : u \in Slots /\ u \notin Readers /\ u \notin Editors
    /\ \A s \in Readers : s \in Slots /\ s \notin Uploaders /\ s \notin Editors
    /\ \A s \in Editors : s \in Slots /\ s \notin Uploaders /\ s \notin Readers
BY UploadAssumption, FetchAssumption, EditAssumption, ServerAssumption

---------------------------------------------------------------------------
(* The server starts on an empty cache and finds nothing in Ceph. *)
LEMMA ServerInitInv == ServerInit => ServerInv
<1> SUFFICES ASSUME ServerInit PROVE ServerInv
  OBVIOUS
<1>1. UploadTypeOK /\ UploadInit
  BY TypeInit DEF ServerInit
<1>2. <<>> \in Contents
  BY DEF Contents
<1>3. (CHOOSE n \in Names : TRUE) \in Names
  BY AnyPathIsPath
<1>4. ServerTypeOK
  <2>1. CephTypeOK /\ SyncTypeOK
    BY AnyPathIsPath DEF ServerInit, CephInit, CephTypeOK, SyncInit, SyncTypeOK, Buckets
  <2>2. FetchTypeOK
    BY <1>2, <1>3 DEF ServerInit, FetchInit, FetchIdle, FetchTypeOK, FetchPc, AllReadKinds, Responses
  <2>3. EditTypeOK
    BY <1>2, AnyPathIsPath DEF ServerInit, EditInit, EditTypeOK
  <2>4. restarts \in 0 .. MaxRestarts /\ mixed \subseteq Names
    BY ServerAssumption DEF ServerInit
  <2> QED BY <1>1, <2>1, <2>2, <2>3, <2>4 DEF ServerTypeOK
<1>5. OpenFileExists /\ FdsOwned
  BY <1>1 DEF UploadInit, StorageInit, OpenFileExists, FdsOwned
<1>6. EditPaths /\ OverlapIsRaced /\ CheckedIsRight
  BY <1>1 DEF ServerInit, EditInit, UploadInit, EditPaths, OverlapIsRaced, CheckedIsRight, Active
<1>7. ReadersRight /\ DownloadIntegrity
  BY DEF ServerInit, FetchInit, FetchIdle, ReadersRight, ReaderInOrder, ReaderRight,
     DownloadIntegrity, NotFound
<1>8. DataFilesRight /\ CephIntegrity
  <2>1. \A n \in Names : fs[File(n)] = NoFile /\ ceph[File(n)] = NoFile
    BY <1>1, PathFacts DEF ServerInit, CephInit, UploadInit, StorageInit
  <2>2. \A p \in Paths : ~Filling(p)
    BY DEF ServerInit, FetchInit, FetchIdle, Filling
  <2> QED BY <2>1, <2>2, PathFacts DEF DataFilesRight, DataRight, CephIntegrity
<1> QED BY <1>4, <1>5, <1>6, <1>7, <1>8 DEF ServerInv

---------------------------------------------------------------------------
(* Uploads *)

(* What an upload's turn leaves alone, and the types. *)
LEMMA UploadTurnFrame ==
    ASSUME ServerInv, NEW u \in Uploaders, UploadTurn(u)
    PROVE  /\ ServerTypeOK' /\ EditPaths' /\ ReadersRight' /\ CephIntegrity' /\ DownloadIntegrity'
           /\ UNCHANGED <<ceph, fetchVars, editVars, syncVars>>
           /\ raced \subseteq raced'
<1>1. /\ UNCHANGED <<ceph, fetchVars, editVars, syncVars, restarts>>
      /\ FileUploadCallback(u) \/ TempFileUploadCallback(u) \/ Handle(u)
      /\ mixed' = mixed \cup {n \in Names : SharedMeta(n)'}
  BY DEF UploadTurn, NoteMixed
<1>2. /\ UNCHANGED <<rpc, rkind, rname, rbody, rpos, rout, rresp, torn>>
      /\ UNCHANGED <<epc, epath, ebody, eresp>>
      /\ UNCHANGED <<spc, sbucket, slist, scur>>
  BY <1>1 DEF fetchVars, editVars, syncVars
<1>3. UploadTypeOK'
  BY <1>1, TypeNext DEF ServerInv, ServerTypeOK, UploadNext
<1>4. ServerTypeOK'
  BY <1>1, <1>2, <1>3 DEF ServerInv, ServerTypeOK, CephTypeOK, FetchTypeOK, EditTypeOK, SyncTypeOK
<1>5. raced \subseteq raced'
  BY <1>1 DEF FileUploadCallback, TempFileUploadCallback, UploadBegin, RefuseExisting, AcceptBody,
     Handle, OpenPiece, AppendPiece, OverwritePiece, ClosePiece, SkipPart, MissBoundary, EndBody, CheckMd5,
     RenameAndReply
<1>6. EditPaths'
  BY <1>2 DEF ServerInv, EditPaths
<1>7. ReadersRight' /\ CephIntegrity' /\ DownloadIntegrity'
  BY <1>1, <1>2, <1>5, ReadersFrame, CephFrame, DownloadFrame DEF ServerInv
<1> QED BY <1>1, <1>4, <1>5, <1>6, <1>7

(* Steps that open, write and rename nothing. *)
LEMMA UploadQuietInv ==
    ASSUME ServerInv, NEW u \in Uploaders, UploadTurn(u),
           \/ \E r \in Requests : UploadBegin(u, r)
           \/ SkipPart(u) \/ MissBoundary(u) \/ EndBody(u) \/ CheckMd5(u)
    PROVE  ServerInv'
<1>0. /\ ServerTypeOK' /\ EditPaths' /\ ReadersRight' /\ CephIntegrity' /\ DownloadIntegrity'
      /\ UNCHANGED <<ceph, fetchVars, editVars, syncVars>> /\ raced \subseteq raced'
  BY UploadTurnFrame
<1>01. UNCHANGED <<rpc, rkind, rname, rpos, torn, epc, epath>>
  BY <1>0 DEF fetchVars, editVars
<1>02. UploadTypeOK
  BY DEF ServerInv, ServerTypeOK
<1>1. UNCHANGED <<fs, fd>>
  BY DEF UploadBegin, SkipPart, MissBoundary, EndBody, CheckMd5
<1>2. upc[u] \notin {"append", "overwrite"}
  BY DEF UploadBegin, SkipPart, MissBoundary, EndBody, CheckMd5, Receiving
<1>3. \A v \in Uploaders : v # u => upc'[v] = upc[v] /\ ureq'[v] = ureq[v]
  BY <1>02 DEF UploadBegin, RefuseExisting, AcceptBody, SkipPart, MissBoundary, EndBody, CheckMd5, UploadTypeOK
<1>4. OpenFileExists'
  BY <1>1 DEF ServerInv, OpenFileExists
<1>5. FdsOwned'
  <2> SUFFICES ASSUME NEW s \in Slots, fd[s] # NoFd
               PROVE  (FdOfUpload(s) \/ FdOfFetch(s) \/ FdOfEdit(s))'
    BY <1>1 DEF FdsOwned
  <2>1. CASE FdOfUpload(s)
    BY <1>0, <1>1, <1>2, <1>3, <2>1 DEF FdOfUpload, NameOf
  <2>2. CASE FdOfFetch(s)
    BY <1>01, <1>1, <2>2 DEF FdOfFetch, Local
  <2>3. CASE FdOfEdit(s)
    BY <1>01, <1>1, <2>3 DEF FdOfEdit
  <2> QED BY <2>1, <2>2, <2>3 DEF ServerInv, FdsOwned
<1>6. DataFilesRight'
  <2> SUFFICES ASSUME NEW n \in Names, Undisturbed(n)' PROVE DataRight(n)'
    BY DEF DataFilesRight
  <2>1. DataRight(n)
    BY <1>0, <1>01, StillUndisturbed DEF ServerInv, DataFilesRight
  <2> QED BY <1>01, <1>1, <2>1, DataFrame
<1>7. CASE \E r \in Requests : UploadBegin(u, r)
  <2>1. PICK r \in Requests : UploadBegin(u, r)
    BY <1>7
  <2>2. CASE RefuseExisting(u, r)
    <3>1. UNCHANGED <<upc, ureq, raced>>
      BY <2>2 DEF RefuseExisting
    <3>2. OverlapIsRaced' /\ CheckedIsRight'
      BY <1>1, <3>1 DEF ServerInv, OverlapIsRaced, CheckedIsRight, Active, NameOf
    <3> QED BY <1>0, <1>4, <1>5, <1>6, <3>2 DEF ServerInv
  <2>3. CASE AcceptBody(u, r)
    <3>1. upc'[u] = "body" /\ ureq'[u] = r /\ upc[u] = "idle"
      BY <1>02, <2>1, <2>3 DEF AcceptBody, UploadBegin, UploadTypeOK
    <3>2. \A v \in Uploaders : Active(v) /\ NameOf(v) = r.name => r.name \in raced'
      BY <2>3 DEF AcceptBody
    <3>3. OverlapIsRaced'
      BY <1>0, <1>3, <3>1, <3>2 DEF ServerInv, OverlapIsRaced, Active, NameOf
    <3>4. CheckedIsRight'
      BY <1>0, <1>1, <1>3, <3>1 DEF ServerInv, CheckedIsRight, NameOf
    <3> QED BY <1>0, <1>4, <1>5, <1>6, <3>3, <3>4 DEF ServerInv
  <2> QED BY <2>1, <2>2, <2>3 DEF UploadBegin
<1>8. CASE SkipPart(u) \/ MissBoundary(u) \/ EndBody(u) \/ CheckMd5(u)
  <2>1. UNCHANGED <<ureq, raced>> /\ upc[u] \in {"body", "md5"}
    BY <1>8 DEF SkipPart, MissBoundary, EndBody, CheckMd5, Receiving
  <2>2. upc'[u] = "rename" => fs[Tmp(NameOf(u))] = Body[NameOf(u)]
    BY <1>02, <1>8 DEF SkipPart, MissBoundary, EndBody, CheckMd5, Receiving, md5_is, UploadTypeOK
  <2>3. OverlapIsRaced'
    BY <1>3, <2>1 DEF ServerInv, OverlapIsRaced, Active, NameOf
  <2>4. CheckedIsRight'
    BY <1>1, <1>3, <2>1, <2>2 DEF ServerInv, CheckedIsRight, NameOf
  <2> QED BY <1>0, <1>4, <1>5, <1>6, <2>3, <2>4 DEF ServerInv
<1> QED BY <1>7, <1>8

(* A piece is opened for: .tmp or .metadata of the upload's own name. *)
LEMMA UploadOpenInv ==
    ASSUME ServerInv, NEW u \in Uploaders, UploadTurn(u), OpenPiece(u)
    PROVE  ServerInv'
<1> DEFINE n == NameOf(u)
<1>0. /\ ServerTypeOK' /\ EditPaths' /\ ReadersRight' /\ CephIntegrity' /\ DownloadIntegrity'
      /\ UNCHANGED <<ceph, fetchVars, editVars, syncVars>>
  BY UploadTurnFrame
<1>01. UNCHANGED <<rpc, rkind, rname, rpos, torn, epc, epath>>
  BY <1>0 DEF fetchVars, editVars
<1>02. UploadTypeOK /\ StorageTypeOK
  BY DEF ServerInv, ServerTypeOK, UploadTypeOK
<1>03. n \in Names /\ u \in Slots
  BY <1>02, NameFacts
<1>1. PICK q \in {Tmp(n), Meta(n)} : OpenTrunc(u, q) \/ OpenAppend(u, q)
  BY DEF OpenPiece, OpenTarget
<1>2. q \in Paths /\ q # NoFd
  BY <1>03, PathFacts, StorageAssumption
<1>3. /\ fd' = [fd EXCEPT ![u] = q]
      /\ \A p \in Paths : p # q => fs'[p] = fs[p]
      /\ fs'[q] # NoFile
  BY <1>02, <1>1, <1>2, EmptyContent DEF OpenTrunc, OpenAppend, StorageTypeOK
<1>4. fd'[u] = q /\ \A s \in Slots : s # u => fd'[s] = fd[s]
  BY <1>02, <1>03, <1>3 DEF StorageTypeOK
<1>5. /\ upc[u] = "body" /\ upc'[u] \in {"append", "overwrite"} /\ UNCHANGED <<ureq, raced>>
      /\ \A v \in Uploaders : v # u => upc'[v] = upc[v]
  BY <1>02 DEF OpenPiece, Receiving, UploadTypeOK
<1>6. OpenFileExists'
  <2>1. \A s \in Slots : fd[s] # NoFd => fd[s] \in Paths
    BY <1>02 DEF StorageTypeOK
  <2> QED BY <1>3, <1>4, <2>1 DEF ServerInv, OpenFileExists
<1>7. FdsOwned'
  <2> SUFFICES ASSUME NEW s \in Slots, fd'[s] # NoFd
               PROVE  (FdOfUpload(s) \/ FdOfFetch(s) \/ FdOfEdit(s))'
    BY DEF FdsOwned
  <2>1. CASE s = u
    BY <1>4, <1>5, <2>1 DEF FdOfUpload, NameOf
  <2>2. CASE s # u
    <3>1. fd'[s] = fd[s]
      BY <1>4, <2>2
    <3>2. FdOfUpload(s) => FdOfUpload(s)'
      BY <1>5, <2>2, <3>1 DEF FdOfUpload, NameOf
    <3>3. FdOfFetch(s) => FdOfFetch(s)'
      BY <1>01, <3>1 DEF FdOfFetch, Local
    <3>4. FdOfEdit(s) => FdOfEdit(s)'
      BY <1>01, <3>1 DEF FdOfEdit
    <3> QED BY <3>1, <3>2, <3>3, <3>4 DEF ServerInv, FdsOwned
  <2> QED BY <2>1, <2>2
<1>8. OverlapIsRaced'
  BY <1>5 DEF ServerInv, OverlapIsRaced, Active, NameOf
<1>9. CheckedIsRight'
  <2> SUFFICES ASSUME NEW v \in Uploaders, upc'[v] = "rename", NameOf(v) \notin raced
               PROVE  fs'[Tmp(NameOf(v))] = Body[NameOf(v)]
    BY <1>5 DEF CheckedIsRight, NameOf
  <2>1. v # u /\ upc[v] = "rename" /\ NameOf(v) \in Names
    BY <1>5, <1>02, NameFacts
  <2>2. NameOf(v) # n
    BY <1>5, <2>1 DEF ServerInv, OverlapIsRaced, Active
  <2>3. Tmp(NameOf(v)) # q /\ Tmp(NameOf(v)) \in Paths
    BY <1>03, <2>1, <2>2, PathFacts
  <2> QED BY <1>3, <2>1, <2>3 DEF ServerInv, CheckedIsRight
<1>10. DataFilesRight'
  <2> SUFFICES ASSUME NEW m \in Names, Undisturbed(m)' PROVE DataRight(m)'
    BY DEF DataFilesRight
  <2>1. DataRight(m)
    BY <1>01, <1>5 DEF ServerInv, DataFilesRight, Undisturbed
  <2>2. fs'[File(m)] = fs[File(m)]
    BY <1>03, <1>3, PathFacts
  <2>3. \A s \in Readers : s # u /\ s \in Slots
    BY SlotKinds
  <2> QED BY <1>01, <1>4, <2>1, <2>2, <2>3, DataFrame
<1> QED BY <1>0, <1>6, <1>7, <1>8, <1>9, <1>10 DEF ServerInv

(* A write into the open file of s, which is then closed or not: one path   *)
(* changes, and none appears or disappears.                                 *)
LEMMA WriteFacts ==
    ASSUME StorageTypeOK, OpenFileExists, NEW s \in Slots, NEW c \in Contents,
           fs' = IF fd[s] = NoFd THEN fs ELSE [fs EXCEPT ![fd[s]] = c]
    PROVE  /\ fs' \in [Paths -> Contents \cup {NoFile}]
           /\ \A p \in Paths : p # fd[s] => fs'[p] = fs[p]
           /\ fd[s] # NoFd => fd[s] \in Paths /\ fs'[fd[s]] = c
           /\ \A p \in Paths : fs'[p] = NoFile <=> fs[p] = NoFile
<1>1. CASE fd[s] = NoFd
  BY <1>1 DEF StorageTypeOK
<1>2. CASE fd[s] # NoFd
  <2>1. fd[s] \in Paths /\ fs' = [fs EXCEPT ![fd[s]] = c]
    BY <1>2 DEF StorageTypeOK
  <2>2. \A p \in Paths : fs'[p] = IF p = fd[s] THEN c ELSE fs[p]
    BY <2>1 DEF StorageTypeOK
  <2>3. fs[fd[s]] # NoFile /\ c # NoFile
    BY <1>2, StorageAssumption DEF OpenFileExists
  <2> QED BY <1>2, <2>1, <2>2, <2>3 DEF StorageTypeOK
<1> QED BY <1>1, <1>2

(* The piece is written to the file that was opened for it, wherever that   *)
(* is linked now, and the file is closed.                                   *)
LEMMA UploadWriteInv ==
    ASSUME ServerInv, NEW u \in Uploaders, UploadTurn(u), AppendPiece(u) \/ OverwritePiece(u)
    PROVE  ServerInv'
<1> DEFINE n == NameOf(u)
<1>0. /\ ServerTypeOK' /\ EditPaths' /\ ReadersRight' /\ CephIntegrity' /\ DownloadIntegrity'
      /\ UNCHANGED <<ceph, fetchVars, editVars, syncVars>>
  BY UploadTurnFrame
<1>01. UNCHANGED <<rpc, rkind, rname, rpos, torn, epc, epath>>
  BY <1>0 DEF fetchVars, editVars
<1>02. UploadTypeOK /\ StorageTypeOK /\ OpenFileExists
  BY DEF ServerInv, ServerTypeOK, UploadTypeOK
<1>03. n \in Names /\ u \in Slots /\ upiece[u] \in Contents
  BY <1>02, NameFacts DEF UploadTypeOK
<1>1. /\ upc[u] \in {"append", "overwrite"} /\ upc'[u] = "body"
      /\ \A v \in Uploaders : v # u => upc'[v] = upc[v]
      /\ UNCHANGED <<ureq, raced>>
      /\ fd' = [fd EXCEPT ![u] = NoFd]
  BY <1>02 DEF AppendPiece, OverwritePiece, ClosePiece, CloseFd, UploadTypeOK
<1>2. fd'[u] = NoFd /\ \A s \in Slots : s # u => fd'[s] = fd[s]
  BY <1>02, <1>03, <1>1 DEF StorageTypeOK
<1>3. /\ \A p \in Paths : p # fd[u] => fs'[p] = fs[p]
      /\ \A p \in Paths : fs'[p] = NoFile <=> fs[p] = NoFile
  <2>1. CASE fd[u] = NoFd
    BY <2>1 DEF AppendPiece, OverwritePiece, WriteFd
  <2>2. CASE fd[u] # NoFd
    <3>1. fs[fd[u]] \in Contents
      BY <1>02, <1>03, <2>2 DEF StorageTypeOK, OpenFileExists
    <3>2. fs[fd[u]] \o upiece[u] \in Contents /\ WriteAt(fs[fd[u]], 0, upiece[u]) \in Contents
      <4>1. fs[fd[u]] \o upiece[u] \in Contents
        BY <1>03, <3>1 DEF Contents
      <4> QED BY <1>03, <3>1, <4>1, WriteAtType
    <3>3. PICK c \in Contents : fs' = IF fd[u] = NoFd THEN fs ELSE [fs EXCEPT ![fd[u]] = c]
      BY <2>2, <3>2 DEF AppendPiece, OverwritePiece, WriteFd
    <3> QED BY <1>02, <1>03, <3>3, WriteFacts
  <2> QED BY <2>1, <2>2
<1>4. fd[u] # NoFd => fd[u] \in {Tmp(n), Meta(n)} \/ (fd[u] = File(n) /\ n \in raced)
  BY <1>03, SlotKinds DEF ServerInv, FdsOwned, FdOfUpload, FdOfFetch, FdOfEdit
<1>5. OpenFileExists'
  <2>1. \A s \in Slots : fd'[s] # NoFd => fd'[s] = fd[s] /\ fd[s] \in Paths
    BY <1>02, <1>2 DEF StorageTypeOK
  <2> QED BY <1>02, <1>3, <2>1 DEF OpenFileExists
<1>6. FdsOwned'
  <2> SUFFICES ASSUME NEW s \in Slots, fd'[s] # NoFd
               PROVE  (FdOfUpload(s) \/ FdOfFetch(s) \/ FdOfEdit(s))'
    BY DEF FdsOwned
  <2>1. s # u /\ fd'[s] = fd[s]
    BY <1>2
  <2>2. FdOfUpload(s) => FdOfUpload(s)'
    BY <1>1, <2>1 DEF FdOfUpload, NameOf
  <2>3. FdOfFetch(s) => FdOfFetch(s)'
    BY <1>01, <2>1 DEF FdOfFetch, Local
  <2>4. FdOfEdit(s) => FdOfEdit(s)'
    BY <1>01, <2>1 DEF FdOfEdit
  <2> QED BY <2>1, <2>2, <2>3, <2>4 DEF ServerInv, FdsOwned
<1>7. OverlapIsRaced'
  BY <1>1 DEF ServerInv, OverlapIsRaced, Active, NameOf
<1>8. CheckedIsRight'
  <2> SUFFICES ASSUME NEW v \in Uploaders, upc'[v] = "rename", NameOf(v) \notin raced
               PROVE  fs'[Tmp(NameOf(v))] = Body[NameOf(v)]
    BY <1>1 DEF CheckedIsRight, NameOf
  <2>1. v # u /\ upc[v] = "rename" /\ NameOf(v) \in Names
    BY <1>1, <1>02, NameFacts
  <2>2. NameOf(v) # n
    BY <1>1, <2>1 DEF ServerInv, OverlapIsRaced, Active
  <2>3. Tmp(NameOf(v)) \in Paths /\ Tmp(NameOf(v)) # fd[u]
    BY <1>03, <1>4, <2>1, <2>2, PathFacts, StorageAssumption
  <2> QED BY <1>3, <2>1, <2>3 DEF ServerInv, CheckedIsRight
<1>9. DataFilesRight'
  <2> SUFFICES ASSUME NEW m \in Names, Undisturbed(m)' PROVE DataRight(m)'
    BY DEF DataFilesRight
  <2>1. DataRight(m) /\ m \notin raced
    BY <1>01, <1>1 DEF ServerInv, DataFilesRight, Undisturbed
  <2>2. File(m) \in Paths /\ File(m) # fd[u]
    BY <1>03, <1>4, <2>1, PathFacts, StorageAssumption
  <2>3. \A s \in Readers : s # u /\ s \in Slots
    BY SlotKinds
  <2> QED BY <1>01, <1>2, <1>3, <2>1, <2>2, <2>3, DataFrame
<1> QED BY <1>0, <1>5, <1>6, <1>7, <1>8, <1>9 DEF ServerInv

(* The rename puts the checked .tmp in place of whatever is there: a file   *)
(* that is being filled from Ceph loses its path, not its writers.          *)
LEMMA UploadRenameInv ==
    ASSUME ServerInv, NEW u \in Uploaders, UploadTurn(u), RenameAndReply(u)
    PROVE  ServerInv'
<1> DEFINE n == NameOf(u)
<1>0. /\ ServerTypeOK' /\ EditPaths' /\ ReadersRight' /\ CephIntegrity' /\ DownloadIntegrity'
      /\ UNCHANGED <<ceph, fetchVars, editVars, syncVars>>
  BY UploadTurnFrame
<1>01. UNCHANGED <<rpc, rkind, rname, rpos, torn, epc, epath>>
  BY <1>0 DEF fetchVars, editVars
<1>02. UploadTypeOK /\ StorageTypeOK
  BY DEF ServerInv, ServerTypeOK, UploadTypeOK
<1>03. /\ n \in Names /\ u \in Slots /\ Body[n] # NoFile
       /\ File(n) \in Paths /\ Tmp(n) \in Paths /\ File(n) # Tmp(n)
       /\ File(n) # NoFd /\ Tmp(n) # NoFd
  BY <1>02, NameFacts, PathFacts, StorageAssumption
<1>1. /\ upc[u] = "rename" /\ upc'[u] = "idle" /\ UNCHANGED <<ureq, raced>>
      /\ \A v \in Uploaders : v # u => upc'[v] = upc[v]
      /\ file_rename(Tmp(n), File(n))
  BY <1>02 DEF RenameAndReply, UploadTypeOK
<1>2. OverlapIsRaced'
  BY <1>1 DEF ServerInv, OverlapIsRaced, Active, NameOf
<1>3. CASE fs[Tmp(n)] = NoFile
  <2>1. UNCHANGED <<fs, fd>> /\ n \in raced
    BY <1>03, <1>1, <1>3 DEF file_rename, file_exists, ServerInv, CheckedIsRight
  <2>2. OpenFileExists'
    BY <2>1 DEF ServerInv, OpenFileExists
  <2>3. FdsOwned'
    <3> SUFFICES ASSUME NEW s \in Slots, fd[s] # NoFd
                 PROVE  (FdOfUpload(s) \/ FdOfFetch(s) \/ FdOfEdit(s))'
      BY <2>1 DEF FdsOwned
    <3>1. FdOfUpload(s) => FdOfUpload(s)'
      BY <1>1, <2>1 DEF FdOfUpload, NameOf
    <3>2. FdOfFetch(s) => FdOfFetch(s)'
      BY <1>01, <2>1 DEF FdOfFetch, Local
    <3>3. FdOfEdit(s) => FdOfEdit(s)'
      BY <1>01, <2>1 DEF FdOfEdit
    <3> QED BY <3>1, <3>2, <3>3 DEF ServerInv, FdsOwned
  <2>4. CheckedIsRight'
    BY <1>1, <2>1 DEF ServerInv, CheckedIsRight, NameOf
  <2>5. DataFilesRight'
    <3> SUFFICES ASSUME NEW m \in Names, Undisturbed(m)' PROVE DataRight(m)'
      BY DEF DataFilesRight
    <3>1. DataRight(m)
      BY <1>01, <1>1 DEF ServerInv, DataFilesRight, Undisturbed
    <3> QED BY <1>01, <2>1, <3>1, DataFrame
  <2> QED BY <1>0, <1>2, <2>2, <2>3, <2>4, <2>5 DEF ServerInv
<1>4. CASE fs[Tmp(n)] # NoFile
  <2>1. /\ fs' = [fs EXCEPT ![File(n)] = fs[Tmp(n)], ![Tmp(n)] = NoFile]
        /\ fd' = Moved(Tmp(n), File(n))
    BY <1>1, <1>4 DEF file_rename, file_exists
  <2>2. /\ fs'[File(n)] = fs[Tmp(n)] /\ fs'[Tmp(n)] = NoFile
        /\ \A p \in Paths : p # File(n) /\ p # Tmp(n) => fs'[p] = fs[p]
    BY <1>02, <1>03, <2>1 DEF StorageTypeOK
  <2>3. \A s \in Slots : fd'[s] = IF fd[s] = Tmp(n) THEN File(n)
                                  ELSE IF fd[s] = File(n) THEN NoFd ELSE fd[s]
    BY <2>1 DEF Moved
  <2>4. OpenFileExists'
    <3> SUFFICES ASSUME NEW s \in Slots, fd'[s] # NoFd PROVE fs'[fd'[s]] # NoFile
      BY DEF OpenFileExists
    <3>1. fd[s] # NoFd /\ fd[s] \in Paths /\ fs[fd[s]] # NoFile
      BY <1>02, <1>03, <2>3 DEF StorageTypeOK, ServerInv, OpenFileExists
    <3> QED BY <1>03, <1>4, <2>2, <2>3, <3>1
  <2>5. FdsOwned'
    <3> SUFFICES ASSUME NEW s \in Slots, fd'[s] # NoFd
                 PROVE  (FdOfUpload(s) \/ FdOfFetch(s) \/ FdOfEdit(s))'
      BY DEF FdsOwned
    <3>1. fd[s] # NoFd
      BY <1>03, <2>3
    <3>2. CASE FdOfUpload(s)
      <4>1. s # u /\ upc'[s] = upc[s] /\ NameOf(s)' = NameOf(s) /\ NameOf(s) \in Names
        BY <1>1, <1>02, <3>2, NameFacts DEF FdOfUpload, NameOf
      <4>2. CASE fd[s] = Tmp(n)
        <5>1. NameOf(s) = n
          BY <1>03, <3>2, <4>1, <4>2, PathFacts DEF FdOfUpload
        <5>2. n \in raced
          BY <1>1, <3>2, <4>1, <5>1 DEF FdOfUpload, ServerInv, OverlapIsRaced, Active
        <5>3. fd'[s] = File(n)
          BY <2>3, <4>2
        <5> QED BY <1>1, <3>2, <4>1, <5>1, <5>2, <5>3 DEF FdOfUpload
      <4>3. CASE fd[s] # Tmp(n)
        <5>1. fd'[s] = fd[s]
          BY <2>3, <4>3
        <5> QED BY <1>1, <3>2, <4>1, <5>1 DEF FdOfUpload
      <4> QED BY <4>2, <4>3
    <3>3. CASE FdOfFetch(s)
      <4>1. rname[s] \in Names
        BY <3>3 DEF FdOfFetch, ServerInv, ServerTypeOK, FetchTypeOK
      <4>2. fd[s] # Tmp(n)
        BY <1>03, <3>3, <4>1, PathFacts DEF FdOfFetch, Local, LocalPath
      <4>3. fd'[s] = fd[s]
        BY <2>3, <4>2
      <4> QED BY <1>01, <3>3, <4>3 DEF FdOfFetch, Local
    <3>4. CASE FdOfEdit(s)
      <4>1. fd[s] # Tmp(n)
        BY <1>03, <3>4, PathFacts DEF FdOfEdit, ServerInv, EditPaths
      <4>2. fd'[s] = fd[s]
        BY <2>3, <4>1
      <4> QED BY <1>01, <3>4, <4>2 DEF FdOfEdit
    <3> QED BY <3>1, <3>2, <3>3, <3>4 DEF ServerInv, FdsOwned
  <2>6. CheckedIsRight'
    <3> SUFFICES ASSUME NEW v \in Uploaders, upc'[v] = "rename", NameOf(v) \notin raced
                 PROVE  fs'[Tmp(NameOf(v))] = Body[NameOf(v)]
      BY <1>1 DEF CheckedIsRight, NameOf
    <3>1. v # u /\ upc[v] = "rename" /\ NameOf(v) \in Names
      BY <1>1, <1>02, NameFacts
    <3>2. NameOf(v) # n
      BY <1>1, <3>1 DEF ServerInv, OverlapIsRaced, Active
    <3> QED BY <1>03, <2>2, <3>1, <3>2, PathFacts DEF ServerInv, CheckedIsRight
  <2>7. DataFilesRight'
    <3> SUFFICES ASSUME NEW m \in Names, Undisturbed(m)' PROVE DataRight(m)'
      BY DEF DataFilesRight
    <3>1. DataRight(m) /\ m \notin raced
      BY <1>01, <1>1 DEF ServerInv, DataFilesRight, Undisturbed
    <3>2. CASE m = n
      <4>1. fs'[File(m)] = Body[m]
        BY <1>1, <2>2, <3>1, <3>2 DEF ServerInv, CheckedIsRight
      <4>2. ~Filling(File(m))'
        <5> SUFFICES ASSUME NEW s \in Readers, fd'[s] = File(n) PROVE FALSE
          BY <3>2 DEF Filling, File
        <5>1. s \in Slots /\ fd[s] = Tmp(n)
          BY <1>03, <2>3, SlotKinds
        <5>2. ~FdOfUpload(s) /\ ~FdOfEdit(s)
          BY SlotKinds DEF FdOfUpload, FdOfEdit
        <5>3. FdOfFetch(s) /\ rname[s] \in Names
          BY <1>03, <5>1, <5>2 DEF ServerInv, FdsOwned, ServerTypeOK, FetchTypeOK
        <5> QED BY <1>03, <5>1, <5>3, PathFacts DEF FdOfFetch, Local, LocalPath
      <4> QED BY <3>2, <4>1, <4>2 DEF DataRight, File
    <3>3. CASE m # n
      <4>1. File(m) \in Paths /\ File(m) # File(n) /\ File(m) # Tmp(n)
        BY <1>03, <3>3, PathFacts
      <4>2. \A s \in Readers : fd'[s] = File(m) <=> fd[s] = File(m)
        BY <2>3, <4>1, SlotKinds, StorageAssumption
      <4> QED BY <1>01, <2>2, <3>1, <4>1, <4>2, DataFrame
    <3> QED BY <3>2, <3>3
  <2> QED BY <1>0, <1>2, <2>4, <2>5, <2>6, <2>7 DEF ServerInv
<1> QED BY <1>3, <1>4

LEMMA UploadTurnInv ==
    ASSUME ServerInv, NEW u \in Uploaders, UploadTurn(u)
    PROVE  ServerInv'
<1>1. \/ \E r \in Requests : UploadBegin(u, r)
      \/ SkipPart(u) \/ MissBoundary(u) \/ EndBody(u) \/ CheckMd5(u)
      \/ OpenPiece(u) \/ AppendPiece(u) \/ OverwritePiece(u) \/ RenameAndReply(u)
  BY DEF UploadTurn, FileUploadCallback, TempFileUploadCallback, Handle
<1> QED BY <1>1, UploadQuietInv, UploadOpenInv, UploadWriteInv, UploadRenameInv

---------------------------------------------------------------------------
(* Edits *)

(* It is enough that an edit leaves every .tmp file alone, and every data   *)
(* file or removes it together with the descriptors of those who fill it.   *)
LEMMA EditTurnFrame ==
    ASSUME ServerInv, NEW s \in Editors, EditTurn(s),
           StorageTypeOK', EditTypeOK', EditPaths', OpenFileExists', FdsOwned',
           \A n \in Names :
              /\ fs'[Tmp(n)] = fs[Tmp(n)]
              /\ \/ /\ fs'[File(n)] = fs[File(n)]
                    /\ \A r \in Readers : fd'[r] = File(n) <=> fd[r] = File(n)
                 \/ /\ fs'[File(n)] = NoFile
                    /\ \A r \in Readers : fd'[r] # File(n)
    PROVE  ServerInv'
<1>1. /\ UNCHANGED <<ceph, uploadVars, fetchVars, syncVars, restarts>>
      /\ mixed' = mixed \cup {n \in Names : SharedMeta(n)'}
  BY DEF EditTurn, NoteMixed
<1>2. /\ UNCHANGED <<rpc, rkind, rname, rbody, rpos, rout, rresp, torn>>
      /\ UNCHANGED <<upc, ureq, uparts, upiece, uresp, begun, raced, ufresh, ulost>>
      /\ UNCHANGED <<spc, sbucket, slist, scur>>
  BY <1>1 DEF fetchVars, uploadVars, syncVars
<1>3. UploadTypeOK'
  BY <1>2 DEF ServerInv, ServerTypeOK, UploadTypeOK
<1>4. ServerTypeOK'
  BY <1>1, <1>2, <1>3 DEF ServerInv, ServerTypeOK, CephTypeOK, FetchTypeOK, SyncTypeOK
<1>5. ReadersRight' /\ CephIntegrity' /\ DownloadIntegrity'
  BY <1>1, <1>2, ReadersFrame, CephFrame, DownloadFrame DEF ServerInv
<1>6. OverlapIsRaced'
  BY <1>2 DEF ServerInv, OverlapIsRaced, Active, NameOf
<1>7. CheckedIsRight'
  <2>1. \A v \in Uploaders : NameOf(v) \in Names
    BY NameFacts DEF ServerInv, ServerTypeOK
  <2> QED BY <1>2, <2>1 DEF ServerInv, CheckedIsRight, NameOf
<1>8. DataFilesRight'
  <2> SUFFICES ASSUME NEW n \in Names, Undisturbed(n)' PROVE DataRight(n)'
    BY DEF DataFilesRight
  <2>1. DataRight(n)
    BY <1>2 DEF ServerInv, DataFilesRight, Undisturbed
  <2>2. CASE fs'[File(n)] = fs[File(n)] /\ \A r \in Readers : fd'[r] = File(n) <=> fd[r] = File(n)
    BY <1>2, <2>1, <2>2, DataFrame
  <2>3. CASE fs'[File(n)] = NoFile /\ \A r \in Readers : fd'[r] # File(n)
    BY <2>3 DEF DataRight, Filling, File
  <2> QED BY <2>2, <2>3
<1> QED BY <1>4, <1>5, <1>6, <1>7, <1>8 DEF ServerInv

(* A request is looked at: no file is touched. *)
LEMMA EditBeginInv ==
    ASSUME ServerInv, NEW s \in Editors, EditTurn(s), EditNew(s)
    PROVE  ServerInv'
<1>1. EditTypeOK /\ StorageTypeOK
  BY DEF ServerInv, ServerTypeOK, UploadTypeOK
<1>2. UNCHANGED <<fs, fd, dirs>> /\ epc[s] = "idle"
  BY DEF EditNew, MetadataPatchCallback, FileDeleteCallback, EditBegin
<1>3. PICK n \in Names :
         \/ /\ EditBegin(s, File(n), Meta(n), "open")
            /\ \E c \in Patches : ebody' = [ebody EXCEPT ![s] = IF file_exists(File(n)) THEN c ELSE @]
         \/ EditBegin(s, File(n), File(n), "remove") /\ UNCHANGED ebody
         \/ EditBegin(s, Meta(n), Meta(n), "remove") /\ UNCHANGED ebody
  BY DEF EditNew, MetadataPatchCallback, FileDeleteCallback
<1>4. \/ \E p \in {Meta(n), File(n)}, next \in {"open", "remove"} :
            /\ (next = "open" => p = Meta(n))
            /\ epc' = [epc EXCEPT ![s] = next]
            /\ epath' = [epath EXCEPT ![s] = p]
            /\ eresp' = [eresp EXCEPT ![s] = Pending]
      \/ Answer(s, EditReply(400, -4))
  BY <1>3 DEF EditBegin
<1>5. ebody' \in [Editors -> Contents]
  BY <1>1, <1>3, EditAssumption DEF EditTypeOK
<1>6. EditTypeOK'
  BY <1>1, <1>4, <1>5, PathFacts, AnyPathIsPath DEF EditTypeOK, Answer
<1>7. \A r \in Editors : r # s => epc'[r] = epc[r] /\ epath'[r] = epath[r]
  BY <1>1, <1>4 DEF EditTypeOK, Answer
<1>8. \/ epc'[s] = "idle"
      \/ epc'[s] = "open" /\ epath'[s] = Meta(n)
      \/ epc'[s] = "remove" /\ epath'[s] \in {File(n), Meta(n)}
  BY <1>1, <1>4 DEF EditTypeOK, Answer
<1>9. EditPaths'
  BY <1>7, <1>8 DEF ServerInv, EditPaths, File, Meta
<1>10. StorageTypeOK' /\ OpenFileExists'
  BY <1>1, <1>2 DEF StorageTypeOK, ServerInv, OpenFileExists
<1>11. UNCHANGED <<uploadVars, fetchVars>>
  BY DEF EditTurn
<1>12. UNCHANGED <<upc, ureq, raced, rpc, rkind, rname>>
  BY <1>11 DEF uploadVars, fetchVars
<1>13. FdsOwned'
  <2> SUFFICES ASSUME NEW t \in Slots, fd[t] # NoFd
               PROVE  (FdOfUpload(t) \/ FdOfFetch(t) \/ FdOfEdit(t))'
    BY <1>2 DEF FdsOwned
  <2>1. FdOfUpload(t) => FdOfUpload(t)'
    BY <1>2, <1>12 DEF FdOfUpload, NameOf
  <2>2. FdOfFetch(t) => FdOfFetch(t)'
    BY <1>2, <1>12 DEF FdOfFetch, Local
  <2>3. FdOfEdit(t) => FdOfEdit(t)'
    BY <1>2, <1>7 DEF FdOfEdit
  <2> QED BY <2>1, <2>2, <2>3 DEF ServerInv, FdsOwned
<1> QED BY <1>2, <1>6, <1>9, <1>10, <1>13, EditTurnFrame

(* write_to_file opens, or writes and closes, the metadata of one name. *)
LEMMA EditPatchInv ==
    ASSUME ServerInv, NEW s \in Editors, EditTurn(s), PatchOpen(s) \/ PatchWrite(s)
    PROVE  ServerInv'
<1>1. EditTypeOK /\ StorageTypeOK /\ OpenFileExists /\ s \in Slots
  BY SlotKinds DEF ServerInv, ServerTypeOK, UploadTypeOK
<1>2. PICK n \in Names : epath[s] = Meta(n)
  BY DEF ServerInv, EditPaths, PatchOpen, PatchWrite
<1>3. Meta(n) \in Paths /\ Meta(n) # NoFd
  BY <1>2, PathFacts, StorageAssumption
<1>4. UNCHANGED <<dirs, upc, ureq, raced, rpc, rkind, rname>>
  <2>1. UNCHANGED <<uploadVars, fetchVars>> /\ UNCHANGED dirs
    BY DEF EditTurn, PatchOpen, PatchWrite
  <2> QED BY <2>1 DEF uploadVars, fetchVars
<1>5. /\ \A p \in Paths : p # Meta(n) => fs'[p] = fs[p]
      /\ \A p \in Paths : fs[p] # NoFile => fs'[p] # NoFile
      /\ fs' \in [Paths -> Contents \cup {NoFile}]
      /\ fd'[s] # NoFd => /\ epc'[s] = "write" /\ epath'[s] = Meta(n)
                          /\ fd'[s] = Meta(n) /\ fs'[Meta(n)] # NoFile
      /\ \A t \in Slots : t # s => fd'[t] = fd[t]
      /\ fd' \in [Slots -> Paths \cup {NoFd}]
      /\ EditTypeOK' /\ epc'[s] \in {"write", "idle"}
      /\ epc'[s] = "write" => epath'[s] = Meta(n)
      /\ \A t \in Editors : t # s => epc'[t] = epc[t] /\ epath'[t] = epath[t]
  <2>1. CASE PatchOpen(s)
    <3>1. /\ fs' = [fs EXCEPT ![Meta(n)] = <<>>] /\ fd' = [fd EXCEPT ![s] = Meta(n)]
          /\ epc' = [epc EXCEPT ![s] = "write"] /\ UNCHANGED <<epath, ebody, eresp>>
      BY <1>2, <2>1 DEF PatchOpen, OpenTrunc
    <3>2. fs' \in [Paths -> Contents \cup {NoFile}] /\ fs'[Meta(n)] # NoFile
          /\ \A p \in Paths : p # Meta(n) => fs'[p] = fs[p]
      BY <1>1, <1>3, <3>1, EmptyContent DEF StorageTypeOK
    <3>3. fd' \in [Slots -> Paths \cup {NoFd}] /\ fd'[s] = Meta(n)
          /\ \A t \in Slots : t # s => fd'[t] = fd[t]
      BY <1>1, <1>3, <3>1 DEF StorageTypeOK
    <3>4. /\ epc'[s] = "write" /\ epath'[s] = Meta(n) /\ EditTypeOK'
          /\ \A t \in Editors : t # s => epc'[t] = epc[t] /\ epath'[t] = epath[t]
      BY <1>1, <1>2, <3>1 DEF EditTypeOK
    <3> QED BY <3>2, <3>3, <3>4
  <2>2. CASE PatchWrite(s)
    <3>1. fd[s] # NoFd => fd[s] = Meta(n)
      BY <1>1, <1>2, SlotKinds DEF ServerInv, FdsOwned, FdOfUpload, FdOfFetch, FdOfEdit
    <3>2. PICK c \in Contents : fs' = IF fd[s] = NoFd THEN fs ELSE [fs EXCEPT ![fd[s]] = c]
      <4>1. CASE fd[s] = NoFd
        BY <2>2, <4>1, EmptyContent DEF PatchWrite, WriteFd
      <4>2. CASE fd[s] # NoFd
        <5>1. fs[fd[s]] \in Contents /\ ebody[s] \in Contents
          BY <1>1, <4>2 DEF StorageTypeOK, OpenFileExists, EditTypeOK
        <5>2. WriteAt(fs[fd[s]], 0, ebody[s]) \in Contents
          BY <5>1, WriteAtType
        <5> QED BY <2>2, <4>2, <5>2 DEF PatchWrite, WriteFd
      <4> QED BY <4>1, <4>2
    <3>3. /\ fs' \in [Paths -> Contents \cup {NoFile}]
          /\ \A p \in Paths : p # fd[s] => fs'[p] = fs[p]
          /\ \A p \in Paths : fs'[p] = NoFile <=> fs[p] = NoFile
      BY <1>1, <3>2, WriteFacts
    <3>4. fd' = [fd EXCEPT ![s] = NoFd]
      BY <2>2 DEF PatchWrite, CloseFd
    <3>5. fd' \in [Slots -> Paths \cup {NoFd}] /\ fd'[s] = NoFd
          /\ \A t \in Slots : t # s => fd'[t] = fd[t]
      BY <1>1, <3>4 DEF StorageTypeOK
    <3>6. /\ epc'[s] = "idle" /\ EditTypeOK'
          /\ \A t \in Editors : t # s => epc'[t] = epc[t] /\ epath'[t] = epath[t]
      BY <1>1, <2>2, EmptyContent, AnyPathIsPath DEF EditTypeOK, PatchWrite, Answer
    <3>7. \A p \in Paths : p # Meta(n) => fs'[p] = fs[p]
      BY <3>1, <3>3, StorageAssumption
    <3> QED BY <3>3, <3>5, <3>6, <3>7
  <2> QED BY <2>1, <2>2
<1>6. StorageTypeOK'
  BY <1>1, <1>4, <1>5 DEF StorageTypeOK
<1>7. OpenFileExists'
  <2> SUFFICES ASSUME NEW t \in Slots, fd'[t] # NoFd PROVE fs'[fd'[t]] # NoFile
    BY DEF OpenFileExists
  <2>1. CASE t = s
    BY <1>5, <2>1
  <2>2. CASE t # s
    <3>1. fd'[t] = fd[t] /\ fd[t] \in Paths /\ fs[fd[t]] # NoFile
      BY <1>1, <1>5, <2>2 DEF StorageTypeOK, OpenFileExists
    <3> QED BY <1>5, <3>1
  <2> QED BY <2>1, <2>2
<1>8. EditPaths'
  BY <1>5 DEF ServerInv, EditPaths, File, Meta
<1>9. FdsOwned'
  <2> SUFFICES ASSUME NEW t \in Slots, fd'[t] # NoFd
               PROVE  (FdOfUpload(t) \/ FdOfFetch(t) \/ FdOfEdit(t))'
    BY DEF FdsOwned
  <2>0. CASE t = s
    BY <1>5, <2>0 DEF FdOfEdit
  <2>1. CASE t # s
    <3>0. fd'[t] = fd[t]
      BY <1>5, <2>1
    <3>1. FdOfUpload(t) => FdOfUpload(t)'
      BY <1>4, <3>0 DEF FdOfUpload, NameOf
    <3>2. FdOfFetch(t) => FdOfFetch(t)'
      BY <1>4, <3>0 DEF FdOfFetch, Local
    <3>3. FdOfEdit(t) => FdOfEdit(t)'
      BY <1>5, <2>1, <3>0 DEF FdOfEdit
    <3> QED BY <3>0, <3>1, <3>2, <3>3 DEF ServerInv, FdsOwned
  <2> QED BY <2>0, <2>1
<1>10. \A m \in Names :
          /\ fs'[Tmp(m)] = fs[Tmp(m)] /\ fs'[File(m)] = fs[File(m)]
          /\ \A r \in Readers : fd'[r] = File(m) <=> fd[r] = File(m)
  <2>1. \A r \in Readers : r # s /\ r \in Slots
    BY SlotKinds
  <2> QED BY <1>2, <1>5, <2>1, PathFacts
<1> QED BY <1>5, <1>6, <1>7, <1>8, <1>9, <1>10, EditTurnFrame

(* remove() takes the file away from its path, and from those who write it. *)
LEMMA EditRemoveInv ==
    ASSUME ServerInv, NEW s \in Editors, EditTurn(s), DeleteRemove(s)
    PROVE  ServerInv'
<1>1. EditTypeOK /\ StorageTypeOK /\ OpenFileExists
  BY DEF ServerInv, ServerTypeOK, UploadTypeOK
<1>2. epc[s] = "remove" /\ UNCHANGED <<dirs, ebody>>
      /\ (Answer(s, EditReply(200, 0)) \/ Answer(s, Silent))
  BY DEF DeleteRemove
<1>3. PICK n \in Names : epath[s] \in {File(n), Meta(n)}
  BY <1>2 DEF ServerInv, EditPaths
<1>4. UNCHANGED <<upc, ureq, raced, rpc, rkind, rname>>
  <2>1. UNCHANGED <<uploadVars, fetchVars>>
    BY DEF EditTurn
  <2> QED BY <2>1 DEF uploadVars, fetchVars
<1>5. /\ epc'[s] = "idle" /\ EditTypeOK'
      /\ \A t \in Editors : t # s => epc'[t] = epc[t] /\ epath'[t] = epath[t]
  BY <1>1, <1>2, AnyPathIsPath DEF EditTypeOK, Answer
<1>6. EditPaths'
  BY <1>5 DEF ServerInv, EditPaths, File, Meta
<1> DEFINE p == epath[s]
<1>7. p \in Paths /\ p # NoFd
  BY <1>3, PathFacts, StorageAssumption
<1>8. /\ \A q \in Paths : q # p => fs'[q] = fs[q]
      /\ fs'[p] = NoFile
      /\ fs' \in [Paths -> Contents \cup {NoFile}]
      /\ \A t \in Slots : fd'[t] = IF fd[t] = p THEN NoFd ELSE fd[t]
      /\ fd' \in [Slots -> Paths \cup {NoFd}]
  <2>1. CASE file_exists(p)
    BY <1>1, <1>7, <2>1 DEF DeleteRemove, Remove, Detached, StorageTypeOK
  <2>2. CASE ~file_exists(p)
    <3>1. UNCHANGED <<fs, fd>> /\ fs[p] = NoFile
      BY <2>2 DEF DeleteRemove, file_exists
    <3>2. \A t \in Slots : fd[t] # p
      BY <1>7, <3>1 DEF ServerInv, OpenFileExists
    <3> QED BY <1>1, <3>1, <3>2 DEF StorageTypeOK
  <2> QED BY <2>1, <2>2
<1> HIDE DEF p
<1>9. StorageTypeOK'
  BY <1>1, <1>2, <1>8 DEF StorageTypeOK
<1>10. OpenFileExists'
  <2> SUFFICES ASSUME NEW t \in Slots, fd'[t] # NoFd PROVE fs'[fd'[t]] # NoFile
    BY DEF OpenFileExists
  <2>1. fd'[t] = fd[t] /\ fd[t] # p /\ fd[t] \in Paths /\ fs[fd[t]] # NoFile
    BY <1>1, <1>8 DEF StorageTypeOK, OpenFileExists
  <2> QED BY <1>8, <2>1
<1>11. FdsOwned'
  <2> SUFFICES ASSUME NEW t \in Slots, fd'[t] # NoFd
               PROVE  (FdOfUpload(t) \/ FdOfFetch(t) \/ FdOfEdit(t))'
    BY DEF FdsOwned
  <2>1. fd'[t] = fd[t]
    BY <1>8
  <2>2. FdOfUpload(t) => FdOfUpload(t)'
    BY <1>4, <2>1 DEF FdOfUpload, NameOf
  <2>3. FdOfFetch(t) => FdOfFetch(t)'
    BY <1>4, <2>1 DEF FdOfFetch, Local
  <2>4. FdOfEdit(t) => FdOfEdit(t)'
    BY <1>2, <1>5, <2>1 DEF FdOfEdit
  <2> QED BY <2>1, <2>2, <2>3, <2>4 DEF ServerInv, FdsOwned
<1>12. \A m \in Names :
          /\ fs'[Tmp(m)] = fs[Tmp(m)]
          /\ \/ /\ fs'[File(m)] = fs[File(m)]
                /\ \A r \in Readers : fd'[r] = File(m) <=> fd[r] = File(m)
             \/ /\ fs'[File(m)] = NoFile
                /\ \A r \in Readers : fd'[r] # File(m)
  <2> SUFFICES ASSUME NEW m \in Names
               PROVE  /\ fs'[Tmp(m)] = fs[Tmp(m)]
                      /\ \/ /\ fs'[File(m)] = fs[File(m)]
                            /\ \A r \in Readers : fd'[r] = File(m) <=> fd[r] = File(m)
                         \/ /\ fs'[File(m)] = NoFile
                            /\ \A r \in Readers : fd'[r] # File(m)
    OBVIOUS
  <2>1. Tmp(m) \in Paths /\ File(m) \in Paths /\ File(m) # NoFd /\ Tmp(m) # p
    BY <1>3, PathFacts, StorageAssumption DEF p
  <2>2. \A r \in Readers : r \in Slots
    BY SlotKinds
  <2>3. CASE File(m) = p
    BY <1>8, <2>1, <2>2, <2>3
  <2>4. CASE File(m) # p
    BY <1>8, <2>1, <2>2, <2>4
  <2> QED BY <1>8, <2>1, <2>3, <2>4
<1> QED BY <1>5, <1>6, <1>9, <1>10, <1>11, <1>12, EditTurnFrame

LEMMA EditTurnInv ==
    ASSUME ServerInv, NEW s \in Editors, EditTurn(s)
    PROVE  ServerInv'
<1>1. EditNew(s) \/ PatchOpen(s) \/ PatchWrite(s) \/ DeleteRemove(s)
  BY DEF EditTurn, EditStep
<1> QED BY <1>1, EditBeginInv, EditPatchInv, EditRemoveInv

---------------------------------------------------------------------------
(* The Ceph thread *)

(* It touches no file of the cache.  What it sends of a data file that is   *)
(* not being filled is right, and a file it reads while it is being filled  *)
(* is disturbed from then on.                                               *)
LEMMA SyncTurnInv ==
    ASSUME ServerInv, SyncTurn
    PROVE  ServerInv'
<1>1. /\ UNCHANGED <<fs, fd, dirs, uploadVars, editVars, restarts, mixed>>
      /\ UNCHANGED <<rpc, rkind, rname, rbody, rpos, rout, rresp>>
      /\ torn' = IF ceph' # ceph THEN TornBy(scur) ELSE torn
  BY DEF SyncTurn, SyncStep, SyncList, SyncKeep, SyncMissing, SyncPut, SyncPutFails, SyncPassDone
<1>2. /\ UNCHANGED <<upc, ureq, uparts, upiece, uresp, begun, raced, ufresh, ulost>>
      /\ UNCHANGED <<epc, epath, ebody, eresp>>
  BY <1>1 DEF uploadVars, editVars
<1>3. /\ StorageTypeOK /\ CephTypeOK /\ SyncTypeOK /\ FetchTypeOK /\ scur \in Paths /\ scur[1] \in Names
      /\ torn \subseteq Names
  BY DEF ServerInv, ServerTypeOK, UploadTypeOK, SyncTypeOK, FetchTypeOK, Paths
<1>4. torn \subseteq torn' /\ torn' \subseteq Names
  BY <1>1, <1>3 DEF TornBy
<1>5. \/ UNCHANGED ceph
      \/ ceph' = [ceph EXCEPT ![scur] = fs[scur]]
  BY DEF SyncTurn, SyncStep, SyncList, SyncKeep, SyncMissing, SyncPut, SyncPutFails, SyncPassDone,
     PutObject
<1>6. ServerTypeOK'
  <2>1. CephTypeOK'
    BY <1>3, <1>5 DEF CephTypeOK, StorageTypeOK
  <2>2. SyncTypeOK'
    BY <1>3, AnyPathIsPath DEF SyncTurn, SyncStep, SyncList, SyncKeep, SyncMissing, SyncPut,
       SyncPutFails, SyncPassDone, SyncTypeOK, Buckets
  <2>3. UploadTypeOK' /\ EditTypeOK'
    BY <1>1, <1>2 DEF ServerInv, ServerTypeOK, UploadTypeOK, StorageTypeOK, EditTypeOK
  <2>4. FetchTypeOK'
    BY <1>1, <1>3, <1>4 DEF FetchTypeOK
  <2> QED BY <1>1, <2>1, <2>2, <2>3, <2>4 DEF ServerInv, ServerTypeOK
<1>7. OpenFileExists' /\ EditPaths' /\ OverlapIsRaced' /\ CheckedIsRight'
  BY <1>1, <1>2 DEF ServerInv, OpenFileExists, EditPaths, OverlapIsRaced, CheckedIsRight, Active,
     NameOf, File, Meta, Tmp
<1>8. FdsOwned'
  <2> SUFFICES ASSUME NEW t \in Slots, fd[t] # NoFd
               PROVE  (FdOfUpload(t) \/ FdOfFetch(t) \/ FdOfEdit(t))'
    BY <1>1 DEF FdsOwned
  <2>1. FdOfUpload(t) => FdOfUpload(t)'
    BY <1>1, <1>2 DEF FdOfUpload, NameOf
  <2>2. FdOfFetch(t) => FdOfFetch(t)'
    BY <1>1 DEF FdOfFetch, Local
  <2>3. FdOfEdit(t) => FdOfEdit(t)'
    BY <1>1, <1>2 DEF FdOfEdit
  <2> QED BY <2>1, <2>2, <2>3 DEF ServerInv, FdsOwned
<1>9. ReadersRight' /\ DownloadIntegrity'
  BY <1>1, <1>2, <1>4, ReadersFrame, DownloadFrame DEF ServerInv
<1>10. DataFilesRight'
  <2> SUFFICES ASSUME NEW n \in Names, Undisturbed(n)' PROVE DataRight(n)'
    BY DEF DataFilesRight
  <2>1. DataRight(n)
    BY <1>2, <1>4 DEF ServerInv, DataFilesRight, Undisturbed
  <2> QED BY <1>1, <2>1, DataFrame
<1>11. CephIntegrity'
  <2> SUFFICES ASSUME NEW n \in Names, Undisturbed(n)' PROVE ceph'[File(n)] \in {NoFile, Body[n]}
    BY DEF CephIntegrity, File
  <2>1. Undisturbed(n)
    BY <1>2, <1>4 DEF Undisturbed
  <2>2. ceph[File(n)] \in {NoFile, Body[n]} /\ DataRight(n) /\ File(n) \in Paths
    BY <2>1, PathFacts DEF ServerInv, CephIntegrity, DataFilesRight
  <2>3. CASE ceph' = ceph
    BY <2>2, <2>3
  <2>4. CASE ceph' # ceph
    <3>1. torn' = TornBy(scur) /\ ceph' = [ceph EXCEPT ![scur] = fs[scur]]
      BY <1>1, <1>5, <2>4
    <3>2. CASE scur = File(n)
      <4>1. ~Filling(File(n))
        BY <3>1, <3>2 DEF Undisturbed, TornBy, File
      <4> QED BY <1>3, <2>2, <3>1, <3>2, <4>1 DEF DataRight, CephTypeOK
    <3>3. CASE scur # File(n)
      BY <1>3, <2>2, <3>1, <3>3 DEF CephTypeOK
    <3> QED BY <3>2, <3>3
  <2> QED BY <2>3, <2>4
<1> QED BY <1>6, <1>7, <1>8, <1>9, <1>10, <1>11 DEF ServerInv

---------------------------------------------------------------------------
(* Restarts *)

(* The files stay, all of them or none, and nobody has one open.  A data    *)
(* file that was being filled is disturbed.                                 *)
LEMMA DiedInv ==
    ASSUME ServerInv, Died, dirs' \subseteq Dirs,
           fs' = fs \/ fs' = [p \in Paths |-> NoFile]
    PROVE  ServerInv'
<1>1. /\ restarts < MaxRestarts /\ restarts' = restarts + 1 /\ UNCHANGED <<ceph, mixed>>
      /\ UploadReset /\ FetchReset /\ EditReset /\ SyncReset /\ CloseAll
  BY DEF Died
<1>2. /\ upc' = [u \in Uploaders |-> "idle"] /\ UNCHANGED <<ureq, begun, raced>>
      /\ rpc' = [s \in Readers |-> "idle"] /\ rpos' = [s \in Readers |-> 0]
      /\ rout' = [s \in Readers |-> <<>>] /\ rresp' = [s \in Readers |-> NotFound]
      /\ torn' = torn \cup {n \in Names : Filling(File(n))} /\ UNCHANGED <<rkind, rname>>
      /\ epc' = [s \in Editors |-> "idle"]
      /\ fd' = [s \in Slots |-> NoFd]
  BY <1>1 DEF UploadReset, FetchReset, EditReset, CloseAll
<1>3. StorageTypeOK'
  BY <1>2 DEF ServerInv, ServerTypeOK, UploadTypeOK, StorageTypeOK
<1>4. UploadTypeOK'
  BY <1>1, <1>3 DEF UploadReset, UploadTypeOK, ServerInv, ServerTypeOK, UploadPc, Replies, Contents
<1>5. FetchTypeOK'
  BY <1>1, EmptyContent DEF FetchReset, FetchTypeOK, ServerInv, ServerTypeOK, FetchPc, Responses
<1>6. EditTypeOK' /\ SyncTypeOK' /\ CephTypeOK'
  BY <1>1, EmptyContent, AnyPathIsPath DEF EditReset, EditTypeOK, SyncReset, SyncTypeOK, Buckets,
     ServerInv, ServerTypeOK, CephTypeOK
<1>7. restarts' \in 0 .. MaxRestarts /\ mixed' \subseteq Names
  BY <1>1, ServerAssumption DEF ServerInv, ServerTypeOK
<1>8. ServerTypeOK'
  BY <1>4, <1>5, <1>6, <1>7 DEF ServerTypeOK
<1>9. OpenFileExists' /\ FdsOwned' /\ EditPaths' /\ OverlapIsRaced' /\ CheckedIsRight'
  BY <1>2 DEF OpenFileExists, FdsOwned, EditPaths, OverlapIsRaced, CheckedIsRight, Active
<1>10. ReadersRight' /\ DownloadIntegrity'
  BY <1>2 DEF ReadersRight, ReaderInOrder, ReaderRight, DownloadIntegrity, NotFound
<1>11. CephIntegrity'
  BY <1>1, <1>2, CephFrame DEF ServerInv
<1>12. DataFilesRight'
  <2> SUFFICES ASSUME NEW n \in Names, Undisturbed(n)' PROVE DataRight(n)'
    BY DEF DataFilesRight
  <2>1. ~Filling(File(n)) /\ Undisturbed(n)
    BY <1>2 DEF Undisturbed
  <2>2. fs[File(n)] \in {NoFile, Body[n]}
    BY <2>1 DEF ServerInv, DataFilesRight, DataRight
  <2>3. fs'[File(n)] \in {NoFile, Body[n]}
    BY <2>2, PathFacts
  <2>4. ~Filling(File(n))'
    BY <1>2 DEF Filling
  <2> QED BY <2>3, <2>4 DEF DataRight, File
<1> QED BY <1>8, <1>9, <1>10, <1>11, <1>12 DEF ServerInv

---------------------------------------------------------------------------
(* Downloads *)

(* The answer of a reader: what DownloadIntegrity says of one. *)
AnsweredRight(s) ==
    rpc[s] = "idle" /\ Serve(rkind[s]) = "stream" /\ rresp[s].data # NoFile /\ Undisturbed(rname[s])
        => rresp[s].data = Body[rname[s]]

(* One unit written into a content: one unit changes, and a gap before it   *)
(* is a hole.                                                               *)
LEMMA WriteUnit ==
    ASSUME NEW c \in Contents, NEW off \in Nat, NEW d \in Units
    PROVE  /\ WriteAt(c, off, <<d>>) \in Contents
           /\ Len(WriteAt(c, off, <<d>>)) = Larger(Len(c), off + 1)
           /\ WriteAt(c, off, <<d>>)[off + 1] = d
           /\ \A i \in 1 .. Len(WriteAt(c, off, <<d>>)) :
                 i # off + 1 /\ i <= Len(c) => WriteAt(c, off, <<d>>)[i] = c[i]
           /\ \A i \in 1 .. Len(WriteAt(c, off, <<d>>)) :
                 i # off + 1 /\ i > Len(c) => WriteAt(c, off, <<d>>)[i] = Junk
<1> DEFINE w == WriteAt(c, off, <<d>>)
<1> DEFINE top == Larger(Len(c), off + 1)
<1>1. <<d>> \in Contents /\ Len(<<d>>) = 1 /\ <<d>>[1] = d
  BY DEF Contents
<1>2. w \in Contents
  BY <1>1, WriteAtType
<1>3. Len(c) \in Nat /\ top \in Nat
  BY DEF Contents, Larger
<1>4. w = [i \in 1 .. top |-> IF i > off /\ i <= off + 1 THEN <<d>>[i - off]
                              ELSE IF i <= Len(c) THEN c[i] ELSE Junk]
  BY <1>1 DEF WriteAt
<1>5. DOMAIN w = 1 .. top
  BY <1>4
<1>6. Len(w) = top
  <2>1. w \in Seq(Units)
    BY <1>2 DEF Contents
  <2>2. Len(w) \in Nat /\ DOMAIN w = 1 .. Len(w)
    BY <2>1
  <2> HIDE DEF top, w
  <2> QED BY <1>3, <1>5, <2>2
<1>7. \A i \in 1 .. top : i > off /\ i <= off + 1 => i = off + 1 /\ i - off = 1
  BY <1>3
<1>8. \A i \in 1 .. top : w[i] = IF i = off + 1 THEN d ELSE IF i <= Len(c) THEN c[i] ELSE Junk
  BY <1>1, <1>3, <1>4, <1>7
<1>9. off + 1 \in 1 .. top
  BY <1>3 DEF Larger
<1>10. /\ w[off + 1] = d
       /\ \A i \in 1 .. Len(w) : i # off + 1 /\ i <= Len(c) => w[i] = c[i]
       /\ \A i \in 1 .. Len(w) : i # off + 1 /\ i > Len(c) => w[i] = Junk
  <2> HIDE DEF top, w
  <2> QED BY <1>3, <1>6, <1>8, <1>9
<1> QED BY <1>2, <1>6, <1>10

(* w is c with the unit d written at off. *)
UnitPut(w, c, off, d) ==
    /\ w \in Contents /\ Len(w) = Larger(Len(c), off + 1) /\ w[off + 1] = d
    /\ \A i \in 1 .. Len(w) : i # off + 1 /\ i <= Len(c) => w[i] = c[i]
    /\ \A i \in 1 .. Len(w) : i # off + 1 /\ i > Len(c) => w[i] = Junk

LEMMA UnitWritten ==
    ASSUME NEW c \in Contents, NEW off \in Nat, NEW d \in Units
    PROVE  UnitPut(WriteAt(c, off, <<d>>), c, off, d)
BY WriteUnit, ZenonT(40) DEF UnitPut

(* A chunk of c sent after o: the units of o, then those of c. *)
LEMMA ChunkSent ==
    ASSUME NEW o \in Contents, NEW c \in Contents, NEW upto \in Nat,
           Len(o) < upto, upto <= Len(c)
    PROVE  LET sent == o \o SubSeq(c, Len(o) + 1, upto)
           IN  /\ sent \in Contents
               /\ Len(sent) = upto
               /\ \A i \in 1 .. upto : sent[i] = IF i <= Len(o) THEN o[i] ELSE c[i]
<1> DEFINE k == Len(o)
           d == SubSeq(c, k + 1, upto)
           sent == o \o d
<1>1. o \in Seq(Units) /\ c \in Seq(Units) /\ k \in Nat /\ Len(c) \in Nat
  BY DEF Contents
<1>2. k < upto /\ upto <= Len(c)
  OBVIOUS
<1>3. d \in Seq(Units) /\ Len(d) = upto - k /\ \A j \in 1 .. upto - k : d[j] = c[k + j]
  <2> HIDE DEF k
  <2> QED BY <1>1, <1>2
<1>4. sent \in Seq(Units) /\ Len(sent) = k + Len(d)
  BY <1>1, <1>3
<1>5. \A i \in 1 .. k + Len(d) : sent[i] = IF i <= k THEN o[i] ELSE d[i - k]
  BY <1>1, <1>3
<1> HIDE DEF sent, d, k
<1>6. Len(sent) = upto
  BY <1>1, <1>2, <1>3, <1>4
<1>7. \A i \in 1 .. upto : sent[i] = IF i <= k THEN o[i] ELSE c[i]
  BY <1>1, <1>2, <1>3, <1>5
<1> QED BY <1>4, <1>6, <1>7 DEF sent, d, k, Contents

(* A content that begins with the whole of the right one and is no longer   *)
(* is the right one.                                                        *)
LEMMA BeginsWhole ==
    ASSUME NEW n \in Names, NEW c \in Contents, NEW k \in Nat,
           k = Len(Body[n]), Len(c) <= k, Begins(c, k, n)
    PROVE  c = Body[n]
<1>1. c \in Seq(Units) /\ Body[n] \in Seq(Units)
  BY StorageAssumption DEF Contents
<1>2. Len(c) = k
  BY <1>1 DEF Begins
<1>3. \A i \in 1 .. k : c[i] = Body[n][i]
  BY DEF Begins
<1> QED BY <1>1, <1>2, <1>3

(* What is left to show of a reader's step. *)
LEMMA ReadTurnFrame ==
    ASSUME ServerInv, NEW s \in Readers, ReadTurn(s),
           StorageTypeOK', FetchTypeOK', OpenFileExists', FdsOwned', DataFilesRight',
           torn \subseteq torn', UNCHANGED ceph,
           \A n \in Names : fs'[Tmp(n)] = fs[Tmp(n)],
           \A t \in Readers : t # s =>
              /\ rpc'[t] = rpc[t] /\ rkind'[t] = rkind[t] /\ rname'[t] = rname[t]
              /\ rbody'[t] = rbody[t] /\ rpos'[t] = rpos[t] /\ rout'[t] = rout[t]
              /\ rresp'[t] = rresp[t],
           ReaderInOrder(s)', ReaderRight(s)', AnsweredRight(s)'
    PROVE  ServerInv'
<1>1. /\ UNCHANGED <<uploadVars, editVars, syncVars, restarts>>
      /\ mixed' = mixed \cup {n \in Names : SharedMeta(n)'}
  BY DEF ReadTurn, NoteMixed
<1>2. /\ UNCHANGED <<epc, epath, ebody, eresp>>
      /\ UNCHANGED <<upc, ureq, uparts, upiece, uresp, begun, raced, ufresh, ulost>>
      /\ UNCHANGED <<spc, sbucket, slist, scur>>
  BY <1>1 DEF editVars, uploadVars, syncVars
<1>3. UploadTypeOK'
  BY <1>2 DEF ServerInv, ServerTypeOK, UploadTypeOK
<1>4. ServerTypeOK'
  BY <1>1, <1>2, <1>3 DEF ServerInv, ServerTypeOK, CephTypeOK, EditTypeOK, SyncTypeOK
<1>5. \A n : Undisturbed(n)' => Undisturbed(n)
  BY <1>2 DEF Undisturbed
<1>6. ASSUME NEW t \in Readers
      PROVE  ReaderInOrder(t)' /\ ReaderRight(t)' /\ AnsweredRight(t)'
  <2>1. CASE t = s
    BY <2>1
  <2>2. CASE t # s
    <3>1. ReaderInOrder(t) /\ ReaderRight(t) /\ AnsweredRight(t)
      BY DEF ServerInv, ReadersRight, DownloadIntegrity, AnsweredRight
    <3> QED BY <1>5, <2>2, <3>1 DEF ReaderInOrder, ReaderRight, AnsweredRight, Begins
  <2> QED BY <2>1, <2>2
<1>7. ReadersRight' /\ DownloadIntegrity'
  BY <1>6 DEF ReadersRight, DownloadIntegrity, AnsweredRight
<1>8. CephIntegrity'
  BY <1>2, CephFrame DEF ServerInv
<1>9. EditPaths' /\ OverlapIsRaced'
  BY <1>2 DEF ServerInv, EditPaths, OverlapIsRaced, Active, NameOf, File, Meta
<1>10. CheckedIsRight'
  <2>1. \A v \in Uploaders : NameOf(v) \in Names
    BY NameFacts DEF ServerInv, ServerTypeOK
  <2> QED BY <1>2, <2>1 DEF ServerInv, CheckedIsRight, NameOf
<1> QED BY <1>4, <1>7, <1>8, <1>9, <1>10 DEF ServerInv

(* Steps of a reader that write nothing. *)
LEMMA ReadQuietInv ==
    ASSUME ServerInv, NEW s \in Readers, ReadTurn(s),
           UNCHANGED <<fs, fd, dirs, ceph>>, torn \subseteq torn', FetchTypeOK',
           rpc[s] # "fill", rpc'[s] # "fill",
           \A t \in Readers : t # s =>
              /\ rpc'[t] = rpc[t] /\ rkind'[t] = rkind[t] /\ rname'[t] = rname[t]
              /\ rbody'[t] = rbody[t] /\ rpos'[t] = rpos[t] /\ rout'[t] = rout[t]
              /\ rresp'[t] = rresp[t],
           ReaderInOrder(s)', ReaderRight(s)', AnsweredRight(s)'
    PROVE  ServerInv'
<1>1. /\ UNCHANGED <<upc, ureq, raced>> /\ UNCHANGED <<epc, epath>>
  <2>1. UNCHANGED <<uploadVars, editVars>>
    BY DEF ReadTurn
  <2> QED BY <2>1 DEF uploadVars, editVars
<1>2. StorageTypeOK' /\ OpenFileExists'
  BY DEF ServerInv, ServerTypeOK, UploadTypeOK, StorageTypeOK, OpenFileExists
<1>3. FdsOwned'
  <2> SUFFICES ASSUME NEW t \in Slots, fd[t] # NoFd
               PROVE  (FdOfUpload(t) \/ FdOfFetch(t) \/ FdOfEdit(t))'
    BY DEF FdsOwned
  <2>1. FdOfUpload(t) => FdOfUpload(t)'
    BY <1>1 DEF FdOfUpload, NameOf
  <2>2. FdOfFetch(t) => FdOfFetch(t)'
    BY DEF FdOfFetch, Local
  <2>3. FdOfEdit(t) => FdOfEdit(t)'
    BY <1>1 DEF FdOfEdit
  <2> QED BY <2>1, <2>2, <2>3 DEF ServerInv, FdsOwned
<1>4. DataFilesRight'
  <2> SUFFICES ASSUME NEW n \in Names, Undisturbed(n)' PROVE DataRight(n)'
    BY DEF DataFilesRight
  <2>1. DataRight(n)
    BY <1>1 DEF ServerInv, DataFilesRight, Undisturbed
  <2> QED BY <2>1, DataFrame
<1> QED BY <1>2, <1>3, <1>4, ReadTurnFrame

(* A request is answered: with nothing, or with something right. *)
LEMMA ReadReplyInv ==
    ASSUME ServerInv, NEW s \in Readers, ReadTurn(s),
           UNCHANGED <<fs, fd, dirs, ceph>>, torn \subseteq torn', torn' \subseteq Names,
           rpc[s] # "fill", NEW r \in Responses, FetchReply(s, r),
           \/ r.data = NoFile \/ Serve(rkind[s]) = "metadata"
           \/ (Undisturbed(rname[s])' => r.data = Body[rname[s]])
    PROVE  ServerInv'
<1>1. FetchTypeOK
  BY DEF ServerInv, ServerTypeOK
<1>2. /\ rpc' = [rpc EXCEPT ![s] = "idle"] /\ rresp' = [rresp EXCEPT ![s] = r]
      /\ rbody' = [rbody EXCEPT ![s] = NoFile] /\ rpos' = [rpos EXCEPT ![s] = 0]
      /\ rout' = [rout EXCEPT ![s] = <<>>] /\ UNCHANGED <<rkind, rname>>
  BY DEF FetchReply
<1>3. FetchTypeOK'
  BY <1>1, <1>2, EmptyContent DEF FetchTypeOK, FetchPc
<1>4. \A t \in Readers : t # s =>
        /\ rpc'[t] = rpc[t] /\ rkind'[t] = rkind[t] /\ rname'[t] = rname[t]
        /\ rbody'[t] = rbody[t] /\ rpos'[t] = rpos[t] /\ rout'[t] = rout[t]
        /\ rresp'[t] = rresp[t]
  BY <1>1, <1>2 DEF FetchTypeOK
<1>5. /\ rpc'[s] = "idle" /\ rresp'[s] = r /\ rpos'[s] = 0 /\ rout'[s] = <<>>
      /\ rkind'[s] = rkind[s] /\ rname'[s] = rname[s]
  BY <1>1, <1>2 DEF FetchTypeOK
<1>6. ReaderInOrder(s)' /\ ReaderRight(s)'
  BY <1>5 DEF ReaderInOrder, ReaderRight
<1>7. AnsweredRight(s)'
  BY <1>5 DEF AnsweredRight, Serve, Undisturbed
<1> QED BY <1>3, <1>4, <1>5, <1>6, <1>7, ReadQuietInv

(* A request arrives: the cached file decides where it goes. *)
LEMMA LookupInv ==
    ASSUME ServerInv, NEW s \in Readers, ReadTurn(s),
           NEW k \in AllReadKinds, NEW n \in Names, Lookup(s, k, n)
    PROVE  ServerInv'
<1>1. FetchTypeOK
  BY DEF ServerInv, ServerTypeOK
<1>2. ReaderInOrder(s)
  BY DEF ServerInv, ReadersRight
<1>3. /\ rpc[s] = "idle" /\ UNCHANGED <<fs, fd, dirs, ceph, rbody, rpos, rout, torn>>
      /\ rkind' = [rkind EXCEPT ![s] = k] /\ rname' = [rname EXCEPT ![s] = n]
  BY DEF Lookup
<1>4. \/ rpc' = [rpc EXCEPT ![s] = Serve(k)] /\ UNCHANGED rresp
      \/ rpc' = [rpc EXCEPT ![s] = "head"] /\ UNCHANGED rresp
      \/ rresp' = [rresp EXCEPT ![s] = NotFound] /\ UNCHANGED rpc
  BY DEF Lookup, Goto
<1>5. Serve(k) \in {"stream", "metadata"}
  BY DEF Serve
<1>6. FetchTypeOK'
  BY <1>1, <1>3, <1>4, <1>5 DEF FetchTypeOK, FetchPc, Responses
<1>7. \A t \in Readers : t # s =>
        /\ rpc'[t] = rpc[t] /\ rkind'[t] = rkind[t] /\ rname'[t] = rname[t]
        /\ rbody'[t] = rbody[t] /\ rpos'[t] = rpos[t] /\ rout'[t] = rout[t]
        /\ rresp'[t] = rresp[t]
  BY <1>1, <1>3, <1>4 DEF FetchTypeOK
<1>8. /\ rkind'[s] = k /\ rname'[s] = n /\ rpos'[s] = 0 /\ rout'[s] = <<>>
      /\ \/ rpc'[s] = Serve(k)
         \/ rpc'[s] = "head"
         \/ rpc'[s] = "idle" /\ rresp'[s] = NotFound
  BY <1>1, <1>2, <1>3, <1>4 DEF FetchTypeOK, ReaderInOrder
<1>9. ReaderInOrder(s)'
  BY <1>5, <1>8 DEF ReaderInOrder, Serve
<1>10. Begins(<<>>, 0, n) /\ Len(<<>>) = 0
  BY StorageAssumption DEF Begins, Contents
<1>11. ReaderRight(s)'
  BY <1>5, <1>8, <1>10 DEF ReaderRight, Begins
<1>12. AnsweredRight(s)'
  BY <1>5, <1>8 DEF AnsweredRight, NotFound
<1>13. rpc'[s] # "fill"
  BY <1>5, <1>8
<1> QED BY <1>3, <1>6, <1>7, <1>9, <1>11, <1>12, <1>13, ReadQuietInv

LEMMA NotFoundIsAnswer == NotFound \in Responses /\ Aborted \in Responses
                          /\ NotFound.data = NoFile /\ Aborted.data = NoFile
BY DEF NotFound, Aborted, Responses

(* HEAD of the object. *)
LEMMA AskCephInv ==
    ASSUME ServerInv, NEW s \in Readers, ReadTurn(s), AskCeph(s)
    PROVE  ServerInv'
<1>1. FetchTypeOK
  BY DEF ServerInv, ServerTypeOK
<1>2. ReaderInOrder(s)
  BY DEF ServerInv, ReadersRight
<1>3. rpc[s] = "head" /\ UNCHANGED <<fs, fd, dirs, ceph, torn>>
  BY DEF AskCeph
<1>4. CASE FetchReply(s, NotFound)
  <2>1. torn' \subseteq Names
    BY <1>1, <1>3 DEF FetchTypeOK
  <2> QED BY <1>3, <1>4, <2>1, NotFoundIsAnswer, ReadReplyInv
<1>5. CASE Goto(s, "get") /\ UNCHANGED <<rkind, rname, rbody, rpos, rout, rresp>>
  <2>1. rpc' = [rpc EXCEPT ![s] = "get"]
    BY <1>5 DEF Goto
  <2>2. rpc'[s] = "get" /\ \A t \in Readers : t # s => rpc'[t] = rpc[t]
    BY <1>1, <2>1 DEF FetchTypeOK
  <2>3. FetchTypeOK'
    BY <1>1, <1>3, <1>5, <2>1 DEF FetchTypeOK, FetchPc
  <2>4. ReaderInOrder(s)' /\ ReaderRight(s)' /\ AnsweredRight(s)'
    BY <1>2, <1>3, <1>5, <2>2 DEF ReaderInOrder, ReaderRight, AnsweredRight
  <2> QED BY <1>3, <1>5, <2>2, <2>3, <2>4, ReadQuietInv
<1> QED BY <1>4, <1>5 DEF AskCeph

(* GET of the object: it is right if it is there and undisturbed. *)
LEMMA DownloadInv ==
    ASSUME ServerInv, NEW s \in Readers, ReadTurn(s), Download(s)
    PROVE  ServerInv'
<1>1. FetchTypeOK /\ CephTypeOK
  BY DEF ServerInv, ServerTypeOK
<1>2. ReaderInOrder(s)
  BY DEF ServerInv, ReadersRight
<1>3. rpc[s] = "get" /\ UNCHANGED <<fs, fd, dirs, ceph, rkind, rname, rpos, rout, rresp, torn>>
  BY DEF Download
<1>4. PICK c \in GetObject(Key(s)) :
        /\ rbody' = [rbody EXCEPT ![s] = c]
        /\ rpc' = [rpc EXCEPT ![s] = IF c = NoFile THEN "exists" ELSE "open"]
  BY DEF Download, Goto
<1>5. rname[s] \in Names /\ Key(s) \in Paths
  BY <1>1, PathFacts DEF FetchTypeOK, Key
<1>6. c = NoFile \/ (c = ceph[Key(s)] /\ c \in Contents)
  BY <1>1, <1>4, <1>5 DEF GetObject, CephTypeOK
<1>7. FetchTypeOK'
  BY <1>1, <1>3, <1>4, <1>6 DEF FetchTypeOK, FetchPc
<1>8. \A t \in Readers : t # s => rpc'[t] = rpc[t] /\ rbody'[t] = rbody[t]
  BY <1>1, <1>4 DEF FetchTypeOK
<1>9. rpc'[s] = (IF c = NoFile THEN "exists" ELSE "open") /\ rbody'[s] = c
  BY <1>1, <1>4 DEF FetchTypeOK
<1>10. ReaderInOrder(s)'
  BY <1>2, <1>3, <1>6, <1>9 DEF ReaderInOrder
<1>11. ReaderRight(s)'
  <2> SUFFICES ASSUME Undisturbed(rname[s])', c # NoFile, rkind[s] # "getmeta"
               PROVE  c = Body[rname[s]]
    BY <1>3, <1>9 DEF ReaderRight
  <2>1. UNCHANGED <<raced, rname>>
    <3>1. UNCHANGED uploadVars
      BY DEF ReadTurn
    <3> QED BY <1>3, <3>1 DEF uploadVars
  <2>2. Undisturbed(rname[s]) /\ Key(s) = File(rname[s])
    BY <1>3, <2>1 DEF Undisturbed, Key
  <2> QED BY <1>5, <1>6, <2>2 DEF ServerInv, CephIntegrity
<1>12. AnsweredRight(s)' /\ rpc'[s] # "fill"
  BY <1>9 DEF AnsweredRight
<1> QED BY <1>3, <1>7, <1>8, <1>10, <1>11, <1>12, ReadQuietInv

(* Whatever was downloaded, the local file decides. *)
LEMMA CheckLocalInv ==
    ASSUME ServerInv, NEW s \in Readers, ReadTurn(s), CheckLocal(s)
    PROVE  ServerInv'
<1>1. FetchTypeOK
  BY DEF ServerInv, ServerTypeOK
<1>2. ReaderInOrder(s)
  BY DEF ServerInv, ReadersRight
<1>3. rpc[s] = "exists" /\ UNCHANGED <<fs, fd, dirs, ceph, torn>>
  BY DEF CheckLocal
<1>4. CASE FetchReply(s, NotFound)
  <2>1. torn' \subseteq Names
    BY <1>1, <1>3 DEF FetchTypeOK
  <2> QED BY <1>3, <1>4, <2>1, NotFoundIsAnswer, ReadReplyInv
<1>5. CASE /\ Goto(s, Serve(rkind[s]))
           /\ rbody' = [rbody EXCEPT ![s] = NoFile]
           /\ rpos' = [rpos EXCEPT ![s] = 0]
           /\ UNCHANGED <<rkind, rname, rout, rresp>>
  <2>0. Serve(rkind[s]) \in {"stream", "metadata"}
    BY DEF Serve
  <2>1. rpc' = [rpc EXCEPT ![s] = Serve(rkind[s])]
    BY <1>5 DEF Goto
  <2>2. /\ rpc'[s] = Serve(rkind[s]) /\ rpos'[s] = 0 /\ rout'[s] = <<>>
        /\ \A t \in Readers : t # s => rpc'[t] = rpc[t] /\ rbody'[t] = rbody[t] /\ rpos'[t] = rpos[t]
    BY <1>1, <1>2, <1>3, <1>5, <2>1 DEF FetchTypeOK, ReaderInOrder
  <2>3. FetchTypeOK'
    BY <1>1, <1>3, <1>5, <2>0, <2>1 DEF FetchTypeOK, FetchPc
  <2>4. ReaderInOrder(s)' /\ AnsweredRight(s)'
    BY <1>5, <2>0, <2>2 DEF ReaderInOrder, AnsweredRight
  <2>5. rname[s] \in Names
    BY <1>1 DEF FetchTypeOK
  <2>6. Begins(<<>>, 0, rname[s]) /\ Len(<<>>) = 0
    BY <2>5, StorageAssumption DEF Begins, Contents
  <2>7. ReaderRight(s)'
    BY <1>5, <2>0, <2>2, <2>6 DEF ReaderRight, Begins
  <2>8. rpc'[s] # "fill"
    BY <2>0, <2>2
  <2> QED BY <1>3, <1>5, <2>2, <2>3, <2>4, <2>7, <2>8, ReadQuietInv
<1> QED BY <1>4, <1>5 DEF CheckLocal

(* The metadata is answered as it is. *)
LEMMA SendMetadataInv ==
    ASSUME ServerInv, NEW s \in Readers, ReadTurn(s), SendMetadata(s)
    PROVE  ServerInv'
<1>1. FetchTypeOK /\ StorageTypeOK
  BY DEF ServerInv, ServerTypeOK, UploadTypeOK
<1>2. ReaderInOrder(s)
  BY DEF ServerInv, ReadersRight
<1> DEFINE d == IF file_exists(Local(s)) THEN fs[Local(s)] ELSE <<>>
<1>3. rpc[s] = "metadata" /\ UNCHANGED <<fs, fd, dirs, ceph, torn>> /\ FetchReply(s, Delivered(d))
  BY DEF SendMetadata
<1>4. Local(s) \in Paths
  BY <1>1, PathFacts DEF FetchTypeOK, Local, LocalPath
<1>5. d \in Contents
  BY <1>1, <1>4, EmptyContent DEF StorageTypeOK, file_exists
<1>6. Delivered(d) \in Responses /\ Serve(rkind[s]) = "metadata"
  BY <1>2, <1>3, <1>5 DEF Delivered, Responses, ReaderInOrder
<1>7. torn' \subseteq Names
  BY <1>1, <1>3 DEF FetchTypeOK
<1> HIDE DEF d
<1> QED BY <1>3, <1>6, <1>7, ReadReplyInv

(* A chunk is read from the file as it is now.  A file that is being filled *)
(* becomes disturbed; any other is right, so that what was sent before goes *)
(* on where it stopped, although the file may have come and gone since.     *)
LEMMA StreamChunkInv ==
    ASSUME ServerInv, NEW s \in Readers, ReadTurn(s), StreamChunk(s)
    PROVE  ServerInv'
<1> DEFINE c == fs[Local(s)]
           o == rout[s]
           from == Len(o)
           upto == IF Len(c) - from > ChunkSize THEN from + ChunkSize ELSE Len(c)
           sent == o \o SubSeq(c, from + 1, upto)
           n == rname[s]
<1>1. FetchTypeOK /\ StorageTypeOK
  BY DEF ServerInv, ServerTypeOK, UploadTypeOK
<1>2. ReaderInOrder(s) /\ ReaderRight(s)
  BY DEF ServerInv, ReadersRight
<1>3. /\ rpc[s] = "stream" /\ torn' = TornBy(Local(s)) /\ UNCHANGED <<fs, fd, dirs, ceph>>
      /\ \/ c = NoFile /\ FetchReply(s, Aborted)
         \/ c # NoFile /\ from >= Len(c) /\ FetchReply(s, Aborted)
         \/ c # NoFile /\ from < Len(c) /\ upto = Len(c) /\ FetchReply(s, Delivered(sent))
         \/ /\ c # NoFile /\ from < Len(c) /\ upto < Len(c)
            /\ rout' = [rout EXCEPT ![s] = sent]
            /\ UNCHANGED <<rpc, rkind, rname, rbody, rpos, rresp>>
  BY DEF StreamChunk
<1>4. n \in Names /\ Local(s) = File(n) /\ File(n) \in Paths
  BY <1>1, <1>2, <1>3, PathFacts DEF FetchTypeOK, ReaderInOrder, Serve, Local, LocalPath
<1>5. torn \subseteq torn' /\ torn' \subseteq Names
  BY <1>1, <1>3, <1>4 DEF FetchTypeOK, TornBy, File
<1>6. UNCHANGED raced
  <2>1. UNCHANGED uploadVars
    BY DEF ReadTurn
  <2> QED BY <2>1 DEF uploadVars
<1>7. ASSUME n \notin raced', n \notin torn'
      PROVE  c \in {NoFile, Body[n]} /\ Begins(o, from, n)
  <2>1. Undisturbed(n)
    BY <1>5, <1>6, <1>7 DEF Undisturbed
  <2>2. ~Filling(File(n))
    BY <1>3, <1>4, <1>7 DEF TornBy, File
  <2> QED BY <1>2, <1>3, <1>4, <2>1, <2>2 DEF ServerInv, DataFilesRight, DataRight, ReaderRight
<1>8. CASE FetchReply(s, Aborted)
  BY <1>3, <1>5, <1>8, NotFoundIsAnswer, ReadReplyInv
<1>9. CASE ~FetchReply(s, Aborted)
  <2>1. c \in Contents /\ o \in Contents /\ from \in Nat /\ Len(c) \in Nat
    BY <1>1, <1>3, <1>4, <1>9 DEF StorageTypeOK, FetchTypeOK, Contents
  <2>2. upto \in Nat /\ from < upto /\ upto <= Len(c)
    <3>1. from < Len(c) /\ ChunkSize \in Nat \ {0}
      BY <1>3, <1>9, FetchAssumption
    <3> HIDE DEF from, c
    <3> QED BY <2>1, <3>1
  <2> HIDE DEF upto
  <2>3. /\ sent \in Contents /\ Len(sent) = upto
        /\ \A i \in 1 .. upto : sent[i] = IF i <= from THEN o[i] ELSE c[i]
    <3> HIDE DEF c, o
    <3>1. Len(o) < upto /\ upto <= Len(c)
      BY <2>2
    <3> QED BY <2>1, <2>2, <3>1, ChunkSent
  <2>4. ASSUME n \notin raced', n \notin torn'
        PROVE  c = Body[n] /\ Begins(sent, upto, n)
    <3>1. c = Body[n] /\ Begins(o, from, n)
      BY <1>3, <1>7, <1>9, <2>4
    <3>2. \A i \in 1 .. upto : i <= from => o[i] = Body[n][i]
      BY <2>1, <2>2, <3>1 DEF Begins
    <3>3. \A i \in 1 .. upto : sent[i] = Body[n][i]
      BY <2>3, <3>1, <3>2
    <3>4. upto <= Len(sent) /\ upto <= Len(Body[n])
      BY <2>2, <2>3, <3>1
    <3> HIDE DEF sent, c, o, from
    <3> QED BY <3>1, <3>3, <3>4 DEF Begins
  <2>5. CASE upto = Len(c) /\ FetchReply(s, Delivered(sent))
    <3>1. Delivered(sent) \in Responses /\ Delivered(sent).data = sent
      BY <2>3 DEF Delivered, Responses
    <3>2. Undisturbed(rname[s])' => sent = Body[n]
      <4> SUFFICES ASSUME Undisturbed(rname[s])' PROVE sent = Body[n]
        OBVIOUS
      <4>1. UNCHANGED rname
        BY <2>5 DEF FetchReply
      <4>2. n \notin raced' /\ n \notin torn'
        BY <4>1 DEF Undisturbed
      <4>3. c = Body[n] /\ Begins(sent, upto, n)
        BY <2>4, <4>2
      <4>4. upto = Len(Body[n]) /\ Len(sent) <= upto
        BY <2>2, <2>3, <2>5, <4>3
      <4> HIDE DEF sent, c
      <4> QED BY <1>4, <2>2, <2>3, <4>3, <4>4, BeginsWhole
    <3> HIDE DEF sent
    <3> QED BY <1>3, <1>5, <2>5, <3>1, <3>2, ReadReplyInv
  <2>6. CASE /\ rout' = [rout EXCEPT ![s] = sent]
             /\ UNCHANGED <<rpc, rkind, rname, rbody, rpos, rresp>>
    <3>1. rout'[s] = sent /\ \A t \in Readers : t # s => rout'[t] = rout[t]
      BY <1>1, <2>6 DEF FetchTypeOK
    <3>2. FetchTypeOK'
      BY <1>1, <1>5, <2>3, <2>6 DEF FetchTypeOK
    <3>3. ReaderInOrder(s)' /\ AnsweredRight(s)'
      BY <1>2, <1>3, <2>6 DEF ReaderInOrder, AnsweredRight
    <3>4. ReaderRight(s)'
      <4>1. rpc' = rpc /\ rname' = rname /\ rpc[s] = "stream"
        BY <1>3, <2>6
      <4>2. Undisturbed(rname[s])' => n \notin raced' /\ n \notin torn'
        BY <4>1 DEF Undisturbed
      <4>3. Undisturbed(rname[s])' => Begins(sent, Len(sent), n)
        BY <2>3, <2>4, <4>2
      <4> HIDE DEF sent
      <4> QED BY <3>1, <4>1, <4>3 DEF ReaderRight, Begins
    <3>5. rpc[s] # "fill" /\ rpc'[s] # "fill"
      BY <1>3, <2>6
    <3> QED BY <1>3, <1>5, <2>6, <3>1, <3>2, <3>3, <3>4, <3>5, ReadQuietInv
  <2> QED BY <1>3, <1>9, <2>5, <2>6
<1> QED BY <1>8, <1>9

(* downloadFile opens the final path and truncates it: a data file that was *)
(* there, or is being filled by others, starts anew with this thread.       *)
LEMMA OpenLocalInv ==
    ASSUME ServerInv, NEW s \in Readers, ReadTurn(s), OpenLocal(s)
    PROVE  ServerInv'
<1>1. FetchTypeOK /\ StorageTypeOK /\ s \in Slots
  BY SlotKinds DEF ServerInv, ServerTypeOK, UploadTypeOK
<1>2. ReaderInOrder(s) /\ ReaderRight(s)
  BY DEF ServerInv, ReadersRight
<1>3. rpc[s] = "open" /\ UNCHANGED <<dirs, ceph, rkind, rname, rbody, rpos, rout, rresp, torn>>
  BY DEF OpenLocal
<1>4. /\ UNCHANGED <<upc, ureq, raced>> /\ UNCHANGED <<epc, epath>>
  <2>1. UNCHANGED <<uploadVars, editVars>>
    BY DEF ReadTurn
  <2> QED BY <2>1 DEF uploadVars, editVars
<1>5. CASE OpenFailed(s, Local(s)) /\ Goto(s, "exists")
  <2>1. UNCHANGED <<fs, fd>> /\ rpc' = [rpc EXCEPT ![s] = "exists"]
    BY <1>5 DEF OpenFailed, Goto
  <2>2. rpc'[s] = "exists" /\ \A t \in Readers : t # s => rpc'[t] = rpc[t]
    BY <1>1, <2>1 DEF FetchTypeOK
  <2>3. FetchTypeOK'
    BY <1>1, <1>3, <2>1 DEF FetchTypeOK, FetchPc
  <2>4. ReaderInOrder(s)' /\ ReaderRight(s)' /\ AnsweredRight(s)'
    BY <1>2, <1>3, <2>2 DEF ReaderInOrder, ReaderRight, AnsweredRight
  <2> QED BY <1>3, <2>1, <2>2, <2>3, <2>4, ReadQuietInv
<1>6. CASE OpenTrunc(s, Local(s)) /\ Goto(s, "fill")
  <2> DEFINE p == Local(s)
  <2>1. /\ rname[s] \in Names /\ p \in {File(rname[s]), Meta(rname[s])}
        /\ p \in Paths /\ p # NoFd
    BY <1>1, PathFacts, StorageAssumption DEF FetchTypeOK, Local, LocalPath
  <2>2. /\ fs' = [fs EXCEPT ![p] = <<>>] /\ fd' = [fd EXCEPT ![s] = p]
        /\ rpc' = [rpc EXCEPT ![s] = "fill"]
    BY <1>6 DEF OpenTrunc, Goto
  <2>3. /\ StorageTypeOK' /\ fs'[p] = <<>> /\ \A q \in Paths : q # p => fs'[q] = fs[q]
        /\ fd'[s] = p /\ \A t \in Slots : t # s => fd'[t] = fd[t]
    BY <1>1, <1>3, <2>1, <2>2, EmptyContent DEF StorageTypeOK
  <2>4. /\ FetchTypeOK' /\ rpc'[s] = "fill" /\ \A t \in Readers : t # s => rpc'[t] = rpc[t]
    BY <1>1, <1>3, <2>2 DEF FetchTypeOK, FetchPc
  <2>5. rpos[s] = 0 /\ rbody[s] \in Contents
    BY <1>2, <1>3 DEF ReaderInOrder
  <2>6. ReaderInOrder(s)'
    <3>1. Len(rbody[s]) \in Nat
      BY <2>5 DEF Contents
    <3> QED BY <1>2, <1>3, <2>4, <2>5, <3>1 DEF ReaderInOrder
  <2>7. ReaderRight(s)' /\ AnsweredRight(s)'
    BY <1>2, <1>3, <1>4, <2>4 DEF ReaderRight, AnsweredRight, Undisturbed
  <2>8. Local(s)' = p
    BY <1>3 DEF Local
  <2> HIDE DEF p
  <2>9. OpenFileExists'
    <3> SUFFICES ASSUME NEW t \in Slots, fd'[t] # NoFd PROVE fs'[fd'[t]] # NoFile
      BY DEF OpenFileExists
    <3>1. CASE fd'[t] = p
      BY <2>3, <3>1, EmptyContent
    <3>2. CASE fd'[t] # p
      <4>1. fd'[t] = fd[t] /\ fd[t] \in Paths /\ fs[fd[t]] # NoFile
        BY <1>1, <2>3, <3>2 DEF StorageTypeOK, ServerInv, OpenFileExists
      <4> QED BY <2>3, <3>2, <4>1
    <3> QED BY <3>1, <3>2
  <2>10. FdsOwned'
    <3> SUFFICES ASSUME NEW t \in Slots, fd'[t] # NoFd
                 PROVE  (FdOfUpload(t) \/ FdOfFetch(t) \/ FdOfEdit(t))'
      BY DEF FdsOwned
    <3>0. CASE t = s
      BY <2>3, <2>4, <2>8, <3>0 DEF FdOfFetch
    <3>1. CASE t # s
      <4>0. fd'[t] = fd[t]
        BY <2>3, <3>1
      <4>1. FdOfUpload(t) => FdOfUpload(t)'
        BY <1>4, <4>0 DEF FdOfUpload, NameOf
      <4>2. FdOfFetch(t) => FdOfFetch(t)'
        BY <1>3, <2>4, <3>1, <4>0 DEF FdOfFetch, Local
      <4>3. FdOfEdit(t) => FdOfEdit(t)'
        BY <1>4, <4>0 DEF FdOfEdit
      <4> QED BY <4>0, <4>1, <4>2, <4>3 DEF ServerInv, FdsOwned
    <3> QED BY <3>0, <3>1
  <2>11. DataFilesRight'
    <3> SUFFICES ASSUME NEW m \in Names, Undisturbed(m)' PROVE DataRight(m)'
      BY DEF DataFilesRight
    <3>1. DataRight(m) /\ File(m) \in Paths
      BY <1>3, <1>4, PathFacts DEF ServerInv, DataFilesRight, Undisturbed
    <3>2. CASE p = File(m)
      <4>1. Filling(File(m))'
        BY <2>3, <2>4, <3>2 DEF Filling, File
      <4>2. fs'[File(m)] = <<>> /\ <<>> \in Contents /\ Len(<<>>) = 0 /\ Len(Body[m]) \in Nat
        BY <2>3, <3>2, EmptyContent, StorageAssumption DEF Contents
      <4>3. FilledBy(s, m)'
        BY <1>3, <2>3, <2>4, <2>5, <3>2, <4>2 DEF FilledBy, Begins, File
      <4> QED BY <4>1, <4>2, <4>3 DEF DataRight, Partial, File
    <3>3. CASE p # File(m)
      <4>1. fs'[File(m)] = fs[File(m)]
        BY <2>3, <3>1, <3>3
      <4>2. \A t \in Readers : (rpc'[t] = "fill" /\ fd'[t] = File(m))
                                  <=> (rpc[t] = "fill" /\ fd[t] = File(m))
        BY <1>3, <2>3, <2>4, <3>3, SlotKinds
      <4> QED BY <1>3, <3>1, <4>1, <4>2, DataFrame
    <3> QED BY <3>2, <3>3
  <2>12. \A m \in Names : fs'[Tmp(m)] = fs[Tmp(m)]
    BY <2>1, <2>3, PathFacts
  <2> QED BY <1>3, <2>3, <2>4, <2>6, <2>7, <2>9, <2>10, <2>11, <2>12, ReadTurnFrame
<1> QED BY <1>5, <1>6 DEF OpenLocal

(* Whoever fills the data file of an undisturbed name writes the right      *)
(* content.                                                                 *)
LEMMA FillerFacts ==
    ASSUME ServerInv, NEW n \in Names, Undisturbed(n), NEW s \in Readers,
           rpc[s] = "fill", fd[s] = File(n)
    PROVE  rbody[s] = Body[n] /\ rpos[s] \in Nat /\ rpos[s] <= Len(Body[n])
<1>1. n \notin raced /\ s \in Slots
  BY SlotKinds DEF Undisturbed
<1>2. rname[s] = n /\ rkind[s] # "getmeta"
  BY <1>1, OpenDataFile
<1>3. ReaderInOrder(s) /\ ReaderRight(s) /\ FetchTypeOK
  BY DEF ServerInv, ReadersRight, ServerTypeOK
<1> QED BY <1>2, <1>3 DEF ReaderInOrder, ReaderRight, FetchTypeOK

(* The next unit of the right content, written into a partial copy of it. *)
LEMMA FillStep ==
    ASSUME NEW n \in Names, NEW c, Partial(c, n), NEW k \in Nat, k < Len(Body[n]),
           NEW d, d = Body[n][k + 1], NEW w, w = WriteAt(c, k, <<d>>)
    PROVE  /\ Partial(w, n)
           /\ Begins(c, k, n) => Begins(w, k + 1, n)
           /\ \A j \in Nat : Begins(c, j, n) => Begins(w, j, n)
<1> DEFINE b == Body[n]
<1>1. b \in Seq(Units) /\ Len(b) \in Nat /\ k < Len(b) /\ d = b[k + 1]
  BY StorageAssumption DEF Contents
<1>2. d \in Units
  BY <1>1
<1>3. /\ c \in Contents /\ Len(c) <= Len(b) /\ Len(c) \in Nat
      /\ \A i \in 1 .. Len(c) : c[i] \in {b[i], Junk}
  BY DEF Partial, Contents
<1> HIDE DEF b
<1>4. /\ w \in Contents /\ Len(w) = Larger(Len(c), k + 1) /\ w[k + 1] = d
      /\ \A i \in 1 .. Len(w) : i # k + 1 /\ i <= Len(c) => w[i] = c[i]
      /\ \A i \in 1 .. Len(w) : i # k + 1 /\ i > Len(c) => w[i] = Junk
  <2>1. UnitPut(WriteAt(c, k, <<d>>), c, k, d)
    BY <1>2, <1>3, UnitWritten
  <2>2. UnitPut(w, c, k, d)
    BY <2>1
  <2> QED BY <2>2 DEF UnitPut
<1>5. Len(w) \in Nat /\ Len(w) <= Len(b) /\ Len(c) <= Len(w) /\ k + 1 <= Len(w)
  BY <1>1, <1>3, <1>4 DEF Larger
<1>6. ASSUME NEW i \in 1 .. Len(w) PROVE w[i] \in {b[i], Junk}
  <2>1. CASE i = k + 1
    BY <1>1, <1>4, <2>1
  <2>2. CASE i # k + 1 /\ i <= Len(c)
    <3>1. i \in 1 .. Len(c) /\ w[i] = c[i]
      BY <1>3, <1>4, <1>5, <2>2
    <3> QED BY <1>3, <3>1
  <2>3. CASE i # k + 1 /\ i > Len(c)
    BY <1>4, <2>3
  <2>4. i <= Len(c) \/ i > Len(c)
    BY <1>3, <1>5
  <2> QED BY <2>1, <2>2, <2>3, <2>4
<1>7. Partial(w, n)
  BY <1>4, <1>5, <1>6 DEF Partial, b
<1>8. ASSUME NEW j \in Nat, Begins(c, j, n)
      PROVE  Begins(w, j, n) /\ (j = k => Begins(w, k + 1, n))
  <2>1. j <= Len(c) /\ j <= Len(b) /\ \A i \in 1 .. j : c[i] = b[i]
    BY <1>8 DEF Begins, b
  <2>2. ASSUME NEW i \in 1 .. j PROVE w[i] = b[i]
    <3>1. i \in 1 .. Len(c) /\ i \in 1 .. Len(w) /\ c[i] = b[i]
      BY <1>3, <1>5, <2>1
    <3>2. CASE i = k + 1
      BY <1>1, <1>4, <3>2
    <3>3. CASE i # k + 1
      BY <1>3, <1>4, <3>1, <3>3
    <3> QED BY <3>2, <3>3
  <2>3. w[k + 1] = b[k + 1]
    BY <1>1, <1>4, <1>5
  <2>4. Begins(w, j, n)
    BY <1>3, <1>5, <2>1, <2>2 DEF Begins, b
  <2>5. j = k => \A i \in 1 .. k + 1 : w[i] = b[i]
    BY <2>2, <2>3
  <2> QED BY <1>1, <1>5, <2>4, <2>5 DEF Begins, b
<1> QED BY <1>7, <1>8

(* A filler's write keeps the file a partial copy, and whoever has written  *)
(* all up to its position still has.                                        *)
LEMMA FillUnitData ==
    ASSUME ServerInv, NEW s \in Readers, NEW n \in Names, Undisturbed(n),
           rpc[s] = "fill", fd[s] = File(n), rpos[s] < Len(rbody[s]),
           fs'[File(n)] = WriteAt(fs[File(n)], rpos[s], <<rbody[s][rpos[s] + 1]>>),
           rpos'[s] = rpos[s] + 1, \A t \in Readers : t # s => rpos'[t] = rpos[t],
           UNCHANGED <<fd, rpc>>
    PROVE  DataRight(n)'
<1> DEFINE c == fs[File(n)]
           w == fs'[File(n)]
           k == rpos[s]
<1>1. rbody[s] = Body[n] /\ k \in Nat /\ k < Len(Body[n])
  BY FillerFacts
<1>2. Filling(File(n)) /\ Filling(File(n))'
  BY DEF Filling, File
<1>3. Partial(c, n) /\ \E t \in Readers : FilledBy(t, n)
  BY <1>2 DEF ServerInv, DataFilesRight, DataRight
<1>4. PICK t \in Readers : FilledBy(t, n)
  BY <1>3
<1>5. rpc[t] = "fill" /\ fd[t] = File(n) /\ rpos[t] \in Nat /\ Begins(c, rpos[t], n)
  BY <1>4, FillerFacts DEF FilledBy
<1>6. w = WriteAt(c, k, <<Body[n][k + 1]>>)
  BY <1>1
<1>7. /\ Partial(w, n)
      /\ Begins(c, k, n) => Begins(w, k + 1, n)
      /\ \A j \in Nat : Begins(c, j, n) => Begins(w, j, n)
  <2> DEFINE d == Body[n][k + 1]
  <2>1. w = WriteAt(c, k, <<d>>)
    BY <1>6
  <2> HIDE DEF c, w, k
  <2> QED BY <1>1, <1>3, <2>1, FillStep
<1>8. Begins(w, rpos'[t], n)
  <2>1. CASE t = s
    <3>1. rpos'[t] = k + 1 /\ Begins(c, k, n)
      BY <1>5, <2>1
    <3> HIDE DEF c, w, k
    <3> QED BY <1>7, <3>1
  <2>2. CASE t # s
    <3>1. rpos'[t] = rpos[t] /\ rpos[t] \in Nat /\ Begins(c, rpos[t], n)
      BY <1>5, <2>2
    <3> HIDE DEF c, w, k
    <3> QED BY <1>7, <3>1
  <2> QED BY <2>1, <2>2
<1>9. FilledBy(t, n)'
  BY <1>5, <1>8 DEF FilledBy, Begins, File
<1> QED BY <1>2, <1>7, <1>9 DEF DataRight, Partial, File

(* One unit of the object is written into the file that was opened. *)
LEMMA FillUnitInv ==
    ASSUME ServerInv, NEW s \in Readers, ReadTurn(s), FillUnit(s)
    PROVE  ServerInv'
<1>1. FetchTypeOK /\ StorageTypeOK /\ OpenFileExists /\ s \in Slots
  BY SlotKinds DEF ServerInv, ServerTypeOK, UploadTypeOK
<1>2. ReaderInOrder(s) /\ ReaderRight(s)
  BY DEF ServerInv, ReadersRight
<1>3. /\ rpc[s] = "fill" /\ rpos[s] < Len(rbody[s]) /\ rpos' = [rpos EXCEPT ![s] = @ + 1]
      /\ UNCHANGED <<fd, dirs, ceph, rpc, rkind, rname, rbody, rout, rresp, torn>>
  BY DEF FillUnit
<1>4. UNCHANGED <<upc, ureq, raced>> /\ UNCHANGED <<epc, epath>>
  <2>1. UNCHANGED <<uploadVars, editVars>>
    BY DEF ReadTurn
  <2> QED BY <2>1 DEF uploadVars, editVars
<1>5. rpos[s] \in Nat /\ rbody[s] \in Seq(Units) /\ rbody[s][rpos[s] + 1] \in Units
  <2>1. rpos[s] \in Nat /\ rbody[s] \in Seq(Units)
    BY <1>1, <1>2, <1>3 DEF FetchTypeOK, ReaderInOrder, Contents
  <2> QED BY <1>3, <2>1
<1>6. rpos'[s] = rpos[s] + 1 /\ \A t \in Readers : t # s => rpos'[t] = rpos[t]
  BY <1>1, <1>3 DEF FetchTypeOK
<1>7. FetchTypeOK'
  BY <1>1, <1>3, <1>5 DEF FetchTypeOK
<1> DEFINE w == WriteAt(fs[fd[s]], rpos[s], <<rbody[s][rpos[s] + 1]>>)
<1>8. fs' = IF fd[s] = NoFd THEN fs ELSE [fs EXCEPT ![fd[s]] = w]
  BY DEF FillUnit, WriteFd
<1>9. fd[s] # NoFd => w \in Contents
  <2> SUFFICES ASSUME fd[s] # NoFd PROVE w \in Contents
    OBVIOUS
  <2>1. fs[fd[s]] \in Contents
    BY <1>1 DEF StorageTypeOK, OpenFileExists
  <2> QED BY <1>5, <2>1, WriteUnit
<1> HIDE DEF w
<1>10. PICK c \in Contents : /\ fs' = IF fd[s] = NoFd THEN fs ELSE [fs EXCEPT ![fd[s]] = c]
                             /\ fd[s] # NoFd => c = w
  BY <1>8, <1>9, EmptyContent
<1>11. /\ fs' \in [Paths -> Contents \cup {NoFile}]
       /\ \A p \in Paths : p # fd[s] => fs'[p] = fs[p]
       /\ fd[s] # NoFd => fd[s] \in Paths /\ fs'[fd[s]] = c
       /\ \A p \in Paths : fs'[p] = NoFile <=> fs[p] = NoFile
  BY <1>1, <1>10, WriteFacts
<1>12. StorageTypeOK'
  BY <1>1, <1>3, <1>11 DEF StorageTypeOK
<1>13. OpenFileExists'
  BY <1>1, <1>3, <1>11 DEF OpenFileExists, StorageTypeOK
<1>14. FdsOwned'
  <2> SUFFICES ASSUME NEW t \in Slots, fd[t] # NoFd
               PROVE  (FdOfUpload(t) \/ FdOfFetch(t) \/ FdOfEdit(t))'
    BY <1>3 DEF FdsOwned
  <2>1. FdOfUpload(t) => FdOfUpload(t)'
    BY <1>3, <1>4 DEF FdOfUpload, NameOf
  <2>2. FdOfFetch(t) => FdOfFetch(t)'
    BY <1>3 DEF FdOfFetch, Local
  <2>3. FdOfEdit(t) => FdOfEdit(t)'
    BY <1>3, <1>4 DEF FdOfEdit
  <2> QED BY <2>1, <2>2, <2>3 DEF ServerInv, FdsOwned
<1>15. DataFilesRight'
  <2> SUFFICES ASSUME NEW m \in Names, Undisturbed(m)' PROVE DataRight(m)'
    BY DEF DataFilesRight
  <2>1. DataRight(m) /\ Undisturbed(m) /\ File(m) \in Paths /\ File(m) # NoFd
    BY <1>3, <1>4, PathFacts, StorageAssumption DEF ServerInv, DataFilesRight, Undisturbed
  <2>2. CASE fd[s] = File(m)
    <3>1. fs'[File(m)] = WriteAt(fs[File(m)], rpos[s], <<rbody[s][rpos[s] + 1]>>)
      BY <1>10, <1>11, <2>1, <2>2 DEF w
    <3> QED BY <1>3, <1>6, <2>1, <2>2, <3>1, FillUnitData
  <2>3. CASE fd[s] # File(m)
    <3>1. fs'[File(m)] = fs[File(m)]
      BY <1>11, <2>1, <2>3
    <3> QED BY <1>3, <1>6, <2>1, <2>3, <3>1, DataFrame
  <2> QED BY <2>2, <2>3
<1>16. \A m \in Names : fs'[Tmp(m)] = fs[Tmp(m)]
  <2>1. fd[s] # NoFd => fd[s] = Local(s) /\ rname[s] \in Names
    BY <1>1, SlotKinds DEF ServerInv, FdsOwned, FdOfUpload, FdOfFetch, FdOfEdit, FetchTypeOK
  <2>2. \A m \in Names : Tmp(m) \in Paths /\ Tmp(m) # fd[s]
    BY <2>1, PathFacts, StorageAssumption DEF Local, LocalPath
  <2> QED BY <1>11, <2>2
<1>17. ReaderInOrder(s)' /\ ReaderRight(s)' /\ AnsweredRight(s)'
  <2>1. Len(rbody[s]) \in Nat
    BY <1>5
  <2>2. rpos'[s] <= Len(rbody[s])
    BY <1>3, <1>5, <1>6, <2>1
  <2> QED BY <1>2, <1>3, <1>4, <2>2 DEF ReaderInOrder, ReaderRight, AnsweredRight, Undisturbed
<1> QED BY <1>3, <1>6, <1>7, <1>12, <1>13, <1>14, <1>15, <1>16, <1>17, ReadTurnFrame

(* A thread that is done leaves the file to the others that fill it.  If it *)
(* is the one that had closed all holes, the file is whole now, and what    *)
(* the others still write is what is there.                                 *)
LEMMA FillDoneData ==
    ASSUME ServerInv, NEW s \in Readers, NEW n \in Names, Undisturbed(n),
           rpc[s] = "fill", fd[s] = File(n), rpos[s] = Len(rbody[s]),
           fs' = fs, rpos' = rpos, fd'[s] # File(n),
           \A t \in Readers : t # s => rpc'[t] = rpc[t] /\ fd'[t] = fd[t]
    PROVE  DataRight(n)'
<1> DEFINE c == fs[File(n)]
           b == Body[n]
<1>1. rpos[s] \in Nat /\ rpos[s] = Len(b)
  BY FillerFacts
<1>2. b \in Contents /\ Len(b) \in Nat
  BY StorageAssumption DEF Contents
<1>3. Filling(File(n))
  BY DEF Filling
<1>4. Partial(c, n) /\ c \in Contents /\ Len(c) <= Len(b)
  BY <1>3 DEF ServerInv, DataFilesRight, DataRight, Partial
<1>5. PICK t \in Readers : FilledBy(t, n)
  BY <1>3 DEF ServerInv, DataFilesRight, DataRight
<1>6. CASE t # s
  <2>1. FilledBy(t, n)'
    BY <1>5, <1>6 DEF FilledBy, Begins, File
  <2>2. Filling(File(n))'
    BY <2>1 DEF Filling, FilledBy, File
  <2> QED BY <1>4, <2>1, <2>2 DEF DataRight, Partial, File
<1>7. CASE t = s
  <2>1. c = b
    BY <1>1, <1>4, <1>5, <1>7, BeginsWhole DEF FilledBy
  <2>2. CASE Filling(File(n))'
    <3>1. PICK v \in Readers : rpc'[v] = "fill" /\ fd'[v] = File(n)
      BY <2>2 DEF Filling, File
    <3>2. rpc[v] = "fill" /\ fd[v] = File(n)
      BY <3>1
    <3>3. rpos[v] \in Nat /\ rpos[v] <= Len(b)
      BY <3>2, FillerFacts
    <3>4. FilledBy(v, n)'
      BY <2>1, <3>1, <3>3 DEF FilledBy, Begins, File
    <3> QED BY <1>4, <2>2, <3>4 DEF DataRight, Partial, File
  <2>3. CASE ~Filling(File(n))'
    BY <2>1, <2>3 DEF DataRight, File
  <2> QED BY <2>2, <2>3
<1> QED BY <1>6, <1>7

(* The whole object is written: the file is closed. *)
LEMMA FillDoneInv ==
    ASSUME ServerInv, NEW s \in Readers, ReadTurn(s), FillDone(s)
    PROVE  ServerInv'
<1>1. FetchTypeOK /\ StorageTypeOK /\ OpenFileExists /\ s \in Slots
  BY SlotKinds DEF ServerInv, ServerTypeOK, UploadTypeOK
<1>2. ReaderInOrder(s) /\ ReaderRight(s)
  BY DEF ServerInv, ReadersRight
<1>3. /\ rpc[s] = "fill" /\ rpos[s] = Len(rbody[s])
      /\ fd' = [fd EXCEPT ![s] = NoFd] /\ rpc' = [rpc EXCEPT ![s] = "exists"]
      /\ UNCHANGED <<fs, dirs, ceph, rkind, rname, rbody, rpos, rout, rresp, torn>>
  BY DEF FillDone, CloseFd, Goto
<1>4. UNCHANGED <<upc, ureq, raced>> /\ UNCHANGED <<epc, epath>>
  <2>1. UNCHANGED <<uploadVars, editVars>>
    BY DEF ReadTurn
  <2> QED BY <2>1 DEF uploadVars, editVars
<1>5. /\ StorageTypeOK' /\ fd'[s] = NoFd /\ \A t \in Slots : t # s => fd'[t] = fd[t]
  BY <1>1, <1>3 DEF StorageTypeOK
<1>6. /\ FetchTypeOK' /\ rpc'[s] = "exists" /\ \A t \in Readers : t # s => rpc'[t] = rpc[t]
  BY <1>1, <1>3 DEF FetchTypeOK, FetchPc
<1>7. OpenFileExists'
  BY <1>1, <1>3, <1>5 DEF OpenFileExists
<1>8. FdsOwned'
  <2> SUFFICES ASSUME NEW t \in Slots, fd'[t] # NoFd
               PROVE  (FdOfUpload(t) \/ FdOfFetch(t) \/ FdOfEdit(t))'
    BY DEF FdsOwned
  <2>0. t # s /\ fd'[t] = fd[t]
    BY <1>5
  <2>1. FdOfUpload(t) => FdOfUpload(t)'
    BY <1>4, <2>0 DEF FdOfUpload, NameOf
  <2>2. FdOfFetch(t) => FdOfFetch(t)'
    BY <1>3, <1>6, <2>0 DEF FdOfFetch, Local
  <2>3. FdOfEdit(t) => FdOfEdit(t)'
    BY <1>4, <2>0 DEF FdOfEdit
  <2> QED BY <2>0, <2>1, <2>2, <2>3 DEF ServerInv, FdsOwned
<1>9. DataFilesRight'
  <2> SUFFICES ASSUME NEW m \in Names, Undisturbed(m)' PROVE DataRight(m)'
    BY DEF DataFilesRight
  <2>1. DataRight(m) /\ Undisturbed(m) /\ File(m) # NoFd
    BY <1>3, <1>4, PathFacts, StorageAssumption DEF ServerInv, DataFilesRight, Undisturbed
  <2>2. CASE fd[s] = File(m)
    <3>1. fd'[s] # File(m) /\ \A t \in Readers : t # s => rpc'[t] = rpc[t] /\ fd'[t] = fd[t]
      BY <1>5, <1>6, <2>1, SlotKinds
    <3> QED BY <1>3, <2>1, <2>2, <3>1, FillDoneData
  <2>3. CASE fd[s] # File(m)
    <3>1. \A t \in Readers : (rpc'[t] = "fill" /\ fd'[t] = File(m))
                                <=> (rpc[t] = "fill" /\ fd[t] = File(m))
      BY <1>5, <1>6, <2>3, SlotKinds
    <3> QED BY <1>3, <2>1, <3>1, DataFrame
  <2> QED BY <2>2, <2>3
<1>10. ReaderInOrder(s)' /\ ReaderRight(s)' /\ AnsweredRight(s)'
  BY <1>2, <1>3, <1>6 DEF ReaderInOrder, ReaderRight, AnsweredRight
<1> QED BY <1>3, <1>5, <1>6, <1>7, <1>8, <1>9, <1>10, ReadTurnFrame

LEMMA ReadTurnInv ==
    ASSUME ServerInv, NEW s \in Readers, ReadTurn(s)
    PROVE  ServerInv'
<1>1. ReadBegin(s) => \E k \in AllReadKinds, n \in Names : Lookup(s, k, n)
  BY DEF ReadBegin, FileChunkedDownloadCallback, FileGetMetadataCallback, FileHeadCallback,
     TempFileDownloadCallback, AllReadKinds
<1>2. ReadBegin(s) \/ ReadStep(s)
  BY DEF ReadTurn
<1> QED BY <1>1, <1>2, LookupInv, AskCephInv, DownloadInv, OpenLocalInv, FillUnitInv, FillDoneInv,
           CheckLocalInv, StreamChunkInv, SendMetadataInv DEF ReadStep

---------------------------------------------------------------------------
(* Every step of the server keeps ServerInv. *)
LEMMA ServerStepInv == ServerInv /\ [ServerNext]_vars => ServerInv'
<1> SUFFICES ASSUME ServerInv, [ServerNext]_vars PROVE ServerInv'
  OBVIOUS
<1>1. CASE \E u \in Uploaders : UploadTurn(u)
  BY <1>1, UploadTurnInv
<1>2. CASE \E s \in Readers : ReadTurn(s)
  BY <1>2, ReadTurnInv
<1>3. CASE \E s \in Editors : EditTurn(s)
  BY <1>3, EditTurnInv
<1>4. CASE SyncTurn
  BY <1>4, SyncTurnInv
<1>5. CASE ServerRestart
  <2>1. Died /\ fs' = fs /\ dirs' = dirs /\ dirs \subseteq Dirs
    BY <1>5 DEF ServerRestart, ServerInv, ServerTypeOK, UploadTypeOK, StorageTypeOK
  <2> QED BY <2>1, DiedInv
<1>6. CASE Redeploy
  <2>1. Died /\ fs' = [p \in Paths |-> NoFile] /\ dirs' \subseteq Dirs
    BY <1>6, StorageAssumption DEF Redeploy
  <2> QED BY <2>1, DiedInv
<1>7. CASE UNCHANGED vars
  <2>1. /\ UNCHANGED <<fs, fd, dirs, ceph, restarts, mixed>>
        /\ UNCHANGED <<rpc, rkind, rname, rbody, rpos, rout, rresp, torn>>
        /\ UNCHANGED <<upc, ureq, uparts, upiece, uresp, begun, raced, ufresh, ulost>>
        /\ UNCHANGED <<epc, epath, ebody, eresp>> /\ UNCHANGED <<spc, sbucket, slist, scur>>
    BY <1>7 DEF vars, storageVars, fetchVars, uploadVars, editVars, syncVars
  <2>2. ServerTypeOK'
    BY <2>1 DEF ServerInv, ServerTypeOK, UploadTypeOK, StorageTypeOK, CephTypeOK, FetchTypeOK,
       EditTypeOK, SyncTypeOK
  <2>3. OpenFileExists' /\ EditPaths' /\ OverlapIsRaced' /\ CheckedIsRight'
    BY <2>1 DEF ServerInv, OpenFileExists, EditPaths, OverlapIsRaced, CheckedIsRight, Active,
       NameOf, File, Meta, Tmp
  <2>4. FdsOwned'
    <3> SUFFICES ASSUME NEW t \in Slots, fd[t] # NoFd
                 PROVE  (FdOfUpload(t) \/ FdOfFetch(t) \/ FdOfEdit(t))'
      BY <2>1 DEF FdsOwned
    <3>1. FdOfUpload(t) => FdOfUpload(t)'
      BY <2>1 DEF FdOfUpload, NameOf
    <3>2. FdOfFetch(t) => FdOfFetch(t)'
      BY <2>1 DEF FdOfFetch, Local
    <3>3. FdOfEdit(t) => FdOfEdit(t)'
      BY <2>1 DEF FdOfEdit
    <3> QED BY <3>1, <3>2, <3>3 DEF ServerInv, FdsOwned
  <2>5. ReadersRight' /\ CephIntegrity' /\ DownloadIntegrity'
    BY <2>1, ReadersFrame, CephFrame, DownloadFrame DEF ServerInv
  <2>6. DataFilesRight'
    <3> SUFFICES ASSUME NEW n \in Names, Undisturbed(n)' PROVE DataRight(n)'
      BY DEF DataFilesRight
    <3>1. DataRight(n)
      BY <2>1 DEF ServerInv, DataFilesRight, Undisturbed
    <3> QED BY <2>1, <3>1, DataFrame
  <2> QED BY <2>2, <2>3, <2>4, <2>5, <2>6 DEF ServerInv
<1> QED BY <1>1, <1>2, <1>3, <1>4, <1>5, <1>6, <1>7 DEF ServerNext

---------------------------------------------------------------------------
(* ServerInv is an invariant of the whole server: uploads, downloads, edits *)
(* and the Ceph thread (transfer.cpp, main.cpp) in any interleaving, with   *)
(* restarts and redeployments at any moment.                                *)
THEOREM ServerInvariant == ServerSpec => []ServerInv
<1>1. ServerInit => ServerInv
  BY ServerInitInv
<1>2. ServerInv /\ [ServerNext]_vars => ServerInv'
  BY ServerStepInv
<1> QED BY <1>1, <1>2, PTL DEF ServerSpec

(* Every variable of the server keeps its type. *)
THEOREM ServerTypeCorrect == ServerSpec => []ServerTypeOK
<1>1. ServerInv => ServerTypeOK
  BY DEF ServerInv
<1> QED BY <1>1, ServerInvariant, PTL

(* Although GET fills the cache at the final path, unit by unit, with any   *)
(* number of GETs filling one file at once (downloadFile), the data file of *)
(* an undisturbed name is whole and right whenever nobody is filling it.    *)
THEOREM ServerCacheIntegrity == ServerSpec => []CacheIntegrity
<1>1. ServerInv => CacheIntegrity
  BY DEF ServerInv, DataFilesRight, DataRight, CacheIntegrity
<1> QED BY <1>1, ServerInvariant, PTL

(* What s3_upload_files has copied to Ceph of an undisturbed name is whole  *)
(* and right.                                                               *)
THEOREM ServerCephIntegrity == ServerSpec => []CephIntegrity
<1>1. ServerInv => CephIntegrity
  BY DEF ServerInv
<1> QED BY <1>1, ServerInvariant, PTL

(* A download of an undisturbed name that reached its end delivered the     *)
(* content that names it, whatever became of the file between the chunks    *)
(* (FileChunkedDownloadCallback's provider).                                *)
THEOREM ServerDownloadIntegrity == ServerSpec => []DownloadIntegrity
<1>1. ServerInv => DownloadIntegrity
  BY DEF ServerInv
<1> QED BY <1>1, ServerInvariant, PTL
---------------------------------------------------------------------------
(* A file of an undisturbed name, whole or being filled, is not longer than *)
(* the named content.                                                       *)
LEMMA DataNotLonger ==
    ASSUME ServerInv, NEW n \in Names, Undisturbed(n), fs[File(n)] # NoFile
    PROVE  fs[File(n)] \in Contents /\ Len(fs[File(n)]) <= Len(Body[n])
<1>1. DataRight(n) /\ Body[n] \in Contents
  BY StorageAssumption DEF ServerInv, DataFilesRight
<1>2. Len(Body[n]) \in Nat
  BY <1>1 DEF Contents
<1> QED BY <1>1, <1>2 DEF DataRight, Partial

(* A call of the provider that does not end the download. *)
LEMMA ChunkAdvances ==
    ASSUME ServerInv, NEW s \in Readers, StreamChunk(s), rpc'[s] = "stream",
           Undisturbed(rname[s])
    PROVE  Len(rout[s]) < Len(rout'[s]) /\ Len(rout'[s]) < Len(Body[rname[s]])
<1> DEFINE c == fs[Local(s)]
           o == rout[s]
           from == Len(o)
           upto == IF Len(c) - from > ChunkSize THEN from + ChunkSize ELSE Len(c)
           sent == o \o SubSeq(c, from + 1, upto)
           n == rname[s]
<1>1. FetchTypeOK /\ ReaderInOrder(s)
  BY DEF ServerInv, ServerTypeOK, ReadersRight
<1>2. rpc[s] = "stream" /\ ~FetchReply(s, Aborted) /\ ~FetchReply(s, Delivered(sent))
  BY <1>1 DEF StreamChunk, FetchReply, FetchTypeOK
<1>3. /\ c # NoFile /\ from < Len(c) /\ upto < Len(c)
      /\ rout' = [rout EXCEPT ![s] = sent]
  BY <1>2 DEF StreamChunk
<1>4. n \in Names /\ Local(s) = File(n)
  BY <1>1, <1>2 DEF FetchTypeOK, ReaderInOrder, Serve, Local, LocalPath
<1>5. c \in Contents /\ Len(c) <= Len(Body[n])
  BY <1>3, <1>4, DataNotLonger
<1>6. /\ o \in Contents /\ from \in Nat /\ Len(c) \in Nat /\ Len(Body[n]) \in Nat
      /\ rout'[s] = sent
  <2>1. o \in Contents /\ Body[n] \in Contents
    BY <1>1, <1>4, StorageAssumption DEF FetchTypeOK
  <2>2. rout'[s] = sent
    <3> HIDE DEF sent
    <3> QED BY <1>1, <1>3 DEF FetchTypeOK
  <2>3. \A x \in Contents : Len(x) \in Nat
    BY DEF Contents
  <2> QED BY <1>5, <2>1, <2>2, <2>3
<1>7. upto \in Nat /\ from < upto
  <2>1. from < Len(c) /\ ChunkSize \in Nat \ {0}
    BY <1>3, FetchAssumption
  <2> HIDE DEF from, c
  <2> QED BY <1>6, <2>1
<1>8. Len(sent) = upto
  <2> HIDE DEF upto, c
  <2>1. Len(o) < upto /\ upto <= Len(c)
    BY <1>3, <1>6, <1>7
  <2> HIDE DEF o
  <2> QED BY <1>5, <1>6, <1>7, <2>1, ChunkSent
<1> HIDE DEF upto, sent
<1>9. from < Len(sent) /\ Len(sent) < Len(Body[n])
  BY <1>3, <1>5, <1>6, <1>7, <1>8
<1> QED BY <1>6, <1>9

(* No other step changes what a download that goes on has sent.             *)
LEMMA AdvanceStep ==
    ASSUME ServerInv, [ServerNext]_vars, NEW s \in Readers,
           rpc[s] = "stream", rpc'[s] = "stream", rout'[s] # rout[s], Undisturbed(rname[s])
    PROVE  Len(rout[s]) < Len(rout'[s]) /\ Len(rout'[s]) < Len(Body[rname[s]])
<1>1. FetchTypeOK
  BY DEF ServerInv, ServerTypeOK
<1>2. UNCHANGED fetchVars => FALSE
  BY DEF fetchVars
<1>3. ~\E u \in Uploaders : UploadTurn(u)
  BY <1>2 DEF UploadTurn
<1>4. ~\E e \in Editors : EditTurn(e)
  BY <1>2 DEF EditTurn
<1>5. ~SyncTurn
  BY DEF SyncTurn
<1>6. ~ServerRestart /\ ~Redeploy
  <2>1. ~FetchReset
    BY DEF FetchReset
  <2> QED BY <2>1 DEF ServerRestart, Redeploy, Died
<1>7. ~UNCHANGED vars
  BY <1>2 DEF vars
<1>8. PICK r \in Readers : ReadTurn(r)
  BY <1>3, <1>4, <1>5, <1>6, <1>7 DEF ServerNext
<1>9. ASSUME NEW k, NEW n, Lookup(r, k, n) PROVE FALSE
  BY <1>9 DEF Lookup
<1>10. ~ReadBegin(r)
  BY <1>9 DEF ReadBegin, FileChunkedDownloadCallback, FileGetMetadataCallback, FileHeadCallback,
     TempFileDownloadCallback
<1>11. ReadStep(r)
  BY <1>8, <1>10 DEF ReadTurn
<1>12. r = s
  BY <1>1, <1>11 DEF ReadStep, AskCeph, Download, OpenLocal, FillUnit, FillDone, CheckLocal,
     StreamChunk, SendMetadata, FetchReply, FetchTypeOK
<1>13. StreamChunk(s)
  BY <1>11, <1>12 DEF ReadStep, AskCeph, Download, OpenLocal, FillUnit, FillDone, CheckLocal,
     SendMetadata
<1> QED BY <1>13, ChunkAdvances

(* A call of FileChunkedDownloadCallback's provider ends the download or    *)
(* sends some more of a content it has not sent all of, whatever became of  *)
(* the file since the last call: a download is a finite number of calls.    *)
THEOREM ServerDownloadAdvances == ServerSpec => DownloadAdvances
<1>1. ServerInv /\ [ServerNext]_vars =>
        [\A s \in Readers :
           rpc[s] = "stream" /\ rpc'[s] = "stream" /\ rout'[s] # rout[s] /\ Undisturbed(rname[s])
              => /\ Len(rout[s]) < Len(rout'[s])
                 /\ Len(rout'[s]) < Len(Body[rname[s]])]_vars
  BY AdvanceStep
<1> QED BY <1>1, ServerInvariant, PTL DEF ServerSpec, DownloadAdvances
===========================================================================
